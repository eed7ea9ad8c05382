------------------------------- MODULE KeySet -------------------------------
(***************************************************************************)
(* The issuer's signing keys as the API process caches them                 *)
(* (internal/adapters/oidc/keys.go): one cache behind a mutex, callers that *)
(* miss in it and join the fetch in flight, are declined by the rate limit, *)
(* or start the next fetch, and an issuer that rotates its keys meanwhile.  *)
(*                                                                         *)
(* The code reads one clock, the wall clock, and only ever compares now     *)
(* with the last fetch, so the model keeps the difference, age, in ticks.   *)
(* It is capped at MinInterval, past which the code cannot tell ages apart, *)
(* and a clock set back makes it negative.                                  *)
(***************************************************************************)
EXTENDS Naturals, Integers, Sequences, SequencesExt, FiniteSets

CONSTANTS
  Callers,       \* requests being authenticated
  Kids,          \* key identifiers, as tokens and published entries carry them
  Documents,     \* JWKS documents the issuer publishes over its life
  MinInterval,   \* ticks between two fetches
  MaxStep,       \* bound: how far one clock correction sets the clock back
  MaxSteps,      \* bound: clock corrections
  MaxRotations,  \* bound: times the issuer publishes another document
  Nil            \* no key identifier, no outcome

(* What a published set is made of, as far as verifyingKeys looks at it. *)
Entries == [kid : Kids \cup {Nil}, type : {"RSA", "oct"}, use : {"sig", "enc", Nil}]

ASSUME KeySetAssumption ==
  /\ MinInterval \in Nat \ {0}
  /\ MaxStep \in Nat /\ MaxSteps \in Nat /\ MaxRotations \in Nat
  /\ Nil \notin Kids
  /\ Documents \subseteq SUBSET Entries

VARIABLES
  document,   \* external: what the issuer publishes
  keys,       \* keySet.keys: the identifiers held
  age,        \* now - keySet.lastFetch
  inflight,   \* keySet.inflight # nil
  fetches,    \* the runRefresh goroutines, each with what its fetch has returned
  call,       \* a request's place in keySet.key
  up,         \* OnStart has returned
  steps, rotations,  \* clock corrections and rotations so far
  elapsed,    \* history: ticks since a fetch last finished
  waited      \* history: ticks since the rate limit began to decline; Nil: it does not

vars == <<document, keys, age, inflight, fetches, call, up, steps, rotations, elapsed, waited>>

Places == {"idle", "missed", "waiting", "woken", "found", "unknown", "declined", "gone"}
Failed == {}
Reading == Nil

(* An issuer publishes some document; nothing has been fetched. *)
Init ==
  /\ document \in Documents
  /\ keys = {} /\ age = MinInterval /\ inflight = FALSE /\ fetches = <<>>
  /\ call = [c \in Callers |-> [at |-> "idle", kid |-> Nil]]
  /\ up = FALSE /\ steps = 0 /\ rotations = 0
  /\ elapsed = MinInterval /\ waited = Nil

(* What a published set contributes: entries that carry an identifier, are  *)
(* not a shared secret and are not meant for something other than signing.  *)
verifyingKeys(published) ==
  {e.kid : e \in {x \in published : /\ x.kid # Nil
                                    /\ x.type # "oct"
                                    /\ x.use \in {"sig", Nil}}}

(* A fetch: discovery, the request and the reading of the answer may each   *)
(* fail or run out of the fetch timeout, and a document with no usable key  *)
(* is a failed fetch too.                                                   *)
fetch == {Failed, verifyingKeys(document)}

cached(kid) == kid \in keys

-----------------------------------------------------------------------------
(* OnStart.  A fetch that fails here fails the process's start. *)
prime ==
  /\ ~up
  /\ \E got \in fetch \ {Failed} :
       keys' = got
  /\ age' = 0 /\ elapsed' = 0 /\ up' = TRUE
  /\ UNCHANGED <<document, inflight, fetches, call, steps, rotations, waited>>

(* key, the first lookup. *)
key(c, kid) ==
  /\ up /\ call[c].at = "idle"
  /\ call' = [call EXCEPT ![c] = [at |-> IF cached(kid) THEN "found" ELSE "missed", kid |-> kid]]
  /\ UNCHANGED <<document, keys, age, inflight, fetches, up, steps, rotations, elapsed, waited>>

(* startRefresh, one critical section: join, or decline, or start. *)
Join(c) ==
  /\ call' = [call EXCEPT ![c].at = "waiting"]
  /\ UNCHANGED <<age, inflight, fetches, waited>>

AgeAsRead == age
Age == IF age < 0 THEN 0 ELSE age  \* lastFetch = now when now is before it

(* A mutant: a declined refresh is stamped as if it had been made. *)
DeclineAndStamp(c) ==
  /\ Age < MinInterval
  /\ age' = 0
  /\ call' = [call EXCEPT ![c].at = "declined"]
  /\ waited' = IF waited = Nil THEN 0 ELSE waited
  /\ UNCHANGED <<inflight, fetches>>

Decline(c) ==
  /\ Age < MinInterval
  /\ age' = Age
  /\ call' = [call EXCEPT ![c].at = "declined"]
  /\ waited' = IF waited = Nil THEN 0 ELSE waited
  /\ UNCHANGED <<inflight, fetches>>

Begin(c) ==
  /\ Age >= MinInterval
  /\ inflight' = TRUE
  /\ fetches' = Append(fetches, Reading)
  /\ call' = [call EXCEPT ![c].at = "waiting"]
  /\ waited' = Nil
  /\ UNCHANGED age

startRefresh(c) ==
  /\ call[c].at = "missed"
  /\ \/ inflight /\ Join(c)
     \/ ~inflight /\ (Decline(c) \/ Begin(c))
  /\ UNCHANGED <<document, keys, up, steps, rotations, elapsed>>

(* runRefresh: the fetch returns, on a context of its own ... *)
Fetched(i) ==
  /\ fetches[i] = Reading
  /\ \E got \in fetch : fetches' = [fetches EXCEPT ![i] = got]
  /\ UNCHANGED <<document, keys, age, inflight, call, up, steps, rotations, elapsed, waited>>

(* ... and is recorded: the stamp whatever it returned, the keys only if it *)
(* succeeded; closing the channel wakes whoever waits on it.                *)
NobodyWoken == call  \* a mutant: the channel is never closed
Woken == [c \in Callers |-> IF call[c].at = "waiting" THEN [call[c] EXCEPT !.at = "woken"]
                            ELSE call[c]]

Record(i, stamp, kept) ==
  /\ fetches[i] # Reading
  /\ age' = stamp /\ keys' = kept
  /\ inflight' = FALSE /\ fetches' = RemoveAt(fetches, i)
  /\ call' = Woken
  /\ elapsed' = 0 /\ waited' = Nil
  /\ UNCHANGED <<document, up, steps, rotations>>

StampOnSuccess(i) == IF fetches[i] = Failed THEN Record(i, age, keys) ELSE Record(i, 0, fetches[i])

runRefresh(i) == Record(i, 0, IF fetches[i] = Failed THEN keys ELSE fetches[i])

(* key, after the wait: the caller's own context, or the second lookup. *)
leave(c) ==
  /\ call[c].at \in {"waiting", "woken"}
  /\ call' = [call EXCEPT ![c].at = "gone"]
  /\ UNCHANGED <<document, keys, age, inflight, fetches, up, steps, rotations, elapsed, waited>>

lookAgain(c) ==
  /\ call[c].at = "woken"
  /\ call' = [call EXCEPT ![c].at = IF cached(call[c].kid) THEN "found" ELSE "unknown"]
  /\ UNCHANGED <<document, keys, age, inflight, fetches, up, steps, rotations, elapsed, waited>>

(* The request is over. *)
answer(c) ==
  /\ call[c].at \in {"found", "unknown", "declined", "gone"}
  /\ call' = [call EXCEPT ![c] = [at |-> "idle", kid |-> Nil]]
  /\ UNCHANGED <<document, keys, age, inflight, fetches, up, steps, rotations, elapsed, waited>>

-----------------------------------------------------------------------------
(* The world: time, the host's clock, the issuer. *)
Tick ==
  /\ age' = IF age < MinInterval THEN age + 1 ELSE age
  /\ elapsed' = IF elapsed < MinInterval THEN elapsed + 1 ELSE elapsed
  /\ waited' = IF waited = Nil \/ waited = MinInterval THEN waited ELSE waited + 1
  /\ UNCHANGED <<document, keys, inflight, fetches, call, up, steps, rotations>>

SetBack ==
  /\ up /\ steps < MaxSteps
  /\ \E by \in 1 .. MaxStep : age' = age - by
  /\ steps' = steps + 1
  /\ waited' = Nil
  /\ UNCHANGED <<document, keys, inflight, fetches, call, up, rotations, elapsed>>

Rotate ==
  /\ rotations < MaxRotations
  /\ \E d \in Documents \ {document} : document' = d
  /\ rotations' = rotations + 1
  /\ UNCHANGED <<keys, age, inflight, fetches, call, up, steps, elapsed, waited>>

Request(c) == \/ \E kid \in Kids : key(c, kid)
              \/ startRefresh(c) \/ leave(c) \/ lookAgain(c) \/ answer(c)
Refresh == \E i \in 1 .. Len(fetches) : Fetched(i) \/ runRefresh(i)

Next == prime \/ (\E c \in Callers : Request(c)) \/ Refresh \/ Tick \/ SetBack \/ Rotate

Spec == Init /\ [][Next]_vars

(* A goroutine that can run does, time passes, requests take their steps,   *)
(* and an issuer asked again and again answers one time.                    *)
Succeeds(i) == Fetched(i) /\ fetches'[i] # Failed
Fairness ==
  /\ \A c \in Callers : WF_vars(startRefresh(c)) /\ WF_vars(lookAgain(c)) /\ WF_vars(answer(c))
  /\ WF_vars(Refresh) /\ WF_vars(Tick)
  /\ SF_vars(\E i \in 1 .. Len(fetches) : Succeeds(i))
FairSpec == Spec /\ Fairness

-----------------------------------------------------------------------------
(* The shape of the state. *)
TypeOK ==
  /\ document \in SUBSET Entries /\ keys \in SUBSET Kids
  /\ age \in -(MaxStep * MaxSteps) .. MinInterval
  /\ inflight \in BOOLEAN /\ up \in BOOLEAN
  /\ \A i \in 1 .. Len(fetches) : fetches[i] \in {Reading} \cup SUBSET Kids
  /\ call \in [Callers -> [at : Places, kid : Kids \cup {Nil}]]

(* The issuer is asked at most once per MinInterval of real time, whether   *)
(* the fetches succeed or fail and however often the host's clock is set    *)
(* back in between.                                                         *)
IssuerIsNotHammered == [][Len(fetches') > Len(fetches) => elapsed >= MinInterval]_vars

(* A run of declined refreshes ends within one interval of its first, also  *)
(* after a clock correction: "costs one interval and no more"               *)
(* (keys_test.go).                                                          *)
DeclineIsBounded ==
  [][\A c \in Callers : call[c].at # "declined" /\ call'[c].at = "declined" =>
       waited = Nil \/ waited < MinInterval]_vars

(* Every request that missed is answered, whatever becomes of the fetch.    *)
EveryCallEnds ==
  \A c \in Callers : call[c].at \in {"missed", "waiting", "woken"} ~> call[c].at = "idle"

(* A rotation is picked up: a key that stays published is, from some time   *)
(* on, no longer missed.                                                    *)
RotationIsPickedUp ==
  \A kid \in Kids :
    <>[](kid \in verifyingKeys(document)) =>
      <>[](\A c \in Callers : call[c] # [at |-> "missed", kid |-> kid])
=============================================================================
