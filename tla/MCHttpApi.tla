----------------------------- MODULE MCHttpApi ------------------------------
(***************************************************************************)
(* Instances of HttpApi, and of ErrorClasses beside it: a behaviour is that *)
(* of requests, or that of failures on their way to an answer.              *)
(***************************************************************************)
EXTENDS HttpApi, ErrorClasses, TLC

Header == [wellFormed |-> TRUE, signatures |-> 1, alg |-> "RS256", kid |-> "k",
           keyAlg |-> "RS256", signed |-> TRUE]
Claims == [iss |-> "issuer", aud |-> {"wagering"}, sub |-> "s", exp |-> 1, nbf |-> Nil,
           iat |-> Nil, roles |-> {"provider"}, providerId |-> "p1"]

(* One header or claim written otherwise than the good token has it. *)
Headers == {Header, [Header EXCEPT !.wellFormed = FALSE], [Header EXCEPT !.signatures = 2],
            [Header EXCEPT !.alg = "HS256"], [Header EXCEPT !.kid = Nil],
            [Header EXCEPT !.keyAlg = "PS256"], [Header EXCEPT !.keyAlg = Nil],
            [Header EXCEPT !.signed = FALSE]}
Windows == {[Claims EXCEPT !.exp = e, !.nbf = b, !.iat = i] :
              e \in {Nil, 0, 1, 3}, b \in {Nil, 1, 3}, i \in {Nil, 3}}
Grants == {[Claims EXCEPT !.roles = r, !.providerId = p] :
             r \in SUBSET {"provider", "internal", "other"}, p \in {"p1", "p2", Nil}}
Others == {[Claims EXCEPT !.iss = "other"], [Claims EXCEPT !.aud = {"other"}],
           [Claims EXCEPT !.aud = {"other", "wagering"}], [Claims EXCEPT !.sub = Nil]}

Presented == {Header @@ c : c \in Windows \cup Grants \cup Others} \cup {h @@ Claims : h \in Headers}

-----------------------------------------------------------------------------
BesidesInit ==
  /\ Init
  /\ \/ origin = Nil /\ err = Nil /\ at = Nil /\ answer = Nil
     \/ FailureInit /\ \A n \in Checks : health[n] = "up"

BesidesNext ==
  \/ origin = Nil /\ Next /\ UNCHANGED failure
  \/ origin # Nil /\ FailureNext /\ UNCHANGED vars

BesidesSpec == BesidesInit /\ [][BesidesNext]_<<vars, failure>> /\ WF_vars(Step)
=============================================================================
