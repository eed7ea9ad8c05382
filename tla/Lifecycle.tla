------------------------------ MODULE Lifecycle ------------------------------
(***************************************************************************)
(* The life of one process, cmd/api or cmd/worker, as package fxmod builds *)
(* it: the configuration is read, the graph is built, the start hooks run  *)
(* in the order they were appended, the server or the loops work, and      *)
(* after a signal the stop hooks run in the reverse order under one budget.*)
(* A part of the process is the HTTP server or one of the three loops; a   *)
(* request or a turn of a loop is either in the database (it holds a       *)
(* connection of the pool) or in a call that needs none.                   *)
(*                                                                         *)
(* Fx runs the hooks and is external: it starts in append order, rolls     *)
(* back or stops in reverse order one hook at a time, and returns as soon  *)
(* as the context it was given is over, whatever the hooks are doing.      *)
(***************************************************************************)
EXTENDS Naturals, Sequences, FiniteSets

CONSTANT MaxOutages    \* bound: how often the queue service goes away

Loops == {"consumer", "publisher", "reference"}
Parts == Loops \cup {"server"}
Api == {"server"}
Queues == {"inbound", "outbound"}

\* What a process is configured as: the API, or a worker with any of the loops.
Graphs == {Api} \cup SUBSET Loops

VARIABLES phase,        \* where Run is
          graph,        \* the parts of this process
          ran,          \* how many hooks have run and not been stopped
          part,         \* what each part is doing
          cancelled,    \* the parts whose own context Stop has cancelled
          waiting,      \* the hook whose Stop is waiting, or "none"
          late,         \* the parts whose Stop reported an error
          claims,       \* whether the publisher's name is on outbox rows
          pool,         \* the connection pool
          passed,       \* the start-up checks that passed
          provisioned,  \* the queues that exist
          outage,       \* whether the queue service cannot be reached
          outages,      \* how often it could not
          ready,        \* what the last readiness probe said of the queue
          spent,        \* the signal and the budgets that have passed
          exit          \* the exit code

process == <<phase, graph, ran, part, cancelled, waiting, late, claims, pool, passed,
             provisioned, outage, outages, ready, spent, exit>>

world == <<provisioned, outage, outages>>
work == <<part, claims>>

(* The shape of the state. *)
LifeTypeOK ==
    /\ phase \in {"loading", "starting", "rollingback", "serving", "stopping", "exited"}
    /\ graph \in Graphs
    /\ ran \in 0..12
    /\ part \in [Parts -> {"off", "idle", "indatabase", "calling", "returned"}]
    /\ cancelled \subseteq graph /\ late \subseteq cancelled
    /\ waiting \in cancelled \cup {"none", "pool"}
    /\ claims \in BOOLEAN /\ ready \in BOOLEAN /\ outage \in BOOLEAN
    /\ pool \in {"open", "closing", "closed"}
    /\ passed \subseteq Queues \cup {"database", "guard", "keys"}
    /\ provisioned \subseteq Queues /\ outages \in 0..MaxOutages
    /\ spent \subseteq {"signal", "start", "stop"}
    /\ exit \in {"none", "ok", "failed", "config", "unclean"}
    /\ (exit # "none") <=> (phase = "exited")

-----------------------------------------------------------------------------
(* The hooks, in the order they are appended.                              *)

Only(p, g, hooks) == IF p \in g THEN hooks ELSE <<>>

\* Forced before any loop: the queues this worker uses.
checks(g) == Only("consumer", g, <<"inbound">>) \o Only("publisher", g, <<"outbound">>)

\* A mutant: each queue is resolved where its loop asks for it.
WorkerAsBuilt(g) == Only("consumer", g, <<"inbound", "consumer">>)
                      \o Only("publisher", g, <<"outbound", "publisher", "lag">>)
                      \o Only("reference", g, <<"reference">>)

Worker(g) == checks(g) \o Only("consumer", g, <<"consumer">>)
                       \o Only("publisher", g, <<"publisher", "lag">>)
                       \o Only("reference", g, <<"reference">>)

API == <<"keys", "outbound", "server">>

\* A mutant: the pool's hook is appended when its last user is built.
PoolWithItsUsers(g) == <<"logger", "telemetry", "database", "guard">>
                         \o (IF g = Api THEN API ELSE Worker(g)) \o <<"pool">>

\* The pool's hook comes before those of all that is built from the pool.
Hooks(g) == <<"logger", "telemetry", "pool", "database", "guard">>
              \o (IF g = Api THEN API ELSE Worker(g))

Next1 == Hooks(graph)[ran + 1]
Last1 == Hooks(graph)[ran]

\* A process that can report an outage starts in one.
tolerateOutage == graph = Api

-----------------------------------------------------------------------------
(* The contexts.                                                           *)

\* The start-up context: START_TIMEOUT on the context a signal cancels.
startContext == spent \cap {"signal", "start"} # {}

\* The shutdown's own budget keeps nothing of the context the signal cancelled.
stopContext == "stop" \in spent

\* A loop's context is dropped from the start-up context's cancellation: only
\* its Stop ends it.
outlivesStartUp(p) == p \in cancelled

-----------------------------------------------------------------------------
LifeInit ==
    /\ phase = "loading" /\ graph \in Graphs /\ ran = 0
    /\ part = [p \in Parts |-> "off"]
    /\ cancelled = {} /\ waiting = "none" /\ late = {}
    /\ claims = FALSE /\ pool = "open" /\ passed = {}
    /\ provisioned \in SUBSET Queues
    /\ outage = FALSE /\ outages = 0 /\ ready = FALSE
    /\ spent = {} /\ exit = "none"

Exits(code) == /\ phase' = "exited" /\ exit' = code
               /\ UNCHANGED <<graph, ran, cancelled, waiting, late, pool, passed,
                              ready, spent, work, world>>

\* config.Load refuses the environment.
LoadFails == phase = "loading" /\ Exits("config")

\* fx.New: the graph of a worker without loops is an error; constructors fail.
BuildFails == phase = "loading" /\ Exits("failed")

Build ==
    /\ phase = "loading" /\ graph # {}
    /\ phase' = "starting"
    /\ UNCHANGED <<graph, ran, cancelled, waiting, late, pool, passed, ready, spent,
                   exit, work, world>>

-----------------------------------------------------------------------------
(* Start.                                                                  *)

Starting(hooks) == /\ phase = "starting" /\ ~startContext
                   /\ ran < Len(Hooks(graph)) /\ Next1 \in hooks
                   /\ UNCHANGED <<graph, cancelled, waiting, late, claims, pool, ready,
                                  spent, exit, world>>

HookRan == ran' = ran + 1 /\ UNCHANGED phase
HookFailed == phase' = "rollingback" /\ UNCHANGED <<ran, passed>>

NoOnStart == /\ Starting({"logger", "telemetry", "pool", "lag"})
             /\ HookRan /\ UNCHANGED <<part, passed>>

\* The database answers, the connection cannot rewrite the ledger, the key set
\* is fetched; or not.
Check ==
    /\ Starting({"database", "guard", "keys"}) /\ UNCHANGED part
    /\ \/ HookRan /\ passed' = passed \cup {Next1}
       \/ HookFailed

resolveQueue ==
    /\ Starting(Queues) /\ UNCHANGED part
    /\ \/ ~outage /\ Next1 \in provisioned /\ HookRan /\ passed' = passed \cup {Next1}
       \/ outage /\ tolerateOutage /\ HookRan /\ UNCHANGED passed
       \/ outage /\ ~tolerateOutage /\ HookFailed
       \/ ~outage /\ Next1 \notin provisioned /\ HookFailed

StartPart ==
    /\ Starting(Parts)
    /\ \/ HookRan /\ UNCHANGED passed /\ part' = [part EXCEPT ![Next1] = "idle"]
       \/ Next1 = "server" /\ HookFailed /\ UNCHANGED part \* the address is taken

Up ==
    /\ phase = "starting" /\ ran = Len(Hooks(graph)) /\ ~startContext
    /\ phase' = "serving"
    /\ UNCHANGED <<graph, ran, cancelled, waiting, late, pool, passed, ready, spent,
                   exit, work, world>>

-----------------------------------------------------------------------------
(* The parts at work.                                                      *)

Working == /\ phase \notin {"loading", "exited"}
              /\ UNCHANGED <<phase, graph, ran, cancelled, waiting, late, pool, passed,
                             ready, spent, exit, world>>

\* A request is accepted; a loop whose context is not over makes a turn. A
\* publisher's turn claims.
TakeWork(p) ==
    /\ Working /\ part[p] = "idle" /\ ~outlivesStartUp(p) /\ pool = "open"
    /\ part' = [part EXCEPT ![p] = "indatabase"]
    /\ claims' = (claims \/ p = "publisher")

\* Between its transactions it calls the queue or answers the caller.
Call(p) == /\ Working /\ part[p] = "indatabase" /\ p # "reference"
           /\ part' = [part EXCEPT ![p] = "calling"] /\ UNCHANGED claims

CallEnds(p) == /\ Working /\ part[p] = "calling" /\ pool = "open"
               /\ part' = [part EXCEPT ![p] = "indatabase"] /\ UNCHANGED claims

\* The request or the turn is over. What a publisher's turn could not record
\* stays under its name.
EndWork(p) ==
    /\ Working /\ part[p] \in {"indatabase", "calling"}
    /\ part' = [part EXCEPT ![p] = "idle"]
    /\ claims' \in (IF p = "publisher" THEN {claims, FALSE} ELSE {claims})

\* run: a loop whose context is over returns.
Return(p) == /\ Working /\ p \in Loops /\ part[p] = "idle" /\ outlivesStartUp(p)
             /\ part' = [part EXCEPT ![p] = "returned"] /\ UNCHANGED claims

-----------------------------------------------------------------------------
(* Readiness: the probe resolves a queue the start-up could not reach.     *)

queueReadiness ==
    /\ phase = "serving" /\ graph = Api
    /\ passed' = IF ~outage /\ "outbound" \in provisioned
                 THEN passed \cup {"outbound"} ELSE passed
    /\ ready' = (~outage /\ "outbound" \in passed')
    /\ UNCHANGED <<phase, graph, ran, cancelled, waiting, late, pool, spent, exit, work, world>>

Outage == /\ ~outage /\ outages < MaxOutages
          /\ outage' = TRUE /\ outages' = outages + 1
Recover == outage /\ outage' = FALSE /\ UNCHANGED outages
QueueService == /\ phase # "exited" /\ (Outage \/ Recover)
                /\ UNCHANGED <<phase, graph, ran, cancelled, waiting, late, pool, passed,
                               ready, spent, exit, work, provisioned>>

-----------------------------------------------------------------------------
(* Stop.                                                                   *)

Spend(what) == /\ spent' = spent \cup {what}
               /\ UNCHANGED <<phase, graph, ran, cancelled, waiting, late, pool, passed,
                              ready, exit, work, world>>

Signal == phase \notin {"loading", "exited"} /\ "signal" \notin spent /\ Spend("signal")

\* A mutant: the shutdown as a whole is not bounded.
Unbounded == FALSE

\* Both budgets are timers: the start-up's goes on when the start is over.
StartTimeout == phase \notin {"loading", "exited"} /\ "start" \notin spent /\ Spend("start")
StopTimeout == phase = "stopping" /\ "stop" \notin spent /\ Spend("stop")

Shutdown ==
    /\ phase = "serving" /\ "signal" \in spent
    /\ phase' = "stopping"
    /\ UNCHANGED <<graph, ran, cancelled, waiting, late, pool, passed, ready, spent, exit,
                   work, world>>

Stopping == /\ phase \in {"stopping", "rollingback"}
            /\ UNCHANGED <<phase, graph, part, passed, ready, spent, exit, world>>

NextHook(hooks) == Stopping /\ waiting = "none" /\ ran > 0 /\ Last1 \in hooks

\* Hooks without OnStop, and those that give nothing back: a flush that fails
\* is logged.
StopQuietly ==
    /\ NextHook(Queues \cup {"database", "guard", "keys", "logger", "telemetry", "lag"})
    /\ ran' = ran - 1 /\ UNCHANGED <<cancelled, waiting, late, claims, pool>>

\* A loop stops receiving; the server stops accepting.
StopPart == /\ NextHook(Parts)
            /\ cancelled' = cancelled \cup {Last1} /\ waiting' = Last1
            /\ UNCHANGED <<ran, late, claims, pool>>

\* A mutant: the report is logged and dropped.
ReportDropped(p, reported) == UNCHANGED late

\* Whatever Stop reported leaves the hook.
stopWorker(p, reported) == late' = IF reported THEN late \cup {p} ELSE late

\* What the drained part gives back: the publisher its claims, which the
\* database may refuse.
GiveBack(p, stopped) ==
    \/ /\ claims' = (claims /\ p # "publisher")
       /\ stopWorker(p, ~stopped)
    \/ p = "publisher" /\ UNCHANGED claims /\ stopWorker(p, TRUE)

Finished(p) == IF p = "server" THEN part[p] = "idle" ELSE part[p] = "returned"

HookStopped == /\ Stopping /\ waiting \in Parts
               /\ waiting' = "none" /\ ran' = ran - 1 /\ UNCHANGED <<cancelled, pool>>

Drained == HookStopped /\ Finished(waiting) /\ GiveBack(waiting, TRUE)

\* The part's own deadline, or the context's: what is still running runs on.
DrainTimeout == HookStopped /\ ~Finished(waiting) /\ GiveBack(waiting, FALSE)

\* The pool takes no more work, and is closed when no connection is out.
close == /\ NextHook({"pool"}) /\ pool' = "closing" /\ waiting' = "pool"
         /\ UNCHANGED <<ran, cancelled, late, claims>>

Closed == /\ Stopping /\ waiting = "pool" /\ \A p \in Parts : part[p] # "indatabase"
          /\ pool' = "closed" /\ waiting' = "none" /\ ran' = ran - 1
          /\ UNCHANGED <<cancelled, late, claims>>

Stopped == /\ phase = "stopping" /\ ran = 0
           /\ Exits(IF late = {} /\ ~stopContext THEN "ok" ELSE "unclean")
RolledBack == phase = "rollingback" /\ ran = 0 /\ Exits("failed")

\* Fx returns when its context is over, with the hooks where they are.
GiveUp == \/ phase = "stopping" /\ stopContext /\ Exits("unclean")
          \/ phase \in {"starting", "rollingback"} /\ startContext /\ Exits("failed")

-----------------------------------------------------------------------------
StartSteps == Build \/ NoOnStart \/ Check \/ resolveQueue \/ StartPart \/ Up
StopSteps == \/ Shutdown \/ StopQuietly \/ StopPart \/ Drained \/ DrainTimeout
             \/ close \/ Closed \/ Stopped \/ RolledBack \/ GiveUp
Work == \E p \in graph : TakeWork(p) \/ Call(p) \/ CallEnds(p) \/ EndWork(p) \/ Return(p)

LifeNext == \/ LoadFails \/ BuildFails \/ StartSteps \/ StopSteps \/ Work
            \/ queueReadiness \/ QueueService
            \/ Signal \/ StartTimeout \/ StopTimeout

LifeSpec == LifeInit /\ [][LifeNext]_process

\* Fx runs the hooks and timers fire. A request or a turn may hang for ever.
LifeFairness == WF_process(StartSteps) /\ WF_process(StopSteps) /\ WF_process(StopTimeout)

-----------------------------------------------------------------------------
(* Nothing starts half up: no request is accepted and no loop takes work   *)
(* before every check of this process has passed, the queues of a later    *)
(* loop included.                                                          *)
Needed == {"database", "guard"}
            \cup (IF graph = Api THEN {"keys"}
                  ELSE {q \in Queues : (IF q = "inbound" THEN "consumer" ELSE "publisher") \in graph})

NothingStartsHalfUp == (\E p \in Parts : part[p] # "off") => Needed \subseteq passed

(* The pool outlives what is built from it: it closes only when every part *)
(* has been told to stop and its Stop, which gives claims back through the *)
(* pool, has returned; and it is closed only when no transaction is open.  *)
PoolOutlivesItsUsers ==
    /\ pool # "open" => /\ waiting \notin Parts
                        /\ {p \in Parts : part[p] # "off"} \subseteq cancelled
    /\ pool = "closed" => \A p \in Parts : part[p] # "indatabase"

(* The exit code tells the truth: a process exits 0 only when every request *)
(* and turn came back, no outbox row is still claimed and the pool closed. *)
ExitTellsTheTruth ==
    exit = "ok" => (\A p \in graph : Finished(p)) /\ ~claims /\ pool = "closed"

(* A signalled process ends, although a request or a turn may hang in the  *)
(* database and the pool waits for its connection.                         *)
StopEnds == ("signal" \in spent) ~> (phase = "exited")

=============================================================================
