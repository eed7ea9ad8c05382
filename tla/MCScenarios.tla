---------------------------- MODULE MCScenarios -----------------------------
(***************************************************************************)
(* Several instances of Wagering in one run.  A behaviour of ScenarioSpec   *)
(* is one of Wagering's, confined to the deliveries and the sessions of one *)
(* scenario.                                                                *)
(***************************************************************************)
EXTENDS MCWagering

VARIABLE scenario

Scenarios ==
  {[deliveries |-> ReversalDeliveries, sessions |-> {s1}, until |-> 1],
   [deliveries |-> ContentionDeliveries, sessions |-> {s1, s2, p1}, until |-> 2],
   [deliveries |-> WaitingDeliveries, sessions |-> {s1, p1, p2}, until |-> 9],
   [deliveries |-> OddDeliveries, sessions |-> {s1}, until |-> 1],
   [deliveries |-> EdgeDeliveries, sessions |-> {s1}, until |-> 1]}

AllDeliveries == UNION {s.deliveries : s \in Scenarios}

(* What bounds a scenario: who acts, on what, and until when. *)
Confined ==
  /\ clock <= scenario.until
  /\ \A s \in Sessions : sess[s].pc # "idle" =>
       s \in scenario.sessions /\ sess[s].request \in scenario.deliveries \cup {Nil}

ScenarioInit == Init /\ scenario \in Scenarios
ScenarioNext == Next /\ UNCHANGED scenario /\ Confined'
ScenarioSpec == ScenarioInit /\ [][ScenarioNext]_<<vars, scenario>>
=============================================================================
