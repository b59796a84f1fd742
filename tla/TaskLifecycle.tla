--------------------------- MODULE TaskLifecycle ---------------------------
(***************************************************************************)
(* What the task table promises to the rest of the controller, without     *)
(* columns, leases, execution ids or time.                                 *)
(*                                                                         *)
(* A task is admitted once.  A task for an agent is offered, may be taken  *)
(* back as long as nobody accepted it, is worked on once it was accepted,  *)
(* and then only ends: it is never queued again.  A task the controller    *)
(* executes itself may wait for a confirmation and be queued again.  A     *)
(* task ends once, with one outcome, and a task for an agent is published  *)
(* in the step that ends it.                                               *)
(***************************************************************************)
CONSTANTS
  Tasks,
  Agents,     \* the tasks an agent carries out
  Outcomes,
  NoOutcome

VARIABLES phase, outcome, published

vars == <<phase, outcome, published>>

Move(moved, from, to) ==
  /\ \A t \in moved : phase[t] \in from
  /\ phase' = [t \in Tasks |-> IF t \in moved THEN to ELSE phase[t]]

Init ==
  /\ phase = [t \in Tasks |-> "absent"]
  /\ outcome = [t \in Tasks |-> NoOutcome]
  /\ published = {}

Admit(new) == Move(new, {"absent"}, "queued") /\ UNCHANGED <<outcome, published>>

Offer(t) ==
  t \in Agents /\ Move({t}, {"queued"}, "offered") /\ UNCHANGED <<outcome, published>>

Accept(t) == Move({t}, {"offered"}, "working") /\ UNCHANGED <<outcome, published>>

Withdraw(ts) == Move(ts, {"offered"}, "queued") /\ UNCHANGED <<outcome, published>>

Begin(t) ==
  t \notin Agents /\ Move({t}, {"queued"}, "working") /\ UNCHANGED <<outcome, published>>

AskConfirmation(t) ==
  /\ t \notin Agents
  /\ Move({t}, {"working"}, "confirming") /\ UNCHANGED <<outcome, published>>

Confirm(t) ==
  t \notin Agents /\ Move({t}, {"confirming"}, "queued") /\ UNCHANGED <<outcome, published>>

End(t, o) ==
  /\ Move({t}, IF t \in Agents THEN {"working"} ELSE {"queued", "working", "confirming"},
          "done")
  /\ outcome' = [outcome EXCEPT ![t] = o]
  /\ published' = published \cup ({t} \cap Agents)

Next ==
  \/ \E ts \in SUBSET Tasks : Admit(ts) \/ Withdraw(ts)
  \/ \E t \in Tasks : \/ Offer(t) \/ Accept(t) \/ Begin(t)
                      \/ AskConfirmation(t) \/ Confirm(t)
                      \/ \E o \in Outcomes : End(t, o)

Spec == Init /\ [][Next]_vars

=============================================================================
