---------------------------- MODULE MCTaskOutbox ----------------------------
(* Instance of TaskOutbox: one route for every event, one for failures.    *)
EXTENDS TaskOutbox

MCWants(r) == IF r = "telegram" THEN EventTypes ELSE {"task_failed"}

\* The loop runs as long as the controller does.  An event that is due again
\* and again is read: the retry delay of any other event is at least two
\* seconds, in which it is not due.  The service is not kept busy for ever:
\* its tasks end, and an attempt meets a moment without one.
MCSpec ==
  /\ OutboxSpec
  /\ WF_outboxVars(LoopStep)
  /\ \A id \in Ids :
       /\ SF_outboxVars(NextTaskOutboxEvent(id)) /\ WF_outboxVars(BecomesDue(id))
       /\ WF_outboxVars(\E st \in Terminal : CompleteTaskExecution(id, st))
  /\ \A k \in Keys : WF_outboxVars(\E st \in {"succeeded", "failed"} : FollowupEnds(k, st))
  /\ WF_outboxVars(other /\ OtherTask)
=============================================================================
