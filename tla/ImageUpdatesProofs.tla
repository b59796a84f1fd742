------------------------- MODULE ImageUpdatesProofs -------------------------
(***************************************************************************)
(* What image checks promise.                                              *)
(*                                                                         *)
(* Auto-apply commits only what the nodes have checked, for any number of  *)
(* nodes, batches, versions, user commits and faults.  A delivery reads    *)
(* HEAD, the batch, the checks and HEAD again in separate statements; the  *)
(* invariant says what each of these readings still means at the commit.   *)
(*                                                                         *)
(* A check finds the tag it should, for any policy, registry and forge.    *)
(* The second half of the module says what each place in the discovery     *)
(* knows of the registry while that holds still: a listing has read all    *)
(* before its mark, a search of a probe knows its low end to exist and its *)
(* high end plus one not to, and the searches that are over have settled   *)
(* the best release of their kinds.  A change of the registry takes these  *)
(* facts back and leaves only that announcements are newer and were there. *)
(***************************************************************************)
EXTENDS ImageUpdates, ImageDiscovery, SequenceTheorems, FiniteSetTheorems,
        WellFoundedInduction, TLAPS

Texts == {"none", "active", "succeeded", "failed", "ended", "pending", "done"}
TaskMap == [ImageNodes -> Texts]
BatchRows == [rev : Nat, tag : Nat, task : TaskMap, reported : SUBSET ImageNodes,
              asked : BOOLEAN]
UpdateRows == [tag : Nat, task : TaskMap]
CheckRows == [at : Nat, tag : Nat, digest : Nat, available : BOOLEAN,
              status : {"unknown", "ok", "error"}]
BothChecks == [pinned : CheckRows, mutable : CheckRows]
Stages == {"batch", "reconcile", "base", "plan", "backup", "commit", "create", "applied"}
Deliveries == [at : Stages, batch : Nat, node : ImageNodes, checks : BothChecks \cup {<<>>},
               base : Nat, images : SUBSET {"pinned", "mutable"}, tag : Nat]
CommitRows == [batch : Nat, onto : Nat, from : Nat, to : Nat, raced : BOOLEAN]

ImageTypeOK ==
  /\ rev \in Nat /\ tag \in Nat /\ remote \in [tag : Nat, digest : Nat]
  /\ batches \in Seq(BatchRows) /\ updates \in Seq(UpdateRows)
  /\ event \in Seq(TaskMap) /\ preBackups \in Seq(TaskMap)
  /\ Len(event) = Len(batches) /\ Len(preBackups) = Len(batches) /\ Len(updates) = Len(batches)
  /\ checks \in BothChecks
  /\ apply \in Deliveries \cup {NoApply} /\ (apply # NoApply => apply.batch \in Batches)
  /\ commits \in Seq(CommitRows)
  /\ raced \in BOOLEAN

\* HEAD only grows, so a batch made at the HEAD of now has its tag; and only
\* the last batch has active tasks.
BatchInv ==
  /\ \A b \in Batches : batches[b].rev <= rev /\ (batches[b].rev = rev => batches[b].tag = tag)
  /\ \A b, c \in Batches : b <= c => batches[b].rev <= batches[c].rev
  /\ \A b \in Batches : \A n \in ImageNodes : batches[b].task[n] = "active" => b = Len(batches)

\* An available tag is newer than the one its batch had.
CheckInv ==
  /\ checks.pinned.at <= Len(batches)
  /\ checks.pinned.available =>
       checks.pinned.at \in Batches /\ batches[checks.pinned.at].tag < checks.pinned.tag

NoCommitOf(b) == \A i \in 1..Len(commits) : commits[i].batch # b

\* What the delivery has read is still true of its batch.
DeliveryInv ==
  apply # NoApply =>
    LET b == apply.batch
    IN  /\ apply.at # "batch" => BatchComplete(b)
        /\ apply.at \in {"reconcile", "base"} /\ ~raced => rev = batches[b].rev
        /\ apply.at \in {"plan", "backup", "commit"} /\ ~raced => apply.base = batches[b].rev
        /\ apply.at \in {"base", "plan"} => b <= checks.pinned.at
        /\ apply.at \in {"backup", "commit"} /\ apply.tag # 0 =>
             \E c \in Batches : b <= c /\ batches[c].tag < apply.tag
        /\ apply.at \in {"reconcile", "base", "plan", "backup", "commit"} => NoCommitOf(b)
        /\ apply.at \notin {"batch", "reconcile"} => effectiveImageAutoApply
        /\ apply.at \in {"commit", "create"} /\ effectiveBackupBeforeUpdate => BackupsDone(b)
        /\ apply.at = "applied" => UpdatesExist(b)

\* A commit has moved HEAD past the revision of its batch.
CommitInv ==
  /\ \A i \in 1..Len(commits) :
       commits[i].batch \in Batches /\ batches[commits[i].batch].rev < rev
  /\ CommitsAreChecked

AppliedInv == appliedEvent \subseteq Batches /\ \A b \in appliedEvent : UpdatesExist(b)

ImageInv ==
  /\ ImageTypeOK
  /\ BatchInv /\ CheckInv /\ DeliveryInv /\ CommitInv /\ UpdatesFollowBatch /\ AppliedInv
-----------------------------------------------------------------------------
(* What no step undoes *)

Kept ==
  /\ Len(batches) <= Len(batches') /\ rev <= rev' /\ (rev' = rev => tag' = tag)
  /\ CreateImageChecks \/ Len(batches') = Len(batches)
  /\ options' = options
  /\ \A b \in Batches :
       /\ batches'[b].rev = batches[b].rev /\ batches'[b].tag = batches[b].tag
       /\ \A n \in ImageNodes :
            /\ batches[b].task[n] = "succeeded" => batches'[b].task[n] = "succeeded"
            /\ batches'[b].task[n] = "active" => batches[b].task[n] = "active"
            /\ preBackups[b][n] = "succeeded" => preBackups'[b][n] = "succeeded"
            /\ updates[b].task[n] # "none" => updates'[b].task[n] # "none"

\* A delivery of an event: every action of it but the two that write.
Reading ==
  \/ LoadBatch \/ reconcileServiceDigestChecks \/ ReadBaseRevision \/ PlanUpdates
  \/ AwaitBackups \/ EnqueueApplied \/ RestartDelivery
  \/ \E b \in Batches, n \in ImageNodes : TakeEvent(b, n)

LEMMA RowsTyped ==
  ASSUME ImageTypeOK, NEW b \in Batches
  PROVE  /\ b \in DOMAIN batches /\ b \in DOMAIN updates /\ b \in DOMAIN event
         /\ b \in DOMAIN preBackups /\ b \in Nat /\ b >= 1
         /\ batches[b] \in BatchRows /\ updates[b] \in UpdateRows
         /\ event[b] \in TaskMap /\ preBackups[b] \in TaskMap
<1>1. Len(batches) \in Nat
  BY DEF ImageTypeOK
<1> QED  BY <1>1, ElementOfSeq DEF ImageTypeOK, Batches

LEMMA KeptStep ==
  ASSUME ImageTypeOK, ImageNext
  PROVE  Kept
<1> USE RowsTyped
<1>0. Len(batches) \in Nat /\ rev \in Nat
  BY DEF ImageTypeOK
<1>1. CASE CreateImageChecks
  BY <1>0, <1>1 DEF ImageTypeOK, CreateImageChecks, Kept, Batches
<1>2. ASSUME NEW b \in Batches, ReportServiceImageUpdateChecks(b)
      PROVE  Kept
  <2> DEFINE row == [batches[b] EXCEPT !.asked = TRUE]
  <2>1. batches' = [batches EXCEPT ![b] = row]
    BY <1>2 DEF ReportServiceImageUpdateChecks
  <2>2. row.rev = batches[b].rev /\ row.tag = batches[b].tag /\ row.task = batches[b].task
    BY DEF BatchRows
  <2>3. UNCHANGED <<rev, tag, options, preBackups, updates>>
    BY <1>2 DEF ReportServiceImageUpdateChecks
  <2> HIDE DEF row
  <2>4. /\ Len(batches') = Len(batches)
        /\ \A k \in Batches : batches'[k] = IF k = b THEN row ELSE batches[k]
    BY <2>1 DEF ImageTypeOK
  <2> QED  BY <1>0, <2>2, <2>3, <2>4 DEF Kept
<1>3. ASSUME NEW b \in Batches, NEW n \in ImageNodes, ReportServiceImageStates(b, n)
      PROVE  Kept
  <2> DEFINE row == [batches[b] EXCEPT !.reported = @ \cup {n}]
  <2>1. batches' = [batches EXCEPT ![b] = row]
    BY <1>3 DEF ReportServiceImageStates
  <2>2. row.rev = batches[b].rev /\ row.tag = batches[b].tag /\ row.task = batches[b].task
    BY DEF BatchRows
  <2> HIDE DEF row
  <2> QED  BY <1>0, <1>3, <2>1, <2>2 DEF ImageTypeOK, ReportServiceImageStates, Kept
<1>4. ASSUME NEW b \in Batches, NEW n \in ImageNodes, FinishImageCheck(b, n)
      PROVE  Kept
  <2>1. PICK x \in {"succeeded", "failed"} : batches' = [batches EXCEPT ![b].task[n] = x]
    BY <1>4 DEF FinishImageCheck
  <2> DEFINE row == [batches[b] EXCEPT !.task[n] = x]
  <2>2. batches' = [batches EXCEPT ![b] = row]
    BY <2>1
  <2>3. /\ row.rev = batches[b].rev /\ row.tag = batches[b].tag
        /\ \A k \in ImageNodes : row.task[k] = IF k = n THEN x ELSE batches[b].task[k]
    BY DEF BatchRows, TaskMap
  <2>4. batches[b].task[n] = "active"
    BY <1>4 DEF FinishImageCheck
  <2>5. UNCHANGED <<rev, tag, options, preBackups, updates>>
    BY <1>4 DEF FinishImageCheck
  <2> HIDE DEF row
  <2>6. /\ Len(batches') = Len(batches)
        /\ \A k \in Batches : batches'[k] = IF k = b THEN row ELSE batches[k]
    BY <2>2 DEF ImageTypeOK
  <2> QED  BY <1>0, <2>3, <2>4, <2>5, <2>6 DEF Kept
<1>5. ASSUME NEW b \in Batches, NEW n \in ImageNodes, FinishBackup(b, n)
      PROVE  Kept
  <2>1. PICK x \in {"succeeded", "failed"} : preBackups' = [preBackups EXCEPT ![b][n] = x]
    BY <1>5 DEF FinishBackup
  <2>2. \A k \in Batches, m \in ImageNodes :
          preBackups'[k][m] = IF k = b /\ m = n THEN x ELSE preBackups[k][m]
    BY <2>1 DEF TaskMap
  <2>3. UNCHANGED <<rev, tag, options, batches, updates>> /\ preBackups[b][n] = "active"
    BY <1>5 DEF FinishBackup
  <2> QED  BY <1>0, <2>2, <2>3 DEF Kept
<1>6. ASSUME NEW b \in Batches, NEW n \in ImageNodes, FinishUpdate(b, n)
      PROVE  Kept
  BY <1>0, <1>6 DEF ImageTypeOK, FinishUpdate, Kept, TaskMap, UpdateRows
<1>7. CASE Reading
  BY <1>0, <1>7 DEF Reading, Kept, LoadBatch, reconcileServiceDigestChecks, ReadBaseRevision,
     PlanUpdates, AwaitBackups, EnqueueApplied, RestartDelivery, TakeEvent
<1>8. CASE ApplyPlannedServiceImageUpdates
  <2>1. (rev' = rev /\ tag' = tag) \/ rev' = rev + 1
    BY <1>8 DEF ApplyPlannedServiceImageUpdates
  <2>2. UNCHANGED <<batches, preBackups, updates, options>>
    BY <1>8 DEF ApplyPlannedServiceImageUpdates
  <2> QED  BY <1>0, <2>1, <2>2 DEF Kept
<1>9. CASE CreateUpdates
  <2> DEFINE row == [tag |-> tag, task |-> [n \in ImageNodes |-> "active"]]
  <2>1. updates' = updates \/ updates' = [updates EXCEPT ![apply.batch] = row]
    BY <1>9 DEF CreateUpdates
  <2>2. \A n \in ImageNodes : row.task[n] = "active"
    OBVIOUS
  <2>3. UNCHANGED <<batches, preBackups, options, rev, tag>>
    BY <1>9 DEF CreateUpdates
  <2> HIDE DEF row
  <2>4. \A k \in Batches : updates'[k] = updates[k] \/ updates'[k] = row
    BY <2>1
  <2> QED  BY <1>0, <2>2, <2>3, <2>4 DEF Kept
<1>10. ASSUME NEW n \in ImageNodes, CreateBackup(n)
       PROVE  Kept
  <2>1. \/ preBackups' = preBackups
        \/ /\ preBackups' = [preBackups EXCEPT ![apply.batch][n] = "active"]
           /\ preBackups[apply.batch][n] = "none"
    BY <1>10 DEF CreateBackup
  <2>2. \A k \in Batches, m \in ImageNodes :
          preBackups[k][m] = "succeeded" => preBackups'[k][m] = "succeeded"
    BY <2>1 DEF TaskMap
  <2>3. UNCHANGED <<rev, tag, options, batches, updates>>
    BY <1>10 DEF CreateBackup
  <2> QED  BY <1>0, <2>2, <2>3 DEF Kept
<1>11. ASSUME NEW n \in ImageNodes, UserTaskStarts(n) \/ UserTaskFinishes(n)
       PROVE  Kept
  BY <1>0, <1>11 DEF UserTaskStarts, UserTaskFinishes, Kept
<1>12. ASSUME NEW t \in 1..MaxVersion, UserWrites(t)
       PROVE  Kept
  BY <1>0, <1>12 DEF UserWrites, Kept
<1>13. CASE RegistryPublishes
  BY <1>0, <1>13 DEF RegistryPublishes, Kept
<1> QED
  BY <1>1, <1>2, <1>3, <1>4, <1>5, <1>6, <1>7, <1>8, <1>9, <1>10, <1>11, <1>12, <1>13
  DEF ImageNext, Reading
-----------------------------------------------------------------------------
(* Types *)

\* Writing one row of a table keeps its type.
LEMMA RowWritten ==
  ASSUME NEW S, NEW s \in Seq(S), NEW i \in 1..Len(s), NEW row \in S
  PROVE  [s EXCEPT ![i] = row] \in Seq(S) /\ Len([s EXCEPT ![i] = row]) = Len(s)
BY ExceptSeq

LEMMA RowAppended ==
  ASSUME NEW S, NEW s \in Seq(S), NEW row \in S
  PROVE  Append(s, row) \in Seq(S) /\ Len(Append(s, row)) = Len(s) + 1
BY AppendProperties

\* A delivery that goes on stays a delivery of its event.
LEMMA DeliveryGoesOn ==
  ASSUME apply \in Deliveries, NEW at \in Stages
  PROVE  [apply EXCEPT !.at = at] \in Deliveries /\ [apply EXCEPT !.at = at].batch = apply.batch
BY DEF Deliveries

LEMMA TypeStep ==
  ASSUME ImageTypeOK, ImageNext
  PROVE  ImageTypeOK'
<1> USE RowsTyped
<1>0. Len(batches) \in Nat /\ rev \in Nat /\ Now \in Nat
  BY DEF ImageTypeOK, Now
<1>a. apply # NoApply => apply \in Deliveries /\ apply.batch \in Batches
  BY DEF ImageTypeOK
<1>c. Batches = 1..Len(event) /\ Batches = 1..Len(preBackups) /\ Batches = 1..Len(updates)
  BY DEF Batches, ImageTypeOK
<1>d. Batches = 1..Len(batches)
  BY DEF Batches
<1>b. Batches \subseteq Batches'
  BY <1>0, KeptStep DEF Kept, Batches
<1>1. CASE CreateImageChecks
  <2> DEFINE row == [rev |-> rev, tag |-> tag, task |-> [n \in ImageNodes |-> "active"],
                     reported |-> {}, asked |-> FALSE]
             blank == [tag |-> 0, task |-> NoTasks]
  <2>1. NoTasks \in TaskMap /\ row \in BatchRows /\ blank \in UpdateRows
    BY <1>0 DEF NoTasks, TaskMap, Texts, BatchRows, UpdateRows, ImageTypeOK
  <2>2. /\ batches' = Append(batches, row) /\ event' = Append(event, NoTasks)
        /\ preBackups' = Append(preBackups, NoTasks) /\ updates' = Append(updates, blank)
    BY <1>1 DEF CreateImageChecks
  <2> HIDE DEF row, blank
  <2> QED  BY <1>1, <2>1, <2>2, AppendProperties, <1>b DEF CreateImageChecks, ImageTypeOK
<1>2. ASSUME NEW b \in Batches, ReportServiceImageUpdateChecks(b)
      PROVE  ImageTypeOK'
  <2>1. PinnedCheck(b) \in CheckRows /\ MutableCheck \in CheckRows
    BY <1>0 DEF PinnedCheck, MutableCheck, CheckRows, ImageTypeOK, BatchRows
  <2>2. checks' \in BothChecks
    BY <1>2, <2>1 DEF ReportServiceImageUpdateChecks, BothChecks
  <2>3. [batches[b] EXCEPT !.asked = TRUE] \in BatchRows
    BY DEF BatchRows
  <2>4. batches' \in Seq(BatchRows) /\ Len(batches') = Len(batches)
    BY <1>2, <2>3, ExceptSeq DEF ReportServiceImageUpdateChecks, ImageTypeOK
  <2> QED  BY <1>2, <2>2, <2>4, <1>b DEF ReportServiceImageUpdateChecks, ImageTypeOK
<1>3. ASSUME NEW b \in Batches, NEW n \in ImageNodes, ReportServiceImageStates(b, n)
      PROVE  ImageTypeOK'
  <2>1. [batches[b] EXCEPT !.reported = @ \cup {n}] \in BatchRows
    BY DEF BatchRows
  <2>2. batches' \in Seq(BatchRows) /\ Len(batches') = Len(batches)
    BY <1>3, <2>1, ExceptSeq DEF ReportServiceImageStates, ImageTypeOK
  <2> QED  BY <1>3, <2>2, <1>b DEF ReportServiceImageStates, ImageTypeOK
<1>4. ASSUME NEW b \in Batches, NEW n \in ImageNodes, FinishImageCheck(b, n)
      PROVE  ImageTypeOK'
  <2>1. \A x \in Texts : [batches[b] EXCEPT !.task[n] = x] \in BatchRows
    BY DEF BatchRows, TaskMap
  <2>2. \A x \in Texts : [event[b] EXCEPT ![n] = x] \in TaskMap
    BY DEF TaskMap
  <2>3. batches' \in Seq(BatchRows) /\ Len(batches') = Len(batches)
    <3>1. PICK x \in Texts : batches' = [batches EXCEPT ![b] = [batches[b] EXCEPT !.task[n] = x]]
      BY <1>4 DEF FinishImageCheck, Texts
    <3> QED  BY <1>d, <2>1, <3>1, RowWritten DEF ImageTypeOK
  <2>4. event' \in Seq(TaskMap) /\ Len(event') = Len(event)
    <3>1. \/ event' = event
          \/ \E x \in Texts : event' = [event EXCEPT ![b] = [event[b] EXCEPT ![n] = x]]
      BY <1>4 DEF FinishImageCheck, Texts
    <3>2. \A row \in TaskMap : /\ [event EXCEPT ![b] = row] \in Seq(TaskMap)
                               /\ Len([event EXCEPT ![b] = row]) = Len(event)
      BY <1>c, RowWritten DEF ImageTypeOK
    <3>3. ASSUME NEW x \in Texts, event' = [event EXCEPT ![b] = [event[b] EXCEPT ![n] = x]]
          PROVE  event' \in Seq(TaskMap) /\ Len(event') = Len(event)
      <4> DEFINE row == [event[b] EXCEPT ![n] = x]
      <4>1. row \in TaskMap /\ event' = [event EXCEPT ![b] = row]
        BY <2>2, <3>3
      <4> HIDE DEF row
      <4> QED  BY <3>2, <4>1
    <3> QED  BY <3>1, <3>3 DEF ImageTypeOK
  <2> QED  BY <1>4, <2>3, <2>4, <1>b DEF FinishImageCheck, ImageTypeOK
<1>5. ASSUME NEW b \in Batches, NEW n \in ImageNodes, FinishBackup(b, n)
      PROVE  ImageTypeOK'
  <2>1. \A x \in Texts : [preBackups[b] EXCEPT ![n] = x] \in TaskMap
    BY DEF TaskMap
  <2>2. preBackups' \in Seq(TaskMap) /\ Len(preBackups') = Len(preBackups)
    <3>1. PICK x \in Texts :
            preBackups' = [preBackups EXCEPT ![b] = [preBackups[b] EXCEPT ![n] = x]]
      BY <1>5 DEF FinishBackup, Texts
    <3> QED  BY <1>c, <2>1, <3>1, RowWritten DEF ImageTypeOK
  <2> QED  BY <1>5, <2>2, <1>b DEF FinishBackup, ImageTypeOK
<1>6. ASSUME NEW b \in Batches, NEW n \in ImageNodes, FinishUpdate(b, n)
      PROVE  ImageTypeOK'
  <2>1. [updates[b] EXCEPT !.task[n] = "ended"] \in UpdateRows
    BY DEF UpdateRows, TaskMap, Texts
  <2>2. updates' \in Seq(UpdateRows) /\ Len(updates') = Len(updates)
    BY <1>6, <2>1, ExceptSeq DEF FinishUpdate, ImageTypeOK
  <2> QED  BY <1>6, <2>2, <1>b DEF FinishUpdate, ImageTypeOK
<1>7. ASSUME NEW b \in Batches, NEW n \in ImageNodes, TakeEvent(b, n)
      PROVE  ImageTypeOK'
  <2>1. apply' \in Deliveries
    BY <1>7 DEF TakeEvent, Deliveries, Stages
  <2>2. apply'.batch = b
    BY <1>7 DEF TakeEvent
  <2> QED  BY <1>7, <1>b, <2>1, <2>2 DEF TakeEvent, ImageTypeOK
<1>9. ASSUME apply # NoApply, EndDelivery
      PROVE  event' \in Seq(TaskMap) /\ Len(event') = Len(event)
  <2>1. [event[apply.batch] EXCEPT ![apply.node] = "done"] \in TaskMap
    BY <1>9, <1>a DEF TaskMap, Texts, Deliveries
  <2> QED  BY <1>9, <1>a, <2>1, ExceptSeq DEF EndDelivery, ImageTypeOK
<1>10. CASE LoadBatch
  <2>1. apply # NoApply
    BY <1>10 DEF LoadBatch, NoApply
  <2>2. /\ apply' \in Deliveries \cup {NoApply}
        /\ apply' # NoApply => apply'.batch = apply.batch
    <3>1. apply' = NoApply \/ apply' = [apply EXCEPT !.at = "reconcile", !.checks = checks]
      BY <1>10 DEF LoadBatch, EndDelivery, RetryLater
    <3>2. CASE apply' = [apply EXCEPT !.at = "reconcile", !.checks = checks]
      BY <1>a, <2>1, <3>2 DEF Stages, Deliveries, ImageTypeOK
    <3> QED  BY <3>1, <3>2
  <2>3. event' \in Seq(TaskMap) /\ Len(event') = Len(event)
    BY <1>10, <1>9, <2>1 DEF LoadBatch, RetryLater, ImageTypeOK
  <2> QED  BY <1>10, <1>a, <1>b, <2>1, <2>2, <2>3 DEF LoadBatch, ImageTypeOK
<1>11. CASE reconcileServiceDigestChecks
  <2>1. apply # NoApply
    BY <1>11 DEF reconcileServiceDigestChecks, NoApply
  <2>2. DigestState(checks.mutable, apply.batch) \in CheckRows
    BY DEF DigestState, CheckRows, BothChecks, ImageTypeOK
  <2>3. checks' \in BothChecks
    BY <1>11, <2>2 DEF reconcileServiceDigestChecks, BothChecks, ImageTypeOK
  <2>4. event' \in Seq(TaskMap) /\ Len(event') = Len(event)
    BY <1>11, <1>9, <2>1 DEF reconcileServiceDigestChecks, ImageTypeOK
  <2>5. \/ apply' = NoApply
        \/ \E i \in SUBSET {"pinned", "mutable"} :
             apply' = [apply EXCEPT !.at = "base", !.checks = <<>>, !.images = i]
    BY <1>11 DEF reconcileServiceDigestChecks, EndDelivery
  <2>6. /\ apply' \in Deliveries \cup {NoApply}
        /\ apply' # NoApply => apply'.batch = apply.batch
    <3>1. ASSUME NEW i \in SUBSET {"pinned", "mutable"},
                 apply' = [apply EXCEPT !.at = "base", !.checks = <<>>, !.images = i]
          PROVE  apply' \in Deliveries /\ apply'.batch = apply.batch
      BY <1>a, <2>1, <3>1 DEF Stages, Deliveries
    <3> QED  BY <2>5, <3>1
  <2> QED  BY <1>11, <1>a, <1>b, <2>1, <2>3, <2>4, <2>6 DEF reconcileServiceDigestChecks, ImageTypeOK
<1>12. CASE ReadBaseRevision \/ PlanUpdates \/ AwaitBackups \/ RestartDelivery
  <2>1. apply # NoApply
    BY <1>12 DEF ReadBaseRevision, PlanUpdates, AwaitBackups, RestartDelivery, NoApply
  <2>2. checks.pinned.tag \in Nat
    BY DEF ImageTypeOK, BothChecks, CheckRows
  <2>3. /\ apply' \in Deliveries \cup {NoApply}
        /\ apply' # NoApply => apply'.batch = apply.batch
    <3>1. \/ apply' = NoApply
          \/ \E at \in Stages : \/ apply' = [apply EXCEPT !.at = at]
                                \/ apply' = [apply EXCEPT !.at = at, !.base = rev]
                                \/ \E r \in Nat : apply' = [apply EXCEPT !.tag = r, !.at = at]
      BY <1>12, <2>2 DEF ReadBaseRevision, PlanUpdates, AwaitBackups, RestartDelivery, Stages
    <3>2. ASSUME NEW at \in Stages, NEW r \in Nat,
                 \/ apply' = [apply EXCEPT !.at = at]
                 \/ apply' = [apply EXCEPT !.at = at, !.base = rev]
                 \/ apply' = [apply EXCEPT !.tag = r, !.at = at]
          PROVE  apply' \in Deliveries /\ apply'.batch = apply.batch
      <4>1. CASE apply' = [apply EXCEPT !.at = at]
        BY <1>a, <2>1, <4>1 DEF Deliveries
      <4>2. CASE apply' = [apply EXCEPT !.at = at, !.base = rev]
        BY <1>0, <1>a, <2>1, <4>2 DEF Deliveries
      <4>3. CASE apply' = [apply EXCEPT !.tag = r, !.at = at]
        BY <1>a, <2>1, <4>3 DEF Deliveries
      <4> QED  BY <3>2, <4>1, <4>2, <4>3
    <3> QED  BY <1>0, <3>1, <3>2
  <2> QED  BY <1>12, <1>a, <1>b, <2>1, <2>3
           DEF ReadBaseRevision, PlanUpdates, AwaitBackups, RestartDelivery, ImageTypeOK
<1>13. ASSUME NEW n \in ImageNodes, CreateBackup(n)
       PROVE  ImageTypeOK'
  <2>1. apply # NoApply
    BY <1>13 DEF CreateBackup, NoApply
  <2>2. [preBackups[apply.batch] EXCEPT ![n] = "active"] \in TaskMap
    BY <1>a, <2>1 DEF TaskMap, Texts
  <2>3. preBackups' \in Seq(TaskMap) /\ Len(preBackups') = Len(preBackups)
    <3>1. \/ preBackups' = preBackups
          \/ preBackups' = [preBackups EXCEPT ![apply.batch] =
                                                 [preBackups[apply.batch] EXCEPT ![n] = "active"]]
      BY <1>13 DEF CreateBackup
    <3>2. \A row \in TaskMap : /\ [preBackups EXCEPT ![apply.batch] = row] \in Seq(TaskMap)
                               /\ Len([preBackups EXCEPT ![apply.batch] = row]) = Len(preBackups)
      BY <1>a, <1>c, <2>1, RowWritten DEF ImageTypeOK
    <3> QED  BY <2>2, <3>1, <3>2 DEF ImageTypeOK
  <2>4. /\ apply' \in Deliveries \cup {NoApply}
        /\ apply' # NoApply => apply'.batch = apply.batch
    BY <1>13, <1>a, <2>1 DEF CreateBackup
  <2> QED  BY <1>13, <1>a, <1>b, <2>1, <2>3, <2>4 DEF CreateBackup, ImageTypeOK
<1>14. CASE ApplyPlannedServiceImageUpdates
  <2>1. apply # NoApply
    BY <1>14 DEF ApplyPlannedServiceImageUpdates, NoApply
  <2> DEFINE row == [batch |-> apply.batch, onto |-> rev, from |-> tag, to |-> apply.tag,
                     raced |-> raced]
  <2>2. row \in CommitRows
    BY <1>a, <2>1 DEF CommitRows, ImageTypeOK, Deliveries
  <2>3. /\ commits' = commits \/ commits' = Append(commits, row)
        /\ rev' = rev \/ rev' = rev + 1
        /\ tag' = tag \/ tag' = apply.tag
    BY <1>14 DEF ApplyPlannedServiceImageUpdates
  <2> HIDE DEF row
  <2>4. commits' \in Seq(CommitRows) /\ rev' \in Nat /\ tag' \in Nat
    <3>1. apply.tag \in Nat /\ tag \in Nat
      BY <1>a, <2>1 DEF Deliveries, ImageTypeOK
    <3>2. commits' \in Seq(CommitRows)
      BY <2>2, <2>3, RowAppended DEF ImageTypeOK
    <3> QED  BY <1>0, <2>3, <3>1, <3>2
  <2>5. /\ apply' \in Deliveries \cup {NoApply}
        /\ apply' # NoApply => apply'.batch = apply.batch
    <3>1. apply' = NoApply \/ apply' = [apply EXCEPT !.at = "create"]
      BY <1>14 DEF ApplyPlannedServiceImageUpdates
    <3> QED  BY <1>a, <2>1, <3>1, DeliveryGoesOn DEF Stages
  <2> QED  BY <1>14, <1>a, <1>b, <2>1, <2>4, <2>5
           DEF ApplyPlannedServiceImageUpdates, ImageTypeOK
<1>15. CASE CreateUpdates
  <2>1. apply # NoApply
    BY <1>15 DEF CreateUpdates, NoApply
  <2> DEFINE row == [tag |-> tag, task |-> [n \in ImageNodes |-> "active"]]
  <2>2. row \in UpdateRows
    BY DEF UpdateRows, TaskMap, Texts, ImageTypeOK
  <2>3. updates' = updates \/ updates' = [updates EXCEPT ![apply.batch] = row]
    BY <1>15 DEF CreateUpdates
  <2> HIDE DEF row
  <2>4. updates' \in Seq(UpdateRows) /\ Len(updates') = Len(updates)
    <3>1. \A r \in UpdateRows : /\ [updates EXCEPT ![apply.batch] = r] \in Seq(UpdateRows)
                                /\ Len([updates EXCEPT ![apply.batch] = r]) = Len(updates)
      BY <1>a, <1>c, <2>1, RowWritten DEF ImageTypeOK
    <3> QED  BY <2>2, <2>3, <3>1 DEF ImageTypeOK
  <2>5. /\ apply' \in Deliveries \cup {NoApply}
        /\ apply' # NoApply => apply'.batch = apply.batch
    <3>1. apply' = NoApply \/ apply' = [apply EXCEPT !.at = "applied"]
      BY <1>15 DEF CreateUpdates
    <3> QED  BY <1>a, <2>1, <3>1, DeliveryGoesOn DEF Stages
  <2> QED  BY <1>15, <1>a, <1>b, <2>1, <2>4, <2>5 DEF CreateUpdates, ImageTypeOK
<1>16. CASE EnqueueApplied
  <2>1. apply # NoApply
    BY <1>16 DEF EnqueueApplied, NoApply
  <2> QED  BY <1>9, <1>16, <2>1 DEF EnqueueApplied, EndDelivery, ImageTypeOK
<1>17. ASSUME NEW n \in ImageNodes, UserTaskStarts(n) \/ UserTaskFinishes(n)
       PROVE  ImageTypeOK'
  BY <1>17, <1>b DEF UserTaskStarts, UserTaskFinishes, ImageTypeOK
<1>18. ASSUME NEW t \in 1..MaxVersion, UserWrites(t)
       PROVE  ImageTypeOK'
  <2>1. raced' \in BOOLEAN
    BY <1>18 DEF UserWrites
  <2>2. rev' \in Nat /\ tag' \in Nat
    BY <1>0, <1>18, ImageAssumption DEF UserWrites
  <2> QED  BY <1>18, <1>b, <2>1, <2>2 DEF UserWrites, ImageTypeOK
<1>19. CASE RegistryPublishes
  BY <1>19, <1>b DEF RegistryPublishes, ImageTypeOK
<1> QED
  BY <1>1, <1>2, <1>3, <1>4, <1>5, <1>6, <1>7, <1>10, <1>11, <1>12, <1>13, <1>14, <1>15,
     <1>16, <1>17, <1>18, <1>19 DEF ImageNext
-----------------------------------------------------------------------------
(* Who writes what *)

\* Each of the tables that the properties speak of is written by few actions.
WritersOf ==
  /\ commits' = commits \/ ApplyPlannedServiceImageUpdates
  /\ appliedEvent' = appliedEvent \/ EnqueueApplied
  /\ \/ checks' = checks \/ reconcileServiceDigestChecks
     \/ \E b \in Batches : ReportServiceImageUpdateChecks(b)
  /\ \/ updates' = updates \/ CreateImageChecks \/ CreateUpdates
     \/ \E b \in Batches, n \in ImageNodes : FinishUpdate(b, n)

\* Every action keeps to the tables it may write.
LEMMA Writers ==
  ASSUME ImageNext
  PROVE  WritersOf
<1>1. CASE CreateImageChecks
  BY <1>1 DEF WritersOf, CreateImageChecks
<1>2. ASSUME NEW b \in Batches, ReportServiceImageUpdateChecks(b) PROVE WritersOf
  BY <1>2 DEF WritersOf, ReportServiceImageUpdateChecks
<1>3. ASSUME NEW b \in Batches, NEW n \in ImageNodes, ReportServiceImageStates(b, n) PROVE WritersOf
  BY <1>3 DEF WritersOf, ReportServiceImageStates
<1>4. ASSUME NEW b \in Batches, NEW n \in ImageNodes, FinishImageCheck(b, n) PROVE WritersOf
  BY <1>4 DEF WritersOf, FinishImageCheck
<1>5. ASSUME NEW b \in Batches, NEW n \in ImageNodes, TakeEvent(b, n) PROVE WritersOf
  BY <1>5 DEF WritersOf, TakeEvent
<1>6. ASSUME NEW b \in Batches, NEW n \in ImageNodes, FinishBackup(b, n) PROVE WritersOf
  BY <1>6 DEF WritersOf, FinishBackup
<1>7. ASSUME NEW b \in Batches, NEW n \in ImageNodes, FinishUpdate(b, n) PROVE WritersOf
  BY <1>7 DEF WritersOf, FinishUpdate
<1>8. CASE LoadBatch
  BY <1>8 DEF WritersOf, LoadBatch
<1>9. CASE reconcileServiceDigestChecks
  BY <1>9 DEF WritersOf, reconcileServiceDigestChecks
<1>10. CASE ReadBaseRevision
  BY <1>10 DEF WritersOf, ReadBaseRevision
<1>11. CASE PlanUpdates
  BY <1>11 DEF WritersOf, PlanUpdates
<1>12. CASE AwaitBackups
  BY <1>12 DEF WritersOf, AwaitBackups
<1>13. CASE ApplyPlannedServiceImageUpdates
  BY <1>13 DEF WritersOf, ApplyPlannedServiceImageUpdates
<1>14. CASE CreateUpdates
  BY <1>14 DEF WritersOf, CreateUpdates
<1>15. CASE EnqueueApplied
  BY <1>15 DEF WritersOf, EnqueueApplied
<1>16. CASE RestartDelivery
  BY <1>16 DEF WritersOf, RestartDelivery
<1>17. CASE RegistryPublishes
  BY <1>17 DEF WritersOf, RegistryPublishes
<1>18. ASSUME NEW n \in ImageNodes, CreateBackup(n) \/ UserTaskStarts(n) \/ UserTaskFinishes(n)
      PROVE  WritersOf
  BY <1>18 DEF WritersOf, CreateBackup, UserTaskStarts, UserTaskFinishes
<1>19. ASSUME NEW t \in 1..MaxVersion, UserWrites(t) PROVE WritersOf
  BY <1>19 DEF WritersOf, UserWrites
<1> QED
  BY <1>1, <1>2, <1>3, <1>4, <1>5, <1>6, <1>7, <1>8, <1>9, <1>10, <1>11,
     <1>12, <1>13, <1>14, <1>15, <1>16, <1>17, <1>18, <1>19 DEF ImageNext

-----------------------------------------------------------------------------
(* The parts of the invariant *)

LEMMA ImageInitOK == ImageInit => ImageInv
<1> SUFFICES ASSUME ImageInit PROVE ImageInv
  OBVIOUS
<1>1. Batches = {} /\ Len(batches) = 0 /\ Len(commits) = 0
  BY DEF ImageInit, Batches
<1>2. NoCheck \in CheckRows
  BY DEF NoCheck, CheckRows
<1>3. checks \in BothChecks /\ ~checks.pinned.available /\ checks.pinned.at = 0
  BY <1>2 DEF ImageInit, BothChecks, NoCheck
<1>4. ImageTypeOK
  <2>1. /\ batches \in Seq(BatchRows) /\ updates \in Seq(UpdateRows) /\ commits \in Seq(CommitRows)
        /\ event \in Seq(TaskMap) /\ preBackups \in Seq(TaskMap)
        /\ Len(event) = Len(batches) /\ Len(preBackups) = Len(batches)
        /\ Len(updates) = Len(batches)
    BY EmptySeq DEF ImageInit
  <2>2. rev \in Nat /\ tag \in Nat /\ remote \in [tag : Nat, digest : Nat] /\ raced \in BOOLEAN
    BY DEF ImageInit
  <2>3. apply = NoApply
    BY DEF ImageInit
  <2> QED  BY <1>3, <2>1, <2>2, <2>3 DEF ImageTypeOK
<1>5. BatchInv /\ CheckInv /\ DeliveryInv
  BY <1>1, <1>3 DEF BatchInv, CheckInv, DeliveryInv, ImageInit
<1>6. CommitInv /\ UpdatesFollowBatch /\ AppliedInv
  BY <1>1 DEF CommitInv, CommitsAreChecked, UpdatesFollowBatch, AppliedInv, ImageInit
<1> QED  BY <1>4, <1>5, <1>6 DEF ImageInv

LEMMA BatchStep ==
  ASSUME ImageTypeOK, BatchInv, ImageNext
  PROVE  BatchInv'
<1> DEFINE n0 == Len(batches)
<1>1. Kept /\ n0 \in Nat /\ rev \in Nat /\ rev' \in Nat /\ Len(batches') \in Nat
  BY KeptStep, TypeStep DEF ImageTypeOK
<1>2. \A b \in Batches : batches[b].rev \in Nat /\ batches[b].task \in TaskMap
  BY RowsTyped DEF BatchRows
<1>3. CASE Len(batches') = n0
  <2>1. Batches' = Batches
    BY <1>3 DEF Batches
  <2> QED  BY <1>1, <1>2, <1>3, <2>1 DEF BatchInv, Kept
<1>4. CASE CreateImageChecks
  <2> DEFINE row == [rev |-> rev, tag |-> tag, task |-> [n \in ImageNodes |-> "active"],
                     reported |-> {}, asked |-> FALSE]
  <2>1. batches' = Append(batches, row) /\ rev' = rev /\ tag' = tag
    BY <1>4 DEF CreateImageChecks
  <2>2. row.rev = rev /\ row.tag = tag
    OBVIOUS
  <2> HIDE DEF row
  <2>3. /\ Batches' = Batches \cup {n0 + 1} /\ Len(batches') = n0 + 1
        /\ batches'[n0 + 1] = row /\ \A b \in Batches : batches'[b] = batches[b] /\ b < n0 + 1
    BY <1>1, <2>1 DEF Batches, ImageTypeOK
  <2>4. \A b \in Batches, n \in ImageNodes : batches[b].task[n] # "active"
    BY <1>4 DEF CreateImageChecks, ServiceIdle, Busy
  <2> DEFINE Made(b) == batches'[b].rev <= rev /\ (batches'[b].rev = rev => batches'[b].tag = tag)
  <2>5. \A b \in Batches' : Made(b)
    BY <1>1, <2>2, <2>3 DEF BatchInv
  <2>6. \A b, c \in Batches' : b <= c => batches'[b].rev <= batches'[c].rev
    <3> SUFFICES ASSUME NEW b \in Batches', NEW c \in Batches', b <= c
                 PROVE  batches'[b].rev <= batches'[c].rev
      OBVIOUS
    <3>1. CASE c \in Batches /\ b \in Batches
      BY <2>3, <3>1 DEF BatchInv
    <3>2. CASE c = n0 + 1
      BY <2>2, <2>3, <2>5, <3>2
    <3>3. CASE b = n0 + 1 /\ c \in Batches
      BY <1>1, <2>3, <3>3 DEF Batches
    <3> QED  BY <2>3, <3>1, <3>2, <3>3
  <2>7. \A b \in Batches', n \in ImageNodes : batches'[b].task[n] = "active" => b = n0 + 1
    BY <2>3, <2>4
  <2> QED  BY <2>1, <2>3, <2>5, <2>6, <2>7 DEF BatchInv
<1> QED  BY <1>1, <1>3, <1>4 DEF Kept

\* Only a report of the registry's answer changes what is known of the tag.
LEMMA PinnedKept ==
  ASSUME ImageTypeOK, ImageNext
  PROVE  \/ checks'.pinned = checks.pinned
         \/ \E b \in Batches : ReportServiceImageUpdateChecks(b)
<1>1. checks' = checks \/ reconcileServiceDigestChecks
      \/ \E b \in Batches : ReportServiceImageUpdateChecks(b)
  BY Writers DEF WritersOf
<1>2. CASE reconcileServiceDigestChecks
  BY <1>2 DEF reconcileServiceDigestChecks, ImageTypeOK, BothChecks
<1> QED  BY <1>1, <1>2

\* A report belongs to the last batch.
LEMMA ReportIsCurrent ==
  ASSUME ImageTypeOK, BatchInv, NEW b \in Batches, ReportServiceImageUpdateChecks(b)
  PROVE  /\ b = Len(batches) /\ Len(batches') = Len(batches) /\ batches'[b].tag = batches[b].tag
         /\ checks'.pinned = PinnedCheck(b) /\ Now = b
<1>1. batches[b].task[Discovery] = "active" /\ Len(batches) \in Nat
  BY DEF ReportServiceImageUpdateChecks, ImageTypeOK
<1>2. b = Len(batches)
  BY <1>1, ImageAssumption DEF BatchInv
<1>3. Now = b
  BY <1>1, <1>2, ImageAssumption DEF Now, Batches
<1>4. ReportServiceImageUpdateChecks(b) /\ batches[b] \in BatchRows /\ b \in DOMAIN batches
  BY RowsTyped
<1>5. Len(batches') = Len(batches) /\ batches'[b].tag = batches[b].tag
  BY <1>4 DEF ReportServiceImageUpdateChecks, ImageTypeOK, BatchRows
<1>6. checks'.pinned = PinnedCheck(b)
  BY DEF ReportServiceImageUpdateChecks
<1> QED  BY <1>2, <1>3, <1>5, <1>6

LEMMA CheckStep ==
  ASSUME ImageTypeOK, BatchInv, CheckInv, ImageNext
  PROVE  CheckInv' /\ (checks'.pinned.at = checks.pinned.at \/ checks'.pinned.at = Len(batches'))
<1>1. Kept /\ Len(batches) \in Nat /\ Len(batches') \in Nat
  BY KeptStep, TypeStep DEF ImageTypeOK
<1>2. CASE checks'.pinned = checks.pinned
  <2>1. checks.pinned.at \in Nat /\ Batches \subseteq Batches'
    BY <1>1 DEF ImageTypeOK, BothChecks, CheckRows, Batches, Kept
  <2>2. checks.pinned.available => batches'[checks.pinned.at].tag = batches[checks.pinned.at].tag
    BY <1>1 DEF CheckInv, Kept
  <2> QED  BY <1>1, <1>2, <2>1, <2>2 DEF CheckInv, Kept
<1>3. ASSUME NEW b \in Batches, ReportServiceImageUpdateChecks(b)
      PROVE  CheckInv' /\ checks'.pinned.at = Len(batches')
  <2>1. /\ checks'.pinned.at = b
        /\ checks'.pinned.available => batches[b].tag < checks'.pinned.tag
    <3>1. checks'.pinned = PinnedCheck(b) /\ Now = b
      BY <1>3, ReportIsCurrent
    <3>2. batches[b].tag \in Nat /\ remote.tag \in Nat
      BY RowsTyped DEF BatchRows, ImageTypeOK
    <3> DEFINE newer == remote.tag > batches[b].tag
    <3>3. PinnedCheck(b).available = newer
      BY Zenon DEF PinnedCheck
    <3>4. PinnedCheck(b).at = Now /\ (newer => PinnedCheck(b).tag = remote.tag)
      BY DEF PinnedCheck
    <3> QED  BY <3>1, <3>2, <3>3, <3>4
  <2> QED  BY <1>1, <1>3, <2>1, ReportIsCurrent DEF CheckInv, Batches
<1> QED  BY <1>2, <1>3, PinnedKept

\* A step of others leaves a delivery's knowledge true: HEAD moves only by a
\* user, and then the delivery is marked as raced or has read its base.
LEMMA DeliveryFrame ==
  ASSUME ImageTypeOK, BatchInv, CheckInv, DeliveryInv, ImageNext,
         apply' = apply, commits' = commits,
         \/ rev' = rev /\ raced' = raced
         \/ IF apply.at \in {"reconcile", "base"} THEN raced' ELSE raced' = raced
  PROVE  DeliveryInv'
<1> SUFFICES ASSUME apply # NoApply PROVE DeliveryInv'
  BY DEF DeliveryInv
<1> DEFINE b == apply.batch
<1>1. b \in Batches /\ b \in Nat /\ Kept /\ Batches \subseteq Batches'
  BY KeptStep, RowsTyped DEF ImageTypeOK, Kept, Batches
<1>2. BatchComplete(b) => BatchComplete(b)'
  BY <1>1 DEF BatchComplete, Kept
<1>3. BackupsDone(b) => BackupsDone(b)'
  BY <1>1 DEF BackupsDone, Kept
<1>4. UpdatesExist(b) => UpdatesExist(b)'
  BY <1>1 DEF UpdatesExist, Kept
<1>5. /\ effectiveImageAutoApply' = effectiveImageAutoApply
      /\ effectiveBackupBeforeUpdate' = effectiveBackupBeforeUpdate
  BY <1>1 DEF Kept, effectiveImageAutoApply, effectiveBackupBeforeUpdate
<1>6. b <= checks.pinned.at => b <= checks'.pinned.at
  <2>1. checks'.pinned.at = checks.pinned.at \/ checks'.pinned.at = Len(batches')
    BY CheckStep
  <2>2. b <= Len(batches') /\ Len(batches') \in Nat
    BY <1>1, TypeStep DEF Batches, ImageTypeOK
  <2> QED  BY <2>1, <2>2
<1>7. \A c \in Batches : batches'[c].tag = batches[c].tag /\ batches'[c].rev = batches[c].rev
  BY <1>1 DEF Kept
<1>8. NoCommitOf(b) => NoCommitOf(b)'
  BY DEF NoCommitOf
<1>9. /\ apply.at # "batch" => BatchComplete(b)'
      /\ apply.at \in {"base", "plan"} => b <= checks'.pinned.at
      /\ apply.at \in {"reconcile", "base", "plan", "backup", "commit"} => NoCommitOf(b)'
      /\ apply.at \notin {"batch", "reconcile"} => effectiveImageAutoApply'
      /\ apply.at \in {"commit", "create"} /\ effectiveBackupBeforeUpdate' => BackupsDone(b)'
      /\ apply.at = "applied" => UpdatesExist(b)'
  BY <1>2, <1>3, <1>4, <1>5, <1>6, <1>8 DEF DeliveryInv
<1>10. apply.at \in {"backup", "commit"} /\ apply.tag # 0 =>
         \E c \in Batches' : b <= c /\ batches'[c].tag < apply.tag
  BY <1>1, <1>7 DEF DeliveryInv
<1>11. /\ apply.at \in {"reconcile", "base"} /\ ~raced' => rev' = batches'[b].rev
       /\ apply.at \in {"plan", "backup", "commit"} /\ ~raced' => apply.base = batches'[b].rev
  BY <1>1, <1>7 DEF DeliveryInv
<1> QED  BY <1>9, <1>10, <1>11 DEF DeliveryInv

LEMMA DeliveryStep ==
  ASSUME ImageTypeOK, BatchInv, CheckInv, DeliveryInv, CommitInv, ImageNext
  PROVE  DeliveryInv'
<1>b. PICK b : b = apply.batch
  OBVIOUS
<1> USE <1>b
<1>0. apply' = NoApply => DeliveryInv'
  BY DEF DeliveryInv
<1>a. apply # NoApply => apply \in Deliveries /\ b \in Batches /\ b \in Nat
  BY RowsTyped DEF ImageTypeOK
<1>1. ASSUME NEW k \in Batches, NEW n \in ImageNodes, TakeEvent(k, n)
      PROVE  DeliveryInv'
  <2>1. apply'.at = "batch"
    BY <1>1 DEF TakeEvent
  <2> QED  BY <2>1 DEF DeliveryInv
<1>2. CASE LoadBatch /\ apply' # NoApply
  <2>1. /\ apply' = [apply EXCEPT !.at = "reconcile", !.checks = checks]
        /\ UsableBatch(b) /\ apply # NoApply
    BY <1>2 DEF LoadBatch, EndDelivery, RetryLater, NoApply
  <2>2. apply'.at = "reconcile" /\ apply'.batch = b
    BY <1>a, <2>1 DEF Deliveries
  <2>3. UNCHANGED <<batches, rev, commits>> /\ rev \in Nat
    BY <1>2 DEF LoadBatch, ImageTypeOK
  <2>4. BatchComplete(b)' /\ rev' = batches'[b].rev
    BY <2>1, <2>3 DEF UsableBatch, BatchComplete
  <2>5. NoCommitOf(b)'
    <3>1. rev = batches[b].rev
      BY <2>3, <2>4
    <3>2. \A i \in 1..Len(commits) : commits[i].batch # b
      BY <2>3, <3>1 DEF CommitInv
    <3> QED  BY <2>3, <3>2 DEF NoCommitOf
  <2> QED  BY <2>2, <2>4, <2>5 DEF DeliveryInv
<1>3. CASE reconcileServiceDigestChecks /\ apply' # NoApply
  <2>1. /\ apply.at = "reconcile" /\ apply # NoApply
        /\ checks.pinned.at = b
        /\ effectiveImageAutoApply
        /\ \E i : apply' = [apply EXCEPT !.at = "base", !.checks = <<>>, !.images = i]
        /\ checks' = [checks EXCEPT !.mutable = DigestState(checks.mutable, b)]
    <3> DEFINE after == [checks EXCEPT !.mutable = DigestState(checks.mutable, b)]
               images == {i \in {"pinned", "mutable"} : effectiveImageAutoApply /\ after[i].available}
    <3>1. /\ apply.at = "reconcile"
          /\ checks.pinned.at = b /\ checks' = after /\ images # {}
          /\ apply' = [apply EXCEPT !.at = "base", !.checks = <<>>, !.images = images]
      BY <1>3 DEF reconcileServiceDigestChecks, EndDelivery
    <3>2. apply # NoApply
      BY <3>1 DEF NoApply
    <3>3. effectiveImageAutoApply
      BY <3>1
    <3> QED  BY <3>1, <3>2, <3>3
  <2>2. apply'.at = "base" /\ apply'.batch = b
    BY <1>a, <2>1 DEF Deliveries
  <2>3. UNCHANGED <<batches, rev, raced, commits, options>>
    BY <1>3 DEF reconcileServiceDigestChecks
  <2>4. b <= checks'.pinned.at
    BY <1>a, <2>1 DEF ImageTypeOK, BothChecks
  <2>5. BatchComplete(b)' /\ NoCommitOf(b)' /\ effectiveImageAutoApply'
    BY <2>1, <2>3 DEF BatchComplete, NoCommitOf, effectiveImageAutoApply, DeliveryInv
  <2>6. ~raced' => rev' = batches'[b].rev
    BY <2>1, <2>3 DEF DeliveryInv
  <2> QED  BY <2>2, <2>4, <2>5, <2>6 DEF DeliveryInv
<1>4. CASE ReadBaseRevision
  <2>1. apply.at = "base" /\ apply # NoApply /\ apply' = [apply EXCEPT !.at = "plan", !.base = rev]
    BY <1>4 DEF ReadBaseRevision, NoApply
  <2>2. apply'.at = "plan" /\ apply'.batch = b /\ apply'.base = rev
    BY <1>a, <2>1 DEF Deliveries
  <2>3. UNCHANGED <<batches, rev, raced, commits, options, checks>>
    BY <1>4 DEF ReadBaseRevision
  <2>4. /\ BatchComplete(b)' /\ NoCommitOf(b)' /\ effectiveImageAutoApply' /\ b <= checks'.pinned.at
        /\ ~raced' => rev = batches'[b].rev
    BY <2>1, <2>3 DEF BatchComplete, NoCommitOf, effectiveImageAutoApply, DeliveryInv
  <2> QED  BY <2>2, <2>4 DEF DeliveryInv
<1>5. CASE PlanUpdates /\ apply' # NoApply
  <2>1. /\ apply.at = "plan" /\ apply # NoApply
        /\ UNCHANGED <<batches, updates, rev, raced, commits, options, checks>>
    BY <1>5 DEF PlanUpdates, NoApply
  <2>2. /\ BatchComplete(b)' /\ NoCommitOf(b)' /\ effectiveImageAutoApply'
        /\ b <= checks.pinned.at /\ (~raced' => apply.base = batches'[b].rev)
        /\ effectiveBackupBeforeUpdate' = effectiveBackupBeforeUpdate
    BY <2>1 DEF BatchComplete, NoCommitOf, effectiveImageAutoApply, DeliveryInv,
       effectiveBackupBeforeUpdate
  <2>3. CASE UpdatesExist(b) /\ apply' = [apply EXCEPT !.at = "applied"]
    <3>1. apply'.at = "applied" /\ apply'.batch = b
      BY <1>a, <2>1, <2>3 DEF Deliveries
    <3>2. UpdatesExist(b)'
      BY <2>1, <2>3 DEF UpdatesExist
    <3> QED  BY <2>2, <3>1, <3>2 DEF DeliveryInv
  <2> DEFINE planned == IF "pinned" \in apply.images THEN checks.pinned.tag ELSE 0
             stage == IF effectiveBackupBeforeUpdate THEN "backup" ELSE "commit"
  <2>4. CASE /\ "pinned" \in apply.images => checks.pinned.available
             /\ apply' = [apply EXCEPT !.tag = planned, !.at = stage]
    <3>1. apply'.at = stage /\ apply'.batch = b /\ apply'.base = apply.base /\ apply'.tag = planned
      BY <1>a, <2>1, <2>4 DEF Deliveries
    <3>2. planned # 0 => \E c \in Batches : b <= c /\ batches[c].tag < planned
      BY <2>2, <2>4 DEF CheckInv
    <3>3. planned # 0 => \E c \in Batches' : b <= c /\ batches'[c].tag < planned
      BY <2>1, <3>2 DEF Batches
    <3> QED  BY <2>2, <3>1, <3>3 DEF DeliveryInv
  <2> QED  BY <1>5, <2>3, <2>4 DEF PlanUpdates
<1>6. CASE AwaitBackups /\ apply' # NoApply
  <2>1. /\ apply.at = "backup" /\ apply # NoApply /\ apply' = [apply EXCEPT !.at = "commit"]
        /\ BackupsDone(b)
        /\ UNCHANGED <<batches, preBackups, rev, raced, commits, options>>
    BY <1>6 DEF AwaitBackups, NoApply
  <2>2. apply'.at = "commit" /\ apply'.batch = b /\ apply'.base = apply.base /\ apply'.tag = apply.tag
    BY <1>a, <2>1 DEF Deliveries
  <2>3. /\ BatchComplete(b)' /\ NoCommitOf(b)' /\ effectiveImageAutoApply'
        /\ (~raced' => apply.base = batches'[b].rev) /\ BackupsDone(b)'
    BY <2>1 DEF BatchComplete, NoCommitOf, effectiveImageAutoApply, DeliveryInv, BackupsDone
  <2>4. apply.tag # 0 => \E c \in Batches' : b <= c /\ batches'[c].tag < apply.tag
    BY <2>1 DEF DeliveryInv, Batches
  <2> QED  BY <2>2, <2>3, <2>4 DEF DeliveryInv
<1>7. CASE ApplyPlannedServiceImageUpdates /\ apply' # NoApply
  <2>1. /\ apply.at = "commit" /\ apply # NoApply /\ apply' = [apply EXCEPT !.at = "create"]
        /\ UNCHANGED <<batches, preBackups, options>>
    BY <1>7 DEF ApplyPlannedServiceImageUpdates, NoApply
  <2>2. apply'.at = "create" /\ apply'.batch = b
    BY <1>a, <2>1 DEF Deliveries
  <2>3. BatchComplete(b)' /\ effectiveImageAutoApply'
    BY <2>1 DEF BatchComplete, effectiveImageAutoApply, DeliveryInv
  <2>4. effectiveBackupBeforeUpdate' => BackupsDone(b)'
    BY <2>1 DEF effectiveBackupBeforeUpdate, DeliveryInv, BackupsDone
  <2> QED  BY <2>2, <2>3, <2>4 DEF DeliveryInv
<1>8. CASE CreateUpdates /\ apply' # NoApply
  <2>1. /\ apply.at = "create" /\ apply # NoApply /\ apply' = [apply EXCEPT !.at = "applied"]
        /\ updates' = [updates EXCEPT ![b] = [tag |-> tag, task |-> [n \in ImageNodes |-> "active"]]]
        /\ UNCHANGED <<batches, options>>
    BY <1>8 DEF CreateUpdates, NoApply
  <2>2. apply'.at = "applied" /\ apply'.batch = b
    BY <1>a, <2>1 DEF Deliveries
  <2>3. BatchComplete(b)' /\ effectiveImageAutoApply'
    BY <2>1 DEF BatchComplete, effectiveImageAutoApply, DeliveryInv
  <2>4. updates'[b].task = [n \in ImageNodes |-> "active"]
    BY <1>a, <2>1, RowsTyped
  <2>5. UpdatesExist(b)'
    BY <2>4 DEF UpdatesExist
  <2> QED  BY <2>2, <2>3, <2>5 DEF DeliveryInv
<1>9. CASE EnqueueApplied \/ RestartDelivery
  BY <1>0, <1>9 DEF EnqueueApplied, EndDelivery, RestartDelivery
<1>10. ASSUME NEW n \in ImageNodes, CreateBackup(n), apply' # NoApply
       PROVE  DeliveryInv'
  BY <1>10, DeliveryFrame DEF CreateBackup
<1>11. ASSUME NEW t \in 1..MaxVersion, UserWrites(t)
       PROVE  DeliveryInv'
  <2>1. apply' = apply /\ commits' = commits /\ raced' = (raced \/ apply.at \in {"reconcile", "base"})
    BY <1>11 DEF UserWrites
  <2>2. IF apply.at \in {"reconcile", "base"} THEN raced' ELSE raced' = raced
    BY <2>1 DEF ImageTypeOK
  <2> QED  BY <2>1, <2>2, DeliveryFrame
<1>12. CASE CreateImageChecks \/ RegistryPublishes
            \/ \E k \in Batches : ReportServiceImageUpdateChecks(k)
  BY <1>12, DeliveryFrame DEF CreateImageChecks, RegistryPublishes, ReportServiceImageUpdateChecks
<1>13. ASSUME NEW k \in Batches, NEW n \in ImageNodes,
              ReportServiceImageStates(k, n) \/ FinishImageCheck(k, n)
              \/ FinishBackup(k, n) \/ FinishUpdate(k, n)
       PROVE  DeliveryInv'
  BY <1>13, DeliveryFrame DEF ReportServiceImageStates, FinishImageCheck, FinishBackup, FinishUpdate
<1>14. ASSUME NEW n \in ImageNodes, UserTaskStarts(n) \/ UserTaskFinishes(n)
       PROVE  DeliveryInv'
  BY <1>14, DeliveryFrame DEF UserTaskStarts, UserTaskFinishes
<1> QED
  BY <1>0, <1>1, <1>2, <1>3, <1>4, <1>5, <1>6, <1>7, <1>8, <1>9, <1>10, <1>11, <1>12, <1>13, <1>14
  DEF ImageNext

LEMMA CommitStep ==
  ASSUME ImageTypeOK, BatchInv, CheckInv, DeliveryInv, CommitInv, ImageNext
  PROVE  CommitInv'
<1>0. Kept /\ Batches \subseteq Batches' /\ rev \in Nat /\ rev' \in Nat /\ Len(commits) \in Nat
  BY KeptStep, TypeStep DEF ImageTypeOK, Kept, Batches
<1>1. \A k \in Batches : batches[k].rev \in Nat /\ batches'[k].rev = batches[k].rev
                         /\ batches[k].tag \in Nat
  BY <1>0, RowsTyped DEF BatchRows, Kept
<1>2. CASE commits' = commits
  <2>1. \A i \in 1..Len(commits) :
          commits[i].batch \in Batches /\ batches[commits[i].batch].rev < rev
    BY DEF CommitInv
  <2>2. rev <= rev' /\ rev \in Nat /\ rev' \in Nat
    BY <1>0 DEF Kept
  <2>3. \A i \in 1..Len(commits) :
          commits[i].batch \in Batches' /\ batches'[commits[i].batch].rev < rev'
    BY <1>0, <1>1, <2>1, <2>2
  <2>4. CommitsAreChecked'
    BY <1>1, <1>2, <2>1 DEF CommitInv, CommitsAreChecked
  <2> QED  BY <1>2, <2>3, <2>4 DEF CommitInv
<1>3. CASE commits' # commits
  <2>1. ApplyPlannedServiceImageUpdates
    BY <1>3, Writers DEF WritersOf
  <2>2. PICK b : b = apply.batch
    OBVIOUS
  <2> DEFINE row == [batch |-> b, onto |-> rev, from |-> tag, to |-> apply.tag, raced |-> raced]
  <2>3. /\ apply.at = "commit" /\ apply.tag # 0 /\ apply.base = rev
        /\ rev' = rev + 1 /\ batches' = batches /\ commits' = Append(commits, row)
    BY <1>3, <2>1, <2>2 DEF ApplyPlannedServiceImageUpdates
  <2>4. apply # NoApply /\ apply \in Deliveries /\ b \in Batches /\ b \in Nat
    BY <2>2, <2>3, RowsTyped DEF NoApply, ImageTypeOK
  <2>5. batches[b].rev <= rev
    BY <2>4 DEF BatchInv
  <2>6. NoCommitOf(b) /\ (~raced => rev = batches[b].rev)
    BY <2>2, <2>3, <2>4 DEF DeliveryInv
  <2>7. ASSUME ~raced PROVE tag < apply.tag
    <3>1. PICK c \in Batches : b <= c /\ batches[c].tag < apply.tag
      BY <2>2, <2>3, <2>4 DEF DeliveryInv
    <3>2. batches[c].rev = rev
      <4>1. batches[b].rev = rev /\ batches[b].rev <= batches[c].rev /\ batches[c].rev <= rev
        BY <2>4, <2>6, <2>7, <3>1 DEF BatchInv
      <4> QED  BY <1>0, <1>1, <4>1
    <3> QED  BY <3>1, <3>2 DEF BatchInv
  <2>8. /\ row.batch = b /\ row.onto = rev /\ row.from = tag /\ row.to = apply.tag
        /\ row.raced = raced
    OBVIOUS
  <2> HIDE DEF row
  <2>9. /\ Len(commits') = Len(commits) + 1 /\ commits'[Len(commits) + 1] = row
        /\ \A i \in 1..Len(commits) : commits'[i] = commits[i]
    BY <2>3 DEF ImageTypeOK
  <2>10. \A i \in 1..Len(commits') : i \in 1..Len(commits) \/ i = Len(commits) + 1
    BY <1>0, <2>9
  <2>11. \A i \in 1..Len(commits') :
           commits'[i].batch \in Batches' /\ batches'[commits'[i].batch].rev < rev'
    <3>1. \A i \in 1..Len(commits) :
            commits[i].batch \in Batches /\ batches[commits[i].batch].rev < rev
      BY DEF CommitInv
    <3>2. \A i \in 1..Len(commits) :
            commits'[i].batch \in Batches' /\ batches'[commits'[i].batch].rev < rev'
      BY <1>0, <1>1, <2>3, <2>9, <3>1
    <3>3. row.batch \in Batches' /\ batches'[row.batch].rev < rev'
      BY <1>0, <1>1, <2>3, <2>4, <2>5, <2>8
    <3> QED  BY <2>9, <2>10, <3>2, <3>3
  <2>12. \A i \in 1..Len(commits') : ~commits'[i].raced =>
           commits'[i].from < commits'[i].to /\ commits'[i].onto = batches'[commits'[i].batch].rev
    <3>1. \A i \in 1..Len(commits) : ~commits'[i].raced =>
           commits'[i].from < commits'[i].to /\ commits'[i].onto = batches'[commits'[i].batch].rev
      BY <2>3, <2>9 DEF CommitInv, CommitsAreChecked
    <3>2. ~row.raced => row.from < row.to /\ row.onto = batches'[row.batch].rev
      BY <2>3, <2>6, <2>7, <2>8
    <3> QED  BY <2>9, <2>10, <3>1, <3>2
  <2>13. \A i, j \in 1..Len(commits') : i # j => commits'[i].batch # commits'[j].batch
    BY <2>6, <2>8, <2>9, <2>10 DEF NoCommitOf, CommitInv, CommitsAreChecked
  <2> QED  BY <2>11, <2>12, <2>13 DEF CommitInv, CommitsAreChecked
<1> QED  BY <1>2, <1>3

LEMMA UpdatesStep ==
  ASSUME ImageTypeOK, DeliveryInv, UpdatesFollowBatch, ImageNext
  PROVE  UpdatesFollowBatch'
<1>0. Kept /\ Len(batches) \in Nat
  BY KeptStep DEF ImageTypeOK
<1> SUFFICES ASSUME NEW k \in Batches', NEW m \in ImageNodes, updates'[k].task[m] # "none"
             PROVE  /\ UpdatesExist(k)' /\ effectiveImageAutoApply'
                    /\ \A n \in ImageNodes : batches'[k].task[n] = "succeeded"
                    /\ effectiveBackupBeforeUpdate' =>
                         \A n \in ImageNodes : preBackups'[k][n] = "succeeded"
  BY DEF UpdatesFollowBatch
<1>1. /\ effectiveImageAutoApply' = effectiveImageAutoApply
      /\ effectiveBackupBeforeUpdate' = effectiveBackupBeforeUpdate
  BY <1>0 DEF Kept, effectiveImageAutoApply, effectiveBackupBeforeUpdate
<1>2. CASE k \in Batches /\ updates[k].task[m] # "none"
  <2>1. /\ UpdatesExist(k) /\ effectiveImageAutoApply
        /\ \A n \in ImageNodes : batches[k].task[n] = "succeeded"
        /\ effectiveBackupBeforeUpdate => \A n \in ImageNodes : preBackups[k][n] = "succeeded"
    BY <1>2 DEF UpdatesFollowBatch
  <2> QED  BY <1>0, <1>1, <1>2, <2>1 DEF Kept, UpdatesExist
<1>3. CASE k \in Batches /\ updates[k].task[m] = "none"
  <2>1. CreateUpdates /\ apply.batch = k /\ ServiceIdle
    <3>1. updates'[k].task[m] # updates[k].task[m]
      BY <1>3
    <3>2. CASE CreateImageChecks
      BY <1>0, <1>3, <3>1, <3>2 DEF CreateImageChecks, ImageTypeOK, Batches
    <3>3. ASSUME NEW b \in Batches, NEW n \in ImageNodes, FinishUpdate(b, n)
          PROVE  FALSE
      <4>1. updates[b].task[n] = "active" /\ updates' = [updates EXCEPT ![b].task[n] = "ended"]
        BY <3>3 DEF FinishUpdate
      <4>2. \A d \in Batches, l \in ImageNodes :
              updates'[d].task[l] = IF d = b /\ l = n THEN "ended" ELSE updates[d].task[l]
        BY <4>1, RowsTyped DEF UpdateRows, TaskMap
      <4> QED  BY <1>3, <3>1, <4>1, <4>2
    <3>4. CASE CreateUpdates
      <4>1. /\ updates' = updates \/ (ServiceIdle /\ \A d \in Batches : d # apply.batch => updates'[d] = updates[d])
        BY <3>4, RowsTyped DEF CreateUpdates
      <4> QED  BY <1>3, <3>1, <3>4, <4>1
    <3> QED
      BY <3>1, <3>2, <3>3, <3>4, Writers DEF WritersOf
  <2>2. /\ apply.at = "create" /\ apply # NoApply /\ UNCHANGED <<batches, preBackups>>
        /\ updates' # updates
    BY <1>3, <2>1 DEF CreateUpdates, NoApply
  <2>3. updates'[k].task = [n \in ImageNodes |-> "active"]
    BY <1>3, <2>1, <2>2, RowsTyped DEF CreateUpdates
  <2>4. UpdatesExist(k)'
    BY <2>3 DEF UpdatesExist
  <2>5. /\ BatchComplete(k) /\ effectiveImageAutoApply
        /\ effectiveBackupBeforeUpdate => BackupsDone(k)
    BY <2>1, <2>2 DEF DeliveryInv
  <2> QED  BY <1>1, <2>2, <2>4, <2>5 DEF BatchComplete, BackupsDone
<1>4. CASE k \notin Batches
  <2>1. CreateImageChecks
    BY <1>0, <1>4 DEF Kept, Batches
  <2> DEFINE blank == [tag |-> 0, task |-> NoTasks]
  <2>2. updates' = Append(updates, blank) /\ k = Len(updates) + 1
    BY <1>0, <1>4, <2>1 DEF CreateImageChecks, Batches, ImageTypeOK
  <2>3. blank.task[m] = "none"
    BY DEF NoTasks
  <2> HIDE DEF blank
  <2>4. updates'[k] = blank
    BY <2>2 DEF ImageTypeOK
  <2> QED  BY <2>3, <2>4
<1> QED  BY <1>2, <1>3, <1>4

LEMMA AppliedStep ==
  ASSUME ImageTypeOK, DeliveryInv, AppliedInv, ImageNext
  PROVE  AppliedInv'
<1>0. Kept /\ Batches \subseteq Batches'
  BY KeptStep DEF ImageTypeOK, Kept, Batches
<1>1. ASSUME appliedEvent' # appliedEvent
      PROVE  EnqueueApplied
  BY <1>1, Writers DEF WritersOf
<1>2. \A k \in Batches : UpdatesExist(k) => UpdatesExist(k)'
  BY <1>0 DEF Kept, UpdatesExist
<1>3. CASE EnqueueApplied
  <2>1. apply # NoApply /\ apply.at = "applied" /\ appliedEvent' = appliedEvent \cup {apply.batch}
    BY <1>3 DEF EnqueueApplied, NoApply
  <2>2. apply.batch \in Batches /\ UpdatesExist(apply.batch)
    BY <2>1 DEF DeliveryInv, ImageTypeOK
  <2> QED  BY <1>0, <1>2, <2>1, <2>2 DEF AppliedInv
<1> QED  BY <1>0, <1>1, <1>2, <1>3 DEF AppliedInv

LEMMA ImageStep == ImageInv /\ [ImageNext]_imageVars => ImageInv'
<1> SUFFICES ASSUME ImageInv, [ImageNext]_imageVars PROVE ImageInv'
  OBVIOUS
<1>1. CASE ImageNext
  BY <1>1, TypeStep, BatchStep, CheckStep, DeliveryStep, CommitStep, UpdatesStep, AppliedStep
  DEF ImageInv
<1>2. CASE UNCHANGED imageVars
  <2>1. /\ UNCHANGED <<options, rev, tag, remote, batches, checks, event, apply>>
        /\ UNCHANGED <<preBackups, updates, commits, appliedEvent, raced>>
    BY <1>2 DEF imageVars
  <2>2. ImageTypeOK' /\ BatchInv' /\ CheckInv'
    BY <2>1 DEF ImageInv, ImageTypeOK, BatchInv, CheckInv, Batches
  <2>3. DeliveryInv'
    BY <2>1 DEF ImageInv, DeliveryInv, Batches, BatchComplete, BackupsDone, UpdatesExist, NoCommitOf,
       effectiveImageAutoApply, effectiveBackupBeforeUpdate
  <2>4. CommitInv' /\ UpdatesFollowBatch' /\ AppliedInv'
    BY <2>1 DEF ImageInv, CommitInv, CommitsAreChecked, UpdatesFollowBatch, AppliedInv, Batches,
       UpdatesExist, effectiveImageAutoApply, effectiveBackupBeforeUpdate
  <2> QED  BY <2>2, <2>3, <2>4 DEF ImageInv
<1> QED  BY <1>1, <1>2

\* For any number of nodes, batches and faults: auto-apply commits once per
\* batch, on the revision the nodes have checked and to a newer tag
\* (queueAutoApplyUpdateForImageCheck, unless a user committed between its two
\* reads of HEAD); update tasks follow only complete batches and, where asked
\* for, backups of all nodes; and what is announced as applied has them.
THEOREM ImageUpdatesSound == ImageSpec => []UpdatesAreSound
<1>1. ImageInv => UpdatesAreSound
  BY DEF ImageInv, CommitInv, AppliedInv, UpdatesAreSound
<1> QED  BY <1>1, ImageInitOK, ImageStep, PTL DEF ImageSpec

-----------------------------------------------------------------------------
(* Versions are ordered *)

LEMMA VersionParts ==
  ASSUME NEW t \in Versions
  PROVE  /\ t[1] \in Nat /\ t[2] \in Nat /\ t[3] \in Nat /\ t[4] \in {0, 1}
         /\ t = <<t[1], t[2], t[3], t[4]>> /\ Len(t) = 4
BY DEF Versions

\* Semantic versions are compared part by part.
LEMMA LowerByParts ==
  ASSUME NEW a \in Versions, NEW b \in Versions
  PROVE  Lower(a, b) <=>
           \/ a[1] < b[1]
           \/ a[1] = b[1] /\ a[2] < b[2]
           \/ a[1] = b[1] /\ a[2] = b[2] /\ a[3] < b[3]
           \/ a[1] = b[1] /\ a[2] = b[2] /\ a[3] = b[3] /\ a[4] < b[4]
<1>0. /\ a[1] \in Nat /\ a[2] \in Nat /\ a[3] \in Nat /\ a[4] \in Nat
      /\ b[1] \in Nat /\ b[2] \in Nat /\ b[3] \in Nat /\ b[4] \in Nat
  BY VersionParts
<1>1. \A i \in 1..4 : i = 1 \/ i = 2 \/ i = 3 \/ i = 4
  OBVIOUS
<1>2. /\ 1..(1 - 1) = {} /\ 1..(2 - 1) = {1} /\ 1..(3 - 1) = {1, 2} /\ 1..(4 - 1) = {1, 2, 3}
  OBVIOUS
<1>. DEFINE First(i) == a[i] < b[i] /\ \A j \in 1..(i - 1) : a[j] = b[j]
<1>3. Lower(a, b) <=> First(1) \/ First(2) \/ First(3) \/ First(4)
  BY <1>1 DEF Lower
<1>4. /\ First(1) <=> a[1] < b[1]
      /\ First(2) <=> a[2] < b[2] /\ a[1] = b[1]
      /\ First(3) <=> a[3] < b[3] /\ a[1] = b[1] /\ a[2] = b[2]
      /\ First(4) <=> a[4] < b[4] /\ a[1] = b[1] /\ a[2] = b[2] /\ a[3] = b[3]
  BY <1>2
<1> QED
  BY <1>3, <1>4

\* Lower is a strict linear order on the versions.
LEMMA LowerIsOrder ==
  /\ \A a \in Versions : ~Lower(a, a)
  /\ \A a, b, c \in Versions : Lower(a, b) /\ Lower(b, c) => Lower(a, c)
  /\ \A a, b \in Versions : a = b \/ Lower(a, b) \/ Lower(b, a)
<1>1. ASSUME NEW a \in Versions PROVE ~Lower(a, a)
  BY LowerByParts, VersionParts
<1>2. ASSUME NEW a \in Versions, NEW b \in Versions, NEW c \in Versions, Lower(a, b), Lower(b, c)
      PROVE  Lower(a, c)
  <2>1. /\ a[1] \in Nat /\ a[2] \in Nat /\ a[3] \in Nat /\ a[4] \in {0, 1}
        /\ b[1] \in Nat /\ b[2] \in Nat /\ b[3] \in Nat /\ b[4] \in {0, 1}
        /\ c[1] \in Nat /\ c[2] \in Nat /\ c[3] \in Nat /\ c[4] \in {0, 1}
    BY VersionParts
  <2> QED
    BY <1>2, <2>1, LowerByParts
<1>3. ASSUME NEW a \in Versions, NEW b \in Versions PROVE a = b \/ Lower(a, b) \/ Lower(b, a)
  <2>1. /\ a[1] \in Nat /\ a[2] \in Nat /\ a[3] \in Nat /\ a[4] \in {0, 1}
        /\ b[1] \in Nat /\ b[2] \in Nat /\ b[3] \in Nat /\ b[4] \in {0, 1}
    BY VersionParts
  <2>2. a = <<a[1], a[2], a[3], a[4]>> /\ b = <<b[1], b[2], b[3], b[4]>>
    BY VersionParts
  <2>3. CASE a[1] = b[1] /\ a[2] = b[2] /\ a[3] = b[3] /\ a[4] = b[4]
    BY <2>2, <2>3
  <2>4. CASE ~(a[1] = b[1] /\ a[2] = b[2] /\ a[3] = b[3] /\ a[4] = b[4])
    BY <2>1, <2>4, LowerByParts
  <2> QED
    BY <2>3, <2>4
<1> QED
  BY <1>1, <1>2, <1>3

-----------------------------------------------------------------------------
(* What lies in a set before a member, counted, gives each member a place *)

IsOrder(S, R) ==
  /\ \A x \in S : <<x, x>> \notin R
  /\ \A x, y, z \in S : <<x, y>> \in R /\ <<y, z>> \in R => <<x, z>> \in R
  /\ \A x, y \in S : x = y \/ <<x, y>> \in R \/ <<y, x>> \in R

\* A later member of a finite ordered set has more members before it,
LEMMA PlacesGrow ==
  ASSUME NEW S, NEW R, IsFiniteSet(S), IsOrder(S, R), NEW x \in S, NEW y \in S, <<x, y>> \in R
  PROVE  Cardinality(Earlier(S, R, x)) < Cardinality(Earlier(S, R, y))
<1>1. Earlier(S, R, x) \in SUBSET Earlier(S, R, y) /\ x \in Earlier(S, R, y) /\ x \notin Earlier(S, R, x)
  BY DEF Earlier, IsOrder
<1>2. Earlier(S, R, y) \in SUBSET S
  BY DEF Earlier
<1>3. IsFiniteSet(Earlier(S, R, y))
  BY <1>2, FS_Subset
<1>4. /\ IsFiniteSet(Earlier(S, R, x)) /\ Cardinality(Earlier(S, R, x)) <= Cardinality(Earlier(S, R, y))
      /\ Cardinality(Earlier(S, R, x)) # Cardinality(Earlier(S, R, y))
  BY <1>1, <1>3, FS_Subset
<1> QED
  BY <1>3, <1>4, FS_CardinalityType

\* so its place lies between 1 and the size of the set,
LEMMA PlaceBounds ==
  ASSUME NEW S, NEW R, IsFiniteSet(S), IsOrder(S, R), NEW x \in S
  PROVE  Cardinality(Earlier(S, R, x)) + 1 \in 1..Cardinality(S)
<1>1. Earlier(S, R, x) \in SUBSET (S \ {x})
  BY DEF Earlier, IsOrder
<1>2. IsFiniteSet(S \ {x}) /\ Cardinality(S \ {x}) = Cardinality(S) - 1
  BY FS_RemoveElement
<1>3. IsFiniteSet(Earlier(S, R, x)) /\ Cardinality(Earlier(S, R, x)) <= Cardinality(S \ {x})
  BY <1>1, <1>2, FS_Subset
<1> QED
  BY <1>2, <1>3, FS_CardinalityType

\* and, counting members and places, no place is empty.
LEMMA EveryPlaceIsTaken ==
  ASSUME NEW S, NEW R, IsFiniteSet(S), IsOrder(S, R), NEW n \in 1..Cardinality(S)
  PROVE  \E x \in S : Cardinality(Earlier(S, R, x)) = n - 1
<1>. DEFINE f == [x \in S |-> Cardinality(Earlier(S, R, x)) + 1]
<1>. DEFINE T == 1..Cardinality(S)
<1>0. Cardinality(S) \in Nat
  BY FS_CardinalityType
<1>1. \A x \in S : Cardinality(Earlier(S, R, x)) \in Nat
  <2>. SUFFICES ASSUME NEW x \in S PROVE Cardinality(Earlier(S, R, x)) \in Nat
    OBVIOUS
  <2>1. Earlier(S, R, x) \in SUBSET S
    BY DEF Earlier
  <2> QED
    BY <2>1, FS_Subset, FS_CardinalityType
<1>2. f \in [S -> T]
  BY PlaceBounds
<1>3. \A x, y \in S : f[x] = f[y] => x = y
  <2>. SUFFICES ASSUME NEW x \in S, NEW y \in S, x # y PROVE f[x] # f[y]
    OBVIOUS
  <2>1. <<x, y>> \in R \/ <<y, x>> \in R
    BY DEF IsOrder
  <2>2. Cardinality(Earlier(S, R, x)) # Cardinality(Earlier(S, R, y))
    BY <1>1, <2>1, PlacesGrow
  <2> QED
    BY <1>1, <2>2
<1>4. f \in Injection(S, T)
  <2>. HIDE DEF f, T
  <2> QED
    BY <1>2, <1>3 DEF Injection, IsInjective
<1>5. IsFiniteSet(T) /\ Cardinality(T) = Cardinality(S)
  <2>1. IsFiniteSet(T) /\ Cardinality(T) = IF 1 > Cardinality(S) THEN 0 ELSE Cardinality(S) - 1 + 1
    BY <1>0, FS_Interval
  <2> QED
    BY <1>0, <2>1
<1>6. f \in Surjection(S, T)
  BY <1>4, <1>5, FS_Injection
<1>7. PICK x \in S : f[x] = n
  BY <1>6 DEF Surjection
<1> QED
  BY <1>0, <1>1, <1>7

\* InOrder puts at each place the member that has its place.
LEMMA InOrderPlaces ==
  ASSUME NEW S, NEW R, IsFiniteSet(S), IsOrder(S, R)
  PROVE  /\ InOrder(S, R) \in Seq(S) /\ Len(InOrder(S, R)) = Cardinality(S)
         /\ \A n \in 1..Cardinality(S) : Cardinality(Earlier(S, R, InOrder(S, R)[n])) = n - 1
<1>0. Cardinality(S) \in Nat
  BY FS_CardinalityType
<1>1. InOrder(S, R) = [n \in 1..Cardinality(S) |-> CHOOSE x \in S : Cardinality(Earlier(S, R, x)) = n - 1]
  BY DEF InOrder
<1>2. \A n \in 1..Cardinality(S) :
        InOrder(S, R)[n] \in S /\ Cardinality(Earlier(S, R, InOrder(S, R)[n])) = n - 1
  <2>. SUFFICES ASSUME NEW n \in 1..Cardinality(S)
                PROVE  InOrder(S, R)[n] \in S /\ Cardinality(Earlier(S, R, InOrder(S, R)[n])) = n - 1
    OBVIOUS
  <2>1. InOrder(S, R)[n] = CHOOSE x \in S : Cardinality(Earlier(S, R, x)) = n - 1
    BY <1>1
  <2>2. \E x \in S : Cardinality(Earlier(S, R, x)) = n - 1
    BY EveryPlaceIsTaken
  <2> QED
    BY <2>1, <2>2
<1>3. InOrder(S, R) \in [1..Cardinality(S) -> S]
  BY <1>1, <1>2
<1> QED
  BY <1>0, <1>2, <1>3

\* Every member has its place, and of two the lower comes first.
LEMMA InOrderIsSorted ==
  ASSUME NEW S, NEW R, IsFiniteSet(S), IsOrder(S, R)
  PROVE  /\ \A x \in S : \E n \in 1..Cardinality(S) : InOrder(S, R)[n] = x
         /\ \A m, n \in 1..Cardinality(S) : m < n => <<InOrder(S, R)[m], InOrder(S, R)[n]>> \in R
<1>0. Cardinality(S) \in Nat
  BY FS_CardinalityType
<1>1. /\ \A n \in 1..Cardinality(S) : InOrder(S, R)[n] \in S
      /\ \A n \in 1..Cardinality(S) : Cardinality(Earlier(S, R, InOrder(S, R)[n])) = n - 1
  BY InOrderPlaces
<1>2. ASSUME NEW x \in S PROVE \E n \in 1..Cardinality(S) : InOrder(S, R)[n] = x
  <2>. DEFINE n == Cardinality(Earlier(S, R, x)) + 1
  <2>1. n \in 1..Cardinality(S)
    BY PlaceBounds
  <2>2. Earlier(S, R, x) \in SUBSET S
    BY DEF Earlier
  <2>3. Cardinality(Earlier(S, R, x)) \in Nat
    BY <2>2, FS_Subset, FS_CardinalityType
  <2>. HIDE DEF n
  <2>. DEFINE y == InOrder(S, R)[n]
  <2>4. y \in S /\ Cardinality(Earlier(S, R, y)) = n - 1
    BY <1>1, <2>1
  <2>. HIDE DEF y
  <2>5. Cardinality(Earlier(S, R, y)) = Cardinality(Earlier(S, R, x))
    BY <2>3, <2>4 DEF n
  <2>6. <<x, y>> \notin R /\ <<y, x>> \notin R
    BY <2>3, <2>4, <2>5, PlacesGrow
  <2>7. x = y
    BY <2>4, <2>6 DEF IsOrder
  <2> QED
    BY <2>1, <2>7 DEF y
<1>3. ASSUME NEW m \in 1..Cardinality(S), NEW n \in 1..Cardinality(S), m < n
      PROVE  <<InOrder(S, R)[m], InOrder(S, R)[n]>> \in R
  <2>. DEFINE x == InOrder(S, R)[m]
  <2>. DEFINE y == InOrder(S, R)[n]
  <2>1. x \in S /\ y \in S /\ Cardinality(Earlier(S, R, x)) = m - 1 /\ Cardinality(Earlier(S, R, y)) = n - 1
    BY <1>1
  <2>. HIDE DEF x, y
  <2>2. x # y
    BY <1>0, <1>3, <2>1
  <2>3. <<y, x>> \notin R
    <3>. SUFFICES ASSUME <<y, x>> \in R PROVE FALSE
      OBVIOUS
    <3>1. Cardinality(Earlier(S, R, y)) < Cardinality(Earlier(S, R, x))
      BY <2>1, PlacesGrow
    <3> QED
      BY <1>0, <1>3, <2>1, <3>1
  <2>4. <<x, y>> \in R
    BY <2>1, <2>2, <2>3 DEF IsOrder
  <2> QED
    BY <2>4 DEF x, y
<1> QED
  BY <1>2, <1>3

VersionOrder(tags) == {p \in tags \X tags : Lower(p[1], p[2])}

LEMMA VersionOrderIsOrder ==
  ASSUME NEW tags \in SUBSET Versions
  PROVE  /\ IsOrder(tags, VersionOrder(tags))
         /\ \A a, b \in tags : <<a, b>> \in VersionOrder(tags) <=> Lower(a, b)
<1>1. \A a, b \in tags : <<a, b>> \in VersionOrder(tags) <=> Lower(a, b)
  BY DEF VersionOrder
<1> QED
  BY <1>1, LowerIsOrder DEF IsOrder

\* Ascending lists every tag once, the lower one first.
LEMMA AscendingIsSorted ==
  ASSUME NEW tags \in SUBSET Versions, IsFiniteSet(tags)
  PROVE  /\ Ascending(tags) \in Seq(tags) /\ Len(Ascending(tags)) = Cardinality(tags)
         /\ \A t \in tags : \E n \in 1..Len(Ascending(tags)) : Ascending(tags)[n] = t
         /\ \A m, n \in 1..Len(Ascending(tags)) : m < n => Lower(Ascending(tags)[m], Ascending(tags)[n])
<1>. DEFINE A == Ascending(tags)
<1>1. A = InOrder(tags, VersionOrder(tags))
  BY DEF Ascending, VersionOrder
<1>2. IsOrder(tags, VersionOrder(tags)) /\ \A a, b \in tags : <<a, b>> \in VersionOrder(tags) <=> Lower(a, b)
  BY VersionOrderIsOrder
<1>. HIDE DEF A
<1>3. A \in Seq(tags) /\ Len(A) = Cardinality(tags)
  BY <1>1, <1>2, InOrderPlaces
<1>4. /\ \A t \in tags : \E n \in 1..Cardinality(tags) : A[n] = t
      /\ \A m, n \in 1..Cardinality(tags) : m < n => <<A[m], A[n]>> \in VersionOrder(tags)
  BY <1>1, <1>2, InOrderIsSorted
<1>5. \A m, n \in 1..Len(A) : m < n => Lower(A[m], A[n])
  <2>1. \A n \in 1..Len(A) : A[n] \in tags
    BY <1>3, ElementOfSeq
  <2> QED
    BY <1>2, <1>3, <1>4, <2>1
<1> QED
  BY <1>3, <1>4, <1>5 DEF A

\* What a list holds, for ToSet of the community modules.
LEMMA SetOfSeq ==
  ASSUME NEW S, NEW s \in Seq(S)
  PROVE  /\ ToSet(s) \in SUBSET S /\ IsFiniteSet(ToSet(s))
         /\ ToSet(s) = {s[n] : n \in 1..Len(s)} /\ (ToSet(s) = {} <=> s = <<>>)
<1>1. Len(s) \in Nat /\ s \in [1..Len(s) -> S] /\ DOMAIN s = 1..Len(s)
  BY LenProperties
<1>2. ToSet(s) = {s[n] : n \in 1..Len(s)}
  BY <1>1 DEF ToSet
<1>3. ToSet(s) \in SUBSET S
  BY <1>1, <1>2
<1>4. s \in Surjection(1..Len(s), ToSet(s))
  <2>1. s \in [1..Len(s) -> ToSet(s)]
    BY <1>1, <1>2
  <2>2. \A t \in ToSet(s) : \E n \in 1..Len(s) : s[n] = t
    BY <1>2
  <2> QED
    BY <2>1, <2>2 DEF Surjection
<1>5. IsFiniteSet(1..Len(s))
  BY <1>1, FS_Interval
<1>6. IsFiniteSet(ToSet(s))
  BY <1>4, <1>5, FS_Surjection
<1>7. ToSet(s) = {} <=> s = <<>>
  <2>1. CASE s = <<>>
    BY <1>2, <2>1
  <2>2. CASE s # <<>>
    <3>1. Len(s) \in Nat \ {0}
      BY <2>2, EmptySeq
    <3>2. s[1] \in ToSet(s)
      BY <1>2, <3>1
    <3> QED
      BY <2>2, <3>2
  <2> QED
    BY <2>1, <2>2
<1> QED
  BY <1>2, <1>3, <1>6, <1>7

LEMMA SetOfConcat ==
  ASSUME NEW S, NEW s \in Seq(S), NEW t \in Seq(S)
  PROVE  s \o t \in Seq(S) /\ ToSet(s \o t) = ToSet(s) \cup ToSet(t)
<1>1. /\ s \o t \in Seq(S) /\ Len(s \o t) = Len(s) + Len(t)
      /\ \A i \in 1..Len(s) + Len(t) : (s \o t)[i] = IF i <= Len(s) THEN s[i] ELSE t[i - Len(s)]
  BY ConcatProperties
<1>2. Len(s) \in Nat /\ Len(t) \in Nat
  BY LenProperties
<1>3. /\ ToSet(s) = {s[n] : n \in 1..Len(s)} /\ ToSet(t) = {t[n] : n \in 1..Len(t)}
      /\ ToSet(s \o t) = {(s \o t)[n] : n \in 1..Len(s \o t)}
  BY <1>1, SetOfSeq
<1>. DEFINE u == s \o t
<1>. HIDE DEF u
<1>4. \A n \in 1..Len(s) : n \in 1..(Len(s) + Len(t)) /\ u[n] = s[n]
  BY <1>1, <1>2 DEF u
<1>5. \A n \in 1..Len(t) : n + Len(s) \in 1..(Len(s) + Len(t)) /\ u[n + Len(s)] = t[n]
  BY <1>1, <1>2 DEF u
<1>6. \A n \in 1..(Len(s) + Len(t)) : (n \in 1..Len(s) /\ u[n] = s[n]) \/ (n - Len(s) \in 1..Len(t) /\ u[n] = t[n - Len(s)])
  BY <1>1, <1>2 DEF u
<1>7. ToSet(u) = {u[n] : n \in 1..(Len(s) + Len(t))}
  BY <1>1, <1>3 DEF u
<1>8. ToSet(u) \subseteq ToSet(s) \cup ToSet(t)
  BY <1>3, <1>6, <1>7
<1>9. ToSet(s) \subseteq ToSet(u)
  BY <1>3, <1>4, <1>7
<1>10. ToSet(t) \subseteq ToSet(u)
  BY <1>3, <1>5, <1>7
<1> QED
  BY <1>1, <1>8, <1>9, <1>10 DEF u

LEMMA SetOfAppend ==
  ASSUME NEW S, NEW s \in Seq(S), NEW e \in S
  PROVE  Append(s, e) \in Seq(S) /\ ToSet(Append(s, e)) = ToSet(s) \cup {e}
<1>. DEFINE u == <<e>>
<1>1. u \in Seq(S) /\ Len(u) = 1 /\ u[1] = e /\ 1..1 = {1}
  OBVIOUS
<1>2. Append(s, e) = s \o u
  BY AppendIsConcat
<1>. HIDE DEF u
<1>3. ToSet(u) = {e}
  <2>1. ToSet(u) = {u[n] : n \in 1..Len(u)}
    BY <1>1, SetOfSeq
  <2> QED
    BY <1>1, <2>1
<1>4. s \o u \in Seq(S) /\ ToSet(s \o u) = ToSet(s) \cup ToSet(u)
  BY <1>1, SetOfConcat
<1>. DEFINE v == s \o u
<1>5. v \in Seq(S) /\ ToSet(v) = ToSet(s) \cup {e}
  BY <1>3, <1>4
<1>. DEFINE w == Append(s, e)
<1>6. w = v
  BY <1>2
<1>. HIDE DEF v, w
<1>7. w \in Seq(S) /\ ToSet(w) = ToSet(s) \cup {e}
  BY <1>5, <1>6
<1> QED
  BY <1>7 DEF w

\* Of the tags a filter admits, the last in order is the first candidate.
LEMMA DescendingIsBest ==
  ASSUME NEW tags \in SUBSET Versions, IsFiniteSet(tags)
  PROVE  /\ Descending(tags) = <<>> <=> tags = {}
         /\ tags # {} => /\ Descending(tags)[1] \in tags
                         /\ \A t \in tags : ~Lower(Descending(tags)[1], t)
<1>. DEFINE A == Ascending(tags)
<1>1. /\ A \in Seq(tags) /\ Len(A) = Cardinality(tags)
      /\ \A t \in tags : \E n \in 1..Len(A) : A[n] = t
      /\ \A m, n \in 1..Len(A) : m < n => Lower(A[m], A[n])
  BY AscendingIsSorted
<1>2. Descending(tags) = [i \in 1..Len(A) |-> A[(Len(A) - i) + 1]]
  BY DEF Descending, Reverse
<1>. HIDE DEF A
<1>3. Len(A) \in Nat /\ (Len(A) = 0 <=> tags = {})
  BY <1>1, FS_CardinalityType, FS_EmptySet
<1>4. CASE tags = {}
  <2>1. 1..Len(A) = {}
    BY <1>3, <1>4
  <2> QED
    BY <1>2, <1>4, <2>1
<1>5. CASE tags # {}
  <2>1. Len(A) \in Nat /\ Len(A) >= 1
    BY <1>3, <1>5
  <2>2. Descending(tags)[1] = A[Len(A)] /\ Descending(tags) # <<>>
    <3>1. DOMAIN Descending(tags) = 1..Len(A)
      BY <1>2
    <3>2. 1 \in 1..Len(A)
      BY <2>1
    <3>3. Descending(tags)[1] = A[(Len(A) - 1) + 1]
      BY <1>2, <3>2
    <3>4. Descending(tags) # <<>>
      BY <3>1, <3>2
    <3> QED
      BY <2>1, <3>3, <3>4
  <2>3. A[Len(A)] \in tags
    BY <1>1, <2>1, ElementOfSeq
  <2>4. ASSUME NEW t \in tags PROVE ~Lower(A[Len(A)], t)
    <3>1. PICK n \in 1..Len(A) : A[n] = t
      BY <1>1
    <3>2. n = Len(A) \/ (n < Len(A) /\ Lower(t, A[Len(A)]))
      BY <1>1, <2>1, <3>1
    <3>3. t \in Versions /\ A[Len(A)] \in Versions
      BY <2>3
    <3> QED
      BY <3>1, <3>2, <3>3, LowerIsOrder
  <2> QED
    BY <1>5, <2>2, <2>3, <2>4
<1> QED
  BY <1>4, <1>5

LEMMA ShownReleasesAreVersions ==
  ASSUME NEW image, NEW page \in Seq(Versions)
  PROVE  ShownReleases(image, page) \in Seq(Versions)
<1>. DEFINE shown == {i \in DOMAIN page : image.prereleases \/ page[i][4] = 1}
<1>. DEFINE R == {p \in shown \X shown : p[1] < p[2]}
<1>. DEFINE order == InOrder(shown, R)
<1>1. Len(page) \in Nat /\ DOMAIN page = 1..Len(page) /\ \A i \in 1..Len(page) : page[i] \in Versions
  BY LenProperties, ElementOfSeq
<1>2. IsFiniteSet(shown) /\ shown \subseteq 1..Len(page)
  <2>1. IsFiniteSet(1..Len(page)) /\ shown \in SUBSET (1..Len(page))
    BY <1>1, FS_Interval
  <2> QED
    BY <2>1, FS_Subset
<1>3. ShownReleases(image, page) = [n \in 1..Cardinality(shown) |-> page[order[n]]]
  BY DEF ShownReleases
<1>. HIDE DEF shown
<1>4. IsOrder(shown, R)
  <2>1. \A i, j \in shown : <<i, j>> \in R <=> i < j
    OBVIOUS
  <2>2. shown \subseteq Nat
    BY <1>1, <1>2
  <2>. HIDE DEF R
  <2> QED
    BY <2>1, <2>2 DEF IsOrder
<1>. HIDE DEF R
<1>5. order \in Seq(shown) /\ Len(order) = Cardinality(shown)
  BY <1>2, <1>4, InOrderPlaces
<1>. HIDE DEF order
<1>6. \A n \in 1..Cardinality(shown) : page[order[n]] \in Versions
  BY <1>1, <1>2, <1>5, ElementOfSeq
<1>7. Cardinality(shown) \in Nat
  BY <1>2, FS_CardinalityType
<1> QED
  BY <1>3, <1>6, <1>7

LEMMA LeastNat ==
  ASSUME NEW S \in SUBSET Nat, S # {}
  PROVE  \E i \in S : \A j \in S : i <= j
<1>. DEFINE smaller == {ss \in Nat \X Nat : ss[1] < ss[2]}
<1>1. IsWellFoundedOn(smaller, Nat)
  BY NatLessThanWellFounded DEF OpToRel
<1>2. PICK i \in S : \A j \in S : <<j, i>> \notin smaller
  BY <1>1, WFMin
<1>3. \A j \in S : i \in Nat /\ j \in Nat /\ (i <= j \/ <<j, i>> \in smaller)
  OBVIOUS
<1> QED
  BY <1>2, <1>3

\* A forge is taken at its word, but only for versions.
LEMMA ForgeTagsAreVersions ==
  ASSUME NEW image, NEW pages \in Pages
  PROVE  fetchForgeReleaseTags(image, pages) \in Seq(Versions)
<1>. DEFINE useful == {i \in DOMAIN pages : i <= MaxForgePages /\ ShownReleases(image, pages[i]) # <<>>}
<1>1. Len(pages) \in Nat /\ DOMAIN pages = 1..Len(pages) /\ \A i \in 1..Len(pages) : pages[i] \in Seq(Versions)
  BY LenProperties, ElementOfSeq DEF Pages
<1>2. useful = {} => fetchForgeReleaseTags(image, pages) = <<>>
  BY DEF fetchForgeReleaseTags
<1>3. ASSUME useful # {} PROVE fetchForgeReleaseTags(image, pages) \in Seq(Versions)
  <2>. DEFINE first == CHOOSE i \in useful : \A j \in useful : i <= j
  <2>1. fetchForgeReleaseTags(image, pages) = ShownReleases(image, pages[first])
    BY <1>3 DEF fetchForgeReleaseTags
  <2>2. useful \subseteq Nat
    BY <1>1
  <2>3. \E i \in useful : \A j \in useful : i <= j
    BY <1>3, <2>2, LeastNat
  <2>4. first \in useful
    BY <2>3
  <2> QED
    BY <1>1, <2>1, <2>4, ShownReleasesAreVersions
<1>4. <<>> \in Seq(Versions)
  BY EmptySeq
<1> QED
  BY <1>2, <1>3, <1>4

-----------------------------------------------------------------------------
(* One search: doubling, then bisection *)

LiveModes == {"first", "double", "bisect"}
SearchRows ==
  [goal : PatchGoals \cup MinorGoals \cup {"major"}, at : Nat \X Nat, start : Nat, low : Nat, high : Nat,
   step : Nat, mode : LiveModes \cup {"found", "none"}]

\* The value reached lies below the next one tried.
SearchTyped(p) ==
  /\ p \in SearchRows /\ p.step >= 1 /\ p.start <= p.low
  /\ p.mode = "first" => p.low = p.start
  /\ p.mode = "double" => p.low < p.start + p.step
  /\ p.mode = "bisect" => p.low < p.high

\* What the answers of a registry that did not change mean.
SearchFacts(reg, p) ==
  /\ p.mode \in {"double", "bisect", "found"} => SearchedTag(p, p.low) \in reg
  /\ p.mode = "bisect" => SearchedTag(p, p.high + 1) \notin reg
  /\ p.mode = "found" => SearchedTag(p, p.low + 1) \notin reg
  /\ p.mode = "none" => SearchedTag(p, p.start) \notin reg

\* Bisected changes at most the mode.
LEMMA BisectedFields ==
  ASSUME NEW p \in SearchRows
  PROVE  /\ Bisected(p) \in SearchRows
         /\ Bisected(p).goal = p.goal /\ Bisected(p).at = p.at /\ Bisected(p).start = p.start
         /\ Bisected(p).low = p.low /\ Bisected(p).high = p.high /\ Bisected(p).step = p.step
         /\ p.low < p.high => Bisected(p).mode = p.mode
         /\ ~(p.low < p.high) => Bisected(p).mode = "found"
BY DEF Bisected, SearchRows

LEMMA SameSearchedTags ==
  ASSUME NEW p, NEW q, q.goal = p.goal, q.at = p.at
  PROVE  \A x : SearchedTag(q, x) = SearchedTag(p, x)
BY DEF SearchedTag

\* Only releases are probed for.
LEMMA SearchedTagIsVersion ==
  ASSUME NEW p \in SearchRows, NEW x \in Nat
  PROVE  SearchedTag(p, x) \in Versions /\ SearchedTag(p, x)[4] = 1
<1>1. p.at[1] \in Nat /\ p.at[2] \in Nat /\ p.goal \in PatchGoals \cup MinorGoals \cup {"major"}
  BY DEF SearchRows
<1>2. CASE p.goal \in PatchGoals
  BY <1>1, <1>2 DEF SearchedTag, Versions
<1>3. CASE p.goal \in MinorGoals
  BY <1>1, <1>3 DEF SearchedTag, Versions, PatchGoals, MinorGoals
<1>4. CASE p.goal = "major"
  BY <1>1, <1>4 DEF SearchedTag, Versions, PatchGoals, MinorGoals
<1> QED
  BY <1>1, <1>2, <1>3, <1>4

\* What an answer makes of a search, part by part.
LEMMA AnswerFields ==
  ASSUME NEW p, SearchTyped(p), p.mode \in LiveModes, NEW exists \in BOOLEAN
  PROVE  LET q == probeContiguousSemverComponent(p, exists)
         IN  /\ q \in SearchRows /\ q.goal = p.goal /\ q.at = p.at /\ q.start = p.start
             /\ p.mode = "first" /\ exists => q.mode = "double" /\ q.low = p.low /\ q.step = p.step
             /\ p.mode = "first" /\ ~exists => q.mode = "none" /\ q.low = p.low /\ q.step = p.step
             /\ p.mode = "double" /\ exists =>
                  q.mode = "double" /\ q.low = p.start + p.step /\ q.step = 2 * p.step
             /\ p.mode = "double" /\ ~exists =>
                  /\ q.low = p.low /\ q.high = p.start + p.step - 1 /\ q.step = p.step
                  /\ q.mode = IF p.low < q.high THEN "bisect" ELSE "found"
             /\ p.mode = "bisect" /\ exists =>
                  /\ q.low = Tried(p) /\ q.high = p.high /\ q.step = p.step
                  /\ q.mode = IF q.low < q.high THEN "bisect" ELSE "found"
             /\ p.mode = "bisect" /\ ~exists =>
                  /\ q.low = p.low /\ q.high = Tried(p) - 1 /\ q.step = p.step
                  /\ q.mode = IF q.low < q.high THEN "bisect" ELSE "found"
<1>. DEFINE q == probeContiguousSemverComponent(p, exists)
<1>1. /\ p \in SearchRows /\ p.start \in Nat /\ p.low \in Nat /\ p.high \in Nat /\ p.step \in Nat
      /\ p.step >= 1 /\ p.start <= p.low
  BY DEF SearchTyped, SearchRows
<1>2. CASE p.mode = "first"
  <2>1. q = [p EXCEPT !.mode = IF exists THEN "double" ELSE "none"]
    BY <1>2 DEF probeContiguousSemverComponent
  <2>. HIDE DEF q
  <2>2. /\ q \in SearchRows /\ q.goal = p.goal /\ q.at = p.at /\ q.start = p.start /\ q.low = p.low
        /\ q.step = p.step /\ exists => q.mode = "double"
        /\ ~exists => q.mode = "none"
    BY <1>1, <2>1 DEF SearchRows, LiveModes
  <2> QED
    BY <1>2, <2>1, <2>2, <1>1 DEF q, SearchRows
<1>3. CASE p.mode = "double" /\ exists
  <2>1. q = [p EXCEPT !.low = Tried(p), !.step = 2 * p.step] /\ Tried(p) = p.start + p.step
    BY <1>3 DEF probeContiguousSemverComponent, Tried
  <2>. HIDE DEF q
  <2>2. /\ q.goal = p.goal /\ q.at = p.at /\ q.start = p.start /\ q.low = p.start + p.step
        /\ q.step = 2 * p.step /\ q.mode = p.mode
    BY <1>1, <2>1 DEF SearchRows
  <2>3. p.start + p.step \in Nat /\ 2 * p.step \in Nat
    BY <1>1
  <2>4. q \in SearchRows
    BY <1>1, <2>1, <2>3 DEF SearchRows
  <2> QED
    BY <1>3, <2>2, <2>4 DEF q
<1>4. CASE p.mode = "double" /\ ~exists
  <2>. DEFINE r == [p EXCEPT !.mode = "bisect", !.high = Tried(p) - 1]
  <2>1. q = Bisected(r) /\ Tried(p) = p.start + p.step
    BY <1>4 DEF probeContiguousSemverComponent, Tried
  <2>2. /\ r.goal = p.goal /\ r.at = p.at /\ r.start = p.start /\ r.low = p.low
        /\ r.high = p.start + p.step - 1 /\ r.step = p.step /\ r.mode = "bisect"
    BY <1>1, <2>1 DEF SearchRows
  <2>3. Tried(p) - 1 \in Nat
    BY <1>1, <2>1
  <2>4. r \in SearchRows
    <3>. HIDE DEF q
    <3> QED
      BY <1>1, <2>3 DEF SearchRows, LiveModes
  <2>. HIDE DEF q, r
  <2>5. /\ q \in SearchRows /\ q.goal = r.goal /\ q.at = r.at /\ q.start = r.start
        /\ q.low = r.low /\ q.high = r.high /\ q.step = r.step
        /\ q.mode = IF r.low < r.high THEN r.mode ELSE "found"
    BY <2>1, <2>4, BisectedFields
  <2> QED
    BY <1>4, <2>2, <2>5 DEF q
<1>5. CASE p.mode = "bisect"
  <2>1. p.low < p.high
    BY <1>5 DEF SearchTyped
  <2>2. Tried(p) = (p.low + p.high + 1) \div 2
    BY <1>5 DEF Tried
  <2>3. Tried(p) \in Nat /\ Tried(p) - 1 \in Nat
    BY <1>1, <2>1, <2>2
  <2>4. CASE exists
    <3>. DEFINE r == [p EXCEPT !.low = Tried(p)]
    <3>1. q = Bisected(r)
      BY <1>5, <2>4 DEF probeContiguousSemverComponent
    <3>2. /\ r \in SearchRows /\ r.goal = p.goal /\ r.at = p.at /\ r.start = p.start /\ r.low = Tried(p)
          /\ r.high = p.high /\ r.step = p.step /\ r.mode = "bisect"
      BY <1>1, <1>5, <2>3 DEF SearchRows, LiveModes
    <3>. HIDE DEF q, r
    <3>3. /\ q \in SearchRows /\ q.goal = r.goal /\ q.at = r.at /\ q.start = r.start
          /\ q.low = r.low /\ q.high = r.high /\ q.step = r.step
          /\ q.mode = IF r.low < r.high THEN r.mode ELSE "found"
      BY <3>1, <3>2, BisectedFields
    <3> QED
      BY <1>5, <2>4, <3>2, <3>3 DEF q
  <2>5. CASE ~exists
    <3>. DEFINE r == [p EXCEPT !.high = Tried(p) - 1]
    <3>1. q = Bisected(r)
      BY <1>5, <2>5 DEF probeContiguousSemverComponent
    <3>2. /\ r \in SearchRows /\ r.goal = p.goal /\ r.at = p.at /\ r.start = p.start /\ r.low = p.low
          /\ r.high = Tried(p) - 1 /\ r.step = p.step /\ r.mode = "bisect"
      BY <1>1, <1>5, <2>3 DEF SearchRows, LiveModes
    <3>. HIDE DEF q, r
    <3>3. /\ q \in SearchRows /\ q.goal = r.goal /\ q.at = r.at /\ q.start = r.start
          /\ q.low = r.low /\ q.high = r.high /\ q.step = r.step
          /\ q.mode = IF r.low < r.high THEN r.mode ELSE "found"
      BY <3>1, <3>2, BisectedFields
    <3> QED
      BY <1>5, <2>5, <3>2, <3>3 DEF q
  <2> QED
    BY <2>4, <2>5
<1> QED
  BY <1>2, <1>3, <1>4, <1>5 DEF LiveModes

\* Where the next request of a search falls.
LEMMA TriedLies ==
  ASSUME NEW p, SearchTyped(p), p.mode \in LiveModes
  PROVE  /\ Tried(p) \in Nat /\ p.start <= Tried(p)
         /\ p.mode = "first" => Tried(p) = p.start
         /\ p.mode = "double" => Tried(p) = p.start + p.step
         /\ p.mode = "bisect" => p.low < Tried(p) /\ Tried(p) <= p.high
<1>1. /\ p.start \in Nat /\ p.low \in Nat /\ p.high \in Nat /\ p.step \in Nat /\ p.step >= 1 /\ p.start <= p.low
      /\ p.mode = "bisect" => p.low < p.high
  BY DEF SearchTyped, SearchRows
<1>2. /\ p.mode = "first" => Tried(p) = p.start
      /\ p.mode = "double" => Tried(p) = p.start + p.step
      /\ p.mode = "bisect" => Tried(p) = (p.low + p.high + 1) \div 2
  BY DEF Tried
<1>3. ASSUME p.mode = "bisect" PROVE p.low < Tried(p) /\ Tried(p) <= p.high /\ Tried(p) \in Nat
  BY <1>1, <1>2, <1>3
<1> QED
  BY <1>1, <1>2, <1>3 DEF LiveModes

\* An answer leaves a search with low and high in order.
LEMMA AnswerIsTyped ==
  ASSUME NEW p, SearchTyped(p), p.mode \in LiveModes, NEW exists \in BOOLEAN
  PROVE  SearchTyped(probeContiguousSemverComponent(p, exists))
<1>. DEFINE q == probeContiguousSemverComponent(p, exists)
<1>. SUFFICES SearchTyped(q)
  OBVIOUS
<1>1. /\ p.start \in Nat /\ p.low \in Nat /\ p.high \in Nat /\ p.step \in Nat /\ p.step >= 1 /\ p.start <= p.low
      /\ p.mode = "first" => p.low = p.start
      /\ p.mode = "double" => p.low < p.start + p.step
      /\ p.mode = "bisect" => p.low < p.high
  BY DEF SearchTyped, SearchRows
<1>2. /\ Tried(p) \in Nat /\ p.start <= Tried(p)
      /\ p.mode = "bisect" => p.low < Tried(p) /\ Tried(p) <= p.high
  BY TriedLies
<1>3. /\ q \in SearchRows /\ q.start = p.start
      /\ p.mode = "first" /\ exists => q.mode = "double" /\ q.low = p.low /\ q.step = p.step
      /\ p.mode = "first" /\ ~exists => q.mode = "none" /\ q.low = p.low /\ q.step = p.step
      /\ p.mode = "double" /\ exists =>
           q.mode = "double" /\ q.low = p.start + p.step /\ q.step = 2 * p.step
      /\ p.mode = "double" /\ ~exists =>
           /\ q.low = p.low /\ q.high = p.start + p.step - 1 /\ q.step = p.step
           /\ q.mode = IF p.low < q.high THEN "bisect" ELSE "found"
      /\ p.mode = "bisect" /\ exists =>
           /\ q.low = Tried(p) /\ q.high = p.high /\ q.step = p.step
           /\ q.mode = IF q.low < q.high THEN "bisect" ELSE "found"
      /\ p.mode = "bisect" /\ ~exists =>
           /\ q.low = p.low /\ q.high = Tried(p) - 1 /\ q.step = p.step
           /\ q.mode = IF q.low < q.high THEN "bisect" ELSE "found"
  BY AnswerFields
<1>. HIDE DEF q
<1>4. CASE p.mode = "first"
  <2>1. q \in SearchRows /\ q.step >= 1 /\ q.start <= q.low
    BY <1>1, <1>3, <1>4
  <2>2. q.mode \in {"double", "none"} /\ q.low < q.start + q.step
    BY <1>1, <1>3, <1>4
  <2> QED
    BY <2>1, <2>2 DEF SearchTyped
<1>5. CASE p.mode = "double"
  <2>1. q \in SearchRows /\ q.step >= 1 /\ q.start <= q.low /\ q.mode \in {"double", "bisect", "found"}
    BY <1>1, <1>3, <1>5
  <2>2. (q.mode = "double" => q.low < q.start + q.step) /\ (q.mode = "bisect" => q.low < q.high)
    BY <1>1, <1>3, <1>5
  <2> QED
    BY <2>1, <2>2 DEF SearchTyped
<1>6. CASE p.mode = "bisect"
  <2>1. q \in SearchRows /\ q.step >= 1 /\ q.start <= q.low /\ q.mode \in {"bisect", "found"}
    BY <1>1, <1>2, <1>3, <1>6
  <2>2. q.mode = "bisect" => q.low < q.high
    BY <1>1, <1>3, <1>6
  <2> QED
    BY <2>1, <2>2 DEF SearchTyped
<1> QED
  BY <1>4, <1>5, <1>6 DEF LiveModes

\* A registry that holds still makes each answer one more fact about it.
LEMMA AnswerKeepsFacts ==
  ASSUME NEW p, SearchTyped(p), p.mode \in LiveModes, NEW reg, SearchFacts(reg, p)
  PROVE  SearchFacts(reg, probeContiguousSemverComponent(p, ProbedTag(p) \in reg))
<1>. DEFINE exists == ProbedTag(p) \in reg
<1>. DEFINE q == probeContiguousSemverComponent(p, exists)
<1>. SUFFICES SearchFacts(reg, q)
  OBVIOUS
<1>1. /\ p.start \in Nat /\ p.low \in Nat /\ p.high \in Nat /\ p.step \in Nat /\ p.step >= 1 /\ p.start <= p.low
      /\ p.mode = "first" => p.low = p.start
      /\ p.mode = "double" => p.low < p.start + p.step
      /\ p.mode = "bisect" => p.low < p.high
  BY DEF SearchTyped, SearchRows
<1>2. /\ Tried(p) \in Nat /\ p.start <= Tried(p)
      /\ p.mode = "first" => Tried(p) = p.start
      /\ p.mode = "double" => Tried(p) = p.start + p.step
      /\ p.mode = "bisect" => p.low < Tried(p) /\ Tried(p) <= p.high
  BY TriedLies
<1>3. exists <=> SearchedTag(p, Tried(p)) \in reg
  BY DEF ProbedTag
<1>. HIDE DEF exists
<1>4. exists \in BOOLEAN
  BY DEF exists
<1>5. /\ q.goal = p.goal /\ q.at = p.at /\ q.start = p.start
      /\ p.mode = "first" /\ exists => q.mode = "double" /\ q.low = p.low
      /\ p.mode = "first" /\ ~exists => q.mode = "none" /\ q.low = p.low
      /\ p.mode = "double" /\ exists => q.mode = "double" /\ q.low = p.start + p.step
      /\ p.mode = "double" /\ ~exists =>
           /\ q.low = p.low /\ q.high = p.start + p.step - 1
           /\ q.mode = IF p.low < q.high THEN "bisect" ELSE "found"
      /\ p.mode = "bisect" /\ exists =>
           /\ q.low = Tried(p) /\ q.high = p.high
           /\ q.mode = IF q.low < q.high THEN "bisect" ELSE "found"
      /\ p.mode = "bisect" /\ ~exists =>
           /\ q.low = p.low /\ q.high = Tried(p) - 1
           /\ q.mode = IF q.low < q.high THEN "bisect" ELSE "found"
  BY <1>4, AnswerFields
<1>. HIDE DEF q
<1>6. \A x : SearchedTag(q, x) = SearchedTag(p, x)
  BY <1>5, SameSearchedTags
<1>7. CASE p.mode = "first"
  <2>1. CASE exists
    <3>1. q.mode = "double" /\ SearchedTag(q, q.low) \in reg
      BY <1>1, <1>2, <1>3, <1>5, <1>6, <1>7, <2>1
    <3> QED
      BY <3>1 DEF SearchFacts
  <2>2. CASE ~exists
    <3>1. q.mode = "none" /\ SearchedTag(q, q.start) \notin reg
      BY <1>1, <1>2, <1>3, <1>5, <1>6, <1>7, <2>2
    <3> QED
      BY <3>1 DEF SearchFacts
  <2> QED
    BY <2>1, <2>2
<1>8. CASE p.mode = "double"
  <2>1. CASE exists
    <3>1. q.mode = "double" /\ SearchedTag(q, q.low) \in reg
      BY <1>2, <1>3, <1>5, <1>6, <1>8, <2>1
    <3> QED
      BY <3>1 DEF SearchFacts
  <2>2. CASE ~exists
    <3>1. SearchedTag(p, p.low) \in reg
      BY <1>8 DEF SearchFacts
    <3>2. q.low = p.low /\ q.high + 1 = Tried(p) /\ p.low <= q.high /\ q.mode = IF p.low < q.high THEN "bisect" ELSE "found"
      BY <1>1, <1>2, <1>5, <1>8, <2>2
    <3>3. SearchedTag(q, q.low) \in reg /\ SearchedTag(q, q.high + 1) \notin reg
      BY <1>3, <1>6, <2>2, <3>1, <3>2
    <3>4. q.mode \in {"bisect", "found"} /\ (q.mode = "found" => q.low + 1 = q.high + 1)
      BY <1>1, <1>2, <1>5, <1>8, <2>2, <3>2
    <3> QED
      BY <3>3, <3>4 DEF SearchFacts
  <2> QED
    BY <2>1, <2>2
<1>9. CASE p.mode = "bisect"
  <2>0. SearchedTag(p, p.low) \in reg /\ SearchedTag(p, p.high + 1) \notin reg
    BY <1>9 DEF SearchFacts
  <2>1. CASE exists
    <3>1. q.low = Tried(p) /\ q.high = p.high /\ q.mode = IF q.low < q.high THEN "bisect" ELSE "found"
      BY <1>5, <1>9, <2>1
    <3>2. SearchedTag(q, q.low) \in reg /\ SearchedTag(q, q.high + 1) \notin reg
      BY <1>3, <1>6, <2>0, <2>1, <3>1
    <3>3. q.mode \in {"bisect", "found"} /\ (q.mode = "found" => q.low + 1 = q.high + 1)
      BY <1>1, <1>2, <1>9, <3>1
    <3> QED
      BY <3>2, <3>3 DEF SearchFacts
  <2>2. CASE ~exists
    <3>1. q.low = p.low /\ q.high = Tried(p) - 1 /\ q.mode = IF q.low < q.high THEN "bisect" ELSE "found"
      BY <1>5, <1>9, <2>2
    <3>2. q.high + 1 = Tried(p)
      BY <1>2, <3>1
    <3>3. SearchedTag(q, q.low) \in reg /\ SearchedTag(q, q.high + 1) \notin reg
      BY <1>3, <1>6, <2>0, <2>2, <3>1, <3>2
    <3>4. q.mode \in {"bisect", "found"} /\ (q.mode = "found" => q.low + 1 = q.high + 1)
      BY <1>1, <1>2, <1>9, <3>1
    <3> QED
      BY <3>3, <3>4 DEF SearchFacts
  <2> QED
    BY <2>1, <2>2
<1> QED
  BY <1>7, <1>8, <1>9 DEF LiveModes

-----------------------------------------------------------------------------
(* Searches of a registry that has no gaps and does not change *)

Kinds == {"patch", "minor", "major"}
Releases(reg) == {t \in reg : t[4] = 1}

\* Without gaps, a tag that is missing bounds all that are there.
LEMMA Ceilings ==
  ASSUME NEW reg \in SUBSET Versions, WithoutGaps(reg), NEW t \in Releases(reg), NEW x \in Nat
  PROVE  /\ <<t[1], t[2], x, 1>> \notin reg => t[3] < x
         /\ <<t[1], x, 0, 1>> \notin reg => t[2] < x
         /\ x >= 1 /\ <<x, 0, 0, 1>> \notin reg => t[1] < x
<1>1. t \in reg /\ t[4] = 1 /\ t[1] \in Nat /\ t[2] \in Nat /\ t[3] \in Nat
  BY VersionParts DEF Releases
<1>2. /\ \A y \in 0..t[3] : <<t[1], t[2], y, 1>> \in reg
      /\ \A y \in 0..t[2] : <<t[1], y, 0, 1>> \in reg
      /\ \A y \in 1..t[1] : <<y, 0, 0, 1>> \in reg
  BY <1>1 DEF WithoutGaps
<1>3. ~(t[3] < x) => x \in 0..t[3]
  BY <1>1
<1>4. ~(t[2] < x) => x \in 0..t[2]
  BY <1>1
<1>5. x >= 1 /\ ~(t[1] < x) => x \in 1..t[1]
  BY <1>1
<1> QED
  BY <1>2, <1>3, <1>4, <1>5

\* A later release is of one of three kinds.
LEMMA LaterReleases ==
  ASSUME NEW cur \in Versions, cur[4] = 1, NEW t \in Versions, t[4] = 1
  PROVE  /\ semverUpdateKind(cur, t) \in Kinds
         /\ Lower(cur, t) /\ semverUpdateKind(cur, t) = "patch" <=> t[1] = cur[1] /\ t[2] = cur[2] /\ t[3] > cur[3]
         /\ Lower(cur, t) /\ semverUpdateKind(cur, t) = "minor" <=> t[1] = cur[1] /\ t[2] > cur[2]
         /\ Lower(cur, t) /\ semverUpdateKind(cur, t) = "major" <=> t[1] > cur[1]
<1>1. /\ cur[1] \in Nat /\ cur[2] \in Nat /\ cur[3] \in Nat
      /\ t[1] \in Nat /\ t[2] \in Nat /\ t[3] \in Nat
  BY VersionParts
<1>2. Lower(cur, t) <=>
           \/ cur[1] < t[1]
           \/ cur[1] = t[1] /\ cur[2] < t[2]
           \/ cur[1] = t[1] /\ cur[2] = t[2] /\ cur[3] < t[3]
  BY LowerByParts
<1>3. CASE t[1] # cur[1]
  <2>1. semverUpdateKind(cur, t) = "major"
    BY <1>3 DEF semverUpdateKind
  <2> QED
    BY <1>1, <1>2, <1>3, <2>1 DEF Kinds
<1>4. CASE t[1] = cur[1] /\ t[2] # cur[2]
  <2>1. semverUpdateKind(cur, t) = "minor"
    BY <1>4 DEF semverUpdateKind
  <2> QED
    BY <1>1, <1>2, <1>4, <2>1 DEF Kinds
<1>5. CASE t[1] = cur[1] /\ t[2] = cur[2]
  <2>1. semverUpdateKind(cur, t) = "patch"
    BY <1>5 DEF semverUpdateKind
  <2> QED
    BY <1>1, <1>2, <1>5, <2>1 DEF Kinds
<1> QED
  BY <1>3, <1>4, <1>5

\* The later releases of some kinds that the policy allows.
Target(image, reg, cur, kinds) ==
  {t \in Releases(reg) : Lower(cur, t) /\ semverUpdateKind(cur, t) \in kinds /\ semverUpdateAllowed(image, cur, t)}
Top(best, tags) == IF best = <<>> THEN tags = {} ELSE Highest(best, tags)

\* The kinds of update that are settled when a search begins.
KindsDone(goal) ==
  CASE goal = "patch" -> {}
    [] goal \in {"minor", "patch of minor"} -> {"patch"}
    [] OTHER -> {"patch", "minor"}

\* What a search is for, and what those before it have found.
InContext(image, reg, cur, p) ==
  /\ p.goal = "patch" => "patch" \in semverAllowedUpdates(image) /\ p.at = <<cur[1], cur[2]>> /\ p.start = cur[3] + 1
  /\ p.goal = "minor" => "minor" \in semverAllowedUpdates(image) /\ p.at[1] = cur[1] /\ p.start = cur[2] + 1
  /\ p.goal = "patch of minor" =>
       /\ "minor" \in semverAllowedUpdates(image) /\ p.at[1] = cur[1] /\ p.at[2] > cur[2] /\ p.start = 0
       /\ <<cur[1], p.at[2], 0, 1>> \in reg /\ <<cur[1], p.at[2] + 1, 0, 1>> \notin reg
  /\ p.goal = "major" => "major" \in semverAllowedUpdates(image) /\ p.start = cur[1] + 1
  /\ p.goal = "minor of major" =>
       /\ "major" \in semverAllowedUpdates(image) /\ p.at[1] > cur[1] /\ p.start = 0
       /\ <<p.at[1], 0, 0, 1>> \in reg /\ <<p.at[1] + 1, 0, 0, 1>> \notin reg
  /\ p.goal = "patch of major" =>
       /\ "major" \in semverAllowedUpdates(image) /\ p.at[1] > cur[1] /\ p.start = 0
       /\ <<p.at[1] + 1, 0, 0, 1>> \notin reg
       /\ <<p.at[1], p.at[2], 0, 1>> \in reg /\ <<p.at[1], p.at[2] + 1, 0, 1>> \notin reg

\* The best tag so far is the best of the settled kinds.
SearchedWell(image, reg, cur, best, searches) ==
  /\ searches = {} => Top(best, Target(image, reg, cur, Kinds))
  /\ \A p \in searches : InContext(image, reg, cur, p) /\ Top(best, Target(image, reg, cur, KindsDone(p.goal)))

LEMMA SearchParts ==
  ASSUME NEW goal, NEW at, NEW start
  PROVE  /\ Search(goal, at, start).goal = goal /\ Search(goal, at, start).at = at
         /\ Search(goal, at, start).start = start /\ Search(goal, at, start).mode = "first"
BY DEF Search

\* The order of the searches (probeSemverImageTagWithExists).
LEMMA NextCases ==
  ASSUME NEW image, NEW p, NEW cur
  PROVE  LET next == NextSearch(image, p, cur)
         IN  /\ p.goal = "minor" /\ p.mode = "found" => next = {Search("patch of minor", <<p.at[1], p.low>>, 0)}
             /\ p.goal = "minor" /\ p.mode = "none" => next = MajorSearch(image, cur)
             /\ p.goal = "patch of minor" => next = MajorSearch(image, cur)
             /\ p.goal = "major" /\ p.mode = "found" => next = {Search("minor of major", <<p.low, 0>>, 0)}
             /\ p.goal = "major" /\ p.mode = "none" => next = {}
             /\ p.goal = "minor of major" /\ p.mode = "found" =>
                  next = {Search("patch of major", <<p.at[1], p.low>>, 0)}
             /\ p.goal = "patch of major" => next = {}
BY DEF NextSearch

LEMMA GoalKinds ==
  /\ KindsDone("patch") = {} /\ KindsDone("minor") = {"patch"} /\ KindsDone("patch of minor") = {"patch"}
  /\ KindsDone("major") = {"patch", "minor"} /\ KindsDone("minor of major") = {"patch", "minor"}
  /\ KindsDone("patch of major") = {"patch", "minor"}
BY DEF KindsDone

\* A kind that the policy does not allow adds nothing.
LEMMA SkippedKind ==
  ASSUME NEW image, NEW reg, NEW cur, NEW kinds, NEW kind, kind \notin semverAllowedUpdates(image)
  PROVE  Target(image, reg, cur, kinds \cup {kind}) = Target(image, reg, cur, kinds)
BY DEF Target, semverUpdateAllowed

\* Each search is begun only when the kinds before it are settled.
LEMMA MajorStart ==
  ASSUME NEW image, NEW reg, NEW cur, NEW best, Top(best, Target(image, reg, cur, {"patch", "minor"}))
  PROVE  SearchedWell(image, reg, cur, best, MajorSearch(image, cur))
<1>1. CASE "major" \in semverAllowedUpdates(image)
  <2>. DEFINE p == Search("major", <<0, 0>>, cur[1] + 1)
  <2>1. MajorSearch(image, cur) = {p}
    BY <1>1 DEF MajorSearch
  <2>2. p.goal = "major" /\ p.start = cur[1] + 1
    BY SearchParts
  <2>. HIDE DEF p
  <2>3. InContext(image, reg, cur, p)
    BY <1>1, <2>2 DEF InContext
  <2>4. Top(best, Target(image, reg, cur, KindsDone(p.goal)))
    BY <2>2, GoalKinds
  <2> QED
    BY <2>1, <2>3, <2>4 DEF SearchedWell
<1>2. CASE "major" \notin semverAllowedUpdates(image)
  <2>1. MajorSearch(image, cur) = {}
    BY <1>2 DEF MajorSearch
  <2>2. Target(image, reg, cur, {"patch", "minor"} \cup {"major"}) = Target(image, reg, cur, {"patch", "minor"})
    BY <1>2, SkippedKind
  <2>3. {"patch", "minor"} \cup {"major"} = Kinds
    BY DEF Kinds
  <2> QED
    BY <2>1, <2>2, <2>3 DEF SearchedWell
<1> QED
  BY <1>1, <1>2

LEMMA MinorStart ==
  ASSUME NEW image, NEW reg, NEW cur, NEW best, Top(best, Target(image, reg, cur, {"patch"}))
  PROVE  SearchedWell(image, reg, cur, best, MinorSearch(image, cur))
<1>1. CASE "minor" \in semverAllowedUpdates(image)
  <2>. DEFINE p == Search("minor", <<cur[1], 0>>, cur[2] + 1)
  <2>1. MinorSearch(image, cur) = {p}
    BY <1>1 DEF MinorSearch
  <2>2. p.goal = "minor" /\ p.start = cur[2] + 1 /\ p.at[1] = cur[1]
    <3>1. p.at = <<cur[1], 0>>
      BY SearchParts
    <3> QED
      BY <3>1, SearchParts
  <2>. HIDE DEF p
  <2>3. InContext(image, reg, cur, p)
    BY <1>1, <2>2 DEF InContext
  <2>4. Top(best, Target(image, reg, cur, KindsDone(p.goal)))
    BY <2>2, GoalKinds
  <2> QED
    BY <2>1, <2>3, <2>4 DEF SearchedWell
<1>2. CASE "minor" \notin semverAllowedUpdates(image)
  <2>1. MinorSearch(image, cur) = MajorSearch(image, cur)
    BY <1>2 DEF MinorSearch
  <2>2. Target(image, reg, cur, {"patch"} \cup {"minor"}) = Target(image, reg, cur, {"patch"})
    BY <1>2, SkippedKind
  <2>3. {"patch"} \cup {"minor"} = {"patch", "minor"}
    OBVIOUS
  <2> QED
    BY <2>1, <2>2, <2>3, MajorStart
<1> QED
  BY <1>1, <1>2

LEMMA FirstStart ==
  ASSUME NEW image, NEW reg, NEW cur
  PROVE  SearchedWell(image, reg, cur, <<>>, FirstSearch(image, cur))
<1>0. Target(image, reg, cur, {}) = {}
  BY DEF Target
<1>1. CASE "patch" \in semverAllowedUpdates(image)
  <2>. DEFINE p == Search("patch", <<cur[1], cur[2]>>, cur[3] + 1)
  <2>1. FirstSearch(image, cur) = {p}
    BY <1>1 DEF FirstSearch
  <2>2. p.goal = "patch" /\ p.start = cur[3] + 1 /\ p.at = <<cur[1], cur[2]>>
    BY SearchParts
  <2>. HIDE DEF p
  <2>3. InContext(image, reg, cur, p)
    BY <1>1, <2>2 DEF InContext
  <2>4. Top(<<>>, Target(image, reg, cur, KindsDone(p.goal)))
    BY <1>0, <2>2, GoalKinds DEF Top
  <2> QED
    BY <2>1, <2>3, <2>4 DEF SearchedWell
<1>2. CASE "patch" \notin semverAllowedUpdates(image)
  <2>1. FirstSearch(image, cur) = MinorSearch(image, cur)
    BY <1>2 DEF FirstSearch
  <2>2. Target(image, reg, cur, {} \cup {"patch"}) = Target(image, reg, cur, {})
    BY <1>2, SkippedKind
  <2>3. {} \cup {"patch"} = {"patch"}
    OBVIOUS
  <2>4. Top(<<>>, Target(image, reg, cur, {"patch"}))
    BY <1>0, <2>2, <2>3 DEF Top
  <2> QED
    BY <2>1, <2>4, MinorStart
<1> QED
  BY <1>1, <1>2

\* What a probe may find, part by part.
LEMMA TargetParts ==
  ASSUME NEW image, NEW reg \in SUBSET Versions, NEW cur \in Versions, cur[4] = 1, NEW kinds, NEW t \in Releases(reg)
  PROVE  LET may(kind) == kind \in kinds /\ kind \in semverAllowedUpdates(image)
         IN  t \in Target(image, reg, cur, kinds) <=>
               \/ may("patch") /\ t[1] = cur[1] /\ t[2] = cur[2] /\ t[3] > cur[3]
               \/ may("minor") /\ t[1] = cur[1] /\ t[2] > cur[2]
               \/ may("major") /\ t[1] > cur[1]
<1>1. t \in Versions /\ t[4] = 1
  BY DEF Releases
<1>2. /\ semverUpdateKind(cur, t) \in Kinds
      /\ Lower(cur, t) /\ semverUpdateKind(cur, t) = "patch" <=> t[1] = cur[1] /\ t[2] = cur[2] /\ t[3] > cur[3]
      /\ Lower(cur, t) /\ semverUpdateKind(cur, t) = "minor" <=> t[1] = cur[1] /\ t[2] > cur[2]
      /\ Lower(cur, t) /\ semverUpdateKind(cur, t) = "major" <=> t[1] > cur[1]
  BY <1>1, LaterReleases
<1>3. t \in Target(image, reg, cur, kinds) <=>
        Lower(cur, t) /\ semverUpdateKind(cur, t) \in kinds /\ semverUpdateKind(cur, t) \in semverAllowedUpdates(image)
  BY DEF Target, semverUpdateAllowed
<1>. DEFINE kind == semverUpdateKind(cur, t)
<1>. HIDE DEF kind
<1>4. kind = "patch" \/ kind = "minor" \/ kind = "major"
  BY <1>2 DEF kind, Kinds
<1> QED
  BY <1>2, <1>3, <1>4 DEF kind

\* Nothing of the searched component lies beyond the end of a search.
LEMMA SearchEnds ==
  ASSUME NEW reg \in SUBSET Versions, WithoutGaps(reg), NEW p, SearchTyped(p), SearchFacts(reg, p),
         p.mode \in {"found", "none"}, NEW t \in Releases(reg)
  PROVE  LET end == IF p.mode = "found" THEN p.low + 1 ELSE p.start
         IN  /\ p.goal \in PatchGoals /\ t[1] = p.at[1] /\ t[2] = p.at[2] => t[3] < end
             /\ p.goal \in MinorGoals /\ t[1] = p.at[1] => t[2] < end
             /\ p.goal = "major" /\ end >= 1 => t[1] < end
<1>. DEFINE end == IF p.mode = "found" THEN p.low + 1 ELSE p.start
<1>1. end \in Nat /\ SearchedTag(p, end) \notin reg
  BY DEF SearchFacts, SearchTyped, SearchRows
<1>. HIDE DEF end
<1>2. /\ <<t[1], t[2], end, 1>> \notin reg => t[3] < end
      /\ <<t[1], end, 0, 1>> \notin reg => t[2] < end
      /\ end >= 1 /\ <<end, 0, 0, 1>> \notin reg => t[1] < end
  BY <1>1, Ceilings
<1>3. /\ p.goal \in PatchGoals => SearchedTag(p, end) = <<p.at[1], p.at[2], end, 1>>
      /\ p.goal \in MinorGoals => SearchedTag(p, end) = <<p.at[1], end, 0, 1>>
      /\ p.goal = "major" => SearchedTag(p, end) = <<end, 0, 0, 1>>
  BY DEF SearchedTag, PatchGoals, MinorGoals
<1>4. /\ p.goal \in PatchGoals /\ t[1] = p.at[1] /\ t[2] = p.at[2] => t[3] < end
      /\ p.goal \in MinorGoals /\ t[1] = p.at[1] => t[2] < end
      /\ p.goal = "major" /\ end >= 1 => t[1] < end
  BY <1>1, <1>2, <1>3
<1> QED
  BY <1>4 DEF end

\* A search that has just ended.
SearchOver(image, reg, cur, best, p) ==
  /\ reg \in SUBSET Versions /\ WithoutGaps(reg) /\ cur \in Versions /\ cur[4] = 1
  /\ SearchTyped(p) /\ SearchFacts(reg, p) /\ p.mode \in {"found", "none"}
  /\ InContext(image, reg, cur, p) /\ Top(best, Target(image, reg, cur, KindsDone(p.goal)))

LEMMA BetterCases ==
  ASSUME NEW best, NEW p
  PROVE  /\ p.mode # "found" \/ p.goal \notin PatchGoals => Better(best, p) = best
         /\ p.mode = "found" /\ p.goal \in PatchGoals =>
              Better(best, p) =
                IF best = <<>> \/ Lower(best, SearchedTag(p, p.low)) THEN SearchedTag(p, p.low) ELSE best
BY DEF Better

\* A patch that was found is the highest of its targets when none of them lies
\* above it and the best before was lower.
LEMMA PatchIsTop ==
  ASSUME NEW best, NEW p, p.mode = "found", p.goal \in PatchGoals, NEW tags,
         SearchedTag(p, p.low) # <<>>,
         Highest(SearchedTag(p, p.low), tags), best = <<>> \/ Lower(best, SearchedTag(p, p.low))
  PROVE  Top(Better(best, p), tags)
BY DEF Better, Top

\* A search for patches that succeeded names a release.
LEMMA PatchTag ==
  ASSUME NEW p \in SearchRows, p.goal \in PatchGoals
  PROVE  LET v == SearchedTag(p, p.low)
         IN  v \in Versions /\ v # <<>> /\ v[1] = p.at[1] /\ v[2] = p.at[2] /\ v[3] = p.low /\ v[4] = 1
<1>1. p.at[1] \in Nat /\ p.at[2] \in Nat /\ p.low \in Nat
  BY DEF SearchRows
<1>2. SearchedTag(p, p.low) = <<p.at[1], p.at[2], p.low, 1>>
  BY DEF SearchedTag, PatchGoals, MinorGoals
<1>. DEFINE v == SearchedTag(p, p.low)
<1>. HIDE DEF v
<1>3. v = <<p.at[1], p.at[2], p.low, 1>>
  BY <1>2 DEF v
<1>4. v \in Versions /\ v # <<>> /\ v[1] = p.at[1] /\ v[2] = p.at[2] /\ v[3] = p.low /\ v[4] = 1
  BY <1>1, <1>3 DEF Versions
<1> QED
  BY <1>4 DEF v

LEMMA NotLowerParts ==
  ASSUME NEW v \in Versions, v[4] = 1, NEW t \in Versions, t[4] = 1,
         \/ t[1] < v[1]
         \/ t[1] = v[1] /\ t[2] < v[2]
         \/ t[1] = v[1] /\ t[2] = v[2] /\ t[3] <= v[3]
  PROVE  ~Lower(v, t)
<1>1. /\ v[1] \in Nat /\ v[2] \in Nat /\ v[3] \in Nat
      /\ t[1] \in Nat /\ t[2] \in Nat /\ t[3] \in Nat
  BY VersionParts
<1> QED
  BY <1>1, LowerByParts

\* Each search that ends leaves the best release of the kinds settled so far.
LEMMA PatchSearchOver ==
  ASSUME NEW image, NEW reg, NEW cur, NEW best, NEW p, SearchOver(image, reg, cur, best, p), p.goal = "patch"
  PROVE  SearchedWell(image, reg, cur, Better(best, p), NextSearch(image, p, cur))
<1>. DEFINE T == Target(image, reg, cur, {"patch"})
<1>. DEFINE v == SearchedTag(p, p.low)
<1>1. /\ reg \in SUBSET Versions /\ WithoutGaps(reg) /\ cur \in Versions /\ cur[4] = 1
      /\ SearchTyped(p) /\ SearchFacts(reg, p) /\ p.mode \in {"found", "none"}
      /\ "patch" \in semverAllowedUpdates(image) /\ p.at = <<cur[1], cur[2]>> /\ p.start = cur[3] + 1
  BY DEF SearchOver, InContext
<1>2. best = <<>>
  <2>1. Top(best, Target(image, reg, cur, {}))
    BY GoalKinds DEF SearchOver
  <2>2. Target(image, reg, cur, {}) = {}
    BY DEF Target
  <2> QED
    BY <2>1, <2>2 DEF Top, Highest
<1>3. p.goal \in PatchGoals /\ p \in SearchRows /\ p.low \in Nat /\ p.start <= p.low
  BY <1>1 DEF PatchGoals, SearchTyped, SearchRows
<1>4. /\ cur[1] \in Nat /\ cur[2] \in Nat /\ cur[3] \in Nat
  BY <1>1, VersionParts
<1>5. \A t \in T : /\ t \in Releases(reg) /\ t \in Versions /\ t[4] = 1
                   /\ t[1] = cur[1] /\ t[2] = cur[2] /\ t[3] > cur[3] /\ t[3] \in Nat
  <2>. SUFFICES ASSUME NEW t \in T PROVE /\ t \in Releases(reg) /\ t \in Versions /\ t[4] = 1
                   /\ t[1] = cur[1] /\ t[2] = cur[2] /\ t[3] > cur[3] /\ t[3] \in Nat
    OBVIOUS
  <2>1. t \in Releases(reg) /\ t \in Versions /\ t[4] = 1
    BY <1>1 DEF Target, Releases
  <2>2. "minor" \notin {"patch"} /\ "major" \notin {"patch"}
    OBVIOUS
  <2> QED
    BY <1>1, <2>1, <2>2, TargetParts, VersionParts
<1>6. CASE p.mode = "found"
  <2>1. v \in Versions /\ v # <<>> /\ v[1] = cur[1] /\ v[2] = cur[2] /\ v[3] = p.low /\ v[4] = 1
    BY <1>1, <1>3, PatchTag
  <2>2. v \in Releases(reg)
    BY <1>1, <1>6, <2>1 DEF SearchFacts, Releases
  <2>. HIDE DEF v
  <2>3. v \in T
    BY <1>1, <1>3, <1>4, <2>1, <2>2, TargetParts
  <2>4. \A t \in T : ~Lower(v, t)
    <3>. SUFFICES ASSUME NEW t \in T PROVE ~Lower(v, t)
      OBVIOUS
    <3>1. t[3] < p.low + 1
      BY <1>1, <1>3, <1>5, <1>6, SearchEnds
    <3>2. t[3] <= v[3]
      BY <1>3, <1>5, <2>1, <3>1
    <3> QED
      BY <1>5, <2>1, <3>2, NotLowerParts
  <2> QED
    <3>1. Top(Better(best, p), T)
      BY <1>2, <1>3, <1>6, <2>1, <2>3, <2>4, PatchIsTop DEF v, Highest
    <3> QED
      BY <3>1, MinorStart DEF NextSearch
<1>7. CASE p.mode = "none"
  <2>1. T = {}
    <3>. SUFFICES ASSUME NEW t \in T PROVE FALSE
      OBVIOUS
    <3>1. t[3] < cur[3] + 1
      BY <1>1, <1>3, <1>5, <1>7, SearchEnds
    <3> QED
      BY <1>4, <1>5, <3>1
  <2>2. Top(Better(best, p), T)
    BY <1>2, <1>7, <2>1, BetterCases DEF Top
  <2> QED
    BY <2>2, MinorStart DEF NextSearch
<1> QED
  BY <1>1, <1>6, <1>7

LEMMA MinorSearchOver ==
  ASSUME NEW image, NEW reg, NEW cur, NEW best, NEW p, SearchOver(image, reg, cur, best, p), p.goal = "minor"
  PROVE  SearchedWell(image, reg, cur, Better(best, p), NextSearch(image, p, cur))
<1>1. /\ reg \in SUBSET Versions /\ WithoutGaps(reg) /\ cur \in Versions /\ cur[4] = 1
      /\ SearchTyped(p) /\ SearchFacts(reg, p) /\ p.mode \in {"found", "none"}
      /\ "minor" \in semverAllowedUpdates(image) /\ p.at[1] = cur[1] /\ p.start = cur[2] + 1
  BY DEF SearchOver, InContext
<1>2. Top(best, Target(image, reg, cur, {"patch"})) /\ Better(best, p) = best
  BY GoalKinds, BetterCases DEF SearchOver, PatchGoals
<1>3. p.goal \in MinorGoals /\ p \in SearchRows /\ p.low \in Nat /\ p.start <= p.low /\ cur[2] \in Nat
  BY <1>1, VersionParts DEF MinorGoals, SearchTyped, SearchRows
<1>4. CASE p.mode = "found"
  <2>. DEFINE q == Search("patch of minor", <<p.at[1], p.low>>, 0)
  <2>1. NextSearch(image, p, cur) = {q}
    BY <1>4, NextCases
  <2>2. q.goal = "patch of minor" /\ q.at[1] = p.at[1] /\ q.at[2] = p.low /\ q.start = 0
    BY DEF Search
  <2>. HIDE DEF q
  <2>3. p.low > cur[2]
    BY <1>1, <1>3
  <2>4. SearchedTag(p, p.low) = <<cur[1], p.low, 0, 1>> /\ SearchedTag(p, p.low + 1) = <<cur[1], p.low + 1, 0, 1>>
    BY <1>1 DEF SearchedTag, PatchGoals, MinorGoals
  <2>5. <<cur[1], p.low, 0, 1>> \in reg /\ <<cur[1], p.low + 1, 0, 1>> \notin reg
    BY <1>1, <1>4, <2>4 DEF SearchFacts
  <2>6. q.at[1] = cur[1] /\ q.at[2] = p.low /\ q.at[2] > cur[2]
    BY <1>1, <2>2, <2>3
  <2>7. InContext(image, reg, cur, q)
    BY <1>1, <2>2, <2>5, <2>6 DEF InContext
  <2> QED
    BY <1>2, <2>1, <2>2, <2>7, GoalKinds DEF SearchedWell
<1>5. CASE p.mode = "none"
  <2>1. NextSearch(image, p, cur) = MajorSearch(image, cur)
    BY <1>5 DEF NextSearch
  <2>2. \A t \in Releases(reg) : t[1] = cur[1] => ~(t[2] > cur[2])
    <3>. SUFFICES ASSUME NEW t \in Releases(reg), t[1] = cur[1] PROVE ~(t[2] > cur[2])
      OBVIOUS
    <3>1. t[2] < cur[2] + 1
      BY <1>1, <1>3, <1>5, SearchEnds
    <3>2. t[2] \in Nat
      BY <1>1, VersionParts DEF Releases
    <3> QED
      BY <1>3, <3>1, <3>2
  <2>3. Target(image, reg, cur, {"patch", "minor"}) = Target(image, reg, cur, {"patch"})
    <3>1. \A t \in Releases(reg) :
            t \in Target(image, reg, cur, {"patch", "minor"}) <=> t \in Target(image, reg, cur, {"patch"})
      <4>. SUFFICES ASSUME NEW t \in Releases(reg)
                    PROVE  t \in Target(image, reg, cur, {"patch", "minor"}) <=> t \in Target(image, reg, cur, {"patch"})
        OBVIOUS
      <4>1. t \in Target(image, reg, cur, {"patch", "minor"}) <=>
               \/ "patch" \in semverAllowedUpdates(image) /\ t[1] = cur[1] /\ t[2] = cur[2] /\ t[3] > cur[3]
               \/ "minor" \in semverAllowedUpdates(image) /\ t[1] = cur[1] /\ t[2] > cur[2]
        BY <1>1, TargetParts
      <4>2. t \in Target(image, reg, cur, {"patch"}) <=>
               "patch" \in semverAllowedUpdates(image) /\ t[1] = cur[1] /\ t[2] = cur[2] /\ t[3] > cur[3]
        BY <1>1, TargetParts
      <4> QED
        BY <2>2, <4>1, <4>2
    <3>2. \A kinds : Target(image, reg, cur, kinds) \subseteq Releases(reg)
      BY DEF Target
    <3>. DEFINE T1 == Target(image, reg, cur, {"patch", "minor"})
    <3>. DEFINE T2 == Target(image, reg, cur, {"patch"})
    <3>3. T1 \subseteq Releases(reg) /\ T2 \subseteq Releases(reg)
      BY <3>2
    <3>. HIDE DEF T1, T2
    <3>4. \A t \in Releases(reg) : t \in T1 <=> t \in T2
      BY <3>1 DEF T1, T2
    <3>5. T1 = T2
      BY <3>3, <3>4
    <3> QED
      BY <3>5 DEF T1, T2
  <2> QED
    BY <1>2, <2>1, <2>3, MajorStart
<1> QED
  BY <1>1, <1>4, <1>5

\* What a policy without a kind, or a registry without one, adds.
LEMMA EmptyKind ==
  ASSUME NEW image, NEW reg \in SUBSET Versions, NEW cur \in Versions, cur[4] = 1,
         \A t \in Releases(reg) : ~(t[1] > cur[1])
  PROVE  Target(image, reg, cur, Kinds) = Target(image, reg, cur, {"patch", "minor"})
<1>. DEFINE T1 == Target(image, reg, cur, Kinds)
<1>. DEFINE T2 == Target(image, reg, cur, {"patch", "minor"})
<1>1. \A t \in Releases(reg) : t \in T1 <=> t \in T2
  <2>. SUFFICES ASSUME NEW t \in Releases(reg) PROVE t \in T1 <=> t \in T2
    OBVIOUS
  <2>1. t \in T1 <=>
           \/ "patch" \in semverAllowedUpdates(image) /\ t[1] = cur[1] /\ t[2] = cur[2] /\ t[3] > cur[3]
           \/ "minor" \in semverAllowedUpdates(image) /\ t[1] = cur[1] /\ t[2] > cur[2]
           \/ "major" \in semverAllowedUpdates(image) /\ t[1] > cur[1]
    BY TargetParts DEF Kinds
  <2>2. t \in T2 <=>
           \/ "patch" \in semverAllowedUpdates(image) /\ t[1] = cur[1] /\ t[2] = cur[2] /\ t[3] > cur[3]
           \/ "minor" \in semverAllowedUpdates(image) /\ t[1] = cur[1] /\ t[2] > cur[2]
    BY TargetParts
  <2> QED
    BY <2>1, <2>2
<1>2. T1 \subseteq Releases(reg) /\ T2 \subseteq Releases(reg)
  BY DEF Target
<1>. HIDE DEF T1, T2
<1>3. T1 = T2
  BY <1>1, <1>2
<1> QED
  BY <1>3 DEF T1, T2

\* The patch at the end of a search of the highest minor version is the best.
LEMMA MinorCorner ==
  ASSUME NEW image, NEW reg \in SUBSET Versions, WithoutGaps(reg), NEW cur \in Versions, cur[4] = 1,
         "minor" \in semverAllowedUpdates(image),
         NEW v \in Releases(reg), v[1] = cur[1], v[2] > cur[2],
         <<v[1], v[2] + 1, 0, 1>> \notin reg, <<v[1], v[2], v[3] + 1, 1>> \notin reg
  PROVE  /\ Highest(v, Target(image, reg, cur, {"patch", "minor"}))
         /\ \A b \in Target(image, reg, cur, {"patch"}) : Lower(b, v)
<1>1. /\ v \in Versions /\ v[4] = 1 /\ v[1] \in Nat /\ v[2] \in Nat /\ v[3] \in Nat /\ cur[2] \in Nat
  BY VersionParts DEF Releases
<1>2. v \in Target(image, reg, cur, {"patch", "minor"})
  BY TargetParts
<1>3. ASSUME NEW t \in Target(image, reg, cur, {"patch", "minor"}) PROVE ~Lower(v, t)
  <2>1. t \in Releases(reg)
    BY DEF Target
  <2>2. t \in Versions /\ t[4] = 1 /\ t[1] \in Nat /\ t[2] \in Nat /\ t[3] \in Nat
    BY <2>1, VersionParts DEF Releases
  <2>3. t[1] = cur[1]
    BY <2>1, TargetParts
  <2>4. t[2] < v[2] + 1
    <3>1. <<t[1], v[2] + 1, 0, 1>> \notin reg /\ v[2] + 1 \in Nat
      BY <1>1, <2>3
    <3> QED
      BY <2>1, <3>1, Ceilings
  <2>5. ASSUME t[2] = v[2] PROVE t[3] < v[3] + 1
    <3>1. <<t[1], t[2], v[3] + 1, 1>> \notin reg /\ v[3] + 1 \in Nat
      BY <1>1, <2>3, <2>5
    <3> QED
      BY <2>1, <3>1, Ceilings
  <2>6. t[2] < v[2] \/ (t[2] = v[2] /\ t[3] <= v[3])
    BY <1>1, <2>2, <2>4, <2>5
  <2> QED
    BY <1>1, <2>2, <2>3, <2>6, NotLowerParts
<1>4. ASSUME NEW b \in Target(image, reg, cur, {"patch"}) PROVE Lower(b, v)
  <2>1. b \in Releases(reg) /\ b \in Versions
    BY DEF Target, Releases
  <2>2. b[1] = cur[1] /\ b[2] = cur[2]
    BY <2>1, TargetParts
  <2> QED
    BY <1>1, <2>1, <2>2, LowerByParts
<1> QED
  BY <1>2, <1>3, <1>4 DEF Highest

LEMMA PatchOfMinorSearchOver ==
  ASSUME NEW image, NEW reg, NEW cur, NEW best, NEW p, SearchOver(image, reg, cur, best, p),
         p.goal = "patch of minor"
  PROVE  SearchedWell(image, reg, cur, Better(best, p), NextSearch(image, p, cur))
<1>. DEFINE T == Target(image, reg, cur, {"patch", "minor"})
<1>. DEFINE v == SearchedTag(p, p.low)
<1>. DEFINE x == p.at[1]
<1>. DEFINE y == p.at[2]
<1>1. /\ reg \in SUBSET Versions /\ WithoutGaps(reg) /\ cur \in Versions /\ cur[4] = 1
      /\ "minor" \in semverAllowedUpdates(image)
  BY DEF SearchOver, InContext
<1>2. x = cur[1] /\ y > cur[2] /\ p.start = 0 /\ <<cur[1], y, 0, 1>> \in reg /\ <<cur[1], y + 1, 0, 1>> \notin reg
  BY DEF SearchOver, InContext
<1>3. SearchTyped(p) /\ SearchFacts(reg, p) /\ p.mode \in {"found", "none"}
  BY DEF SearchOver
<1>4. p.goal \in PatchGoals /\ p \in SearchRows /\ p.low \in Nat /\ y \in Nat
  BY <1>3 DEF PatchGoals, SearchTyped, SearchRows
<1>5. \A z : SearchedTag(p, z) = <<x, y, z, 1>>
  BY DEF SearchedTag, PatchGoals, MinorGoals
<1>6. v \in Versions /\ v # <<>> /\ v[1] = x /\ v[2] = y /\ v[3] = p.low /\ v[4] = 1
  BY <1>4, PatchTag
<1>. HIDE DEF v, x, y
<1>7. p.mode = "found"
  <2>1. SearchedTag(p, p.start) \in reg
    BY <1>2, <1>5
  <2> QED
    BY <1>3, <2>1 DEF SearchFacts
<1>8. v \in reg /\ SearchedTag(p, p.low + 1) \notin reg
  BY <1>3, <1>7 DEF SearchFacts, v
<1>9. v \in Releases(reg) /\ <<v[1], v[2], v[3] + 1, 1>> \notin reg
  BY <1>5, <1>6, <1>8 DEF Releases
<1>10. v[1] = cur[1] /\ v[2] > cur[2] /\ <<v[1], v[2] + 1, 0, 1>> \notin reg
  BY <1>2, <1>6
<1>11. Highest(v, T) /\ \A b \in Target(image, reg, cur, {"patch"}) : Lower(b, v)
  BY <1>1, <1>9, <1>10, MinorCorner
<1>12. best = <<>> \/ Lower(best, v)
  <2>1. Top(best, Target(image, reg, cur, {"patch"}))
    BY GoalKinds DEF SearchOver
  <2> QED
    BY <1>11, <2>1 DEF Top, Highest
<1>13. Top(Better(best, p), T)
  BY <1>4, <1>6, <1>7, <1>11, <1>12, PatchIsTop DEF v
<1>14. NextSearch(image, p, cur) = MajorSearch(image, cur)
  BY NextCases
<1> QED
  BY <1>13, <1>14, MajorStart

LEMMA MajorSearchOver ==
  ASSUME NEW image, NEW reg, NEW cur, NEW best, NEW p, SearchOver(image, reg, cur, best, p), p.goal = "major"
  PROVE  SearchedWell(image, reg, cur, Better(best, p), NextSearch(image, p, cur))
<1>1. /\ reg \in SUBSET Versions /\ WithoutGaps(reg) /\ cur \in Versions /\ cur[4] = 1
      /\ SearchTyped(p) /\ SearchFacts(reg, p) /\ p.mode \in {"found", "none"}
      /\ "major" \in semverAllowedUpdates(image) /\ p.start = cur[1] + 1
  BY DEF SearchOver, InContext
<1>2. Top(best, Target(image, reg, cur, {"patch", "minor"})) /\ Better(best, p) = best
  BY GoalKinds, BetterCases DEF SearchOver, PatchGoals
<1>3. p \in SearchRows /\ p.low \in Nat /\ p.start <= p.low /\ cur[1] \in Nat
  BY <1>1, VersionParts DEF SearchTyped, SearchRows
<1>4. CASE p.mode = "found"
  <2>. DEFINE q == Search("minor of major", <<p.low, 0>>, 0)
  <2>1. NextSearch(image, p, cur) = {q}
    BY <1>4, NextCases
  <2>2. q.goal = "minor of major" /\ q.at[1] = p.low /\ q.start = 0
    BY DEF Search
  <2>. HIDE DEF q
  <2>3. p.low > cur[1]
    BY <1>1, <1>3
  <2>4. SearchedTag(p, p.low) = <<p.low, 0, 0, 1>> /\ SearchedTag(p, p.low + 1) = <<p.low + 1, 0, 0, 1>>
    BY <1>1 DEF SearchedTag, PatchGoals, MinorGoals
  <2>5. <<p.low, 0, 0, 1>> \in reg /\ <<p.low + 1, 0, 0, 1>> \notin reg
    BY <1>1, <1>4, <2>4 DEF SearchFacts
  <2>6. InContext(image, reg, cur, q)
    BY <1>1, <2>2, <2>3, <2>5 DEF InContext
  <2> QED
    BY <1>2, <2>1, <2>2, <2>6, GoalKinds DEF SearchedWell
<1>5. CASE p.mode = "none"
  <2>1. NextSearch(image, p, cur) = {}
    BY <1>5, NextCases
  <2>2. ASSUME NEW t \in Releases(reg) PROVE ~(t[1] > cur[1])
    <3>1. t[1] < cur[1] + 1
      BY <1>1, <1>3, <1>5, SearchEnds
    <3>2. t[1] \in Nat
      BY <1>1, VersionParts DEF Releases
    <3> QED
      BY <1>3, <3>1, <3>2
  <2>3. Target(image, reg, cur, Kinds) = Target(image, reg, cur, {"patch", "minor"})
    BY <1>1, <2>2, EmptyKind
  <2> QED
    BY <1>2, <2>1, <2>3 DEF SearchedWell
<1> QED
  BY <1>1, <1>4, <1>5

LEMMA MinorOfMajorSearchOver ==
  ASSUME NEW image, NEW reg, NEW cur, NEW best, NEW p, SearchOver(image, reg, cur, best, p),
         p.goal = "minor of major"
  PROVE  SearchedWell(image, reg, cur, Better(best, p), NextSearch(image, p, cur))
<1>. DEFINE x == p.at[1]
<1>1. /\ SearchTyped(p) /\ SearchFacts(reg, p) /\ p.mode \in {"found", "none"}
      /\ "major" \in semverAllowedUpdates(image) /\ x > cur[1] /\ p.start = 0
      /\ <<x, 0, 0, 1>> \in reg /\ <<x + 1, 0, 0, 1>> \notin reg
  BY DEF SearchOver, InContext
<1>2. Top(best, Target(image, reg, cur, {"patch", "minor"})) /\ Better(best, p) = best
  BY GoalKinds, BetterCases DEF SearchOver, PatchGoals
<1>3. p.mode = "found"
  <2>1. SearchedTag(p, 0) = <<x, 0, 0, 1>>
    BY <1>1 DEF SearchedTag, PatchGoals, MinorGoals
  <2> QED
    BY <1>1, <2>1 DEF SearchFacts
<1>. DEFINE q == Search("patch of major", <<p.at[1], p.low>>, 0)
<1>4. NextSearch(image, p, cur) = {q}
  BY <1>3, NextCases
<1>5. q.goal = "patch of major" /\ q.at[1] = x /\ q.at[2] = p.low /\ q.start = 0
  BY DEF Search
<1>6. SearchedTag(p, p.low) = <<x, p.low, 0, 1>> /\ SearchedTag(p, p.low + 1) = <<x, p.low + 1, 0, 1>>
  BY <1>1 DEF SearchedTag, PatchGoals, MinorGoals
<1>. HIDE DEF q, x
<1>7. <<x, p.low, 0, 1>> \in reg /\ <<x, p.low + 1, 0, 1>> \notin reg
  BY <1>1, <1>3, <1>6 DEF SearchFacts
<1>8. InContext(image, reg, cur, q)
  BY <1>1, <1>5, <1>7 DEF InContext
<1> QED
  BY <1>2, <1>4, <1>5, <1>8, GoalKinds DEF SearchedWell

\* So is the patch at the end of a search of the highest major version.
LEMMA MajorCorner ==
  ASSUME NEW image, NEW reg \in SUBSET Versions, WithoutGaps(reg), NEW cur \in Versions, cur[4] = 1,
         "major" \in semverAllowedUpdates(image),
         NEW v \in Releases(reg), v[1] > cur[1], <<v[1] + 1, 0, 0, 1>> \notin reg,
         <<v[1], v[2] + 1, 0, 1>> \notin reg, <<v[1], v[2], v[3] + 1, 1>> \notin reg
  PROVE  /\ Highest(v, Target(image, reg, cur, Kinds))
         /\ \A b \in Target(image, reg, cur, {"patch", "minor"}) : Lower(b, v)
<1>1. /\ v \in Versions /\ v[4] = 1 /\ v[1] \in Nat /\ v[2] \in Nat /\ v[3] \in Nat /\ cur[1] \in Nat
  BY VersionParts DEF Releases
<1>2. v \in Target(image, reg, cur, Kinds)
  BY TargetParts DEF Kinds
<1>3. ASSUME NEW t \in Target(image, reg, cur, Kinds) PROVE ~Lower(v, t)
  <2>1. t \in Releases(reg)
    BY DEF Target
  <2>2. t \in Versions /\ t[4] = 1 /\ t[1] \in Nat /\ t[2] \in Nat /\ t[3] \in Nat
    BY <2>1, VersionParts DEF Releases
  <2>3. t[1] < v[1] + 1
    <3>1. v[1] + 1 \in Nat /\ v[1] + 1 >= 1
      BY <1>1
    <3> QED
      BY <2>1, <3>1, Ceilings
  <2>4. ASSUME t[1] = v[1] PROVE t[2] < v[2] + 1
    <3>1. <<t[1], v[2] + 1, 0, 1>> \notin reg /\ v[2] + 1 \in Nat
      BY <1>1, <2>4
    <3> QED
      BY <2>1, <3>1, Ceilings
  <2>5. ASSUME t[1] = v[1], t[2] = v[2] PROVE t[3] < v[3] + 1
    <3>1. <<t[1], t[2], v[3] + 1, 1>> \notin reg /\ v[3] + 1 \in Nat
      BY <1>1, <2>5
    <3> QED
      BY <2>1, <3>1, Ceilings
  <2>6. t[1] < v[1] \/ (t[1] = v[1] /\ t[2] < v[2]) \/ (t[1] = v[1] /\ t[2] = v[2] /\ t[3] <= v[3])
    BY <1>1, <2>2, <2>3, <2>4, <2>5
  <2> QED
    BY <1>1, <2>2, <2>6, NotLowerParts
<1>4. ASSUME NEW b \in Target(image, reg, cur, {"patch", "minor"}) PROVE Lower(b, v)
  <2>1. b \in Releases(reg) /\ b \in Versions
    BY DEF Target, Releases
  <2>2. b[1] = cur[1]
    BY <2>1, TargetParts
  <2> QED
    BY <1>1, <2>1, <2>2, LowerByParts
<1> QED
  BY <1>2, <1>3, <1>4 DEF Highest

LEMMA PatchOfMajorSearchOver ==
  ASSUME NEW image, NEW reg, NEW cur, NEW best, NEW p, SearchOver(image, reg, cur, best, p),
         p.goal = "patch of major"
  PROVE  SearchedWell(image, reg, cur, Better(best, p), NextSearch(image, p, cur))
<1>. DEFINE T == Target(image, reg, cur, Kinds)
<1>. DEFINE v == SearchedTag(p, p.low)
<1>. DEFINE x == p.at[1]
<1>. DEFINE y == p.at[2]
<1>1. /\ reg \in SUBSET Versions /\ WithoutGaps(reg) /\ cur \in Versions /\ cur[4] = 1
      /\ "major" \in semverAllowedUpdates(image)
  BY DEF SearchOver, InContext
<1>2. /\ x > cur[1] /\ p.start = 0 /\ <<x + 1, 0, 0, 1>> \notin reg
      /\ <<x, y, 0, 1>> \in reg /\ <<x, y + 1, 0, 1>> \notin reg
  BY DEF SearchOver, InContext
<1>3. SearchTyped(p) /\ SearchFacts(reg, p) /\ p.mode \in {"found", "none"}
  BY DEF SearchOver
<1>4. p.goal \in PatchGoals /\ p \in SearchRows /\ p.low \in Nat /\ x \in Nat /\ y \in Nat
  BY <1>3 DEF PatchGoals, SearchTyped, SearchRows
<1>5. \A z : SearchedTag(p, z) = <<x, y, z, 1>>
  BY DEF SearchedTag, PatchGoals, MinorGoals
<1>6. v \in Versions /\ v # <<>> /\ v[1] = x /\ v[2] = y /\ v[3] = p.low /\ v[4] = 1
  BY <1>4, PatchTag
<1>. HIDE DEF v, x, y
<1>7. p.mode = "found"
  <2>1. SearchedTag(p, p.start) \in reg
    BY <1>2, <1>5
  <2> QED
    BY <1>3, <2>1 DEF SearchFacts
<1>8. v \in reg /\ SearchedTag(p, p.low + 1) \notin reg
  BY <1>3, <1>7 DEF SearchFacts, v
<1>9. v \in Releases(reg) /\ <<v[1], v[2], v[3] + 1, 1>> \notin reg
  BY <1>5, <1>6, <1>8 DEF Releases
<1>10. v[1] > cur[1] /\ <<v[1] + 1, 0, 0, 1>> \notin reg /\ <<v[1], v[2] + 1, 0, 1>> \notin reg
  BY <1>2, <1>6
<1>11. Highest(v, T) /\ \A b \in Target(image, reg, cur, {"patch", "minor"}) : Lower(b, v)
  BY <1>1, <1>9, <1>10, MajorCorner
<1>12. best = <<>> \/ Lower(best, v)
  <2>1. Top(best, Target(image, reg, cur, {"patch", "minor"}))
    BY GoalKinds DEF SearchOver
  <2> QED
    BY <1>11, <2>1 DEF Top, Highest
<1>13. Top(Better(best, p), T)
  BY <1>4, <1>6, <1>7, <1>11, <1>12, PatchIsTop DEF v
<1>14. NextSearch(image, p, cur) = {}
  BY NextCases
<1> QED
  BY <1>13, <1>14 DEF SearchedWell

\* The six kinds of search together.
LEMMA SearchIsOver ==
  ASSUME NEW image, NEW reg, NEW cur, NEW best, NEW p, SearchOver(image, reg, cur, best, p)
  PROVE  SearchedWell(image, reg, cur, Better(best, p), NextSearch(image, p, cur))
<1>1. p.goal \in PatchGoals \cup MinorGoals \cup {"major"}
  BY DEF SearchOver, SearchTyped, SearchRows
<1>2. \/ p.goal = "patch" \/ p.goal = "minor" \/ p.goal = "patch of minor"
      \/ p.goal = "major" \/ p.goal = "minor of major" \/ p.goal = "patch of major"
  BY <1>1 DEF PatchGoals, MinorGoals
<1> QED
  BY <1>2, PatchSearchOver, MinorSearchOver, PatchOfMinorSearchOver, MajorSearchOver,
     MinorOfMajorSearchOver, PatchOfMajorSearchOver

-----------------------------------------------------------------------------
(* The searches of a probe, one after the other *)

Started(p) == SearchTyped(p) /\ p.mode = "first"

LEMMA SearchIsStarted ==
  ASSUME NEW goal \in PatchGoals \cup MinorGoals \cup {"major"}, NEW at \in Nat \X Nat, NEW start \in Nat
  PROVE  Started(Search(goal, at, start))
<1>. DEFINE p == Search(goal, at, start)
<1>1. p \in SearchRows
  BY DEF Search, SearchRows, LiveModes
<1>2. p.low = start /\ p.start = start /\ p.step = 1 /\ p.mode = "first"
  BY DEF Search
<1>. HIDE DEF p
<1>3. SearchTyped(p) /\ p.mode = "first"
  BY <1>1, <1>2 DEF SearchTyped
<1> QED
  BY <1>3 DEF Started, p

\* A new search has asked nothing yet, so nothing is claimed of it.
LEMMA FirstSearchesAreStarted ==
  ASSUME NEW image, NEW cur \in Versions
  PROVE  /\ \A p \in MajorSearch(image, cur) : Started(p)
         /\ \A p \in MinorSearch(image, cur) : Started(p)
         /\ \A p \in FirstSearch(image, cur) : Started(p)
<1>1. cur[1] \in Nat /\ cur[2] \in Nat /\ cur[3] \in Nat
  BY VersionParts
<1>a. /\ cur[1] + 1 \in Nat /\ cur[2] + 1 \in Nat /\ cur[3] + 1 \in Nat
      /\ <<0, 0>> \in Nat \X Nat /\ <<cur[1], 0>> \in Nat \X Nat /\ <<cur[1], cur[2]>> \in Nat \X Nat
  BY <1>1
<1>b. {"major", "minor", "patch"} \subseteq PatchGoals \cup MinorGoals \cup {"major"}
  BY DEF PatchGoals, MinorGoals
<1>2. Started(Search("major", <<0, 0>>, cur[1] + 1))
  BY <1>a, <1>b, SearchIsStarted
<1>3. Started(Search("minor", <<cur[1], 0>>, cur[2] + 1))
  BY <1>a, <1>b, SearchIsStarted
<1>4. Started(Search("patch", <<cur[1], cur[2]>>, cur[3] + 1))
  BY <1>a, <1>b, SearchIsStarted
<1>5. \A p \in MajorSearch(image, cur) : Started(p)
  BY <1>2 DEF MajorSearch
<1>6. \A p \in MinorSearch(image, cur) : Started(p)
  BY <1>3, <1>5 DEF MinorSearch
<1>7. \A p \in FirstSearch(image, cur) : Started(p)
  BY <1>4, <1>6 DEF FirstSearch
<1> QED
  BY <1>5, <1>6, <1>7

LEMMA NextIsStarted ==
  ASSUME NEW image, NEW cur \in Versions, NEW q \in SearchRows, NEW p \in NextSearch(image, q, cur)
  PROVE  Started(p)
<1>1. q.at[1] \in Nat /\ q.low \in Nat
  BY DEF SearchRows
<1>2. Started(Search("patch of minor", <<q.at[1], q.low>>, 0))
  BY <1>1, SearchIsStarted DEF PatchGoals
<1>3. Started(Search("minor of major", <<q.low, 0>>, 0))
  BY <1>1, SearchIsStarted DEF MinorGoals
<1>4. Started(Search("patch of major", <<q.at[1], q.low>>, 0))
  BY <1>1, SearchIsStarted DEF PatchGoals
<1>5. \/ NextSearch(image, q, cur) = MinorSearch(image, cur)
      \/ NextSearch(image, q, cur) = MajorSearch(image, cur)
      \/ NextSearch(image, q, cur) = {Search("patch of minor", <<q.at[1], q.low>>, 0)}
      \/ NextSearch(image, q, cur) = {Search("minor of major", <<q.low, 0>>, 0)}
      \/ NextSearch(image, q, cur) = {Search("patch of major", <<q.at[1], q.low>>, 0)}
      \/ NextSearch(image, q, cur) = {}
  BY DEF NextSearch
<1> QED
  BY <1>2, <1>3, <1>4, <1>5, FirstSearchesAreStarted

LEMMA StartedFacts ==
  ASSUME NEW reg, NEW p, Started(p)
  PROVE  SearchTyped(p) /\ p.mode \in LiveModes /\ SearchFacts(reg, p)
BY DEF Started, SearchFacts, LiveModes

LEMMA BetterIsTyped ==
  ASSUME NEW best \in Versions \cup {<<>>}, NEW q \in SearchRows
  PROVE  Better(best, q) \in Versions \cup {<<>>}
<1>1. q.low \in Nat
  BY DEF SearchRows
<1>2. SearchedTag(q, q.low) \in Versions
  BY <1>1, SearchedTagIsVersion
<1> QED
  BY <1>2 DEF Better

\* consider only takes tags the registry has answered for.
LEMMA BetterIsThere ==
  ASSUME NEW reg, NEW best, best = <<>> \/ best \in reg, NEW q, SearchFacts(reg, q)
  PROVE  Better(best, q) = <<>> \/ Better(best, q) \in reg
BY DEF Better, SearchFacts

\* One answer while the registry does not change.
LEMMA AnswerIsWell ==
  ASSUME NEW image, NEW reg \in SUBSET Versions, WithoutGaps(reg), NEW cur \in Versions, cur[4] = 1, NEW best,
         NEW p, SearchTyped(p), p.mode \in LiveModes, SearchFacts(reg, p), SearchedWell(image, reg, cur, best, {p})
  PROVE  LET q == probeContiguousSemverComponent(p, ProbedTag(p) \in reg)
         IN  /\ q.mode \in {"found", "none"} => SearchedWell(image, reg, cur, Better(best, q), NextSearch(image, q, cur))
             /\ q.mode \notin {"found", "none"} => SearchedWell(image, reg, cur, Better(best, q), {q})
<1>. DEFINE exists == ProbedTag(p) \in reg
<1>. DEFINE q == probeContiguousSemverComponent(p, exists)
<1>a. SearchFacts(reg, q)
  BY AnswerKeepsFacts
<1>b. exists \in BOOLEAN
  OBVIOUS
<1>. HIDE DEF exists
<1>c. SearchTyped(q)
  BY <1>b, AnswerIsTyped
<1>d. q.goal = p.goal /\ q.at = p.at /\ q.start = p.start
  BY <1>b, AnswerFields
<1>. HIDE DEF q
<1>1. q.goal = p.goal /\ q.at = p.at /\ q.start = p.start /\ SearchTyped(q) /\ SearchFacts(reg, q)
  BY <1>a, <1>c, <1>d
<1>2. InContext(image, reg, cur, p) /\ Top(best, Target(image, reg, cur, KindsDone(p.goal)))
  BY DEF SearchedWell
<1>3. InContext(image, reg, cur, q)
  BY <1>1, <1>2 DEF InContext
<1>4. Top(best, Target(image, reg, cur, KindsDone(q.goal)))
  BY <1>1, <1>2
<1>5. ASSUME q.mode \in {"found", "none"}
      PROVE  SearchedWell(image, reg, cur, Better(best, q), NextSearch(image, q, cur))
  <2>1. SearchOver(image, reg, cur, best, q)
    BY <1>1, <1>3, <1>4, <1>5 DEF SearchOver
  <2> QED
    BY <2>1, SearchIsOver
<1>6. ASSUME q.mode \notin {"found", "none"}
      PROVE  SearchedWell(image, reg, cur, Better(best, q), {q})
  <2>1. Better(best, q) = best
    BY <1>6, BetterCases
  <2> QED
    BY <1>3, <1>4, <2>1 DEF SearchedWell
<1> QED
  BY <1>5, <1>6 DEF q, exists

-----------------------------------------------------------------------------
(* Filtering *)

\* A filter admits only newer tags, and semver only allowed steps.
LEMMA AdmittedParts ==
  ASSUME NEW image, NEW cur, NEW tags
  PROVE  /\ Admitted(image, cur, tags) \subseteq tags
         /\ Ordered(image) => \A t \in Admitted(image, cur, tags) : IsVersion(cur) /\ Lower(cur, t)
         /\ image.filter = "semver" => \A t \in Admitted(image, cur, tags) : semverUpdateAllowed(image, cur, t)
BY DEF Admitted, Ordered

\* With every kind settled the probe's target is the filter's.
LEMMA TargetIsNewReleases ==
  ASSUME NEW image, image.filter = "semver", NEW reg, NEW cur, IsVersion(cur)
  PROVE  Target(image, reg, cur, Kinds) = NewReleases(image, cur, reg)
<1>1. Admitted(image, cur, reg) = {t \in reg : IsVersion(cur) /\ Lower(cur, t) /\ semverUpdateAllowed(image, cur, t)}
  BY DEF Admitted
<1>2. \A t : semverUpdateKind(cur, t) \in Kinds
  BY DEF semverUpdateKind, Kinds
<1> QED
  BY <1>1, <1>2 DEF Target, NewReleases, Releases

\* The first candidate is the highest one the filter admits.
LEMMA CandidatesAreBest ==
  ASSUME NEW image, NEW cur, NEW tags \in Seq(Versions)
  PROVE  LET candidates == candidateImageTags(image, cur, tags)
             admitted == Admitted(image, cur, ToSet(tags))
         IN  /\ candidates # <<>> => candidates[1] \in Versions
             /\ Ordered(image) => /\ candidates = <<>> <=> admitted = {}
                                  /\ candidates # <<>> => Highest(candidates[1], admitted)
<1>. DEFINE candidates == candidateImageTags(image, cur, tags)
<1>. DEFINE admitted == Admitted(image, cur, ToSet(tags))
<1>1. ToSet(tags) \in SUBSET Versions /\ IsFiniteSet(ToSet(tags))
  BY SetOfSeq
<1>2. admitted \in SUBSET ToSet(tags)
  BY AdmittedParts
<1>3. admitted \in SUBSET Versions /\ IsFiniteSet(admitted)
  BY <1>1, <1>2, FS_Subset
<1>4. CASE image.filter = "latest"
  <2>1. candidates = tags
    BY <1>4 DEF candidateImageTags
  <2>2. ~Ordered(image)
    BY <1>4 DEF Ordered
  <2>3. tags # <<>> => tags[1] \in Versions
    <3>1. tags # <<>> => 1 \in 1..Len(tags)
      BY LenProperties, EmptySeq
    <3> QED
      BY <3>1, ElementOfSeq
  <2> QED
    BY <2>1, <2>2, <2>3
<1>5. CASE image.filter # "latest"
  <2>1. candidates = Descending(admitted)
    BY <1>5 DEF candidateImageTags
  <2>. HIDE DEF admitted, candidates
  <2>2. /\ candidates = <<>> <=> admitted = {}
        /\ admitted # {} => candidates[1] \in admitted /\ \A t \in admitted : ~Lower(candidates[1], t)
    BY <1>3, <2>1, DescendingIsBest
  <2>3. /\ candidates # <<>> => candidates[1] \in Versions
        /\ candidates = <<>> <=> admitted = {}
        /\ candidates # <<>> => Highest(candidates[1], admitted)
    BY <1>3, <2>2 DEF Highest
  <2> QED
    BY <2>3 DEF admitted, candidates
<1> QED
  BY <1>4, <1>5

-----------------------------------------------------------------------------
(* The invariant *)

ValidPolicies == {image \in Policies : validateImageUpdate(image)}
SourceNames == {"auto", "probe", "registry", "digest"} \cup ForgeSources
SourceLists == Seq(SourceNames)
TagLists == Seq(Versions)
BestTags == Versions \cup {<<>>}
CheckPlaces == {"source", "list", "probe", "inspect", "digest"}
DiscoveryChecks ==
  [current : WrittenValues, at : CheckPlaces, todo : SourceLists, tags : TagLists, search : SUBSET SearchRows,
   best : BestTags, last : SUBSET Versions, steady : BOOLEAN]

\* What came with the task.
InjectedWell(image, i) ==
  /\ i.merged \in TagLists
  /\ ~Merging(image) => \A n \in DOMAIN image.sources : i.bySource[n] \in TagLists
  /\ Only(image.sources, "probe") => i.merged = <<>>

\* What holds of a check whatever happens to the registry.
CheckIsTyped(image, c) ==
  /\ c \in DiscoveryChecks
  /\ Len(c.todo) <= Len(FirstSources(image))
  /\ (Len(image.sources) = 1 /\ ~Only(image.sources, "auto")) => c.todo \in {image.sources, <<>>}
  /\ c.at = "digest" => Only(image.sources, "digest")
  /\ c.at = "list" => c.todo # <<>> /\ c.todo[1] = "registry"
  /\ c.at = "probe" =>
       /\ c.todo # <<>> /\ c.todo[1] = "probe" /\ c.current \in Versions
       /\ \A p \in c.search : SearchTyped(p) /\ p.mode \in LiveModes
  /\ c.at = "inspect" =>
       /\ Ordered(image) => Lower(c.current, c.best)
       /\ image.filter = "semver" => semverUpdateAllowed(image, c.current, c.best)

\* What the pages read say of a registry that has not changed.
ListFacts(image, reg, inj, c) ==
  Listed(image) =>
    /\ c.at \in {"source", "probe", "list"} => ToSet(c.tags) \subseteq reg
    /\ c.at \in {"source", "probe"} => "registry" \in ToSet(c.todo) \/ reg \subseteq ToSet(c.tags)
    /\ c.at = "list" => \A t \in reg : t \in ToSet(c.tags) \/ \A l \in c.last : Lower(l, t)
    /\ c.at = "source" /\ Only(image.sources, "registry") /\ c.todo # <<>> => c.tags = <<>>
    /\ c.at = "inspect" /\ Ordered(image) =>
         Highest(c.best, Admitted(image, c.current, reg \cup InjectedMerged(inj)))

SearchesAreFacts(reg, c) ==
  c.at = "probe" => (c.best = <<>> \/ c.best \in reg) /\ \A p \in c.search : SearchFacts(reg, p)

\* What the probes say of one that has no gaps either.
ProbeFacts(image, reg, c) ==
  Probed(image, c.current) /\ WithoutGaps(reg) =>
    /\ c.at = "source" /\ c.todo # <<>> => c.tags = <<>>
    /\ c.at = "source" /\ c.todo = <<>> =>
         /\ Len(c.tags) <= 1
         /\ Top(IF c.tags = <<>> THEN <<>> ELSE c.tags[1], Target(image, reg, c.current, Kinds))
    /\ c.at = "probe" => c.tags = <<>> /\ SearchedWell(image, reg, c.current, c.best, c.search)
    /\ c.at = "inspect" => Highest(c.best, NewReleases(image, c.current, reg))

\* A running check.
CheckIsWell(image, f, reg, inj, c) ==
  /\ ~NoCurrentValue(image, f) /\ c.current = currentImageUpdateValue(image, f)[1]
  /\ CheckIsTyped(image, c)
  /\ c.steady => ListFacts(image, reg, inj, c) /\ SearchesAreFacts(reg, c) /\ ProbeFacts(image, reg, c)

\* A report: DiscoveryIsSound, and that an announcement had a current value.
ReportIsWell(image, f, inj, r) ==
  LET exact == r.steady /\ ~r.failed /\ Ordered(image)
  IN  /\ r.available => ~NoCurrentValue(image, f)
      /\ AnnouncedIsSound(image, r)
      /\ exact /\ Listed(image) => ListIsExact(image, inj, r)
      /\ exact /\ Probed(image, r.current) /\ WithoutGaps(r.known) => ProbeIsExact(image, r)
      /\ r.status = "error" => r.failed \/ NoCurrentValue(image, f) \/ r.candidate \notin r.known
      /\ FileIsReadBack(image, f, r)

\* Admission, check and report follow each other, each well formed.
DiscoveryInv ==
  /\ policy \in ValidPolicies
  /\ registry \in SUBSET Versions /\ IsFiniteSet(registry) /\ releases \in Pages
  /\ DOMAIN file \subseteq Nat /\ (report = {} => file \in FirstFiles)
  /\ injected = {} \/ \E i \in injected : injected = {i}
  /\ check = {} \/ \E c \in check : check = {c}
  /\ report = {} \/ \E r \in report : report = {r}
  /\ injected = {} => check = {} /\ report = {}
  /\ check # {} => report = {}
  /\ \A i \in injected : InjectedWell(policy, i)
  /\ \A c \in check : CheckIsWell(policy, file, registry, injected, c)
  /\ \A r \in report : ReportIsWell(policy, file, injected, r)

-----------------------------------------------------------------------------
(* The parts of a check that an action changes *)

SameBut(c, d, fields) ==
  /\ "current" \notin fields => d.current = c.current
  /\ "at" \notin fields => d.at = c.at
  /\ "todo" \notin fields => d.todo = c.todo
  /\ "tags" \notin fields => d.tags = c.tags
  /\ "search" \notin fields => d.search = c.search
  /\ "best" \notin fields => d.best = c.best
  /\ "last" \notin fields => d.last = c.last
  /\ "steady" \notin fields => d.steady = c.steady

LEMMA CheckParts ==
  ASSUME NEW c \in DiscoveryChecks
  PROVE  /\ c.current \in WrittenValues /\ c.at \in CheckPlaces /\ c.todo \in SourceLists /\ c.tags \in TagLists
         /\ c.search \in SUBSET SearchRows /\ c.best \in BestTags /\ c.last \in SUBSET Versions
         /\ c.steady \in BOOLEAN
BY DEF DiscoveryChecks

\* One lemma for each update of a check's record.
LEMMA UnsteadyFields ==
  ASSUME NEW c \in DiscoveryChecks
  PROVE  LET d == [c EXCEPT !.steady = FALSE]
         IN  d \in DiscoveryChecks /\ d.steady = FALSE /\ SameBut(c, d, {"steady"})
BY DEF DiscoveryChecks, SameBut

LEMMA ListFields ==
  ASSUME NEW c \in DiscoveryChecks
  PROVE  LET d == [c EXCEPT !.at = "list", !.last = {}]
         IN  d \in DiscoveryChecks /\ d.at = "list" /\ d.last = {} /\ SameBut(c, d, {"at", "last"})
BY DEF DiscoveryChecks, SameBut, CheckPlaces

LEMMA ProbeFields ==
  ASSUME NEW c \in DiscoveryChecks, NEW searches \in SUBSET SearchRows
  PROVE  LET d == [c EXCEPT !.at = "probe", !.best = <<>>, !.search = searches]
         IN  /\ d \in DiscoveryChecks /\ d.at = "probe" /\ d.best = <<>> /\ d.search = searches
             /\ SameBut(c, d, {"at", "best", "search"})
<1>. DEFINE b == <<>>
<1>. DEFINE d == [c EXCEPT !.at = "probe", !.best = b, !.search = searches]
<1>. SUFFICES /\ d \in DiscoveryChecks /\ d.at = "probe" /\ d.best = b /\ d.search = searches
              /\ SameBut(c, d, {"at", "best", "search"})
  OBVIOUS
<1>1. b \in BestTags
  BY DEF BestTags
<1>. HIDE DEF b
<1> QED
  BY <1>1 DEF DiscoveryChecks, SameBut, CheckPlaces

LEMMA AnsweredFields ==
  ASSUME NEW c \in DiscoveryChecks, NEW searches \in SUBSET SearchRows, NEW best \in BestTags
  PROVE  LET d == [c EXCEPT !.search = searches, !.best = best]
         IN  d \in DiscoveryChecks /\ d.best = best /\ d.search = searches /\ SameBut(c, d, {"best", "search"})
BY DEF DiscoveryChecks, SameBut

LEMMA PageFields ==
  ASSUME NEW c \in DiscoveryChecks, NEW tags \in TagLists, NEW last \in SUBSET Versions
  PROVE  LET d == [c EXCEPT !.tags = tags, !.last = last]
         IN  d \in DiscoveryChecks /\ d.tags = tags /\ d.last = last /\ SameBut(c, d, {"tags", "last"})
BY DEF DiscoveryChecks, SameBut

LEMMA ChosenFields ==
  ASSUME NEW c \in DiscoveryChecks, NEW best \in BestTags
  PROVE  LET d == [c EXCEPT !.at = "inspect", !.best = best, !.tags = <<>>]
         IN  d \in DiscoveryChecks /\ d.at = "inspect" /\ d.best = best /\ SameBut(c, d, {"at", "best", "tags"})
<1>. DEFINE s == <<>>
<1>. DEFINE d == [c EXCEPT !.at = "inspect", !.best = best, !.tags = s]
<1>. SUFFICES d \in DiscoveryChecks /\ d.at = "inspect" /\ d.best = best /\ SameBut(c, d, {"at", "best", "tags"})
  OBVIOUS
<1>1. s \in TagLists
  BY DEF TagLists
<1>. HIDE DEF s
<1> QED
  BY <1>1 DEF DiscoveryChecks, SameBut, CheckPlaces

\* What is left of the sources when the first is done.
LEMMA TodoParts ==
  ASSUME NEW s \in SourceLists, s # <<>>
  PROVE  /\ Tail(s) \in SourceLists /\ Len(s) \in Nat /\ Len(Tail(s)) = Len(s) - 1 /\ Len(s) >= 1
         /\ \A x \in ToSet(s) : x = s[1] \/ x \in ToSet(Tail(s))
         /\ Len(s) = 1 => Tail(s) = <<>>
<1>1. Tail(s) \in SourceLists /\ Len(Tail(s)) = Len(s) - 1 /\ Len(s) \in Nat /\ Len(s) >= 1
  BY HeadTailProperties, LenProperties, EmptySeq DEF SourceLists
<1>2. \A i \in 1..Len(s) - 1 : Tail(s)[i] = s[i + 1]
  BY HeadTailProperties DEF SourceLists
<1>3. ToSet(s) = {s[n] : n \in 1..Len(s)} /\ ToSet(Tail(s)) = {Tail(s)[n] : n \in 1..Len(Tail(s))}
  BY <1>1, SetOfSeq DEF SourceLists
<1>4. ASSUME NEW n \in 1..Len(s) PROVE s[n] = s[1] \/ s[n] \in ToSet(Tail(s))
  <2>1. CASE n = 1
    BY <2>1
  <2>2. CASE n # 1
    <3>1. n - 1 \in 1..Len(Tail(s)) /\ n - 1 \in 1..Len(s) - 1 /\ (n - 1) + 1 = n
      BY <1>1, <2>2
    <3>2. Tail(s)[n - 1] = s[n]
      BY <1>2, <3>1
    <3> QED
      BY <1>3, <3>1, <3>2
  <2> QED
    BY <2>1, <2>2
<1>5. Len(s) = 1 => Tail(s) = <<>>
  <2>. SUFFICES ASSUME Len(s) = 1 PROVE Tail(s) = <<>>
    OBVIOUS
  <2>1. Len(Tail(s)) = 0
    BY <1>1
  <2> QED
    BY <1>1, <2>1, EmptySeq DEF SourceLists
<1> QED
  BY <1>1, <1>3, <1>4, <1>5

LEMMA DoneFields ==
  ASSUME NEW c \in DiscoveryChecks, c.todo # <<>>, NEW tags \in TagLists
  PROVE  LET d == SourceDone(c, tags)
         IN  /\ d \in DiscoveryChecks /\ d.at = "source" /\ d.todo = Tail(c.todo) /\ d.tags = tags
             /\ SameBut(c, d, {"at", "todo", "tags"})
<1>. DEFINE rest == Tail(c.todo)
<1>1. rest \in SourceLists
  BY CheckParts, TodoParts
<1>2. SourceDone(c, tags) = [c EXCEPT !.at = "source", !.todo = rest, !.tags = tags]
  BY DEF SourceDone
<1>. HIDE DEF rest
<1>. DEFINE d == [c EXCEPT !.at = "source", !.todo = rest, !.tags = tags]
<1>3. /\ d \in DiscoveryChecks /\ d.at = "source" /\ d.todo = rest /\ d.tags = tags
      /\ SameBut(c, d, {"at", "todo", "tags"})
  BY <1>1 DEF DiscoveryChecks, SameBut, CheckPlaces
<1> QED
  BY <1>2, <1>3 DEF rest

-----------------------------------------------------------------------------
(* A source is passed *)

LEMMA PairIsList ==
  ASSUME NEW S, NEW a \in S, NEW b \in S
  PROVE  <<a, b>> \in Seq(S)
OBVIOUS

\* A validated policy lists known sources, and auto stands for two.
LEMMA PolicySources ==
  ASSUME NEW image \in ValidPolicies
  PROVE  /\ image.sources \in SourceLists /\ FirstSources(image) \in SourceLists
         /\ ~Only(image.sources, "auto") => FirstSources(image) = image.sources
         /\ Only(image.sources, "auto") => FirstSources(image) = <<"probe", "registry">>
         /\ \A x : Only(image.sources, x) => Len(image.sources) = 1 /\ image.sources[1] = x
<1>1. image.sources \in SourceLists
  <2>1. image.sources \in Seq(STRING) /\ \A i \in DOMAIN image.sources : image.sources[i] \in SourceNames
    BY DiscoveryAssumption DEF ValidPolicies, validateImageUpdate, validateImageUpdateDiscovery, SourceNames
  <2>. DEFINE s == image.sources
  <2>. HIDE DEF s
  <2>2. s \in Seq(STRING) /\ \A i \in DOMAIN s : s[i] \in SourceNames
    BY <2>1 DEF s
  <2>3. Len(s) \in Nat /\ DOMAIN s = 1..Len(s) /\ s \in [1..Len(s) -> STRING]
    BY <2>2, LenProperties
  <2>4. s \in [1..Len(s) -> SourceNames]
    BY <2>2, <2>3
  <2>5. s \in Seq(SourceNames)
    BY <2>3, <2>4, SeqDef
  <2> QED
    BY <2>5 DEF s, SourceLists
<1>2. /\ ~Only(image.sources, "auto") => FirstSources(image) = image.sources
      /\ Only(image.sources, "auto") => FirstSources(image) = <<"probe", "registry">>
  BY DEF FirstSources
<1>3. <<"probe", "registry">> \in SourceLists
  <2>1. "probe" \in SourceNames /\ "registry" \in SourceNames
    BY DEF SourceNames
  <2>2. \A a, b \in SourceNames : <<a, b>> \in Seq(SourceNames)
    BY PairIsList
  <2> QED
    BY <2>1, <2>2, Zenon DEF SourceLists
<1>4. FirstSources(image) \in SourceLists
  BY <1>1, <1>2, <1>3
<1>. DEFINE s == image.sources
<1>. HIDE DEF s
<1>5. \A x : s = <<x>> => Len(s) = 1 /\ s[1] = x
  OBVIOUS
<1>6. \A x : Only(image.sources, x) => Len(image.sources) = 1 /\ image.sources[1] = x
  BY <1>5 DEF Only, s
<1> QED
  BY <1>1, <1>2, <1>4, <1>6

LEMMA OtherSource ==
  ASSUME NEW image, NEW x, NEW y, x # y, Only(image.sources, x)
  PROVE  ~Only(image.sources, y)
BY DEF Only

\* A single source is still to be asked or has been asked.
LEMMA SingleSource ==
  ASSUME NEW image \in ValidPolicies, NEW c, CheckIsTyped(image, c), NEW x, x # "auto", Only(image.sources, x)
  PROVE  c.todo # <<>> => c.todo = <<x>> /\ c.todo[1] = x /\ Tail(c.todo) = <<>>
<1>1. Len(image.sources) = 1 /\ ~Only(image.sources, "auto")
  BY PolicySources, OtherSource
<1>2. c.todo \in {image.sources, <<>>}
  BY <1>1 DEF CheckIsTyped
<1>3. image.sources = <<x>>
  BY DEF Only
<1>. DEFINE s == c.todo
<1>4. s # <<>> => s = <<x>>
  BY <1>2, <1>3
<1>a. s \in SourceLists
  BY CheckParts DEF CheckIsTyped
<1>. HIDE DEF s
<1>b. s # <<>> => s[1] = x /\ Len(s) = 1
  BY <1>4
<1>c. s # <<>> => Tail(s) = <<>>
  BY <1>a, <1>b, TodoParts
<1>5. s # <<>> => s = <<x>> /\ s[1] = x /\ Tail(s) = <<>>
  BY <1>4, <1>b, <1>c
<1> QED
  BY <1>5 DEF s

\* A source that is done leaves a well-formed check,
LEMMA DoneIsTyped ==
  ASSUME NEW image \in ValidPolicies, NEW c, CheckIsTyped(image, c), c.todo # <<>>, NEW tags \in TagLists
  PROVE  CheckIsTyped(image, SourceDone(c, tags))
<1>. DEFINE d == SourceDone(c, tags)
<1>1. c \in DiscoveryChecks /\ c.todo \in SourceLists
  BY CheckParts DEF CheckIsTyped
<1>2. d \in DiscoveryChecks /\ d.at = "source" /\ d.todo = Tail(c.todo)
  BY <1>1, DoneFields
<1>3. Len(Tail(c.todo)) = Len(c.todo) - 1 /\ Len(c.todo) \in Nat /\ (Len(c.todo) = 1 => Tail(c.todo) = <<>>)
  BY <1>1, TodoParts
<1>. HIDE DEF d
<1>4. Len(c.todo) <= Len(FirstSources(image)) /\ Len(FirstSources(image)) \in Nat
  BY PolicySources, LenProperties DEF CheckIsTyped, SourceLists
<1>5. Len(d.todo) <= Len(FirstSources(image))
  BY <1>2, <1>3, <1>4
<1>6. (Len(image.sources) = 1 /\ ~Only(image.sources, "auto")) => d.todo = <<>>
  <2>. SUFFICES ASSUME Len(image.sources) = 1, ~Only(image.sources, "auto") PROVE d.todo = <<>>
    OBVIOUS
  <2>1. c.todo = image.sources
    BY DEF CheckIsTyped
  <2> QED
    BY <1>2, <1>3, <2>1
<1>7. d.todo = <<>> => d.todo \in {image.sources, <<>>}
  OBVIOUS
<1>8. CheckIsTyped(image, d)
  BY <1>2, <1>5, <1>6, <1>7 DEF CheckIsTyped
<1> QED
  BY <1>8 DEF d

\* what was listed if it left all tags of the registry or the registry to come,
LEMMA DoneListFacts ==
  ASSUME NEW image \in ValidPolicies, NEW c, CheckIsTyped(image, c), c.todo # <<>>, NEW tags \in TagLists, NEW reg, NEW inj,
         Listed(image) =>
           /\ ToSet(tags) \subseteq reg
           /\ "registry" \in ToSet(Tail(c.todo)) \/ reg \subseteq ToSet(tags)
  PROVE  ListFacts(image, reg, inj, SourceDone(c, tags))
<1>. DEFINE d == SourceDone(c, tags)
<1>1. c \in DiscoveryChecks
  BY DEF CheckIsTyped
<1>2. d.at = "source" /\ d.todo = Tail(c.todo) /\ d.tags = tags
  BY <1>1, DoneFields
<1>. HIDE DEF d
<1>3. Only(image.sources, "registry") => d.todo = <<>>
  BY <1>2, SingleSource
<1>4. ListFacts(image, reg, inj, d)
  BY <1>2, <1>3 DEF ListFacts
<1> QED
  BY <1>4 DEF d

\* and what was probed if it left the best.
LEMMA DoneProbeFacts ==
  ASSUME NEW image \in ValidPolicies, NEW c, CheckIsTyped(image, c), c.todo # <<>>, NEW tags \in TagLists, NEW reg,
         Probed(image, c.current) /\ WithoutGaps(reg) =>
           Len(tags) <= 1 /\ Top(IF tags = <<>> THEN <<>> ELSE tags[1], Target(image, reg, c.current, Kinds))
  PROVE  ProbeFacts(image, reg, SourceDone(c, tags))
<1>. DEFINE d == SourceDone(c, tags)
<1>1. c \in DiscoveryChecks
  BY DEF CheckIsTyped
<1>2. d.at = "source" /\ d.todo = Tail(c.todo) /\ d.tags = tags /\ d.current = c.current
  BY <1>1, DoneFields DEF SameBut
<1>. HIDE DEF d
<1>3. Only(image.sources, "probe") => d.todo = <<>>
  BY <1>2, SingleSource
<1>4. Probed(image, d.current) => d.todo = <<>>
  BY <1>3 DEF Probed
<1>5. ProbeFacts(image, reg, d)
  BY <1>2, <1>4 DEF ProbeFacts
<1> QED
  BY <1>5 DEF d

\* The part of CheckIsWell that a step of the check itself has to keep.
LEMMA StepIsWell ==
  ASSUME NEW image, NEW f, NEW reg, NEW inj, NEW c, CheckIsWell(image, f, reg, inj, c),
         NEW d, CheckIsTyped(image, d), d.current = c.current, d.steady = c.steady,
         c.steady => ListFacts(image, reg, inj, d) /\ SearchesAreFacts(reg, d) /\ ProbeFacts(image, reg, d)
  PROVE  CheckIsWell(image, f, reg, inj, d)
BY DEF CheckIsWell

\* A source that adds tags of its own, or none.
LEMMA DoneIsWell ==
  ASSUME NEW image \in ValidPolicies, NEW f, NEW reg, NEW inj, NEW c, CheckIsWell(image, f, reg, inj, c),
         c.todo # <<>>, NEW tags \in TagLists,
         c.steady /\ Listed(image) =>
           /\ ToSet(tags) \subseteq reg
           /\ "registry" \in ToSet(Tail(c.todo)) \/ reg \subseteq ToSet(tags),
         c.steady /\ Probed(image, c.current) /\ WithoutGaps(reg) =>
           Len(tags) <= 1 /\ Top(IF tags = <<>> THEN <<>> ELSE tags[1], Target(image, reg, c.current, Kinds))
  PROVE  CheckIsWell(image, f, reg, inj, SourceDone(c, tags))
<1>. DEFINE d == SourceDone(c, tags)
<1>1. CheckIsTyped(image, c) /\ c \in DiscoveryChecks
  BY DEF CheckIsWell, CheckIsTyped
<1>2. CheckIsTyped(image, d)
  BY <1>1, DoneIsTyped
<1>3. d.current = c.current /\ d.steady = c.steady /\ d.at = "source"
  BY <1>1, DoneFields DEF SameBut
<1>4. c.steady => ListFacts(image, reg, inj, d)
  BY <1>1, DoneListFacts
<1>5. c.steady => ProbeFacts(image, reg, d)
  BY <1>1, DoneProbeFacts
<1>. HIDE DEF d
<1>6. SearchesAreFacts(reg, d)
  BY <1>3 DEF SearchesAreFacts
<1>7. CheckIsWell(image, f, reg, inj, d)
  BY <1>2, <1>3, <1>4, <1>5, <1>6, StepIsWell
<1> QED
  BY <1>7 DEF d

\* The registry is still to be asked after a source that is not the registry.
LEMMA RegistryIsAhead ==
  ASSUME NEW c, c \in DiscoveryChecks, c.todo # <<>>, c.todo[1] # "registry", "registry" \in ToSet(c.todo)
  PROVE  "registry" \in ToSet(Tail(c.todo))
BY CheckParts, TodoParts

-----------------------------------------------------------------------------
(* The steps of a check *)

\* Only the tags of forges are known before the registry is asked.
LEMMA ListedSources ==
  ASSUME NEW image, Listed(image), ~Merging(image)
  PROVE  Only(image.sources, "registry")
BY DEF Listed, Merging

\* The tags of a forge are not mistaken for tags of the registry.
LEMMA SkipIsWell ==
  ASSUME NEW image \in ValidPolicies, NEW f, NEW reg, NEW inj, NEW i \in inj, InjectedWell(image, i),
         NEW c, CheckIsWell(image, f, reg, inj, c), c.at = "source", ~Stop(image, c), c.todo[1] \in ForgeSources
  PROVE  CheckIsWell(image, f, reg, inj,
           SourceDone(c, IF Merging(image) THEN c.tags ELSE c.tags \o i.bySource[Source(image, c)]))
<1>1. CheckIsTyped(image, c) /\ c \in DiscoveryChecks /\ c.todo # <<>>
  BY DEF CheckIsWell, CheckIsTyped, Stop
<1>2. c.todo[1] # "registry" /\ c.todo[1] # "probe"
  BY DEF ForgeSources
<1>3. c.tags \in TagLists /\ c.todo \in SourceLists
  BY <1>1, CheckParts
<1>4. ~Probed(image, c.current)
  <2>1. Only(image.sources, "probe") => c.todo[1] = "probe"
    BY <1>1, SingleSource
  <2> QED
    BY <1>2, <2>1 DEF Probed
<1>5. CASE Merging(image)
  <2>1. c.steady /\ Listed(image) => ToSet(c.tags) \subseteq reg
    BY DEF CheckIsWell, ListFacts
  <2>2. c.steady /\ Listed(image) => "registry" \in ToSet(c.todo) \/ reg \subseteq ToSet(c.tags)
    BY DEF CheckIsWell, ListFacts
  <2>3. c.steady /\ Listed(image) => "registry" \in ToSet(Tail(c.todo)) \/ reg \subseteq ToSet(c.tags)
    BY <1>1, <1>2, <2>2, RegistryIsAhead
  <2>4. CheckIsWell(image, f, reg, inj, SourceDone(c, c.tags))
    BY <1>1, <1>3, <1>4, <2>1, <2>3, DoneIsWell
  <2> QED
    BY <1>5, <2>4
<1>6. CASE ~Merging(image)
  <2>. DEFINE n == Source(image, c)
  <2>1. ~Listed(image)
    <3>1. Only(image.sources, "registry") => c.todo[1] = "registry"
      BY <1>1, SingleSource
    <3> QED
      BY <1>2, <1>6, <3>1, ListedSources
  <2>2. ~Only(image.sources, "auto")
    BY <1>6 DEF Merging
  <2>3. Len(c.todo) <= Len(image.sources) /\ Len(c.todo) >= 1 /\ Len(c.todo) \in Nat
    BY <1>1, <1>3, <2>2, PolicySources, TodoParts DEF CheckIsTyped
  <2>4. Len(image.sources) \in Nat /\ DOMAIN image.sources = 1..Len(image.sources)
    BY PolicySources, LenProperties DEF SourceLists
  <2>5. n \in DOMAIN image.sources
    <3>. DEFINE a == Len(image.sources)
    <3>. DEFINE b == Len(c.todo)
    <3>1. a \in Nat /\ b \in Nat /\ b <= a /\ b >= 1 /\ n = a - b + 1
      BY <2>3, <2>4 DEF Source
    <3>. HIDE DEF a, b, n
    <3>2. n \in 1..a
      BY <3>1
    <3> QED
      BY <2>4, <3>2 DEF a
  <2>6. i.bySource[n] \in TagLists
    BY <1>6, <2>5 DEF InjectedWell
  <2>. HIDE DEF n
  <2>7. c.tags \o i.bySource[n] \in TagLists
    BY <1>3, <2>6, SetOfConcat DEF TagLists
  <2>8. CheckIsWell(image, f, reg, inj, SourceDone(c, c.tags \o i.bySource[n]))
    BY <1>1, <1>4, <2>1, <2>7, DoneIsWell
  <2> QED
    BY <1>6, <2>8 DEF n
<1> QED
  BY <1>5, <1>6

\* Where the tag is no semantic version, a probe is passed over.
LEMMA PassIsWell ==
  ASSUME NEW image \in ValidPolicies, NEW f, NEW reg, NEW inj, NEW c, CheckIsWell(image, f, reg, inj, c),
         c.at = "source", ~Stop(image, c), c.todo[1] = "probe",
         ~(image.filter = "semver" /\ IsVersion(c.current))
  PROVE  CheckIsWell(image, f, reg, inj, SourceDone(c, c.tags))
<1>1. CheckIsTyped(image, c) /\ c \in DiscoveryChecks /\ c.todo # <<>>
  BY DEF CheckIsWell, CheckIsTyped, Stop
<1>2. c.tags \in TagLists
  BY <1>1, CheckParts
<1>3. ~Probed(image, c.current)
  BY DEF Probed
<1>4. c.steady /\ Listed(image) => ToSet(c.tags) \subseteq reg
  BY DEF CheckIsWell, ListFacts
<1>5. c.steady /\ Listed(image) => "registry" \in ToSet(c.todo) \/ reg \subseteq ToSet(c.tags)
  BY DEF CheckIsWell, ListFacts
<1>6. c.steady /\ Listed(image) => "registry" \in ToSet(Tail(c.todo)) \/ reg \subseteq ToSet(c.tags)
  BY <1>1, <1>5, RegistryIsAhead
<1> QED
  BY <1>1, <1>2, <1>3, <1>4, <1>6, DoneIsWell

\* A listing begins with nothing read.
LEMMA ListStartIsWell ==
  ASSUME NEW image \in ValidPolicies, NEW f, NEW reg, NEW inj, NEW c, CheckIsWell(image, f, reg, inj, c),
         c.at = "source", ~Stop(image, c), c.todo[1] = "registry"
  PROVE  CheckIsWell(image, f, reg, inj, [c EXCEPT !.at = "list", !.last = {}])
<1>. DEFINE d == [c EXCEPT !.at = "list", !.last = {}]
<1>1. CheckIsTyped(image, c) /\ c \in DiscoveryChecks /\ c.todo # <<>>
  BY DEF CheckIsWell, CheckIsTyped, Stop
<1>2. d \in DiscoveryChecks /\ d.at = "list" /\ d.last = {} /\ SameBut(c, d, {"at", "last"})
  BY <1>1, ListFields
<1>. HIDE DEF d
<1>3. d.current = c.current /\ d.steady = c.steady /\ d.todo = c.todo /\ d.tags = c.tags
  BY <1>2 DEF SameBut
<1>4. CheckIsTyped(image, d)
  BY <1>1, <1>2, <1>3 DEF CheckIsTyped
<1>5. c.steady => ListFacts(image, reg, inj, d)
  BY <1>2, <1>3 DEF CheckIsWell, ListFacts
<1>6. SearchesAreFacts(reg, d) /\ ProbeFacts(image, reg, d)
  BY <1>2 DEF SearchesAreFacts, ProbeFacts
<1>7. CheckIsWell(image, f, reg, inj, d)
  BY <1>3, <1>4, <1>5, <1>6, StepIsWell
<1> QED
  BY <1>7 DEF d

\* A probe begins with the first search.
LEMMA ProbeStartIsWell ==
  ASSUME NEW image \in ValidPolicies, NEW f, NEW reg, NEW inj, NEW c, CheckIsWell(image, f, reg, inj, c),
         c.at = "source", ~Stop(image, c), c.todo[1] = "probe", image.filter = "semver", IsVersion(c.current)
  PROVE  CheckIsWell(image, f, reg, inj,
           [c EXCEPT !.at = "probe", !.best = <<>>, !.search = FirstSearch(image, c.current)])
<1>. DEFINE searches == FirstSearch(image, c.current)
<1>. DEFINE d == [c EXCEPT !.at = "probe", !.best = <<>>, !.search = searches]
<1>1. CheckIsTyped(image, c) /\ c \in DiscoveryChecks /\ c.todo # <<>>
  BY DEF CheckIsWell, CheckIsTyped, Stop
<1>2. c.current \in Versions
  BY <1>1, CheckParts, DiscoveryAssumption DEF IsVersion
<1>3. \A p \in searches : SearchTyped(p) /\ p.mode \in LiveModes /\ SearchFacts(reg, p)
  BY <1>2, FirstSearchesAreStarted, StartedFacts
<1>4. SearchedWell(image, reg, c.current, <<>>, searches)
  BY FirstStart
<1>. HIDE DEF searches
<1>5. searches \in SUBSET SearchRows
  BY <1>3 DEF SearchTyped
<1>6. d \in DiscoveryChecks /\ d.at = "probe" /\ d.best = <<>> /\ d.search = searches /\ SameBut(c, d, {"at", "best", "search"})
  BY <1>1, <1>5, ProbeFields
<1>. HIDE DEF d
<1>7. d.current = c.current /\ d.steady = c.steady /\ d.todo = c.todo /\ d.tags = c.tags
  BY <1>6 DEF SameBut
<1>8. CheckIsTyped(image, d)
  BY <1>1, <1>2, <1>3, <1>6, <1>7 DEF CheckIsTyped
<1>9. c.steady => ListFacts(image, reg, inj, d)
  BY <1>6, <1>7 DEF CheckIsWell, ListFacts
<1>10. SearchesAreFacts(reg, d)
  BY <1>3, <1>6 DEF SearchesAreFacts
<1>11. c.steady => ProbeFacts(image, reg, d)
  <2>1. c.steady /\ Probed(image, c.current) /\ WithoutGaps(reg) => c.tags = <<>>
    BY <1>1 DEF CheckIsWell, ProbeFacts
  <2> QED
    BY <1>4, <1>6, <1>7, <2>1 DEF ProbeFacts
<1>12. CheckIsWell(image, f, reg, inj, d)
  BY <1>7, <1>8, <1>9, <1>10, <1>11, StepIsWell
<1> QED
  BY <1>12 DEF d, searches

\* One request of a probe.
LEMMA ProbeIsWell ==
  ASSUME NEW image \in ValidPolicies, NEW f, NEW reg \in SUBSET Versions, NEW inj, NEW c, CheckIsWell(image, f, reg, inj, c),
         c.at = "probe", NEW p \in c.search
  PROVE  LET q == probeContiguousSemverComponent(p, ProbedTag(p) \in reg)
             over == q.mode \in {"found", "none"}
         IN  CheckIsWell(image, f, reg, inj,
               [c EXCEPT !.search = IF over THEN NextSearch(image, q, c.current) ELSE {q}, !.best = Better(c.best, q)])
<1>. DEFINE q == probeContiguousSemverComponent(p, ProbedTag(p) \in reg)
<1>. DEFINE over == q.mode \in {"found", "none"}
<1>. DEFINE searches == IF over THEN NextSearch(image, q, c.current) ELSE {q}
<1>. DEFINE best == Better(c.best, q)
<1>. DEFINE d == [c EXCEPT !.search = searches, !.best = best]
<1>1. CheckIsTyped(image, c) /\ c \in DiscoveryChecks /\ c.todo # <<>> /\ c.current \in Versions
  BY DEF CheckIsWell, CheckIsTyped
<1>2. SearchTyped(p) /\ p.mode \in LiveModes
  BY <1>1 DEF CheckIsTyped
<1>3. SearchTyped(q) /\ q \in SearchRows /\ q.mode \in LiveModes \cup {"found", "none"}
  <2>. DEFINE exists == ProbedTag(p) \in reg
  <2>a. exists \in BOOLEAN
    OBVIOUS
  <2>. HIDE DEF exists
  <2>b. SearchTyped(probeContiguousSemverComponent(p, exists))
    BY <1>2, <2>a, AnswerIsTyped
  <2>1. SearchTyped(q)
    BY <2>b DEF exists
  <2>. HIDE DEF q
  <2>2. q \in SearchRows
    BY <2>1 DEF SearchTyped
  <2>3. q.mode \in LiveModes \cup {"found", "none"}
    BY <2>2 DEF SearchRows
  <2> QED
    BY <2>1, <2>2, <2>3
<1>4. c.steady => SearchFacts(reg, p)
  BY DEF CheckIsWell, SearchesAreFacts
<1>5. c.steady => SearchFacts(reg, q)
  BY <1>2, <1>4, AnswerKeepsFacts
<1>6. ASSUME c.steady, Probed(image, c.current), WithoutGaps(reg)
      PROVE  c.tags = <<>> /\ SearchedWell(image, reg, c.current, best, searches)
  <2>1. c.tags = <<>> /\ SearchedWell(image, reg, c.current, c.best, c.search)
    BY <1>6 DEF CheckIsWell, ProbeFacts
  <2>2. SearchedWell(image, reg, c.current, c.best, {p})
    BY <2>1 DEF SearchedWell
  <2>3. c.current[4] = 1
    BY <1>6 DEF Probed
  <2>4. /\ over => SearchedWell(image, reg, c.current, best, NextSearch(image, q, c.current))
        /\ ~over => SearchedWell(image, reg, c.current, best, {q})
    BY <1>1, <1>2, <1>4, <1>6, <2>2, <2>3, AnswerIsWell
  <2> QED
    BY <2>1, <2>4
<1>. HIDE DEF q
<1>7. \A s \in searches : SearchTyped(s) /\ s.mode \in LiveModes /\ (c.steady => SearchFacts(reg, s))
  <2>1. CASE over
    <3>1. \A s \in NextSearch(image, q, c.current) : Started(s)
      BY <1>1, <1>3, NextIsStarted
    <3> QED
      BY <2>1, <3>1, StartedFacts
  <2>2. CASE ~over
    BY <1>3, <1>5, <2>2
  <2> QED
    BY <2>1, <2>2
<1>8. best \in BestTags
  BY <1>1, <1>3, CheckParts, BetterIsTyped DEF BestTags
<1>9. c.steady => best = <<>> \/ best \in reg
  <2>1. c.steady => c.best = <<>> \/ c.best \in reg
    BY DEF CheckIsWell, SearchesAreFacts
  <2> QED
    BY <1>5, <2>1, BetterIsThere
<1>. HIDE DEF searches, best
<1>10. searches \in SUBSET SearchRows
  BY <1>7 DEF SearchTyped
<1>11. d \in DiscoveryChecks /\ d.best = best /\ d.search = searches /\ SameBut(c, d, {"best", "search"})
  BY <1>1, <1>8, <1>10, AnsweredFields
<1>. HIDE DEF d
<1>12. /\ d.current = c.current /\ d.steady = c.steady /\ d.todo = c.todo /\ d.tags = c.tags
       /\ d.at = "probe"
  BY <1>11 DEF SameBut
<1>13. CheckIsTyped(image, d)
  BY <1>1, <1>7, <1>11, <1>12 DEF CheckIsTyped
<1>14. c.steady => ListFacts(image, reg, inj, d)
  BY <1>12 DEF CheckIsWell, ListFacts
<1>15. c.steady => SearchesAreFacts(reg, d)
  BY <1>7, <1>9, <1>11, <1>12 DEF SearchesAreFacts
<1>16. c.steady => ProbeFacts(image, reg, d)
  BY <1>6, <1>11, <1>12 DEF ProbeFacts
<1>17. CheckIsWell(image, f, reg, inj, d)
  BY <1>12, <1>13, <1>14, <1>15, <1>16, StepIsWell
<1> QED
  BY <1>17 DEF d, searches, best, q

\* A probe hands over its best tag.
LEMMA ProbeEndIsWell ==
  ASSUME NEW image \in ValidPolicies, NEW f, NEW reg, NEW inj, NEW c, CheckIsWell(image, f, reg, inj, c),
         c.at = "probe", c.search = {}
  PROVE  CheckIsWell(image, f, reg, inj, SourceDone(c, IF c.best = <<>> THEN c.tags ELSE Append(c.tags, c.best)))
<1>. DEFINE tags == IF c.best = <<>> THEN c.tags ELSE Append(c.tags, c.best)
<1>1. CheckIsTyped(image, c) /\ c \in DiscoveryChecks /\ c.todo # <<>> /\ c.todo[1] = "probe"
  BY DEF CheckIsWell, CheckIsTyped
<1>2. c.tags \in Seq(Versions) /\ c.best \in Versions \cup {<<>>}
  BY <1>1, CheckParts DEF TagLists, BestTags
<1>3. /\ tags \in TagLists /\ ToSet(c.tags) \subseteq ToSet(tags)
      /\ \A t \in ToSet(tags) : t \in ToSet(c.tags) \/ (c.best # <<>> /\ t = c.best)
  <2>1. CASE c.best = <<>>
    <3>1. tags = c.tags
      BY <2>1
    <3>. HIDE DEF tags
    <3> QED
      BY <1>2, <3>1 DEF TagLists
  <2>2. CASE c.best # <<>>
    <3>1. c.best \in Versions
      BY <1>2, <2>2
    <3>2. tags = Append(c.tags, c.best)
      BY <2>2
    <3>3. tags \in Seq(Versions) /\ ToSet(tags) = ToSet(c.tags) \cup {c.best}
      BY <1>2, <3>1, <3>2, SetOfAppend
    <3>. HIDE DEF tags
    <3> QED
      BY <2>2, <3>3 DEF TagLists
  <2> QED
    BY <2>1, <2>2
<1>4. ASSUME c.steady, Listed(image)
      PROVE  /\ ToSet(tags) \subseteq reg
             /\ "registry" \in ToSet(Tail(c.todo)) \/ reg \subseteq ToSet(tags)
  <2>1. /\ ToSet(c.tags) \subseteq reg
        /\ "registry" \in ToSet(c.todo) \/ reg \subseteq ToSet(c.tags)
        /\ c.best = <<>> \/ c.best \in reg
    BY <1>4 DEF CheckIsWell, ListFacts, SearchesAreFacts
  <2>2. "registry" \in ToSet(c.todo) => "registry" \in ToSet(Tail(c.todo))
    BY <1>1, RegistryIsAhead
  <2>. HIDE DEF tags
  <2> QED
    BY <1>3, <2>1, <2>2
<1>5. ASSUME c.steady, Probed(image, c.current), WithoutGaps(reg)
      PROVE  /\ Len(tags) <= 1
             /\ Top(IF tags = <<>> THEN <<>> ELSE tags[1], Target(image, reg, c.current, Kinds))
  <2>1. c.tags = <<>> /\ SearchedWell(image, reg, c.current, c.best, c.search)
    BY <1>5 DEF CheckIsWell, ProbeFacts
  <2>2. Top(c.best, Target(image, reg, c.current, Kinds))
    BY <2>1 DEF SearchedWell
  <2>3. CASE c.best = <<>>
    <3>1. tags = <<>>
      BY <2>1, <2>3
    <3>. HIDE DEF tags
    <3>2. Len(tags) <= 1
      BY <3>1
    <3> QED
      BY <2>2, <2>3, <3>1, <3>2
  <2>4. CASE c.best # <<>>
    <3>. DEFINE b == c.best
    <3>0. tags = Append(<<>>, b)
      BY <2>1, <2>4
    <3>. HIDE DEF tags, b
    <3>1. tags = <<b>>
      BY <3>0
    <3>2. tags # <<>> /\ tags[1] = c.best /\ Len(tags) = 1
      BY <3>1 DEF b
    <3> QED
      BY <2>2, <3>2
  <2> QED
    BY <2>3, <2>4
<1>. HIDE DEF tags
<1>6. CheckIsWell(image, f, reg, inj, SourceDone(c, tags))
  BY <1>1, <1>3, <1>4, <1>5, DoneIsWell
<1> QED
  BY <1>6 DEF tags

-----------------------------------------------------------------------------
(* Pages of the registry *)

\* What is left to list, in order.
Left(reg, last) == {t \in reg : \A l \in last : Lower(l, t)}

\* The registry's order, from a tag on.
LEMMA RestIsSorted ==
  ASSUME NEW reg \in SUBSET Versions, IsFiniteSet(reg), NEW last
  PROVE  LET left == Left(reg, last)
             rest == Ascending(left)
         IN  /\ rest \in TagLists /\ ToSet(rest) = left
             /\ \A m, n \in 1..Len(rest) : m < n => Lower(rest[m], rest[n])
             /\ \A n \in 1..Len(rest) : rest[n] \in left
<1>. DEFINE left == Left(reg, last)
<1>1. left \in SUBSET reg
  BY DEF Left
<1>. HIDE DEF left
<1>2. left \in SUBSET Versions /\ IsFiniteSet(left)
  BY <1>1, FS_Subset
<1>. DEFINE rest == Ascending(left)
<1>3. /\ rest \in Seq(left) /\ \A t \in left : \E n \in 1..Len(rest) : rest[n] = t
      /\ \A m, n \in 1..Len(rest) : m < n => Lower(rest[m], rest[n])
  BY <1>2, AscendingIsSorted
<1>. HIDE DEF rest
<1>4. Len(rest) \in Nat /\ \A n \in 1..Len(rest) : rest[n] \in left
  BY <1>3, LenProperties, ElementOfSeq
<1>5. ToSet(rest) = {rest[n] : n \in 1..Len(rest)}
  BY <1>3, SetOfSeq
<1>6. ToSet(rest) = left
  BY <1>3, <1>4, <1>5
<1>7. rest \in Seq(Versions)
  <2>1. rest \in [1..Len(rest) -> left]
    BY <1>3, LenProperties
  <2>2. rest \in [1..Len(rest) -> Versions]
    BY <1>2, <2>1
  <2> QED
    BY <1>4, <2>2, SeqDef
<1> QED
  BY <1>3, <1>4, <1>6, <1>7 DEF left, rest, TagLists

\* A page moves the mark to its last tag, and what lies before it is read.
LEMMA PageIsWell ==
  ASSUME NEW image \in ValidPolicies, NEW f, NEW reg \in SUBSET Versions, IsFiniteSet(reg), NEW inj,
         NEW c, CheckIsWell(image, f, reg, inj, c), c.at = "list"
  PROVE  LET rest == Ascending(Left(reg, c.last))
         IN  Len(rest) > TagsPageSize =>
               CheckIsWell(image, f, reg, inj,
                 [c EXCEPT !.tags = c.tags \o SubSeq(rest, 1, TagsPageSize), !.last = {rest[TagsPageSize]}])
<1>. DEFINE left == Left(reg, c.last)
<1>. DEFINE rest == Ascending(left)
<1>. DEFINE N == TagsPageSize
<1>. DEFINE page == SubSeq(rest, 1, N)
<1>. DEFINE tags == c.tags \o page
<1>. DEFINE last == {rest[N]}
<1>. SUFFICES ASSUME Len(rest) > N PROVE CheckIsWell(image, f, reg, inj, [c EXCEPT !.tags = tags, !.last = last])
  OBVIOUS
<1>1. CheckIsTyped(image, c) /\ c \in DiscoveryChecks /\ c.todo # <<>> /\ c.todo[1] = "registry"
  BY DEF CheckIsWell, CheckIsTyped
<1>2. c.tags \in TagLists
  BY <1>1, CheckParts
<1>3. /\ rest \in TagLists /\ ToSet(rest) = left
      /\ \A m, n \in 1..Len(rest) : m < n => Lower(rest[m], rest[n])
      /\ \A n \in 1..Len(rest) : rest[n] \in left
  BY RestIsSorted
<1>4. \A t \in reg : (\A l \in c.last : Lower(l, t)) => t \in left
  BY DEF Left
<1>5. left \subseteq reg
  BY DEF Left
<1>6. N \in Nat /\ N >= 1 /\ N \in Int
  BY DiscoveryAssumption
<1>. HIDE DEF left, rest, N
<1>7. Len(rest) \in Nat /\ N \in 1..Len(rest) /\ \A n \in 1..N : n \in 1..Len(rest) /\ rest[n] \in Versions
  BY <1>3, <1>5, <1>6, LenProperties DEF TagLists
<1>8. page \in Seq(Versions) /\ Len(page) = N /\ \A n \in 1..N : page[n] = rest[n]
  <2>1. \A n \in 1..N : rest[n] \in Versions
    BY <1>7
  <2>2. /\ page \in Seq(Versions) /\ Len(page) = IF 1 <= N THEN N - 1 + 1 ELSE 0
        /\ \A n \in 1..N - 1 + 1 : page[n] = rest[1 + n - 1]
    BY <1>6, <2>1, SubSeqProperties
  <2>. HIDE DEF page
  <2> QED
    BY <1>6, <2>2
<1>. HIDE DEF page
<1>9. ToSet(page) = {rest[n] : n \in 1..N}
  <2>1. ToSet(page) = {page[n] : n \in 1..Len(page)}
    BY <1>8, SetOfSeq
  <2> QED
    BY <1>8, <2>1
<1>10. tags \in TagLists /\ ToSet(tags) = ToSet(c.tags) \cup ToSet(page)
  BY <1>2, <1>8, SetOfConcat DEF TagLists
<1>11. last \in SUBSET Versions
  BY <1>7
<1>. HIDE DEF tags
<1>. DEFINE d == [c EXCEPT !.tags = tags, !.last = last]
<1>12. d \in DiscoveryChecks /\ d.tags = tags /\ d.last = last /\ SameBut(c, d, {"tags", "last"})
  BY <1>1, <1>10, <1>11, PageFields
<1>. HIDE DEF d
<1>13. d.current = c.current /\ d.steady = c.steady /\ d.todo = c.todo /\ d.at = "list"
  BY <1>12 DEF SameBut
<1>14. CheckIsTyped(image, d)
  BY <1>1, <1>12, <1>13 DEF CheckIsTyped
<1>15. ASSUME c.steady, Listed(image)
       PROVE  /\ ToSet(tags) \subseteq reg
              /\ \A t \in reg : t \in ToSet(tags) \/ \A l \in last : Lower(l, t)
  <2>1. ToSet(c.tags) \subseteq reg /\ \A t \in reg : t \in ToSet(c.tags) \/ \A l \in c.last : Lower(l, t)
    BY <1>15 DEF CheckIsWell, ListFacts
  <2>2. ToSet(page) \subseteq reg
    BY <1>3, <1>5, <1>7, <1>9
  <2>3. ASSUME NEW t \in reg, t \notin ToSet(tags) PROVE Lower(rest[N], t)
    <3>1. t \in left
      BY <1>4, <1>10, <2>1, <2>3
    <3>2. PICK n \in 1..Len(rest) : rest[n] = t
      BY <1>3, <3>1, SetOfSeq DEF TagLists
    <3>3. n \notin 1..N
      BY <1>9, <1>10, <2>3, <3>2
    <3>4. N < n
      BY <1>6, <1>7, <3>3
    <3> QED
      BY <1>3, <1>7, <3>2, <3>4
  <2> QED
    BY <1>10, <2>1, <2>2, <2>3
<1>16. c.steady => ListFacts(image, reg, inj, d)
  BY <1>12, <1>13, <1>15 DEF ListFacts
<1>17. SearchesAreFacts(reg, d) /\ ProbeFacts(image, reg, d)
  BY <1>13 DEF SearchesAreFacts, ProbeFacts
<1>18. CheckIsWell(image, f, reg, inj, d)
  BY <1>13, <1>14, <1>16, <1>17, StepIsWell
<1> QED
  BY <1>18 DEF d

\* The last page leaves nothing unread.
LEMMA LastPageIsWell ==
  ASSUME NEW image \in ValidPolicies, NEW f, NEW reg \in SUBSET Versions, IsFiniteSet(reg), NEW inj,
         NEW c, CheckIsWell(image, f, reg, inj, c), c.at = "list"
  PROVE  CheckIsWell(image, f, reg, inj,
           SourceDone(c, c.tags \o Ascending(Left(reg, c.last))))
<1>. DEFINE left == Left(reg, c.last)
<1>. DEFINE rest == Ascending(left)
<1>. DEFINE tags == c.tags \o rest
<1>1. CheckIsTyped(image, c) /\ c \in DiscoveryChecks /\ c.todo # <<>> /\ c.todo[1] = "registry"
  BY DEF CheckIsWell, CheckIsTyped
<1>2. c.tags \in TagLists
  BY <1>1, CheckParts
<1>3. rest \in TagLists /\ ToSet(rest) = left
  BY RestIsSorted
<1>4. left \subseteq reg /\ \A t \in reg : (\A l \in c.last : Lower(l, t)) => t \in left
  BY DEF Left
<1>. HIDE DEF left, rest
<1>5. tags \in TagLists /\ ToSet(tags) = ToSet(c.tags) \cup left
  BY <1>2, <1>3, SetOfConcat DEF TagLists
<1>. HIDE DEF tags
<1>6. ASSUME c.steady, Listed(image) PROVE ToSet(tags) \subseteq reg /\ reg \subseteq ToSet(tags)
  <2>1. ToSet(c.tags) \subseteq reg /\ \A t \in reg : t \in ToSet(c.tags) \/ \A l \in c.last : Lower(l, t)
    BY <1>6 DEF CheckIsWell, ListFacts
  <2> QED
    BY <1>4, <1>5, <2>1
<1>7. ~Probed(image, c.current)
  <2>1. Only(image.sources, "probe") => c.todo[1] = "probe"
    BY <1>1, SingleSource
  <2> QED
    BY <1>1, <2>1 DEF Probed
<1>8. CheckIsWell(image, f, reg, inj, SourceDone(c, tags))
  BY <1>1, <1>5, <1>6, <1>7, DoneIsWell
<1> QED
  BY <1>8 DEF tags, rest, left

-----------------------------------------------------------------------------
(* The choice among the tags found *)

\* mergeImageUpdateTags loses no tag.
LEMMA AllTagsFound ==
  ASSUME NEW image \in ValidPolicies, NEW i, InjectedWell(image, i), NEW c, CheckIsTyped(image, c)
  PROVE  /\ AllTags(c, i) \in Seq(Versions)
         /\ ToSet(AllTags(c, i)) = ToSet(i.merged) \cup ToSet(c.tags)
         /\ Only(image.sources, "probe") => AllTags(c, i) = c.tags
<1>1. i.merged \in Seq(Versions) /\ c.tags \in Seq(Versions) /\ (Only(image.sources, "probe") => i.merged = <<>>)
  BY CheckParts DEF InjectedWell, CheckIsTyped, TagLists
<1>2. CASE i.merged = <<>>
  <2>1. AllTags(c, i) = c.tags
    BY <1>2 DEF AllTags
  <2>2. ToSet(i.merged) = {}
    BY <1>1, <1>2, SetOfSeq
  <2> QED
    BY <1>1, <2>1, <2>2
<1>3. CASE i.merged # <<>>
  <2>1. AllTags(c, i) = i.merged \o c.tags
    BY <1>3 DEF AllTags
  <2>. DEFINE m == i.merged
  <2>. DEFINE s == c.tags
  <2>2. m \in Seq(Versions) /\ s \in Seq(Versions) /\ AllTags(c, i) = m \o s
    BY <1>1, <2>1
  <2>3. ~Only(image.sources, "probe")
    BY <1>1, <1>3
  <2>. HIDE DEF m, s
  <2>4. m \o s \in Seq(Versions) /\ ToSet(m \o s) = ToSet(m) \cup ToSet(s)
    BY <2>2, SetOfConcat
  <2> QED
    BY <2>2, <2>3, <2>4 DEF m, s
<1> QED
  BY <1>2, <1>3

\* Of a registry that held still everything is listed at the end,
LEMMA StoppedList ==
  ASSUME NEW image \in ValidPolicies, NEW f, NEW reg, NEW inj, NEW i, inj = {i}, InjectedWell(image, i),
         NEW c, CheckIsWell(image, f, reg, inj, c), c.at = "source", Stop(image, c), c.steady, Listed(image)
  PROVE  ToSet(AllTags(c, i)) = reg \cup InjectedMerged(inj)
<1>1. CheckIsTyped(image, c)
  BY DEF CheckIsWell
<1>2. ToSet(AllTags(c, i)) = ToSet(i.merged) \cup ToSet(c.tags)
  BY <1>1, AllTagsFound
<1>3. InjectedMerged(inj) = ToSet(i.merged)
  BY DEF InjectedMerged
<1>4. /\ ToSet(c.tags) \subseteq reg
      /\ "registry" \in ToSet(c.todo) \/ reg \subseteq ToSet(c.tags)
      /\ Only(image.sources, "registry") /\ c.todo # <<>> => c.tags = <<>>
  BY DEF CheckIsWell, ListFacts
<1>5. c.todo = <<>>
  BY <1>4, ListedSources DEF Stop
<1>6. "registry" \notin ToSet(c.todo)
  <2>1. ToSet(c.todo) = {}
    BY <1>1, <1>5, CheckParts, SetOfSeq DEF CheckIsTyped, SourceLists
  <2> QED
    BY <2>1
<1> QED
  BY <1>2, <1>3, <1>4, <1>6

\* or, without gaps, the best release is probed.
LEMMA StoppedProbe ==
  ASSUME NEW image \in ValidPolicies, NEW f, NEW reg, NEW inj, NEW i, InjectedWell(image, i),
         NEW c, CheckIsWell(image, f, reg, inj, c), c.at = "source", Stop(image, c), c.steady,
         Probed(image, c.current), WithoutGaps(reg)
  PROVE  LET admitted == Admitted(image, c.current, ToSet(AllTags(c, i)))
             found == NewReleases(image, c.current, reg)
         IN  \/ admitted = {} /\ found = {}
             \/ \E best : admitted = {best} /\ Highest(best, found)
<1>. DEFINE found == NewReleases(image, c.current, reg)
<1>. DEFINE tags == c.tags
<1>1. /\ CheckIsTyped(image, c) /\ Only(image.sources, "probe") /\ image.filter = "semver" /\ IsVersion(c.current)
      /\ tags \in Seq(Versions)
  BY CheckParts DEF CheckIsWell, Probed, CheckIsTyped, TagLists
<1>2. AllTags(c, i) = tags
  BY <1>1, AllTagsFound
<1>3. found = Target(image, reg, c.current, Kinds)
  BY <1>1, TargetIsNewReleases
<1>4. ProbeFacts(image, reg, c)
  BY DEF CheckIsWell
<1>5. c.todo = <<>>
  BY <1>4 DEF Stop, ProbeFacts
<1>6. Len(tags) <= 1 /\ Top(IF tags = <<>> THEN <<>> ELSE tags[1], found)
  BY <1>3, <1>4, <1>5 DEF ProbeFacts
<1>7. \A t \in found : t \in Admitted(image, c.current, reg)
  BY DEF NewReleases
<1>8. \A t \in found : IsVersion(c.current) /\ Lower(c.current, t) /\ semverUpdateAllowed(image, c.current, t)
  BY <1>1, <1>7, AdmittedParts DEF Ordered
<1>. DEFINE all == ToSet(tags)
<1>. HIDE DEF found, tags
<1>9. CASE tags = <<>>
  <2>1. all = {}
    BY <1>1, <1>9, SetOfSeq
  <2>2. Admitted(image, c.current, all) = {}
    BY <2>1, AdmittedParts
  <2>3. found = {}
    BY <1>6, <1>9 DEF Top
  <2> QED
    BY <1>2, <2>2, <2>3 DEF found
<1>10. CASE tags # <<>>
  <2>. DEFINE b == tags[1]
  <2>1. Len(tags) = 1
    <3>1. Len(tags) \in Nat /\ (Len(tags) = 0 => tags = <<>>)
      BY <1>1, LenProperties, EmptySeq
    <3>2. Len(tags) # 0
      BY <1>10, <3>1
    <3>3. Len(tags) <= 1
      BY <1>6
    <3> QED
      BY <3>1, <3>2, <3>3
  <2>2. all = {b}
    <3>1. all = {tags[n] : n \in 1..Len(tags)}
      BY <1>1, SetOfSeq
    <3>2. 1..Len(tags) = {1}
      BY <2>1
    <3> QED
      BY <3>1, <3>2
  <2>3. b \in Versions
    <3>1. all \in SUBSET Versions
      BY <1>1, SetOfSeq
    <3> QED
      BY <2>2, <3>1
  <2>4. Top(b, found)
    BY <1>6, <1>10
  <2>. HIDE DEF b, all
  <2>5. b # <<>>
    BY <2>3, VersionParts
  <2>6. Highest(b, found) /\ b \in found
    BY <2>4, <2>5 DEF Top, Highest
  <2>7. Admitted(image, c.current, all) = {t \in all : IsVersion(c.current) /\ Lower(c.current, t) /\ semverUpdateAllowed(image, c.current, t)}
    BY <1>1 DEF Admitted
  <2>8. Admitted(image, c.current, all) = {b}
    BY <1>8, <2>2, <2>6, <2>7
  <2> QED
    BY <1>2, <2>6, <2>8 DEF found, all
<1> QED
  BY <1>9, <1>10

\* So the candidate is the best.
LEMMA ChoiceIsWell ==
  ASSUME NEW image \in ValidPolicies, NEW f, NEW reg, NEW inj, NEW i, inj = {i}, InjectedWell(image, i),
         NEW c, CheckIsWell(image, f, reg, inj, c), c.at = "source", Stop(image, c)
  PROVE  LET candidates == candidateImageTags(image, c.current, AllTags(c, i))
         IN  candidates # <<>> =>
               CheckIsWell(image, f, reg, inj, [c EXCEPT !.at = "inspect", !.best = candidates[1], !.tags = <<>>])
<1>. DEFINE tags == AllTags(c, i)
<1>. DEFINE candidates == candidateImageTags(image, c.current, tags)
<1>. DEFINE best == candidates[1]
<1>. DEFINE admitted == Admitted(image, c.current, ToSet(tags))
<1>. SUFFICES ASSUME candidates # <<>>
              PROVE  CheckIsWell(image, f, reg, inj, [c EXCEPT !.at = "inspect", !.best = best, !.tags = <<>>])
  OBVIOUS
<1>1. CheckIsTyped(image, c) /\ c \in DiscoveryChecks
  BY DEF CheckIsWell, CheckIsTyped
<1>2. tags \in Seq(Versions)
  BY <1>1, AllTagsFound
<1>3. best \in Versions /\ (Ordered(image) => Highest(best, admitted))
  BY <1>2, CandidatesAreBest
<1>4. Ordered(image) => \A t \in admitted : Lower(c.current, t)
  BY AdmittedParts
<1>5. image.filter = "semver" => Ordered(image) /\ \A t \in admitted : semverUpdateAllowed(image, c.current, t)
  BY AdmittedParts DEF Ordered
<1>6. c.steady /\ Listed(image) => ToSet(tags) = reg \cup InjectedMerged(inj)
  BY StoppedList
<1>7. ASSUME c.steady, Probed(image, c.current), WithoutGaps(reg)
      PROVE  Highest(best, NewReleases(image, c.current, reg))
  <2>. DEFINE found == NewReleases(image, c.current, reg)
  <2>0. \/ admitted = {} /\ found = {}
        \/ \E b : admitted = {b} /\ Highest(b, found)
    BY <1>7, StoppedProbe
  <2>. HIDE DEF found
  <2>1. \/ admitted = {}
        \/ \E b : admitted = {b} /\ Highest(b, found)
    BY <2>0
  <2>2. best \in admitted
    BY <1>3, <1>7 DEF Highest, Probed, Ordered
  <2>. HIDE DEF admitted, best
  <2>3. Highest(best, found)
    BY <2>1, <2>2
  <2> QED
    BY <2>3 DEF found
<1>. HIDE DEF best
<1>8. best \in BestTags
  BY <1>3 DEF BestTags
<1>. DEFINE d == [c EXCEPT !.at = "inspect", !.best = best, !.tags = <<>>]
<1>9. d \in DiscoveryChecks /\ d.at = "inspect" /\ d.best = best /\ SameBut(c, d, {"at", "best", "tags"})
  BY <1>1, <1>8, ChosenFields
<1>. HIDE DEF d
<1>10. d.current = c.current /\ d.steady = c.steady /\ d.todo = c.todo
  BY <1>9 DEF SameBut
<1>11. /\ Ordered(image) => Lower(c.current, best)
       /\ image.filter = "semver" => semverUpdateAllowed(image, c.current, best)
  BY <1>3, <1>4, <1>5 DEF Highest
<1>12. CheckIsTyped(image, d)
  BY <1>1, <1>9, <1>10, <1>11 DEF CheckIsTyped
<1>13. c.steady => ListFacts(image, reg, inj, d)
  <2>1. c.steady /\ Listed(image) /\ Ordered(image) =>
          Highest(best, Admitted(image, c.current, reg \cup InjectedMerged(inj)))
    BY <1>3, <1>6
  <2> QED
    BY <1>9, <1>10, <2>1 DEF ListFacts
<1>14. SearchesAreFacts(reg, d)
  BY <1>9 DEF SearchesAreFacts
<1>15. c.steady => ProbeFacts(image, reg, d)
  BY <1>7, <1>9, <1>10 DEF ProbeFacts
<1>16. CheckIsWell(image, f, reg, inj, d)
  BY <1>10, <1>12, <1>13, <1>14, <1>15, StepIsWell
<1> QED
  BY <1>16 DEF d

-----------------------------------------------------------------------------
(* Reports *)

ReportOf(current, steady, status, candidate, available, known, failed) ==
  [current |-> current, status |-> status, candidate |-> candidate, available |-> available,
   steady |-> steady, known |-> known, failed |-> failed]

LEMMA ReportParts ==
  ASSUME NEW current, NEW steady, NEW status, NEW candidate, NEW available, NEW known, NEW failed
  PROVE  LET r == ReportOf(current, steady, status, candidate, available, known, failed)
         IN  /\ r.current = current /\ r.status = status /\ r.candidate = candidate /\ r.available = available
             /\ r.steady = steady /\ r.known = known /\ r.failed = failed
BY DEF ReportOf

\* A report that announces nothing.
LEMMA QuietReport ==
  ASSUME NEW image, NEW f, NEW inj, NEW r, r.available = FALSE,
         LET exact == r.steady /\ ~r.failed /\ Ordered(image)
         IN  /\ exact /\ Listed(image) => Admitted(image, r.current, r.known \cup InjectedMerged(inj)) = {}
             /\ exact /\ Probed(image, r.current) /\ WithoutGaps(r.known) => NewReleases(image, r.current, r.known) = {},
         r.status = "error" => r.failed \/ NoCurrentValue(image, f) \/ r.candidate \notin r.known
  PROVE  ReportIsWell(image, f, inj, r)
BY DEF ReportIsWell, AnnouncedIsSound, ListIsExact, ProbeIsExact, FileIsReadBack

\* Each way a check can end leaves a report as the invariant wants it.
LEMMA MissingKeyReport ==
  ASSUME NEW image, NEW f, NEW inj, NEW reg, NoCurrentValue(image, f)
  PROVE  ReportIsWell(image, f, inj, ReportOf(<<>>, TRUE, "error", <<>>, FALSE, reg, FALSE))
<1>. DEFINE r == ReportOf(<<>>, TRUE, "error", <<>>, FALSE, reg, FALSE)
<1>1. r.available = FALSE /\ r.current = <<>>
  BY DEF ReportOf
<1>. HIDE DEF r
<1>2. ~IsVersion(r.current)
  BY <1>1 DEF IsVersion
<1>3. Ordered(image) => Admitted(image, r.current, r.known \cup InjectedMerged(inj)) = {}
  BY <1>2, AdmittedParts
<1>4. ~Probed(image, r.current)
  BY <1>2 DEF Probed
<1>5. ReportIsWell(image, f, inj, r)
  BY <1>1, <1>3, <1>4, QuietReport
<1> QED
  BY <1>5 DEF r

LEMMA FailedReport ==
  ASSUME NEW image, NEW f, NEW inj, NEW reg, NEW current, NEW steady
  PROVE  ReportIsWell(image, f, inj, ReportOf(current, steady, "error", <<>>, FALSE, reg, TRUE))
<1>. DEFINE r == ReportOf(current, steady, "error", <<>>, FALSE, reg, TRUE)
<1>1. r.available = FALSE /\ r.failed = TRUE
  BY DEF ReportOf
<1>. HIDE DEF r
<1>2. ReportIsWell(image, f, inj, r)
  BY <1>1, QuietReport
<1> QED
  BY <1>2 DEF r

LEMMA NothingFoundReport ==
  ASSUME NEW image \in ValidPolicies, NEW f, NEW reg, NEW inj, NEW i, inj = {i}, InjectedWell(image, i),
         NEW c, CheckIsWell(image, f, reg, inj, c), c.at = "source", Stop(image, c),
         candidateImageTags(image, c.current, AllTags(c, i)) = <<>>
  PROVE  ReportIsWell(image, f, inj, ReportOf(c.current, c.steady, "ok", <<>>, FALSE, reg, FALSE))
<1>. DEFINE r == ReportOf(c.current, c.steady, "ok", <<>>, FALSE, reg, FALSE)
<1>. DEFINE tags == AllTags(c, i)
<1>1. r.available = FALSE /\ r.current = c.current /\ r.steady = c.steady /\ r.status = "ok" /\ r.known = reg
  BY DEF ReportOf
<1>. HIDE DEF r
<1>2. tags \in Seq(Versions)
  BY AllTagsFound DEF CheckIsWell
<1>3. Ordered(image) => Admitted(image, c.current, ToSet(tags)) = {}
  BY <1>2, CandidatesAreBest
<1>4. c.steady /\ Listed(image) => ToSet(tags) = reg \cup InjectedMerged(inj)
  BY StoppedList
<1>5. ASSUME c.steady, Ordered(image), Probed(image, c.current), WithoutGaps(reg)
      PROVE  NewReleases(image, c.current, reg) = {}
  <2>. DEFINE found == NewReleases(image, c.current, reg)
  <2>. DEFINE admitted == Admitted(image, c.current, ToSet(tags))
  <2>0. \/ admitted = {} /\ found = {}
        \/ \E b : admitted = {b} /\ Highest(b, found)
    BY <1>5, StoppedProbe
  <2>. HIDE DEF found, admitted
  <2>1. found = {} \/ \E b : admitted = {b}
    BY <2>0
  <2>. USE DEF found, admitted
  <2> QED
    BY <1>3, <1>5, <2>1
<1>. HIDE DEF tags
<1>6. ReportIsWell(image, f, inj, r)
  BY <1>1, <1>3, <1>4, <1>5, QuietReport
<1> QED
  BY <1>6 DEF r

LEMMA InspectedReport ==
  ASSUME NEW image \in ValidPolicies, NEW f, NEW reg, NEW inj,
         NEW c, CheckIsWell(image, f, reg, inj, c), c.at \in {"inspect", "digest"}
  PROVE  LET chosen == IF c.at = "digest" THEN c.current ELSE c.best
         IN  ReportIsWell(image, f, inj,
               ReportOf(c.current, c.steady, IF chosen \in reg THEN "ok" ELSE "error", chosen,
                        c.at = "inspect" /\ chosen \in reg, reg, FALSE))
<1>1. CASE c.at = "digest"
  <2>. DEFINE chosen == c.current
  <2>. DEFINE status == IF chosen \in reg THEN "ok" ELSE "error"
  <2>. DEFINE r == ReportOf(c.current, c.steady, status, chosen, FALSE, reg, FALSE)
  <2>1. /\ r.available = FALSE /\ r.current = c.current /\ r.status = status /\ r.candidate = chosen
        /\ r.known = reg
    BY DEF ReportOf
  <2>. HIDE DEF r
  <2>2. r.status = "error" => r.candidate \notin r.known
    BY <2>1
  <2>3. Only(image.sources, "digest")
    BY <1>1 DEF CheckIsWell, CheckIsTyped
  <2>4. image.sources[1] = "digest" /\ image.sources \in SourceLists /\ Len(image.sources) = 1
    BY <2>3, PolicySources
  <2>5. ~Listed(image) /\ ~Probed(image, c.current)
    <3>1. "registry" \notin ToSet(image.sources)
      <4>1. ToSet(image.sources) = {image.sources[n] : n \in 1..1}
        BY <2>4, SetOfSeq DEF SourceLists
      <4> QED
        BY <2>4, <4>1
    <3>2. ~Only(image.sources, "auto") /\ ~Only(image.sources, "registry") /\ ~Only(image.sources, "probe")
      BY <2>3, OtherSource
    <3> QED
      BY <3>1, <3>2 DEF Listed, Probed
  <2>6. ReportIsWell(image, f, inj, r)
    BY <2>1, <2>2, <2>5, QuietReport
  <2> QED
    BY <1>1, <2>6 DEF r
<1>2. CASE c.at = "inspect"
  <2>. DEFINE chosen == c.best
  <2>. DEFINE status == IF chosen \in reg THEN "ok" ELSE "error"
  <2>. DEFINE there == chosen \in reg
  <2>. DEFINE r == ReportOf(c.current, c.steady, status, chosen, there, reg, FALSE)
  <2>1. /\ r.available = there /\ r.current = c.current /\ r.status = status /\ r.candidate = chosen
        /\ r.known = reg /\ r.failed = FALSE /\ r.steady = c.steady
    BY DEF ReportOf
  <2>. HIDE DEF r
  <2>2. /\ ~NoCurrentValue(image, f) /\ c.current = currentImageUpdateValue(image, f)[1]
        /\ Ordered(image) => Lower(c.current, chosen)
        /\ image.filter = "semver" => semverUpdateAllowed(image, c.current, chosen)
    BY <1>2 DEF CheckIsWell, CheckIsTyped
  <2>3. /\ c.steady /\ Listed(image) /\ Ordered(image) =>
             Highest(chosen, Admitted(image, c.current, reg \cup InjectedMerged(inj)))
        /\ c.steady /\ Probed(image, c.current) /\ WithoutGaps(reg) =>
             Highest(chosen, NewReleases(image, c.current, reg))
    BY <1>2 DEF CheckIsWell, ListFacts, ProbeFacts
  <2>4. AnnouncedIsSound(image, r)
    BY <2>1, <2>2 DEF AnnouncedIsSound
  <2>5. c.steady /\ Ordered(image) /\ Listed(image) => ListIsExact(image, inj, r)
    <3>. DEFINE all == Admitted(image, c.current, reg \cup InjectedMerged(inj))
    <3>. SUFFICES ASSUME c.steady, Ordered(image), Listed(image) PROVE ListIsExact(image, inj, r)
      OBVIOUS
    <3>1. Highest(chosen, all)
      BY <2>3
    <3>2. chosen \in all /\ all # {} /\ chosen \in reg \cup InjectedMerged(inj)
      BY <3>1, AdmittedParts DEF Highest
    <3>3. CASE chosen \in reg
      BY <2>1, <3>1, <3>2, <3>3 DEF ListIsExact
    <3>4. CASE chosen \notin reg
      <4>1. r.status = "error" /\ ~(InjectedMerged(inj) \subseteq r.known)
        BY <2>1, <3>2, <3>4
      <4> QED
        BY <2>1, <3>2, <4>1 DEF ListIsExact
    <3> QED
      BY <3>3, <3>4
  <2>6. c.steady /\ Probed(image, c.current) /\ WithoutGaps(reg) => ProbeIsExact(image, r)
    <3>. SUFFICES ASSUME c.steady, Probed(image, c.current), WithoutGaps(reg) PROVE ProbeIsExact(image, r)
      OBVIOUS
    <3>1. Highest(chosen, NewReleases(image, c.current, reg)) /\ chosen \in NewReleases(image, c.current, reg)
      BY <2>3 DEF Highest
    <3>2. chosen \in reg
      BY <3>1, AdmittedParts DEF NewReleases
    <3> QED
      BY <2>1, <3>1, <3>2 DEF ProbeIsExact
  <2>7. r.status = "error" => r.candidate \notin r.known
    BY <2>1
  <2>8. FileIsReadBack(image, f, r)
    BY <2>1, <2>2 DEF FileIsReadBack
  <2>9. ReportIsWell(image, f, inj, r)
    BY <2>1, <2>2, <2>4, <2>5, <2>6, <2>7, <2>8 DEF ReportIsWell
  <2>10. (c.at = "inspect" /\ chosen \in reg) = there
    BY <1>2
  <2> QED
    BY <1>2, <2>9, <2>10 DEF r
<1> QED
  BY <1>1, <1>2

-----------------------------------------------------------------------------
(* The controller's part and the first step of the check *)

\* The tags of the forges are kept whole or by source, as the policy combines them.
LEMMA CollectedIsWell ==
  ASSUME NEW image \in ValidPolicies, NEW pages \in Pages
  PROVE  InjectedWell(image, collectForgeCandidates(image, pages))
<1>. DEFINE tags == fetchForgeReleaseTags(image, pages)
<1>. DEFINE i == collectForgeCandidates(image, pages)
<1>1. tags \in TagLists /\ <<>> \in TagLists
  BY ForgeTagsAreVersions DEF TagLists
<1>. HIDE DEF tags
<1>2. CASE Only(image.sources, "auto")
  <2>1. i = [NoneInjected EXCEPT !.merged = IF AutoForge(image) THEN tags ELSE <<>>]
    BY <1>2 DEF collectForgeCandidates, tags
  <2>2. i.merged = IF AutoForge(image) THEN tags ELSE <<>>
    BY <2>1 DEF NoneInjected
  <2>3. Merging(image) /\ ~Only(image.sources, "probe")
    BY <1>2, OtherSource DEF Merging
  <2>. HIDE DEF i
  <2>4. i.merged \in TagLists
    BY <1>1, <2>2
  <2>5. InjectedWell(image, i)
    BY <2>3, <2>4 DEF InjectedWell
  <2> QED
    BY <2>5 DEF i
<1>3. CASE ~Only(image.sources, "auto") /\ image.combine = "merge"
  <2>. DEFINE asked == ToSet(image.sources) \cap ForgeSources # {}
  <2>1. i = [NoneInjected EXCEPT !.merged = IF asked THEN tags ELSE <<>>]
    BY <1>3 DEF collectForgeCandidates, tags
  <2>2. i.merged = IF asked THEN tags ELSE <<>>
    BY <2>1 DEF NoneInjected
  <2>3. Only(image.sources, "probe") => ~asked
    <3>. SUFFICES ASSUME Only(image.sources, "probe") PROVE ~asked
      OBVIOUS
    <3>1. image.sources[1] = "probe" /\ image.sources \in SourceLists /\ Len(image.sources) = 1
      BY PolicySources
    <3>2. ToSet(image.sources) = {image.sources[n] : n \in 1..1}
      BY <3>1, SetOfSeq DEF SourceLists
    <3> QED
      BY <3>1, <3>2 DEF ForgeSources
  <2>. HIDE DEF i, asked
  <2>4. i.merged \in TagLists /\ (Only(image.sources, "probe") => i.merged = <<>>)
    BY <1>1, <2>2, <2>3
  <2>5. InjectedWell(image, i)
    BY <1>3, <2>4 DEF InjectedWell, Merging
  <2> QED
    BY <2>5 DEF i
<1>4. CASE ~Only(image.sources, "auto") /\ image.combine # "merge"
  <2>. DEFINE bySource == [n \in DOMAIN image.sources |-> IF image.sources[n] \in ForgeSources THEN tags ELSE <<>>]
  <2>1. i = [NoneInjected EXCEPT !.bySource = bySource]
    BY <1>4 DEF collectForgeCandidates, tags
  <2>2. \A n \in DOMAIN image.sources : bySource[n] \in TagLists
    BY <1>1
  <2>. HIDE DEF bySource
  <2>3. i.bySource = bySource /\ i.merged = <<>>
    BY <2>1 DEF NoneInjected
  <2>. HIDE DEF i
  <2>4. InjectedWell(image, i)
    BY <1>1, <2>2, <2>3 DEF InjectedWell
  <2> QED
    BY <2>4 DEF i
<1> QED
  BY <1>2, <1>3, <1>4

\* The line both readers find.
LEMMA FirstLineIsThere ==
  ASSUME NEW f, DOMAIN f \subseteq Nat, LinesWithKey(f) # {}
  PROVE  FirstLine(f) \in LinesWithKey(f) /\ FirstLine(f) \in DOMAIN f /\ f[FirstLine(f)][1] = Key
<1>1. LinesWithKey(f) \in SUBSET Nat
  BY DEF LinesWithKey
<1>2. \E i \in LinesWithKey(f) : \A j \in LinesWithKey(f) : i <= j
  BY <1>1, LeastNat
<1>3. FirstLine(f) \in LinesWithKey(f)
  BY <1>2 DEF FirstLine
<1> QED
  BY <1>3 DEF LinesWithKey

\* A current value is one that a policy or the file declares.
LEMMA CurrentIsWritten ==
  ASSUME NEW image \in ValidPolicies, NEW f \in FirstFiles, ~NoCurrentValue(image, f)
  PROVE  currentImageUpdateValue(image, f)[1] \in WrittenValues
<1>1. image \in Policies /\ DOMAIN f \subseteq Nat
  BY DiscoveryAssumption DEF ValidPolicies
<1>2. CASE image.mode = "tag"
  <2>1. currentImageUpdateValue(image, f)[1] = image.tag
    BY <1>2 DEF currentImageUpdateValue
  <2>2. image.tag \in {p.tag : p \in Policies}
    BY <1>1
  <2> QED
    BY <2>1, <2>2 DEF WrittenValues
<1>3. CASE image.mode # "tag"
  <2>1. LinesWithKey(f) # {}
    BY <1>3 DEF NoCurrentValue
  <2>. DEFINE n == FirstLine(f)
  <2>2. n \in DOMAIN f
    BY <1>1, <2>1, FirstLineIsThere
  <2>3. currentImageUpdateValue(image, f)[1] = f[n][2][1]
    BY <1>3 DEF currentImageUpdateValue
  <2>. HIDE DEF n
  <2>4. f[n][2][1] \in {f[i][2][1] : i \in DOMAIN f}
    BY <2>2
  <2>5. f[n][2][1] \in UNION {{g[i][2][1] : i \in DOMAIN g} : g \in FirstFiles}
    BY <2>4
  <2> QED
    BY <2>3, <2>5 DEF WrittenValues
<1> QED
  BY <1>2, <1>3

LEMMA NewCheckFields ==
  ASSUME NEW image \in ValidPolicies, NEW current \in WrittenValues
  PROVE  LET c == NewCheck(image, current)
         IN  /\ c \in DiscoveryChecks /\ c.current = current /\ c.todo = FirstSources(image) /\ c.tags = <<>>
             /\ c.at \in {"source", "digest"}
             /\ c.at = "digest" => Only(image.sources, "digest")
<1>. DEFINE place == IF Only(image.sources, "digest") THEN "digest" ELSE "source"
<1>. DEFINE none == <<>>
<1>. DEFINE todo == FirstSources(image)
<1>. DEFINE c == [current |-> current, at |-> place, todo |-> todo, tags |-> none, search |-> {}, best |-> none,
                  last |-> {}, steady |-> TRUE]
<1>1. NewCheck(image, current) = c
  BY DEF NewCheck
<1>2. place \in CheckPlaces /\ place \in {"source", "digest"} /\ (place = "digest" => Only(image.sources, "digest"))
  BY DEF CheckPlaces
<1>3. none \in TagLists /\ none \in BestTags /\ todo \in SourceLists
  BY PolicySources DEF TagLists, BestTags
<1>. HIDE DEF place, none, todo
<1>4. c \in DiscoveryChecks
  BY <1>2, <1>3 DEF DiscoveryChecks
<1>5. c.current = current /\ c.todo = todo /\ c.tags = none /\ c.at = place
  OBVIOUS
<1>. HIDE DEF c
<1>6. /\ c \in DiscoveryChecks /\ c.current = current /\ c.todo = todo /\ c.tags = none
      /\ c.at \in {"source", "digest"}
      /\ c.at = "digest" => Only(image.sources, "digest")
  BY <1>2, <1>4, <1>5
<1> QED
  BY <1>1, <1>6 DEF todo, none

\* A new check has read the current value and asked nothing.
LEMMA NewCheckIsWell ==
  ASSUME NEW image \in ValidPolicies, NEW f \in FirstFiles, NEW reg, NEW inj, ~NoCurrentValue(image, f)
  PROVE  CheckIsWell(image, f, reg, inj, NewCheck(image, currentImageUpdateValue(image, f)[1]))
<1>. DEFINE current == currentImageUpdateValue(image, f)[1]
<1>. DEFINE c == NewCheck(image, current)
<1>1. current \in WrittenValues
  BY CurrentIsWritten
<1>. HIDE DEF current
<1>2. /\ c \in DiscoveryChecks /\ c.current = current /\ c.todo = FirstSources(image) /\ c.tags = <<>>
      /\ c.at \in {"source", "digest"}
      /\ c.at = "digest" => Only(image.sources, "digest")
  BY <1>1, NewCheckFields
<1>. HIDE DEF c
<1>3. c.at # "list" /\ c.at # "probe" /\ c.at # "inspect"
  BY <1>2
<1>4. Len(c.todo) <= Len(FirstSources(image))
  <2>1. Len(FirstSources(image)) \in Nat
    BY PolicySources, LenProperties DEF SourceLists
  <2> QED
    BY <1>2, <2>1
<1>5. ~Only(image.sources, "auto") => c.todo = image.sources
  BY <1>2, PolicySources
<1>6. CheckIsTyped(image, c)
  BY <1>2, <1>3, <1>4, <1>5 DEF CheckIsTyped
<1>7. ToSet(c.tags) = {}
  <2>1. <<>> \in Seq(Versions)
    OBVIOUS
  <2> QED
    BY <1>2, <2>1, SetOfSeq
<1>8. Listed(image) => "registry" \in ToSet(c.todo)
  <2>1. CASE Only(image.sources, "auto")
    <3>1. c.todo = <<"probe", "registry">>
      BY <1>2, <2>1, PolicySources
    <3>2. c.todo[2] = "registry" /\ 2 \in 1..Len(c.todo)
      BY <3>1
    <3>3. ToSet(c.todo) = {c.todo[n] : n \in 1..Len(c.todo)}
      BY <1>2, PolicySources, SetOfSeq DEF SourceLists
    <3> QED
      BY <3>2, <3>3
  <2>2. CASE Only(image.sources, "registry")
    <3>1. c.todo[1] = "registry" /\ Len(c.todo) = 1
      BY <1>5, <2>2, OtherSource, PolicySources
    <3>2. ToSet(c.todo) = {c.todo[n] : n \in 1..Len(c.todo)}
      BY <1>2, PolicySources, SetOfSeq DEF SourceLists
    <3>3. 1 \in 1..Len(c.todo)
      BY <3>1
    <3> QED
      BY <3>1, <3>2, <3>3
  <2>3. CASE ~Only(image.sources, "auto") /\ "registry" \in ToSet(image.sources)
    BY <1>5, <2>3
  <2> QED
    BY <2>1, <2>2, <2>3 DEF Listed
<1>9. ListFacts(image, reg, inj, c)
  BY <1>2, <1>3, <1>7, <1>8 DEF ListFacts
<1>10. SearchesAreFacts(reg, c)
  BY <1>3 DEF SearchesAreFacts
<1>11. ProbeFacts(image, reg, c)
  <2>1. Only(image.sources, "probe") => c.todo # <<>>
    <3>. SUFFICES ASSUME Only(image.sources, "probe") PROVE c.todo # <<>>
      OBVIOUS
    <3>1. ~Only(image.sources, "auto") /\ Len(image.sources) = 1
      BY OtherSource, PolicySources
    <3>2. Len(c.todo) = 1
      BY <1>5, <3>1
    <3>3. Len(<<>>) = 0
      OBVIOUS
    <3>4. ASSUME c.todo = <<>> PROVE FALSE
      <4>1. Len(c.todo) = Len(<<>>)
        BY <3>4
      <4>2. 1 = 0
        BY <3>2, <3>3, <4>1, Zenon
      <4> QED
        BY <4>2
    <3> QED
      BY <3>4
  <2>2. Probed(image, c.current) => c.todo # <<>>
    BY <2>1 DEF Probed
  <2> QED
    BY <1>2, <1>3, <2>2 DEF ProbeFacts
<1>12. CheckIsWell(image, f, reg, inj, c)
  BY <1>2, <1>6, <1>9, <1>10, <1>11 DEF CheckIsWell, current
<1> QED
  BY <1>12 DEF c, current

\* A change of the registry takes back the facts, not the form.
LEMMA UnsteadyIsWell ==
  ASSUME NEW image, NEW f, NEW reg, NEW inj, NEW c, CheckIsWell(image, f, reg, inj, c), NEW changed
  PROVE  CheckIsWell(image, f, changed, inj, [c EXCEPT !.steady = FALSE])
<1>. DEFINE d == [c EXCEPT !.steady = FALSE]
<1>1. CheckIsTyped(image, c) /\ c \in DiscoveryChecks
  BY DEF CheckIsWell, CheckIsTyped
<1>2. d \in DiscoveryChecks /\ d.steady = FALSE /\ SameBut(c, d, {"steady"})
  BY <1>1, UnsteadyFields
<1>. HIDE DEF d
<1>3. /\ d.current = c.current /\ d.at = c.at /\ d.todo = c.todo /\ d.search = c.search /\ d.best = c.best
  BY <1>2 DEF SameBut
<1>4. CheckIsTyped(image, d)
  BY <1>1, <1>2, <1>3 DEF CheckIsTyped
<1>5. CheckIsWell(image, f, changed, inj, d)
  BY <1>2, <1>3, <1>4 DEF CheckIsWell
<1> QED
  BY <1>5 DEF d

\* The written file is read back: the same line counts before and after.
LEMMA AppliedIsRead ==
  ASSUME NEW image, NEW f, DOMAIN f \subseteq Nat, NEW value, image.mode # "tag", ~NoCurrentValue(image, f)
  PROVE  LET g == applyImageCurrentUpdate(f, value)
         IN  /\ DOMAIN g = DOMAIN f /\ ~NoCurrentValue(image, g)
             /\ currentImageUpdateValue(image, g) = value
<1>. DEFINE n == FirstLine(f)
<1>. DEFINE line == <<Key, value>>
<1>. DEFINE g == [f EXCEPT ![n] = line]
<1>1. n \in LinesWithKey(f) /\ n \in DOMAIN f /\ f[n][1] = Key
  BY FirstLineIsThere DEF NoCurrentValue
<1>2. applyImageCurrentUpdate(f, value) = g
  BY DEF applyImageCurrentUpdate
<1>3. line[1] = Key /\ line[2] = value
  OBVIOUS
<1>. HIDE DEF line, n
<1>4. DOMAIN g = DOMAIN f /\ g[n] = line /\ \A i \in DOMAIN f : i # n => g[i] = f[i]
  BY <1>1
<1>. HIDE DEF g
<1>5. LinesWithKey(g) = LinesWithKey(f)
  BY <1>1, <1>3, <1>4 DEF LinesWithKey
<1>6. FirstLine(g) = n
  BY <1>5 DEF FirstLine, n
<1>7. currentImageUpdateValue(image, g) = value
  BY <1>3, <1>4, <1>6 DEF currentImageUpdateValue
<1>8. ~NoCurrentValue(image, g)
  BY <1>1, <1>5 DEF NoCurrentValue
<1> QED
  BY <1>2, <1>4, <1>7, <1>8

\* The candidate is written to the line the current value is read from.
LEMMA AppliedReport ==
  ASSUME NEW image, NEW f, DOMAIN f \subseteq Nat, NEW inj, NEW r, ReportIsWell(image, f, inj, r),
         r.available, image.mode # "tag", NEW digest
  PROVE  LET g == applyImageCurrentUpdate(f, <<r.candidate, digest>>)
         IN  DOMAIN g = DOMAIN f /\ ReportIsWell(image, g, inj, r)
<1>. DEFINE value == <<r.candidate, digest>>
<1>. DEFINE g == applyImageCurrentUpdate(f, value)
<1>1. ~NoCurrentValue(image, f)
  BY DEF ReportIsWell
<1>2. value[1] = r.candidate
  OBVIOUS
<1>. HIDE DEF value
<1>3. DOMAIN g = DOMAIN f /\ ~NoCurrentValue(image, g) /\ currentImageUpdateValue(image, g) = value
  BY <1>1, AppliedIsRead
<1>. HIDE DEF g
<1>4. FileIsReadBack(image, g, r)
  BY <1>2, <1>3 DEF FileIsReadBack
<1>5. ReportIsWell(image, g, inj, r)
  BY <1>1, <1>3, <1>4 DEF ReportIsWell
<1> QED
  BY <1>3, <1>5 DEF g, value

-----------------------------------------------------------------------------
(* The invariant is kept *)

\* The invariant holds at first,
LEMMA DiscoveryInitOK == DiscoveryInit => DiscoveryInv
<1>. SUFFICES ASSUME DiscoveryInit PROVE DiscoveryInv
  OBVIOUS
<1>1. policy \in ValidPolicies
  BY DEF DiscoveryInit, ValidPolicies
<1>2. registry \in SUBSET Versions /\ IsFiniteSet(registry) /\ releases \in Pages
  BY DiscoveryAssumption DEF DiscoveryInit
<1>3. file \in FirstFiles /\ DOMAIN file \subseteq Nat
  BY DiscoveryAssumption DEF DiscoveryInit
<1>4. injected = {} /\ check = {} /\ report = {}
  BY DEF DiscoveryInit
<1> QED
  BY <1>1, <1>2, <1>3, <1>4 DEF DiscoveryInv

\* A step within a check.
LEMMA CheckGoesOn ==
  ASSUME DiscoveryInv, injected # {}, report = {}, NEW d, check' = {d},
         UNCHANGED <<policy, file, registry, releases, injected, report>>,
         CheckIsWell(policy, file, registry, injected, d)
  PROVE  DiscoveryInv'
<1>1. /\ policy' = policy /\ file' = file /\ registry' = registry /\ releases' = releases
      /\ injected' = injected /\ report' = report
  OBVIOUS
<1>2. \E c \in check' : check' = {c}
  OBVIOUS
<1>3. \A c \in check' : CheckIsWell(policy', file', registry', injected', c)
  BY <1>1
<1> QED
  BY <1>1, <1>2, <1>3 DEF DiscoveryInv

\* The step that ends one.
LEMMA CheckEnds ==
  ASSUME DiscoveryInv, injected # {}, NEW r, check' = {}, report' = {r},
         UNCHANGED <<policy, file, registry, releases, injected>>,
         ReportIsWell(policy, file, injected, r)
  PROVE  DiscoveryInv'
<1>1. /\ policy' = policy /\ file' = file /\ registry' = registry /\ releases' = releases
      /\ injected' = injected
  OBVIOUS
<1>2. \E s \in report' : report' = {s}
  OBVIOUS
<1>3. \A s \in report' : ReportIsWell(policy', file', injected', s)
  BY <1>1
<1> QED
  BY <1>1, <1>2, <1>3 DEF DiscoveryInv

\* What the invariant gives the actions of a running check.
LEMMA CheckParties ==
  ASSUME DiscoveryInv, NEW c \in check
  PROVE  /\ policy \in ValidPolicies /\ registry \in SUBSET Versions /\ IsFiniteSet(registry)
         /\ injected # {} /\ report = {} /\ CheckIsWell(policy, file, registry, injected, c)
         /\ \A i \in injected : injected = {i} /\ InjectedWell(policy, i)
BY DEF DiscoveryInv

\* Each action keeps the invariant.
LEMMA AdmitKeeps == DiscoveryInv /\ AdmitCheck => DiscoveryInv'
<1>. SUFFICES ASSUME DiscoveryInv, AdmitCheck PROVE DiscoveryInv'
  OBVIOUS
<1>. DEFINE i == collectForgeCandidates(policy, releases)
<1>1. injected = {} /\ check = {} /\ report = {} /\ policy \in ValidPolicies /\ releases \in Pages
  BY DEF DiscoveryInv, AdmitCheck
<1>2. InjectedWell(policy, i)
  BY <1>1, CollectedIsWell
<1>3. injected' = {i} /\ UNCHANGED <<policy, file, registry, releases, check, report>>
  BY DEF AdmitCheck
<1>. HIDE DEF i
<1>4. \A j \in injected' : InjectedWell(policy', j)
  BY <1>2, <1>3
<1>5. \E j \in injected' : injected' = {j}
  BY <1>3
<1> QED
  BY <1>1, <1>3, <1>4, <1>5 DEF DiscoveryInv

LEMMA StartKeeps == DiscoveryInv /\ StartCheck => DiscoveryInv'
<1>. SUFFICES ASSUME DiscoveryInv, StartCheck PROVE DiscoveryInv'
  OBVIOUS
<1>1. /\ injected # {} /\ report = {} /\ policy \in ValidPolicies /\ file \in FirstFiles
      /\ UNCHANGED <<policy, file, registry, releases, injected>>
  BY DEF DiscoveryInv, StartCheck
<1>2. CASE NoCurrentValue(policy, file)
  <2>. DEFINE r == ReportOf(<<>>, TRUE, "error", <<>>, FALSE, registry, FALSE)
  <2>1. check' = {} /\ report' = {r}
    BY <1>2 DEF StartCheck, EndsWith, Reported, ReportOf
  <2>2. ReportIsWell(policy, file, injected, r)
    BY <1>2, MissingKeyReport
  <2>. HIDE DEF r
  <2> QED
    BY <1>1, <2>1, <2>2, CheckEnds
<1>3. CASE ~NoCurrentValue(policy, file)
  <2>. DEFINE d == NewCheck(policy, currentImageUpdateValue(policy, file)[1])
  <2>1. check' = {d} /\ report' = report
    BY <1>3 DEF StartCheck
  <2>2. CheckIsWell(policy, file, registry, injected, d)
    BY <1>1, <1>3, NewCheckIsWell
  <2>. HIDE DEF d
  <2> QED
    BY <1>1, <2>1, <2>2, CheckGoesOn
<1> QED
  BY <1>2, <1>3

LEMMA SkipKeeps == DiscoveryInv /\ SkipSource => DiscoveryInv'
<1>. SUFFICES ASSUME DiscoveryInv, SkipSource PROVE DiscoveryInv'
  OBVIOUS
<1>. DEFINE next(c, i) ==
       SourceDone(c, IF Merging(policy) THEN c.tags ELSE c.tags \o i.bySource[Source(policy, c)])
<1>1. PICK c \in check, i \in injected :
        /\ c.at = "source" /\ ~Stop(policy, c) /\ c.todo[1] \in ForgeSources /\ check' = {next(c, i)}
        /\ UNCHANGED <<policy, file, registry, releases, injected, report>>
  BY DEF SkipSource
<1>2. /\ policy \in ValidPolicies /\ injected # {} /\ report = {}
      /\ CheckIsWell(policy, file, registry, injected, c) /\ InjectedWell(policy, i)
  BY CheckParties
<1>3. CheckIsWell(policy, file, registry, injected, next(c, i))
  BY <1>1, <1>2, SkipIsWell
<1>. HIDE DEF next
<1> QED
  BY <1>1, <1>2, <1>3, CheckGoesOn

LEMMA StartSourceKeeps == DiscoveryInv /\ StartSource => DiscoveryInv'
<1>. SUFFICES ASSUME DiscoveryInv, StartSource PROVE DiscoveryInv'
  OBVIOUS
<1>. DEFINE listing(c) == [c EXCEPT !.at = "list", !.last = {}]
<1>. DEFINE probing(c) == [c EXCEPT !.at = "probe", !.best = <<>>, !.search = FirstSearch(policy, c.current)]
<1>. DEFINE passed(c) == SourceDone(c, c.tags)
<1>1. PICK c \in check :
        /\ c.at = "source" /\ ~Stop(policy, c)
        /\ \/ c.todo[1] = "registry" /\ check' = {listing(c)}
           \/ c.todo[1] = "probe" /\ policy.filter = "semver" /\ IsVersion(c.current) /\ check' = {probing(c)}
           \/ c.todo[1] = "probe" /\ ~(policy.filter = "semver" /\ IsVersion(c.current)) /\ check' = {passed(c)}
        /\ UNCHANGED <<policy, file, registry, releases, injected, report>>
  BY DEF StartSource
<1>2. /\ policy \in ValidPolicies /\ injected # {} /\ report = {}
      /\ CheckIsWell(policy, file, registry, injected, c)
  BY CheckParties
<1>3. CASE c.todo[1] = "registry" /\ check' = {listing(c)}
  <2>1. CheckIsWell(policy, file, registry, injected, listing(c))
    BY <1>1, <1>2, <1>3, ListStartIsWell
  <2>. HIDE DEF listing
  <2> QED
    BY <1>1, <1>2, <1>3, <2>1, CheckGoesOn
<1>4. CASE c.todo[1] = "probe" /\ policy.filter = "semver" /\ IsVersion(c.current) /\ check' = {probing(c)}
  <2>1. CheckIsWell(policy, file, registry, injected, probing(c))
    BY <1>1, <1>2, <1>4, ProbeStartIsWell
  <2>. HIDE DEF probing
  <2> QED
    BY <1>1, <1>2, <1>4, <2>1, CheckGoesOn
<1>5. CASE c.todo[1] = "probe" /\ ~(policy.filter = "semver" /\ IsVersion(c.current)) /\ check' = {passed(c)}
  <2>1. CheckIsWell(policy, file, registry, injected, passed(c))
    BY <1>1, <1>2, <1>5, PassIsWell
  <2>. HIDE DEF passed
  <2> QED
    BY <1>1, <1>2, <1>5, <2>1, CheckGoesOn
<1> QED
  BY <1>1, <1>3, <1>4, <1>5

LEMMA ProbeKeeps == DiscoveryInv /\ Probe => DiscoveryInv'
<1>. SUFFICES ASSUME DiscoveryInv, Probe PROVE DiscoveryInv'
  OBVIOUS
<1>. DEFINE answer(p) == probeContiguousSemverComponent(p, ProbedTag(p) \in registry)
<1>. DEFINE next(c, p) ==
       [c EXCEPT !.search = IF answer(p).mode \in {"found", "none"} THEN NextSearch(policy, answer(p), c.current)
                            ELSE {answer(p)},
                 !.best = Better(c.best, answer(p))]
<1>1. PICK c \in check : \E p \in c.search :
        /\ c.at = "probe" /\ check' = {next(c, p)}
        /\ UNCHANGED <<policy, file, registry, releases, injected, report>>
  BY DEF Probe
<1>2. PICK p \in c.search :
        /\ c.at = "probe" /\ check' = {next(c, p)}
        /\ UNCHANGED <<policy, file, registry, releases, injected, report>>
  BY <1>1
<1>3. /\ policy \in ValidPolicies /\ registry \in SUBSET Versions /\ injected # {} /\ report = {}
      /\ CheckIsWell(policy, file, registry, injected, c)
  BY CheckParties
<1>4. CheckIsWell(policy, file, registry, injected, next(c, p))
  BY <1>2, <1>3, ProbeIsWell
<1>. HIDE DEF next
<1> QED
  BY <1>2, <1>3, <1>4, CheckGoesOn

LEMMA FinishProbeKeeps == DiscoveryInv /\ FinishProbe => DiscoveryInv'
<1>. SUFFICES ASSUME DiscoveryInv, FinishProbe PROVE DiscoveryInv'
  OBVIOUS
<1>. DEFINE next(c) == SourceDone(c, IF c.best = <<>> THEN c.tags ELSE Append(c.tags, c.best))
<1>1. PICK c \in check :
        /\ c.at = "probe" /\ c.search = {} /\ check' = {next(c)}
        /\ UNCHANGED <<policy, file, registry, releases, injected, report>>
  BY DEF FinishProbe
<1>2. /\ policy \in ValidPolicies /\ injected # {} /\ report = {}
      /\ CheckIsWell(policy, file, registry, injected, c)
  BY CheckParties
<1>3. CheckIsWell(policy, file, registry, injected, next(c))
  BY <1>1, <1>2, ProbeEndIsWell
<1>. HIDE DEF next
<1> QED
  BY <1>1, <1>2, <1>3, CheckGoesOn

LEMMA ListKeeps == DiscoveryInv /\ ListPage => DiscoveryInv'
<1>. SUFFICES ASSUME DiscoveryInv, ListPage PROVE DiscoveryInv'
  OBVIOUS
<1>. DEFINE rest(c) == Ascending(Left(registry, c.last))
<1>. DEFINE more(c) == [c EXCEPT !.tags = c.tags \o SubSeq(rest(c), 1, TagsPageSize), !.last = {rest(c)[TagsPageSize]}]
<1>. DEFINE over(c) == SourceDone(c, c.tags \o rest(c))
<1>1. PICK c \in check :
        /\ c.at = "list"
        /\ \/ Len(rest(c)) > TagsPageSize /\ check' = {more(c)}
           \/ Len(rest(c)) <= TagsPageSize /\ check' = {over(c)}
        /\ UNCHANGED <<policy, file, registry, releases, injected, report>>
  BY DEF ListPage, Left
<1>2. /\ policy \in ValidPolicies /\ registry \in SUBSET Versions /\ IsFiniteSet(registry)
      /\ injected # {} /\ report = {} /\ CheckIsWell(policy, file, registry, injected, c)
  BY CheckParties
<1>3. CASE Len(rest(c)) > TagsPageSize /\ check' = {more(c)}
  <2>1. CheckIsWell(policy, file, registry, injected, more(c))
    BY <1>1, <1>2, <1>3, PageIsWell
  <2>. HIDE DEF more
  <2> QED
    BY <1>1, <1>2, <1>3, <2>1, CheckGoesOn
<1>4. CASE Len(rest(c)) <= TagsPageSize /\ check' = {over(c)}
  <2>1. CheckIsWell(policy, file, registry, injected, over(c))
    BY <1>1, <1>2, <1>4, LastPageIsWell
  <2>. HIDE DEF over
  <2> QED
    BY <1>1, <1>2, <1>4, <2>1, CheckGoesOn
<1> QED
  BY <1>1, <1>3, <1>4

LEMMA ChooseKeeps == DiscoveryInv /\ ChooseCandidate => DiscoveryInv'
<1>. SUFFICES ASSUME DiscoveryInv, ChooseCandidate PROVE DiscoveryInv'
  OBVIOUS
<1>. DEFINE candidates(c, i) == candidateImageTags(policy, c.current, AllTags(c, i))
<1>. DEFINE next(c, i) == [c EXCEPT !.at = "inspect", !.best = candidates(c, i)[1], !.tags = <<>>]
<1>. DEFINE nothing(c) == ReportOf(c.current, c.steady, "ok", <<>>, FALSE, registry, FALSE)
<1>1. PICK c \in check, i \in injected :
        /\ c.at = "source" /\ Stop(policy, c)
        /\ \/ candidates(c, i) = <<>> /\ check' = {} /\ report' = {nothing(c)}
           \/ candidates(c, i) # <<>> /\ check' = {next(c, i)} /\ UNCHANGED report
        /\ UNCHANGED <<policy, file, registry, releases, injected>>
  BY DEF ChooseCandidate, EndsWith, Reported, ReportOf
<1>2. /\ policy \in ValidPolicies /\ injected # {} /\ report = {} /\ injected = {i}
      /\ CheckIsWell(policy, file, registry, injected, c) /\ InjectedWell(policy, i)
  BY CheckParties
<1>3. CASE candidates(c, i) = <<>> /\ check' = {} /\ report' = {nothing(c)}
  <2>1. ReportIsWell(policy, file, injected, nothing(c))
    BY <1>1, <1>2, <1>3, NothingFoundReport
  <2>. HIDE DEF nothing
  <2> QED
    BY <1>1, <1>2, <1>3, <2>1, CheckEnds
<1>4. CASE candidates(c, i) # <<>> /\ check' = {next(c, i)} /\ UNCHANGED report
  <2>1. CheckIsWell(policy, file, registry, injected, next(c, i))
    BY <1>1, <1>2, <1>4, ChoiceIsWell
  <2>. HIDE DEF next
  <2> QED
    BY <1>1, <1>2, <1>4, <2>1, CheckGoesOn
<1> QED
  BY <1>1, <1>3, <1>4

LEMMA InspectKeeps == DiscoveryInv /\ InspectDigest => DiscoveryInv'
<1>. SUFFICES ASSUME DiscoveryInv, InspectDigest PROVE DiscoveryInv'
  OBVIOUS
<1>. DEFINE chosen(c) == IF c.at = "digest" THEN c.current ELSE c.best
<1>. DEFINE found(c) ==
       ReportOf(c.current, c.steady, IF chosen(c) \in registry THEN "ok" ELSE "error", chosen(c),
                c.at = "inspect" /\ chosen(c) \in registry, registry, FALSE)
<1>1. PICK c \in check :
        /\ c.at \in {"inspect", "digest"} /\ check' = {} /\ report' = {found(c)}
        /\ UNCHANGED <<policy, file, registry, releases, injected>>
  BY DEF InspectDigest, EndsWith, Reported, ReportOf
<1>2. policy \in ValidPolicies /\ injected # {} /\ CheckIsWell(policy, file, registry, injected, c)
  BY CheckParties
<1>3. ReportIsWell(policy, file, injected, found(c))
  BY <1>1, <1>2, InspectedReport
<1>. HIDE DEF found
<1> QED
  BY <1>1, <1>2, <1>3, CheckEnds

LEMMA FailureKeeps == DiscoveryInv /\ RequestFails => DiscoveryInv'
<1>. SUFFICES ASSUME DiscoveryInv, RequestFails PROVE DiscoveryInv'
  OBVIOUS
<1>. DEFINE failed(c) == ReportOf(c.current, c.steady, "error", <<>>, FALSE, registry, TRUE)
<1>1. PICK c \in check :
        /\ check' = {} /\ report' = {failed(c)}
        /\ UNCHANGED <<policy, file, registry, releases, injected>>
  BY DEF RequestFails, EndsWith, Reported, ReportOf
<1>2. injected # {}
  BY CheckParties
<1>3. ReportIsWell(policy, file, injected, failed(c))
  BY FailedReport
<1>. HIDE DEF failed
<1> QED
  BY <1>1, <1>2, <1>3, CheckEnds

LEMMA ApplyKeeps == DiscoveryInv /\ ApplyCandidate => DiscoveryInv'
<1>. SUFFICES ASSUME DiscoveryInv, ApplyCandidate PROVE DiscoveryInv'
  OBVIOUS
<1>1. PICK r \in report :
        /\ r.available /\ policy.mode # "tag"
        /\ \E digest \in {NoDigest, "digest"} : file' = applyImageCurrentUpdate(file, <<r.candidate, digest>>)
        /\ UNCHANGED <<policy, registry, releases, injected, check, report>>
  BY DEF ApplyCandidate
<1>2. PICK digest : file' = applyImageCurrentUpdate(file, <<r.candidate, digest>>)
  BY <1>1
<1>3. /\ DOMAIN file \subseteq Nat /\ report = {r} /\ check = {} /\ ReportIsWell(policy, file, injected, r)
  BY DEF DiscoveryInv
<1>4. DOMAIN file' = DOMAIN file /\ ReportIsWell(policy, file', injected, r)
  BY <1>1, <1>2, <1>3, AppliedReport
<1>5. /\ policy' = policy /\ registry' = registry /\ releases' = releases /\ injected' = injected
      /\ check' = {} /\ report' = {r} /\ report' # {}
  BY <1>1, <1>3
<1>6. \A s \in report' : ReportIsWell(policy', file', injected', s)
  BY <1>4, <1>5
<1>7. DOMAIN file' \subseteq Nat
  BY <1>3, <1>4
<1>8. \E s \in report' : report' = {s}
  BY <1>5
<1>9. injected # {}
  BY <1>3 DEF DiscoveryInv
<1> QED
  BY <1>5, <1>6, <1>7, <1>8, <1>9 DEF DiscoveryInv

LEMMA ChangeKeeps ==
  ASSUME DiscoveryInv, NEW t \in TagChanges, ChangeRegistry(t)
  PROVE  DiscoveryInv'
<1>1. /\ registry' = IF t \in registry THEN registry \ {t} ELSE registry \cup {t}
      /\ check' = {[c EXCEPT !.steady = FALSE] : c \in check}
      /\ policy' = policy /\ file' = file /\ releases' = releases /\ injected' = injected /\ report' = report
  BY DEF ChangeRegistry
<1>2. t \in Versions
  BY DiscoveryAssumption
<1>3. registry \in SUBSET Versions /\ IsFiniteSet(registry)
  BY DEF DiscoveryInv
<1>4. registry' \in SUBSET Versions /\ IsFiniteSet(registry')
  <2>1. CASE t \in registry
    <3>1. registry' = registry \ {t}
      BY <1>1, <2>1
    <3>2. registry \ {t} \in SUBSET registry
      OBVIOUS
    <3> QED
      BY <1>3, <3>1, <3>2, FS_Subset
  <2>2. CASE t \notin registry
    <3>1. registry' = registry \cup {t}
      BY <1>1, <2>2
    <3> QED
      BY <1>2, <1>3, <3>1, FS_AddElement
  <2> QED
    BY <2>1, <2>2
<1>5. ASSUME NEW d \in check' PROVE CheckIsWell(policy', file', registry', injected', d)
  <2>1. PICK c \in check : d = [c EXCEPT !.steady = FALSE]
    BY <1>1
  <2>2. CheckIsWell(policy, file, registry, injected, c)
    BY DEF DiscoveryInv
  <2>3. CheckIsWell(policy, file, registry', injected, d)
    BY <2>1, <2>2, UnsteadyIsWell
  <2> QED
    BY <1>1, <2>3
<1>6. check' = {} \/ \E d \in check' : check' = {d}
  <2>1. CASE check = {}
    BY <1>1, <2>1
  <2>2. CASE check # {}
    <3>1. PICK c \in check : check = {c}
      BY <2>2 DEF DiscoveryInv
    <3>2. check' = {[c EXCEPT !.steady = FALSE]}
      BY <1>1, <3>1
    <3> QED
      BY <3>2
  <2> QED
    BY <2>1, <2>2
<1>7. check = {} => check' = {}
  BY <1>1
<1> QED
  BY <1>1, <1>4, <1>5, <1>6, <1>7 DEF DiscoveryInv

\* and every step keeps it.
LEMMA DiscoveryStep == DiscoveryInv /\ [DiscoveryNext]_discoveryVars => DiscoveryInv'
<1>. SUFFICES ASSUME DiscoveryInv, [DiscoveryNext]_discoveryVars PROVE DiscoveryInv'
  OBVIOUS
<1>1. CASE UNCHANGED discoveryVars
  <2>1. /\ policy' = policy /\ file' = file /\ registry' = registry /\ releases' = releases
        /\ injected' = injected /\ check' = check /\ report' = report
    BY <1>1 DEF discoveryVars
  <2> QED
    BY <2>1 DEF DiscoveryInv
<1>2. CASE \E t \in TagChanges : ChangeRegistry(t)
  BY <1>2, ChangeKeeps
<1> QED
  BY <1>1, <1>2, AdmitKeeps, StartKeeps, SkipKeeps, StartSourceKeeps, ProbeKeeps, FinishProbeKeeps, ListKeeps,
     ChooseKeeps, InspectKeeps, FailureKeeps, ApplyKeeps DEF DiscoveryNext

LEMMA WellReportsAreSound == DiscoveryInv => DiscoveryIsSound
BY DEF DiscoveryInv, DiscoveryIsSound, ReportIsWell

\* For every policy that passes the validation, every registry and forge, and
\* however the registry changes or requests fail meanwhile: what the check
\* announces is newer by an allowed step and there to pull, exact when the
\* registry held still, and read back from the file it is written to
\* (collectServiceImageUpdateCheck, applyImageCurrentUpdate).
THEOREM DiscoverySound == DiscoverySpec => []DiscoveryIsSound
<1> QED
  BY DiscoveryInitOK, DiscoveryStep, WellReportsAreSound, PTL DEF DiscoverySpec

=============================================================================
