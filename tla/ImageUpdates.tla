---------------------------- MODULE ImageUpdates ----------------------------
(***************************************************************************)
(* Image checks and what follows from them.  The nodes of a service check    *)
(* its images as one batch: each reports the image digests it runs, and the  *)
(* first one also asks the registry for newer images.  When the completion   *)
(* of such a task is delivered from the outbox and the batch is complete,    *)
(* the controller reconciles the results of all nodes, notifies of new       *)
(* versions, and, with auto_apply, backs the service up, commits the new tag *)
(* and updates every node.                                                   *)
(*                                                                         *)
(* The service has two images: one whose tag is written in the repository    *)
(* ("pinned") and one with a fixed tag that is rebuilt ("mutable").  Tags    *)
(* and digests are numbers that grow.  HEAD is a number, and the files of    *)
(* the service are the tag of the pinned image.  A time is the batch that    *)
(* was running then, 0 outside of one.                                       *)
(***************************************************************************)
EXTENDS Naturals, Sequences, FiniteSets

CONSTANTS ImageNodes,      \* 1..n, the first one asks the registry
          UpdateOptions,   \* configurations of auto_apply and backup_before_update
          MaxBatches, MaxVersion,
          MaxUserWrites,   \* commits of users
          MaxImageFaults   \* failed checks and backups, busy nodes, crashes

VARIABLES options,
          rev, tag,        \* HEAD, and the tag it holds
          remote,          \* [tag, digest] of the registry
          nodeTag, nodeDigest,  \* files and running mutable image of each node
          batches,         \* image check batches, with the task of each node
          states,          \* service_image_states of the mutable image
          checks,          \* service_image_update_checks
          event,           \* outbox events of the image check tasks
          apply,           \* the event that is being delivered
          preBackups, updates,\* tasks with the dedupe key of a batch, by node
          userTask,        \* nodes on which a task of a user is active
          commits,         \* commits made by auto-apply
          notified,        \* image_update_available notifications
          appliedEvent,    \* batches with an image_update_applied event
          userWrites, imageFaults,
          raced            \* a user committed between the two reads of HEAD

imageVars == <<options, rev, tag, remote, nodeTag, nodeDigest, batches, states, checks, event,
               apply, preBackups, updates, userTask, commits, notified, appliedEvent,
               userWrites, imageFaults, raced>>

Discovery == 1   \* the first target node

ASSUME ImageAssumption ==
  /\ Discovery \in ImageNodes
  /\ {MaxBatches, MaxVersion, MaxUserWrites, MaxImageFaults} \subseteq Nat

Batches == 1..Len(batches)
NoApply == [at |-> "idle"]
NoCheck == [at |-> 0, tag |-> 0, digest |-> 0, available |-> FALSE, status |-> "unknown"]
NoState == [at |-> 0, digest |-> 0]

\* An option of the image, the service or the controller, in this order.
Effective(levels, default) ==
  LET given == {i \in 1..Len(levels) : levels[i] # "unset"}
  IN  IF given = {} THEN default ELSE levels[CHOOSE i \in given : \A j \in given : i <= j]
effectiveImageAutoApply == Effective(options.autoApply, "off") = "on"
effectiveBackupBeforeUpdate == Effective(options.backup, "off") = "on"

ImageInit ==
  /\ options \in UpdateOptions
  /\ rev = 1 /\ tag = 1 /\ remote = [tag |-> 1, digest |-> 1]
  /\ nodeTag = [n \in ImageNodes |-> 1] /\ nodeDigest = [n \in ImageNodes |-> 1]
  /\ batches = <<>> /\ event = <<>> /\ preBackups = <<>> /\ updates = <<>>
  /\ states = [n \in ImageNodes |-> NoState]
  /\ checks = [pinned |-> NoCheck, mutable |-> NoCheck]
  /\ apply = NoApply /\ userTask = {}
  /\ commits = <<>> /\ notified = {} /\ appliedEvent = {}
  /\ userWrites = 0 /\ imageFaults = 0 /\ raced = FALSE

-----------------------------------------------------------------------------
ActiveIn(tasks, n) == \E b \in Batches : tasks[b][n] = "active"
Busy(n) ==
  \/ n \in userTask \/ ActiveIn(preBackups, n)
  \/ \E b \in Batches : batches[b].task[n] = "active" \/ updates[b].task[n] = "active"
ServiceIdle == \A n \in ImageNodes : ~Busy(n)
ImageFault == imageFaults < MaxImageFaults /\ imageFaults' = imageFaults + 1
NoTasks == [n \in ImageNodes |-> "none"]

\* The batch whose tasks are not all finished: the time of a report.
Now == IF \E n \in ImageNodes : Len(batches) > 0 /\ batches[Len(batches)].task[n] = "active"
         THEN Len(batches) ELSE 0

-----------------------------------------------------------------------------
(* Image check tasks                                                        *)

\* RunServiceAction, or the scheduler: a task on every node, or none.
CreateImageChecks ==
  /\ Len(batches) < MaxBatches /\ ServiceIdle
  /\ batches' = Append(batches, [rev |-> rev, tag |-> tag,
                                 task |-> [n \in ImageNodes |-> "active"],
                                 reported |-> {}, asked |-> FALSE])
  /\ event' = Append(event, NoTasks)
  /\ preBackups' = Append(preBackups, NoTasks)
  /\ updates' = Append(updates, [tag |-> 0, task |-> NoTasks])
  /\ UNCHANGED <<options, rev, tag, remote, nodeTag, nodeDigest, states, checks, apply,
                 userTask, commits, notified, appliedEvent, userWrites, imageFaults, raced>>

\* The node's files must be those of the task's revision before anything is
\* observed; then the running digests are stored.
ReportServiceImageStates(b, n) ==
  /\ batches[b].task[n] = "active" /\ n \notin batches[b].reported
  /\ nodeTag[n] = batches[b].tag
  /\ batches' = [batches EXCEPT ![b].reported = @ \cup {n}]
  /\ states' = [states EXCEPT ![n] = [at |-> Now, digest |-> nodeDigest[n]]]
  /\ UNCHANGED <<options, rev, tag, remote, nodeTag, nodeDigest, checks, event, apply, preBackups,
                 updates, userTask, commits, notified, appliedEvent, userWrites, imageFaults,
                 raced>>

\* collectServiceImageUpdateCheck: the newest tag above the current one.
PinnedCheck(b) ==
  [at |-> Now, tag |-> IF remote.tag > batches[b].tag THEN remote.tag ELSE 0, digest |-> 0,
   available |-> remote.tag > batches[b].tag, status |-> "ok"]

\* A digest is compared only when all nodes are known; until then an update
\* stays available if the same one was.
MutableCheck ==
  [at |-> Now, tag |-> 0, digest |-> remote.digest,
   available |-> checks.mutable.available /\ checks.mutable.digest = remote.digest,
   status |-> "unknown"]

ReportServiceImageUpdateChecks(b) ==
  /\ batches[b].task[Discovery] = "active" /\ Discovery \in batches[b].reported
  /\ ~batches[b].asked
  /\ batches' = [batches EXCEPT ![b].asked = TRUE]
  /\ checks' = [pinned |-> PinnedCheck(b), mutable |-> MutableCheck]
  /\ UNCHANGED <<options, rev, tag, remote, nodeTag, nodeDigest, states, event, apply, preBackups,
                 updates, userTask, commits, notified, appliedEvent, userWrites, imageFaults,
                 raced>>

\* The completion and its outbox event; drift, an unreachable registry and a
\* lost agent fail the task.
FinishImageCheck(b, n) ==
  /\ batches[b].task[n] = "active"
  /\ \/ /\ n \in batches[b].reported /\ (n = Discovery => batches[b].asked)
        /\ batches' = [batches EXCEPT ![b].task[n] = "succeeded"]
        /\ event' = [event EXCEPT ![b][n] = "pending"]
        /\ UNCHANGED imageFaults
     \/ /\ \/ nodeTag[n] # batches[b].tag /\ UNCHANGED imageFaults
           \/ ImageFault
        /\ batches' = [batches EXCEPT ![b].task[n] = "failed"]
        /\ UNCHANGED event
  /\ UNCHANGED <<options, rev, tag, remote, nodeTag, nodeDigest, states, checks, apply, preBackups,
                 updates, userTask, commits, notified, appliedEvent, userWrites, raced>>

-----------------------------------------------------------------------------
(* queueAutoApplyUpdateForImageCheck                                        *)

BatchFailed(b) == \E n \in ImageNodes : batches[b].task[n] = "failed"
BatchComplete(b) == \A n \in ImageNodes : batches[b].task[n] = "succeeded"

EndDelivery == /\ event' = [event EXCEPT ![apply.batch][apply.node] = "done"]
               /\ apply' = NoApply
RetryLater == apply' = NoApply /\ UNCHANGED event

TakeEvent(b, n) ==
  /\ apply = NoApply /\ event[b][n] = "pending"
  /\ apply' = [at |-> "batch", batch |-> b, node |-> n, checks |-> <<>>, base |-> 0,
               images |-> {}, tag |-> 0]
  /\ UNCHANGED <<options, rev, tag, remote, nodeTag, nodeDigest, batches, states, checks, event,
                 preBackups, updates, userTask, commits, notified, appliedEvent, userWrites,
                 imageFaults, raced>>

\* Mutant: a batch with a failed node is used as far as it got.
UsableBatchIgnoringFailures(b) ==
  /\ \A n \in ImageNodes : batches[b].task[n] # "active"
  /\ rev = batches[b].rev

UsableBatch(b) == BatchComplete(b) /\ rev = batches[b].rev

\* A failed batch and a moved HEAD end the delivery, an incomplete batch is
\* looked at again later.
LoadBatch ==
  /\ apply.at = "batch"
  /\ \/ /\ UsableBatch(apply.batch)
        /\ apply' = [apply EXCEPT !.at = "reconcile", !.checks = checks] /\ UNCHANGED event
     \/ ~UsableBatch(apply.batch) /\ (BatchFailed(apply.batch) \/ BatchComplete(apply.batch))
        /\ EndDelivery
     \/ ~UsableBatch(apply.batch) /\ ~BatchFailed(apply.batch) /\ ~BatchComplete(apply.batch)
        /\ RetryLater
  /\ raced' = FALSE
  /\ UNCHANGED <<options, rev, tag, remote, nodeTag, nodeDigest, batches, states, checks,
                 preBackups, updates, userTask, commits, notified, appliedEvent, userWrites,
                 imageFaults>>

\* serviceDigestUpdateState: every node must have reported within the batch.
DigestState(c, b) ==
  IF \E n \in ImageNodes : states[n].at # b
    THEN [c EXCEPT !.available = FALSE, !.status = "error"]
    ELSE [c EXCEPT !.available = \E n \in ImageNodes : states[n].digest # c.digest,
                   !.status = "ok"]

detectNewImageUpdateChecks(before, after) ==
  {<<i, after[i].tag, after[i].digest>> : i \in
     {j \in {"pinned", "mutable"} :
        /\ after[j].available /\ after[j].status # "error"
        /\ \/ ~before[j].available
           \/ <<before[j].tag, before[j].digest>> # <<after[j].tag, after[j].digest>>}}

\* The checks of the batch are compared with what the nodes run and written
\* back, new updates are notified, and the images to apply are chosen.  The
\* checks read before are those the report of this batch has stored.
reconcileServiceDigestChecks ==
  LET b == apply.batch
      after == [checks EXCEPT !.mutable = DigestState(checks.mutable, b)]
      images == {i \in {"pinned", "mutable"} : effectiveImageAutoApply /\ after[i].available}
  IN  /\ apply.at = "reconcile"
      /\ \/ /\ checks.pinned.at = b /\ checks.mutable.at = b
            /\ checks' = after
            /\ notified' = notified \cup detectNewImageUpdateChecks(apply.checks, after)
            /\ \/ images # {} /\ apply' = [apply EXCEPT !.at = "base", !.checks = <<>>,
                                                                !.images = images]
                  /\ UNCHANGED event
               \/ images = {} /\ EndDelivery
         \/ /\ ~(checks.pinned.at = b /\ checks.mutable.at = b)
            /\ EndDelivery /\ UNCHANGED <<checks, notified>>
      /\ UNCHANGED <<options, rev, tag, remote, nodeTag, nodeDigest, batches, states, preBackups,
                     updates, userTask, commits, appliedEvent, userWrites, imageFaults, raced>>

\* HEAD is read a second time, as the base of the commit.
ReadBaseRevision ==
  /\ apply.at = "base"
  /\ apply' = [apply EXCEPT !.at = "plan", !.base = rev]
  /\ UNCHANGED <<options, rev, tag, remote, nodeTag, nodeDigest, batches, states, checks, event,
                 preBackups, updates, userTask, commits, notified, appliedEvent, userWrites,
                 imageFaults, raced>>

-----------------------------------------------------------------------------
(* runServiceUpdateWithImageSelections                                      *)

UpdatesExist(b) == \A n \in ImageNodes : updates[b].task[n] # "none"

\* Tasks of an earlier delivery are found by their dedupe key; otherwise the
\* update is planned with the checks as they are now.
PlanUpdates ==
  /\ apply.at = "plan"
  /\ \/ UpdatesExist(apply.batch) /\ apply' = [apply EXCEPT !.at = "applied"]
     \/ /\ ~UpdatesExist(apply.batch)
        /\ "pinned" \in apply.images => checks.pinned.available
        /\ apply' = [apply EXCEPT !.tag = IF "pinned" \in apply.images THEN checks.pinned.tag ELSE 0,
                                  !.at = IF effectiveBackupBeforeUpdate THEN "backup" ELSE "commit"]
     \/ /\ ~UpdatesExist(apply.batch)
        /\ "pinned" \in apply.images /\ ~checks.pinned.available
        /\ apply' = NoApply
  /\ UNCHANGED <<options, rev, tag, remote, nodeTag, nodeDigest, batches, states, checks, event,
                 preBackups, updates, userTask, commits, notified, appliedEvent, userWrites,
                 imageFaults, raced>>

\* One backup task per node, found again by its dedupe key; a busy node ends
\* the attempt.
CreateBackup(n) ==
  /\ apply.at = "backup" /\ preBackups[apply.batch][n] = "none"
  /\ \/ ~Busy(n) /\ preBackups' = [preBackups EXCEPT ![apply.batch][n] = "active"] /\ UNCHANGED apply
     \/ Busy(n) /\ apply' = NoApply /\ UNCHANGED preBackups
  /\ UNCHANGED <<options, rev, tag, remote, nodeTag, nodeDigest, batches, states, checks, event,
                 updates, userTask, commits, notified, appliedEvent, userWrites, imageFaults,
                 raced>>

BackupsDone(b) == \A n \in ImageNodes : preBackups[b][n] = "succeeded"

\* waitTask; a failed backup fails this attempt and every later one.
AwaitBackups ==
  /\ apply.at = "backup" /\ \A n \in ImageNodes : preBackups[apply.batch][n] \notin {"none", "active"}
  /\ \/ BackupsDone(apply.batch) /\ apply' = [apply EXCEPT !.at = "commit"]
     \/ ~BackupsDone(apply.batch) /\ apply' = NoApply
  /\ UNCHANGED <<options, rev, tag, remote, nodeTag, nodeDigest, batches, states, checks, event,
                 preBackups, updates, userTask, commits, notified, appliedEvent, userWrites,
                 imageFaults, raced>>

\* runRepoWrite under repoMu: HEAD is the base and the service has no active
\* task.  A tag that is already there is no error here.
ApplyPlannedServiceImageUpdates ==
  /\ apply.at = "commit"
  /\ \/ /\ apply.tag = 0 /\ apply' = [apply EXCEPT !.at = "create"]
        /\ UNCHANGED <<rev, tag, commits>>
     \/ /\ apply.tag # 0 /\ apply.base = rev /\ ServiceIdle
        /\ apply' = [apply EXCEPT !.at = "create"]
        /\ IF tag = apply.tag THEN UNCHANGED <<rev, tag, commits>>
           ELSE /\ rev' = rev + 1 /\ tag' = apply.tag
                /\ commits' = Append(commits, [batch |-> apply.batch, onto |-> rev, from |-> tag,
                                               to |-> apply.tag, raced |-> raced])
     \/ /\ apply.tag # 0 /\ ~(apply.base = rev /\ ServiceIdle)
        /\ apply' = NoApply /\ UNCHANGED <<rev, tag, commits>>
  /\ UNCHANGED <<options, remote, nodeTag, nodeDigest, batches, states, checks, event, preBackups,
                 updates, userTask, notified, appliedEvent, userWrites, imageFaults, raced>>

\* createServiceTasksWithOptions: all nodes or none, at the HEAD of now.
CreateUpdates ==
  /\ apply.at = "create"
  /\ \/ /\ ServiceIdle
        /\ updates' = [updates EXCEPT ![apply.batch] =
                         [tag |-> tag, task |-> [n \in ImageNodes |-> "active"]]]
        /\ apply' = [apply EXCEPT !.at = "applied"]
     \/ ~ServiceIdle /\ apply' = NoApply /\ UNCHANGED updates
  /\ UNCHANGED <<options, rev, tag, remote, nodeTag, nodeDigest, batches, states, checks, event,
                 preBackups, userTask, commits, notified, appliedEvent, userWrites, imageFaults,
                 raced>>

EnqueueApplied ==
  /\ apply.at = "applied"
  /\ appliedEvent' = appliedEvent \cup {apply.batch}
  /\ EndDelivery
  /\ UNCHANGED <<options, rev, tag, remote, nodeTag, nodeDigest, batches, states, checks,
                 preBackups, updates, userTask, commits, notified, userWrites, imageFaults, raced>>

-----------------------------------------------------------------------------
(* The environment                                                          *)

\* The controller stops; the outbox delivers the event again.
RestartDelivery ==
  /\ apply # NoApply /\ ImageFault /\ apply' = NoApply
  /\ UNCHANGED <<options, rev, tag, remote, nodeTag, nodeDigest, batches, states, checks, event,
                 preBackups, updates, userTask, commits, notified, appliedEvent, userWrites, raced>>

FinishBackup(b, n) ==
  /\ preBackups[b][n] = "active"
  /\ \/ preBackups' = [preBackups EXCEPT ![b][n] = "succeeded"] /\ UNCHANGED imageFaults
     \/ ImageFault /\ preBackups' = [preBackups EXCEPT ![b][n] = "failed"]
  /\ UNCHANGED <<options, rev, tag, remote, nodeTag, nodeDigest, batches, states, checks, event,
                 apply, updates, userTask, commits, notified, appliedEvent, userWrites, raced>>

\* The node has the files of the revision and the newest image, and reports it.
FinishUpdate(b, n) ==
  /\ updates[b].task[n] = "active"
  /\ updates' = [updates EXCEPT ![b].task[n] = "ended"]
  /\ nodeTag' = [nodeTag EXCEPT ![n] = updates[b].tag]
  /\ nodeDigest' = [nodeDigest EXCEPT ![n] = remote.digest]
  /\ states' = [states EXCEPT ![n] = [at |-> Now, digest |-> remote.digest]]
  /\ UNCHANGED <<options, rev, tag, remote, batches, checks, event, apply, preBackups, userTask,
                 commits, notified, appliedEvent, userWrites, imageFaults, raced>>

\* A user updates one node.
UserTaskStarts(n) ==
  /\ ~Busy(n) /\ ImageFault /\ userTask' = userTask \cup {n}
  /\ UNCHANGED <<options, rev, tag, remote, nodeTag, nodeDigest, batches, states, checks, event,
                 apply, preBackups, updates, commits, notified, appliedEvent, userWrites, raced>>

UserTaskFinishes(n) ==
  /\ n \in userTask /\ userTask' = userTask \ {n}
  /\ nodeTag' = [nodeTag EXCEPT ![n] = tag]
  /\ nodeDigest' = [nodeDigest EXCEPT ![n] = remote.digest]
  /\ states' = [states EXCEPT ![n] = [at |-> Now, digest |-> remote.digest]]
  /\ UNCHANGED <<options, rev, tag, remote, batches, checks, event, apply, preBackups, updates,
                 commits, notified, appliedEvent, userWrites, imageFaults, raced>>

UserWrites(t) ==
  /\ userWrites < MaxUserWrites /\ userWrites' = userWrites + 1
  /\ ServiceIdle /\ rev' = rev + 1 /\ tag' = t
  /\ raced' = (raced \/ apply.at \in {"reconcile", "base"})
  /\ UNCHANGED <<options, remote, nodeTag, nodeDigest, batches, states, checks, event, apply,
                 preBackups, updates, userTask, commits, notified, appliedEvent, imageFaults>>

RegistryPublishes ==
  /\ \/ remote.tag < MaxVersion /\ remote' = [remote EXCEPT !.tag = @ + 1]
     \/ remote.digest < 2 /\ remote' = [remote EXCEPT !.digest = @ + 1]
  /\ UNCHANGED <<options, rev, tag, nodeTag, nodeDigest, batches, states, checks, event, apply,
                 preBackups, updates, userTask, commits, notified, appliedEvent, userWrites,
                 imageFaults, raced>>

ImageNext ==
  \/ CreateImageChecks
  \/ \E b \in Batches :
       \/ ReportServiceImageUpdateChecks(b)
       \/ \E n \in ImageNodes :
            \/ ReportServiceImageStates(b, n) \/ FinishImageCheck(b, n) \/ TakeEvent(b, n)
            \/ FinishBackup(b, n) \/ FinishUpdate(b, n)
  \/ LoadBatch \/ reconcileServiceDigestChecks \/ ReadBaseRevision \/ PlanUpdates
  \/ AwaitBackups \/ ApplyPlannedServiceImageUpdates \/ CreateUpdates \/ EnqueueApplied
  \/ RestartDelivery \/ RegistryPublishes
  \/ \E n \in ImageNodes : CreateBackup(n) \/ UserTaskStarts(n) \/ UserTaskFinishes(n)
  \/ \E t \in 1..MaxVersion : UserWrites(t)

ImageSpec == ImageInit /\ [][ImageNext]_imageVars

-----------------------------------------------------------------------------
(* Properties                                                               *)

\* Auto-apply commits at most once per batch, never an older tag, and on the
\* revision the nodes have checked (unless a user committed between the two
\* reads of HEAD).
CommitsAreChecked ==
  /\ \A i \in 1..Len(commits) : ~commits[i].raced =>
       commits[i].from < commits[i].to /\ commits[i].onto = batches[commits[i].batch].rev
  /\ \A i, j \in 1..Len(commits) : i # j => commits[i].batch # commits[j].batch

\* Nodes are updated, all of them, only by a batch every node has completed, and
\* only after the backups where they are asked for.
UpdatesFollowBatch ==
  \A b \in Batches : (\E n \in ImageNodes : updates[b].task[n] # "none") =>
    /\ UpdatesExist(b) /\ effectiveImageAutoApply
    /\ \A n \in ImageNodes : batches[b].task[n] = "succeeded"
    /\ effectiveBackupBeforeUpdate => \A n \in ImageNodes : preBackups[b][n] = "succeeded"

\* What users are told was applied has update tasks.
UpdatesAreSound ==
  CommitsAreChecked /\ UpdatesFollowBatch /\ \A b \in appliedEvent : UpdatesExist(b)

Delivered(b) == BatchComplete(b) /\ \A n \in ImageNodes : event[b][n] = "done"

\* A tag that auto-apply has committed is also rolled out: when the events of the
\* batch are delivered, its update tasks exist.
CommittedUpdatesAreDeployed ==
  \A i \in 1..Len(commits) : Delivered(commits[i].batch) => UpdatesExist(commits[i].batch)
=============================================================================
