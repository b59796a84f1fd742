------------------------------ MODULE RepoSync ------------------------------
(***************************************************************************)
(* The service repository of the controller and its remote: writes of       *)
(* users, the synchronisation a user asks for, the periodic one, and the     *)
(* deployments the periodic one starts.                                      *)
(*                                                                         *)
(* repoMu serialises everything that moves HEAD or reads the worktree for a  *)
(* write; in local-first mode the network is used without it, and syncMu     *)
(* keeps two synchronisations apart.  A revision is the history that leads   *)
(* to it: a sequence of commits, each with the commit it was made on.  The   *)
(* remote is shared with people who push on their own.                       *)
(*                                                                         *)
(* One service stands for all of them; every commit touches it.  Statements  *)
(* that follow each other under repoMu are one step where nobody who does    *)
(* not hold it can tell.  Times, error texts and credentials are left out.   *)
(***************************************************************************)
EXTENDS Naturals, Sequences, FiniteSets, SequencesExt

CONSTANTS Writers,       \* users that write through the controller
          Callers,       \* users that ask for SyncRepo
          AutoPull,      \* the periodic synchronisation
          Deployers,     \* users that deploy the service, once each
          MaxCommits,    \* commits made through the controller
          MaxPushed,     \* commits pushed to the remote by others
          MaxRepoFaults  \* failing commands and statements, and restarts

VARIABLES repoMode,      \* "local_only", "local_first" or "pull_push"
          head,          \* HEAD of the working copy
          remoteHead,    \* the branch at the remote
          worktreeClean, \* git status reports nothing
          syncStatus,    \* repo_sync_state.sync_status
          declaredAt,    \* the worktree the declared services were read from
          repoMu, syncMu,
          proc,          \* where each process stands and what it has read
          serviceBusy,   \* the service has an active task
          deployed,      \* revision of the last deployment
          pendingDeploy, \* service_instances.pending_deploy_revision
          repoFaults,
          unrecorded,    \* a commit whose sync status could not be written
          autoPulled     \* the last revision the periodic loop handed to auto-deploy

gitVars == <<head, remoteHead, worktreeClean>>
taskVars == <<serviceBusy, deployed, pendingDeploy, autoPulled>>
repoVars == <<repoMode, gitVars, syncStatus, declaredAt, repoMu, syncMu, proc, taskVars,
              repoFaults, unrecorded>>

RepoProcs == Writers \cup Callers \cup Deployers \cup {AutoPull}
Free == "free"

\* The processes are goroutines of their own, and nobody is called free.
ASSUME RepoAssumption ==
  /\ Writers \cap Callers = {} /\ Deployers \cap (Writers \cup Callers) = {}
  /\ AutoPull \notin Writers \cup Callers \cup Deployers
  /\ Free \notin RepoProcs
  /\ {MaxCommits, MaxPushed, MaxRepoFaults} \subseteq Nat

NoRevision == <<>>

CommitOf(who, n, onto) == [by |-> who, n |-> n, onto |-> onto]
TipOf(rev) == IF rev = <<>> THEN <<>> ELSE <<Last(rev).by, Last(rev).n>>
MadeHere(rev) == Cardinality({i \in 1..Len(rev) : rev[i].by # "other"})
PushedByOthers(rev) == Cardinality({i \in 1..Len(rev) : rev[i].by = "other"})
Root == <<CommitOf("other", 0, <<>>)>>
Torn == <<CommitOf("nobody", 0, <<>>)>>  \* a worktree in the middle of a write

\* seen is the revision a process works with, old HEAD before it, read the
\* worktree it found without repoMu.
Idle == [at |-> "idle", seen |-> NoRevision, old |-> NoRevision, read |-> NoRevision]

RepoInit ==
  /\ repoMode \in {"local_only", "local_first", "pull_push"}
  /\ head = Root /\ remoteHead = Root /\ worktreeClean = TRUE
  /\ syncStatus = "synced" /\ declaredAt = Root
  /\ repoMu = Free /\ syncMu = Free
  /\ proc = [p \in RepoProcs |-> Idle]
  /\ serviceBusy = FALSE /\ deployed = Root /\ pendingDeploy = NoRevision
  /\ repoFaults = 0 /\ unrecorded = FALSE /\ autoPulled = Root

-----------------------------------------------------------------------------
At(p, where) == proc[p].at = where
Set(p, r) == proc' = [proc EXCEPT ![p] = r]
Goto(p, where) == proc' = [proc EXCEPT ![p].at = where]
Finish(p) == Set(p, Idle)
Fault == repoFaults < MaxRepoFaults /\ repoFaults' = repoFaults + 1

\* What a reader of the worktree finds.
Worktree == IF worktreeClean THEN head ELSE Torn

\* merge --ff-only: nothing to do when the revision is already contained.
CanFastForward(rev) == IsPrefix(head, rev) \/ IsPrefix(rev, head)
FastForwardRevision(rev) == IF IsPrefix(head, rev) THEN rev ELSE head

\* Mutant: a push with force.
ForcePush(rev) == TRUE

\* push rev:refs/heads/branch without force; a push that fails may have arrived.
CanPush(rev) == IsPrefix(remoteHead, rev)
MaybePushed(rev) == {remoteHead} \cup {r \in {rev} : CanPush(r)}

-----------------------------------------------------------------------------
(* Writes: UpdateRepoFile, CreateRepoDirectory, MoveRepoPath, DeleteRepoPath.*)

\* The user reads the repository and keeps its revision as base_revision.
ReadHead(p) ==
  /\ p \in Writers /\ At(p, "idle") /\ MadeHere(head) < MaxCommits
  /\ Set(p, [Idle EXCEPT !.at = "edit", !.seen = head])
  /\ UNCHANGED <<repoMode, gitVars, syncStatus, declaredAt, repoMu, syncMu, taskVars,
                 repoFaults, unrecorded>>

\* Fetch, fast-forward and store the status, all under repoMu: only the remote
\* can move meanwhile, and what was fetched stays part of it.
SyncRepoLocked(ok) ==
  \/ ~ok /\ ~worktreeClean /\ UNCHANGED <<head, syncStatus, repoFaults>>
  \/ /\ ok /\ worktreeClean /\ CanFastForward(remoteHead)
     /\ head' = FastForwardRevision(remoteHead) /\ syncStatus' = "synced"
     /\ UNCHANGED repoFaults
  \/ /\ ~ok /\ worktreeClean
     /\ \/ ~CanFastForward(remoteHead) /\ UNCHANGED repoFaults
        \/ Fault
     /\ syncStatus' = "pull_failed" /\ UNCHANGED head

\* Pull-and-push mode: a write starts with a pull.
SyncRepoBeforeWrite(p, ok) ==
  /\ p \in Writers /\ At(p, "edit") /\ repoMode = "pull_push" /\ repoMu = Free
  /\ SyncRepoLocked(ok)
  /\ \/ ok /\ repoMu' = p /\ Goto(p, "check")
     \/ ~ok /\ Finish(p) /\ UNCHANGED repoMu
  /\ UNCHANGED <<repoMode, remoteHead, worktreeClean, declaredAt, syncMu, taskVars, unrecorded>>

\* base_revision, a clean worktree and no active task of the service.
WriteAllowed(p) == proc[p].seen = head /\ worktreeClean /\ ~serviceBusy

PrepareRepoWrite(p) ==
  /\ p \in Writers
  /\ IF repoMode = "pull_push" THEN At(p, "check") /\ repoMu = p
                               ELSE At(p, "edit") /\ repoMu = Free
  /\ \/ WriteAllowed(p) /\ worktreeClean' = FALSE /\ repoMu' = p /\ Goto(p, "commit")
     \/ ~WriteAllowed(p) /\ repoMu' = Free /\ Finish(p) /\ UNCHANGED worktreeClean
  /\ UNCHANGED <<repoMode, head, remoteHead, syncStatus, declaredAt, syncMu, taskVars,
                 repoFaults, unrecorded>>

\* The deferred function restores the worktree when nothing was committed.
CommitPaths(p) ==
  /\ At(p, "commit") /\ worktreeClean' = TRUE
  /\ \/ /\ head' = Append(head, CommitOf(p, MadeHere(head) + 1, TipOf(proc[p].seen)))
        /\ Goto(p, "finalize") /\ UNCHANGED <<repoMu, repoFaults>>
     \/ Fault /\ repoMu' = Free /\ Finish(p) /\ UNCHANGED head
  /\ UNCHANGED <<repoMode, remoteHead, syncStatus, declaredAt, syncMu, taskVars, unrecorded>>

\* Stores the sync status, pushes first in pull-and-push mode, and refreshes the
\* declared services.  Local-first leaves the commit to the next
\* synchronisation; its statement fails when the client is gone.
FinalizeRepoWrite(p) ==
  /\ At(p, "finalize") /\ repoMu' = Free /\ Finish(p)
  /\ \/ /\ repoMode = "local_only" /\ declaredAt' = head
        /\ UNCHANGED <<remoteHead, syncStatus, repoFaults, unrecorded>>
     \/ /\ repoMode = "local_first" /\ declaredAt' = head /\ syncStatus' = "pending_sync"
        /\ UNCHANGED <<remoteHead, repoFaults, unrecorded>>
     \/ /\ repoMode = "local_first" /\ Fault /\ unrecorded' = TRUE
        /\ UNCHANGED <<remoteHead, syncStatus, declaredAt>>
     \/ /\ repoMode = "pull_push" /\ CanPush(head)
        /\ remoteHead' = head /\ syncStatus' = "synced" /\ declaredAt' = head
        /\ UNCHANGED <<repoFaults, unrecorded>>
     \/ /\ repoMode = "pull_push" /\ syncStatus' = "push_failed" /\ declaredAt' = head
        /\ \/ ~CanPush(head) /\ UNCHANGED <<remoteHead, repoFaults>>
           \/ Fault /\ remoteHead' \in MaybePushed(head)
        /\ UNCHANGED unrecorded
  /\ UNCHANGED <<repoMode, head, worktreeClean, syncMu, taskVars>>

-----------------------------------------------------------------------------
(* SyncRepo and the periodic synchronisation in pull-and-push mode.          *)

PullRepo(p, ok) ==
  /\ p \in Callers /\ repoMode = "pull_push" /\ repoMu = Free
  /\ SyncRepoLocked(ok)
  /\ declaredAt' = IF ok THEN head' ELSE declaredAt
  /\ UNCHANGED <<repoMode, remoteHead, worktreeClean, repoMu, syncMu, proc, taskVars, unrecorded>>

\* autoPullFetchAndFastForward; what follows a change happens without repoMu.
AutoPullFastForward(ok) ==
  /\ At(AutoPull, "idle") /\ repoMode = "pull_push" /\ repoMu = Free
  /\ SyncRepoLocked(ok)
  /\ IF head' # head
       THEN Set(AutoPull, [Idle EXCEPT !.at = "discover", !.seen = head'])
       ELSE UNCHANGED proc
  /\ UNCHANGED <<repoMode, remoteHead, worktreeClean, declaredAt, repoMu, syncMu, taskVars,
                 unrecorded>>

-----------------------------------------------------------------------------
(* syncLocalFirstRepo                                                       *)

LockSync(p) ==
  /\ p \in Callers \cup {AutoPull} /\ At(p, "idle")
  /\ repoMode = "local_first" /\ syncMu = Free
  /\ syncMu' = p /\ Goto(p, "fetch")
  /\ UNCHANGED <<repoMode, gitVars, syncStatus, declaredAt, repoMu, taskVars, repoFaults,
                 unrecorded>>

FetchRevision(p) ==
  /\ At(p, "fetch")
  /\ \/ /\ Set(p, [Idle EXCEPT !.at = "apply", !.seen = remoteHead])
        /\ UNCHANGED repoFaults
     \/ Fault /\ Goto(p, "pull_failed")
  /\ UNCHANGED <<repoMode, gitVars, syncStatus, declaredAt, repoMu, syncMu, taskVars,
                 unrecorded>>

\* Under repoMu.  Histories that diverged need a person.
ApplyFetchedRevision(p) ==
  /\ At(p, "apply") /\ repoMu = Free
  /\ \/ /\ worktreeClean /\ CanFastForward(proc[p].seen)
        /\ head' = FastForwardRevision(proc[p].seen) /\ declaredAt' = head'
        /\ Set(p, [Idle EXCEPT !.at = "push", !.seen = head', !.old = head])
     \/ /\ ~(worktreeClean /\ CanFastForward(proc[p].seen))
        /\ Set(p, [Idle EXCEPT !.at = "pull_failed"])
        /\ UNCHANGED <<head, declaredAt>>
  /\ UNCHANGED <<repoMode, remoteHead, worktreeClean, syncStatus, repoMu, syncMu, taskVars,
                 repoFaults, unrecorded>>

\* The commit that was current, not HEAD: writes go on while the network stalls.
PushRevision(p) ==
  /\ At(p, "push")
  /\ \/ /\ CanPush(proc[p].seen) /\ remoteHead' = proc[p].seen
        /\ Goto(p, "finish") /\ UNCHANGED repoFaults
     \/ /\ Goto(p, "push_failed")
        /\ \/ ~CanPush(proc[p].seen) /\ UNCHANGED <<remoteHead, repoFaults>>
           \/ Fault /\ remoteHead' \in MaybePushed(proc[p].seen)
  /\ UNCHANGED <<repoMode, head, worktreeClean, syncStatus, declaredAt, repoMu, syncMu,
                 taskVars, unrecorded>>

\* Mutant: the pushed commit is not compared with HEAD.
PersistSyncedAlways(p) ==
  /\ At(p, "finish") /\ repoMu = Free
  /\ syncStatus' = "synced"
  /\ unrecorded' = FALSE /\ Goto(p, "return")
  /\ UNCHANGED <<repoMode, gitVars, declaredAt, repoMu, syncMu, taskVars, repoFaults>>

\* Under repoMu: writes that came meanwhile are still to be pushed.
PersistSynced(p) ==
  /\ At(p, "finish") /\ repoMu = Free
  /\ syncStatus' = IF head = proc[p].seen THEN "synced" ELSE "pending_sync"
  /\ unrecorded' = FALSE /\ Goto(p, "return")
  /\ UNCHANGED <<repoMode, gitVars, declaredAt, repoMu, syncMu, taskVars, repoFaults>>

RecordRepoSyncFailure(p) ==
  /\ proc[p].at \in {"pull_failed", "push_failed"} /\ repoMu = Free
  /\ syncStatus' = proc[p].at /\ Goto(p, "return")
  /\ UNCHANGED <<repoMode, gitVars, declaredAt, repoMu, syncMu, taskVars, repoFaults,
                 unrecorded>>

\* The periodic loop goes on with what changed, whatever the outcome; SyncRepo
\* refreshes the declared services once more under repoMu.
ReturnFromSync(p) ==
  /\ At(p, "return") /\ syncMu' = Free
  /\ \/ /\ p = AutoPull /\ UNCHANGED declaredAt
        /\ IF proc[p].seen # proc[p].old THEN Goto(p, "discover") ELSE Finish(p)
     \/ p \in Callers /\ repoMu = Free /\ declaredAt' = Worktree /\ Finish(p)
  /\ UNCHANGED <<repoMode, gitVars, syncStatus, repoMu, taskVars, repoFaults, unrecorded>>

-----------------------------------------------------------------------------
(* What the periodic loop does with a new revision, without repoMu.         *)

DiscoverServices ==
  /\ At(AutoPull, "discover")
  /\ proc' = [proc EXCEPT ![AutoPull].at = "declare", ![AutoPull].read = Worktree]
  /\ UNCHANGED <<repoMode, gitVars, syncStatus, declaredAt, repoMu, syncMu, taskVars,
                 repoFaults, unrecorded>>

\* The services are stored, and every affected one is marked, deployed or not.
SetServicePendingDeploy ==
  /\ At(AutoPull, "declare")
  /\ declaredAt' = proc[AutoPull].read
  /\ pendingDeploy' = proc[AutoPull].seen /\ autoPulled' = proc[AutoPull].seen
  /\ Set(AutoPull, [Idle EXCEPT !.at = "deploy"])
  /\ UNCHANGED <<repoMode, gitVars, syncStatus, repoMu, syncMu, serviceBusy, deployed,
                 repoFaults, unrecorded>>

\* createServiceTasksWithOptions reads HEAD, admits the task unless the service
\* has one, and then clears the mark: three steps, none of them under repoMu.
ReadRevisionToDeploy(p) ==
  /\ p \in {AutoPull} \cup Deployers
  /\ At(p, IF p = AutoPull THEN "deploy" ELSE "idle")
  /\ Set(p, [Idle EXCEPT !.at = "admit", !.seen = head])
  /\ UNCHANGED <<repoMode, gitVars, syncStatus, declaredAt, repoMu, syncMu, taskVars,
                 repoFaults, unrecorded>>

AdmitDeploy(p) ==
  /\ At(p, "admit") /\ ~serviceBusy
  /\ serviceBusy' = TRUE /\ deployed' = proc[p].seen /\ Goto(p, "clear")
  /\ UNCHANGED <<repoMode, gitVars, syncStatus, declaredAt, repoMu, syncMu, pendingDeploy,
                 autoPulled, repoFaults, unrecorded>>

Done(p) == IF p \in Deployers THEN Set(p, [Idle EXCEPT !.at = "done"]) ELSE Finish(p)

\* auto_deploy is off for the service, or the service is busy.
NoDeploy(p) ==
  /\ At(p, "deploy") \/ (At(p, "admit") /\ serviceBusy)
  /\ Done(p)
  /\ UNCHANGED <<repoMode, gitVars, syncStatus, declaredAt, repoMu, syncMu, taskVars,
                 repoFaults, unrecorded>>

ClearServicePendingDeploy(p) ==
  /\ At(p, "clear") /\ pendingDeploy' = NoRevision /\ Done(p)
  /\ UNCHANGED <<repoMode, gitVars, syncStatus, declaredAt, repoMu, syncMu, serviceBusy,
                 deployed, autoPulled, repoFaults, unrecorded>>

-----------------------------------------------------------------------------
(* The environment.                                                         *)

TaskEnds ==
  /\ serviceBusy /\ serviceBusy' = FALSE
  /\ UNCHANGED <<repoMode, gitVars, syncStatus, declaredAt, repoMu, syncMu, proc, deployed,
                 pendingDeploy, autoPulled, repoFaults, unrecorded>>

SomeonePushes ==
  /\ repoMode # "local_only" /\ PushedByOthers(remoteHead) <= MaxPushed
  /\ remoteHead' = Append(remoteHead,
                          CommitOf("other", PushedByOthers(remoteHead), TipOf(remoteHead)))
  /\ UNCHANGED <<repoMode, head, worktreeClean, syncStatus, declaredAt, repoMu, syncMu, proc,
                 taskVars, repoFaults, unrecorded>>

\* The controller is killed and started again: the locks are free, the worktree
\* is as it was left, and the declared services are read from it.
RestartController ==
  /\ Fault
  /\ unrecorded' = (unrecorded \/ \E p \in Writers : At(p, "finalize"))
  /\ proc' = [p \in RepoProcs |-> IF At(p, "done") THEN proc[p] ELSE Idle]
  /\ repoMu' = Free /\ syncMu' = Free /\ declaredAt' = Worktree
  /\ UNCHANGED <<repoMode, gitVars, syncStatus, taskVars>>

RepoNext ==
  \/ \E p \in Writers :
       \/ ReadHead(p) \/ PrepareRepoWrite(p) \/ CommitPaths(p) \/ FinalizeRepoWrite(p)
       \/ \E ok \in BOOLEAN : SyncRepoBeforeWrite(p, ok)
  \/ \E ok \in BOOLEAN : AutoPullFastForward(ok) \/ \E p \in Callers : PullRepo(p, ok)
  \/ \E p \in Callers \cup {AutoPull} :
       \/ LockSync(p) \/ FetchRevision(p) \/ ApplyFetchedRevision(p) \/ PushRevision(p)
       \/ PersistSynced(p) \/ RecordRepoSyncFailure(p) \/ ReturnFromSync(p)
  \/ DiscoverServices \/ SetServicePendingDeploy
  \/ \E p \in {AutoPull} \cup Deployers :
       ReadRevisionToDeploy(p) \/ AdmitDeploy(p) \/ NoDeploy(p) \/ ClearServicePendingDeploy(p)
  \/ TaskEnds \/ SomeonePushes \/ RestartController

RepoSpec == RepoInit /\ [][RepoNext]_repoVars

-----------------------------------------------------------------------------
(* Properties                                                               *)

IsHistory(rev) ==
  \A i \in 1..Len(rev) : rev[i].onto = TipOf(SubSeq(rev, 1, i - 1))

\* Every commit was made on the revision its author had read, in the working
\* copy and at the remote: no write is applied to something the user never saw.
CommitsOnWhatWasSeen == IsHistory(head) /\ IsHistory(remoteHead)

\* Between two critical sections the worktree holds what is committed, unless
\* the controller was killed inside a write.
WorktreeIsCommitted == repoMu = Free /\ repoFaults = 0 => worktreeClean

\* Local-first: "synced" is only shown when no commit waits to be pushed.  A
\* commit whose status could not be stored is excused until the next sync.
SyncedMeansPushed ==
  repoMode = "local_first" /\ syncStatus = "synced" /\ repoMu = Free /\ ~unrecorded
    => IsPrefix(head, remoteHead)

\* Until the periodic loop stores services it read without repoMu, the declared
\* services are those of HEAD whenever nobody holds repoMu.
DeclaredFollowsHead ==
  /\ repoMode = "local_first" /\ repoMu = Free /\ repoFaults = 0 /\ autoPulled = Root
  => declaredAt = head

\* What users are shown of the repository is true.
RepoIsHonest ==
  CommitsOnWhatWasSeen /\ WorktreeIsCommitted /\ SyncedMeansPushed /\ DeclaredFollowsHead

\* No commit is ever dropped, here or at the remote.
NoCommitIsDropped == [][IsPrefix(head, head') /\ IsPrefix(remoteHead, remoteHead')]_repoVars

\* No commit is ever dropped, and in local-first mode all of them reach the
\* remote unless the histories diverged or a killed write left the worktree
\* dirty.
Diverged == ~IsPrefix(head, remoteHead) /\ ~IsPrefix(remoteHead, head)
WritesReachTheRemote ==
  /\ NoCommitIsDropped
  /\ []<>(repoMode # "local_first" \/ IsPrefix(head, remoteHead) \/ Diverged \/ ~worktreeClean)
=============================================================================
