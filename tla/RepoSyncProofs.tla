--------------------------- MODULE RepoSyncProofs ---------------------------
(***************************************************************************)
(* Why what users are shown of the repository is true, for any number of   *)
(* writers, callers of SyncRepo, deployments, pushes of others and faults. *)
(* The argument is about histories: repoMu lets only its holder move HEAD  *)
(* between a check and a commit, and a revision that was fetched or pushed *)
(* stays a prefix of a remote that nobody pushes to with force.            *)
(* Below: why the tree of files is restored or committed as a whole, and   *)
(* why what is published of it follows the declarations.                   *)
(***************************************************************************)
EXTENDS RepoSync, RepoFiles, DnsSync, SequenceTheorems, FiniteSetTheorems, WellFoundedInduction, TLAPS

Authors == RepoProcs \cup {"other", "nobody"}
Tips == {<<>>} \cup (Authors \X Nat)
Commits == [by : Authors, n : Nat, onto : Tips]
Revisions == Seq(Commits)
Places == {"idle", "edit", "check", "commit", "finalize", "fetch", "apply", "push", "finish",
           "pull_failed", "push_failed", "return", "discover", "declare", "deploy", "admit",
           "clear", "done"}
Procs == [at : Places, seen : Revisions, old : Revisions, read : Revisions]

RepoTypeOK ==
  /\ head \in Revisions /\ remoteHead \in Revisions /\ Len(head) > 0 /\ Len(remoteHead) > 0
  /\ worktreeClean \in BOOLEAN /\ unrecorded \in BOOLEAN /\ repoFaults \in Nat
  /\ proc \in [RepoProcs -> Procs]

\* Between its check and its status a write holds repoMu, and HEAD is what its
\* user had read; what was fetched or pushed is part of the remote; and what
\* the periodic loop goes on with is either unchanged or new.
ProcInv(p) ==
  /\ IsHistory(proc[p].seen)
  /\ proc[p].at \in {"check", "commit", "finalize"} => repoMu = p
  /\ repoMu = p => p \in Writers /\ proc[p].at \in {"check", "commit", "finalize"}
  /\ proc[p].at = "commit" => proc[p].seen = head
  /\ proc[p].at \in {"apply", "finish"} => IsPrefix(proc[p].seen, remoteHead)
  /\ proc[p].at \in {"idle", "fetch", "push", "finish", "pull_failed", "push_failed", "return"} =>
       proc[p].seen = proc[p].old \/ Len(proc[p].seen) > 1
  /\ proc[p].at \in {"discover", "declare"} => Len(proc[p].seen) > 1

Writing(where) == \E p \in Writers : proc[p].at = where
CleanInv == repoFaults = 0 /\ ~worktreeClean => Writing("commit")
SyncedInv ==
  repoMode = "local_first" /\ syncStatus = "synced" /\ ~unrecorded
    => IsPrefix(head, remoteHead) \/ Writing("finalize")
DeclaredInv ==
  repoMode = "local_first" /\ repoFaults = 0 /\ autoPulled = Root
    => declaredAt = head \/ Writing("finalize")

RepoInv ==
  /\ RepoTypeOK
  /\ IsHistory(head) /\ IsHistory(remoteHead)
  /\ \A p \in RepoProcs : ProcInv(p)
  /\ CleanInv /\ SyncedInv /\ DeclaredInv

-----------------------------------------------------------------------------
(* Histories *)

LEMMA PrefixMeans ==
  ASSUME NEW s \in Revisions, NEW t \in Revisions
  PROVE  IsPrefix(s, t) <=> Len(s) <= Len(t) /\ \A i \in 1..Len(s) : s[i] = t[i]
<1>1. Len(s) \in Nat /\ Len(t) \in Nat
  BY DEF Revisions
<1>2. CASE Len(s) > Len(t)
  BY <1>1, <1>2 DEF IsPrefix
<1>3. CASE Len(s) <= Len(t)
  <2>1. \A i \in 1..Len(s) : s[i] \in Commits /\ t[i] \in Commits
    BY <1>1, <1>3, ElementOfSeq DEF Revisions
  <2>2. /\ SubSeq(s, 1, Len(s)) \in Seq(Commits) /\ Len(SubSeq(s, 1, Len(s))) = Len(s)
        /\ \A i \in 1..Len(s) : SubSeq(s, 1, Len(s))[i] = s[i]
    BY <1>1, <2>1, SubSeqProperties
  <2>3. /\ SubSeq(t, 1, Len(s)) \in Seq(Commits) /\ Len(SubSeq(t, 1, Len(s))) = Len(s)
        /\ \A i \in 1..Len(s) : SubSeq(t, 1, Len(s))[i] = t[i]
    BY <1>1, <2>1, SubSeqProperties
  <2>4. SubSeq(s, 1, Len(s)) = SubSeq(t, 1, Len(s)) <=> \A i \in 1..Len(s) : s[i] = t[i]
    BY <2>2, <2>3, SeqEqual
  <2> QED  BY <1>3, <2>4 DEF IsPrefix
<1> QED  BY <1>1, <1>2, <1>3

LEMMA PrefixFacts ==
  /\ \A s \in Revisions : IsPrefix(s, s) /\ Len(s) \in Nat
  /\ \A s, t, u \in Revisions : IsPrefix(s, t) /\ IsPrefix(t, u) => IsPrefix(s, u)
  /\ \A s, t \in Revisions : IsPrefix(s, t) /\ s # t => Len(s) < Len(t)
  /\ \A s \in Revisions, c \in Commits :
       Append(s, c) \in Revisions /\ IsPrefix(s, Append(s, c)) /\ Len(Append(s, c)) > 0
<1>1. \A s \in Revisions : IsPrefix(s, s) /\ Len(s) \in Nat
  BY PrefixMeans DEF Revisions
<1>2. \A s, t, u \in Revisions : IsPrefix(s, t) /\ IsPrefix(t, u) => IsPrefix(s, u)
  <2> TAKE s, t, u \in Revisions
  <2>1. Len(s) \in Nat /\ Len(t) \in Nat /\ Len(u) \in Nat
    BY <1>1
  <2> QED  BY <2>1, PrefixMeans
<1>3. \A s, t \in Revisions : IsPrefix(s, t) /\ s # t => Len(s) < Len(t)
  <2> SUFFICES ASSUME NEW s \in Revisions, NEW t \in Revisions, IsPrefix(s, t), Len(s) >= Len(t)
               PROVE  s = t
    BY <1>1
  <2>1. Len(s) = Len(t) /\ \A i \in 1..Len(s) : s[i] = t[i]
    BY <1>1, PrefixMeans
  <2> QED  BY <2>1, SeqEqual DEF Revisions
<1>4. \A s \in Revisions, c \in Commits :
        Append(s, c) \in Revisions /\ IsPrefix(s, Append(s, c)) /\ Len(Append(s, c)) > 0
  <2> TAKE s \in Revisions, c \in Commits
  <2>1. /\ Append(s, c) \in Revisions /\ Len(Append(s, c)) = Len(s) + 1
        /\ \A i \in 1..Len(s) : Append(s, c)[i] = s[i]
    BY AppendProperties DEF Revisions
  <2>2. Len(s) \in Nat
    BY <1>1
  <2>3. IsPrefix(s, Append(s, c)) <=>
          Len(s) <= Len(Append(s, c)) /\ \A i \in 1..Len(s) : s[i] = Append(s, c)[i]
    BY <2>1, PrefixMeans
  <2> QED  BY <2>1, <2>2, <2>3
<1> QED  BY <1>1, <1>2, <1>3, <1>4

LEMMA TipType ==
  ASSUME NEW s \in Revisions
  PROVE  TipOf(s) \in Tips
<1>1. CASE s = <<>>
  BY <1>1 DEF TipOf, Tips
<1>2. CASE s # <<>>
  <2>1. Len(s) \in 1..Len(s)
    BY <1>2, EmptySeq DEF Revisions
  <2>2. s[Len(s)] \in Commits
    BY <2>1, ElementOfSeq DEF Revisions
  <2> QED  BY <1>2, <2>2 DEF TipOf, Last, Commits, Tips
<1> QED  BY <1>1, <1>2

LEMMA CommitType ==
  ASSUME NEW who \in Authors, NEW k \in Nat, NEW s \in Revisions
  PROVE  CommitOf(who, k, TipOf(s)) \in Commits /\ CommitOf(who, k, TipOf(s)).onto = TipOf(s)
BY TipType DEF CommitOf, Commits

\* A commit whose parent is the tip extends a history.
LEMMA HistoryExtends ==
  ASSUME NEW s \in Revisions, NEW c \in Commits, IsHistory(s), c.onto = TipOf(s)
  PROVE  IsHistory(Append(s, c))
<1> DEFINE t == Append(s, c)
<1>1. /\ t \in Seq(Commits) /\ Len(t) = Len(s) + 1 /\ Len(s) \in Nat
      /\ \A i \in 1..Len(s) : t[i] = s[i] /\ s[i] \in Commits
      /\ t[Len(s) + 1] = c
  BY AppendProperties, ElementOfSeq DEF Revisions
<1> HIDE DEF t
<1>2. \A k \in 0..Len(s) : SubSeq(t, 1, k) = SubSeq(s, 1, k)
  <2> TAKE k \in 0..Len(s)
  <2>1. k \in Int /\ \A i \in 1..k : t[i] = s[i] /\ s[i] \in Commits /\ t[i] \in Commits
    BY <1>1
  <2>2. /\ SubSeq(t, 1, k) \in Seq(Commits) /\ Len(SubSeq(t, 1, k)) = k
        /\ \A i \in 1..k : SubSeq(t, 1, k)[i] = t[i]
    BY <1>1, <2>1, SubSeqProperties
  <2>3. /\ SubSeq(s, 1, k) \in Seq(Commits) /\ Len(SubSeq(s, 1, k)) = k
        /\ \A i \in 1..k : SubSeq(s, 1, k)[i] = s[i]
    BY <1>1, <2>1, SubSeqProperties
  <2> QED  BY <2>1, <2>2, <2>3, SeqEqual
<1>3. SubSeq(s, 1, Len(s)) = s
  BY SubSeqFull DEF Revisions
<1>4. \A i \in 1..Len(t) : t[i].onto = TipOf(SubSeq(t, 1, i - 1))
  <2> TAKE i \in 1..Len(t)
  <2>1. CASE i = Len(s) + 1
    <3>1. i - 1 = Len(s) /\ Len(s) \in 0..Len(s) /\ t[i] = c
      BY <1>1, <2>1
    <3>2. SubSeq(t, 1, i - 1) = s
      BY <1>2, <1>3, <3>1
    <3> QED  BY <3>1, <3>2
  <2>2. CASE i <= Len(s)
    <3>1. i \in 1..Len(s) /\ i - 1 \in 0..Len(s)
      BY <1>1, <2>2
    <3>2. SubSeq(t, 1, i - 1) = SubSeq(s, 1, i - 1) /\ t[i] = s[i]
      BY <1>1, <1>2, <3>1
    <3> QED  BY <3>1, <3>2 DEF IsHistory
  <2> QED  BY <1>1, <2>1, <2>2
<1> QED  BY <1>4 DEF IsHistory, t

LEMMA CountType ==
  ASSUME NEW s \in Revisions
  PROVE  MadeHere(s) \in Nat /\ PushedByOthers(s) \in Nat
<1>1. Len(s) \in Nat
  BY PrefixFacts
<1>2. IsFiniteSet(1..Len(s))
  BY <1>1, FS_Interval
<1>3. \A T \in SUBSET (1..Len(s)) : Cardinality(T) \in Nat
  BY <1>2, FS_Subset, FS_CardinalityType
<1> QED  BY <1>3 DEF MadeHere, PushedByOthers

LEMMA Constants ==
  /\ Root \in Revisions /\ Len(Root) = 1 /\ IsHistory(Root) /\ Torn \in Revisions
  /\ NoRevision \in Revisions /\ IsHistory(NoRevision) /\ Len(NoRevision) = 0
  /\ Idle \in Procs /\ Idle.at = "idle" /\ Idle.seen = NoRevision /\ Idle.old = NoRevision
<1>1. /\ CommitOf("other", 0, <<>>) \in Commits /\ CommitOf("other", 0, <<>>).onto = <<>>
      /\ CommitOf("nobody", 0, <<>>) \in Commits
  BY DEF CommitOf, Commits, Authors, Tips
<1>2. Root \in Revisions /\ Len(Root) = 1 /\ Torn \in Revisions
      /\ Root[1] = CommitOf("other", 0, <<>>)
  BY <1>1 DEF Root, Torn, Revisions
<1>3. SubSeq(Root, 1, 0) = <<>>
  BY SubSeqEmpty
<1>4. IsHistory(Root)
  <2>1. \A i \in 1..1 : i = 1
    OBVIOUS
  <2> QED  BY <1>1, <1>2, <1>3, <2>1 DEF IsHistory, TipOf
<1>5. NoRevision \in Revisions /\ IsHistory(NoRevision) /\ Len(NoRevision) = 0
  BY EmptySeq DEF NoRevision, Revisions, IsHistory
<1>6. Idle \in Procs /\ Idle.at = "idle" /\ Idle.seen = NoRevision /\ Idle.old = NoRevision
  BY <1>5 DEF Idle, Procs, Places
<1> QED  BY <1>2, <1>4, <1>5, <1>6

-----------------------------------------------------------------------------
(* Steps *)

\* A process moves: its own part and the three promises are left to show.
LEMMA StepKept ==
  ASSUME RepoInv, NEW p \in RepoProcs, RepoTypeOK',
         \A q \in RepoProcs : q # p => proc'[q] = proc[q],
         IsHistory(head'), IsHistory(remoteHead'), IsPrefix(remoteHead, remoteHead'),
         head' = head \/ repoMu \in {Free, p},
         repoMu' = repoMu \/ (repoMu \in {Free, p} /\ repoMu' \in {Free, p}),
         ProcInv(p)', CleanInv', SyncedInv', DeclaredInv'
  PROVE  RepoInv'
<1>1. ASSUME NEW q \in RepoProcs, q # p PROVE ProcInv(q)'
  <2>1. ProcInv(q) /\ proc'[q] = proc[q]
    BY <1>1 DEF RepoInv
  <2>2. repoMu' = q <=> repoMu = q
    BY <1>1, RepoAssumption
  <2>3. proc[q].seen \in Revisions /\ remoteHead \in Revisions /\ remoteHead' \in Revisions
    BY DEF RepoInv, RepoTypeOK, Procs
  <2>4. IsPrefix(proc[q].seen, remoteHead) => IsPrefix(proc[q].seen, remoteHead')
    BY <2>3, PrefixFacts
  <2>5. repoMu = q => head' = head
    BY <1>1, RepoAssumption
  <2> QED  BY <2>1, <2>2, <2>4, <2>5 DEF ProcInv
<1> QED  BY <1>1 DEF RepoInv

\* A process that neither writes nor moves a revision.
LEMMA QuietKept ==
  ASSUME RepoInv, NEW p \in RepoProcs, NEW r \in Procs, proc' = [proc EXCEPT ![p] = r],
         UNCHANGED <<repoMode, head, remoteHead, worktreeClean, repoMu, unrecorded>>,
         repoFaults' \in Nat, repoFaults' >= repoFaults,
         proc[p].at \notin {"check", "commit", "finalize"},
         r.at \notin {"check", "commit", "finalize"},
         IsHistory(r.seen),
         r.at \in {"apply", "finish"} => IsPrefix(r.seen, remoteHead),
         r.at \in {"idle", "fetch", "push", "finish", "pull_failed", "push_failed", "return"} =>
           r.seen = r.old \/ Len(r.seen) > 1,
         r.at \in {"discover", "declare"} => Len(r.seen) > 1,
         SyncedInv => SyncedInv', DeclaredInv => DeclaredInv'
  PROVE  RepoInv'
<1>1. /\ RepoTypeOK' /\ proc'[p] = r /\ \A q \in RepoProcs : q # p => proc'[q] = proc[q]
  BY DEF RepoInv, RepoTypeOK
<1>2. repoMu # p
  BY DEF RepoInv, ProcInv
<1>3. ProcInv(p)'
  BY <1>1, <1>2 DEF ProcInv
<1>4. CleanInv'
  <2>1. repoFaults' = 0 => repoFaults = 0
    BY DEF RepoInv, RepoTypeOK
  <2>2. Writing("commit") => Writing("commit")'
    BY <1>1 DEF Writing, RepoProcs
  <2> QED  BY <2>1, <2>2 DEF RepoInv, CleanInv
<1>5. IsPrefix(remoteHead, remoteHead')
  BY PrefixFacts DEF RepoInv, RepoTypeOK
<1> QED  BY <1>1, <1>3, <1>4, <1>5, StepKept DEF RepoInv

\* Nothing of what the promises are about has changed.
LEMMA SamePromises ==
  ASSUME RepoInv, NEW p \in RepoProcs,
         \A q \in RepoProcs : q # p => proc'[q] = proc[q],
         proc[p].at # "finalize",
         UNCHANGED <<repoMode, head, remoteHead, unrecorded>>,
         repoFaults' \in Nat, repoFaults' >= repoFaults
  PROVE  /\ syncStatus' = syncStatus \/ syncStatus' # "synced" => (SyncedInv => SyncedInv')
         /\ UNCHANGED <<declaredAt, autoPulled>> => (DeclaredInv => DeclaredInv')
<1>1. Writing("finalize") => Writing("finalize")'
  BY DEF Writing, RepoProcs
<1>2. repoFaults' = 0 => repoFaults = 0
  BY DEF RepoInv, RepoTypeOK
<1> QED  BY <1>1, <1>2 DEF SyncedInv, DeclaredInv

\* What a process becomes, by the form of the statement that moves it.
LEMMA GotoMoves ==
  ASSUME RepoInv, NEW p \in RepoProcs, NEW w \in Places, Goto(p, w)
  PROVE  \E r \in Procs : /\ proc' = [proc EXCEPT ![p] = r] /\ r.at = w
                          /\ r.seen = proc[p].seen /\ r.old = proc[p].old
<1> DEFINE r == [proc[p] EXCEPT !.at = w]
<1>1. proc[p] \in Procs /\ proc \in [RepoProcs -> Procs]
  BY DEF RepoInv, RepoTypeOK
<1>2. r \in Procs /\ r.at = w /\ r.seen = proc[p].seen /\ r.old = proc[p].old
  BY <1>1 DEF Procs
<1>3. proc' = [proc EXCEPT ![p] = r]
  BY <1>1 DEF Goto
<1> QED  BY <1>2, <1>3

Becomes(p, w, s, o) ==
  \E r \in Procs : proc' = [proc EXCEPT ![p] = r] /\ r.at = w /\ r.seen = s /\ r.old = o

LEMMA IdleIs == /\ Idle = [at |-> "idle", seen |-> NoRevision, old |-> NoRevision, read |-> NoRevision]
                /\ NoRevision \in Revisions
BY Constants DEF Idle

LEMMA SetApplied ==
  ASSUME NEW p, NEW w \in Places, NEW s \in Revisions, NEW o \in Revisions,
         Set(p, [Idle EXCEPT !.at = w, !.seen = s, !.old = o])
  PROVE  Becomes(p, w, s, o)
<1> DEFINE r == [Idle EXCEPT !.at = w, !.seen = s, !.old = o]
<1>1. r \in Procs /\ r.at = w /\ r.seen = s /\ r.old = o
  BY IdleIs DEF Procs, Places
<1>2. proc' = [proc EXCEPT ![p] = r]
  BY DEF Set
<1> HIDE DEF r
<1> QED  BY <1>1, <1>2 DEF Becomes

LEMMA SetSeen ==
  ASSUME NEW p, NEW w \in Places, NEW s \in Revisions, Set(p, [Idle EXCEPT !.at = w, !.seen = s])
  PROVE  Becomes(p, w, s, NoRevision)
<1> DEFINE r == [Idle EXCEPT !.at = w, !.seen = s]
<1>1. r \in Procs /\ r.at = w /\ r.seen = s /\ r.old = NoRevision
  BY IdleIs DEF Procs, Places
<1>2. proc' = [proc EXCEPT ![p] = r]
  BY DEF Set
<1> HIDE DEF r
<1> QED  BY <1>1, <1>2 DEF Becomes

LEMMA SetAt ==
  ASSUME NEW p, NEW w \in Places, Set(p, [Idle EXCEPT !.at = w])
  PROVE  Becomes(p, w, NoRevision, NoRevision)
<1> DEFINE r == [Idle EXCEPT !.at = w]
<1>1. r \in Procs /\ r.at = w /\ r.seen = NoRevision /\ r.old = NoRevision
  BY IdleIs DEF Procs, Places
<1>2. proc' = [proc EXCEPT ![p] = r]
  BY DEF Set
<1> HIDE DEF r
<1> QED  BY <1>1, <1>2 DEF Becomes

LEMMA SetIdle ==
  ASSUME NEW p, Finish(p)
  PROVE  Becomes(p, "idle", NoRevision, NoRevision)
<1> DEFINE r == Idle
<1>1. r \in Procs /\ r.at = "idle" /\ r.seen = NoRevision /\ r.old = NoRevision
  BY IdleIs DEF Procs, Places
<1>2. proc' = [proc EXCEPT ![p] = r]
  BY DEF Finish, Set
<1> HIDE DEF r
<1> QED  BY <1>1, <1>2 DEF Becomes

\* The steps that only read HEAD.
LEMMA ReadHeadKept ==
  ASSUME RepoInv, NEW p \in RepoProcs, ReadHead(p) \/ ReadRevisionToDeploy(p)
  PROVE  RepoInv'
<1>0. head \in Revisions /\ NoRevision \in Revisions
  BY Constants DEF RepoInv, RepoTypeOK
<1>1. PICK w \in {"edit", "admit"} : Set(p, [Idle EXCEPT !.at = w, !.seen = head])
  BY DEF ReadHead, ReadRevisionToDeploy
<1>2. PICK r \in Procs : proc' = [proc EXCEPT ![p] = r] /\ r.at = w /\ r.seen = head
  <2>1. w \in Places
    BY DEF Places
  <2>2. Becomes(p, w, head, NoRevision)
    BY <1>0, <1>1, <2>1, SetSeen
  <2> QED  BY <2>2 DEF Becomes
<1>3. /\ proc[p].at \in {"idle", "deploy"}
      /\ UNCHANGED <<repoMode, head, remoteHead, worktreeClean, repoMu, unrecorded, repoFaults,
                     syncStatus, declaredAt, autoPulled>>
  BY DEF ReadHead, ReadRevisionToDeploy, At, gitVars, taskVars
<1>4. \A q \in RepoProcs : q # p => proc'[q] = proc[q]
  BY <1>2 DEF RepoInv, RepoTypeOK
<1>5. repoFaults' \in Nat /\ repoFaults' >= repoFaults
  BY <1>3 DEF RepoInv, RepoTypeOK
<1>6. (SyncedInv => SyncedInv') /\ (DeclaredInv => DeclaredInv')
  BY <1>3, <1>4, <1>5, SamePromises
<1> QED  BY <1>1, <1>2, <1>3, <1>5, <1>6, QuietKept DEF RepoInv

\* A step of p to another place that keeps what p knows.
LEMMA GotoKept ==
  ASSUME RepoInv, NEW p \in RepoProcs, NEW w \in Places, Goto(p, w),
         UNCHANGED <<repoMode, head, remoteHead, worktreeClean, repoMu, unrecorded, declaredAt,
                     autoPulled>>,
         repoFaults' \in Nat, repoFaults' >= repoFaults,
         syncStatus' = syncStatus \/ syncStatus' # "synced",
         proc[p].at \notin {"check", "commit", "finalize"},
         w \notin {"check", "commit", "finalize", "apply", "finish"},
         w \in {"idle", "fetch", "push", "pull_failed", "push_failed", "return"} =>
           proc[p].seen = proc[p].old \/ Len(proc[p].seen) > 1,
         w \in {"discover", "declare"} => Len(proc[p].seen) > 1
  PROVE  RepoInv'
<1>1. PICK r \in Procs : /\ proc' = [proc EXCEPT ![p] = r] /\ r.at = w
                         /\ r.seen = proc[p].seen /\ r.old = proc[p].old
  BY GotoMoves
<1>2. \A q \in RepoProcs : q # p => proc'[q] = proc[q]
  BY <1>1 DEF RepoInv, RepoTypeOK
<1>3. (SyncedInv => SyncedInv') /\ (DeclaredInv => DeclaredInv')
  BY <1>2, SamePromises
<1>4. IsHistory(proc[p].seen)
  BY DEF RepoInv, ProcInv
<1> QED  BY <1>1, <1>3, <1>4, QuietKept

\* A process ends, or goes on knowing nothing.
LEMMA EndKept ==
  ASSUME RepoInv, NEW p \in RepoProcs,
         NEW w \in {"idle", "pull_failed", "deploy", "done"},
         Set(p, [Idle EXCEPT !.at = w]) \/ (Finish(p) /\ w = "idle"),
         UNCHANGED <<repoMode, head, remoteHead, worktreeClean, repoMu, unrecorded>>,
         repoFaults' \in Nat, repoFaults' >= repoFaults,
         syncStatus' = syncStatus \/ syncStatus' # "synced" \/ repoMode # "local_first",
         proc[p].at \notin {"check", "commit", "finalize"},
         DeclaredInv => DeclaredInv'
  PROVE  RepoInv'
<1>1. PICK r \in Procs : /\ proc' = [proc EXCEPT ![p] = r] /\ r.at = w
                         /\ r.seen = NoRevision /\ r.old = NoRevision
  <2>1. w \in Places
    BY DEF Places
  <2>2. Becomes(p, w, NoRevision, NoRevision)
    BY <2>1, SetAt, SetIdle
  <2> QED  BY <2>2 DEF Becomes
<1>2. \A q \in RepoProcs : q # p => proc'[q] = proc[q]
  BY <1>1 DEF RepoInv, RepoTypeOK
<1>3. SyncedInv => SyncedInv'
  BY <1>2, SamePromises DEF SyncedInv
<1> QED  BY <1>1, <1>3, Constants, QuietKept

-----------------------------------------------------------------------------
(* syncLocalFirstRepo *)

LEMMA LockSyncKept ==
  ASSUME RepoInv, NEW p \in RepoProcs, LockSync(p)
  PROVE  RepoInv'
<1>1. /\ Goto(p, "fetch") /\ proc[p].at = "idle"
      /\ UNCHANGED <<repoMode, head, remoteHead, worktreeClean, repoMu, unrecorded, declaredAt,
                     autoPulled, repoFaults, syncStatus>>
  BY DEF LockSync, At, gitVars, taskVars
<1>2. repoFaults' \in Nat /\ repoFaults' >= repoFaults
  BY <1>1 DEF RepoInv, RepoTypeOK
<1>3. proc[p].seen = proc[p].old \/ Len(proc[p].seen) > 1
  BY <1>1 DEF RepoInv, ProcInv
<1> QED  BY <1>1, <1>2, <1>3, GotoKept DEF Places

LEMMA FetchKept ==
  ASSUME RepoInv, NEW p \in RepoProcs, FetchRevision(p)
  PROVE  RepoInv'
<1>0. /\ proc[p].at = "fetch" /\ remoteHead \in Revisions /\ NoRevision \in Revisions
      /\ UNCHANGED <<repoMode, head, remoteHead, worktreeClean, repoMu, unrecorded, declaredAt,
                     autoPulled, syncStatus>>
  BY Constants DEF FetchRevision, At, gitVars, taskVars, RepoInv, RepoTypeOK
<1>1. repoFaults' \in Nat /\ repoFaults' >= repoFaults
  BY DEF FetchRevision, Fault, RepoInv, RepoTypeOK
<1>2. CASE Goto(p, "pull_failed")
  <2>1. proc[p].seen = proc[p].old \/ Len(proc[p].seen) > 1
    BY <1>0 DEF RepoInv, ProcInv
  <2> QED  BY <1>0, <1>1, <1>2, <2>1, GotoKept DEF Places
<1>3. CASE Set(p, [Idle EXCEPT !.at = "apply", !.seen = remoteHead])
  <2>1. PICK r \in Procs : proc' = [proc EXCEPT ![p] = r] /\ r.at = "apply" /\ r.seen = remoteHead
    <3>1. Becomes(p, "apply", remoteHead, NoRevision)
      BY <1>0, <1>3, SetSeen DEF Places
    <3> QED  BY <3>1 DEF Becomes
  <2>2. \A q \in RepoProcs : q # p => proc'[q] = proc[q]
    BY <2>1 DEF RepoInv, RepoTypeOK
  <2>3. (SyncedInv => SyncedInv') /\ (DeclaredInv => DeclaredInv')
    BY <1>0, <1>1, <2>2, SamePromises
  <2>4. IsPrefix(remoteHead, remoteHead) /\ IsHistory(remoteHead)
    BY <1>0, PrefixFacts DEF RepoInv
  <2> QED  BY <1>0, <1>1, <2>1, <2>3, <2>4, QuietKept
<1> QED  BY <1>2, <1>3 DEF FetchRevision

\* A fast-forward leads to a history that contains HEAD.
LEMMA FastForwardIs ==
  ASSUME RepoInv, NEW rev \in Revisions, IsHistory(rev), CanFastForward(rev)
  PROVE  LET new == FastForwardRevision(rev)
         IN  /\ new \in Revisions /\ IsHistory(new) /\ IsPrefix(head, new) /\ Len(new) > 0
             /\ new = head \/ (new = rev /\ Len(new) > 1)
<1>1. head \in Revisions /\ Len(head) > 0 /\ IsHistory(head) /\ IsPrefix(head, head)
  BY PrefixFacts DEF RepoInv, RepoTypeOK
<1>2. Len(head) \in Nat /\ Len(rev) \in Nat
  BY <1>1, PrefixFacts
<1>3. IsPrefix(head, rev) /\ rev # head => Len(rev) > 1
  BY <1>1, <1>2, PrefixFacts
<1>4. CASE IsPrefix(head, rev) /\ rev # head
  BY <1>1, <1>2, <1>3, <1>4 DEF FastForwardRevision
<1>5. CASE ~(IsPrefix(head, rev) /\ rev # head)
  BY <1>1, <1>5 DEF FastForwardRevision
<1> QED  BY <1>4, <1>5

LEMMA ApplyKept ==
  ASSUME RepoInv, NEW p \in RepoProcs, ApplyFetchedRevision(p)
  PROVE  RepoInv'
<1>0. /\ proc[p].at = "apply" /\ repoMu = Free /\ head \in Revisions /\ remoteHead \in Revisions
      /\ proc[p].seen \in Revisions /\ proc[p].seen \in Revisions /\ IsHistory(proc[p].seen)
      /\ IsPrefix(proc[p].seen, remoteHead)
      /\ UNCHANGED <<repoMode, remoteHead, worktreeClean, repoMu, unrecorded, repoFaults,
                     autoPulled, syncStatus>>
  BY DEF ApplyFetchedRevision, At, taskVars, RepoInv, RepoTypeOK, ProcInv, Procs
<1>1. repoFaults' \in Nat /\ repoFaults' >= repoFaults
  BY <1>0 DEF RepoInv, RepoTypeOK
<1>2. CASE ~(worktreeClean /\ CanFastForward(proc[p].seen))
  <2>1. /\ Set(p, [Idle EXCEPT !.at = "pull_failed"]) /\ UNCHANGED <<head, declaredAt>>
    BY <1>2 DEF ApplyFetchedRevision
  <2>2. PICK r \in Procs : /\ proc' = [proc EXCEPT ![p] = r] /\ r.at = "pull_failed"
                           /\ r.seen = NoRevision /\ r.old = NoRevision
    <3>1. Becomes(p, "pull_failed", NoRevision, NoRevision)
      BY <2>1, SetAt DEF Places
    <3> QED  BY <3>1 DEF Becomes
  <2>3. \A q \in RepoProcs : q # p => proc'[q] = proc[q]
    BY <2>2 DEF RepoInv, RepoTypeOK
  <2>4. DeclaredInv => DeclaredInv'
    BY <1>0, <1>1, <2>1, <2>3, SamePromises
  <2> QED  BY <1>0, <1>1, <2>1, <2>4, EndKept
<1>3. CASE worktreeClean /\ CanFastForward(proc[p].seen)
  <2> DEFINE new == FastForwardRevision(proc[p].seen)
  <2>1. /\ head' = new /\ declaredAt' = head'
        /\ Set(p, [Idle EXCEPT !.at = "push", !.seen = head', !.old = head])
    BY <1>3 DEF ApplyFetchedRevision
  <2>2. /\ new \in Revisions /\ IsHistory(new) /\ IsPrefix(head, new) /\ Len(new) > 0
        /\ new = head \/ (new = proc[p].seen /\ Len(new) > 1)
    BY <1>0, <1>3, FastForwardIs
  <2> HIDE DEF new
  <2>3. PICK r \in Procs : /\ proc' = [proc EXCEPT ![p] = r] /\ r.at = "push"
                           /\ r.seen = head' /\ r.old = head
    <3>1. Becomes(p, "push", head', head)
      BY <1>0, <2>1, <2>2, SetApplied DEF Places
    <3> QED  BY <3>1 DEF Becomes
  <2>4. proc'[p] = r /\ \A q \in RepoProcs : q # p => proc'[q] = proc[q]
    BY <2>3 DEF RepoInv, RepoTypeOK
  <2>5. RepoTypeOK'
    BY <1>0, <2>1, <2>2, <2>3 DEF RepoInv, RepoTypeOK
  <2>6. ProcInv(p)'
    <3>1. repoMu' # p
      BY <1>0, RepoAssumption
    <3> QED  BY <2>1, <2>2, <2>3, <2>4, <3>1 DEF ProcInv
  <2>7. CleanInv'
    BY <1>0, <1>3 DEF CleanInv
  <2>8. SyncedInv'
    <3>1. Writing("finalize") => Writing("finalize")'
      BY <1>0, <2>4 DEF Writing, RepoProcs
    <3>2. IsPrefix(head, remoteHead) => IsPrefix(head', remoteHead')
      BY <1>0, <2>1, <2>2
    <3> QED  BY <1>0, <3>1, <3>2 DEF RepoInv, SyncedInv
  <2>9. DeclaredInv'
    BY <2>1 DEF DeclaredInv
  <2>10. IsPrefix(remoteHead, remoteHead') /\ IsHistory(head') /\ IsHistory(remoteHead')
    BY <1>0, <2>1, <2>2, PrefixFacts DEF RepoInv
  <2> QED  BY <1>0, <2>4, <2>5, <2>6, <2>7, <2>8, <2>9, <2>10, StepKept
<1> QED  BY <1>2, <1>3

\* The remote grows by what p pushes, or not at all.
LEMMA PushKept ==
  ASSUME RepoInv, NEW p \in RepoProcs, PushRevision(p)
  PROVE  RepoInv'
<1>0. /\ proc[p].at = "push" /\ head \in Revisions /\ remoteHead \in Revisions
      /\ proc[p].seen \in Revisions /\ IsHistory(proc[p].seen) /\ IsHistory(remoteHead)
      /\ UNCHANGED <<repoMode, head, worktreeClean, repoMu, unrecorded,
                     autoPulled, syncStatus, declaredAt>>
      /\ Len(head) > 0 /\ Len(remoteHead) > 0
  BY DEF PushRevision, At, taskVars, RepoInv, RepoTypeOK, ProcInv, Procs
<1>1. repoFaults' \in Nat /\ repoFaults' >= repoFaults
  BY DEF PushRevision, Fault, RepoInv, RepoTypeOK
<1>2. PICK w \in {"finish", "push_failed"} :
        /\ Goto(p, w)
        /\ \/ remoteHead' = remoteHead /\ w = "push_failed"
           \/ remoteHead' = proc[p].seen /\ IsPrefix(remoteHead, proc[p].seen)
  BY DEF PushRevision, CanPush, MaybePushed
<1>3. w \in Places
  BY DEF Places
<1>4. PICK r \in Procs : /\ proc' = [proc EXCEPT ![p] = r] /\ r.at = w
                         /\ r.seen = proc[p].seen /\ r.old = proc[p].old
  BY <1>2, <1>3, GotoMoves
<1>5. proc'[p] = r /\ \A q \in RepoProcs : q # p => proc'[q] = proc[q]
  BY <1>4 DEF RepoInv, RepoTypeOK
<1>6. /\ remoteHead' \in Revisions /\ IsHistory(remoteHead') /\ IsPrefix(remoteHead, remoteHead')
      /\ Len(remoteHead') > 0
      /\ w = "finish" => IsPrefix(proc[p].seen, remoteHead')
  <2>1. CASE remoteHead' = remoteHead /\ w = "push_failed"
    BY <1>0, <2>1, PrefixFacts
  <2>2. CASE remoteHead' = proc[p].seen /\ IsPrefix(remoteHead, proc[p].seen)
    <3>1. remoteHead = proc[p].seen \/ Len(remoteHead) < Len(proc[p].seen)
      BY <1>0, <2>2, PrefixFacts
    <3>2. Len(remoteHead) \in Nat /\ Len(proc[p].seen) \in Nat
      BY <1>0, PrefixFacts
    <3> QED  BY <1>0, <2>2, <3>1, <3>2, PrefixFacts
  <2> QED  BY <1>2, <2>1, <2>2
<1>7. RepoTypeOK'
  BY <1>0, <1>1, <1>4, <1>6 DEF RepoInv, RepoTypeOK
<1>8. ProcInv(p)'
  <2>1. repoMu # p /\ (proc[p].seen = proc[p].old \/ Len(proc[p].seen) > 1)
    BY <1>0 DEF RepoInv, ProcInv
  <2> QED  BY <1>0, <1>2, <1>4, <1>5, <1>6, <2>1 DEF ProcInv
<1>9. CleanInv' /\ SyncedInv' /\ DeclaredInv'
  <2>1. \A u \in {"commit", "finalize"} : Writing(u) => Writing(u)'
    BY <1>0, <1>5 DEF Writing, RepoProcs
  <2>2. IsPrefix(head, remoteHead) => IsPrefix(head', remoteHead')
    BY <1>0, <1>6, PrefixFacts
  <2>3. repoFaults' = 0 => repoFaults = 0
    BY <1>1 DEF RepoInv, RepoTypeOK
  <2> QED  BY <1>0, <2>1, <2>2, <2>3 DEF RepoInv, CleanInv, SyncedInv, DeclaredInv
<1> QED  BY <1>0, <1>5, <1>6, <1>7, <1>8, <1>9, StepKept DEF RepoInv

\* "synced" is stored only when HEAD is the commit that was pushed.
LEMMA PersistKept ==
  ASSUME RepoInv, NEW p \in RepoProcs, PersistSynced(p)
  PROVE  RepoInv'
<1>0. /\ proc[p].at = "finish" /\ repoMu = Free /\ remoteHead \in Revisions
      /\ IsPrefix(proc[p].seen, remoteHead)
      /\ UNCHANGED <<repoMode, head, remoteHead, worktreeClean, repoMu, repoFaults,
                     autoPulled, declaredAt>>
      /\ syncStatus' = "synced" => head = proc[p].seen
      /\ unrecorded' = FALSE /\ Goto(p, "return")
      /\ proc[p].seen = proc[p].old \/ Len(proc[p].seen) > 1
      /\ IsHistory(proc[p].seen)
  BY DEF PersistSynced, At, gitVars, taskVars, RepoInv, RepoTypeOK, ProcInv
<1>1. PICK r \in Procs : /\ proc' = [proc EXCEPT ![p] = r] /\ r.at = "return"
                         /\ r.seen = proc[p].seen /\ r.old = proc[p].old
  BY <1>0, GotoMoves DEF Places
<1>2. proc'[p] = r /\ \A q \in RepoProcs : q # p => proc'[q] = proc[q]
  BY <1>1 DEF RepoInv, RepoTypeOK
<1>3. RepoTypeOK'
  BY <1>0, <1>1 DEF RepoInv, RepoTypeOK
<1>4. ProcInv(p)'
  <2>1. repoMu # p
    BY <1>0, RepoAssumption
  <2> QED  BY <1>0, <1>1, <1>2, <2>1 DEF ProcInv
<1>5. CleanInv' /\ SyncedInv' /\ DeclaredInv'
  <2>1. \A u \in {"commit", "finalize"} : Writing(u) => Writing(u)'
    BY <1>0, <1>2 DEF Writing, RepoProcs
  <2> QED  BY <1>0, <2>1 DEF RepoInv, CleanInv, SyncedInv, DeclaredInv
<1>6. IsPrefix(remoteHead, remoteHead')
  BY <1>0, PrefixFacts
<1> QED  BY <1>0, <1>2, <1>3, <1>4, <1>5, <1>6, StepKept DEF RepoInv

LEMMA RecordKept ==
  ASSUME RepoInv, NEW p \in RepoProcs, RecordRepoSyncFailure(p)
  PROVE  RepoInv'
<1>1. /\ Goto(p, "return") /\ proc[p].at \in {"pull_failed", "push_failed"}
      /\ UNCHANGED <<repoMode, head, remoteHead, worktreeClean, repoMu, unrecorded, declaredAt,
                     autoPulled, repoFaults>>
      /\ syncStatus' # "synced"
  BY DEF RecordRepoSyncFailure, At, gitVars, taskVars
<1>2. repoFaults' \in Nat /\ repoFaults' >= repoFaults
  BY <1>1 DEF RepoInv, RepoTypeOK
<1>3. proc[p].seen = proc[p].old \/ Len(proc[p].seen) > 1
  BY <1>1 DEF RepoInv, ProcInv
<1> QED  BY <1>1, <1>2, <1>3, GotoKept DEF Places

LEMMA ReturnKept ==
  ASSUME RepoInv, NEW p \in RepoProcs, ReturnFromSync(p)
  PROVE  RepoInv'
<1>1. /\ proc[p].at = "return"
      /\ UNCHANGED <<repoMode, head, remoteHead, worktreeClean, repoMu, unrecorded, syncStatus,
                     autoPulled, repoFaults>>
  BY DEF ReturnFromSync, At, gitVars, taskVars
<1>2. repoFaults' \in Nat /\ repoFaults' >= repoFaults
  BY <1>1 DEF RepoInv, RepoTypeOK
<1>3. proc[p].seen = proc[p].old \/ Len(proc[p].seen) > 1
  BY <1>1 DEF RepoInv, ProcInv
<1>4. CASE UNCHANGED declaredAt /\ proc[p].seen # proc[p].old /\ Goto(p, "discover")
  BY <1>1, <1>2, <1>3, <1>4, GotoKept DEF Places
<1>5. CASE Finish(p) /\ (UNCHANGED declaredAt \/ (repoMu = Free /\ declaredAt' = Worktree))
  <2>1. PICK r \in Procs : proc' = [proc EXCEPT ![p] = r]
    <3>1. Becomes(p, "idle", NoRevision, NoRevision)
      BY <1>5, SetIdle
    <3> QED  BY <3>1 DEF Becomes
  <2>2. \A q \in RepoProcs : q # p => proc'[q] = proc[q]
    BY <2>1 DEF RepoInv, RepoTypeOK
  <2>3. repoMu = Free /\ repoFaults = 0 => Worktree = head
    <3>1. repoMu = Free => ~Writing("commit")
      BY RepoAssumption DEF Writing, RepoInv, ProcInv, RepoProcs
    <3> QED  BY <3>1 DEF Worktree, RepoInv, CleanInv
  <2>4. DeclaredInv => DeclaredInv'
    <3>1. CASE UNCHANGED declaredAt
      BY <1>1, <1>2, <2>2, <3>1, SamePromises
    <3>2. CASE repoMu = Free /\ declaredAt' = Worktree
      BY <1>1, <2>3, <3>2 DEF DeclaredInv
    <3> QED  BY <1>5, <3>1, <3>2
  <2> QED  BY <1>1, <1>2, <1>5, <2>4, EndKept
<1> QED  BY <1>4, <1>5 DEF ReturnFromSync

-----------------------------------------------------------------------------
(* The periodic loop and deployments *)

LEMMA DiscoverKept ==
  ASSUME RepoInv, DiscoverServices
  PROVE  RepoInv'
<1> DEFINE p == AutoPull
           r == [proc[p] EXCEPT !.at = "declare", !.read = Worktree]
<1>0. /\ p \in RepoProcs /\ proc[p].at = "discover" /\ proc \in [RepoProcs -> Procs]
      /\ proc[p] \in Procs /\ IsHistory(proc[p].seen) /\ Len(proc[p].seen) > 1
      /\ UNCHANGED <<repoMode, head, remoteHead, worktreeClean, repoMu, unrecorded, declaredAt,
                     autoPulled, repoFaults, syncStatus>>
  BY DEF RepoProcs, DiscoverServices, At, gitVars, taskVars, RepoInv, RepoTypeOK, ProcInv
<1>1. Worktree \in Revisions
  BY Constants DEF Worktree, RepoInv, RepoTypeOK
<1>2. r \in Procs /\ r.at = "declare" /\ r.seen = proc[p].seen
  BY <1>0, <1>1 DEF Procs, Places
<1>3. proc' = [proc EXCEPT ![p] = r]
  BY <1>0 DEF DiscoverServices
<1> HIDE DEF r
<1>4. \A q \in RepoProcs : q # p => proc'[q] = proc[q]
  BY <1>3 DEF RepoInv, RepoTypeOK
<1>5. repoFaults' \in Nat /\ repoFaults' >= repoFaults
  BY <1>0 DEF RepoInv, RepoTypeOK
<1> HIDE DEF p
<1>6. (SyncedInv => SyncedInv') /\ (DeclaredInv => DeclaredInv')
  BY <1>0, <1>4, <1>5, SamePromises
<1> QED  BY <1>0, <1>2, <1>3, <1>5, <1>6, QuietKept

\* From here on the periodic loop has declared a worktree it read without
\* repoMu, and autoPulled says so.
LEMMA PendingKept ==
  ASSUME RepoInv, SetServicePendingDeploy
  PROVE  RepoInv'
<1>0. /\ AutoPull \in RepoProcs /\ proc[AutoPull].at = "declare"
      /\ Len(proc[AutoPull].seen) > 1 /\ autoPulled' = proc[AutoPull].seen
      /\ Set(AutoPull, [Idle EXCEPT !.at = "deploy"])
      /\ UNCHANGED <<repoMode, head, remoteHead, worktreeClean, repoMu, unrecorded,
                     repoFaults, syncStatus>>
  BY DEF RepoProcs, SetServicePendingDeploy, At, gitVars, RepoInv, ProcInv
<1>1. repoFaults' \in Nat /\ repoFaults' >= repoFaults
  BY <1>0 DEF RepoInv, RepoTypeOK
<1>2. autoPulled' # Root
  <2>1. Len(Root) = 1
    BY Constants
  <2>2. ASSUME NEW s, Len(s) > 1 PROVE s # Root
    <3>1. CASE s = Root
      <4>1. Len(Root) > 1
        BY <2>2, <3>1
      <4>2. ~(Len(Root) > 1)
        BY <2>1
      <4> QED  BY <4>1, <4>2
    <3> QED  BY <3>1
  <2> QED  BY <1>0, <2>2
<1>3. DeclaredInv'
  BY <1>2 DEF DeclaredInv
<1> QED  BY <1>0, <1>1, <1>3, EndKept

LEMMA DeployKept ==
  ASSUME RepoInv, NEW p \in RepoProcs,
         AdmitDeploy(p) \/ NoDeploy(p) \/ ClearServicePendingDeploy(p)
  PROVE  RepoInv'
<1>1. /\ proc[p].at \in {"deploy", "admit", "clear"}
      /\ UNCHANGED <<repoMode, head, remoteHead, worktreeClean, repoMu, unrecorded, declaredAt,
                     autoPulled, repoFaults, syncStatus>>
  BY DEF AdmitDeploy, NoDeploy, ClearServicePendingDeploy, At, gitVars, taskVars
<1>2. repoFaults' \in Nat /\ repoFaults' >= repoFaults
  BY <1>1 DEF RepoInv, RepoTypeOK
<1>3. CASE Goto(p, "clear")
  BY <1>1, <1>2, <1>3, GotoKept DEF Places
<1>4. CASE Done(p)
  <2>1. PICK w \in {"idle", "done"} : \/ Set(p, [Idle EXCEPT !.at = w])
                                      \/ Finish(p) /\ w = "idle"
    BY <1>4 DEF Done
  <2>2. Becomes(p, w, NoRevision, NoRevision)
    <3>1. w \in Places
      BY DEF Places
    <3> QED  BY <2>1, <3>1, SetAt, SetIdle
  <2>3. \A q \in RepoProcs : q # p => proc'[q] = proc[q]
    BY <2>2 DEF Becomes, RepoInv, RepoTypeOK
  <2>4. DeclaredInv => DeclaredInv'
    BY <1>1, <1>2, <2>3, SamePromises
  <2> QED  BY <1>1, <1>2, <2>1, <2>4, EndKept
<1> QED  BY <1>3, <1>4 DEF AdmitDeploy, NoDeploy, ClearServicePendingDeploy

-----------------------------------------------------------------------------
(* Writes and pulls *)

\* A pull under repoMu: a status, and perhaps a fast-forward.
LEMMA PullIs ==
  ASSUME RepoInv, NEW ok \in BOOLEAN, SyncRepoLocked(ok)
  PROVE  /\ head' \in Revisions /\ IsHistory(head') /\ IsPrefix(head, head') /\ Len(head') > 0
         /\ head' # head => Len(head') > 1
         /\ ~ok => head' = head
         /\ repoFaults' \in Nat /\ repoFaults' >= repoFaults
<1>1. /\ head \in Revisions /\ remoteHead \in Revisions /\ IsHistory(remoteHead)
      /\ IsHistory(head) /\ Len(head) > 0 /\ repoFaults \in Nat
  BY DEF RepoInv, RepoTypeOK
<1>2. CASE ok /\ CanFastForward(remoteHead) /\ head' = FastForwardRevision(remoteHead)
           /\ UNCHANGED repoFaults
  <2> DEFINE new == FastForwardRevision(remoteHead)
  <2>1. /\ new \in Revisions /\ IsHistory(new) /\ IsPrefix(head, new) /\ Len(new) > 0
        /\ new = head \/ Len(new) > 1
    BY <1>1, <1>2, FastForwardIs
  <2> HIDE DEF new
  <2>2. head' = new
    BY <1>2 DEF new
  <2> QED  BY <1>1, <1>2, <2>1, <2>2
<1>3. CASE ~ok /\ UNCHANGED head /\ repoFaults' \in {repoFaults, repoFaults + 1}
  BY <1>1, <1>3, PrefixFacts
<1> QED  BY <1>2, <1>3 DEF SyncRepoLocked, Fault

LEMMA PullBeforeWriteKept ==
  ASSUME RepoInv, NEW p \in Writers, NEW ok \in BOOLEAN, SyncRepoBeforeWrite(p, ok)
  PROVE  RepoInv'
<1>0. /\ p \in RepoProcs /\ proc[p].at = "edit" /\ repoMode = "pull_push" /\ repoMu = Free
      /\ SyncRepoLocked(ok) /\ remoteHead \in Revisions
      /\ UNCHANGED <<repoMode, remoteHead, worktreeClean, unrecorded, declaredAt, autoPulled>>
  BY DEF RepoProcs, SyncRepoBeforeWrite, At, taskVars, RepoInv, RepoTypeOK
<1>1. /\ head' \in Revisions /\ IsHistory(head') /\ Len(head') > 0 /\ (~ok => head' = head)
      /\ repoFaults' \in Nat /\ repoFaults' >= repoFaults
  BY <1>0, PullIs
<1>2. SyncedInv' /\ DeclaredInv'
  BY <1>0 DEF SyncedInv, DeclaredInv
<1>3. CASE ~ok
  BY <1>0, <1>1, <1>2, <1>3, EndKept DEF SyncRepoBeforeWrite
<1>4. CASE ok
  <2>1. repoMu' = p /\ Goto(p, "check")
    BY <1>4 DEF SyncRepoBeforeWrite
  <2>2. PICK r \in Procs : /\ proc' = [proc EXCEPT ![p] = r] /\ r.at = "check"
                           /\ r.seen = proc[p].seen
    BY <1>0, <2>1, GotoMoves DEF Places
  <2>3. proc'[p] = r /\ \A q \in RepoProcs : q # p => proc'[q] = proc[q]
    BY <1>0, <2>2 DEF RepoInv, RepoTypeOK
  <2>4. RepoTypeOK'
    BY <1>0, <1>1, <2>2 DEF RepoInv, RepoTypeOK
  <2>5. ProcInv(p)'
    <3>1. IsHistory(proc[p].seen)
      BY <1>0 DEF RepoInv, ProcInv
    <3> QED  BY <2>1, <2>2, <2>3, <3>1 DEF ProcInv
  <2>6. CleanInv'
    BY <1>0, <1>1, <2>3 DEF RepoInv, RepoTypeOK, CleanInv, Writing, RepoProcs
  <2>7. IsPrefix(remoteHead, remoteHead') /\ IsHistory(remoteHead')
    BY <1>0, PrefixFacts DEF RepoInv
  <2> QED  BY <1>0, <1>1, <1>2, <2>1, <2>3, <2>4, <2>5, <2>6, <2>7, StepKept
<1> QED  BY <1>3, <1>4

LEMMA PullKept ==
  ASSUME RepoInv, NEW ok \in BOOLEAN,
         AutoPullFastForward(ok) \/ \E c \in Callers : PullRepo(c, ok)
  PROVE  RepoInv'
<1>0. /\ AutoPull \in RepoProcs /\ repoMode = "pull_push" /\ repoMu = Free
      /\ SyncRepoLocked(ok) /\ remoteHead \in Revisions
      /\ UNCHANGED <<repoMode, remoteHead, worktreeClean, repoMu, unrecorded, autoPulled>>
  BY DEF RepoProcs, AutoPullFastForward, PullRepo, taskVars, RepoInv, RepoTypeOK
<1>1. /\ head' \in Revisions /\ IsHistory(head') /\ Len(head') > 0
      /\ head' # head => Len(head') > 1
      /\ repoFaults' \in Nat /\ repoFaults' >= repoFaults
  BY <1>0, PullIs
<1>2. SyncedInv' /\ DeclaredInv'
  BY <1>0 DEF SyncedInv, DeclaredInv
<1>3. PICK r \in Procs :
        /\ proc' = [proc EXCEPT ![AutoPull] = r]
        /\ r = proc[AutoPull] \/ (r.at = "discover" /\ Len(r.seen) > 1 /\ IsHistory(r.seen))
  <2>1. CASE UNCHANGED proc
    BY <1>0, <2>1 DEF RepoInv, RepoTypeOK
  <2>2. CASE head' # head /\ Set(AutoPull, [Idle EXCEPT !.at = "discover", !.seen = head'])
    <3>1. Becomes(AutoPull, "discover", head', NoRevision)
      BY <1>1, <2>2, SetSeen DEF Places
    <3> QED  BY <1>1, <2>2, <3>1 DEF Becomes
  <2> QED  BY <2>1, <2>2 DEF AutoPullFastForward, PullRepo
<1>4. proc'[AutoPull] = r /\ \A q \in RepoProcs : q # AutoPull => proc'[q] = proc[q]
  BY <1>0, <1>3 DEF RepoInv, RepoTypeOK
<1>5. RepoTypeOK'
  BY <1>0, <1>1, <1>3 DEF RepoInv, RepoTypeOK
<1>6. ProcInv(AutoPull)'
  <2>1. repoMu' # AutoPull
    BY <1>0, RepoAssumption
  <2> QED  BY <1>0, <1>3, <1>4, <2>1 DEF RepoInv, ProcInv
<1>7. CleanInv'
  <2>1. AutoPull \notin Writers
    BY RepoAssumption
  <2> QED  BY <1>0, <1>1, <1>4, <2>1 DEF RepoInv, RepoTypeOK, CleanInv, Writing, RepoProcs
<1>8. IsPrefix(remoteHead, remoteHead') /\ IsHistory(remoteHead')
  BY <1>0, PrefixFacts DEF RepoInv
<1> QED  BY <1>0, <1>1, <1>2, <1>4, <1>5, <1>6, <1>7, <1>8, StepKept

LEMMA PrepareKept ==
  ASSUME RepoInv, NEW p \in Writers, PrepareRepoWrite(p)
  PROVE  RepoInv'
<1>0. /\ p \in RepoProcs /\ proc[p].at \in {"edit", "check"} /\ repoMu \in {Free, p}
      /\ IsHistory(proc[p].seen) /\ remoteHead \in Revisions
      /\ UNCHANGED <<repoMode, head, remoteHead, unrecorded, declaredAt, autoPulled, syncStatus,
                     repoFaults>>
  BY DEF RepoProcs, PrepareRepoWrite, At, taskVars, RepoInv, RepoTypeOK, ProcInv
<1>1. PICK r \in Procs :
        /\ proc' = [proc EXCEPT ![p] = r]
        /\ \/ /\ r.at = "commit" /\ r.seen = head /\ repoMu' = p /\ worktreeClean' = FALSE
           \/ /\ r.at = "idle" /\ r.seen = NoRevision /\ r.old = NoRevision /\ repoMu' = Free
              /\ UNCHANGED worktreeClean
  <2>1. CASE WriteAllowed(p) /\ worktreeClean' = FALSE /\ repoMu' = p /\ Goto(p, "commit")
    <3>1. PICK r \in Procs : /\ proc' = [proc EXCEPT ![p] = r] /\ r.at = "commit"
                             /\ r.seen = proc[p].seen
      BY <1>0, <2>1, GotoMoves DEF Places
    <3> QED  BY <2>1, <3>1 DEF WriteAllowed
  <2>2. CASE repoMu' = Free /\ Finish(p) /\ UNCHANGED worktreeClean
    <3>1. Becomes(p, "idle", NoRevision, NoRevision)
      BY <2>2, SetIdle
    <3> QED  BY <2>2, <3>1 DEF Becomes
  <2> QED  BY <2>1, <2>2 DEF PrepareRepoWrite
<1>2. proc'[p] = r /\ \A q \in RepoProcs : q # p => proc'[q] = proc[q]
  BY <1>0, <1>1 DEF RepoInv, RepoTypeOK
<1>3. RepoTypeOK'
  BY <1>0, <1>1 DEF RepoInv, RepoTypeOK
<1>4. Free # p
  BY <1>0, RepoAssumption
<1>5. ProcInv(p)'
  <2>1. CASE r.at = "commit"
    BY <1>0, <1>1, <1>2, <2>1 DEF ProcInv, RepoInv
  <2>2. CASE r.at = "idle"
    BY <1>0, <1>1, <1>2, <1>4, <2>2, Constants DEF ProcInv
  <2> QED  BY <1>1, <2>1, <2>2
<1>6. CleanInv'
  <2>1. CASE r.at = "commit"
    BY <1>2, <2>1 DEF CleanInv, Writing
  <2>2. CASE r.at = "idle"
    BY <1>0, <1>1, <1>2, <2>2 DEF RepoInv, CleanInv, Writing, RepoProcs
  <2> QED  BY <1>1, <2>1, <2>2
<1>7. SyncedInv' /\ DeclaredInv'
  <2>1. Writing("finalize") => Writing("finalize")'
    BY <1>0, <1>2 DEF Writing, RepoProcs
  <2> QED  BY <1>0, <2>1 DEF RepoInv, SyncedInv, DeclaredInv
<1>8. IsPrefix(remoteHead, remoteHead')
  BY <1>0, PrefixFacts
<1> QED  BY <1>0, <1>1, <1>2, <1>3, <1>5, <1>6, <1>7, <1>8, StepKept DEF RepoInv

\* The commit's parent is HEAD, which is what its author had read.
LEMMA CommitIs ==
  ASSUME RepoInv, NEW p \in Writers, proc[p].at = "commit"
  PROVE  LET new == Append(head, CommitOf(p, MadeHere(head) + 1, TipOf(proc[p].seen)))
         IN  /\ new \in Revisions /\ IsHistory(new) /\ IsPrefix(head, new) /\ Len(new) > 0
<1>1. p \in RepoProcs /\ p \in Authors
  BY DEF RepoProcs, Authors
<1>2. head \in Revisions /\ IsHistory(head) /\ proc[p].seen = head
  BY <1>1 DEF RepoInv, RepoTypeOK, ProcInv
<1>3. MadeHere(head) + 1 \in Nat
  BY <1>2, CountType
<1> DEFINE c == CommitOf(p, MadeHere(head) + 1, TipOf(head))
<1>4. c \in Commits /\ c.onto = TipOf(head)
  BY <1>1, <1>2, <1>3, CommitType
<1> HIDE DEF c
<1>5. IsHistory(Append(head, c))
  BY <1>2, <1>4, HistoryExtends
<1>6. Append(head, c) \in Revisions /\ IsPrefix(head, Append(head, c)) /\ Len(Append(head, c)) > 0
  BY <1>2, <1>4, PrefixFacts
<1> QED  BY <1>2, <1>5, <1>6 DEF c

LEMMA CommitKept ==
  ASSUME RepoInv, NEW p \in Writers, CommitPaths(p)
  PROVE  RepoInv'
<1>0. /\ p \in RepoProcs /\ proc[p].at = "commit" /\ repoMu = p
      /\ IsHistory(proc[p].seen) /\ remoteHead \in Revisions /\ worktreeClean' = TRUE
      /\ UNCHANGED <<repoMode, remoteHead, unrecorded, declaredAt, autoPulled, syncStatus>>
  BY DEF RepoProcs, CommitPaths, At, taskVars, RepoInv, RepoTypeOK, ProcInv
<1>1. Free # p
  BY <1>0, RepoAssumption
<1>2. IsPrefix(remoteHead, remoteHead') /\ IsHistory(remoteHead')
  BY <1>0, PrefixFacts DEF RepoInv
<1>3. CleanInv'
  BY <1>0 DEF CleanInv
<1>4. repoFaults' \in Nat /\ repoFaults' >= repoFaults
  BY DEF CommitPaths, Fault, RepoInv, RepoTypeOK
<1>5. CASE Goto(p, "finalize") /\ UNCHANGED repoMu
           /\ head' = Append(head, CommitOf(p, MadeHere(head) + 1, TipOf(proc[p].seen)))
  <2>1. head' \in Revisions /\ IsHistory(head') /\ Len(head') > 0
    BY <1>0, <1>5, CommitIs
  <2>2. PICK r \in Procs : /\ proc' = [proc EXCEPT ![p] = r] /\ r.at = "finalize"
                           /\ r.seen = proc[p].seen
    BY <1>0, <1>5, GotoMoves DEF Places
  <2>3. proc'[p] = r /\ \A q \in RepoProcs : q # p => proc'[q] = proc[q]
    BY <1>0, <2>2 DEF RepoInv, RepoTypeOK
  <2>4. RepoTypeOK'
    BY <1>0, <1>4, <2>1, <2>2 DEF RepoInv, RepoTypeOK
  <2>5. ProcInv(p)'
    BY <1>0, <1>5, <2>2, <2>3 DEF ProcInv
  <2>6. SyncedInv' /\ DeclaredInv'
    BY <2>2, <2>3 DEF SyncedInv, DeclaredInv, Writing
  <2> QED  BY <1>0, <1>2, <1>3, <1>5, <2>1, <2>3, <2>4, <2>5, <2>6, StepKept
<1>6. CASE Fault /\ repoMu' = Free /\ Finish(p) /\ UNCHANGED head
  <2>1. PICK r \in Procs : /\ proc' = [proc EXCEPT ![p] = r] /\ r.at = "idle"
                           /\ r.seen = NoRevision /\ r.old = NoRevision
    <3>1. Becomes(p, "idle", NoRevision, NoRevision)
      BY <1>6, SetIdle
    <3> QED  BY <3>1 DEF Becomes
  <2>2. proc'[p] = r /\ \A q \in RepoProcs : q # p => proc'[q] = proc[q]
    BY <1>0, <2>1 DEF RepoInv, RepoTypeOK
  <2>3. RepoTypeOK'
    BY <1>0, <1>4, <1>6, <2>1 DEF RepoInv, RepoTypeOK
  <2>4. ProcInv(p)'
    BY <1>1, <1>6, <2>1, <2>2, Constants DEF ProcInv
  <2>5. SyncedInv' /\ DeclaredInv'
    <3>1. Writing("finalize") => Writing("finalize")'
      BY <1>0, <2>2 DEF Writing, RepoProcs
    <3>2. repoFaults' = 0 => repoFaults = 0
      BY <1>4 DEF RepoInv, RepoTypeOK
    <3> QED  BY <1>0, <1>6, <3>1, <3>2 DEF RepoInv, SyncedInv, DeclaredInv
  <2> QED  BY <1>0, <1>2, <1>3, <1>6, <2>2, <2>3, <2>4, <2>5, StepKept DEF RepoInv
<1> QED  BY <1>5, <1>6 DEF CommitPaths

LEMMA FinalizeKept ==
  ASSUME RepoInv, NEW p \in Writers, FinalizeRepoWrite(p)
  PROVE  RepoInv'
<1>0. /\ p \in RepoProcs /\ proc[p].at = "finalize" /\ repoMu = p /\ repoMu' = Free
      /\ remoteHead \in Revisions /\ head \in Revisions /\ Len(head) > 0 /\ Len(remoteHead) > 0
      /\ Finish(p) /\ IsHistory(head) /\ IsHistory(remoteHead)
      /\ UNCHANGED <<repoMode, head, worktreeClean, autoPulled>>
  BY DEF RepoProcs, FinalizeRepoWrite, At, taskVars, RepoInv, RepoTypeOK, ProcInv
<1>1. Free # p
  BY <1>0, RepoAssumption
<1>2. PICK r \in Procs : /\ proc' = [proc EXCEPT ![p] = r] /\ r.at = "idle"
                         /\ r.seen = NoRevision /\ r.old = NoRevision
  <2>1. Becomes(p, "idle", NoRevision, NoRevision)
    BY <1>0, SetIdle
  <2> QED  BY <2>1 DEF Becomes
<1>3. proc'[p] = r /\ \A q \in RepoProcs : q # p => proc'[q] = proc[q]
  BY <1>0, <1>2 DEF RepoInv, RepoTypeOK
<1>4. /\ repoFaults' \in Nat /\ repoFaults' >= repoFaults /\ unrecorded' \in BOOLEAN
  <2>1. repoFaults' = repoFaults \/ repoFaults' = repoFaults + 1
    BY DEF FinalizeRepoWrite, Fault
  <2>2. unrecorded' = unrecorded \/ unrecorded' = TRUE
    BY DEF FinalizeRepoWrite
  <2>3. unrecorded' \in BOOLEAN
    BY <2>2, Zenon DEF RepoInv, RepoTypeOK
  <2>4. repoFaults' \in Nat /\ repoFaults' >= repoFaults
    BY <2>1 DEF RepoInv, RepoTypeOK
  <2> QED  BY <2>3, <2>4
<1>5. /\ remoteHead' \in Revisions /\ IsHistory(remoteHead') /\ IsPrefix(remoteHead, remoteHead')
      /\ Len(remoteHead') > 0
  <2>1. remoteHead' = remoteHead \/ (remoteHead' = head /\ IsPrefix(remoteHead, head))
    BY DEF FinalizeRepoWrite, CanPush, MaybePushed
  <2> QED  BY <1>0, <2>1, PrefixFacts
<1>6. RepoTypeOK'
  BY <1>0, <1>2, <1>4, <1>5 DEF RepoInv, RepoTypeOK
<1>7. ProcInv(p)'
  BY <1>0, <1>1, <1>2, <1>3, Constants DEF ProcInv
<1>8. CleanInv'
  BY <1>0, <1>3, <1>4 DEF RepoInv, RepoTypeOK, CleanInv, Writing, RepoProcs
<1>9. repoMode = "local_first" => syncStatus' = "pending_sync" \/ unrecorded' = TRUE
  BY DEF FinalizeRepoWrite
<1>10. repoMode = "local_first" => declaredAt' = head \/ repoFaults' # 0
  BY DEF FinalizeRepoWrite, Fault, RepoInv, RepoTypeOK
<1>11. SyncedInv' /\ DeclaredInv'
  BY <1>0, <1>9, <1>10 DEF SyncedInv, DeclaredInv
<1> QED  BY <1>0, <1>3, <1>5, <1>6, <1>7, <1>8, <1>11, StepKept

-----------------------------------------------------------------------------
(* The environment *)

LEMMA TaskEndsKept ==
  ASSUME RepoInv, TaskEnds \/ UNCHANGED repoVars
  PROVE  RepoInv'
<1>1. UNCHANGED <<repoMode, head, remoteHead, worktreeClean, syncStatus, declaredAt, repoMu,
                  proc, autoPulled, repoFaults, unrecorded>>
  BY DEF TaskEnds, repoVars, gitVars, taskVars
<1>2. RepoTypeOK' /\ IsHistory(head') /\ IsHistory(remoteHead')
  BY <1>1 DEF RepoInv, RepoTypeOK
<1>3. \A p \in RepoProcs : ProcInv(p)'
  BY <1>1 DEF RepoInv, ProcInv
<1>4. CleanInv' /\ SyncedInv' /\ DeclaredInv'
  BY <1>1 DEF RepoInv, CleanInv, SyncedInv, DeclaredInv, Writing
<1> QED  BY <1>2, <1>3, <1>4 DEF RepoInv

LEMMA PushedIs ==
  ASSUME RepoInv, SomeonePushes
  PROVE  /\ remoteHead' \in Revisions /\ IsHistory(remoteHead')
         /\ IsPrefix(remoteHead, remoteHead') /\ Len(remoteHead') > 0
<1>1. remoteHead \in Revisions /\ IsHistory(remoteHead) /\ "other" \in Authors
  BY DEF RepoInv, RepoTypeOK, Authors
<1>2. PushedByOthers(remoteHead) \in Nat
  BY <1>1, CountType
<1> DEFINE c == CommitOf("other", PushedByOthers(remoteHead), TipOf(remoteHead))
<1>3. c \in Commits /\ c.onto = TipOf(remoteHead)
  BY <1>1, <1>2, CommitType
<1>4. remoteHead' = Append(remoteHead, c)
  BY DEF SomeonePushes
<1> HIDE DEF c
<1> QED  BY <1>1, <1>3, <1>4, HistoryExtends, PrefixFacts

LEMMA SomeonePushesKept ==
  ASSUME RepoInv, SomeonePushes
  PROVE  RepoInv'
<1>0. /\ UNCHANGED <<repoMode, head, worktreeClean, syncStatus, declaredAt, repoMu,
                     proc, autoPulled, repoFaults, unrecorded>>
      /\ head \in Revisions /\ remoteHead \in Revisions
  BY DEF SomeonePushes, taskVars, RepoInv, RepoTypeOK
<1>1. /\ remoteHead' \in Revisions /\ IsHistory(remoteHead')
      /\ IsPrefix(remoteHead, remoteHead') /\ Len(remoteHead') > 0
  BY PushedIs
<1>2. RepoTypeOK' /\ IsHistory(head')
  BY <1>0, <1>1 DEF RepoInv, RepoTypeOK
<1>3. ASSUME NEW p \in RepoProcs PROVE ProcInv(p)'
  <2>1. proc[p].seen \in Revisions
    BY DEF RepoInv, RepoTypeOK, Procs
  <2>2. IsPrefix(proc[p].seen, remoteHead) => IsPrefix(proc[p].seen, remoteHead')
    BY <1>0, <1>1, <2>1, PrefixFacts
  <2> QED  BY <1>0, <2>2 DEF RepoInv, ProcInv
<1>4. IsPrefix(head, remoteHead) => IsPrefix(head, remoteHead')
  BY <1>0, <1>1, PrefixFacts
<1>5. CleanInv' /\ SyncedInv' /\ DeclaredInv'
  BY <1>0, <1>4 DEF RepoInv, CleanInv, SyncedInv, DeclaredInv, Writing
<1> QED  BY <1>1, <1>2, <1>3, <1>5 DEF RepoInv

LEMMA RestartKept ==
  ASSUME RepoInv, RestartController
  PROVE  RepoInv'
<1>0. /\ UNCHANGED <<repoMode, head, remoteHead, worktreeClean, syncStatus, autoPulled>>
      /\ repoMu' = Free /\ repoFaults' \in Nat /\ repoFaults' # 0 /\ unrecorded' \in BOOLEAN
      /\ unrecorded' = (unrecorded \/ Writing("finalize"))
  BY DEF RestartController, Fault, gitVars, taskVars, RepoInv, RepoTypeOK, Writing, At
<1>1. /\ proc' \in [RepoProcs -> Procs]
      /\ \A p \in RepoProcs : proc'[p] = Idle \/ (proc'[p] = proc[p] /\ proc[p].at = "done")
  BY Constants DEF RestartController, At, RepoInv, RepoTypeOK
<1>2. RepoTypeOK' /\ IsHistory(head') /\ IsHistory(remoteHead')
  BY <1>0, <1>1 DEF RepoInv, RepoTypeOK
<1>3. ASSUME NEW p \in RepoProcs PROVE ProcInv(p)'
  <2>1. Free # p
    BY RepoAssumption
  <2>2. CASE proc'[p] = Idle
    BY <1>0, <2>1, <2>2, Constants DEF ProcInv
  <2>3. CASE proc'[p] = proc[p] /\ proc[p].at = "done"
    BY <1>0, <2>1, <2>3 DEF RepoInv, ProcInv
  <2> QED  BY <1>1, <2>2, <2>3
<1>4. CleanInv' /\ SyncedInv' /\ DeclaredInv'
  BY <1>0 DEF RepoInv, CleanInv, SyncedInv, DeclaredInv
<1> QED  BY <1>2, <1>3, <1>4 DEF RepoInv

-----------------------------------------------------------------------------
(* The theorems *)

LEMMA RepoStarts == RepoInit => RepoInv
<1> SUFFICES ASSUME RepoInit PROVE RepoInv
  OBVIOUS
<1>1. RepoTypeOK /\ IsHistory(head) /\ IsHistory(remoteHead)
  <2>1. Root \in Revisions /\ Len(Root) > 0 /\ IsHistory(Root) /\ Idle \in Procs
    BY Constants
  <2> QED  BY <2>1 DEF RepoInit, RepoTypeOK
<1>2. ASSUME NEW p \in RepoProcs PROVE ProcInv(p)
  BY Constants, RepoAssumption DEF RepoInit, ProcInv
<1>3. IsPrefix(head, remoteHead)
  BY Constants, PrefixFacts DEF RepoInit
<1>4. CleanInv /\ SyncedInv /\ DeclaredInv
  BY <1>3 DEF RepoInit, CleanInv, SyncedInv, DeclaredInv
<1> QED  BY <1>1, <1>2, <1>4 DEF RepoInv

LEMMA RepoKept == RepoInv /\ [RepoNext]_repoVars => RepoInv'
<1> SUFFICES ASSUME RepoInv, RepoNext PROVE RepoInv'
  BY TaskEndsKept
<1>0. /\ Writers \subseteq RepoProcs /\ Callers \cup {AutoPull} \subseteq RepoProcs
      /\ {AutoPull} \cup Deployers \subseteq RepoProcs
  BY DEF RepoProcs
<1>1. CASE \E p \in Writers :
             \/ ReadHead(p) \/ PrepareRepoWrite(p) \/ CommitPaths(p) \/ FinalizeRepoWrite(p)
             \/ \E ok \in BOOLEAN : SyncRepoBeforeWrite(p, ok)
  BY <1>0, <1>1, ReadHeadKept, PrepareKept, CommitKept, FinalizeKept, PullBeforeWriteKept
<1>2. CASE \E ok \in BOOLEAN : AutoPullFastForward(ok) \/ \E p \in Callers : PullRepo(p, ok)
  BY <1>2, PullKept
<1>3. CASE \E p \in Callers \cup {AutoPull} :
             \/ LockSync(p) \/ FetchRevision(p) \/ ApplyFetchedRevision(p) \/ PushRevision(p)
             \/ PersistSynced(p) \/ RecordRepoSyncFailure(p) \/ ReturnFromSync(p)
  BY <1>0, <1>3, LockSyncKept, FetchKept, ApplyKept, PushKept, PersistKept, RecordKept, ReturnKept
<1>4. CASE DiscoverServices \/ SetServicePendingDeploy
  BY <1>4, DiscoverKept, PendingKept
<1>5. CASE \E p \in {AutoPull} \cup Deployers :
             \/ ReadRevisionToDeploy(p) \/ AdmitDeploy(p) \/ NoDeploy(p)
             \/ ClearServicePendingDeploy(p)
  BY <1>0, <1>5, ReadHeadKept, DeployKept
<1>6. CASE TaskEnds \/ SomeonePushes \/ RestartController
  BY <1>6, TaskEndsKept, SomeonePushesKept, RestartKept
<1> QED  BY <1>1, <1>2, <1>3, <1>4, <1>5, <1>6 DEF RepoNext

\* With any number of writers and synchronisations: every commit is made on
\* the revision its author had read (base_revision, repo_service.go), the
\* worktree is clean between two critical sections unless something failed,
\* local-first mode shows "synced" only for commits that are at the remote,
\* and the declared services are those of HEAD.
THEOREM RepoHonest == RepoSpec => []RepoIsHonest
<1>1. RepoInv => RepoIsHonest
  <2> SUFFICES ASSUME RepoInv PROVE RepoIsHonest
    OBVIOUS
  <2>1. repoMu = Free => ~Writing("commit") /\ ~Writing("finalize")
    BY RepoAssumption DEF Writing, RepoInv, ProcInv, RepoProcs
  <2>2. WorktreeIsCommitted
    BY <2>1 DEF WorktreeIsCommitted, RepoInv, CleanInv
  <2>3. SyncedMeansPushed
    BY <2>1 DEF SyncedMeansPushed, RepoInv, SyncedInv
  <2>4. DeclaredFollowsHead
    BY <2>1 DEF DeclaredFollowsHead, RepoInv, DeclaredInv
  <2> QED  BY <2>2, <2>3, <2>4 DEF RepoInv, RepoIsHonest, CommitsOnWhatWasSeen
<1> QED  BY <1>1, RepoStarts, RepoKept, PTL DEF RepoSpec

LEMMA HistoriesGrow ==
  ASSUME RepoInv, RepoNext
  PROVE  IsPrefix(head, head') /\ IsPrefix(remoteHead, remoteHead')
<1>0. /\ head \in Revisions /\ remoteHead \in Revisions
      /\ IsPrefix(head, head) /\ IsPrefix(remoteHead, remoteHead)
  BY PrefixFacts DEF RepoInv, RepoTypeOK
<1>2. ASSUME NEW p \in Writers, CommitPaths(p) PROVE IsPrefix(head, head') /\ UNCHANGED remoteHead
  <2>1. proc[p].at = "commit"
    BY <1>2 DEF CommitPaths, At
  <2> QED  BY <1>0, <1>2, <2>1, CommitIs DEF CommitPaths
<1>3. ASSUME NEW p \in Writers, FinalizeRepoWrite(p)
      PROVE  UNCHANGED head /\ IsPrefix(remoteHead, remoteHead')
  BY <1>0, <1>3 DEF FinalizeRepoWrite, CanPush, MaybePushed
<1>4. ASSUME NEW ok \in BOOLEAN, SyncRepoLocked(ok) PROVE IsPrefix(head, head')
  BY <1>4, PullIs
<1>5. ASSUME NEW p \in RepoProcs, ApplyFetchedRevision(p)
      PROVE  IsPrefix(head, head') /\ UNCHANGED remoteHead
  <2>1. proc[p].seen \in Revisions /\ IsHistory(proc[p].seen)
    BY DEF RepoInv, RepoTypeOK, Procs, ProcInv
  <2>2. CanFastForward(proc[p].seen) => IsPrefix(head, FastForwardRevision(proc[p].seen))
    BY <2>1, FastForwardIs
  <2> QED  BY <1>0, <1>5, <2>2 DEF ApplyFetchedRevision
<1>6. ASSUME NEW p \in RepoProcs, PushRevision(p)
      PROVE  UNCHANGED head /\ IsPrefix(remoteHead, remoteHead')
  BY <1>0, <1>6 DEF PushRevision, CanPush, MaybePushed
<1>7. SomeonePushes => UNCHANGED head /\ IsPrefix(remoteHead, remoteHead')
  BY PushedIs DEF SomeonePushes
<1>8. CASE \E p \in Writers, ok \in BOOLEAN : SyncRepoBeforeWrite(p, ok)
  BY <1>0, <1>4, <1>8 DEF SyncRepoBeforeWrite
<1>9. CASE \E ok \in BOOLEAN : AutoPullFastForward(ok) \/ \E p \in Callers : PullRepo(p, ok)
  BY <1>0, <1>4, <1>9 DEF AutoPullFastForward, PullRepo
<1>10. CASE \E p \in Writers : CommitPaths(p) \/ FinalizeRepoWrite(p)
  BY <1>0, <1>2, <1>3, <1>10
<1>11. CASE \E p \in Callers \cup {AutoPull} : ApplyFetchedRevision(p) \/ PushRevision(p)
  BY <1>0, <1>5, <1>6, <1>11 DEF RepoProcs
<1>12. CASE SomeonePushes
  BY <1>0, <1>7, <1>12
<1>13. CASE \/ \E p \in Writers : ReadHead(p) \/ PrepareRepoWrite(p)
            \/ \E p \in Callers \cup {AutoPull} :
                 \/ LockSync(p) \/ FetchRevision(p) \/ PersistSynced(p)
                 \/ RecordRepoSyncFailure(p) \/ ReturnFromSync(p)
            \/ \E p \in {AutoPull} \cup Deployers :
                 \/ ReadRevisionToDeploy(p) \/ AdmitDeploy(p) \/ NoDeploy(p)
                 \/ ClearServicePendingDeploy(p)
            \/ DiscoverServices \/ SetServicePendingDeploy \/ TaskEnds \/ RestartController
  BY <1>0, <1>13
     DEF ReadHead, PrepareRepoWrite, LockSync, FetchRevision, PersistSynced,
         RecordRepoSyncFailure, ReturnFromSync, ReadRevisionToDeploy, AdmitDeploy, NoDeploy,
         ClearServicePendingDeploy, DiscoverServices, SetServicePendingDeploy, TaskEnds,
         RestartController, gitVars
<1> QED  BY <1>8, <1>9, <1>10, <1>11, <1>12, <1>13 DEF RepoNext

\* Neither a pull, a push, a commit, a failure nor a restart ever drops a
\* commit, here or at the remote: merge is --ff-only and push is not forced.
THEOREM RepoKeepsCommits == RepoSpec => NoCommitIsDropped
<1>1. RepoInv /\ [RepoNext]_repoVars =>
        [IsPrefix(head, head') /\ IsPrefix(remoteHead, remoteHead')]_repoVars
  BY HistoriesGrow
<1> QED  BY <1>1, RepoStarts, RepoKept, PTL DEF RepoSpec, NoCommitIsDropped

-----------------------------------------------------------------------------
(* The files of the repository: paths *)

LEMMA PrefixOfTuples ==
  ASSUME NEW a, NEW b, NEW c, NEW d
  PROVE  /\ IsPrefix(<<a>>, <<c>>) <=> a = c
         /\ IsPrefix(<<a>>, <<c, d>>) <=> a = c
         /\ ~IsPrefix(<<a, b>>, <<c>>)
         /\ IsPrefix(<<a, b>>, <<c, d>>) <=> a = c /\ b = d
<1>0. /\ Len(<<a>>) = 1 /\ Len(<<c>>) = 1 /\ Len(<<a, b>>) = 2 /\ Len(<<c, d>>) = 2
  OBVIOUS
<1> DEFINE S == {a, b, c, d}
<1>1. <<a>> \in Seq(S) /\ <<c>> \in Seq(S) /\ <<a, b>> \in Seq(S) /\ <<c, d>> \in Seq(S)
  OBVIOUS
<1>2. \A s \in Seq(S), n \in Nat : n <= Len(s) =>
        /\ SubSeq(s, 1, n) \in Seq(S) /\ Len(SubSeq(s, 1, n)) = n
        /\ \A i \in 1..n : SubSeq(s, 1, n)[i] = s[i]
  <2> SUFFICES ASSUME NEW s \in Seq(S), NEW n \in Nat, n <= Len(s)
               PROVE  /\ SubSeq(s, 1, n) \in Seq(S) /\ Len(SubSeq(s, 1, n)) = n
                      /\ \A i \in 1..n : SubSeq(s, 1, n)[i] = s[i]
    OBVIOUS
  <2>1. \A i \in 1..n : s[i] \in S
    OBVIOUS
  <2> QED  BY <2>1, SubSeqProperties
<1>3. \A s, t \in Seq(S), n \in Nat : n <= Len(s) /\ n <= Len(t) =>
        (SubSeq(s, 1, n) = SubSeq(t, 1, n) <=> \A i \in 1..n : s[i] = t[i])
  BY <1>2, SeqEqual
<1>4. SubSeq(<<a>>, 1, 1) = SubSeq(<<c>>, 1, 1) <=> a = c
  BY <1>0, <1>1, <1>3
<1>5. SubSeq(<<a>>, 1, 1) = SubSeq(<<c, d>>, 1, 1) <=> a = c
  BY <1>0, <1>1, <1>3
<1>6. SubSeq(<<a, b>>, 1, 2) = SubSeq(<<c, d>>, 1, 2) <=> a = c /\ b = d
  BY <1>0, <1>1, <1>3
<1> QED  BY <1>0, <1>4, <1>5, <1>6 DEF IsPrefix

IsTop(p) == \E s \in TopSegments : p = <<s>>
IsSub(p) == \E s \in TopSegments, t \in SubSegments : p = <<s, t>>

LEMMA PathShape ==
  /\ \A p : p \in RepoPaths <=> IsTop(p) \/ IsSub(p)
  /\ \A p : IsTop(p) => Len(p) = 1
  /\ \A p : IsSub(p) => Len(p) = 2
<1>1. RepoPaths = {<<s>> : s \in TopSegments} \cup {<<s, t>> : s \in TopSegments, t \in SubSegments}
  BY DEF RepoPaths
<1>2. \A p : p \in {<<s>> : s \in TopSegments} <=> IsTop(p)
  BY SMT DEF IsTop
<1>3. \A p : p \in {<<s, t>> : s \in TopSegments, t \in SubSegments} <=> IsSub(p)
  BY SMT DEF IsSub
<1>4. \A p : IsTop(p) => Len(p) = 1
  BY DEF IsTop
<1>5. \A p : IsSub(p) => Len(p) = 2
  BY DEF IsSub
<1> QED  BY <1>1, <1>2, <1>3, <1>4, <1>5

\* One path lies in another: the same one, or an entry of the directory.
LEMMA Beneath ==
  ASSUME NEW p \in RepoPaths, NEW q \in RepoPaths
  PROVE  SameOrChild(q, p) <=> q = p \/ (IsTop(p) /\ IsSub(q) /\ q[1] = p[1])
<1>1. CASE IsTop(p) /\ IsTop(q)
  <2>1. PICK s \in TopSegments : p = <<s>>
    BY <1>1 DEF IsTop
  <2>2. PICK t \in TopSegments : q = <<t>>
    BY <1>1 DEF IsTop
  <2>3. ~IsSub(q)
    BY <1>1, PathShape
  <2>4. IsPrefix(<<s>>, <<t>>) <=> s = t
    BY PrefixOfTuples
  <2>5. <<s>> = <<t>> <=> s = t
    OBVIOUS
  <2> QED  BY <2>1, <2>2, <2>3, <2>4, <2>5 DEF SameOrChild
<1>2. CASE IsTop(p) /\ IsSub(q)
  <2>1. PICK s \in TopSegments : p = <<s>>
    BY <1>2 DEF IsTop
  <2>2. PICK t \in TopSegments, u \in SubSegments : q = <<t, u>>
    BY <1>2 DEF IsSub
  <2>3. p # q
    BY <1>2, PathShape
  <2>4. IsPrefix(<<s>>, <<t, u>>) <=> s = t
    BY PrefixOfTuples
  <2>5. p[1] = s /\ q[1] = t
    BY <2>1, <2>2
  <2> QED  BY <1>2, <2>1, <2>2, <2>3, <2>4, <2>5 DEF SameOrChild
<1>3. CASE IsSub(p) /\ IsTop(q)
  <2>1. PICK s \in TopSegments, t \in SubSegments : p = <<s, t>>
    BY <1>3 DEF IsSub
  <2>2. PICK u \in TopSegments : q = <<u>>
    BY <1>3 DEF IsTop
  <2>3. p # q /\ ~IsTop(p)
    BY <1>3, PathShape
  <2>4. ~IsPrefix(<<s, t>>, <<u>>)
    BY PrefixOfTuples
  <2> QED  BY <2>1, <2>2, <2>3, <2>4 DEF SameOrChild
<1>4. CASE IsSub(p) /\ IsSub(q)
  <2>1. PICK s \in TopSegments, t \in SubSegments : p = <<s, t>>
    BY <1>4 DEF IsSub
  <2>2. PICK u \in TopSegments, v \in SubSegments : q = <<u, v>>
    BY <1>4 DEF IsSub
  <2>3. ~IsTop(p)
    BY <1>4, PathShape
  <2>4. IsPrefix(<<s, t>>, <<u, v>>) <=> s = u /\ t = v
    BY PrefixOfTuples
  <2>5. <<s, t>> = <<u, v>> <=> s = u /\ t = v
    OBVIOUS
  <2> QED  BY <2>1, <2>2, <2>3, <2>4, <2>5 DEF SameOrChild
<1> QED  BY <1>1, <1>2, <1>3, <1>4, PathShape

LEMMA DirectoryOf ==
  /\ \A p : IsTop(p) => Parents(p) = {}
  /\ \A p : IsSub(p) => Parents(p) = {<<p[1]>>} /\ IsTop(<<p[1]>>)
<1>1. ASSUME NEW p, IsTop(p)  PROVE Parents(p) = {}
  <2>1. Len(p) = 1
    BY <1>1, PathShape
  <2>2. 1..(Len(p) - 1) = {}
    BY <2>1
  <2> QED  BY <2>2 DEF Parents
<1>2. ASSUME NEW p, IsSub(p)  PROVE Parents(p) = {<<p[1]>>} /\ IsTop(<<p[1]>>)
  <2>1. PICK s \in TopSegments, t \in SubSegments : p = <<s, t>>
    BY <1>2 DEF IsSub
  <2>2. 1..(Len(p) - 1) = {1}
    BY <2>1
  <2>3. Parents(p) = {SubSeq(p, 1, 1)}
    BY <2>2 DEF Parents
  <2>4. p \in Seq({s, t}) /\ p[1] = s
    BY <2>1
  <2>5. \A i \in 1..1 : p[i] \in {s, t}
    BY <2>4
  <2>6. /\ SubSeq(p, 1, 1) \in Seq({s, t}) /\ Len(SubSeq(p, 1, 1)) = 1
        /\ \A i \in 1..1 : SubSeq(p, 1, 1)[i] = p[i]
    BY <2>5, SubSeqProperties
  <2>7. <<s>> \in Seq({s, t}) /\ Len(<<s>>) = 1 /\ <<s>>[1] = s
    OBVIOUS
  <2>8. \A i \in 1..Len(<<s>>) : SubSeq(p, 1, 1)[i] = <<s>>[i]
    BY <2>4, <2>6, <2>7
  <2>9. SubSeq(p, 1, 1) = <<s>>
    BY <2>6, <2>7, <2>8, SeqEqual
  <2> QED  BY <2>3, <2>4, <2>9 DEF IsTop
<1> QED  BY <1>1, <1>2

\* Lying in one another orders the paths of the repository, and the directories
\* a path is in are those it lies in, itself apart.
LEMMA PathOrder ==
  /\ \A p \in RepoPaths : SameOrChild(p, p)
  /\ \A p, q, r \in RepoPaths : SameOrChild(p, q) /\ SameOrChild(q, r) => SameOrChild(p, r)
  /\ \A p, q \in RepoPaths : SameOrChild(p, q) /\ SameOrChild(q, p) => p = q
  /\ \A p \in RepoPaths : Parents(p) = {q \in RepoPaths : SameOrChild(p, q) /\ p # q}
  /\ \A p \in RepoPaths : Parents(p) \subseteq RepoPaths
  /\ \A p \in RepoPaths : \A q \in Parents(p) : Parents(q) = {}
<1>1. \A p \in RepoPaths : SameOrChild(p, p)
  BY Beneath
<1>2. \A p, q, r \in RepoPaths : SameOrChild(p, q) /\ SameOrChild(q, r) => SameOrChild(p, r)
  BY Beneath, PathShape
<1>3. \A p, q \in RepoPaths : SameOrChild(p, q) /\ SameOrChild(q, p) => p = q
  BY Beneath, PathShape
<1>4. ASSUME NEW p \in RepoPaths
      PROVE  /\ Parents(p) = {q \in RepoPaths : SameOrChild(p, q) /\ p # q}
             /\ Parents(p) \subseteq RepoPaths
             /\ \A q \in Parents(p) : Parents(q) = {}
  <2>1. CASE IsTop(p)
    <3>1. ~IsSub(p)
      BY <2>1, PathShape
    <3>2. {q \in RepoPaths : SameOrChild(p, q) /\ p # q} = {}
      BY <3>1, Beneath
    <3> QED  BY <2>1, <3>2, DirectoryOf
  <2>2. CASE IsSub(p)
    <3>1. Parents(p) = {<<p[1]>>} /\ IsTop(<<p[1]>>) /\ <<p[1]>> \in RepoPaths
      BY <2>2, DirectoryOf, PathShape
    <3>2. <<p[1]>> # p
      BY <2>2, <3>1, PathShape
    <3>3. ASSUME NEW q \in RepoPaths  PROVE SameOrChild(p, q) /\ p # q <=> q = <<p[1]>>
      <4>1. IsTop(q) => q = <<q[1]>>
        BY DEF IsTop
      <4>2. <<p[1]>>[1] = p[1]
        OBVIOUS
      <4> QED  BY <2>2, <3>1, <3>2, <4>1, <4>2, Beneath
    <3> QED  BY <3>1, <3>3, DirectoryOf
  <2> QED  BY <2>1, <2>2, PathShape
<1> QED  BY <1>1, <1>2, <1>3, <1>4

LEMMA LastSegment ==
  ASSUME NEW a, NEW b
  PROVE  /\ Last(<<a>>) = a /\ Front(<<a>>) = << >>
         /\ Last(<<a, b>>) = b /\ Front(<<a, b>>) = <<a>>
         /\ << >> \o <<a>> = <<a>> /\ <<a>> \o <<b>> = <<a, b>>
<1> DEFINE S == {a, b}
<1>1. /\ <<a>> \in Seq(S) /\ <<b>> \in Seq(S) /\ <<a, b>> \in Seq(S)
      /\ Len(<<a>>) = 1 /\ Len(<<b>>) = 1 /\ Len(<<a, b>>) = 2 /\ <<a, b>>[1] = a
      /\ <<a>>[1] = a /\ <<b>>[1] = b /\ <<a, b>>[2] = b
  OBVIOUS
<1>2. Last(<<a>>) = a /\ Last(<<a, b>>) = b
  BY <1>1 DEF Last
<1>3. SubSeq(<<a>>, 1, 0) = << >>
  BY SubSeqEmpty
<1>4. \A i \in 1..1 : <<a, b>>[i] \in S
  BY <1>1
<1>5. /\ SubSeq(<<a, b>>, 1, 1) \in Seq(S) /\ Len(SubSeq(<<a, b>>, 1, 1)) = 1
      /\ \A i \in 1..1 : SubSeq(<<a, b>>, 1, 1)[i] = <<a, b>>[i]
  BY <1>4, SubSeqProperties
<1>6. \A i \in 1..Len(<<a>>) : SubSeq(<<a, b>>, 1, 1)[i] = <<a>>[i]
  BY <1>1, <1>5
<1>7. SubSeq(<<a, b>>, 1, 1) = <<a>>
  BY <1>1, <1>5, <1>6, SeqEqual
<1>8. Front(<<a>>) = << >> /\ Front(<<a, b>>) = <<a>>
  BY <1>1, <1>3, <1>7 DEF Front
<1>9. << >> \o <<a>> = <<a>>
  BY <1>1, ConcatEmptySeq
<1>10. <<a>> \o <<b>> = <<a, b>>
  <2> DEFINE u == <<a>>
             v == <<b>>
             w == <<a, b>>
  <2>1. u \in Seq(S) /\ v \in Seq(S) /\ w \in Seq(S) /\ Len(u) = 1 /\ Len(v) = 1 /\ Len(w) = 2
    BY <1>1
  <2>2. w[1] = u[1] /\ w[2] = v[1]
    BY <1>1
  <2> HIDE DEF u, v, w
  <2>3. /\ u \o v \in Seq(S) /\ Len(u \o v) = Len(u) + Len(v)
        /\ \A i \in 1..(Len(u) + Len(v)) :
             (u \o v)[i] = IF i <= Len(u) THEN u[i] ELSE v[i - Len(u)]
    BY <2>1, ConcatProperties
  <2>4. Len(u \o v) = 2 /\ (u \o v)[1] = w[1] /\ (u \o v)[2] = w[2]
    BY <2>1, <2>2, <2>3
  <2>5. \A i \in 1..2 : (u \o v)[i] = w[i]
    BY <2>4
  <2>6. u \o v = w
    BY <2>1, <2>3, <2>4, <2>5, SeqEqual
  <2> QED  BY <2>6 DEF u, v, w
<1> QED  BY <1>2, <1>8, <1>9, <1>10

LEMMA SegmentShape ==
  /\ \A n : Enc(n).enc /\ ~Plain(n).enc /\ Enc(n).base = n /\ Plain(n).base = n
  /\ \A s \in TopSegments \cup SubSegments : s.enc => s = Enc(s.base)
  /\ \A s \in TopSegments : s.enc /\ s.base # NoName => Plain(s.base) \in TopSegments
  /\ \A s \in SubSegments : s.enc => Plain(s.base) \in SubSegments
<1>1. \A n : Enc(n).enc /\ ~Plain(n).enc /\ Enc(n).base = n /\ Plain(n).base = n
  BY DEF Enc, Plain
<1>2. \A names : \A s \in Segments(names) : s.enc => s = Enc(s.base) /\ Plain(s.base) \in Segments(names)
  BY <1>1 DEF Segments
<1>3. ~GitKeep.enc
  BY <1>1 DEF GitKeep
<1>4. \A s \in TopSegments : s.enc =>
        s = Enc(s.base) /\ (s.base # NoName => Plain(s.base) \in TopSegments)
  BY <1>1, <1>2 DEF TopSegments
<1>5. \A s \in SubSegments : s.enc => s = Enc(s.base) /\ Plain(s.base) \in SubSegments
  BY <1>2, <1>3 DEF SubSegments
<1> QED  BY <1>1, <1>4, <1>5

\* Beside each encrypted file is the place of its plaintext, in the same
\* directory, and whose encrypted sibling it is again.
LEMMA Siblings ==
  ASSUME NEW e \in RepoPaths, IsValidEncryptedFilePath(e)
  PROVE  /\ RuntimeFilePath(e) \in RepoPaths
         /\ EncryptedPath(RuntimeFilePath(e)) = e
         /\ ~Last(RuntimeFilePath(e)).enc
         /\ Parents(RuntimeFilePath(e)) = Parents(e)
<1>1. CASE IsTop(e)
  <2>1. PICK s \in TopSegments : e = <<s>>
    BY <1>1 DEF IsTop
  <2> DEFINE r == Plain(s.base)
  <2>2. Last(e) = s /\ Front(e) = << >>
    BY <2>1, LastSegment
  <2>3. s.enc /\ s.base # NoName
    BY <2>2 DEF IsValidEncryptedFilePath
  <2>4. s = Enc(s.base) /\ r \in TopSegments /\ ~r.enc /\ r.base = s.base
    BY <2>3, SegmentShape
  <2>5. RuntimeFilePath(e) = <<r>>
    BY <2>2, LastSegment DEF RuntimeFilePath
  <2>6. EncryptedPath(<<r>>) = <<Enc(r.base)>>
    BY LastSegment DEF EncryptedPath
  <2>7. Last(<<r>>) = r
    BY LastSegment
  <2>8. IsTop(<<r>>)
    BY <2>4 DEF IsTop
  <2>9. Parents(<<r>>) = {} /\ Parents(e) = {} /\ <<r>> \in RepoPaths
    BY <1>1, <2>8, DirectoryOf, PathShape
  <2>10. EncryptedPath(<<r>>) = e
    BY <2>1, <2>4, <2>6
  <2> QED  BY <2>4, <2>5, <2>7, <2>9, <2>10
<1>2. CASE IsSub(e)
  <2>1. PICK d \in TopSegments, s \in SubSegments : e = <<d, s>>
    BY <1>2 DEF IsSub
  <2> DEFINE r == Plain(s.base)
  <2>2. Last(e) = s /\ Front(e) = <<d>>
    BY <2>1, LastSegment
  <2>3. s.enc
    BY <2>2 DEF IsValidEncryptedFilePath
  <2>4. s = Enc(s.base) /\ r \in SubSegments /\ ~r.enc /\ r.base = s.base
    BY <2>3, SegmentShape
  <2>5. RuntimeFilePath(e) = <<d, r>>
    BY <2>2, LastSegment DEF RuntimeFilePath
  <2>6. Last(<<d, r>>) = r /\ Front(<<d, r>>) = <<d>> /\ <<d>> \o <<Enc(r.base)>> = <<d, Enc(r.base)>>
    BY LastSegment
  <2>7. EncryptedPath(<<d, r>>) = <<d, Enc(r.base)>>
    BY <2>6 DEF EncryptedPath
  <2>8. IsSub(<<d, r>>)
    BY <2>4 DEF IsSub
  <2>9. e[1] = d /\ <<d, r>>[1] = d
    BY <2>1
  <2>10. Parents(<<d, r>>) = Parents(e) /\ <<d, r>> \in RepoPaths
    BY <1>2, <2>8, <2>9, DirectoryOf, PathShape
  <2>11. EncryptedPath(<<d, r>>) = e
    BY <2>1, <2>4, <2>7
  <2> QED  BY <2>4, <2>5, <2>6, <2>10, <2>11
<1> QED  BY <1>1, <1>2, PathShape

\* Where a path below p comes to lie when p is moved to dest.
LEMMA Rebased ==
  ASSUME NEW p \in RepoPaths, NEW dest \in RepoPaths
  PROVE  /\ Rebase(p, p, dest) = dest
         /\ \A q \in RepoPaths : SameOrChild(q, p) /\ q # p /\ Rebase(q, p, dest) \in RepoPaths =>
              /\ Parents(Rebase(q, p, dest)) = {dest}
              /\ Rebase(Rebase(q, p, dest), dest, p) = q
<1>1. ASSUME NEW x \in RepoPaths, NEW y \in RepoPaths  PROVE Rebase(x, x, y) = y
  <2>1. Len(x) \in Nat /\ Len(x) + 1 \in Int /\ Len(x) < Len(x) + 1
    BY PathShape
  <2>2. SubSeq(x, Len(x) + 1, Len(x)) = << >>
    BY <2>1, SubSeqEmpty
  <2>3. y \in Seq(TopSegments \cup SubSegments)
    BY PathShape DEF IsTop, IsSub
  <2> QED  BY <2>2, <2>3, ConcatEmptySeq DEF Rebase
<1>2. ASSUME NEW a, NEW b, NEW d
      PROVE  Rebase(<<a, b>>, <<a>>, <<d>>) = <<d, b>>
  <2>1. <<a, b>> \in Seq({a, b}) /\ Len(<<a, b>>) = 2 /\ Len(<<a>>) = 1 /\ <<a, b>>[2] = b
    OBVIOUS
  <2>2. \A i \in 2..2 : <<a, b>>[i] \in {a, b}
    BY <2>1
  <2>3. /\ SubSeq(<<a, b>>, 2, 2) \in Seq({a, b}) /\ Len(SubSeq(<<a, b>>, 2, 2)) = 1
        /\ \A i \in 1..1 : SubSeq(<<a, b>>, 2, 2)[i] = <<a, b>>[2 + i - 1]
    BY <2>2, SubSeqProperties
  <2>4. <<b>> \in Seq({a, b}) /\ Len(<<b>>) = 1 /\ <<b>>[1] = b
    OBVIOUS
  <2>5. \A i \in 1..Len(<<b>>) : SubSeq(<<a, b>>, 2, 2)[i] = <<b>>[i]
    BY <2>1, <2>3, <2>4
  <2>6. SubSeq(<<a, b>>, 2, 2) = <<b>>
    BY <2>3, <2>4, <2>5, SeqEqual
  <2>7. <<d>> \o <<b>> = <<d, b>>
    BY LastSegment
  <2>8. SubSeq(<<a, b>>, Len(<<a>>) + 1, Len(<<a, b>>)) = <<b>>
    BY <2>1, <2>6
  <2> HIDE <2>6
  <2> QED  BY <2>7, <2>8, Zenon DEF Rebase
<1>3. ASSUME NEW q \in RepoPaths, SameOrChild(q, p), q # p, Rebase(q, p, dest) \in RepoPaths
      PROVE  /\ Parents(Rebase(q, p, dest)) = {dest}
             /\ Rebase(Rebase(q, p, dest), dest, p) = q
  <2>1. IsTop(p) /\ IsSub(q) /\ q[1] = p[1]
    BY <1>3, Beneath
  <2>2. PICK a \in TopSegments, b \in SubSegments : q = <<a, b>>
    BY <2>1 DEF IsSub
  <2>3. p = <<a>>
    BY <2>1, <2>2 DEF IsTop
  <2>4. CASE IsTop(dest)
    <3>1. PICK d \in TopSegments : dest = <<d>>
      BY <2>4 DEF IsTop
    <3>2. Rebase(q, p, dest) = <<d, b>> /\ Rebase(<<d, b>>, dest, p) = <<a, b>>
      BY <1>2, <2>2, <2>3, <3>1
    <3>3. IsSub(<<d, b>>) /\ <<d, b>>[1] = d
      BY DEF IsSub
    <3>4. Parents(<<d, b>>) = {<<d>>}
      BY <3>3, DirectoryOf
    <3> QED  BY <2>2, <3>1, <3>2, <3>4
  <2>5. CASE IsSub(dest)
    <3> DEFINE S == TopSegments \cup SubSegments
               x == SubSeq(q, 2, 2)
    <3>1. Len(p) = 1 /\ Len(q) = 2
      BY <2>1, PathShape
    <3>2. \A i \in 2..2 : q[i] \in S
      BY <2>2
    <3>3. x \in Seq(S) /\ Len(x) = 1
      BY <3>2, SubSeqProperties
    <3>4. dest \in Seq(S) /\ Len(dest) = 2
      BY <2>5, PathShape DEF IsSub
    <3> HIDE DEF x, S
    <3>5. Len(dest \o x) = Len(dest) + Len(x)
      BY <3>3, <3>4, ConcatProperties
    <3>6. Rebase(q, p, dest) = dest \o x
      BY <3>1 DEF Rebase, x
    <3>7. \A r \in RepoPaths : Len(r) # 3
      BY PathShape
    <3>8. Len(dest \o x) = 3
      BY <3>3, <3>4, <3>5
    <3> QED  BY <1>3, <3>6, <3>7, <3>8
  <2> QED  BY <2>4, <2>5, PathShape
<1> QED  BY <1>1, <1>3

-----------------------------------------------------------------------------
(* The files of the repository: the worktree *)

\* No plaintext stands where, or below where, that of an encrypted file goes.
SecretsIn(t) ==
  \A e \in FilesOf(t), p \in FilesOf(t) :
    IsValidEncryptedFilePath(e) /\ ~Last(p).enc => ~SameOrChild(p, RuntimeFilePath(e))

\* Every node lies in a directory, and directories are never two levels deep,
\* since git keeps none without a file in it.
SoundTree(t) ==
  /\ DOMAIN t \subseteq RepoPaths
  /\ \A p \in DOMAIN t : \A q \in Parents(p) : IsDir(t, q)
  /\ \A p \in DOMAIN t : t[p] = "dir" => Parents(p) = {}
  /\ SecretsIn(t)

FilesInv ==
  SoundTree(tree) /\ DOMAIN committed \subseteq RepoPaths /\ CleanWorktree

\* The directories a failed write made may stay: git does not see them.
GrownFrom(r, t) ==
  /\ \A q \in DOMAIN t : q \in DOMAIN r /\ r[q] = t[q]
  /\ \A q \in DOMAIN r \ DOMAIN t : r[q] = "dir" /\ q \in RepoPaths /\ Parents(q) = {}

SameOutside(t, paths) ==
  \A q \in RepoPaths : (\A p \in paths : ~SameOrChild(q, p)) =>
    /\ q \in FilesOf(t) <=> q \in FilesOf(tree)
    /\ q \in FilesOf(tree) => t[q] = tree[q]

LEMMA TrackedMeans ==
  ASSUME NEW t
  PROVE  /\ TrackedOf(t) = [q \in FilesOf(t) |-> t[q]]
         /\ DOMAIN TrackedOf(t) = FilesOf(t)
         /\ \A q \in FilesOf(t) : TrackedOf(t)[q] = t[q]
BY DEF TrackedOf, Restrict

LEMMA SameTracked ==
  ASSUME NEW t, NEW u, FilesOf(t) = FilesOf(u), \A q \in FilesOf(t) : t[q] = u[q]
  PROVE  TrackedOf(t) = TrackedOf(u)
<1>1. [q \in FilesOf(t) |-> t[q]] = [q \in FilesOf(u) |-> u[q]]
  BY Zenon
<1> QED  BY <1>1, TrackedMeans

LEMMA GrownIsSound ==
  ASSUME NEW r, NEW t, SoundTree(t), GrownFrom(r, t)
  PROVE  SoundTree(r) /\ TrackedOf(r) = TrackedOf(t)
<1>1. FilesOf(r) = FilesOf(t) /\ \A q \in FilesOf(r) : r[q] = t[q]
  BY DEF GrownFrom, FilesOf
<1>2. TrackedOf(r) = TrackedOf(t)
  BY <1>1, SameTracked
<1>3. DOMAIN r \subseteq RepoPaths
  BY DEF GrownFrom, SoundTree
<1>4. \A p \in DOMAIN r : \A q \in Parents(p) : IsDir(r, q)
  BY DEF GrownFrom, SoundTree, IsDir, Exists
<1>5. \A p \in DOMAIN r : r[p] = "dir" => Parents(p) = {}
  BY DEF GrownFrom, SoundTree
<1>6. SecretsIn(r)
  BY <1>1 DEF SoundTree, SecretsIn
<1> QED  BY <1>2, <1>3, <1>4, <1>5, <1>6 DEF SoundTree

\* A step that touches the given paths only, and leaves the tree sound when git
\* has something to commit, keeps the invariant whether or not git does.
LEMMA CommitOrRestoreKeeps ==
  ASSUME FilesInv, NEW t, NEW paths, NEW restored, NEW gitOk,
         CommitOrRestore(t, paths, restored, gitOk),
         GrownFrom(restored, tree), SameOutside(t, paths),
         CommittedPaths(t, paths) # committed => SoundTree(t)
  PROVE  FilesInv'
<1> DEFINE new == CommittedPaths(t, paths)
<1>1. CASE gitOk /\ new # committed
  <2>1. tree' = t /\ committed' = new
    BY <1>1 DEF CommitOrRestore
  <2>2. SoundTree(t)
    BY <1>1
  <2> DEFINE keep == {q \in DOMAIN committed : ~\E p \in paths : SameOrChild(q, p)}
             put == {q \in FilesOf(t) : \E p \in paths : SameOrChild(q, p)}
  <2>3. new = [q \in keep \cup put |-> IF q \in put THEN t[q] ELSE committed[q]]
    BY DEF CommittedPaths
  <2>4. /\ DOMAIN committed = FilesOf(tree) /\ FilesOf(tree) \subseteq RepoPaths
        /\ \A q \in FilesOf(tree) : committed[q] = tree[q]
    BY TrackedMeans DEF FilesInv, CleanWorktree, SoundTree, FilesOf
  <2>5. FilesOf(t) \subseteq RepoPaths
    BY <2>2 DEF SoundTree, FilesOf
  <2>6. keep \cup put = FilesOf(t)
    BY <2>4, <2>5 DEF SameOutside
  <2>7. \A q \in FilesOf(t) : (IF q \in put THEN t[q] ELSE committed[q]) = t[q]
    BY <2>4, <2>5, <2>6 DEF SameOutside
  <2>8. new = [q \in FilesOf(t) |-> t[q]]
    <3> HIDE DEF keep, put, new
    <3> QED  BY <2>3, <2>6, <2>7
  <2>9. TrackedOf(t) = new /\ DOMAIN new \subseteq RepoPaths
    BY <2>5, <2>8, TrackedMeans
  <2> QED  BY <2>1, <2>2, <2>9 DEF FilesInv, CleanWorktree, SoundTree, SecretsIn, IsDir, Exists,
                                   FilesOf, TrackedOf
<1>2. CASE ~(gitOk /\ new # committed)
  <2>1. tree' = restored /\ committed' = committed
    BY <1>2 DEF CommitOrRestore
  <2>2. SoundTree(restored) /\ TrackedOf(restored) = committed
    BY GrownIsSound DEF FilesInv, CleanWorktree
  <2> QED  BY <2>1, <2>2 DEF FilesInv, CleanWorktree
<1> QED  BY <1>1, <1>2

LEMMA PutFacts ==
  \A t, p, node :
    /\ DOMAIN Put(t, p, node) = DOMAIN t \cup Parents(p) \cup {p}
    /\ Put(t, p, node)[p] = node
    /\ \A q \in DOMAIN t : q # p => Put(t, p, node)[q] = t[q]
    /\ \A q \in Parents(p) : q # p /\ q \notin DOMAIN t => Put(t, p, node)[q] = "dir"
BY DEF Put

LEMMA RemoveFacts ==
  \A t, p :
    /\ DOMAIN RemoveAll(t, p) = {q \in DOMAIN t : ~SameOrChild(q, p)}
    /\ \A q \in DOMAIN RemoveAll(t, p) : RemoveAll(t, p)[q] = t[q]
BY DEF RemoveAll, Restrict, Below

\* What the check for conflicts gives: the path may become a file.
LEMMA NoConflict ==
  ASSUME SoundTree(tree), NEW p \in RepoPaths, ~RejectEncryptedFileConflict(tree, p)
  PROVE  /\ IsValidEncryptedFilePath(p) =>
              \A x \in FilesOf(tree) : ~SameOrChild(x, RuntimeFilePath(p))
         /\ ~Last(p).enc =>
              \A e \in FilesOf(tree) : IsValidEncryptedFilePath(e) => ~SameOrChild(p, RuntimeFilePath(e))
<1>1. ASSUME IsValidEncryptedFilePath(p), NEW x \in FilesOf(tree), SameOrChild(x, RuntimeFilePath(p))
      PROVE  FALSE
  <2>1. EncryptedSiblingPath(p) = RuntimeFilePath(p) /\ RuntimeFilePath(p) \in RepoPaths
    BY <1>1, Siblings DEF EncryptedSiblingPath, IsValidEncryptedFilePath
  <2>2. RuntimeFilePath(p) \notin DOMAIN tree
    BY <2>1 DEF RejectEncryptedFileConflict, Exists
  <2>3. x \in DOMAIN tree /\ x \in RepoPaths
    BY DEF SoundTree, FilesOf
  <2>4. RuntimeFilePath(p) \in Parents(x)
    BY <1>1, <2>1, <2>2, <2>3, PathOrder
  <2> QED  BY <2>2, <2>3, <2>4 DEF SoundTree, IsDir, Exists
<1>2. ASSUME ~Last(p).enc, NEW e \in FilesOf(tree), IsValidEncryptedFilePath(e),
             SameOrChild(p, RuntimeFilePath(e))
      PROVE  FALSE
  <2>1. e \in DOMAIN tree /\ e \in RepoPaths
    BY DEF SoundTree, FilesOf
  <2>2. RuntimeFilePath(e) \in RepoPaths /\ EncryptedPath(RuntimeFilePath(e)) = e
    BY <1>2, <2>1, Siblings
  <2>3. RuntimeFilePath(e) # p
    BY <1>2, <2>1, <2>2 DEF RejectEncryptedFileConflict, EncryptedSiblingPath, Exists
  <2>4. RuntimeFilePath(e) \in Parents(p)
    BY <1>2, <2>2, <2>3, PathOrder
  <2> QED  BY <1>2, <2>1, <2>2, <2>4 DEF RejectEncryptedFileConflict, Exists
<1> QED  BY <1>1, <1>2

LEMMA NamedInRepo == \A p \in NamedPaths : p \in RepoPaths
BY DEF NamedPaths

LEMMA UpdateKeeps ==
  ASSUME FilesInv, NEW p \in NamedPaths, NEW v \in Contents, NEW gitOk \in BOOLEAN,
         UpdateRepoFile(p, v, gitOk)
  PROVE  FilesInv'
<1> DEFINE t == Put(tree, p, v)
           restored == IF Exists(tree, p) THEN Put(t, p, tree[p])
                                          ELSE Restrict(t, DOMAIN t \ {p})
<1>1. /\ Last(p).enc => IsValidEncryptedFilePath(p)
      /\ Reachable(tree, p) /\ ~IsDir(tree, p) /\ ~RejectEncryptedFileConflict(tree, p)
      /\ CommitOrRestore(t, {p}, restored, gitOk)
  BY DEF UpdateRepoFile
<1>2. p \in RepoPaths /\ v # "dir"
  BY NamedInRepo, FilesAssumption
<1>3. SoundTree(tree)
  BY DEF FilesInv
<1>4. /\ DOMAIN t = DOMAIN tree \cup Parents(p) \cup {p} /\ t[p] = v
      /\ \A q \in DOMAIN tree : q # p => t[q] = tree[q]
      /\ \A q \in Parents(p) : q # p /\ q \notin DOMAIN tree => t[q] = "dir"
  <2>1. DOMAIN t = DOMAIN tree \cup Parents(p) \cup {p}
    BY PutFacts
  <2>2. t[p] = v
    BY PutFacts
  <2>3. \A q \in DOMAIN tree : q # p => t[q] = tree[q]
    BY PutFacts
  <2>4. \A q \in Parents(p) : q # p /\ q \notin DOMAIN tree => t[q] = "dir"
    BY PutFacts
  <2> HIDE DEF t
  <2> QED  BY <2>1, <2>2, <2>3, <2>4
<1>5. /\ Parents(p) \subseteq RepoPaths /\ p \notin Parents(p)
      /\ \A q \in Parents(p) : Parents(q) = {} /\ (q \in DOMAIN tree => tree[q] = "dir")
  BY <1>1, <1>2, PathOrder DEF Reachable, IsDir, Exists
<1>6. \A q \in DOMAIN tree : q \in RepoPaths /\ \A r \in Parents(q) : IsDir(tree, r)
  BY <1>3 DEF SoundTree
<1>7. FilesOf(t) = FilesOf(tree) \cup {p}
  BY <1>1, <1>2, <1>4, <1>5 DEF FilesOf, IsDir, Exists
<1>8. SameOutside(t, {p})
  <2>1. SameOrChild(p, p)
    BY <1>2, PathOrder
  <2> QED  BY <1>4, <1>7, <2>1 DEF SameOutside, FilesOf
<1>9. GrownFrom(restored, tree)
  <2>1. CASE Exists(tree, p)
    <3>1. Parents(p) \subseteq DOMAIN tree
      BY <1>6, <2>1 DEF Exists, IsDir
    <3>2. DOMAIN t = DOMAIN tree
      BY <1>4, <2>1, <3>1 DEF Exists
    <3>3. restored = Put(t, p, tree[p])
      BY <2>1
    <3>4. /\ DOMAIN restored = DOMAIN tree /\ restored[p] = tree[p]
          /\ \A q \in DOMAIN tree : q # p => restored[q] = t[q]
      <4> HIDE DEF t, restored
      <4>1. DOMAIN restored = DOMAIN t \cup Parents(p) \cup {p}
        BY <3>3, PutFacts
      <4>2. restored[p] = tree[p]
        BY <3>3, PutFacts
      <4>3. \A q \in DOMAIN t : q # p => restored[q] = t[q]
        BY <3>3, PutFacts
      <4> QED  BY <2>1, <3>1, <3>2, <4>1, <4>2, <4>3 DEF Exists
    <3> QED  BY <1>4, <3>4 DEF GrownFrom
  <2>2. CASE ~Exists(tree, p)
    <3>1. restored = [q \in DOMAIN t \ {p} |-> t[q]]
      BY <2>2 DEF Restrict
    <3> HIDE DEF t, restored
    <3>2. /\ DOMAIN restored = (DOMAIN tree \cup Parents(p)) \ {p}
          /\ \A q \in DOMAIN restored : restored[q] = t[q]
      BY <1>4, <3>1
    <3> QED  BY <1>4, <1>5, <2>2, <3>2 DEF GrownFrom, Exists
  <2> QED  BY <2>1, <2>2
<1>10. SoundTree(t)
  <2>1. DOMAIN t \subseteq RepoPaths
    BY <1>2, <1>4, <1>5, <1>6
  <2>2. ASSUME NEW q \in DOMAIN t, NEW r \in Parents(q)  PROVE IsDir(t, r)
    <3>1. CASE q \in DOMAIN tree /\ q # p
      BY <1>1, <1>4, <1>6, <3>1 DEF IsDir, Exists
    <3>2. CASE q = p
      BY <1>4, <1>5, <3>2 DEF IsDir, Exists
    <3>3. CASE q \in Parents(p)
      BY <1>5, <3>3
    <3> QED  BY <1>4, <3>1, <3>2, <3>3
  <2>3. \A q \in DOMAIN t : t[q] = "dir" => Parents(q) = {}
    BY <1>2, <1>3, <1>4, <1>5 DEF SoundTree
  <2>4. SecretsIn(t)
    <3> SUFFICES ASSUME NEW e \in FilesOf(t), NEW x \in FilesOf(t),
                        IsValidEncryptedFilePath(e), ~Last(x).enc
                 PROVE  ~SameOrChild(x, RuntimeFilePath(e))
      BY DEF SecretsIn
    <3>1. CASE e = p
      <4>1. x # p
        BY <3>1 DEF IsValidEncryptedFilePath
      <4> QED  BY <1>1, <1>2, <1>3, <1>7, <3>1, <4>1, NoConflict
    <3>2. CASE e # p /\ x = p
      BY <1>1, <1>2, <1>3, <1>7, <3>2, NoConflict
    <3>3. CASE e # p /\ x # p
      BY <1>3, <1>7, <3>3 DEF SoundTree, SecretsIn
    <3> QED  BY <3>1, <3>2, <3>3
  <2> QED  BY <2>1, <2>2, <2>3, <2>4 DEF SoundTree
<1> HIDE DEF t, restored
<1> QED  BY <1>1, <1>8, <1>9, <1>10, CommitOrRestoreKeeps

LEMMA RestoreDomain ==
  ASSUME NEW t, NEW c, NEW p, Below(c, p) = {} \/ p \in Below(c, p)
  PROVE  DOMAIN RestorePath(t, c, p) =
           {q \in DOMAIN t : ~SameOrChild(q, p)} \cup Below(c, p)
             \cup (IF Below(c, p) = {} THEN {} ELSE Parents(p))
<1> DEFINE cleared == RemoveAll(t, p)
           base == IF Below(c, p) = {} THEN cleared ELSE Put(cleared, p, c[p])
<1>1. DOMAIN RestorePath(t, c, p) = DOMAIN base \cup Below(c, p)
  BY DEF RestorePath
<1>2. DOMAIN cleared = {q \in DOMAIN t : ~SameOrChild(q, p)}
  BY RemoveFacts
<1> HIDE DEF cleared
<1>3. CASE Below(c, p) = {}
  BY <1>1, <1>2, <1>3
<1>4. CASE p \in Below(c, p)
  <2>1. base = Put(cleared, p, c[p])
    BY <1>4
  <2> HIDE DEF base
  <2>2. DOMAIN base = DOMAIN cleared \cup Parents(p) \cup {p}
    BY <2>1, PutFacts
  <2> QED  BY <1>1, <1>2, <1>4, <2>2
<1> QED  BY <1>3, <1>4

LEMMA RestoreNone ==
  ASSUME NEW t, NEW c, NEW p, Below(c, p) = {}
  PROVE  DOMAIN RestorePath(t, c, p) = {q \in DOMAIN t : ~SameOrChild(q, p)}
<1> DEFINE d == {q \in DOMAIN t : ~SameOrChild(q, p)}
           r == DOMAIN RestorePath(t, c, p)
<1>1. r = d \cup Below(c, p) \cup (IF Below(c, p) = {} THEN {} ELSE Parents(p))
  BY RestoreDomain
<1> HIDE DEF d, r
<1>2. r = d
  BY <1>1
<1> QED  BY <1>2 DEF d, r

LEMMA RestoreSome ==
  ASSUME NEW t, NEW c, NEW p, p \in Below(c, p)
  PROVE  DOMAIN RestorePath(t, c, p) =
           {q \in DOMAIN t : ~SameOrChild(q, p)} \cup Below(c, p) \cup Parents(p)
<1> DEFINE d == {q \in DOMAIN t : ~SameOrChild(q, p)}
           r == DOMAIN RestorePath(t, c, p)
<1>1. r = d \cup Below(c, p) \cup (IF Below(c, p) = {} THEN {} ELSE Parents(p))
  BY RestoreDomain
<1> HIDE DEF d, r
<1>2. r = d \cup Below(c, p) \cup Parents(p)
  BY <1>1
<1> QED  BY <1>2 DEF d, r

LEMMA RestoreBack ==
  ASSUME NEW t, NEW c, NEW p, NEW q \in Below(c, p)
  PROVE  RestorePath(t, c, p)[q] = c[q]
<1> DEFINE base == IF Below(c, p) = {} THEN RemoveAll(t, p) ELSE Put(RemoveAll(t, p), p, c[p])
<1>1. RestorePath(t, c, p) =
        [x \in DOMAIN base \cup Below(c, p) |-> IF x \in Below(c, p) THEN c[x] ELSE base[x]]
  BY DEF RestorePath
<1> HIDE DEF base
<1> QED  BY <1>1

LEMMA RestoreRest ==
  ASSUME NEW t, NEW c, NEW p, Below(c, p) = {} \/ p \in Below(c, p),
         NEW q \in DOMAIN t, ~SameOrChild(q, p), q \notin Below(c, p)
  PROVE  RestorePath(t, c, p)[q] = t[q]
<1> DEFINE cleared == RemoveAll(t, p)
           base == IF Below(c, p) = {} THEN cleared ELSE Put(cleared, p, c[p])
<1>1. RestorePath(t, c, p) =
        [x \in DOMAIN base \cup Below(c, p) |-> IF x \in Below(c, p) THEN c[x] ELSE base[x]]
  BY DEF RestorePath
<1>2. q \in DOMAIN cleared
  BY RemoveFacts
<1>3. cleared[q] = t[q]
  BY <1>2, RemoveFacts
<1> HIDE DEF cleared
<1>4. CASE Below(c, p) = {}
  <2>1. base = cleared
    BY <1>4
  <2> HIDE DEF base
  <2> QED  BY <1>1, <1>2, <1>3, <2>1
<1>5. CASE p \in Below(c, p)
  <2>1. base = Put(cleared, p, c[p]) /\ q # p
    BY <1>5
  <2> HIDE DEF base
  <2>2. base[q] = cleared[q]
    BY <1>2, <2>1, PutFacts
  <2>3. DOMAIN base = DOMAIN cleared \cup Parents(p) \cup {p}
    BY <2>1, PutFacts
  <2> QED  BY <1>1, <1>2, <1>3, <2>2, <2>3
<1> QED  BY <1>4, <1>5

LEMMA Placeholder ==
  ASSUME NEW p \in RepoPaths, Len(p) = 1
  PROVE  /\ p \o <<GitKeep>> \in RepoPaths
         /\ Parents(p \o <<GitKeep>>) = {p} /\ Parents(p) = {}
         /\ ~Last(p \o <<GitKeep>>).enc /\ p \o <<GitKeep>> # p
<1>1. PICK s \in TopSegments : p = <<s>>
  BY PathShape DEF IsTop
<1>2. p \o <<GitKeep>> = <<s, GitKeep>> /\ Last(<<s, GitKeep>>) = GitKeep
  BY <1>1, LastSegment
<1>3. GitKeep \in SubSegments /\ ~GitKeep.enc
  BY SegmentShape DEF SubSegments, GitKeep
<1>4. IsSub(<<s, GitKeep>>) /\ <<s, GitKeep>>[1] = s /\ IsTop(p)
  BY <1>1, <1>3 DEF IsSub, IsTop
<1>5. Parents(<<s, GitKeep>>) = {p} /\ <<s, GitKeep>> \in RepoPaths /\ Parents(p) = {}
  BY <1>1, <1>4, DirectoryOf, PathShape
<1> QED  BY <1>2, <1>3, <1>5

LEMMA CreateKeeps ==
  ASSUME FilesInv, NEW p \in NamedPaths, NEW gitOk \in BOOLEAN,
         CreateRepoDirectory(p, gitOk)
  PROVE  FilesInv'
<1> DEFINE g == p \o <<GitKeep>>
           d == Put(tree, p, "dir")
           t == Put(d, g, "empty")
           restored == RestorePath(t, tree, p)
<1>1. /\ ~Last(p).enc /\ Len(p) = 1 /\ ~RejectEncryptedFileConflict(tree, p) /\ ~Exists(tree, p)
      /\ CommitOrRestore(t, {p}, restored, gitOk)
  BY DEF CreateRepoDirectory
<1>2. p \in RepoPaths
  BY NamedInRepo
<1>3. /\ g \in RepoPaths /\ Parents(g) = {p} /\ Parents(p) = {}
      /\ ~Last(g).enc /\ g # p
  BY <1>1, <1>2, Placeholder
<1>4. SoundTree(tree)
  BY DEF FilesInv
<1>5. \A q \in DOMAIN tree : q \in RepoPaths /\ \A r \in Parents(q) : IsDir(tree, r)
  BY <1>4 DEF SoundTree
<1>6. p \notin DOMAIN tree /\ g \notin DOMAIN tree
  BY <1>1, <1>3, <1>5 DEF Exists, IsDir
<1>7. Below(tree, p) = {}
  BY <1>2, <1>5, <1>6, PathOrder DEF Below, IsDir, Exists
<1> HIDE DEF g
<1>8. DOMAIN d = DOMAIN tree \cup Parents(p) \cup {p}
  BY PutFacts
<1>9. d[p] = "dir"
  BY PutFacts
<1>10. \A q \in DOMAIN tree : q # p => d[q] = tree[q]
  BY PutFacts
<1> HIDE DEF d
<1>11. DOMAIN t = DOMAIN d \cup Parents(g) \cup {g}
  BY PutFacts
<1>12. t[g] = "empty"
  BY PutFacts
<1>13. \A q \in DOMAIN d : q # g => t[q] = d[q]
  BY PutFacts
<1> HIDE DEF t
<1>14. /\ DOMAIN t = DOMAIN tree \cup {p, g} /\ t[p] = "dir" /\ t[g] = "empty"
       /\ \A q \in DOMAIN tree : t[q] = tree[q]
  BY <1>3, <1>6, <1>8, <1>9, <1>10, <1>11, <1>12, <1>13
<1>15. FilesOf(t) = FilesOf(tree) \cup {g}
  BY <1>6, <1>14 DEF FilesOf
<1>16. SameOrChild(p, p) /\ SameOrChild(g, p)
  BY <1>2, <1>3, PathOrder
<1>17. SameOutside(t, {p})
  BY <1>14, <1>15, <1>16 DEF SameOutside, FilesOf
<1>18. GrownFrom(restored, tree)
  <2>1. DOMAIN restored = {q \in DOMAIN t : ~SameOrChild(q, p)}
    BY <1>7, RestoreNone
  <2>2. \A q \in DOMAIN restored : restored[q] = t[q]
    BY <1>7, <2>1, RestoreRest
  <2> HIDE DEF restored
  <2>3. \A q \in DOMAIN tree : ~SameOrChild(q, p)
    BY <1>7 DEF Below
  <2>4. DOMAIN restored = DOMAIN tree
    BY <1>14, <1>16, <2>1, <2>3
  <2> QED  BY <1>14, <2>2, <2>4 DEF GrownFrom
<1>19. SoundTree(t)
  <2>1. DOMAIN t \subseteq RepoPaths
    BY <1>2, <1>3, <1>5, <1>14
  <2>2. \A q \in DOMAIN t : \A r \in Parents(q) : IsDir(t, r)
    BY <1>3, <1>5, <1>14 DEF IsDir, Exists
  <2>3. \A q \in DOMAIN t : t[q] = "dir" => Parents(q) = {}
    BY <1>3, <1>4, <1>14 DEF SoundTree
  <2>4. SecretsIn(t)
    <3> SUFFICES ASSUME NEW e \in FilesOf(t), NEW x \in FilesOf(t),
                        IsValidEncryptedFilePath(e), ~Last(x).enc,
                        SameOrChild(x, RuntimeFilePath(e))
                 PROVE  FALSE
      BY DEF SecretsIn
    <3>1. e \in FilesOf(tree)
      BY <1>3, <1>15 DEF IsValidEncryptedFilePath
    <3>2. e \in DOMAIN tree /\ e \in RepoPaths
      BY <1>5, <3>1 DEF FilesOf
    <3>3. CASE x \in FilesOf(tree)
      BY <1>4, <3>1, <3>3 DEF SoundTree, SecretsIn
    <3>4. CASE x = g
      <4>1. RuntimeFilePath(e) \in RepoPaths /\ Parents(RuntimeFilePath(e)) = Parents(e)
        BY <3>2, Siblings
      <4>2. CASE RuntimeFilePath(e) = g
        <5>1. IsDir(tree, p)
          BY <1>3, <1>5, <3>2, <4>1, <4>2
        <5> QED  BY <1>6, <5>1 DEF IsDir, Exists
      <4>3. CASE RuntimeFilePath(e) # g
        <5>1. RuntimeFilePath(e) \in Parents(g)
          BY <1>3, <3>4, <4>1, <4>3, PathOrder
        <5>2. RuntimeFilePath(e) = p
          BY <1>3, <5>1
        <5>3. SameOrChild(p, RuntimeFilePath(e))
          BY <1>16, <5>2
        <5> QED  BY <1>1, <1>2, <1>4, <3>1, <5>3, NoConflict
      <4> QED  BY <4>2, <4>3
    <3> QED  BY <1>15, <3>3, <3>4
  <2> QED  BY <2>1, <2>2, <2>3, <2>4 DEF SoundTree
<1> HIDE DEF restored
<1> QED  BY <1>1, <1>17, <1>18, <1>19, CommitOrRestoreKeeps DEF t, d, g

LEMMA DeleteKeeps ==
  ASSUME FilesInv, NEW p \in NamedPaths, NEW gitOk \in BOOLEAN,
         DeleteRepoPath(p, gitOk)
  PROVE  FilesInv'
<1> DEFINE t == RemoveAll(tree, p)
           restored == RestorePath(t, tree, p)
<1>1. Exists(tree, p) /\ CommitOrRestore(t, {p}, restored, gitOk)
  BY DEF DeleteRepoPath
<1>2. SoundTree(tree) /\ p \in RepoPaths
  BY NamedInRepo DEF FilesInv
<1>3. DOMAIN t = {q \in DOMAIN tree : ~SameOrChild(q, p)}
  BY RemoveFacts
<1>4. \A q \in DOMAIN t : t[q] = tree[q]
  BY RemoveFacts
<1>5. \A q \in DOMAIN tree : q \in RepoPaths /\ \A r \in Parents(q) : IsDir(tree, r)
  BY <1>2 DEF SoundTree
<1>6. p \in Below(tree, p)
  BY <1>1, <1>2, PathOrder DEF Below, Exists
<1>7. SameOutside(t, {p})
  BY <1>3, <1>4 DEF SameOutside, FilesOf
<1>8. GrownFrom(restored, tree)
  <2>1. DOMAIN restored = {q \in DOMAIN t : ~SameOrChild(q, p)} \cup Below(tree, p) \cup Parents(p)
    BY <1>6, RestoreSome
  <2>2. \A q \in Below(tree, p) : restored[q] = tree[q]
    BY <1>6, RestoreBack
  <2>3. \A q \in DOMAIN t : ~SameOrChild(q, p) /\ q \notin Below(tree, p) => restored[q] = t[q]
    BY <1>6, RestoreRest
  <2> HIDE DEF restored, t
  <2>4. Parents(p) \subseteq DOMAIN tree
    BY <1>1, <1>5 DEF Exists, IsDir
  <2>5. DOMAIN restored = DOMAIN tree
    BY <1>3, <2>1, <2>4 DEF Below
  <2>6. \A q \in DOMAIN tree : restored[q] = tree[q]
    BY <1>3, <1>4, <2>2, <2>3 DEF Below
  <2> QED  BY <2>5, <2>6 DEF GrownFrom
<1>9. SoundTree(t)
  <2> HIDE DEF t
  <2>1. DOMAIN t \subseteq RepoPaths
    BY <1>3, <1>5
  <2>2. ASSUME NEW q \in DOMAIN t, NEW r \in Parents(q)  PROVE IsDir(t, r)
    <3>1. r \in DOMAIN tree /\ tree[r] = "dir"
      BY <1>3, <1>5 DEF IsDir, Exists
    <3>2. SameOrChild(q, r) /\ r \in RepoPaths /\ q \in RepoPaths /\ ~SameOrChild(q, p)
      BY <1>3, <1>5, PathOrder
    <3>3. ~SameOrChild(r, p)
      BY <1>2, <3>2, PathOrder
    <3> QED  BY <1>3, <1>4, <3>1, <3>3 DEF IsDir, Exists
  <2>3. \A q \in DOMAIN t : t[q] = "dir" => Parents(q) = {}
    BY <1>2, <1>3, <1>4 DEF SoundTree
  <2>4. FilesOf(t) \subseteq FilesOf(tree)
    BY <1>3, <1>4 DEF FilesOf
  <2>5. SecretsIn(t)
    BY <1>2, <2>4 DEF SoundTree, SecretsIn
  <2> QED  BY <2>1, <2>2, <2>3, <2>5 DEF SoundTree
<1> HIDE DEF t, restored
<1> QED  BY <1>1, <1>7, <1>8, <1>9, CommitOrRestoreKeeps

LEMMA NothingToCommit ==
  ASSUME FilesInv, NEW t, NEW paths, FilesOf(t) = FilesOf(tree),
         \A q \in FilesOf(t) : t[q] = tree[q]
  PROVE  CommittedPaths(t, paths) = committed
<1> DEFINE new == CommittedPaths(t, paths)
           keep == {q \in DOMAIN committed : ~\E p \in paths : SameOrChild(q, p)}
           put == {q \in FilesOf(t) : \E p \in paths : SameOrChild(q, p)}
<1>1. new = [q \in keep \cup put |-> IF q \in put THEN t[q] ELSE committed[q]]
  BY DEF CommittedPaths
<1>2. /\ committed = [q \in FilesOf(tree) |-> tree[q]]
      /\ DOMAIN committed = FilesOf(tree)
      /\ \A q \in FilesOf(tree) : committed[q] = tree[q]
  BY TrackedMeans DEF FilesInv, CleanWorktree
<1>3. keep \cup put = FilesOf(tree)
  BY <1>2
<1>4. \A q \in FilesOf(tree) : (IF q \in put THEN t[q] ELSE committed[q]) = tree[q]
  BY <1>2
<1>5. new = [q \in FilesOf(tree) |-> tree[q]]
  <2> HIDE DEF new, keep, put
  <2> QED  BY <1>1, <1>3, <1>4
<1> QED  BY <1>2, <1>5

LEMMA MoveKeeps ==
  ASSUME FilesInv, NEW p \in NamedPaths, NEW dest \in NamedPaths, NEW gitOk \in BOOLEAN,
         MoveRepoPath(p, dest, gitOk)
  PROVE  FilesInv'
<1> DEFINE t == Moved(tree, p, dest)
           r == RestorePath(t, tree, dest)
           restored == RestorePath(r, tree, p)
           news == {Rebase(q, p, dest) : q \in Below(tree, p)}
           kept == {q \in DOMAIN tree : ~SameOrChild(q, p)}
<1>1. /\ p # dest /\ Exists(tree, p) /\ ~Exists(tree, dest) /\ ~SameOrChild(dest, p)
      /\ Reachable(tree, dest) /\ DOMAIN t \subseteq RepoPaths
      /\ ValidEncryptedFilePaths(FilesOf(t))
      /\ CommitOrRestore(t, {p, dest}, restored, gitOk)
  BY DEF MoveRepoPath, Capturable
<1>2. SoundTree(tree) /\ p \in RepoPaths /\ dest \in RepoPaths
  BY NamedInRepo DEF FilesInv
<1>3. \A q \in DOMAIN tree : q \in RepoPaths /\ \A x \in Parents(q) : IsDir(tree, x)
  BY <1>2 DEF SoundTree
<1>4. /\ DOMAIN t = kept \cup Parents(dest) \cup {dest} \cup news
      /\ \A n \in news : t[n] = tree[Rebase(n, dest, p)]
      /\ \A q \in kept : q # dest /\ q \notin news => t[q] = tree[q]
      /\ \A q \in Parents(dest) : q # dest /\ q \notin kept /\ q \notin news => t[q] = "dir"
  <2> DEFINE cleared == RemoveAll(tree, p)
             rest == Put(cleared, dest, tree[p])
  <2>1. t = [q \in DOMAIN rest \cup news |-> IF q \in news THEN tree[Rebase(q, dest, p)] ELSE rest[q]]
    BY DEF Moved
  <2>2. DOMAIN cleared = kept
    BY RemoveFacts
  <2>3. \A q \in DOMAIN cleared : cleared[q] = tree[q]
    BY RemoveFacts
  <2> HIDE DEF cleared
  <2>4. DOMAIN rest = DOMAIN cleared \cup Parents(dest) \cup {dest}
    BY PutFacts
  <2>5. \A q \in DOMAIN cleared : q # dest => rest[q] = cleared[q]
    BY PutFacts
  <2>6. \A q \in Parents(dest) : q # dest /\ q \notin DOMAIN cleared => rest[q] = "dir"
    BY PutFacts
  <2> HIDE DEF rest, news, t, kept
  <2>7. DOMAIN t = kept \cup Parents(dest) \cup {dest} \cup news
    BY <2>1, <2>2, <2>4
  <2>8. \A n \in news : t[n] = tree[Rebase(n, dest, p)]
    BY <2>1
  <2>9. \A q \in kept : q # dest /\ q \notin news => t[q] = tree[q]
    BY <2>1, <2>2, <2>3, <2>4, <2>5
  <2>10. \A q \in Parents(dest) : q # dest /\ q \notin kept /\ q \notin news => t[q] = "dir"
    BY <2>1, <2>2, <2>4, <2>6
  <2> QED  BY <2>7, <2>8, <2>9, <2>10
<1> HIDE DEF t
<1>5. p \in Below(tree, p) /\ p \in DOMAIN tree /\ dest \notin DOMAIN tree
  BY <1>1, <1>2, PathOrder DEF Below, Exists
<1>6. Below(tree, dest) = {}
  BY <1>2, <1>3, <1>5, PathOrder DEF Below, IsDir, Exists
<1>7. dest \in news /\ t[dest] = tree[p]
  <2>1. Rebase(p, p, dest) = dest /\ Rebase(dest, dest, p) = p
    BY <1>2, Rebased
  <2> QED  BY <1>4, <1>5, <2>1
<1>8. \A n \in news : n # dest =>
        \E q \in Below(tree, p) : /\ q # p /\ q \in DOMAIN tree /\ p \in Parents(q)
                                  /\ Parents(n) = {dest} /\ t[n] = tree[q]
  <2> SUFFICES ASSUME NEW n \in news, n # dest
               PROVE  \E q \in Below(tree, p) :
                        /\ q # p /\ q \in DOMAIN tree /\ p \in Parents(q)
                        /\ Parents(n) = {dest} /\ t[n] = tree[q]
    OBVIOUS
  <2>1. PICK q \in Below(tree, p) : n = Rebase(q, p, dest)
    OBVIOUS
  <2>2. q \in DOMAIN tree /\ q \in RepoPaths /\ SameOrChild(q, p)
    BY <1>3 DEF Below
  <2>3. n \in RepoPaths
    BY <1>1, <1>4
  <2>4. q # p
    BY <1>2, <2>1, Rebased
  <2>5. Parents(n) = {dest} /\ Rebase(n, dest, p) = q
    BY <1>2, <2>1, <2>2, <2>3, <2>4, Rebased
  <2>6. p \in Parents(q)
    BY <1>2, <2>2, <2>4, PathOrder
  <2>7. t[n] = tree[q]
    BY <1>4, <2>5
  <2> QED  BY <2>2, <2>4, <2>5, <2>6, <2>7
<1>9. \A n \in news : n \in RepoPaths /\ SameOrChild(n, dest) /\ n \notin DOMAIN tree
  <2> SUFFICES ASSUME NEW n \in news
               PROVE  n \in RepoPaths /\ SameOrChild(n, dest) /\ n \notin DOMAIN tree
    OBVIOUS
  <2>1. n \in RepoPaths
    BY <1>1, <1>4
  <2>2. n # dest => dest \in Parents(n)
    BY <1>8
  <2>3. SameOrChild(n, dest)
    BY <1>2, <2>1, <2>2, PathOrder
  <2> QED  BY <1>6, <2>1, <2>3 DEF Below
<1> HIDE DEF news
<1>10. /\ Parents(dest) \subseteq RepoPaths /\ dest \notin Parents(dest)
       /\ \A q \in Parents(dest) : /\ Parents(q) = {} /\ ~SameOrChild(q, p) /\ q \notin news
                                   /\ SameOrChild(dest, q)
                                   /\ (q \in DOMAIN tree => tree[q] = "dir")
  <2> SUFFICES ASSUME NEW q \in Parents(dest)
               PROVE  /\ Parents(q) = {} /\ ~SameOrChild(q, p) /\ q \notin news
                      /\ q # dest /\ q \in RepoPaths /\ SameOrChild(dest, q)
                      /\ (q \in DOMAIN tree => tree[q] = "dir")
    OBVIOUS
  <2>1. q \in RepoPaths /\ SameOrChild(dest, q) /\ q # dest /\ Parents(q) = {}
    BY <1>2, PathOrder
  <2>2. ~SameOrChild(q, p)
    BY <1>1, <1>2, <2>1, PathOrder
  <2>3. ~SameOrChild(q, dest)
    BY <1>2, <2>1, PathOrder
  <2>4. q \in DOMAIN tree => tree[q] = "dir"
    BY <1>1 DEF Reachable, IsDir, Exists
  <2> QED  BY <1>9, <2>1, <2>2, <2>3, <2>4
<1>11. /\ \A q \in kept : q # dest /\ q \notin news /\ t[q] = tree[q]
       /\ \A q \in Parents(dest) : t[q] = "dir"
  BY <1>4, <1>5, <1>9, <1>10
<1>12. DOMAIN t = kept \cup Parents(dest) \cup news
  BY <1>4, <1>7
<1>13. SameOutside(t, {p, dest})
  <2> SUFFICES ASSUME NEW q \in RepoPaths, ~SameOrChild(q, p), ~SameOrChild(q, dest)
               PROVE  /\ q \in FilesOf(t) <=> q \in FilesOf(tree)
                      /\ q \in FilesOf(tree) => t[q] = tree[q]
    BY DEF SameOutside
  <2>1. q \notin news
    BY <1>9
  <2>2. q \in DOMAIN tree <=> q \in kept
    OBVIOUS
  <2> QED  BY <1>10, <1>11, <1>12, <2>1, <2>2 DEF FilesOf
<1>14. GrownFrom(restored, tree)
  <2>1. DOMAIN r = {q \in DOMAIN t : ~SameOrChild(q, dest)}
    BY <1>6, RestoreNone
  <2>2. \A q \in DOMAIN r : r[q] = t[q]
    BY <1>6, <2>1, RestoreRest
  <2> HIDE DEF r
  <2>3. \A q \in kept : ~SameOrChild(q, dest)
    BY <1>6 DEF Below
  <2>4. \A q \in Parents(dest) : ~SameOrChild(q, dest)
    BY <1>2, <1>10, PathOrder
  <2>5. DOMAIN r = kept \cup Parents(dest)
    BY <1>9, <1>12, <2>1, <2>3, <2>4
  <2>6. DOMAIN restored = {q \in DOMAIN r : ~SameOrChild(q, p)} \cup Below(tree, p) \cup Parents(p)
    BY <1>5, RestoreSome
  <2>7. \A q \in Below(tree, p) : restored[q] = tree[q]
    BY RestoreBack
  <2>8. \A q \in DOMAIN r : ~SameOrChild(q, p) /\ q \notin Below(tree, p) => restored[q] = r[q]
    BY <1>5, RestoreRest
  <2> HIDE DEF restored
  <2>9. Parents(p) \subseteq DOMAIN tree
    BY <1>3, <1>5 DEF IsDir, Exists
  <2>10. {q \in DOMAIN r : ~SameOrChild(q, p)} = kept \cup Parents(dest)
    BY <1>10, <2>5
  <2>11. kept \cup Below(tree, p) = DOMAIN tree
    BY DEF Below
  <2>12. DOMAIN restored = DOMAIN tree \cup Parents(dest)
    BY <2>6, <2>9, <2>10, <2>11
  <2>13. \A q \in kept : restored[q] = tree[q]
    BY <1>11, <2>2, <2>5, <2>8 DEF Below
  <2>14. \A q \in Parents(dest) : restored[q] = "dir"
    BY <1>10, <1>11, <2>2, <2>5, <2>8 DEF Below
  <2> HIDE DEF kept
  <2> QED  BY <1>10, <2>7, <2>11, <2>12, <2>13, <2>14 DEF GrownFrom
<1>15. CommittedPaths(t, {p, dest}) # committed => SoundTree(t)
  <2> SUFFICES ASSUME CommittedPaths(t, {p, dest}) # committed  PROVE SoundTree(t)
    OBVIOUS
  <2>1. ASSUME NEW q \in DOMAIN t, NEW x \in Parents(q)  PROVE IsDir(t, x)
    <3>1. CASE q \in kept
      <4>1. IsDir(tree, x) /\ q \in RepoPaths /\ x \in RepoPaths /\ SameOrChild(q, x)
        BY <1>3, <3>1, PathOrder
      <4>2. ~SameOrChild(x, p)
        BY <1>2, <3>1, <4>1, PathOrder
      <4>3. x \in kept
        BY <4>1, <4>2 DEF IsDir, Exists
      <4> QED  BY <1>11, <1>12, <4>1, <4>3 DEF IsDir, Exists
    <3>2. CASE q \in Parents(dest)
      BY <1>10, <3>2
    <3>3. CASE q = dest
      BY <1>11, <1>12, <3>3 DEF IsDir, Exists
    <3>4. CASE q \in news /\ q # dest
      <4>1. PICK y \in Below(tree, p) : /\ y \in DOMAIN tree /\ p \in Parents(y)
                                        /\ Parents(q) = {dest}
        BY <1>8, <3>4
      <4>2. tree[p] = "dir"
        BY <1>3, <4>1 DEF IsDir
      <4> QED  BY <1>7, <1>12, <4>1, <4>2 DEF IsDir, Exists
    <3> QED  BY <1>12, <3>1, <3>2, <3>3, <3>4
  <2>2. ASSUME NEW q \in DOMAIN t, t[q] = "dir"  PROVE Parents(q) = {}
    <3>1. CASE q \in kept
      BY <1>2, <1>11, <2>2, <3>1 DEF SoundTree
    <3>2. CASE q \in Parents(dest)
      BY <1>10, <3>2
    <3>3. CASE q \in news /\ q # dest
      <4>1. PICK y \in Below(tree, p) : y \in DOMAIN tree /\ p \in Parents(y) /\ t[q] = tree[y]
        BY <1>8, <3>3
      <4> QED  BY <1>2, <2>2, <4>1 DEF SoundTree
    <3>4. CASE q = dest
      <4> SUFFICES ASSUME Parents(dest) # {}  PROVE FALSE
        BY <3>4
      <4>1. tree[p] = "dir"
        BY <1>7, <2>2, <3>4
      <4>2. news = {dest}
        <5>1. ASSUME NEW n \in news, n # dest  PROVE FALSE
          <6>1. dest \in Parents(n) /\ n \in RepoPaths
            BY <1>8, <1>9, <5>1
          <6> QED  BY <6>1, PathOrder
        <5> QED  BY <1>7, <5>1
      <4>3. Below(tree, p) = {p}
        <5>1. ASSUME NEW y \in Below(tree, p), y # p  PROVE FALSE
          <6>1. Rebase(y, p, dest) = dest
            BY <4>2 DEF news
          <6>2. y \in RepoPaths /\ SameOrChild(y, p)
            BY <1>3 DEF Below
          <6>3. Parents(dest) = {dest}
            BY <1>2, <5>1, <6>1, <6>2, Rebased
          <6> QED  BY <1>10, <6>3
        <5> QED  BY <1>5, <5>1
      <4>4. kept = DOMAIN tree \ {p}
        BY <1>5, <4>3 DEF Below
      <4>5. FilesOf(t) = FilesOf(tree)
        BY <1>7, <1>10, <1>11, <1>12, <4>1, <4>2, <4>4 DEF FilesOf
      <4>6. \A x \in FilesOf(t) : t[x] = tree[x]
        BY <1>11, <4>1, <4>4, <4>5 DEF FilesOf
      <4> QED  BY <4>5, <4>6, NothingToCommit
    <3> QED  BY <1>12, <3>1, <3>2, <3>3, <3>4
  <2>3. SecretsIn(t)
    BY <1>1 DEF SecretsIn, ValidEncryptedFilePaths, IsValidEncryptedFilePath, IsEncryptedFilePath
  <2> QED  BY <1>1, <2>1, <2>2, <2>3 DEF SoundTree
<1> HIDE DEF restored
<1> QED  BY <1>1, <1>13, <1>14, <1>15, CommitOrRestoreKeeps

LEMMA FastForwardKeeps ==
  ASSUME FilesInv, NEW p \in NamedPaths, NEW node \in Contents \cup {"link", "gone"},
         FastForward(p, node)
  PROVE  FilesInv'
<1> DEFINE without == {q \in DOMAIN committed : ~SameOrChild(q, p) /\ q \notin Parents(p)}
           new == IF node = "gone" THEN Restrict(committed, DOMAIN committed \ {p})
                  ELSE [q \in without \cup {p} |-> IF q = p THEN node ELSE committed[q]]
           needed == UNION {Parents(q) : q \in DOMAIN new}
           left == {q \in DOMAIN tree : IsDir(tree, q) /\ Below(tree, q) = {q}}
           dirs == (needed \cup left) \ (DOMAIN new \cup UNION {Below(tree, q) : q \in DOMAIN new})
<1>1. /\ ValidEncryptedFilePaths(DOMAIN new) /\ committed' = new
      /\ tree' = [q \in DOMAIN new \cup needed \cup dirs |->
                    IF q \in DOMAIN new THEN new[q] ELSE "dir"]
  BY DEF FastForward
<1>2. SoundTree(tree) /\ p \in RepoPaths
  BY NamedInRepo DEF FilesInv
<1>3. \A q \in DOMAIN tree : q \in RepoPaths /\ \A x \in Parents(q) : IsDir(tree, x)
  BY <1>2 DEF SoundTree
<1>4. /\ DOMAIN committed \subseteq RepoPaths
      /\ \A q \in DOMAIN committed : committed[q] # "dir" /\ q \in DOMAIN tree /\ tree[q] # "dir"
  <2>1. committed = TrackedOf(tree) /\ DOMAIN committed \subseteq RepoPaths
    BY DEF FilesInv, CleanWorktree
  <2>2. DOMAIN TrackedOf(tree) = FilesOf(tree) /\ \A q \in FilesOf(tree) : TrackedOf(tree)[q] = tree[q]
    BY TrackedMeans
  <2>3. \A q \in FilesOf(tree) : q \in DOMAIN tree /\ tree[q] # "dir"
    BY DEF FilesOf
  <2> QED  BY <2>1, <2>2, <2>3
\* No file of what is committed lies in another.
<1>5. \A q, x \in DOMAIN committed : x \notin Parents(q)
  BY <1>3, <1>4 DEF IsDir
<1>6. /\ DOMAIN new \subseteq RepoPaths
      /\ \A q \in DOMAIN new : new[q] # "dir"
      /\ \A q, x \in DOMAIN new : x \notin Parents(q)
      /\ new = [q \in DOMAIN new |-> new[q]]
  <2>1. CASE node = "gone"
    <3>1. new = [q \in DOMAIN committed \ {p} |-> committed[q]]
      BY <2>1 DEF Restrict
    <3> HIDE DEF new
    <3> QED  BY <1>4, <1>5, <3>1
  <2>2. CASE node # "gone"
    <3>1. new = [q \in without \cup {p} |-> IF q = p THEN node ELSE committed[q]]
      BY <2>2
    <3> HIDE DEF new
    <3>2. node # "dir"
      BY FilesAssumption
    <3>3. \A q \in DOMAIN new : new[q] # "dir"
      BY <1>4, <3>1, <3>2
    <3>4. \A q \in without : p \notin Parents(q) /\ q \notin Parents(p) /\ q \in DOMAIN committed
      BY <1>2, <1>4, PathOrder
    <3>5. p \notin Parents(p)
      BY <1>2, PathOrder
    <3>6. \A q, x \in DOMAIN new : x \notin Parents(q)
      BY <1>5, <3>1, <3>4, <3>5
    <3> QED  BY <1>2, <1>4, <3>1, <3>3, <3>6
  <2> QED  BY <2>1, <2>2
<1> HIDE DEF new
<1>7. \A x \in needed : /\ x \in RepoPaths /\ Parents(x) = {} /\ x \notin DOMAIN new
                        /\ \E q \in DOMAIN new : x \in Parents(q)
  BY <1>6, PathOrder
<1>8. \A q \in DOMAIN new : Parents(q) \subseteq needed
  OBVIOUS
<1>9. \A x \in left : x \in RepoPaths /\ Parents(x) = {}
  BY <1>2, <1>3 DEF IsDir, SoundTree
<1> HIDE DEF needed, left
<1>10. /\ DOMAIN tree' = DOMAIN new \cup needed \cup dirs
       /\ \A q \in DOMAIN new : tree'[q] = new[q]
       /\ \A q \in DOMAIN tree' : q \notin DOMAIN new => tree'[q] = "dir"
  <2> HIDE DEF dirs
  <2> QED  BY <1>1
<1>11. \A x \in dirs : x \notin DOMAIN new /\ x \in RepoPaths /\ Parents(x) = {}
  BY <1>7, <1>9
<1> HIDE DEF dirs
<1>12. FilesOf(tree') = DOMAIN new
  BY <1>6, <1>10 DEF FilesOf
<1>13. TrackedOf(tree') = new
  <2>1. TrackedOf(tree') = [q \in FilesOf(tree') |-> tree'[q]]
    BY DEF TrackedOf, Restrict
  <2>2. [q \in FilesOf(tree') |-> tree'[q]] = [q \in DOMAIN new |-> new[q]]
    BY <1>10, <1>12
  <2> QED  BY <1>6, <2>1, <2>2
<1>14. SoundTree(tree')
  <2>1. DOMAIN tree' \subseteq RepoPaths
    BY <1>6, <1>7, <1>10, <1>11
  <2>2. \A q \in DOMAIN tree' : \A x \in Parents(q) : IsDir(tree', x)
    BY <1>7, <1>8, <1>10, <1>11 DEF IsDir, Exists
  <2>3. \A q \in DOMAIN tree' : tree'[q] = "dir" => Parents(q) = {}
    BY <1>6, <1>7, <1>10, <1>11
  <2>4. SecretsIn(tree')
    BY <1>1, <1>12 DEF SecretsIn, ValidEncryptedFilePaths, IsValidEncryptedFilePath, IsEncryptedFilePath
  <2> QED  BY <2>1, <2>2, <2>3, <2>4 DEF SoundTree
<1>15. FilesInv' <=> SoundTree(tree') /\ DOMAIN committed' \subseteq RepoPaths /\ TrackedOf(tree') = committed'
  BY DEF FilesInv, CleanWorktree, SoundTree, SecretsIn, IsDir, Exists, FilesOf, TrackedOf
<1> QED  BY <1>1, <1>6, <1>13, <1>14, <1>15

LEMMA FilesStep == FilesInv /\ [FilesNext]_fileVars => FilesInv'
<1> SUFFICES ASSUME FilesInv, [FilesNext]_fileVars  PROVE FilesInv'
  OBVIOUS
<1>1. CASE UNCHANGED fileVars
  BY <1>1 DEF fileVars, FilesInv, CleanWorktree, SoundTree, SecretsIn, IsDir, Exists, FilesOf, TrackedOf
<1>2. ASSUME NEW p \in NamedPaths, NEW gitOk \in BOOLEAN, NEW v \in Contents, UpdateRepoFile(p, v, gitOk)
      PROVE  FilesInv'
  BY <1>2, UpdateKeeps
<1>3. ASSUME NEW p \in NamedPaths, NEW gitOk \in BOOLEAN, CreateRepoDirectory(p, gitOk)
      PROVE  FilesInv'
  BY <1>3, CreateKeeps
<1>4. ASSUME NEW p \in NamedPaths, NEW gitOk \in BOOLEAN, DeleteRepoPath(p, gitOk)
      PROVE  FilesInv'
  BY <1>4, DeleteKeeps
<1>5. ASSUME NEW p \in NamedPaths, NEW dest \in NamedPaths, NEW gitOk \in BOOLEAN,
             MoveRepoPath(p, dest, gitOk)
      PROVE  FilesInv'
  BY <1>5, MoveKeeps
<1>6. ASSUME NEW p \in NamedPaths, NEW node \in Contents \cup {"link", "gone"}, FastForward(p, node)
      PROVE  FilesInv'
  BY <1>6, FastForwardKeeps
<1> QED  BY <1>1, <1>2, <1>3, <1>4, <1>5, <1>6 DEF FilesNext

LEMMA FilesStart == FilesInit => FilesInv
<1> SUFFICES ASSUME FilesInit  PROVE FilesInv
  OBVIOUS
<1>1. DOMAIN tree = {} /\ DOMAIN committed = {} /\ committed = [q \in {} |-> tree[q]]
  BY DEF FilesInit
<1>2. FilesOf(tree) = {}
  BY <1>1 DEF FilesOf
<1>3. TrackedOf(tree) = committed
  BY <1>1, <1>2 DEF TrackedOf, Restrict
<1> QED  BY <1>1, <1>2, <1>3 DEF FilesInv, CleanWorktree, SoundTree, SecretsIn

\* RepoTreeIsSound: after any writes, moves, deletions and pulls, failed ones
\* included, the worktree is a tree that holds what is committed, and no
\* plaintext stands where the agents put that of an encrypted file.
THEOREM RepoTreeSound == FilesSpec => []RepoTreeIsSound
<1>1. FilesInv => RepoTreeIsSound
  BY DEF FilesInv, SoundTree, SecretsIn, RepoTreeIsSound, FilesTypeOK, WorktreeRestored, TreeIsATree,
         SecretsHaveTheirPlace
<1> QED  BY <1>1, FilesStart, FilesStep, PTL DEF FilesSpec

-----------------------------------------------------------------------------
(* What is published *)

Writes(c, k) == c.op \in {"set", "delete"} /\ <<c.zone, c.name, c.type>> = k
RecordKey(d) == <<matchingZone(TunnelZones, Route(d).name), Route(d).name, "CNAME">>

\* While a dns_update for d makes its calls: each record of its names is as
\* it asks for, or a call that makes it so is left.
RecordsUnderway(d, calls, records) ==
  \A k \in RecordKeys : <<k[1], k[2]>> \in NamesAsked(d.dns) =>
    LET asked == AskedRecords(d.dns, d.targets, k[1], k[2], k[3])
    IN  /\ records[k] = asked \/ \E c \in calls : Writes(c, k)
        /\ \A c \in calls : Writes(c, k) => c.values = asked

\* While a tunnel sync that found the services of routable running makes its
\* calls: the same of the rules and of the records, where a record may be that
\* of any service that runs with the name, and the deletion of the record of
\* the excluded service comes after all other writes.
RulesUnderway(ds, routable, calls, rules) ==
  \A t \in TunnelNames :
    LET wanted == cloudflareTunnelIngressRules(routable, ds, t)
    IN  /\ rules[t] = wanted \/ \E c \in calls : c.op = "ingress" /\ c.type = t
        /\ \A c \in calls : c.op = "ingress" /\ c.type = t => c.values = wanted
SameName(d, e) == Route(d).name = Route(e).name
RoutedAs(ds, routable, s, values) ==
  \E t \in TunnelNames : /\ values = {<<"tunnel", t>>}
                         /\ \E u \in OnTunnel(routable, ds, t) : SameName(ds[u], ds[s])
RecordUnderway(ds, routable, gone, calls, records, s) ==
  \/ RecordKey(ds[s]) \in RecordKeys /\ RoutedAs(ds, routable, s, records[RecordKey(ds[s])])
  \/ \E c \in calls : c.op = "set" /\ Writes(c, RecordKey(ds[s]))
  \/ \E e \in gone : SameName(ds[e], ds[s])
RecordGone(ds, records, e) == RecordKey(ds[e]) \in RecordKeys /\ records[RecordKey(ds[e])] = {}
DeleteLeft(ds, calls, e) == \E c \in calls : c.op = "delete" /\ Writes(c, RecordKey(ds[e]))
SetCall(ds, routable, gone, calls, c) ==
  /\ c.turn[1] = 0
  /\ \E s \in routable : Writes(c, RecordKey(ds[s])) /\ RoutedAs(ds, routable, s, c.values)
  /\ \A e \in gone : DeleteLeft(ds, calls, e)
DeleteCall(ds, gone, c) == c.turn[1] = 1 /\ c.values = {} /\ \E e \in gone : Writes(c, RecordKey(ds[e]))
NamesUnderway(ds, routable, gone, calls, records) ==
  /\ \A s \in routable : RecordUnderway(ds, routable, gone, calls, records, s)
  /\ \A e \in gone : RecordGone(ds, records, e) \/ DeleteLeft(ds, calls, e)
  /\ \A c \in calls : c.op = "set" => SetCall(ds, routable, gone, calls, c)
  /\ \A c \in calls : c.op = "delete" => DeleteCall(ds, gone, c)

-----------------------------------------------------------------------------
(* Zones and record keys *)

LEMMA ManagedTypes ==
  /\ DOMAIN managedDNSRecordTypes = {1, 2, 3}
  /\ managedDNSRecordTypes[1] = "A" /\ managedDNSRecordTypes[2] = "AAAA" /\ managedDNSRecordTypes[3] = "CNAME"
  /\ ToSet(managedDNSRecordTypes) = {"A", "AAAA", "CNAME"}
BY DEF managedDNSRecordTypes, ToSet

LEMMA LeastRest ==
  ASSUME NEW S, S \subseteq Nat, S # {}
  PROVE  \E i \in S : \A j \in S : i <= j
<1> DEFINE smaller == {ss \in Nat \X Nat : ss[1] < ss[2]}
<1>1. IsWellFoundedOn(smaller, Nat)
  BY NatLessThanWellFounded DEF OpToRel
<1>2. PICK i \in S : \A j \in S : <<j, i>> \notin smaller
  BY <1>1, WFMin
<1>3. \A j \in S : i \in Nat /\ j \in Nat /\ (i <= j \/ <<j, i>> \in smaller)
  OBVIOUS
<1> QED  BY <1>2, <1>3

LEMMA LongestExists ==
  ASSUME NEW name \in DnsNames, NEW zs \in SUBSET TunnelZones, zs # {},
         \A z \in zs : dnsNameMatchesZone(name, z)
  PROVE  Longest(zs) \in zs
<1> DEFINE rest(z) == Len(name) - Len(z)
           rests == {rest(z) : z \in zs}
<1>1. \A z \in zs : Len(z) \in Nat /\ rest(z) \in Nat
  BY DnsAssumption DEF dnsNameMatchesZone, IsPrefix
<1>2. rests \in SUBSET Nat /\ rests # {}
  BY <1>1
<1>3. PICK r \in rests : \A q \in rests : r <= q
  BY <1>2, LeastRest
<1>4. PICK z \in zs : r = rest(z)
  OBVIOUS
<1>5. \A y \in zs : Len(y) <= Len(z)
  <2> TAKE y \in zs
  <2>1. rest(z) <= rest(y)
    BY <1>3, <1>4
  <2>2. Len(name) \in Nat /\ Len(z) \in Nat /\ Len(y) \in Nat
    BY <1>1, DnsAssumption
  <2> QED  BY <2>1, <2>2
<1> QED  BY <1>5 DEF Longest

LEMMA RecordKeyExists ==
  ASSUME NEW d \in NetworkMetas, CloudflareTunnelManaged(d), matchingZone(TunnelZones, Route(d).name) # <<>>
  PROVE  RecordKey(d) \in RecordKeys
<1> DEFINE name == Route(d).name
           fits == {z \in TunnelZones : dnsNameMatchesZone(name, z)}
<1>1. name \in DnsNames
  BY DnsAssumption DEF CloudflareTunnelManaged, Route
<1>2. fits # {} /\ matchingZone(TunnelZones, name) = Longest(fits)
  BY DEF matchingZone
<1>3. Longest(fits) \in fits
  <2>1. fits \in SUBSET TunnelZones /\ \A z \in fits : dnsNameMatchesZone(name, z)
    OBVIOUS
  <2> HIDE DEF fits
  <2> QED  BY <1>1, <1>2, <2>1, LongestExists
<1>4. matchingZone(TunnelZones, name) \in TunnelZones /\ dnsNameMatchesZone(name, matchingZone(TunnelZones, name))
  BY <1>2, <1>3
<1> HIDE DEF name, fits
<1>5. \A z \in TunnelZones : dnsNameMatchesZone(name, z) => <<z, name, "CNAME">> \in RecordKeys
  BY <1>1, ManagedTypes DEF RecordKeys, AllZones
<1> QED  BY <1>4, <1>5 DEF RecordKey, name
-----------------------------------------------------------------------------
(* The calls of a dns_update *)

LEMMA NameCalls ==
  ASSUME NEW entries, NEW targets, NEW zone, NEW name, NEW place
  PROVE  /\ \A c \in CallsForName(entries, targets, zone, name, place) :
              c.op \in {"set", "delete"} =>
                /\ c.zone = zone /\ c.name = name
                /\ c.values = AskedRecords(entries, targets, zone, name, c.type)
         /\ \A type \in ToSet(managedDNSRecordTypes) :
              \E c \in CallsForName(entries, targets, zone, name, place) : Writes(c, <<zone, name, type>>)
<1> DEFINE types == managedDNSRecordTypes
           asked(i) == AskedRecords(entries, targets, zone, name, types[i])
           last(i) == OptionsOf(entries, targets, zone, name, types[i])
           call(i, step, op, values, options) == Call(<<0, place, step>>, op, zone, name, types[i], values, options)
           delete(i) == call(i, i, "delete", {}, FALSE)
           set(i) == call(i, 3 * i + 1, "set", asked(i), FALSE)
           option(i) == call(i, 3 * i + 2, "options", {}, last(i))
           stale == {i \in DOMAIN types : asked(i) = {}}
           writable == DOMAIN types \ stale
           deletes == {delete(i) : i \in stale}
           sets == {set(i) : i \in writable}
           options == {option(i) : i \in writable}
           calls == CallsForName(entries, targets, zone, name, place)
<1>1. calls = deletes \cup sets \cup options
  BY DEF CallsForName
<1>2. ASSUME NEW i
      PROVE  /\ delete(i).op = "delete" /\ delete(i).zone = zone /\ delete(i).name = name
             /\ delete(i).type = types[i] /\ delete(i).values = {}
             /\ set(i).op = "set" /\ set(i).zone = zone /\ set(i).name = name
             /\ set(i).type = types[i] /\ set(i).values = asked(i)
             /\ option(i).op = "options"
  <2> HIDE DEF asked, last, types
  <2> QED  BY DEF Call
<1> HIDE DEF delete, set, option, calls, types
<1>3. \A i \in stale : asked(i) = {}
  OBVIOUS
<1> HIDE DEF asked, stale, last
<1>4. ASSUME NEW c \in deletes
      PROVE  c.zone = zone /\ c.name = name /\ \E i \in stale : c.type = types[i] /\ c.op = "delete" /\ c.values = asked(i)
  <2>1. PICK i \in stale : c = delete(i)
    OBVIOUS
  <2> QED  BY <2>1, <1>2, <1>3
<1>5. ASSUME NEW c \in sets
      PROVE  c.zone = zone /\ c.name = name /\ \E i \in writable : c.type = types[i] /\ c.op = "set" /\ c.values = asked(i)
  <2>1. PICK i \in writable : c = set(i)
    OBVIOUS
  <2> QED  BY <2>1, <1>2
<1>6. ASSUME NEW c \in options
      PROVE  c.op = "options"
  <2>1. PICK i \in writable : c = option(i)
    OBVIOUS
  <2> QED  BY <2>1, <1>2
<1>7. ASSUME NEW c \in calls, c.op \in {"set", "delete"}
      PROVE  c.zone = zone /\ c.name = name /\ c.values = AskedRecords(entries, targets, zone, name, c.type)
  <2>1. c \in deletes \/ c \in sets
    BY <1>1, <1>6, <1>7
  <2>2. c.zone = zone /\ c.name = name /\ \E i : c.type = types[i] /\ c.values = asked(i)
    BY <2>1, <1>4, <1>5
  <2> QED  BY <2>2 DEF asked
<1>8. ASSUME NEW type \in ToSet(managedDNSRecordTypes)
      PROVE  \E c \in calls : Writes(c, <<zone, name, type>>)
  <2>1. PICK i \in DOMAIN types : type = types[i]
    BY DEF ToSet, types
  <2>2. CASE i \in stale
    <3>1. delete(i) \in calls
      BY <1>1, <2>2
    <3>2. Writes(delete(i), <<zone, name, type>>)
      BY <1>2, <2>1 DEF Writes
    <3> QED  BY <3>1, <3>2
  <2>3. CASE i \notin stale
    <3>1. set(i) \in calls
      BY <1>1, <2>1, <2>3
    <3>2. Writes(set(i), <<zone, name, type>>)
      BY <1>2, <2>1 DEF Writes
    <3> QED  BY <3>1, <3>2
  <2> QED  BY <2>2, <2>3
<1> QED  BY <1>7, <1>8 DEF calls

\* The calls planned for a service's declaration d would write what it asks
\* for, whatever the records are before.
LEMMA BatchIsUnderway ==
  ASSUME NEW d, NEW records
  PROVE  RecordsUnderway(d, syncServiceDNSBatch(d.dns, d.targets), records)
<1> DEFINE names == NamesAsked(d.dns)
           calls(n) == CallsForName(d.dns, d.targets, n[1], n[2], Sorted(names)[n])
           all == syncServiceDNSBatch(d.dns, d.targets)
<1>1. all = UNION {calls(n) : n \in names}
  BY DEF syncServiceDNSBatch
<1> SUFFICES ASSUME NEW k \in RecordKeys, <<k[1], k[2]>> \in names
             PROVE  /\ \E c \in all : Writes(c, k)
                    /\ \A c \in all : Writes(c, k) => c.values = AskedRecords(d.dns, d.targets, k[1], k[2], k[3])
  BY DEF RecordsUnderway
<1>2. k = <<k[1], k[2], k[3]>> /\ k[3] \in ToSet(managedDNSRecordTypes)
  BY DEF RecordKeys
<1>3. \E c \in all : Writes(c, k)
  <2> DEFINE n == <<k[1], k[2]>>
  <2>1. n \in names /\ n[1] = k[1] /\ n[2] = k[2]
    OBVIOUS
  <2>2. \E c \in calls(n) : Writes(c, <<k[1], k[2], k[3]>>)
    BY <1>2, NameCalls
  <2> HIDE DEF calls, n, all
  <2> QED  BY <1>1, <1>2, <2>1, <2>2
<1>4. ASSUME NEW c \in all, Writes(c, k)
      PROVE  c.values = AskedRecords(d.dns, d.targets, k[1], k[2], k[3])
  <2>1. PICK n \in names : c \in calls(n)
    BY <1>1
  <2>2. c.op \in {"set", "delete"} /\ c.zone = k[1] /\ c.name = k[2] /\ c.type = k[3]
    BY <1>2, <1>4 DEF Writes
  <2>3. c.zone = n[1] /\ c.name = n[2] /\ c.values = AskedRecords(d.dns, d.targets, n[1], n[2], c.type)
    BY <2>1, <2>2, NameCalls
  <2> QED  BY <2>2, <2>3
<1> QED  BY <1>3, <1>4

-----------------------------------------------------------------------------
(* The calls of a tunnel sync *)

LEMMA ResolvedTunnel ==
  ASSUME NEW d, resolveCloudflareTunnelName(d) # Unresolved
  PROVE  resolveCloudflareTunnelName(d) \in TunnelNames
<1> DEFINE declared == Route(d).tunnel
           bound == {t \in TunnelNames : \A n \in ToSet(d.targets) : n \in DOMAIN NodeTunnel /\ NodeTunnel[n] = t}
<1>1. CASE declared # Unresolved
  BY <1>1 DEF resolveCloudflareTunnelName
<1>2. CASE declared = Unresolved /\ d.targets # <<>> /\ bound # {}
  <2>1. resolveCloudflareTunnelName(d) = CHOOSE t \in bound : TRUE
    BY <1>2 DEF resolveCloudflareTunnelName
  <2> QED  BY <1>2, <2>1
<1>3. CASE declared = Unresolved /\ ~(d.targets # <<>> /\ bound # {})
  BY <1>3 DEF resolveCloudflareTunnelName
<1> QED  BY <1>1, <1>2, <1>3

LEMMA TunnelRecordFields ==
  ASSUME NEW turn, NEW op, NEW d, NEW values
  PROVE  LET c == TunnelRecord(turn, op, d, values)
         IN  /\ c.turn = turn /\ c.op = op /\ c.values = values
             /\ <<c.zone, c.name, c.type>> = RecordKey(d)
BY DEF TunnelRecord, Call, RecordKey

SetOf(ds, tunnel, s, c) ==
  c.turn[1] = 0 /\ c.op = "set" /\ Writes(c, RecordKey(ds[s])) /\ c.values = {<<"tunnel", tunnel>>}
DeleteOf(ds, s, c) == c.turn[1] = 1 /\ c.op = "delete" /\ Writes(c, RecordKey(ds[s])) /\ c.values = {}
IngressOf(ds, routable, tunnel, c) ==
  c.op = "ingress" /\ c.type = tunnel /\ c.values = cloudflareTunnelIngressRules(routable, ds, tunnel)

LEMMA TunnelCalls ==
  ASSUME NEW routable, NEW ds, NEW tunnel
  PROVE  /\ \A c \in CallsForTunnel(routable, ds, tunnel) :
              \/ IngressOf(ds, routable, tunnel, c)
              \/ \E s \in OnTunnel(routable, ds, tunnel) : SetOf(ds, tunnel, s, c)
              \/ c.op = "options"
         /\ \E c \in CallsForTunnel(routable, ds, tunnel) : IngressOf(ds, routable, tunnel, c)
         /\ \A s \in OnTunnel(routable, ds, tunnel) :
              \E c \in CallsForTunnel(routable, ds, tunnel) : SetOf(ds, tunnel, s, c)
<1> DEFINE place == Sorted(TunnelNames)[tunnel]
           step(s) == 2 * Sorted(DnsServices)[s]
           mine == OnTunnel(routable, ds, tunnel)
           rules == Call(<<0, place, 0>>, "ingress", <<>>, <<>>, tunnel,
                         cloudflareTunnelIngressRules(routable, ds, tunnel), FALSE)
           set(s) == TunnelRecord(<<0, place, step(s)>>, "set", ds[s], {<<"tunnel", tunnel>>})
           option(s) == TunnelRecord(<<0, place, step(s) + 1>>, "options", ds[s], {})
           calls == CallsForTunnel(routable, ds, tunnel)
<1>1. calls = {rules} \cup {set(s) : s \in mine} \cup {option(s) : s \in mine}
  BY DEF CallsForTunnel
<1>2. IngressOf(ds, routable, tunnel, rules)
  BY DEF IngressOf, Call
<1>3. ASSUME NEW s
      PROVE  SetOf(ds, tunnel, s, set(s)) /\ option(s).op = "options"
  <2>1. set(s).turn = <<0, place, step(s)>> /\ set(s).op = "set" /\ set(s).values = {<<"tunnel", tunnel>>}
        /\ <<set(s).zone, set(s).name, set(s).type>> = RecordKey(ds[s])
    BY TunnelRecordFields
  <2>2. option(s).op = "options"
    BY TunnelRecordFields
  <2> HIDE DEF set, option, place, step
  <2> QED  BY <2>1, <2>2 DEF SetOf, Writes
<1> HIDE DEF rules, set, option, calls, mine
<1>4. ASSUME NEW c \in calls
      PROVE  \/ IngressOf(ds, routable, tunnel, c)
             \/ \E s \in mine : SetOf(ds, tunnel, s, c)
             \/ c.op = "options"
  <2>1. c = rules \/ (\E s \in mine : c = set(s)) \/ (\E s \in mine : c = option(s))
    BY <1>1
  <2> QED  BY <2>1, <1>2, <1>3
<1>5. \E c \in calls : IngressOf(ds, routable, tunnel, c)
  BY <1>1, <1>2
<1>6. \A s \in mine : \E c \in calls : SetOf(ds, tunnel, s, c)
  BY <1>1, <1>3
<1> QED  BY <1>4, <1>5, <1>6 DEF calls, mine

LEMMA SyncCalls ==
  ASSUME NEW routable, NEW gone, NEW ds
  PROVE  /\ \A c \in syncCloudflareTunnels(routable, gone, ds) :
              \/ \E t \in TunnelNames : IngressOf(ds, routable, t, c)
              \/ \E t \in TunnelNames : \E s \in OnTunnel(routable, ds, t) : SetOf(ds, t, s, c)
              \/ c.op = "options"
              \/ \E s \in gone : DeleteOf(ds, s, c)
         /\ \A t \in TunnelNames :
              \E c \in syncCloudflareTunnels(routable, gone, ds) : IngressOf(ds, routable, t, c)
         /\ \A t \in TunnelNames : \A s \in OnTunnel(routable, ds, t) :
              \E c \in syncCloudflareTunnels(routable, gone, ds) : SetOf(ds, t, s, c)
         /\ \A s \in gone : \E c \in syncCloudflareTunnels(routable, gone, ds) : DeleteOf(ds, s, c)
<1> DEFINE all == syncCloudflareTunnels(routable, gone, ds)
           calls(t) == CallsForTunnel(routable, ds, t)
           delete(s) == TunnelRecord(<<1, 0, 0>>, "delete", ds[s], {})
<1>1. all = (UNION {calls(t) : t \in TunnelNames}) \cup {delete(s) : s \in gone}
  BY DEF syncCloudflareTunnels
<1>2. ASSUME NEW s
      PROVE  DeleteOf(ds, s, delete(s))
  <2>1. delete(s).turn = <<1, 0, 0>> /\ delete(s).op = "delete" /\ delete(s).values = {}
        /\ <<delete(s).zone, delete(s).name, delete(s).type>> = RecordKey(ds[s])
    BY TunnelRecordFields
  <2> HIDE DEF delete
  <2> QED  BY <2>1 DEF DeleteOf, Writes
<1>3. \A t : \A c \in calls(t) :
              \/ IngressOf(ds, routable, t, c)
              \/ \E s \in OnTunnel(routable, ds, t) : SetOf(ds, t, s, c)
              \/ c.op = "options"
  BY TunnelCalls
<1>4. \A t : \E c \in calls(t) : IngressOf(ds, routable, t, c)
  BY TunnelCalls
<1>5. \A t : \A s \in OnTunnel(routable, ds, t) : \E c \in calls(t) : SetOf(ds, t, s, c)
  BY TunnelCalls
<1> HIDE DEF all, calls, delete
<1>6. \A c \in all : (\E t \in TunnelNames : c \in calls(t)) \/ \E s \in gone : c = delete(s)
  BY <1>1
<1>7. (\A t \in TunnelNames : calls(t) \subseteq all) /\ \A s \in gone : delete(s) \in all
  BY <1>1
<1>8. ASSUME NEW c \in all
      PROVE  \/ \E t \in TunnelNames : IngressOf(ds, routable, t, c)
             \/ \E t \in TunnelNames : \E s \in OnTunnel(routable, ds, t) : SetOf(ds, t, s, c)
             \/ c.op = "options"
             \/ \E s \in gone : DeleteOf(ds, s, c)
  BY <1>2, <1>3, <1>6
<1>9. \A t \in TunnelNames : \E c \in all : IngressOf(ds, routable, t, c)
  BY <1>4, <1>7
<1>10. \A t \in TunnelNames : \A s \in OnTunnel(routable, ds, t) : \E c \in all : SetOf(ds, t, s, c)
  BY <1>5, <1>7
<1>11. \A s \in gone : \E c \in all : DeleteOf(ds, s, c)
  BY <1>2, <1>7
<1> QED  BY <1>8, <1>9, <1>10, <1>11 DEF all

\* The calls planned for the services of routable and gone would make rules
\* and records follow them, whatever these are before.
LEMMA PlanIsUnderway ==
  ASSUME NEW ds, RoutesResolve(ds), NEW routable, routable \subseteq TunnelServices(ds), NEW gone,
         NEW rules, NEW records
  PROVE  /\ RulesUnderway(ds, routable, syncCloudflareTunnels(routable, gone, ds), rules)
         /\ NamesUnderway(ds, routable, gone, syncCloudflareTunnels(routable, gone, ds), records)
<1> DEFINE all == syncCloudflareTunnels(routable, gone, ds)
<1>1. \A c \in all :
              \/ \E t \in TunnelNames : IngressOf(ds, routable, t, c)
              \/ \E t \in TunnelNames : \E s \in OnTunnel(routable, ds, t) : SetOf(ds, t, s, c)
              \/ c.op = "options"
              \/ \E s \in gone : DeleteOf(ds, s, c)
  BY SyncCalls
<1>2. \A t \in TunnelNames : \E c \in all : IngressOf(ds, routable, t, c)
  BY SyncCalls
<1>3. \A t \in TunnelNames : \A s \in OnTunnel(routable, ds, t) : \E c \in all : SetOf(ds, t, s, c)
  BY SyncCalls
<1>4. \A s \in gone : \E c \in all : DeleteOf(ds, s, c)
  BY SyncCalls
<1> HIDE DEF all
<1>5. RulesUnderway(ds, routable, all, rules)
  <2> SUFFICES ASSUME NEW t \in TunnelNames
               PROVE  /\ \E c \in all : c.op = "ingress" /\ c.type = t
                      /\ \A c \in all : c.op = "ingress" /\ c.type = t =>
                           c.values = cloudflareTunnelIngressRules(routable, ds, t)
    BY DEF RulesUnderway
  <2> QED  BY <1>1, <1>2 DEF IngressOf, SetOf, DeleteOf
<1>6. ASSUME NEW s \in routable
      PROVE  \E t \in TunnelNames : s \in OnTunnel(routable, ds, t)
  BY ResolvedTunnel DEF RoutesResolve, OnTunnel
<1>7. ASSUME NEW e \in gone
      PROVE  DeleteLeft(ds, all, e)
  BY <1>4 DEF DeleteLeft, DeleteOf
<1>8. ASSUME NEW c \in all, c.op = "set"
      PROVE  SetCall(ds, routable, gone, all, c)
  <2>1. PICK t \in TunnelNames : \E s \in OnTunnel(routable, ds, t) : SetOf(ds, t, s, c)
    BY <1>1, <1>8 DEF IngressOf, DeleteOf
  <2>2. PICK s \in OnTunnel(routable, ds, t) : SetOf(ds, t, s, c)
    BY <2>1
  <2>3. s \in routable
    BY DEF OnTunnel
  <2>4. RoutedAs(ds, routable, s, c.values)
    BY <2>2 DEF RoutedAs, SetOf, SameName
  <2> QED  BY <1>7, <2>2, <2>3, <2>4 DEF SetCall, SetOf
<1>9. ASSUME NEW c \in all, c.op = "delete"
      PROVE  DeleteCall(ds, gone, c)
  BY <1>1, <1>9 DEF IngressOf, SetOf, DeleteOf, DeleteCall
<1>10. ASSUME NEW s \in routable
       PROVE  RecordUnderway(ds, routable, gone, all, records, s)
  <2>1. \E c \in all : c.op = "set" /\ Writes(c, RecordKey(ds[s]))
    BY <1>3, <1>6 DEF SetOf
  <2> QED  BY <2>1 DEF RecordUnderway
<1> QED  BY <1>5, <1>7, <1>8, <1>9, <1>10 DEF NamesUnderway, all

-----------------------------------------------------------------------------
(* One call *)

Wrote(records, c, after) ==
  \A k \in RecordKeys : /\ Writes(c, k) => after[k] = c.values
                        /\ ~Writes(c, k) => after[k] = records[k]
Ruled(rules, c, after) ==
  \A t \in TunnelNames : /\ c.op = "ingress" /\ c.type = t => after[t] = c.values
                         /\ ~(c.op = "ingress" /\ c.type = t) => after[t] = rules[t]

LEMMA CallWrites ==
  ASSUME NEW c, Applied(c), zones = [k \in RecordKeys |-> zones[k]], ingress = [t \in TunnelNames |-> ingress[t]]
  PROVE  /\ Wrote(zones, c, zones') /\ zones' = [k \in RecordKeys |-> zones'[k]]
         /\ Ruled(ingress, c, ingress') /\ ingress' = [t \in TunnelNames |-> ingress'[t]]
<1> DEFINE key == <<c.zone, c.name, c.type>>
<1>1. zones' = IF c.op \in {"set", "delete"} THEN [zones EXCEPT ![key] = c.values] ELSE zones
  BY DEF Applied
<1>2. ingress' = IF c.op = "ingress" THEN [ingress EXCEPT ![c.type] = c.values] ELSE ingress
  BY DEF Applied
<1>3. Wrote(zones, c, zones') /\ zones' = [k \in RecordKeys |-> zones'[k]]
  <2>1. \A k : Writes(c, k) <=> c.op \in {"set", "delete"} /\ key = k
    BY DEF Writes
  <2> HIDE DEF key
  <2>2. CASE c.op \in {"set", "delete"}
    BY <1>1, <2>1, <2>2 DEF Wrote
  <2>3. CASE c.op \notin {"set", "delete"}
    BY <1>1, <2>1, <2>3 DEF Wrote
  <2> QED  BY <2>2, <2>3
<1>4. Ruled(ingress, c, ingress') /\ ingress' = [t \in TunnelNames |-> ingress'[t]]
  <2>1. CASE c.op = "ingress"
    BY <1>2, <2>1 DEF Ruled
  <2>2. CASE c.op # "ingress"
    BY <1>2, <2>2 DEF Ruled
  <2> QED  BY <2>1, <2>2
<1> QED  BY <1>3, <1>4

LEMMA RecordsCall ==
  ASSUME NEW d, NEW calls, NEW c \in calls, NEW records, NEW after,
         RecordsUnderway(d, calls, records), Wrote(records, c, after)
  PROVE  RecordsUnderway(d, calls \ {c}, after)
<1> SUFFICES ASSUME NEW k \in RecordKeys, <<k[1], k[2]>> \in NamesAsked(d.dns)
             PROVE  LET asked == AskedRecords(d.dns, d.targets, k[1], k[2], k[3])
                    IN  /\ after[k] = asked \/ \E x \in calls \ {c} : Writes(x, k)
                        /\ \A x \in calls \ {c} : Writes(x, k) => x.values = asked
  BY DEF RecordsUnderway
<1> DEFINE asked == AskedRecords(d.dns, d.targets, k[1], k[2], k[3])
<1>1. /\ records[k] = asked \/ \E x \in calls : Writes(x, k)
      /\ \A x \in calls : Writes(x, k) => x.values = asked
  BY DEF RecordsUnderway
<1>2. (Writes(c, k) => after[k] = c.values) /\ (~Writes(c, k) => after[k] = records[k])
  BY DEF Wrote
<1> HIDE DEF asked
<1> QED  BY <1>1, <1>2 DEF asked

LEMMA RulesCall ==
  ASSUME NEW ds, NEW routable, NEW calls, NEW c \in calls, NEW rules, NEW after,
         RulesUnderway(ds, routable, calls, rules), Ruled(rules, c, after)
  PROVE  RulesUnderway(ds, routable, calls \ {c}, after)
<1> SUFFICES ASSUME NEW t \in TunnelNames
             PROVE  LET wanted == cloudflareTunnelIngressRules(routable, ds, t)
                    IN  /\ after[t] = wanted \/ \E x \in calls \ {c} : x.op = "ingress" /\ x.type = t
                        /\ \A x \in calls \ {c} : x.op = "ingress" /\ x.type = t => x.values = wanted
  BY DEF RulesUnderway
<1> DEFINE wanted == cloudflareTunnelIngressRules(routable, ds, t)
<1>1. /\ rules[t] = wanted \/ \E x \in calls : x.op = "ingress" /\ x.type = t
      /\ \A x \in calls : x.op = "ingress" /\ x.type = t => x.values = wanted
  BY DEF RulesUnderway
<1>2. /\ c.op = "ingress" /\ c.type = t => after[t] = c.values
      /\ ~(c.op = "ingress" /\ c.type = t) => after[t] = rules[t]
  BY DEF Ruled
<1> HIDE DEF wanted
<1> QED  BY <1>1, <1>2 DEF wanted

\* Of two services with one record, a call that writes it settles both.
LEMMA KeyNamesService ==
  ASSUME NEW d, NEW e, RecordKey(d) = RecordKey(e)
  PROVE  SameName(d, e)
BY DEF RecordKey, SameName

LEMMA NamesCall ==
  ASSUME NEW ds \in [DnsServices -> NetworkMetas], NEW calls, NEW c \in NextCalls(calls), ~Refused(c),
         NEW routable, routable \subseteq TunnelServices(ds), NEW gone, gone \subseteq TunnelServices(ds),
         NEW records, NEW after, NamesUnderway(ds, routable, gone, calls, records), Wrote(records, c, after)
  PROVE  NamesUnderway(ds, routable, gone, calls \ {c}, after)
<1> DEFINE left == calls \ {c}
           key(s) == RecordKey(ds[s])
<1>1. c \in calls /\ \A x \in calls : ~Before(x.turn, c.turn)
  BY DEF NextCalls
<1>2. /\ \A s \in routable : RecordUnderway(ds, routable, gone, calls, records, s)
      /\ \A e \in gone : RecordGone(ds, records, e) \/ DeleteLeft(ds, calls, e)
      /\ \A x \in calls : x.op = "set" => SetCall(ds, routable, gone, calls, x)
      /\ \A x \in calls : x.op = "delete" => DeleteCall(ds, gone, x)
  BY DEF NamesUnderway
<1>3. ASSUME NEW s \in TunnelServices(ds), Writes(c, key(s))
      PROVE  key(s) \in RecordKeys /\ after[key(s)] = c.values
  <2>1. c.zone # <<>>
    BY <1>3 DEF Refused, Writes
  <2>2. c.zone = matchingZone(TunnelZones, Route(ds[s]).name)
    BY <1>3 DEF Writes, RecordKey
  <2>3. ds[s] \in NetworkMetas /\ CloudflareTunnelManaged(ds[s])
    BY DEF TunnelServices
  <2>4. key(s) \in RecordKeys
    BY <2>1, <2>2, <2>3, RecordKeyExists
  <2> QED  BY <1>3, <2>4 DEF Wrote
<1>4. ASSUME NEW s, key(s) \in RecordKeys, ~Writes(c, key(s))
      PROVE  after[key(s)] = records[key(s)]
  BY <1>4 DEF Wrote
<1>5. ASSUME NEW s, NEW t, Writes(c, key(s)), Writes(c, key(t))
      PROVE  key(s) = key(t) /\ SameName(ds[s], ds[t])
  BY <1>5, KeyNamesService DEF Writes
<1> HIDE DEF key
<1>6. ASSUME NEW s \in routable
      PROVE  RecordUnderway(ds, routable, gone, left, after, s)
  <2>1. CASE c.op = "set" /\ Writes(c, key(s))
    <3>1. PICK u \in routable : Writes(c, key(u)) /\ RoutedAs(ds, routable, u, c.values)
      BY <1>1, <1>2, <2>1 DEF SetCall, key
    <3>2. SameName(ds[u], ds[s]) /\ key(s) \in RecordKeys /\ after[key(s)] = c.values
      BY <1>3, <1>5, <2>1, <3>1
    <3>3. RoutedAs(ds, routable, s, c.values)
      BY <3>1, <3>2 DEF RoutedAs, SameName
    <3> QED  BY <3>2, <3>3 DEF RecordUnderway, key
  <2>2. CASE c.op # "set" /\ Writes(c, key(s))
    <3>1. c.op = "delete"
      BY <2>2 DEF Writes
    <3>2. PICK e \in gone : Writes(c, key(e))
      BY <1>1, <1>2, <3>1 DEF DeleteCall, key
    <3> QED  BY <1>5, <2>2, <3>2 DEF RecordUnderway
  <2>3. CASE ~Writes(c, key(s))
    <3>1. RecordUnderway(ds, routable, gone, calls, records, s)
      BY <1>2
    <3> QED  BY <1>4, <2>3, <3>1 DEF RecordUnderway, key
  <2> QED  BY <2>1, <2>2, <2>3
<1>7. ASSUME NEW e \in gone
      PROVE  RecordGone(ds, after, e) \/ DeleteLeft(ds, left, e)
  <2>1. CASE c.op = "delete" /\ Writes(c, key(e))
    <3>1. c.values = {}
      BY <1>1, <1>2, <2>1 DEF DeleteCall
    <3> QED  BY <1>3, <2>1, <3>1 DEF RecordGone, key
  <2>2. CASE c.op = "set"
    <3>1. DeleteLeft(ds, calls, e)
      BY <1>1, <1>2, <2>2 DEF SetCall
    <3> QED  BY <2>2, <3>1 DEF DeleteLeft
  <2>3. CASE ~Writes(c, key(e))
    <3>1. RecordGone(ds, records, e) => RecordGone(ds, after, e)
      BY <1>4, <2>3 DEF RecordGone, key
    <3>2. DeleteLeft(ds, calls, e) => DeleteLeft(ds, left, e)
      BY <2>3 DEF DeleteLeft, key
    <3> QED  BY <1>2, <3>1, <3>2
  <2> QED  BY <2>1, <2>2, <2>3 DEF Writes
<1>8. ASSUME NEW x \in left, x.op = "set"
      PROVE  SetCall(ds, routable, gone, left, x)
  <2>1. SetCall(ds, routable, gone, calls, x)
    BY <1>2, <1>8
  <2>2. c.op # "delete"
    <3>1. ASSUME c.op = "delete"
          PROVE  FALSE
      <4>1. c.turn[1] = 1 /\ x.turn[1] = 0
        BY <1>1, <1>2, <2>1, <3>1 DEF DeleteCall, SetCall
      <4>2. Before(x.turn, c.turn)
        BY <4>1 DEF Before
      <4> QED  BY <1>1, <1>8, <4>2
    <3> QED  BY <3>1
  <2>3. \A e \in gone : DeleteLeft(ds, left, e)
    BY <2>1, <2>2 DEF SetCall, DeleteLeft
  <2> QED  BY <2>1, <2>3 DEF SetCall
<1>9. ASSUME NEW x \in left, x.op = "delete"
      PROVE  DeleteCall(ds, gone, x)
  BY <1>2, <1>9
<1> QED  BY <1>6, <1>7, <1>8, <1>9 DEF NamesUnderway

-----------------------------------------------------------------------------
(* The invariant *)

\* While a task runs, the records it has still to write are open, and what it
\* has written is what it is to write; services whose state changed since it
\* started are the only ones it may have found in another state.
Underway(j) ==
  LET ds == revisions[j.rev]
  IN  /\ RulesUnderway(ds, j.routable, j.calls, ingress)
      /\ NamesUnderway(ds, j.routable, (j.excluded \cap TunnelServices(ds)) \ j.routable, j.calls, zones)
Follows(j, looked) == \A s \in looked \ j.unsteady : s \in j.routable <=> s \in running
SyncOf(j) ==
  /\ RoutesResolve(revisions[j.rev]) /\ j.routable \subseteq TunnelServices(revisions[j.rev])
  /\ j.phase = "reading" => /\ j.calls = {} /\ j.routable \subseteq j.seen
                            /\ j.seen \subseteq TunnelServices(revisions[j.rev]) /\ Follows(j, j.seen)
  /\ j.phase = "calling" => Underway(j) /\ Follows(j, TunnelServices(revisions[j.rev]))
JobInv(j) ==
  /\ j.rev \in DOMAIN revisions /\ j.phase \in {"reading", "calling"}
  /\ \A k \in RecordKeys : Touches(j.calls, k) => promise[k] = {}
  /\ \/ j.kind = "dns" /\ j.phase = "calling" /\ RecordsUnderway(DnsMeta(j.service, j.rev), j.calls, zones)
     \/ j.kind = "tunnels" /\ SyncOf(j)
LastSyncInv(j) ==
  /\ job = {} /\ j.rev \in DOMAIN revisions
  /\ j.kind = "tunnels" /\ j.phase = "calling" /\ j.calls = {} /\ SyncOf(j)

DnsTypeOK ==
  /\ revisions \in Seq([DnsServices -> NetworkMetas]) /\ revisions # <<>>
  /\ zones = [k \in RecordKeys |-> zones[k]] /\ ingress = [t \in TunnelNames |-> ingress[t]]
  /\ \A t \in pending : t.kind \in {"dns", "tunnels"} /\ t.rev \in DOMAIN revisions
  /\ \A i, j \in job : i = j

DnsInv ==
  /\ DnsTypeOK /\ ZonesAsPromised
  /\ \A j \in job : JobInv(j)
  /\ \A j \in synced : LastSyncInv(j)

LEMMA RulesFollow ==
  ASSUME NEW routable, NEW ds, NEW tunnel, NEW u
  PROVE  /\ u \in OnTunnel(routable, ds, tunnel) =>
              \E rule \in cloudflareTunnelIngressRules(routable, ds, tunnel) : rule.to = u /\ rule.name = Route(ds[u]).name
         /\ (\E rule \in cloudflareTunnelIngressRules(routable, ds, tunnel) : rule.to = u) =>
              u \in OnTunnel(routable, ds, tunnel)
<1> DEFINE rule(s) == [name |-> Route(ds[s]).name, path |-> Route(ds[s]).path, to |-> s]
           mine == OnTunnel(routable, ds, tunnel)
<1>1. cloudflareTunnelIngressRules(routable, ds, tunnel) = {rule(s) : s \in mine}
  BY DEF cloudflareTunnelIngressRules
<1>2. \A s : rule(s).to = s /\ rule(s).name = Route(ds[s]).name
  OBVIOUS
<1> HIDE DEF rule, mine
<1> QED  BY <1>1, <1>2 DEF mine

LEMMA JobFields ==
  ASSUME NEW t, NEW phase, NEW seen, NEW routable, NEW calls, NEW unsteady
  PROVE  LET j == Job(t, phase, seen, routable, calls, unsteady)
         IN  /\ j.kind = t.kind /\ j.service = t.service /\ j.rev = t.rev /\ j.excluded = t.excluded
             /\ j.phase = phase /\ j.seen = seen /\ j.routable = routable /\ j.calls = calls
             /\ j.unsteady = unsteady
BY DEF Job

\* All calls made, the rules and records follow the services.
LEMMA SyncFollows ==
  ASSUME DnsInv
  PROVE  TunnelsFollowServices
<1> SUFFICES ASSUME NEW j \in synced, NEW s \in TunnelServices(revisions[j.rev]) \ j.unsteady
             PROVE  LET ds == revisions[j.rev]
                        name == Route(ds[s]).name
                        cname == zones[<<matchingZone(TunnelZones, name), name, "CNAME">>]
                        gone == {t \in j.excluded : t \in TunnelServices(ds) /\ Route(ds[t]).name = name}
                        routes == UNION {ingress[t] : t \in TunnelNames}
                    IN  /\ s \in running <=> \E rule \in routes : rule.to = s
                        /\ (s \in running /\ gone = {}) =>
                             \E t \in TunnelNames : /\ <<"tunnel", t>> \in cname
                                                    /\ \E rule \in ingress[t] : rule.name = name
                        /\ (s \in j.excluded /\ s \notin running) => cname = {}
  BY DEF TunnelsFollowServices
<1> DEFINE ds == revisions[j.rev]
           routable == j.routable
           lost == (j.excluded \cap TunnelServices(ds)) \ routable
           name == Route(ds[s]).name
           cname == zones[RecordKey(ds[s])]
           gone == {t \in j.excluded : t \in TunnelServices(ds) /\ Route(ds[t]).name = name}
           routes == UNION {ingress[t] : t \in TunnelNames}
<1>1. LastSyncInv(j)
  BY DEF DnsInv
<1>2. /\ RulesUnderway(ds, routable, {}, ingress) /\ NamesUnderway(ds, routable, lost, {}, zones)
      /\ (s \in routable <=> s \in running) /\ RoutesResolve(ds) /\ routable \subseteq TunnelServices(ds)
  BY <1>1 DEF LastSyncInv, SyncOf, Underway, Follows
<1> HIDE DEF ds, routable
<1>3. ASSUME NEW t \in TunnelNames
      PROVE  ingress[t] = cloudflareTunnelIngressRules(routable, ds, t)
  BY <1>2 DEF RulesUnderway
<1>4. ASSUME NEW u, NEW t
      PROVE  u \in OnTunnel(routable, ds, t) <=> \E rule \in cloudflareTunnelIngressRules(routable, ds, t) : rule.to = u
  BY RulesFollow
<1>5. s \in running <=> \E rule \in routes : rule.to = s
  <2>1. ASSUME s \in routable
        PROVE  \E t \in TunnelNames : s \in OnTunnel(routable, ds, t)
    BY <1>2, <2>1, ResolvedTunnel DEF RoutesResolve, OnTunnel
  <2>2. \A t : OnTunnel(routable, ds, t) \subseteq routable
    BY DEF OnTunnel
  <2> QED  BY <1>2, <1>3, <1>4, <2>1, <2>2
<1>6. ASSUME s \in running, gone = {}
      PROVE  \E t \in TunnelNames : <<"tunnel", t>> \in cname /\ \E rule \in ingress[t] : rule.name = name
  <2>1. ~\E e \in lost : SameName(ds[e], ds[s])
    BY <1>6 DEF SameName
  <2>2. RecordUnderway(ds, routable, lost, {}, zones, s)
    BY <1>2, <1>6 DEF NamesUnderway
  <2>3. RoutedAs(ds, routable, s, cname)
    BY <2>1, <2>2 DEF RecordUnderway
  <2>4. PICK t \in TunnelNames : cname = {<<"tunnel", t>>} /\ \E u \in OnTunnel(routable, ds, t) : SameName(ds[u], ds[s])
    BY <2>3 DEF RoutedAs
  <2>5. PICK u \in OnTunnel(routable, ds, t) : SameName(ds[u], ds[s])
    BY <2>4
  <2>6. \E rule \in cloudflareTunnelIngressRules(routable, ds, t) : rule.name = name
    BY <2>5, RulesFollow DEF SameName
  <2>7. <<"tunnel", t>> \in cname
    BY <2>4
  <2> QED  BY <1>3, <2>6, <2>7
<1>7. ASSUME s \in j.excluded, s \notin running
      PROVE  cname = {}
  <2>1. s \in lost
    BY <1>2, <1>7 DEF ds
  <2> QED  BY <1>2, <2>1 DEF NamesUnderway, RecordGone, DeleteLeft
<1> QED  BY <1>5, <1>6, <1>7 DEF RecordKey, ds

-----------------------------------------------------------------------------
(* Steps *)

LEMMA TouchesWrites ==
  ASSUME NEW calls, NEW k
  PROVE  Touches(calls, k) <=> \E c \in calls : Writes(c, k)
BY DEF Touches, Writes

\* A task depends on its own revision only.
LEMMA SyncStays ==
  ASSUME NEW j, SyncOf(j), revisions'[j.rev] = revisions[j.rev], UNCHANGED <<running, zones, ingress>>
  PROVE  SyncOf(j)'
<1> DEFINE ds == revisions[j.rev]
<1>1. ds' = ds /\ TunnelServices(ds)' = TunnelServices(ds) /\ RoutesResolve(ds)' = RoutesResolve(ds)
  OBVIOUS
<1> HIDE DEF ds
<1>2. Underway(j)' <=> Underway(j)
  BY <1>1 DEF Underway, ds
<1>3. \A looked : Follows(j, looked)' <=> Follows(j, looked)
  BY DEF Follows
<1> QED  BY <1>1, <1>2, <1>3 DEF SyncOf, ds

LEMMA JobStays ==
  ASSUME NEW j, JobInv(j), DOMAIN revisions \subseteq DOMAIN revisions', revisions'[j.rev] = revisions[j.rev],
         UNCHANGED <<running, zones, ingress, promise>>
  PROVE  JobInv(j)'
<1>1. j.kind = "tunnels" /\ SyncOf(j) => SyncOf(j)'
  BY SyncStays
<1>2. RecordsUnderway(DnsMeta(j.service, j.rev), j.calls, zones)'
        <=> RecordsUnderway(DnsMeta(j.service, j.rev), j.calls, zones)
  BY DEF DnsMeta
<1>3. \A k \in RecordKeys : Touches(j.calls, k)' <=> Touches(j.calls, k)
  OBVIOUS
<1> QED  BY <1>1, <1>2, <1>3 DEF JobInv

LEMMA LastSyncStays ==
  ASSUME NEW j, LastSyncInv(j), DOMAIN revisions \subseteq DOMAIN revisions', revisions'[j.rev] = revisions[j.rev],
         UNCHANGED <<running, zones, ingress, job>>
  PROVE  LastSyncInv(j)'
<1>1. SyncOf(j)'
  BY SyncStays DEF LastSyncInv
<1> QED  BY <1>1 DEF LastSyncInv

LEMMA CommitDnsStep ==
  ASSUME DnsInv, NEW s \in DnsServices, CommitDeclaration(s)
  PROVE  DnsInv'
<1>1. PICK d \in NetworkMetas : revisions' = Append(revisions, [revisions[Tip] EXCEPT ![s] = d])
  BY DEF CommitDeclaration
<1>2. UNCHANGED <<running, zones, ingress, pending, job, promise, synced>>
  BY DEF CommitDeclaration
<1> DEFINE D == [DnsServices -> NetworkMetas]
           ds == [revisions[Tip] EXCEPT ![s] = d]
<1>3. revisions \in Seq(D) /\ revisions # <<>>
  BY DEF DnsInv, DnsTypeOK
<1>4. Tip \in DOMAIN revisions
  BY <1>3 DEF Tip
<1>5. ds \in D
  BY <1>3, <1>4
<1> HIDE DEF ds, D
<1>6. /\ revisions' \in Seq(D) /\ revisions' # <<>> /\ DOMAIN revisions \subseteq DOMAIN revisions'
      /\ \A r \in DOMAIN revisions : revisions'[r] = revisions[r]
  BY <1>1, <1>3, <1>5 DEF ds
<1>7. \A j \in job : JobInv(j)'
  BY <1>2, <1>6, JobStays DEF DnsInv, JobInv
<1>8. \A j \in synced : LastSyncInv(j)'
  BY <1>2, <1>6, LastSyncStays DEF DnsInv, LastSyncInv
<1>9. DnsTypeOK'
  BY <1>2, <1>6 DEF DnsInv, DnsTypeOK, D
<1> QED  BY <1>2, <1>7, <1>8, <1>9 DEF DnsInv, ZonesAsPromised

\* What starts or stops meanwhile is remembered as unsteady.
LEMMA FollowsUnsteady ==
  ASSUME NEW j, SyncOf(j), j.kind = "tunnels", NEW s, ChangeRunning(s),
         NEW i, i = Job(j, j.phase, j.seen, j.routable, j.calls, j.unsteady \cup IF j.kind = "tunnels" THEN {s} ELSE {})
  PROVE  SyncOf(i)'
<1>1. UNCHANGED <<revisions, zones, ingress>> /\ \A x : x # s => (x \in running' <=> x \in running)
  BY DEF ChangeRunning
<1>2. /\ i.rev = j.rev /\ i.excluded = j.excluded /\ i.phase = j.phase /\ i.seen = j.seen
      /\ i.routable = j.routable /\ i.calls = j.calls /\ i.unsteady = j.unsteady \cup {s}
  BY JobFields
<1>3. \A looked : Follows(j, looked) => Follows(i, looked)'
  BY <1>1, <1>2 DEF Follows
<1>4. Underway(j) => Underway(i)'
  BY <1>1, <1>2 DEF Underway
<1>5. RoutesResolve(revisions[j.rev])' <=> RoutesResolve(revisions[j.rev])
  BY <1>1
<1>6. TunnelServices(revisions[j.rev])' = TunnelServices(revisions[j.rev])
  BY <1>1
<1> QED  BY <1>1, <1>2, <1>3, <1>4, <1>5, <1>6 DEF SyncOf

LEMMA RunningStep ==
  ASSUME DnsInv, NEW s, ChangeRunning(s)
  PROVE  DnsInv'
<1>1. UNCHANGED <<revisions, zones, ingress, pending, promise>> /\ job' = Unsteady(job, s) /\ synced' = Unsteady(synced, s)
  BY DEF ChangeRunning
<1> DEFINE now(j) == Job(j, j.phase, j.seen, j.routable, j.calls, j.unsteady \cup IF j.kind = "tunnels" THEN {s} ELSE {})
<1>2. job' = {now(j) : j \in job} /\ synced' = {now(j) : j \in synced}
  BY <1>1 DEF Unsteady
<1>3. \A j : j.kind = "tunnels" /\ SyncOf(j) => SyncOf(now(j))'
  BY FollowsUnsteady
<1>4. \A j : now(j).kind = j.kind /\ now(j).service = j.service /\ now(j).rev = j.rev /\ now(j).phase = j.phase
             /\ now(j).calls = j.calls
  BY JobFields
<1> HIDE DEF now
<1>5. ASSUME NEW j \in job
      PROVE  JobInv(now(j))'
  <2>1. JobInv(j)
    BY DEF DnsInv
  <2>2. RecordsUnderway(DnsMeta(j.service, j.rev), j.calls, zones) =>
          RecordsUnderway(DnsMeta(now(j).service, now(j).rev), now(j).calls, zones)'
    BY <1>1, <1>4 DEF DnsMeta
  <2>3. \A k \in RecordKeys : Touches(now(j).calls, k)' => promise'[k] = {}
    BY <1>1, <1>4, <2>1 DEF JobInv
  <2> QED  BY <1>1, <1>3, <1>4, <2>1, <2>2, <2>3 DEF JobInv
<1>6. ASSUME NEW j \in synced
      PROVE  LastSyncInv(now(j))'
  <2>1. LastSyncInv(j)
    BY DEF DnsInv
  <2> QED  BY <1>1, <1>2, <1>3, <1>4, <2>1 DEF LastSyncInv
<1>7. DnsTypeOK'
  BY <1>1, <1>2 DEF DnsInv, DnsTypeOK
<1> QED  BY <1>1, <1>2, <1>5, <1>6, <1>7 DEF DnsInv, ZonesAsPromised

LEMMA AdmitStep ==
  ASSUME DnsInv, NEW s, createServiceDNSUpdateTask(s) \/ createServiceCloudflareTunnelSyncTask(s)
  PROVE  DnsInv'
<1>a. PICK kind \in {"dns", "tunnels"}, r \in 1..Tip : \E excluded : AdmitSync(kind, s, r, excluded)
  <2>1. Tip \in 1..Tip
    BY DEF DnsInv, DnsTypeOK, Tip
  <2> QED  BY <2>1 DEF createServiceDNSUpdateTask, createServiceCloudflareTunnelSyncTask
<1>1. PICK excluded : AdmitSync(kind, s, r, excluded)
  BY <1>a
<1>2. pending' = pending \cup {[kind |-> kind, service |-> s, rev |-> r, excluded |-> excluded]}
      /\ UNCHANGED <<revisions, running, zones, ingress, job, promise, synced>>
  BY <1>1 DEF AdmitSync
<1>3. r \in DOMAIN revisions
  BY DEF DnsInv, DnsTypeOK, Tip
<1>4. DnsTypeOK'
  BY <1>2, <1>3 DEF DnsInv, DnsTypeOK
<1>5. \A j \in job : JobInv(j)'
  BY <1>2, JobStays DEF DnsInv
<1>6. \A j \in synced : LastSyncInv(j)'
  BY <1>2, LastSyncStays DEF DnsInv
<1> QED  BY <1>2, <1>4, <1>5, <1>6 DEF DnsInv, ZonesAsPromised

\* Once the records it writes are open, a task may write them.
LEMMA Forgotten ==
  ASSUME NEW calls, promise' = ForgetTouched(calls), zones' = zones, ZonesAsPromised
  PROVE  ZonesAsPromised' /\ \A k \in RecordKeys : Touches(calls, k) => promise'[k] = {}
BY DEF ForgetTouched, ZonesAsPromised

LEMMA StartDNSStep ==
  ASSUME DnsInv, NEW t \in pending, StartDNSUpdate(t)
  PROVE  DnsInv'
<1>a. PICK d, calls : d = DnsMeta(t.service, t.rev) /\ calls = syncServiceDNSBatch(d.dns, d.targets)
  OBVIOUS
<1>b. PICK started : started = Job(t, "calling", {}, {}, calls, {})
  OBVIOUS
<1>1. /\ t.kind = "dns" /\ job = {} /\ pending' = pending \ {t} /\ synced' = {}
      /\ UNCHANGED <<revisions, running, zones, ingress>>
      /\ \/ job' = {started} /\ promise' = ForgetTouched(calls)
         \/ UNCHANGED <<job, promise>>
  BY <1>a, <1>b DEF StartDNSUpdate
<1>2. t.rev \in DOMAIN revisions
  BY DEF DnsInv, DnsTypeOK
<1>3. /\ started.kind = t.kind /\ started.service = t.service /\ started.rev = t.rev
      /\ started.phase = "calling" /\ started.calls = calls
  BY <1>b, JobFields
<1>4. RecordsUnderway(d, calls, zones)
  BY <1>a, BatchIsUnderway
<1>5. DnsTypeOK'
  BY <1>1 DEF DnsInv, DnsTypeOK
<1>6. CASE job' = {started} /\ promise' = ForgetTouched(calls)
  <2>1. ZonesAsPromised' /\ \A k \in RecordKeys : Touches(calls, k) => promise'[k] = {}
    BY <1>1, <1>6, Forgotten DEF DnsInv
  <2>2. RecordsUnderway(DnsMeta(started.service, started.rev), started.calls, zones)'
    BY <1>a, <1>1, <1>3, <1>4 DEF DnsMeta
  <2>3. \A k \in RecordKeys : Touches(started.calls, k)' => promise'[k] = {}
    BY <1>3, <2>1
  <2>4. JobInv(started)'
    BY <1>1, <1>2, <1>3, <2>2, <2>3 DEF JobInv
  <2> QED  BY <1>1, <1>5, <1>6, <2>1, <2>4 DEF DnsInv
<1>7. CASE UNCHANGED <<job, promise>>
  BY <1>1, <1>5, <1>7 DEF DnsInv, ZonesAsPromised
<1> QED  BY <1>1, <1>6, <1>7

LEMMA StartTunnelStep ==
  ASSUME DnsInv, NEW t \in pending, StartTunnelSync(t)
  PROVE  DnsInv'
<1>a. PICK started : started = Job(t, "reading", {}, {}, {}, {})
  OBVIOUS
<1>1. /\ t.kind = "tunnels" /\ job = {} /\ pending' = pending \ {t} /\ synced' = {}
      /\ UNCHANGED <<revisions, running, zones, ingress, promise>>
      /\ \/ job' = {started} /\ RoutesResolve(revisions[t.rev])
         \/ job' = {}
  <2>1. job' = IF RoutesResolve(revisions[t.rev]) THEN {started} ELSE {}
    BY <1>a DEF StartTunnelSync
  <2>2. /\ t.kind = "tunnels" /\ job = {} /\ pending' = pending \ {t} /\ synced' = {}
        /\ UNCHANGED <<revisions, running, zones, ingress, promise>>
    BY DEF StartTunnelSync
  <2> QED  BY <2>1, <2>2
<1>2. t.rev \in DOMAIN revisions
  BY DEF DnsInv, DnsTypeOK
<1>3. /\ started.kind = t.kind /\ started.rev = t.rev /\ started.phase = "reading" /\ started.seen = {}
      /\ started.routable = {} /\ started.calls = {}
  BY <1>a, JobFields
<1>4. DnsTypeOK'
  BY <1>1 DEF DnsInv, DnsTypeOK
<1>5. ASSUME RoutesResolve(revisions[t.rev])
      PROVE  JobInv(started)'
  <2>1. RoutesResolve(revisions[started.rev])'
    BY <1>1, <1>3, <1>5
  <2>2. SyncOf(started)'
    BY <1>3, <2>1 DEF SyncOf, Follows
  <2>3. \A k \in RecordKeys : ~Touches(started.calls, k)'
    BY <1>3 DEF Touches
  <2> QED  BY <1>1, <1>2, <1>3, <2>2, <2>3 DEF JobInv
<1> QED  BY <1>1, <1>4, <1>5 DEF DnsInv, ZonesAsPromised

LEMMA ReadStep ==
  ASSUME DnsInv, NEW s, ReadRoutable(s)
  PROVE  DnsInv'
<1>1. PICK j \in job :
        /\ j.phase = "reading" /\ s \in TunnelServices(revisions[j.rev]) \ j.seen
        /\ job' = {Job(j, "reading", j.seen \cup {s}, j.routable \cup ({s} \cap running), {}, j.unsteady)}
  BY DEF ReadRoutable
<1>2. UNCHANGED <<revisions, running, zones, ingress, pending, promise, synced>>
  BY DEF ReadRoutable
<1>3. PICK i : i = Job(j, "reading", j.seen \cup {s}, j.routable \cup ({s} \cap running), {}, j.unsteady)
  OBVIOUS
<1>4. /\ i.kind = j.kind /\ i.rev = j.rev /\ i.phase = "reading" /\ i.seen = j.seen \cup {s}
      /\ i.routable = j.routable \cup ({s} \cap running) /\ i.calls = {} /\ i.unsteady = j.unsteady
  BY <1>3, JobFields
<1>5. JobInv(j) /\ DnsTypeOK /\ synced = {}
  BY DEF DnsInv, LastSyncInv
<1>6. j.kind = "tunnels" /\ SyncOf(j)
  BY <1>1, <1>5 DEF JobInv
<1>7. DnsTypeOK'
  BY <1>1, <1>2, <1>5 DEF DnsTypeOK
<1>8. \A k \in RecordKeys : ~Touches(i.calls, k)'
  BY <1>4 DEF Touches
<1>9. j.routable \subseteq j.seen /\ j.seen \subseteq TunnelServices(revisions[j.rev]) /\ Follows(j, j.seen)
  BY <1>1, <1>6 DEF SyncOf
<1>10. i.routable \subseteq i.seen /\ i.seen \subseteq TunnelServices(revisions[j.rev])
  BY <1>1, <1>4, <1>9
<1>11. Follows(i, i.seen)'
  BY <1>1, <1>2, <1>4, <1>9 DEF Follows
<1>12. RoutesResolve(revisions[i.rev])' /\ TunnelServices(revisions[i.rev])' = TunnelServices(revisions[j.rev])
  BY <1>2, <1>4, <1>6 DEF SyncOf
<1>13. SyncOf(i)'
  BY <1>4, <1>10, <1>11, <1>12 DEF SyncOf
<1>14. JobInv(i)'
  BY <1>2, <1>4, <1>5, <1>6, <1>8, <1>13 DEF JobInv
<1> QED  BY <1>1, <1>2, <1>3, <1>5, <1>7, <1>14 DEF DnsInv, ZonesAsPromised

LEMMA PlanStep ==
  ASSUME DnsInv, PlanTunnelCalls
  PROVE  DnsInv'
<1>1. PICK j \in job : PlanCalls(j, j.routable, (j.excluded \cap j.seen) \ j.routable)
  BY DEF PlanTunnelCalls
<1>2. PICK ds, gone, calls : /\ ds = revisions[j.rev] /\ gone = (j.excluded \cap j.seen) \ j.routable
                             /\ calls = syncCloudflareTunnels(j.routable, gone, ds)
  OBVIOUS
<1>3. PICK i : i = Job(j, "calling", {}, j.routable, calls, j.unsteady)
  OBVIOUS
<1>4. /\ j.phase = "reading" /\ j.seen = TunnelServices(ds) /\ job' = {i} /\ promise' = ForgetTouched(calls)
      /\ UNCHANGED <<revisions, running, zones, ingress, pending, synced>>
  BY <1>1, <1>2, <1>3 DEF PlanCalls
<1>5. /\ i.kind = j.kind /\ i.rev = j.rev /\ i.excluded = j.excluded /\ i.phase = "calling"
      /\ i.routable = j.routable /\ i.calls = calls /\ i.unsteady = j.unsteady
  BY <1>3, JobFields
<1>6. JobInv(j) /\ DnsTypeOK /\ synced = {}
  BY DEF DnsInv, LastSyncInv
<1>7. j.kind = "tunnels" /\ SyncOf(j)
  BY <1>4, <1>6 DEF JobInv
<1>8. RoutesResolve(ds) /\ j.routable \subseteq TunnelServices(ds) /\ Follows(j, TunnelServices(ds))
  BY <1>2, <1>4, <1>7 DEF SyncOf
<1>9. RulesUnderway(ds, j.routable, calls, ingress) /\ NamesUnderway(ds, j.routable, gone, calls, zones)
  BY <1>2, <1>8, PlanIsUnderway
<1>10. ZonesAsPromised' /\ \A k \in RecordKeys : Touches(calls, k) => promise'[k] = {}
  BY <1>4, Forgotten DEF DnsInv
<1>11. revisions'[i.rev] = ds /\ gone = (i.excluded \cap TunnelServices(ds)) \ i.routable
  BY <1>2, <1>4, <1>5
<1>12. Underway(i)'
  BY <1>4, <1>5, <1>9, <1>11 DEF Underway
<1>13. Follows(i, TunnelServices(ds))'
  BY <1>4, <1>5, <1>8 DEF Follows
<1>14. SyncOf(i)'
  BY <1>5, <1>8, <1>11, <1>12, <1>13 DEF SyncOf
<1>15. JobInv(i)'
  BY <1>4, <1>5, <1>6, <1>7, <1>10, <1>14 DEF JobInv
<1>16. DnsTypeOK'
  BY <1>4, <1>6 DEF DnsTypeOK
<1> QED  BY <1>4, <1>6, <1>10, <1>15, <1>16 DEF DnsInv

\* A call keeps what the task holds open and moves nothing else.
LEMMA CallKeepsPromises ==
  ASSUME NEW j, JobInv(j), NEW c \in j.calls, Wrote(zones, c, zones'), promise' = promise, ZonesAsPromised
  PROVE  ZonesAsPromised'
<1> SUFFICES ASSUME NEW k \in RecordKeys, promise[k] # {}
             PROVE  zones'[k] \in promise[k]
  BY DEF ZonesAsPromised
<1>1. ~Writes(c, k)
  BY TouchesWrites DEF JobInv
<1> QED  BY <1>1 DEF Wrote, ZonesAsPromised

LEMMA CallStep ==
  ASSUME DnsInv, CallProvider
  PROVE  DnsInv'
<1>a. PICK j \in job : \E c \in NextCalls(j.calls) :
        /\ ~Refused(c) /\ Applied(c)
        /\ job' = {Job(j, j.phase, j.seen, j.routable, j.calls \ {c}, j.unsteady)}
        /\ UNCHANGED <<revisions, running, pending, promise, synced>>
  BY DEF CallProvider
<1>1. PICK c \in NextCalls(j.calls) :
        /\ ~Refused(c) /\ Applied(c)
        /\ job' = {Job(j, j.phase, j.seen, j.routable, j.calls \ {c}, j.unsteady)}
        /\ UNCHANGED <<revisions, running, pending, promise, synced>>
  BY <1>a
<1>2. PICK i : i = Job(j, j.phase, j.seen, j.routable, j.calls \ {c}, j.unsteady)
  OBVIOUS
<1>3. /\ i.kind = j.kind /\ i.service = j.service /\ i.rev = j.rev /\ i.excluded = j.excluded /\ i.phase = j.phase
      /\ i.seen = j.seen /\ i.routable = j.routable /\ i.calls = j.calls \ {c} /\ i.unsteady = j.unsteady
  BY <1>2, JobFields
<1>4. c \in j.calls
  BY DEF NextCalls
<1>5. JobInv(j) /\ DnsTypeOK /\ synced = {} /\ ZonesAsPromised
  BY DEF DnsInv, LastSyncInv
<1>6. /\ Wrote(zones, c, zones') /\ zones' = [k \in RecordKeys |-> zones'[k]]
      /\ Ruled(ingress, c, ingress') /\ ingress' = [t \in TunnelNames |-> ingress'[t]]
  BY <1>1, <1>5, CallWrites DEF DnsTypeOK
<1>7. DnsTypeOK'
  BY <1>1, <1>5, <1>6 DEF DnsTypeOK
<1>8. ZonesAsPromised'
  BY <1>1, <1>4, <1>5, <1>6, CallKeepsPromises
<1>9. \A k \in RecordKeys : Touches(i.calls, k) => promise'[k] = {}
  BY <1>1, <1>3, <1>5, TouchesWrites DEF JobInv
<1>10. CASE j.kind = "dns"
  <2>1. PICK d : d = DnsMeta(j.service, j.rev)
    OBVIOUS
  <2>2. RecordsUnderway(d, j.calls, zones)
    BY <1>5, <1>10, <2>1 DEF JobInv
  <2>3. PICK records, after : records = zones /\ after = zones'
    OBVIOUS
  <2>4. RecordsUnderway(d, j.calls \ {c}, after)
    BY <1>4, <1>6, <2>2, <2>3, RecordsCall
  <2>5. RecordsUnderway(DnsMeta(i.service, i.rev), i.calls, zones)'
    BY <1>1, <1>3, <2>1, <2>3, <2>4 DEF DnsMeta
  <2>6. JobInv(i)'
    BY <1>1, <1>3, <1>5, <1>9, <1>10, <2>5 DEF JobInv
  <2> QED  BY <1>1, <1>2, <1>5, <1>7, <1>8, <2>6 DEF DnsInv
<1>11. CASE j.kind = "tunnels"
  <2>1. SyncOf(j) /\ j.phase = "calling"
    BY <1>4, <1>5, <1>11 DEF JobInv, SyncOf
  <2>2. PICK ds, gone : ds = revisions[j.rev] /\ gone = (j.excluded \cap TunnelServices(ds)) \ j.routable
    OBVIOUS
  <2>3. /\ RoutesResolve(ds) /\ j.routable \subseteq TunnelServices(ds) /\ Follows(j, TunnelServices(ds))
        /\ RulesUnderway(ds, j.routable, j.calls, ingress) /\ NamesUnderway(ds, j.routable, gone, j.calls, zones)
    BY <2>1, <2>2 DEF SyncOf, Underway
  <2>4. ds \in [DnsServices -> NetworkMetas] /\ gone \subseteq TunnelServices(ds)
    BY <1>5, <2>2 DEF DnsTypeOK, JobInv
  <2>5. PICK records, after, rules, then : records = zones /\ after = zones' /\ rules = ingress /\ then = ingress'
    OBVIOUS
  <2>6. RulesUnderway(ds, j.routable, j.calls \ {c}, then)
    BY <1>4, <1>6, <2>3, <2>5, RulesCall
  <2>7. NamesUnderway(ds, j.routable, gone, j.calls \ {c}, after)
    BY <1>1, <1>6, <2>3, <2>4, <2>5, NamesCall
  <2>8. revisions'[i.rev] = ds /\ gone = (i.excluded \cap TunnelServices(ds)) \ i.routable
    BY <1>1, <1>3, <2>2
  <2>9. Underway(i)'
    BY <1>3, <2>5, <2>6, <2>7, <2>8 DEF Underway
  <2>10. Follows(i, TunnelServices(ds))'
    BY <1>1, <1>3, <2>3 DEF Follows
  <2>11. SyncOf(i)'
    BY <1>3, <2>1, <2>3, <2>8, <2>9, <2>10 DEF SyncOf
  <2>12. JobInv(i)'
    BY <1>1, <1>3, <1>5, <1>9, <1>11, <2>11 DEF JobInv
  <2> QED  BY <1>1, <1>2, <1>5, <1>7, <1>8, <2>12 DEF DnsInv
<1> QED  BY <1>5, <1>10, <1>11 DEF JobInv

LEMMA FailStep ==
  ASSUME DnsInv, CallFails
  PROVE  DnsInv'
<1>1. PICK j \in job : \E c \in NextCalls(j.calls) : Applied(c) \/ UNCHANGED <<zones, ingress>>
  BY DEF CallFails
<1>2. PICK c \in NextCalls(j.calls) : Applied(c) \/ UNCHANGED <<zones, ingress>>
  BY <1>1
<1>3. job' = {} /\ UNCHANGED <<revisions, running, pending, promise, synced>>
  BY DEF CallFails
<1>4. JobInv(j) /\ DnsTypeOK /\ synced = {} /\ ZonesAsPromised
  BY DEF DnsInv, LastSyncInv
<1>5. CASE Applied(c)
  <2>1. /\ Wrote(zones, c, zones') /\ zones' = [k \in RecordKeys |-> zones'[k]]
        /\ ingress' = [t \in TunnelNames |-> ingress'[t]]
    BY <1>4, <1>5, CallWrites DEF DnsTypeOK
  <2>2. ZonesAsPromised'
    BY <1>3, <1>4, <2>1, CallKeepsPromises DEF NextCalls
  <2> QED  BY <1>3, <1>4, <2>1, <2>2 DEF DnsInv, DnsTypeOK
<1>6. CASE UNCHANGED <<zones, ingress>>
  BY <1>3, <1>4, <1>6 DEF DnsInv, DnsTypeOK, ZonesAsPromised
<1> QED  BY <1>2, <1>5, <1>6

LEMMA FinishStep ==
  ASSUME DnsInv, FinishSync
  PROVE  DnsInv'
<1>1. PICK j \in job : /\ j.phase = "calling" /\ j.calls = {}
                       /\ promise' = IF j.kind = "dns" THEN Promised(j) ELSE promise
                       /\ synced' = IF j.kind = "tunnels" THEN {j} ELSE {}
  BY DEF FinishSync
<1>2. job' = {} /\ UNCHANGED <<revisions, running, zones, ingress, pending>>
  BY DEF FinishSync
<1>3. JobInv(j) /\ DnsTypeOK /\ ZonesAsPromised
  BY DEF DnsInv
<1>4. DnsTypeOK'
  BY <1>2, <1>3 DEF DnsTypeOK
<1>5. CASE j.kind = "dns"
  <2>1. PICK d : d = DnsMeta(j.service, j.rev)
    OBVIOUS
  <2>2. RecordsUnderway(d, j.calls, zones)
    BY <1>3, <1>5, <2>1 DEF JobInv
  <2>3. promise' = [k \in RecordKeys |-> IF <<k[1], k[2]>> \in NamesAsked(d.dns)
                      THEN {AskedRecords(d.dns, d.targets, k[1], k[2], k[3])} ELSE promise[k]]
    BY <1>1, <1>5, <2>1 DEF Promised
  <2>4. ASSUME NEW k \in RecordKeys, promise'[k] # {}
        PROVE  zones'[k] \in promise'[k]
    <3>1. CASE <<k[1], k[2]>> \in NamesAsked(d.dns)
      <4>1. zones[k] = AskedRecords(d.dns, d.targets, k[1], k[2], k[3])
        BY <1>1, <2>2, <3>1 DEF RecordsUnderway
      <4>2. promise'[k] = {AskedRecords(d.dns, d.targets, k[1], k[2], k[3])}
        BY <2>3, <3>1
      <4> QED  BY <1>2, <4>1, <4>2
    <3>2. CASE <<k[1], k[2]>> \notin NamesAsked(d.dns)
      <4>1. promise'[k] = promise[k]
        BY <2>3, <3>2
      <4> QED  BY <1>2, <1>3, <2>4, <4>1 DEF ZonesAsPromised
    <3> QED  BY <3>1, <3>2
  <2>5. synced' = {}
    BY <1>1, <1>5
  <2> QED  BY <1>2, <1>4, <2>4, <2>5 DEF DnsInv, ZonesAsPromised
<1>6. CASE j.kind = "tunnels"
  <2>1. promise' = promise /\ synced' = {j}
    BY <1>1, <1>6
  <2>2. SyncOf(j)'
    BY <1>2, <1>3, <1>6, SyncStays DEF JobInv
  <2>3. LastSyncInv(j)'
    BY <1>1, <1>2, <1>3, <1>6, <2>2 DEF LastSyncInv, JobInv
  <2> QED  BY <1>2, <1>3, <1>4, <2>1, <2>3 DEF DnsInv, ZonesAsPromised
<1> QED  BY <1>3, <1>5, <1>6 DEF JobInv

LEMMA DnsInitially ==
  ASSUME DnsInit
  PROVE  DnsInv
<1>1. PICK m \in [DnsServices -> NetworkMetas] : revisions = <<m>>
  BY DEF DnsInit
<1>2. revisions \in Seq([DnsServices -> NetworkMetas]) /\ revisions # <<>>
  BY <1>1
<1>3. zones = [k \in RecordKeys |-> zones[k]]
  BY DEF DnsInit
<1>4. ingress = [t \in TunnelNames |-> ingress[t]]
  BY DEF DnsInit
<1>5. pending = {} /\ job = {} /\ synced = {} /\ promise = [k \in RecordKeys |-> {zones[k]}]
  BY DEF DnsInit
<1> QED  BY <1>2, <1>3, <1>4, <1>5 DEF DnsInv, DnsTypeOK, ZonesAsPromised

LEMMA DnsStep ==
  ASSUME DnsInv, [DnsNext]_dnsVars
  PROVE  DnsInv'
<1>1. CASE UNCHANGED dnsVars
  <2>1. UNCHANGED <<revisions, running, zones, ingress, pending, job, promise, synced>>
    BY <1>1 DEF dnsVars
  <2>2. \A j \in job : JobInv(j)'
    BY <2>1, JobStays DEF DnsInv
  <2>3. \A j \in synced : LastSyncInv(j)'
    BY <2>1, LastSyncStays DEF DnsInv
  <2> QED  BY <2>1, <2>2, <2>3 DEF DnsInv, DnsTypeOK, ZonesAsPromised
<1>2. ASSUME NEW s \in DnsServices,
             \/ CommitDeclaration(s) \/ ChangeRunning(s) \/ createServiceDNSUpdateTask(s)
             \/ createServiceCloudflareTunnelSyncTask(s) \/ ReadRoutable(s)
      PROVE  DnsInv'
  BY <1>2, CommitDnsStep, RunningStep, AdmitStep, ReadStep
<1>3. ASSUME NEW t \in pending, StartDNSUpdate(t) \/ StartTunnelSync(t)
      PROVE  DnsInv'
  BY <1>3, StartDNSStep, StartTunnelStep
<1>4. CASE PlanTunnelCalls
  BY <1>4, PlanStep
<1>5. CASE CallProvider
  BY <1>5, CallStep
<1>6. CASE CallFails
  BY <1>6, FailStep
<1>7. CASE FinishSync
  BY <1>7, FinishStep
<1> QED  BY <1>1, <1>2, <1>3, <1>4, <1>5, <1>6, <1>7 DEF DnsNext

\* What is published follows the declarations and the services: each name has
\* exactly the records of the last dns_update that completed for it
\* (syncServiceDNSBatch), and after a tunnel sync that succeeded the services
\* that run are the ones that are routed and named (syncCloudflareTunnels).
THEOREM ServicesPublished == DnsSpec => []ServicesArePublished
<1>1. DnsInit => DnsInv
  BY DnsInitially
<1>2. DnsInv /\ [DnsNext]_dnsVars => DnsInv'
  BY DnsStep
<1>3. DnsInv => ServicesArePublished
  BY SyncFollows DEF DnsInv, ServicesArePublished
<1> QED  BY <1>1, <1>2, <1>3, PTL DEF DnsSpec
=============================================================================
