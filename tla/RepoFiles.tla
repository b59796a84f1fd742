----------------------------- MODULE RepoFiles ------------------------------
(***************************************************************************)
(* The files of the service repository: the worktree the four write          *)
(* operations change, what git has committed of it, and the rule that an     *)
(* encrypted file (name.enc) and the plaintext file the agents will see in   *)
(* its place (name) exclude each other.                                      *)
(*                                                                         *)
(* Every operation runs under repoMu from its checks to its commit or to the *)
(* restoration of the worktree, so it is one step (RepoSync has the lock).   *)
(* A path is a sequence of segments [base, enc]; the segment with an empty   *)
(* base is a file called ".enc".  A node of the tree is a directory, a       *)
(* symbolic link or a file with its contents.  Paths under .git and paths    *)
(* that leave the repository are refused before anything is touched.         *)
(***************************************************************************)
EXTENDS Naturals, Sequences, FiniteSets, SequencesExt

CONSTANTS TopNames, SubNames,  \* segment bases of the two levels
          Contents             \* contents of files

\* A file is told from a directory and from a link by its mode, not by what it
\* holds.
ASSUME FilesAssumption == {"dir", "link", "gone"} \cap Contents = {}

VARIABLES tree,       \* the worktree: paths to nodes
          committed   \* what HEAD holds: paths to files and links

fileVars == <<tree, committed>>

Plain(n) == [base |-> n, enc |-> FALSE]
Enc(n) == [base |-> n, enc |-> TRUE]
GitKeep == Plain("gitkeep")
NoName == ""

Segments(names) == {Plain(n) : n \in names} \cup {Enc(n) : n \in names}
TopSegments == Segments(TopNames) \cup {Enc(NoName)}
SubSegments == Segments(SubNames) \cup {GitKeep}
RepoPaths ==
  {<<s>> : s \in TopSegments} \cup {<<s, t>> : s \in TopSegments, t \in SubSegments}

\* What users name: the placeholder of a directory is not a name of its own.
NamedPaths == {p \in RepoPaths : Last(p) # GitKeep}

-----------------------------------------------------------------------------
(* Paths                                                                    *)

IsEncryptedFilePath(p) == Last(p).enc
IsValidEncryptedFilePath(p) == Last(p).enc /\ Last(p).base # NoName
HasEncryptedParent(p) == \E i \in 1..(Len(p) - 1) : p[i].enc
RuntimeFilePath(p) == Front(p) \o <<Plain(Last(p).base)>>
EncryptedPath(p) == Front(p) \o <<Enc(Last(p).base)>>
Parents(p) == {SubSeq(p, 1, i) : i \in 1..(Len(p) - 1)}
SameOrChild(p, parent) == IsPrefix(parent, p)

\* The other half of a pair that must not exist together.
EncryptedSiblingPath(p) == IF Last(p).enc THEN RuntimeFilePath(p) ELSE EncryptedPath(p)

\* What a fetched revision, or the tree after a move, must satisfy.
ValidEncryptedFilePaths(paths) ==
  /\ \A p \in paths : ~HasEncryptedParent(p) /\ (p[Len(p)].enc => IsValidEncryptedFilePath(p))
  /\ \A e \in {p \in paths : IsEncryptedFilePath(p)} : \A p \in paths \ {e} :
       ~SameOrChild(p, RuntimeFilePath(e)) /\ ~SameOrChild(RuntimeFilePath(e), p)

-----------------------------------------------------------------------------
(* The worktree                                                             *)

Exists(t, p) == p \in DOMAIN t
IsDir(t, p) == Exists(t, p) /\ t[p] = "dir"
Below(t, p) == {q \in DOMAIN t : SameOrChild(q, p)}
FilesOf(t) == {p \in DOMAIN t : t[p] # "dir"}
TrackedOf(t) == Restrict(t, FilesOf(t))

\* Lstat and symlink checks: every parent that exists is a directory, and the
\* path itself is not a link.
Reachable(t, p) ==
  /\ \A q \in Parents(p) : Exists(t, q) => IsDir(t, q)
  /\ Exists(t, p) => t[p] # "link"

\* MkdirAll of the parents, then the node.
Put(t, p, node) ==
  [q \in DOMAIN t \cup Parents(p) \cup {p} |->
     IF q = p THEN node ELSE IF q \in DOMAIN t THEN t[q] ELSE "dir"]

RemoveAll(t, p) == Restrict(t, DOMAIN t \ Below(t, p))

\* Rename of p with everything below it.
Rebase(q, p, dest) == dest \o SubSeq(q, Len(p) + 1, Len(q))
Moved(t, p, dest) ==
  LET rest == Put(RemoveAll(t, p), dest, t[p])
      news == {Rebase(q, p, dest) : q \in Below(t, p)}
  IN  [q \in DOMAIN rest \cup news |->
         IF q \in news THEN t[Rebase(q, dest, p)] ELSE rest[q]]

\* CapturePath refuses directories with links inside.
Capturable(t, p) == Reachable(t, p) /\ \A q \in Below(t, p) : t[q] # "link"

\* RestorePath: clear the path, and copy back what was captured there.
RestorePath(t, captured, p) ==
  LET cleared == RemoveAll(t, p)
      back == Below(captured, p)
      base == IF back = {} THEN cleared ELSE Put(cleared, p, captured[p])
  IN  [q \in DOMAIN base \cup back |-> IF q \in back THEN captured[q] ELSE base[q]]

\* Mutant: the encrypted siblings of the parents are not looked at.
ConflictOfPathOnly(t, p) == Exists(t, EncryptedSiblingPath(p))

\* An encrypted file conflicts with what stands in its place, a plaintext path
\* with its encrypted sibling and with the encrypted sibling of each parent.
RejectEncryptedFileConflict(t, p) ==
  \/ Exists(t, EncryptedSiblingPath(p))
  \/ ~Last(p).enc /\ \E q \in Parents(p) : Exists(t, EncryptedPath(q))

\* git add -A and commit --only of the given paths.
CommittedPaths(t, paths) ==
  LET keep == {q \in DOMAIN committed : ~\E p \in paths : SameOrChild(q, p)}
      new == {q \in FilesOf(t) : \E p \in paths : SameOrChild(q, p)}
  IN  [q \in keep \cup new |-> IF q \in new THEN t[q] ELSE committed[q]]

CleanWorktree == TrackedOf(tree) = committed

\* Commits the changed tree, or restores the worktree if git fails or reports
\* that nothing changed.
CommitOrRestore(t, paths, restored, gitOk) ==
  LET new == CommittedPaths(t, paths)
  IN  IF gitOk /\ new # committed
        THEN tree' = t /\ committed' = new
        ELSE tree' = restored /\ UNCHANGED committed

-----------------------------------------------------------------------------
(* The operations                                                           *)

\* storedRepoFileContent, ReadFile and WriteFile; what is written to an
\* encrypted path is ciphertext, whose contents stand for the plaintext.
UpdateRepoFile(p, v, gitOk) ==
  LET t == Put(tree, p, v)
      restored == IF Exists(tree, p) THEN Put(t, p, tree[p])
                                     ELSE Restrict(t, DOMAIN t \ {p})
  IN  /\ CleanWorktree
      /\ ~HasEncryptedParent(p) /\ (Last(p).enc => IsValidEncryptedFilePath(p))
      /\ Reachable(tree, p) /\ ~IsDir(tree, p)
      /\ ~RejectEncryptedFileConflict(tree, p)
      /\ CommitOrRestore(t, {p}, restored, gitOk)

\* Len(p) = 1 leaves room for the placeholder within the depth of RepoPaths.
CreateRepoDirectory(p, gitOk) ==
  LET t == Put(Put(tree, p, "dir"), p \o <<GitKeep>>, "empty")
  IN  /\ CleanWorktree
      /\ ~HasEncryptedParent(p) /\ ~Last(p).enc /\ Len(p) = 1
      /\ Reachable(tree, p) /\ ~RejectEncryptedFileConflict(tree, p)
      /\ ~Exists(tree, p)
      /\ CommitOrRestore(t, {p}, RestorePath(t, tree, p), gitOk)

DeleteRepoPath(p, gitOk) ==
  LET t == RemoveAll(tree, p)
  IN  /\ CleanWorktree
      /\ Capturable(tree, p) /\ Exists(tree, p)
      /\ CommitOrRestore(t, {p}, RestorePath(t, tree, p), gitOk)

MoveRepoPath(p, dest, gitOk) ==
  LET t == Moved(tree, p, dest)
  IN  /\ CleanWorktree
      /\ ~HasEncryptedParent(p) /\ ~HasEncryptedParent(dest) /\ p # dest
      /\ Last(p).enc = Last(dest).enc
      /\ Last(p).enc => IsValidEncryptedFilePath(p) /\ IsValidEncryptedFilePath(dest)
      /\ Capturable(tree, p) /\ Capturable(tree, dest)
      /\ Exists(tree, p) /\ ~(IsDir(tree, p) /\ Last(p).enc)
      /\ ~Exists(tree, dest)
      /\ ~Exists(tree, EncryptedSiblingPath(dest))
      /\ DOMAIN t \subseteq RepoPaths
      /\ ~SameOrChild(dest, p)
      /\ ValidEncryptedFilePaths(FilesOf(t))
      /\ CommitOrRestore(t, {p, dest},
                         RestorePath(RestorePath(t, tree, dest), tree, p), gitOk)

\* A fast-forward to a revision that differs in one path.  Git removes the
\* directories it empties and the empty ones in its way.
FastForward(p, node) ==
  LET without == {q \in DOMAIN committed : ~SameOrChild(q, p) /\ q \notin Parents(p)}
      new == IF node = "gone" THEN Restrict(committed, DOMAIN committed \ {p})
             ELSE [q \in without \cup {p} |-> IF q = p THEN node ELSE committed[q]]
      needed == UNION {Parents(q) : q \in DOMAIN new}
      left == {q \in DOMAIN tree : IsDir(tree, q) /\ Below(tree, q) = {q}}
      dirs == (needed \cup left) \ (DOMAIN new \cup UNION {Below(tree, q) : q \in DOMAIN new})
  IN  /\ CleanWorktree /\ new # committed
      /\ ValidEncryptedFilePaths(DOMAIN new)
      /\ committed' = new
      /\ tree' = [q \in DOMAIN new \cup needed \cup dirs |->
                    IF q \in DOMAIN new THEN new[q] ELSE "dir"]

FilesInit == tree = <<>> /\ committed = <<>>

FilesNext ==
  \/ \E p \in NamedPaths, gitOk \in BOOLEAN :
       \/ \E v \in Contents : UpdateRepoFile(p, v, gitOk)
       \/ CreateRepoDirectory(p, gitOk)
       \/ DeleteRepoPath(p, gitOk)
       \/ \E dest \in NamedPaths : MoveRepoPath(p, dest, gitOk)
  \/ \E p \in NamedPaths, node \in Contents \cup {"link", "gone"} : FastForward(p, node)

FilesSpec == FilesInit /\ [][FilesNext]_fileVars

-----------------------------------------------------------------------------
(* Properties                                                               *)

FilesTypeOK ==
  /\ DOMAIN tree \subseteq RepoPaths /\ DOMAIN committed \subseteq RepoPaths

\* Whatever failed, the worktree holds what is committed when an operation has
\* ended: the next write and the next pull are not blocked by leftovers.
WorktreeRestored == CleanWorktree

\* Every node lies in a directory.
TreeIsATree == \A p \in DOMAIN tree : \A q \in Parents(p) : IsDir(tree, q)

\* No plaintext file stands at or below the place where the agents put the
\* plaintext of an encrypted file.
SecretsHaveTheirPlace ==
  \A e \in FilesOf(tree), p \in FilesOf(tree) :
    IsValidEncryptedFilePath(e) /\ ~Last(p).enc => ~SameOrChild(p, RuntimeFilePath(e))

RepoTreeIsSound ==
  FilesTypeOK /\ WorktreeRestored /\ TreeIsATree /\ SecretsHaveTheirPlace
=============================================================================
