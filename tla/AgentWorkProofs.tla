-------------------------- MODULE AgentWorkProofs --------------------------
(***************************************************************************)
(* What an agent does for its controller, in four parts.  The results of     *)
(* its tasks, for any services, data and number of faults: what a task has   *)
(* done when it ends follows from what each of its phases has left behind,   *)
(* so the invariant says, per type of task, what holds at each of its        *)
(* phases.  The queries the controller asks it, for any callers and losses:  *)
(* a query is in one place at a time.  The sessions of its tunnels, for any  *)
(* sessions and streams: what runs has been started once, and what is        *)
(* forgotten is told to end.  And the status of the agent's node, for any    *)
(* intervals and faults: a row is as old as the heartbeats since allow.      *)
(***************************************************************************)
EXTENDS AgentWork, DockerQueries, Tunnels, NodeLiveness, FiniteSetTheorems, TLAPS

-----------------------------------------------------------------------------
(* The invariant *)

Dirs == [rev : Nat, id : Nat]
Projects == [rev : Nat, id : Nat, on : BOOLEAN]
SnapshotRows == [item : DataItems, first : Nat, rest : Nat]
Befores == [on : BOOLEAN, installed : BOOLEAN, generated : [WorkServices -> Nat]]

\* The phases of all tasks, and the two ends.
Phases ==
       {"stage", "clear_bak", "move_old", "activate", "drop_bak", "pull", "compose_up", "caddy_write",
        "finalize", "local_root", "compose_down", "caddy_remove", "verify", "cold_stop", "read_first",
        "read_rest", "clear", "fill", "cold_start", "remove_generated", "write_generated",
        "caddy_reload", "observe", "rustic", "forget", "containers", "networks", "images", "volumes",
        "builder"} \cup AgentTaskTypes
Ats == Phases \cup {"done", "failed"}

Jobs ==
  [type : AgentTaskTypes, service : WorkServices, rev : Nat \ {0}, id : Nat,
   mode : {"auto", "no", "force"}, full : BOOLEAN,
   chosen : [DataItems -> SnapshotRows] \cup {<<>>}, at : Ats,
   verify : SUBSET WorkServices, sources : SUBSET WorkServices, items : SUBSET DataItems,
   item : DataItems \cup {"none"}, copy : Nat, restart : BOOLEAN, error : BOOLEAN,
   cancelled : BOOLEAN, faults : Nat, origin : Ats \cup {"none"}, before : Befores]

Results ==
  [type : AgentTaskTypes, service : WorkServices, rev : Nat \ {0}, mode : {"auto", "no", "force"},
   full : BOOLEAN, result : {"succeeded", "failed"}, before : Befores, origin : Ats \cup {"none"}, faults : Nat]

\* Type invariant of the agent's state.
WorkTypeOK ==
  /\ shape \in Shapes /\ head \in Nat \ {0}
  /\ dir \in [WorkServices -> Dirs] /\ bak \in [WorkServices -> Dirs]
  /\ project \in [WorkServices -> Projects] /\ generated \in [WorkServices -> Nat]
  /\ data \in [DataItems -> Nat]
  /\ snapshots \subseteq SnapshotRows /\ artifacts \subseteq SnapshotRows
  /\ instanceStatus \in [WorkServices -> {"unknown", "running", "stopped", "error"}]
  /\ job \in {NoJob} \cup Jobs
  /\ last \in {NoWork, [result |-> "lost"]} \cup Results
  /\ works \in Nat /\ writes \in Nat /\ workFaults \in Nat

AtWork == job # NoJob
Is(types) == AtWork /\ job.type \in types

PhaseOK ==
  job.at \in {PhasesOf(job.type)[k] : k \in DOMAIN PhasesOf(job.type)} \cup {"done", "failed"}

\* The phase belongs to the task, only a failed task has a phase it failed in,
\* and a cancelled one counts a fault.
PhaseInv ==
  AtWork => /\ PhaseOK
            /\ job.at # "failed" => job.origin = "none"
            /\ job.cancelled => job.faults > 0

\* A service without containers has none.
InfraInv == \A s \in WorkServices : s \in shape.infra => project[s] = NoProject

Upped == {"caddy_write", "finalize", "done"}
Pulled == {"pull", "compose_up"} \cup Upped

\* Deployments and updates: the new directory is in place from its activation,
\* the containers from compose up, the Caddy file from its writing; the old
\* directory is there until it is moved, then its copy.
NewDirectory ==
  /\ job.at \in {"drop_bak"} \cup Pulled => dir[job.service] = [rev |-> job.rev, id |-> job.id]
  /\ job.at \in Pulled => bak[job.service] = NoDir
NewContainers ==
  LET s == job.service
  IN  job.at \in Upped /\ s \notin shape.infra =>
        /\ project[s].on = TRUE /\ project[s].rev = job.rev
        /\ s \in shape.mounts /\ job.mode # "no" => project[s].id = job.id
NewCaddyFile ==
  job.at \in {"finalize", "done"} /\ <<job.service, job.rev>> \in shape.caddy
    => generated[job.service] = job.rev
OldDirectory ==
  job.before.installed =>
    /\ job.at \in {"stage", "clear_bak", "move_old"} => Installed(job.service)
    /\ job.at = "activate" => bak[job.service] # NoDir
    /\ job.at = "failed" /\ job.faults <= 1 => Installed(job.service)
DeployInv ==
  Is({"deploy", "update"}) => NewDirectory /\ NewContainers /\ NewCaddyFile /\ OldDirectory

\* A stop has removed the containers before it removes the Caddy file.
StopInv ==
  Is({"stop"}) => /\ job.at \in {"caddy_remove", "done"} => project[job.service] = NoProject
                  /\ job.at = "done" => generated[job.service] = 0

\* A restart creates the containers of a service that has them anew.
RestartInv ==
  Is({"restart"}) =>
    LET s == job.service
    IN  /\ job.at = "compose_up" => s \notin shape.infra /\ project[s] = NoProject
        /\ job.at = "done" => project[s] = [rev |-> dir[s].rev, id |-> dir[s].id, on |-> TRUE]

ItemPhases == {"read_first", "read_rest", "clear", "fill", "cold_start"}

\* Backups and restores: the project is as it was, except between a stop and
\* the start that is owed for it.
ItemAtHand ==
  /\ job.service = DataService
  /\ job.type = "restore" => job.chosen \in [DataItems -> SnapshotRows]
  /\ job.at \in ItemPhases => job.item \in DataItems
StartOwed ==
  LET s == job.service
  IN  /\ job.restart => job.at \in ItemPhases \cup {"failed"}
      /\ job.restart /\ job.at # "failed" => job.before.on /\ project[s] = NoProject /\ s \notin shape.infra
      /\ ~job.restart /\ job.at # "failed" => Running(s) = job.before.on
      /\ job.at = "failed" /\ (job.origin = "verify" \/ job.faults = 0) => Running(s) = job.before.on
ItemsInv == Is({"backup", "restore"}) => ItemAtHand /\ StartOwed

\* While an item is copied cold from a project that is found, nothing writes.
ColdInv ==
  Is({"backup"}) /\ DataService \in shape.named /\ job.at \in {"read_first", "read_rest"} =>
    (StrategyOf[job.item] = Cold =>
       ~Running(DataService) /\ (job.at = "read_rest" => job.copy = data[job.item]))

\* Backups and restores leave the generated files alone, and a Caddy sync the
\* projects, and the files until all its directories are verified.
GeneratedInv ==
  /\ Is({"backup", "restore"}) => generated = job.before.generated
  /\ Is({"caddy_sync"}) =>
       /\ Running(job.service) = job.before.on
       /\ job.at = "verify" \/ job.origin = "verify" => generated = job.before.generated

CaddyServices(rev) == {s \in WorkServices : <<s, rev>> \in shape.caddy}

\* A full rebuild: every source is verified, then removed, then written.
Verified ==
  /\ job.at = "verify" => \A s \in CaddyServices(job.rev) \ job.verify : dir[s].rev = job.rev
  /\ job.at \in {"verify", "remove_generated"} => job.sources = CaddyServices(job.rev)
  /\ job.at \in {"remove_generated", "write_generated"} =>
       \A s \in CaddyServices(job.rev) : dir[s].rev = job.rev
Rebuilt ==
  /\ job.at = "write_generated" =>
       \A s \in WorkServices :
         /\ s \in CaddyServices(job.rev) \ job.sources => generated[s] = job.rev
         /\ s \notin CaddyServices(job.rev) => generated[s] = 0 /\ s \notin job.sources
  /\ job.at = "done" =>
       \A s \in WorkServices : generated[s] = IF s \in CaddyServices(job.rev) THEN job.rev ELSE 0
RebuildInv == Is({"caddy_sync"}) /\ job.full => Verified /\ Rebuilt

WorkInv ==
  /\ WorkTypeOK /\ PhaseInv /\ InfraInv /\ DeployInv /\ StopInv /\ RestartInv /\ ItemsInv
  /\ ColdInv /\ GeneratedInv /\ RebuildInv /\ AgentWorkIsSound

-----------------------------------------------------------------------------
(* The order of the phases *)

LEMMA NoJobIsNone == NoJob \notin Jobs
  BY DEF NoJob, Jobs

LEMMA AtWorkIsJob ==
  ASSUME WorkTypeOK
  PROVE  AtWork <=> job \in Jobs
  BY NoJobIsNone DEF WorkTypeOK, AtWork

\* The phases of a task being distinct, the one that follows is the next.
LEMMA NextPhase ==
  ASSUME NEW ph, ph = PhasesOf(job.type), NEW n \in Nat, DOMAIN ph = 1..n, Len(ph) = n,
         NEW k \in 1..n, job.at = ph[k], \A j \in 1..n : ph[j] = ph[k] => j = k
  PROVE  Following = IF k = n THEN "done" ELSE ph[k + 1]
<1>1. Position = k
  BY DEF Position
<1> QED  BY <1>1 DEF Following

LEMMA DeployOrder ==
  ASSUME job.type = "deploy", PhaseOK
  PROVE  /\ job.at \in {"stage", "clear_bak", "move_old", "activate", "drop_bak",
                        "compose_up", "caddy_write", "finalize", "done", "failed"}
         /\ job.at = "stage" => Following = "clear_bak"
         /\ job.at = "clear_bak" => Following = "move_old"
         /\ job.at = "move_old" => Following = "activate"
         /\ job.at = "activate" => Following = "drop_bak"
         /\ job.at = "drop_bak" => Following = "compose_up"
         /\ job.at = "compose_up" => Following = "caddy_write"
         /\ job.at = "caddy_write" => Following = "finalize"
         /\ job.at = "finalize" => Following = "done"
<1> DEFINE ph == PhasesOf(job.type)
<1>1. /\ DOMAIN ph = 1..8 /\ Len(ph) = 8 /\ ph[1] = "stage" /\ ph[2] = "clear_bak"
      /\ ph[3] = "move_old" /\ ph[4] = "activate" /\ ph[5] = "drop_bak"
      /\ ph[6] = "compose_up" /\ ph[7] = "caddy_write" /\ ph[8] = "finalize"
  BY DEF PhasesOf
<1> HIDE DEF ph
<1>2. \A k \in 1..8 : k = 1 \/ k = 2 \/ k = 3 \/ k = 4 \/ k = 5 \/ k = 6 \/ k = 7 \/ k = 8
  OBVIOUS
<1>3. \A k, j \in 1..8 : ph[k] = ph[j] => j = k
  BY <1>1, <1>2
<1>4. ASSUME NEW k \in 1..8, job.at = ph[k]
      PROVE  Following = IF k = 8 THEN "done" ELSE ph[k + 1]
  <2>1. ph = PhasesOf(job.type) /\ 8 \in Nat /\ \A j \in 1..8 : ph[j] = ph[k] => j = k
    BY <1>3 DEF ph
  <2> QED  BY <1>1, <1>4, <2>1, NextPhase
<1>5. job.at \in {ph[k] : k \in 1..8} \cup {"done", "failed"}
  BY <1>1 DEF PhaseOK, ph
<1> QED  BY <1>1, <1>2, <1>4, <1>5

LEMMA UpdateOrder ==
  ASSUME job.type = "update", PhaseOK
  PROVE  /\ job.at \in {"stage", "clear_bak", "move_old", "activate", "drop_bak", "pull",
                        "compose_up", "caddy_write", "finalize", "done", "failed"}
         /\ job.at = "stage" => Following = "clear_bak"
         /\ job.at = "clear_bak" => Following = "move_old"
         /\ job.at = "move_old" => Following = "activate"
         /\ job.at = "activate" => Following = "drop_bak"
         /\ job.at = "drop_bak" => Following = "pull"
         /\ job.at = "pull" => Following = "compose_up"
         /\ job.at = "compose_up" => Following = "caddy_write"
         /\ job.at = "caddy_write" => Following = "finalize"
         /\ job.at = "finalize" => Following = "done"
<1> DEFINE ph == PhasesOf(job.type)
<1>1. /\ DOMAIN ph = 1..9 /\ Len(ph) = 9 /\ ph[1] = "stage" /\ ph[2] = "clear_bak"
      /\ ph[3] = "move_old" /\ ph[4] = "activate" /\ ph[5] = "drop_bak" /\ ph[6] = "pull"
      /\ ph[7] = "compose_up" /\ ph[8] = "caddy_write" /\ ph[9] = "finalize"
  BY DEF PhasesOf
<1> HIDE DEF ph
<1>2. \A k \in 1..9 : k = 1 \/ k = 2 \/ k = 3 \/ k = 4 \/ k = 5 \/ k = 6 \/ k = 7 \/ k = 8 \/ k = 9
  OBVIOUS
<1>3. \A k, j \in 1..9 : ph[k] = ph[j] => j = k
  BY <1>1, <1>2
<1>4. ASSUME NEW k \in 1..9, job.at = ph[k]
      PROVE  Following = IF k = 9 THEN "done" ELSE ph[k + 1]
  <2>1. ph = PhasesOf(job.type) /\ 9 \in Nat /\ \A j \in 1..9 : ph[j] = ph[k] => j = k
    BY <1>3 DEF ph
  <2> QED  BY <1>1, <1>4, <2>1, NextPhase
<1>5. job.at \in {ph[k] : k \in 1..9} \cup {"done", "failed"}
  BY <1>1 DEF PhaseOK, ph
<1> QED  BY <1>1, <1>2, <1>4, <1>5

LEMMA StopOrder ==
  ASSUME job.type = "stop", PhaseOK
  PROVE  /\ job.at \in {"local_root", "compose_down", "caddy_remove", "done", "failed"}
         /\ job.at = "local_root" => Following = "compose_down"
         /\ job.at = "compose_down" => Following = "caddy_remove"
         /\ job.at = "caddy_remove" => Following = "done"
<1> DEFINE ph == PhasesOf(job.type)
<1>1. /\ DOMAIN ph = 1..3 /\ Len(ph) = 3 /\ ph[1] = "local_root" /\ ph[2] = "compose_down"
      /\ ph[3] = "caddy_remove"
  BY DEF PhasesOf
<1> HIDE DEF ph
<1>2. \A k \in 1..3 : k = 1 \/ k = 2 \/ k = 3
  OBVIOUS
<1>3. \A k, j \in 1..3 : ph[k] = ph[j] => j = k
  BY <1>1, <1>2
<1>4. ASSUME NEW k \in 1..3, job.at = ph[k]
      PROVE  Following = IF k = 3 THEN "done" ELSE ph[k + 1]
  <2>1. ph = PhasesOf(job.type) /\ 3 \in Nat /\ \A j \in 1..3 : ph[j] = ph[k] => j = k
    BY <1>3 DEF ph
  <2> QED  BY <1>1, <1>4, <2>1, NextPhase
<1>5. job.at \in {ph[k] : k \in 1..3} \cup {"done", "failed"}
  BY <1>1 DEF PhaseOK, ph
<1> QED  BY <1>1, <1>2, <1>4, <1>5

LEMMA RestartOrder ==
  ASSUME job.type = "restart", PhaseOK
  PROVE  /\ job.at \in {"local_root", "compose_down", "compose_up", "done", "failed"}
         /\ job.at = "local_root" => Following = "compose_down"
         /\ job.at = "compose_down" => Following = "compose_up"
         /\ job.at = "compose_up" => Following = "done"
<1> DEFINE ph == PhasesOf(job.type)
<1>1. /\ DOMAIN ph = 1..3 /\ Len(ph) = 3 /\ ph[1] = "local_root" /\ ph[2] = "compose_down"
      /\ ph[3] = "compose_up"
  BY DEF PhasesOf
<1> HIDE DEF ph
<1>2. \A k \in 1..3 : k = 1 \/ k = 2 \/ k = 3
  OBVIOUS
<1>3. \A k, j \in 1..3 : ph[k] = ph[j] => j = k
  BY <1>1, <1>2
<1>4. ASSUME NEW k \in 1..3, job.at = ph[k]
      PROVE  Following = IF k = 3 THEN "done" ELSE ph[k + 1]
  <2>1. ph = PhasesOf(job.type) /\ 3 \in Nat /\ \A j \in 1..3 : ph[j] = ph[k] => j = k
    BY <1>3 DEF ph
  <2> QED  BY <1>1, <1>4, <2>1, NextPhase
<1>5. job.at \in {ph[k] : k \in 1..3} \cup {"done", "failed"}
  BY <1>1 DEF PhaseOK, ph
<1> QED  BY <1>1, <1>2, <1>4, <1>5

LEMMA BackupOrder ==
  ASSUME job.type = "backup", PhaseOK
  PROVE  /\ job.at \in {"verify", "cold_stop", "read_first", "read_rest", "cold_start",
                        "done", "failed"}
         /\ job.at = "verify" => Following = "cold_stop"
         /\ job.at = "cold_stop" => Following = "read_first"
         /\ job.at = "read_first" => Following = "read_rest"
         /\ job.at = "read_rest" => Following = "cold_start"
         /\ job.at = "cold_start" => Following = "done"
<1> DEFINE ph == PhasesOf(job.type)
<1>1. /\ DOMAIN ph = 1..5 /\ Len(ph) = 5 /\ ph[1] = "verify" /\ ph[2] = "cold_stop"
      /\ ph[3] = "read_first" /\ ph[4] = "read_rest" /\ ph[5] = "cold_start"
  BY DEF PhasesOf
<1> HIDE DEF ph
<1>2. \A k \in 1..5 : k = 1 \/ k = 2 \/ k = 3 \/ k = 4 \/ k = 5
  OBVIOUS
<1>3. \A k, j \in 1..5 : ph[k] = ph[j] => j = k
  BY <1>1, <1>2
<1>4. ASSUME NEW k \in 1..5, job.at = ph[k]
      PROVE  Following = IF k = 5 THEN "done" ELSE ph[k + 1]
  <2>1. ph = PhasesOf(job.type) /\ 5 \in Nat /\ \A j \in 1..5 : ph[j] = ph[k] => j = k
    BY <1>3 DEF ph
  <2> QED  BY <1>1, <1>4, <2>1, NextPhase
<1>5. job.at \in {ph[k] : k \in 1..5} \cup {"done", "failed"}
  BY <1>1 DEF PhaseOK, ph
<1> QED  BY <1>1, <1>2, <1>4, <1>5

LEMMA RestoreOrder ==
  ASSUME job.type = "restore", PhaseOK
  PROVE  /\ job.at \in {"verify", "cold_stop", "clear", "fill", "cold_start", "done",
                        "failed"}
         /\ job.at = "verify" => Following = "cold_stop"
         /\ job.at = "cold_stop" => Following = "clear"
         /\ job.at = "clear" => Following = "fill"
         /\ job.at = "fill" => Following = "cold_start"
         /\ job.at = "cold_start" => Following = "done"
<1> DEFINE ph == PhasesOf(job.type)
<1>1. /\ DOMAIN ph = 1..5 /\ Len(ph) = 5 /\ ph[1] = "verify" /\ ph[2] = "cold_stop"
      /\ ph[3] = "clear" /\ ph[4] = "fill" /\ ph[5] = "cold_start"
  BY DEF PhasesOf
<1> HIDE DEF ph
<1>2. \A k \in 1..5 : k = 1 \/ k = 2 \/ k = 3 \/ k = 4 \/ k = 5
  OBVIOUS
<1>3. \A k, j \in 1..5 : ph[k] = ph[j] => j = k
  BY <1>1, <1>2
<1>4. ASSUME NEW k \in 1..5, job.at = ph[k]
      PROVE  Following = IF k = 5 THEN "done" ELSE ph[k + 1]
  <2>1. ph = PhasesOf(job.type) /\ 5 \in Nat /\ \A j \in 1..5 : ph[j] = ph[k] => j = k
    BY <1>3 DEF ph
  <2> QED  BY <1>1, <1>4, <2>1, NextPhase
<1>5. job.at \in {ph[k] : k \in 1..5} \cup {"done", "failed"}
  BY <1>1 DEF PhaseOK, ph
<1> QED  BY <1>1, <1>2, <1>4, <1>5

LEMMA SyncOrder ==
  ASSUME job.type = "caddy_sync", PhaseOK
  PROVE  /\ job.at \in {"verify", "remove_generated", "write_generated", "done", "failed"}
         /\ job.at = "verify" => Following = "remove_generated"
         /\ job.at = "remove_generated" => Following = "write_generated"
         /\ job.at = "write_generated" => Following = "done"
<1> DEFINE ph == PhasesOf(job.type)
<1>1. /\ DOMAIN ph = 1..3 /\ Len(ph) = 3 /\ ph[1] = "verify" /\ ph[2] = "remove_generated"
      /\ ph[3] = "write_generated"
  BY DEF PhasesOf
<1> HIDE DEF ph
<1>2. \A k \in 1..3 : k = 1 \/ k = 2 \/ k = 3
  OBVIOUS
<1>3. \A k, j \in 1..3 : ph[k] = ph[j] => j = k
  BY <1>1, <1>2
<1>4. ASSUME NEW k \in 1..3, job.at = ph[k]
      PROVE  Following = IF k = 3 THEN "done" ELSE ph[k + 1]
  <2>1. ph = PhasesOf(job.type) /\ 3 \in Nat /\ \A j \in 1..3 : ph[j] = ph[k] => j = k
    BY <1>3 DEF ph
  <2> QED  BY <1>1, <1>4, <2>1, NextPhase
<1>5. job.at \in {ph[k] : k \in 1..3} \cup {"done", "failed"}
  BY <1>1 DEF PhaseOK, ph
<1> QED  BY <1>1, <1>2, <1>4, <1>5
\* The phases of any task are a sequence, and what follows a phase is a phase
\* of the task or its end.
LEMMA PhasesAreSeq ==
  ASSUME NEW type \in AgentTaskTypes
  PROVE  PhasesOf(type) \in Seq(Phases) /\ 1 \in DOMAIN PhasesOf(type)
<1>1. CASE type = "deploy"
  BY <1>1 DEF PhasesOf, Phases
<1>2. CASE type = "update"
  BY <1>2 DEF PhasesOf, Phases
<1>3. CASE type = "stop"
  BY <1>3 DEF PhasesOf, Phases
<1>4. CASE type = "restart"
  BY <1>4 DEF PhasesOf, Phases
<1>5. CASE type = "backup"
  BY <1>5 DEF PhasesOf, Phases
<1>6. CASE type = "restore"
  BY <1>6 DEF PhasesOf, Phases
<1>7. CASE type = "caddy_sync"
  BY <1>7 DEF PhasesOf, Phases
<1>8. CASE type = "caddy_reload"
  BY <1>8 DEF PhasesOf, Phases
<1>9. CASE type = "image_check"
  BY <1>9 DEF PhasesOf, Phases
<1>10. CASE type = "rustic_init"
  BY <1>10 DEF PhasesOf, Phases
<1>11. CASE type = "rustic_prune"
  BY <1>11 DEF PhasesOf, Phases
<1>12. CASE type = "rustic_forget"
  BY <1>12 DEF PhasesOf, Phases
<1>13. CASE type = "prune"
  BY <1>13 DEF PhasesOf, Phases, PrunePhases
<1>14. CASE type \notin {"deploy", "update", "stop", "restart", "backup", "restore", "caddy_sync",
                        "caddy_reload", "image_check", "rustic_init", "rustic_prune",
                        "rustic_forget", "prune"}
  <2>1. PhasesOf(type) = <<type>>
    BY <1>14 DEF PhasesOf
  <2>2. type \in Phases
    BY DEF Phases
  <2> QED  BY <2>1, <2>2
<1> QED
  BY <1>1, <1>2, <1>3, <1>4, <1>5, <1>6, <1>7, <1>8, <1>9, <1>10, <1>11, <1>12, <1>13, <1>14

LEMMA FollowingIsPhase ==
  ASSUME job \in Jobs, PhaseOK, job.at \notin {"done", "failed"}
  PROVE  /\ Following \in Ats /\ Following # "failed"
         /\ Following \in {PhasesOf(job.type)[k] : k \in DOMAIN PhasesOf(job.type)} \cup {"done"}
<1> DEFINE ph == PhasesOf(job.type)
<1>1. ph \in Seq(Phases) /\ Len(ph) \in Nat /\ DOMAIN ph = 1..Len(ph)
  BY PhasesAreSeq DEF Jobs
<1>2. Position \in DOMAIN ph /\ ph[Position] = job.at
  BY DEF PhaseOK, Position
<1> HIDE DEF ph
<1>3. Following = IF Position = Len(ph) THEN "done" ELSE ph[Position + 1]
  BY DEF Following, ph
<1>4. Position # Len(ph) => Position + 1 \in DOMAIN ph
  BY <1>1, <1>2
<1>5. Position # Len(ph) => ph[Position + 1] \in Phases
  BY <1>1, <1>4
<1>6. "failed" \notin Phases
  BY DEF Phases, AgentTaskTypes
<1> QED  BY <1>3, <1>4, <1>5, <1>6 DEF Ats, ph

-----------------------------------------------------------------------------
(* What a step does to the task at work *)

\* The task stays the one it is.
SameTask ==
  /\ job' \in Jobs /\ job'.type = job.type /\ job'.service = job.service /\ job'.rev = job.rev
  /\ job'.id = job.id /\ job'.mode = job.mode /\ job'.full = job.full /\ job'.chosen = job.chosen
  /\ job'.before = job.before
\* Neither its sets of work nor the item at hand change.
SameItem ==
  /\ job'.verify = job.verify /\ job'.sources = job.sources /\ job'.items = job.items
  /\ job'.item = job.item /\ job'.copy = job.copy /\ job'.restart = job.restart
  /\ job'.error = job.error
SameFaults ==
  job'.cancelled = job.cancelled /\ job'.faults = job.faults

\* The phase succeeds, fails, or is refused.
Advances == SameTask /\ SameItem /\ SameFaults /\ job'.origin = job.origin /\ job'.at = Following
Ends == SameTask /\ SameItem /\ job'.at = "failed" /\ job'.origin = job.at /\ job'.cancelled = job.cancelled
Broken == Ends /\ job'.faults > 0
Refused == Ends /\ job'.faults = job.faults

\* A task between its beginning and its end.
AtPhase ==
  /\ job \in Jobs /\ PhaseOK /\ job.at \notin {"done", "failed"}
  /\ job.origin = "none" /\ (job.cancelled => job.faults > 0)

LEMMA GoOnIs ==
  ASSUME AtPhase, GoOn
  PROVE  Advances /\ workFaults' = workFaults
<1>1. Following \in Ats
  BY FollowingIsPhase DEF AtPhase
<1> QED  BY <1>1 DEF AtPhase, GoOn, Advances, SameTask, SameItem, SameFaults, Jobs

LEMMA AbortIs ==
  ASSUME AtPhase, Abort
  PROVE  Broken
<1>1. FaultsOf \in Nat /\ FaultsOf > 0
  BY DEF AtPhase, FaultsOf, Jobs
<1> HIDE DEF FaultsOf
<1> QED  BY <1>1 DEF AtPhase, Abort, Broken, Ends, SameTask, SameItem, Jobs, Ats

LEMMA RefuseIs ==
  ASSUME AtPhase, Refuse
  PROVE  Refused /\ workFaults' = workFaults
  BY DEF AtPhase, Refuse, Refused, Ends, SameTask, SameItem, Jobs, Ats

LEMMA BreaksIs ==
  ASSUME workFaults \in Nat, Breaks \/ FileFault
  PROVE  workFaults' \in Nat /\ workFaults' >= workFaults
  BY DEF Breaks, FileFault

\* An error of an item, which is kept until the project is started again.
ItemEnds ==
  /\ SameTask /\ job'.at = "cold_start" /\ job'.error /\ job'.origin = job.origin
  /\ job'.verify = job.verify /\ job'.sources = job.sources /\ job'.items = job.items
  /\ job'.item = job.item /\ job'.copy = job.copy /\ job'.restart = job.restart
  /\ job'.cancelled = job.cancelled /\ job'.faults >= job.faults

LEMMA ItemFailsIs ==
  ASSUME AtPhase, workFaults \in Nat, ItemFails \/ ItemRefused
  PROVE  ItemEnds /\ workFaults' \in Nat
<1>1. FaultsOf \in Nat /\ FaultsOf >= job.faults /\ job.faults \in Nat
  BY DEF AtPhase, FaultsOf, Jobs
<1>2. CASE ItemFails
  <2>1. workFaults' \in Nat
    BY <1>2, BreaksIs DEF ItemFails
  <2>2. job' = [job EXCEPT !.at = "cold_start", !.error = TRUE, !.faults = FaultsOf]
    BY <1>2 DEF ItemFails
  <2> HIDE DEF FaultsOf
  <2> QED  BY <1>1, <2>1, <2>2 DEF AtPhase, ItemEnds, SameTask, Jobs, Ats, Phases
<1>3. CASE ItemRefused
  <2>1. workFaults' \in Nat /\ job' = [job EXCEPT !.at = "cold_start", !.error = TRUE]
    BY <1>3 DEF ItemRefused
  <2>2. SameTask /\ job'.faults = job.faults
    BY <2>1 DEF AtPhase, SameTask, Jobs, Ats, Phases
  <2>3. /\ job'.at = "cold_start" /\ job'.error = TRUE /\ job'.origin = job.origin
        /\ job'.verify = job.verify /\ job'.sources = job.sources /\ job'.items = job.items
        /\ job'.item = job.item /\ job'.copy = job.copy /\ job'.restart = job.restart
        /\ job'.cancelled = job.cancelled
    BY <2>1 DEF AtPhase, Jobs
  <2>4. job'.faults >= job.faults
    BY <1>1, <2>2
  <2> QED  BY <2>1, <2>2, <2>3, <2>4 DEF ItemEnds
<1> QED  BY <1>2, <1>3

\* Whatever a phase did, the task remains in order.
LEMMA PhaseKept ==
  ASSUME AtPhase, Advances \/ Broken \/ Refused
  PROVE  job' \in Jobs /\ PhaseInv'
<1>1. job' \in Jobs /\ job'.type = job.type
  BY DEF Advances, Broken, Refused, Ends, SameTask
<1>2. CASE Advances
  <2>1. /\ Following # "failed"
        /\ Following \in {PhasesOf(job.type)[k] : k \in DOMAIN PhasesOf(job.type)} \cup {"done"}
    BY FollowingIsPhase DEF AtPhase
  <2> QED  BY <1>1, <1>2, <2>1 DEF AtPhase, Advances, SameFaults, PhaseInv, PhaseOK
<1>3. CASE Broken \/ Refused
  BY <1>1, <1>3 DEF AtPhase, Broken, Refused, Ends, PhaseInv, PhaseOK
<1> QED  BY <1>2, <1>3

\* The phases of the other tasks.
OtherPhases ==
  {"local_root", "caddy_reload", "verify", "observe", "rustic", "forget", "containers", "networks",
   "images", "volumes", "builder", "docker_start", "docker_stop", "docker_restart",
   "docker_remove_container", "docker_remove_network",
   "docker_remove_volume", "docker_remove_image"}
OtherTypes == AgentTaskTypes \ {"deploy", "update", "stop", "restart", "backup", "restore", "caddy_sync"}

LEMMA OtherOrder ==
  ASSUME job.type \in OtherTypes, PhaseOK
  PROVE  job.at \in OtherPhases \cup {"done", "failed"}
<1> DEFINE type == job.type
<1>0. SUFFICES PhasesOf(type) \in Seq(OtherPhases)
  BY DEF PhaseOK
<1>1. CASE type = "caddy_reload"
  BY <1>1 DEF PhasesOf, OtherPhases
<1>2. CASE type = "image_check"
  BY <1>2 DEF PhasesOf, OtherPhases
<1>3. CASE type = "rustic_init"
  BY <1>3 DEF PhasesOf, OtherPhases
<1>4. CASE type = "rustic_prune"
  BY <1>4 DEF PhasesOf, OtherPhases
<1>5. CASE type = "rustic_forget"
  BY <1>5 DEF PhasesOf, OtherPhases
<1>6. CASE type = "prune"
  BY <1>6 DEF PhasesOf, OtherPhases, PrunePhases
<1>7. CASE type \notin {"caddy_reload", "image_check", "rustic_init", "rustic_prune", "rustic_forget",
                        "prune"}
  <2>1. PhasesOf(type) = <<type>>
    BY <1>7 DEF PhasesOf, OtherTypes
  <2>2. type \in OtherPhases
    BY <1>7 DEF OtherTypes, AgentTaskTypes, OtherPhases
  <2> QED  BY <2>1, <2>2
<1> QED  BY <1>1, <1>2, <1>3, <1>4, <1>5, <1>6, <1>7

\* Which tasks have a phase.
LEMMA TypeOfPhase ==
  ASSUME job \in Jobs, PhaseOK
  PROVE  /\ job.at \in {"stage", "clear_bak", "move_old", "activate", "drop_bak", "pull", "caddy_write",
                       "finalize"} => job.type \in {"deploy", "update"}
         /\ job.at = "compose_up" => job.type \in {"deploy", "update", "restart"}
         /\ job.at = "compose_down" => job.type \in {"stop", "restart"}
         /\ job.at = "caddy_remove" => job.type = "stop"
         /\ job.at \in {"cold_stop", "cold_start"} => job.type \in {"backup", "restore"}
         /\ job.at \in {"read_first", "read_rest"} => job.type = "backup"
         /\ job.at \in {"clear", "fill"} => job.type = "restore"
         /\ job.at \in {"remove_generated", "write_generated"} => job.type = "caddy_sync"
<1>1. CASE job.type = "deploy"
  BY <1>1, DeployOrder
<1>2. CASE job.type = "update"
  BY <1>2, UpdateOrder
<1>3. CASE job.type = "stop"
  BY <1>3, StopOrder
<1>4. CASE job.type = "restart"
  BY <1>4, RestartOrder
<1>5. CASE job.type = "backup"
  BY <1>5, BackupOrder
<1>6. CASE job.type = "restore"
  BY <1>6, RestoreOrder
<1>7. CASE job.type = "caddy_sync"
  BY <1>7, SyncOrder
<1>8. CASE job.type \in OtherTypes
  BY <1>8, OtherOrder DEF OtherPhases
<1> QED  BY <1>1, <1>2, <1>3, <1>4, <1>5, <1>6, <1>7, <1>8 DEF Jobs, OtherTypes

LEMMA PhaseIsWork ==
  ASSUME WorkTypeOK, PhaseInv, job.at \notin {"idle", "done", "failed"}
  PROVE  AtPhase
<1>1. job \in Jobs /\ AtWork
  BY AtWorkIsJob DEF WorkTypeOK, NoJob
<1> QED  BY <1>1 DEF PhaseInv, AtPhase

\* The outcomes of most phases.
Usual == \/ GoOn \/ Proceed \/ Fails \/ Refuse \/ (FileFault /\ Abort)

LEMMA UsualIs ==
  ASSUME AtPhase, workFaults \in Nat, Usual
  PROVE  /\ Advances \/ Broken \/ Refused
         /\ job' \in Jobs /\ PhaseInv' /\ workFaults' \in Nat
<1>1. Advances \/ Broken \/ Refused
  BY GoOnIs, AbortIs, RefuseIs DEF Usual, Proceed, Fails
<1>2. workFaults' \in Nat
  BY GoOnIs, RefuseIs, BreaksIs DEF Usual, Proceed, Fails
<1> QED  BY <1>1, <1>2, PhaseKept

-----------------------------------------------------------------------------
(* The phases that work through a set *)

\* A directory is found to match.
OneVerified(s) ==
  /\ SameTask /\ SameFaults /\ job'.at = job.at /\ job'.origin = job.origin
  /\ job'.verify = job.verify \ {s} /\ job'.sources = job.sources /\ job'.items = job.items
  /\ job'.item = job.item /\ job'.copy = job.copy /\ job'.restart = job.restart
\* A Caddy file is written.
OneWritten(s) ==
  /\ SameTask /\ SameFaults /\ job'.at = job.at /\ job'.origin = job.origin
  /\ job'.verify = job.verify /\ job'.sources = job.sources \ {s} /\ job'.items = job.items
  /\ job'.item = job.item /\ job'.copy = job.copy /\ job'.restart = job.restart
\* An item is begun, and a start of the project is owed or not.
ItemBegins(i, owed) ==
  /\ SameTask /\ SameFaults /\ job'.at = Following /\ job'.origin = job.origin
  /\ job'.item = i /\ job'.restart = owed
\* The first part of an item is read.
ItemRead(x) ==
  /\ SameTask /\ SameFaults /\ job'.at = Following /\ job'.origin = job.origin
  /\ job'.item = job.item /\ job'.restart = job.restart /\ job'.copy = x
\* An item is done.
ItemDone(at) ==
  /\ SameTask /\ SameFaults /\ job'.at = at /\ job'.origin = job.origin /\ job'.restart = FALSE

LEMMA OneVerifiedIs ==
  ASSUME AtPhase, NEW s \in job.verify, job' = [job EXCEPT !.verify = @ \ {s}]
  PROVE  OneVerified(s)
  BY DEF AtPhase, OneVerified, SameTask, SameFaults, Jobs

LEMMA OneWrittenIs ==
  ASSUME AtPhase, NEW s \in job.sources, job' = [job EXCEPT !.sources = @ \ {s}]
  PROVE  OneWritten(s)
  BY DEF AtPhase, OneWritten, SameTask, SameFaults, Jobs

LEMMA ItemBeginsIs ==
  ASSUME AtPhase, NEW i \in DataItems
  PROVE  /\ job' = [job EXCEPT !.at = Following, !.item = i] => ItemBegins(i, job.restart)
         /\ job' = [job EXCEPT !.at = Following, !.item = i, !.restart = TRUE] => ItemBegins(i, TRUE)
<1>1. Following \in Ats
  BY FollowingIsPhase DEF AtPhase
<1>2. ASSUME job' = [job EXCEPT !.at = Following, !.item = i] PROVE ItemBegins(i, job.restart)
  BY <1>1, <1>2 DEF AtPhase, ItemBegins, SameTask, SameFaults, Jobs
<1>3. ASSUME job' = [job EXCEPT !.at = Following, !.item = i, !.restart = TRUE] PROVE ItemBegins(i, TRUE)
  BY <1>1, <1>3 DEF AtPhase, ItemBegins, SameTask, SameFaults, Jobs
<1> QED  BY <1>2, <1>3

LEMMA ItemReadIs ==
  ASSUME AtPhase, NEW x \in Nat, job' = [job EXCEPT !.at = Following, !.copy = x]
  PROVE  ItemRead(x)
<1>1. Following \in Ats
  BY FollowingIsPhase DEF AtPhase
<1> QED  BY <1>1 DEF AtPhase, ItemRead, SameTask, SameFaults, Jobs

LEMMA ItemDoneIs ==
  ASSUME AtPhase, NEW at \in Ats,
         job' = [job EXCEPT !.at = at, !.items = job.items \ {job.item}, !.item = "none",
                            !.copy = 0, !.restart = FALSE]
  PROVE  ItemDone(at)
  BY DEF AtPhase, ItemDone, SameTask, SameFaults, Jobs

\* A cancelled start of the project: the task fails.
LEMMA ColdStartCancelled ==
  ASSUME AtPhase, job.cancelled, job' = [job EXCEPT !.at = "failed", !.origin = "cold_start"],
         job.at = "cold_start"
  PROVE  Broken
  BY DEF AtPhase, Broken, Ends, SameTask, SameItem, Jobs, Ats

\* A disk that fails twice while the new directory is activated.
LEMMA ActivateTwice ==
  ASSUME AtPhase, job' = [job EXCEPT !.at = "failed", !.origin = job.at, !.faults = @ + 2]
  PROVE  Broken /\ job'.faults > 1
<1>1. job.faults + 2 \in Nat /\ job.faults + 2 > 1
  BY DEF AtPhase, Jobs
<1>2. PICK x \in Nat : x = job.faults + 2
  BY <1>1
<1>3. job' = [job EXCEPT !.at = "failed", !.origin = job.at, !.faults = x]
  BY <1>2
<1>4. SameTask /\ job'.faults = x
  BY <1>2, <1>3 DEF AtPhase, SameTask, Jobs, Ats
<1>5. SameItem /\ job'.at = "failed" /\ job'.origin = job.at /\ job'.cancelled = job.cancelled
  BY <1>3 DEF AtPhase, SameItem, Jobs
<1>6. x > 1 /\ x > 0
  BY <1>1, <1>2
<1> QED  BY <1>4, <1>5, <1>6 DEF Broken, Ends

\* The task remains in order, as after any other phase.
LEMMA InOrder ==
  ASSUME AtPhase, SameTask, SameFaults, job'.origin = job.origin, job'.at \in {job.at, Following}
  PROVE  job' \in Jobs /\ PhaseInv'
<1>1. /\ Following # "failed"
      /\ Following \in {PhasesOf(job.type)[k] : k \in DOMAIN PhasesOf(job.type)} \cup {"done"}
  BY FollowingIsPhase DEF AtPhase
<1>2. job' \in Jobs /\ job'.type = job.type
  BY DEF SameTask
<1>3. PhaseOK'
  BY <1>1, <1>2 DEF AtPhase, PhaseOK
<1> QED  BY <1>1, <1>2, <1>3 DEF AtPhase, SameFaults, PhaseInv

-----------------------------------------------------------------------------
(* Types *)

LEMMA Blanks == NoDir \in Dirs /\ NoProject \in Projects /\ NoProject.on = FALSE
  BY DEF NoDir, Dirs, NoProject, Projects

\* What docker compose up leaves of a service.
LEMMA AfterUpIs ==
  ASSUME WorkTypeOK, NEW s \in WorkServices, NEW force \in BOOLEAN
  PROVE  /\ AfterUp(s, force) \in Projects /\ AfterUp(s, force).on = TRUE
         /\ AfterUp(s, force).rev = dir[s].rev
         /\ force \/ project[s] = NoProject =>
              AfterUp(s, force) = [rev |-> dir[s].rev, id |-> dir[s].id, on |-> TRUE]
<1>1. dir[s] \in Dirs /\ project[s] \in Projects
  BY DEF WorkTypeOK
<1> DEFINE fresh == [rev |-> dir[s].rev, id |-> dir[s].id, on |-> TRUE]
<1>2. fresh \in Projects /\ fresh.on = TRUE /\ fresh.rev = dir[s].rev
  BY <1>1 DEF Dirs, Projects
<1>3. /\ [project[s] EXCEPT !.on = TRUE] \in Projects /\ [project[s] EXCEPT !.on = TRUE].on = TRUE
      /\ [project[s] EXCEPT !.on = TRUE].rev = project[s].rev
  BY <1>1 DEF Projects
<1> HIDE DEF fresh
<1>4. AfterUp(s, force) = IF force \/ project[s] = NoProject \/ project[s].rev # dir[s].rev
                            THEN fresh ELSE [project[s] EXCEPT !.on = TRUE]
  BY DEF AfterUp, fresh
<1> QED  BY <1>2, <1>3, <1>4 DEF fresh

\* Everything but the task at work and the count of faults is left alone.
Quiet == UNCHANGED <<shape, head, dir, bak, project, generated, dataVars, instanceStatus, last, works>>

LEMMA QuietTypes ==
  ASSUME WorkTypeOK, Quiet, job' \in {NoJob} \cup Jobs, workFaults' \in Nat
  PROVE  WorkTypeOK'
  BY DEF WorkTypeOK, Quiet, dataVars

LEMMA InitTypes == WorkInit => WorkTypeOK /\ PhaseInv
<1> SUFFICES ASSUME WorkInit PROVE WorkTypeOK /\ PhaseInv
  OBVIOUS
<1>1. /\ shape \in Shapes /\ head \in Nat \ {0} /\ bak \in [WorkServices -> Dirs]
      /\ data \in [DataItems -> Nat] /\ job = NoJob /\ last = NoWork
      /\ works \in Nat /\ writes \in Nat /\ workFaults \in Nat
  BY Blanks DEF WorkInit
<1>2. snapshots \subseteq SnapshotRows /\ artifacts \subseteq SnapshotRows
  <2>1. \A i \in DataItems : [item |-> i, first |-> 1, rest |-> 1] \in SnapshotRows
    BY DEF SnapshotRows
  <2> QED  BY <2>1 DEF WorkInit
<1>3. dir \in [WorkServices -> Dirs]
  <2>1. [rev |-> 1, id |-> 1] \in Dirs
    BY DEF Dirs
  <2> QED  BY <2>1, Blanks DEF WorkInit
<1>4. project \in [WorkServices -> Projects]
  <2>1. [rev |-> 1, id |-> 1, on |-> TRUE] \in Projects
    BY DEF Projects
  <2> QED  BY <2>1, Blanks DEF WorkInit
<1>5. generated \in [WorkServices -> Nat]
  <2>1. \/ generated = [s \in WorkServices |-> 0]
        \/ generated = [s \in WorkServices |-> IF <<s, 1>> \in shape.caddy THEN 1 ELSE 0]
    BY DEF WorkInit
  <2> DEFINE at1(s) == IF <<s, 1>> \in shape.caddy THEN 1 ELSE 0
  <2>2. \A s \in WorkServices : at1(s) \in Nat
    OBVIOUS
  <2> HIDE DEF at1
  <2>3. [s \in WorkServices |-> at1(s)] \in [WorkServices -> Nat]
    BY <2>2
  <2>4. CASE generated = [s \in WorkServices |-> 0]
    BY <2>4
  <2> QED  BY <2>1, <2>3, <2>4 DEF at1
<1>6. instanceStatus \in [WorkServices -> {"unknown", "running", "stopped", "error"}]
  BY DEF WorkInit
<1> QED  BY <1>1, <1>2, <1>3, <1>4, <1>5, <1>6 DEF WorkTypeOK, PhaseInv, AtWork

\* The task that is begun.
Begins(type, s) ==
  /\ AtWork' /\ job' \in Jobs /\ job'.type = type /\ job'.service = s /\ job'.rev = head
  /\ job'.at = PhasesOf(type)[1] /\ job'.restart = FALSE /\ job'.origin = "none"
  /\ job'.cancelled = FALSE /\ job'.before.on = Running(s) /\ job'.before.installed = Installed(s)
  /\ job'.before.generated = generated
  /\ type \in {"backup", "restore"} => s = DataService
  /\ type = "restore" => job'.chosen \in [DataItems -> SnapshotRows]
  /\ job'.full => type = "caddy_sync" /\ job'.sources = CaddyServices(head) /\ job'.verify = job'.sources

LEMMA StartWorkIs ==
  ASSUME WorkTypeOK, NEW type \in WorkTypes, NEW s \in WorkServices, StartWork(type, s)
  PROVE  Begins(type, s)
<1>0. type \in AgentTaskTypes /\ shape.rustic \in WorkServices
  BY WorkAssumption DEF WorkTypeOK
<1>1. PICK mode \in IF type \in {"deploy", "update"} THEN {"auto", "no", "force"} ELSE {"auto"},
           full \in IF type = "caddy_sync" THEN BOOLEAN ELSE {FALSE},
           chosen \in IF type = "restore" THEN {f \in [DataItems -> artifacts] :
                                                  \A i \in DataItems : f[i].item = i}
                      ELSE {<<>>} :
        LET sources == IF full THEN {x \in WorkServices : <<x, head>> \in shape.caddy} ELSE {s}
        IN  job' = [type |-> type, service |-> s, rev |-> head, id |-> works + 1,
                    mode |-> mode, full |-> full, chosen |-> chosen,
                    at |-> PhasesOf(type)[1],
                    verify |-> VerifiedDirs(type, s, sources), sources |-> sources,
                    items |-> IF type \in {"backup", "restore"} THEN DataItems ELSE {},
                    item |-> "none", copy |-> 0, restart |-> FALSE, error |-> FALSE,
                    cancelled |-> FALSE, faults |-> 0, origin |-> "none",
                    before |-> [on |-> Running(s), installed |-> Installed(s),
                                generated |-> generated]]
  BY Zenon DEF StartWork
<1> DEFINE sources == IF full THEN {x \in WorkServices : <<x, head>> \in shape.caddy} ELSE {s}
           verify == VerifiedDirs(type, s, sources)
           items == IF type \in {"backup", "restore"} THEN DataItems ELSE {}
<1>2. Running(s) \in BOOLEAN /\ Installed(s) \in BOOLEAN
  BY DEF WorkTypeOK, Running, Installed, Projects
<1>3. /\ sources \subseteq WorkServices /\ verify \subseteq WorkServices /\ items \subseteq DataItems
      /\ chosen \in [DataItems -> SnapshotRows] \cup {<<>>}
      /\ PhasesOf(type)[1] \in Ats /\ works + 1 \in Nat
      /\ full \in BOOLEAN /\ mode \in {"auto", "no", "force"}
  <2>1. sources \subseteq WorkServices
    OBVIOUS
  <2>2. verify \subseteq WorkServices
    BY <1>0, <2>1 DEF VerifiedDirs
  <2>3. chosen \in [DataItems -> SnapshotRows] \cup {<<>>}
    BY DEF WorkTypeOK
  <2>4. PhasesOf(type) \in Seq(Phases) /\ 1 \in DOMAIN PhasesOf(type)
    BY <1>0, PhasesAreSeq
  <2>5. PhasesOf(type)[1] \in Ats
    BY <2>4 DEF Ats
  <2>6. items \subseteq DataItems /\ full \in BOOLEAN /\ mode \in {"auto", "no", "force"}
    OBVIOUS
  <2>7. works + 1 \in Nat
    BY DEF WorkTypeOK
  <2> QED  BY <2>1, <2>2, <2>3, <2>5, <2>6, <2>7
<1>7. /\ full => verify = sources /\ sources = CaddyServices(head) /\ type = "caddy_sync"
      /\ type = "restore" => chosen \in [DataItems -> SnapshotRows]
  BY DEF VerifiedDirs, CaddyServices, WorkTypeOK
<1>8. job' = [type |-> type, service |-> s, rev |-> head, id |-> works + 1,
              mode |-> mode, full |-> full, chosen |-> chosen,
              at |-> PhasesOf(type)[1], verify |-> verify, sources |-> sources,
              items |-> items, item |-> "none", copy |-> 0, restart |-> FALSE, error |-> FALSE,
              cancelled |-> FALSE, faults |-> 0, origin |-> "none",
              before |-> [on |-> Running(s), installed |-> Installed(s), generated |-> generated]]
  BY <1>1
<1> HIDE DEF sources, verify, items
<1>4. [on |-> Running(s), installed |-> Installed(s), generated |-> generated] \in Befores
  BY <1>2 DEF Befores, WorkTypeOK
<1>5. job' \in Jobs
  BY <1>0, <1>3, <1>4, <1>8 DEF Jobs, WorkTypeOK
<1>6. AtWork'
  BY <1>5, NoJobIsNone DEF AtWork
<1>9. type \in {"backup", "restore"} => s = DataService
  BY DEF StartWork
<1> QED  BY <1>5, <1>6, <1>7, <1>8, <1>9 DEF Begins

\* The outcomes of a phase that may only write what is named.
LEMMA UsualTypes ==
  ASSUME WorkTypeOK, PhaseInv, job.at \notin {"idle", "done", "failed"}, Usual,
         UNCHANGED <<shape, head, instanceStatus, last, works, writes>>,
         dir' \in [WorkServices -> Dirs], bak' \in [WorkServices -> Dirs],
         project' \in [WorkServices -> Projects], generated' \in [WorkServices -> Nat],
         data' \in [DataItems -> Nat], snapshots' \subseteq SnapshotRows, artifacts' \subseteq SnapshotRows
  PROVE  WorkTypeOK' /\ PhaseInv'
<1>1. job' \in Jobs /\ PhaseInv' /\ workFaults' \in Nat
  BY PhaseIsWork, UsualIs DEF WorkTypeOK
<1> QED  BY <1>1 DEF WorkTypeOK

\* The same for any step after which the task is in order.
LEMMA OrderTypes ==
  ASSUME WorkTypeOK, job' \in Jobs, PhaseInv', workFaults' \in Nat,
         UNCHANGED <<shape, head, dir, bak, generated, instanceStatus, last, works, writes>>,
         project' \in [WorkServices -> Projects],
         data' \in [DataItems -> Nat], snapshots' \subseteq SnapshotRows, artifacts' \subseteq SnapshotRows
  PROVE  WorkTypeOK' /\ PhaseInv'
  BY DEF WorkTypeOK

LEMMA InstallTypes ==
  ASSUME WorkTypeOK, PhaseInv,
         StageBundle \/ RemoveOldBackup \/ MoveOldAway \/ ActivateStaged \/ DropBackup
  PROVE  WorkTypeOK' /\ PhaseInv'
<1> USE DEF dataVars, installedVars, At
<1>0. AtPhase /\ job.at \notin {"idle", "done", "failed"} /\ job.service \in WorkServices
  BY PhaseIsWork DEF StageBundle, RemoveOldBackup, MoveOldAway, ActivateStaged, DropBackup, AtPhase, Jobs
<1>1. NoDir \in Dirs /\ dir[job.service] \in Dirs /\ bak[job.service] \in Dirs
      /\ [rev |-> job.rev, id |-> job.id] \in Dirs
  BY <1>0, Blanks DEF WorkTypeOK, AtPhase, Jobs, Dirs
<1>2. CASE StageBundle
  BY <1>0, <1>2, UsualTypes DEF StageBundle, WorkTypeOK, Usual
<1>3. CASE RemoveOldBackup
  BY <1>0, <1>1, <1>3, UsualTypes DEF RemoveOldBackup, WorkTypeOK, Usual
<1>4. CASE MoveOldAway
  BY <1>0, <1>1, <1>4, UsualTypes DEF MoveOldAway, WorkTypeOK, Usual
<1>5. CASE DropBackup
  BY <1>0, <1>1, <1>5, UsualTypes DEF DropBackup, WorkTypeOK, Usual
<1>6. CASE ActivateStaged
  <2>0. /\ UNCHANGED <<shape, head, project, generated, data, snapshots, artifacts, writes, instanceStatus,
                       last, works>>
        /\ dir' \in [WorkServices -> Dirs] /\ bak' \in [WorkServices -> Dirs]
    BY <1>0, <1>1, <1>6 DEF ActivateStaged, PutBack, WorkTypeOK
  <2>1. CASE Usual
    BY <1>0, <2>0, <2>1, UsualTypes DEF WorkTypeOK
  <2>2. CASE FileFault /\ job' = [job EXCEPT !.at = "failed", !.origin = job.at, !.faults = @ + 2]
    <3>1. Broken
      BY <1>0, <2>2, ActivateTwice
    <3>2. job' \in Jobs /\ PhaseInv' /\ workFaults' \in Nat
      BY <1>0, <2>2, <3>1, PhaseKept, BreaksIs DEF WorkTypeOK
    <3> QED  BY <2>0, <3>2 DEF WorkTypeOK
  <2> QED  BY <1>6, <2>1, <2>2 DEF ActivateStaged, Usual
<1> QED  BY <1>2, <1>3, <1>4, <1>5, <1>6

LEMMA PruneTypes ==
  ASSUME WorkTypeOK, PhaseInv, PruneContainers \/ RemoveVolumes
  PROVE  WorkTypeOK' /\ PhaseInv'
<1> USE DEF dataVars, At
<1>0. job.at \notin {"idle", "done", "failed"} /\ Usual
  BY DEF PruneContainers, RemoveVolumes, Usual
<1>1. CASE PruneContainers
  <2>1. project' \in [WorkServices -> Projects]
    <3> DEFINE pruned(s) == IF Running(s) THEN project[s] ELSE NoProject
    <3>1. \A s \in WorkServices : pruned(s) \in Projects
      BY Blanks DEF WorkTypeOK
    <3> HIDE DEF pruned
    <3>2. project' \in {project, [s \in WorkServices |-> pruned(s)]}
      BY <1>1 DEF PruneContainers, pruned
    <3> QED  BY <3>1, <3>2 DEF WorkTypeOK
  <2> QED  BY <1>0, <1>1, <2>1, UsualTypes DEF PruneContainers, WorkTypeOK
<1>2. CASE RemoveVolumes
  <2>1. data' \in [DataItems -> Nat]
    <3>1. PICK gone : \/ UNCHANGED data
                      \/ data' = [i \in DataItems |-> IF i \in gone THEN 0 ELSE data[i]]
      BY <1>2 DEF RemoveVolumes
    <3> DEFINE rest(i) == IF i \in gone THEN 0 ELSE data[i]
    <3>2. \A i \in DataItems : rest(i) \in Nat
      BY DEF WorkTypeOK
    <3> HIDE DEF rest
    <3>3. UNCHANGED data \/ data' = [i \in DataItems |-> rest(i)]
      BY <3>1 DEF rest
    <3> QED  BY <3>2, <3>3 DEF WorkTypeOK
  <2> QED  BY <1>0, <1>2, <2>1, UsualTypes DEF RemoveVolumes, WorkTypeOK
<1> QED  BY <1>1, <1>2

LEMMA CommandTypes ==
  ASSUME WorkTypeOK, PhaseInv,
         LocalServiceRoot \/ CheckTaskServiceFiles \/ RunCommand \/ ComposeUp \/ ComposeDown \/ DockerTask
  PROVE  WorkTypeOK' /\ PhaseInv'
<1> USE DEF dataVars, At
<1>0. AtPhase /\ job.at \notin {"idle", "done", "failed"} /\ job.service \in WorkServices
  BY PhaseIsWork DEF LocalServiceRoot, CheckTaskServiceFiles, RunCommand, ComposeUp, ComposeDown,
     DockerTask, Commands, AtPhase, Jobs
<1>2. CASE LocalServiceRoot
  BY <1>0, <1>2, UsualTypes DEF LocalServiceRoot, WorkTypeOK, Usual
<1>3. CASE RunCommand
  BY <1>0, <1>3, UsualTypes DEF RunCommand, WorkTypeOK, Usual
<1>4. CASE CheckTaskServiceFiles
  <2>0. UNCHANGED <<shape, head, dir, bak, project, generated, data, snapshots, artifacts, writes,
                    instanceStatus, last, works>>
    BY <1>4 DEF CheckTaskServiceFiles
  <2>1. CASE Usual
    BY <1>0, <2>0, <2>1, UsualTypes DEF WorkTypeOK
  <2>2. ASSUME NEW s \in job.verify, job' = [job EXCEPT !.verify = @ \ {s}], UNCHANGED workFaults
        PROVE  WorkTypeOK' /\ PhaseInv'
    <3>1. OneVerified(s)
      BY <1>0, <2>2, OneVerifiedIs
    <3>2. job' \in Jobs /\ PhaseInv'
      BY <1>0, <3>1, InOrder DEF OneVerified
    <3> QED  BY <2>0, <2>2, <3>2 DEF WorkTypeOK
  <2> QED  BY <1>4, <2>1, <2>2 DEF CheckTaskServiceFiles, Usual
<1>5. CASE ComposeUp
  <2>1. \A force \in BOOLEAN : AfterUp(job.service, force) \in Projects
    BY <1>0, AfterUpIs
  <2>2. PICK force \in BOOLEAN :
          force = (job.type # "restart" /\ resolveComposeForceRecreate(job.service, job.mode))
    OBVIOUS
  <2>3. project' \in {project, [project EXCEPT ![job.service] = AfterUp(job.service, force)]}
    BY <1>5, <2>2 DEF ComposeUp
  <2>4. project' \in [WorkServices -> Projects]
    BY <1>0, <2>1, <2>3 DEF WorkTypeOK
  <2>5. Usual /\ UNCHANGED <<shape, head, dir, bak, generated, data, snapshots, artifacts, writes,
                             instanceStatus, last, works>>
    BY <1>5 DEF ComposeUp, Usual
  <2> QED  BY <1>0, <2>4, <2>5, UsualTypes DEF WorkTypeOK
<1>6. CASE ComposeDown
  <2>4. project' \in [WorkServices -> Projects]
    BY <1>0, <1>6, Blanks DEF WorkTypeOK, ComposeDown, StopProject
  <2>5. Usual /\ UNCHANGED <<shape, head, dir, bak, generated, data, snapshots, artifacts, writes,
                             instanceStatus, last, works>>
    BY <1>6 DEF ComposeDown, Usual
  <2> QED  BY <1>0, <2>4, <2>5, UsualTypes DEF WorkTypeOK
<1>7. CASE DockerTask
  <2>1. /\ [project[job.service] EXCEPT !.on = FALSE] \in Projects
        /\ [project[job.service] EXCEPT !.on = TRUE] \in Projects
    BY <1>0 DEF WorkTypeOK, Projects
  <2>2. PICK p : /\ p \in {[project[job.service] EXCEPT !.on = FALSE],
                           [project[job.service] EXCEPT !.on = TRUE], NoProject}
                 /\ project' \in {project, [project EXCEPT ![job.service] = p]}
    <3> DEFINE to == CASE job.at = "docker_stop" -> {[project[job.service] EXCEPT !.on = FALSE]}
                       [] job.at \in {"docker_start", "docker_restart"}
                            -> {[project[job.service] EXCEPT !.on = TRUE]}
                       [] job.at = "docker_remove_container" -> {NoProject}
                       [] OTHER -> {}
    <3>1. PICK p \in to : project' \in {project, [project EXCEPT ![job.service] = p]}
      BY <1>7 DEF DockerTask
    <3>2. to \subseteq {[project[job.service] EXCEPT !.on = FALSE],
                       [project[job.service] EXCEPT !.on = TRUE], NoProject}
      OBVIOUS
    <3> QED  BY <3>1, <3>2
  <2>4. project' \in [WorkServices -> Projects]
    <3>1. p \in Projects
      BY <2>1, <2>2, Blanks
    <3> QED  BY <1>0, <2>2, <3>1 DEF WorkTypeOK
  <2>5. Usual /\ UNCHANGED <<shape, head, dir, bak, generated, data, snapshots, artifacts, writes,
                             instanceStatus, last, works>>
    BY <1>7 DEF DockerTask, Usual
  <2> QED  BY <1>0, <2>4, <2>5, UsualTypes DEF WorkTypeOK
<1> QED  BY <1>2, <1>3, <1>4, <1>5, <1>6, <1>7

LEMMA CaddyTypes ==
  ASSUME WorkTypeOK, PhaseInv, CaddyWrite \/ CaddyRemove \/ RemoveGenerated \/ WriteGenerated
  PROVE  WorkTypeOK' /\ PhaseInv'
<1> USE DEF dataVars, At
<1>0. AtPhase /\ job.at \notin {"idle", "done", "failed"} /\ job.service \in WorkServices
  BY PhaseIsWork DEF CaddyWrite, CaddyRemove, RemoveGenerated, WriteGenerated, AtPhase, Jobs
<1>1. \A s \in WorkServices : Written(s) \in [WorkServices -> Nat]
  BY DEF Written, WorkTypeOK, Dirs
<1> HIDE DEF Written
<1>2. CASE CaddyWrite
  BY <1>0, <1>1, <1>2, UsualTypes DEF CaddyWrite, WorkTypeOK, Usual
<1>3. CASE CaddyRemove
  BY <1>0, <1>3, UsualTypes DEF CaddyRemove, WorkTypeOK, Usual
<1>4. CASE RemoveGenerated
  <2>1. generated' \in [WorkServices -> Nat]
    BY <1>4 DEF RemoveGenerated, WorkTypeOK
  <2>2. Usual /\ UNCHANGED <<shape, head, dir, bak, project, data, snapshots, artifacts, writes,
                             instanceStatus, last, works>>
    BY <1>4 DEF RemoveGenerated, Usual
  <2> QED  BY <1>0, <2>1, <2>2, UsualTypes DEF WorkTypeOK
<1>5. CASE WriteGenerated
  <2>0. UNCHANGED <<shape, head, dir, bak, project, data, snapshots, artifacts, writes,
                    instanceStatus, last, works>>
    BY <1>5 DEF WriteGenerated
  <2>1. CASE Usual /\ UNCHANGED generated
    BY <1>0, <2>0, <2>1, UsualTypes DEF WorkTypeOK
  <2>2. ASSUME NEW s \in job.sources, job' = [job EXCEPT !.sources = @ \ {s}], UNCHANGED workFaults,
               generated' = Written(s)
        PROVE  WorkTypeOK' /\ PhaseInv'
    <3>1. OneWritten(s) /\ s \in WorkServices
      BY <1>0, <2>2, OneWrittenIs DEF AtPhase, Jobs
    <3>2. job' \in Jobs /\ PhaseInv'
      BY <1>0, <3>1, InOrder DEF OneWritten
    <3> QED  BY <1>1, <2>0, <2>2, <3>1, <3>2 DEF WorkTypeOK
  <2> QED  BY <1>5, <2>1, <2>2 DEF WriteGenerated, Usual
<1> QED  BY <1>2, <1>3, <1>4, <1>5

LEMMA ColdPhases ==
  ASSUME job.type \in {"backup", "restore"}
  PROVE  {"cold_stop", "cold_start"} \subseteq {PhasesOf(job.type)[k] : k \in DOMAIN PhasesOf(job.type)}
<1>1. CASE job.type = "backup"
  <2>1. LET ph == PhasesOf("backup") IN DOMAIN ph = 1..5 /\ ph[2] = "cold_stop" /\ ph[5] = "cold_start"
    BY DEF PhasesOf
  <2> QED  BY <1>1, <2>1
<1>2. CASE job.type = "restore"
  <2>1. LET ph == PhasesOf("restore") IN DOMAIN ph = 1..5 /\ ph[2] = "cold_stop" /\ ph[5] = "cold_start"
    BY DEF PhasesOf
  <2> QED  BY <1>2, <2>1
<1> QED  BY <1>1, <1>2

\* An error of an item leaves the task in order.
LEMMA ItemEndsOrder ==
  ASSUME AtPhase, ItemEnds, job.type \in {"backup", "restore"}
  PROVE  job' \in Jobs /\ PhaseInv'
<1>1. /\ job' \in Jobs /\ job'.type = job.type /\ job'.at = "cold_start" /\ job'.origin = "none"
      /\ job'.cancelled = job.cancelled /\ job'.faults >= job.faults
  BY DEF AtPhase, ItemEnds, SameTask
<1>2. "cold_start" \in {PhasesOf(job.type)[k] : k \in DOMAIN PhasesOf(job.type)}
  BY ColdPhases
<1>3. job'.cancelled => job'.faults > 0
  BY <1>1 DEF AtPhase, Jobs
<1> QED  BY <1>1, <1>2, <1>3 DEF PhaseInv, PhaseOK

\* The end of an item: the next one begins, or the task ends.
LEMMA ItemDoneOrder ==
  ASSUME AtPhase, NEW at \in {"failed", "done", "cold_stop"}, ItemDone(at),
         job.type \in {"backup", "restore"}
  PROVE  job' \in Jobs /\ PhaseInv'
<1>1. /\ job' \in Jobs /\ job'.type = job.type /\ job'.at = at /\ job'.origin = "none"
      /\ job'.cancelled = job.cancelled /\ job'.faults = job.faults
  BY DEF AtPhase, ItemDone, SameTask, SameFaults
<1>2. "cold_stop" \in {PhasesOf(job.type)[k] : k \in DOMAIN PhasesOf(job.type)}
  BY ColdPhases
<1> QED  BY <1>1, <1>2 DEF AtPhase, PhaseInv, PhaseOK

LEMMA CopyTypes ==
  ASSUME WorkTypeOK, PhaseInv, ItemsInv, ReadFirst \/ ReadRest \/ ClearTargets \/ FillTargets
  PROVE  WorkTypeOK' /\ PhaseInv'
<1> USE DEF dataVars, At
<1>0. /\ AtPhase /\ job.at \notin {"idle", "done", "failed"} /\ job.item \in DataItems
      /\ job.type \in {"backup", "restore"} /\ job.copy \in Nat
      /\ job.type = "restore" => job.chosen[job.item] \in SnapshotRows
  <2>1. AtPhase /\ job.at \in ItemPhases \ {"cold_start"}
    BY PhaseIsWork DEF ReadFirst, ReadRest, ClearTargets, FillTargets, ItemPhases
  <2>2. job.type \in {"backup", "restore"} /\ job.copy \in Nat
    BY <2>1, TypeOfPhase DEF AtPhase, ItemPhases, Jobs
  <2> QED  BY <2>1, <2>2, AtWorkIsJob DEF ItemsInv, ItemAtHand, Is, AtPhase, ItemPhases
<1>1. ASSUME ItemFails \/ ItemRefused
      PROVE  job' \in Jobs /\ PhaseInv' /\ workFaults' \in Nat
  BY <1>0, <1>1, ItemFailsIs, ItemEndsOrder DEF WorkTypeOK
<1>2. ASSUME Proceed
      PROVE  job' \in Jobs /\ PhaseInv' /\ workFaults' \in Nat
  BY <1>0, <1>2, UsualIs DEF Usual, WorkTypeOK
<1>3. CASE ReadFirst
  <2>0. Quiet
    BY <1>3 DEF ReadFirst, Quiet
  <2>1. CASE ItemFails \/ ItemRefused
    BY <1>1, <2>0, <2>1, QuietTypes
  <2>2. CASE job' = [job EXCEPT !.at = Following, !.copy = data[job.item]] /\ UNCHANGED workFaults
    <3>1. data[job.item] \in Nat
      BY <1>0 DEF WorkTypeOK
    <3>2. ItemRead(data[job.item])
      BY <1>0, <2>2, <3>1, ItemReadIs
    <3>3. job' \in Jobs /\ PhaseInv'
      BY <1>0, <3>2, InOrder DEF ItemRead
    <3> QED  BY <2>0, <2>2, <3>3, QuietTypes DEF WorkTypeOK
  <2> QED  BY <1>3, <2>1, <2>2 DEF ReadFirst
<1>4. CASE ReadRest
  <2> DEFINE rest == IF StrategyOf[job.item] = Postgres THEN job.copy ELSE data[job.item]
             saved == [item |-> job.item, first |-> job.copy, rest |-> rest]
  <2>1. saved \in SnapshotRows
    BY <1>0 DEF WorkTypeOK, SnapshotRows
  <2> HIDE DEF saved
  <2>2. /\ Proceed \/ ItemFails
        /\ snapshots' \in {snapshots, snapshots \cup {saved}}
        /\ artifacts' \in {artifacts, artifacts \cup {saved}}
        /\ UNCHANGED <<shape, head, dir, bak, project, generated, data, writes, instanceStatus, last, works>>
    BY <1>4 DEF ReadRest, saved
  <2>3. snapshots' \subseteq SnapshotRows /\ artifacts' \subseteq SnapshotRows
    BY <2>1, <2>2 DEF WorkTypeOK
  <2> QED  BY <1>1, <1>2, <2>2, <2>3, OrderTypes DEF WorkTypeOK
<1>5. CASE ClearTargets \/ FillTargets
  <2>1. /\ Proceed \/ ItemFails \/ ItemRefused
        /\ UNCHANGED <<shape, head, dir, bak, project, generated, snapshots, artifacts, writes,
                       instanceStatus, last, works>>
    BY <1>5 DEF ClearTargets, FillTargets
  <2>2. data' \in [DataItems -> Nat]
    <3>1. CASE ClearTargets
      BY <3>1, <1>0 DEF ClearTargets, WorkTypeOK
    <3>2. CASE FillTargets
      <4>1. job.chosen[job.item].rest \in Nat
        BY <1>0, <3>2, TypeOfPhase DEF FillTargets, SnapshotRows, AtPhase
      <4>2. PICK x \in Nat : x = job.chosen[job.item].rest
        BY <4>1
      <4>3. data' \in {data, [data EXCEPT ![job.item] = 0], [data EXCEPT ![job.item] = x]}
        BY <3>2, <4>2 DEF FillTargets
      <4> QED  BY <1>0, <4>3 DEF WorkTypeOK
    <3> QED  BY <1>5, <3>1, <3>2
  <2> QED  BY <1>1, <1>2, <2>1, <2>2, OrderTypes DEF WorkTypeOK
<1> QED  BY <1>3, <1>4, <1>5

LEMMA ColdTypes ==
  ASSUME WorkTypeOK, PhaseInv, ColdStop \/ ColdStart \/ RusticForget
  PROVE  WorkTypeOK' /\ PhaseInv'
<1> USE DEF dataVars, At
<1>0. AtPhase /\ job.at \notin {"idle", "done", "failed"} /\ job.service \in WorkServices
  BY PhaseIsWork DEF ColdStop, ColdStart, RusticForget, AtPhase, Jobs
<1>1. ASSUME Fails
      PROVE  job' \in Jobs /\ PhaseInv' /\ workFaults' \in Nat
  BY <1>0, <1>1, UsualIs DEF Usual, WorkTypeOK
<1>2. CASE RusticForget
  BY <1>0, <1>2, UsualTypes DEF RusticForget, WorkTypeOK, Usual
<1>3. CASE ColdStop
  <2>1. /\ project' \in {project, [project EXCEPT ![job.service] = NoProject]}
        /\ UNCHANGED <<shape, head, dir, bak, generated, data, snapshots, artifacts, writes,
                       instanceStatus, last, works>>
    BY <1>3 DEF ColdStop, StopProject
  <2>2. project' \in [WorkServices -> Projects]
    BY <1>0, <2>1, Blanks DEF WorkTypeOK
  <2>3. job' \in Jobs /\ PhaseInv' /\ workFaults' \in Nat
    <3>1. ASSUME NEW i \in job.items,
                 \/ job' = [job EXCEPT !.at = Following, !.item = i]
                 \/ job' = [job EXCEPT !.at = Following, !.item = i, !.restart = TRUE]
          PROVE  job' \in Jobs /\ PhaseInv'
      <4>1. i \in DataItems
        BY <1>0, <3>1 DEF AtPhase, Jobs
      <4>2. PICK x : ItemBegins(i, x)
        BY <1>0, <3>1, <4>1, ItemBeginsIs
      <4> QED  BY <1>0, <4>2, InOrder DEF ItemBegins
    <3> QED  BY <1>1, <1>3, <3>1 DEF ColdStop, WorkTypeOK
  <2> QED  BY <2>1, <2>2, <2>3, OrderTypes DEF WorkTypeOK
<1>4. CASE ColdStart
  <2>0. AfterUp(job.service, FALSE) \in Projects
    BY <1>0, AfterUpIs
  <2> HIDE DEF AfterUp
  <2>1. /\ project' \in {project, [project EXCEPT ![job.service] = AfterUp(job.service, FALSE)]}
        /\ UNCHANGED <<shape, head, dir, bak, generated, data, snapshots, artifacts, writes,
                       instanceStatus, last, works>>
    BY <1>4 DEF ColdStart
  <2>2. project' \in [WorkServices -> Projects]
    BY <1>0, <2>0, <2>1 DEF WorkTypeOK
  <2>3. job' \in Jobs /\ PhaseInv' /\ workFaults' \in Nat
    <3>1. ASSUME NEW at \in {"failed", "done", "cold_stop"},
                 job' = [job EXCEPT !.at = at, !.items = job.items \ {job.item}, !.item = "none",
                                    !.copy = 0, !.restart = FALSE]
          PROVE  job' \in Jobs /\ PhaseInv'
      <4>1. job.type \in {"backup", "restore"}
        BY <1>0, <1>4, TypeOfPhase DEF ColdStart, AtPhase
      <4>2. ItemDone(at)
        BY <1>0, <3>1, ItemDoneIs DEF Ats, Phases
      <4> QED  BY <1>0, <4>1, <4>2, ItemDoneOrder
    <3>2. ASSUME job.cancelled, job' = [job EXCEPT !.at = "failed", !.origin = "cold_start"]
          PROVE  job' \in Jobs /\ PhaseInv'
      BY <1>0, <1>4, <3>2, ColdStartCancelled, PhaseKept DEF ColdStart
    <3> QED  BY <1>1, <1>4, <3>1, <3>2 DEF ColdStart, WorkTypeOK
  <2> QED  BY <2>1, <2>2, <2>3, OrderTypes DEF WorkTypeOK
<1> QED  BY <1>2, <1>3, <1>4

\* The end of a task.
EndsWith(result) ==
  /\ job \in Jobs /\ AtWork /\ job' = NoJob /\ last' \in Results /\ last'.result = result
  /\ last'.type = job.type /\ last'.service = job.service /\ last'.rev = job.rev
  /\ last'.mode = job.mode /\ last'.full = job.full /\ last'.before = job.before
  /\ last'.origin = job.origin /\ last'.faults >= job.faults
  /\ last'.faults = 0 => job.faults = 0 /\ workFaults' = workFaults

LEMMA FinishWorkIs ==
  ASSUME WorkTypeOK, FinishWork
  PROVE  /\ \/ job.at = "done" /\ EndsWith("succeeded")
            \/ job.at = "failed" /\ EndsWith("failed")
         /\ workFaults' \in Nat
         /\ UNCHANGED <<shape, head, dir, bak, project, generated, data, snapshots, artifacts, writes, works>>
<1>1. job \in Jobs /\ AtWork
  BY AtWorkIsJob DEF FinishWork, At, WorkTypeOK, NoJob
<1>2. workFaults' \in Nat /\ workFaults' >= workFaults
  BY BreaksIs DEF FinishWork, Reports, WorkTypeOK
<1>3. PICK f \in Nat : f = job.faults + (workFaults' - workFaults)
  BY <1>1, <1>2 DEF Jobs, WorkTypeOK
<1>4. f >= job.faults /\ (f = 0 => job.faults = 0 /\ workFaults' = workFaults)
  BY <1>1, <1>2, <1>3 DEF Jobs, WorkTypeOK
<1>5. ASSUME NEW result \in {"succeeded", "failed"}, EndWork(result)
      PROVE  EndsWith(result)
  <2>1. /\ job' = NoJob
        /\ last' = [type |-> job.type, service |-> job.service, rev |-> job.rev, mode |-> job.mode,
                    full |-> job.full, result |-> result, before |-> job.before,
                    origin |-> job.origin, faults |-> f]
    BY <1>3, <1>5 DEF EndWork
  <2>2. last' \in Results
    BY <1>1, <2>1 DEF Results, Jobs
  <2> QED  BY <1>1, <1>4, <2>1, <2>2 DEF EndsWith
<1> QED  BY <1>2, <1>5 DEF FinishWork, At, dataVars

LEMMA FinishTypes ==
  ASSUME WorkTypeOK, PhaseInv, FinishWork
  PROVE  WorkTypeOK' /\ PhaseInv'
<1>1. /\ job' = NoJob /\ last' \in Results /\ workFaults' \in Nat /\ job.service \in WorkServices
      /\ UNCHANGED <<shape, head, dir, bak, project, generated, data, snapshots, artifacts, writes, works>>
  BY FinishWorkIs DEF EndsWith, Jobs
<1>2. instanceStatus' \in [WorkServices -> {"unknown", "running", "stopped", "error"}]
  BY <1>1 DEF FinishWork, Reports, StatusAfter, WorkTypeOK
<1> QED  BY <1>1, <1>2 DEF WorkTypeOK, PhaseInv, AtWork

\* A cancelled task.
Cancels ==
  /\ SameTask /\ SameItem /\ job'.at = job.at /\ job'.origin = job.origin
  /\ job'.cancelled = TRUE /\ job'.faults >= job.faults /\ job'.faults > 0

LEMMA CancelledIs ==
  ASSUME WorkTypeOK, WorkCancelled
  PROVE  job \in Jobs /\ AtWork /\ Cancels /\ Quiet /\ workFaults' \in Nat
<1>1. job \in Jobs /\ AtWork /\ job.faults \in Nat
  BY AtWorkIsJob DEF WorkCancelled, AtWork, Jobs
<1>2. PICK f \in Nat : f = job.faults + 1
  BY <1>1
<1>3. job' = [job EXCEPT !.cancelled = TRUE, !.faults = f]
  BY <1>2 DEF WorkCancelled
<1>4. SameTask /\ job'.faults = f
  BY <1>1, <1>3 DEF SameTask, Jobs
<1>5. SameItem /\ job'.at = job.at /\ job'.origin = job.origin /\ job'.cancelled = TRUE
  BY <1>1, <1>3 DEF SameItem, Jobs
<1>6. f >= job.faults /\ f > 0
  BY <1>1, <1>2
<1> QED  BY <1>1, <1>4, <1>5, <1>6 DEF Cancels, WorkCancelled, Quiet, WorkTypeOK

LEMMA WorldTypes ==
  ASSUME WorkTypeOK, PhaseInv,
         \/ \E type \in WorkTypes, s \in WorkServices : StartWork(type, s)
         \/ WorkCancelled \/ AgentCrash \/ NewRevision
         \/ \E i \in DataItems : ApplicationWrites(i)
  PROVE  WorkTypeOK' /\ PhaseInv'
<1> USE DEF dataVars
<1>1. ASSUME NEW type \in WorkTypes, NEW s \in WorkServices, StartWork(type, s)
      PROVE  WorkTypeOK' /\ PhaseInv'
  <2>1. Begins(type, s) /\ type \in AgentTaskTypes
    BY <1>1, StartWorkIs, WorkAssumption
  <2>2. PhasesOf(type) \in Seq(Phases) /\ 1 \in DOMAIN PhasesOf(type)
    BY <2>1, PhasesAreSeq
  <2>3. "failed" \notin Phases
    BY DEF Phases, AgentTaskTypes
  <2>4. PhaseInv'
    BY <2>1, <2>2, <2>3 DEF Begins, PhaseInv, PhaseOK
  <2>5. /\ UNCHANGED <<shape, head, dir, bak, project, generated, data, snapshots, artifacts,
                       instanceStatus, last, writes, workFaults>>
        /\ works' \in Nat
    BY <1>1 DEF StartWork, WorkTypeOK
  <2> QED  BY <2>1, <2>4, <2>5 DEF WorkTypeOK, Begins
<1>2. CASE WorkCancelled
  <2>1. job \in Jobs /\ AtWork /\ Cancels /\ Quiet /\ workFaults' \in Nat
    BY <1>2, CancelledIs
  <2>2. PhaseInv'
    BY <2>1 DEF PhaseInv, PhaseOK, Cancels, SameTask
  <2> QED  BY <2>1, <2>2, QuietTypes DEF Cancels, SameTask
<1>3. CASE AgentCrash
  BY <1>3 DEF AgentCrash, WorkTypeOK, PhaseInv, AtWork
<1>4. CASE NewRevision
  BY <1>4 DEF NewRevision, WorkTypeOK, PhaseInv, PhaseOK, AtWork
<1>5. ASSUME NEW i \in DataItems, ApplicationWrites(i)
      PROVE  WorkTypeOK' /\ PhaseInv'
  BY <1>5 DEF ApplicationWrites, WorkTypeOK, PhaseInv, PhaseOK, AtWork
<1> QED  BY <1>1, <1>2, <1>3, <1>4, <1>5

LEMMA WorkTypeStep ==
  ASSUME WorkTypeOK, PhaseInv, ItemsInv, WorkNext
  PROVE  WorkTypeOK' /\ PhaseInv'
  BY InstallTypes, CommandTypes, PruneTypes, CaddyTypes, CopyTypes, ColdTypes, FinishTypes, WorldTypes
  DEF WorkNext, WorkPhase

-----------------------------------------------------------------------------
(* Phases and actions *)

\* Every action belongs to a phase, and writes only what its phase is about.
LEMMA PhaseOfAction ==
  /\ StageBundle => job.at = "stage" /\ UNCHANGED <<shape, dir, bak, project, generated, data, snapshots>>
  /\ RemoveOldBackup => job.at = "clear_bak" /\ UNCHANGED <<shape, dir, project, generated, data, snapshots>>
  /\ MoveOldAway => job.at = "move_old" /\ UNCHANGED <<shape, project, generated, data, snapshots>>
  /\ ActivateStaged => job.at = "activate" /\ UNCHANGED <<shape, project, generated, data, snapshots>>
  /\ DropBackup => job.at = "drop_bak" /\ UNCHANGED <<shape, dir, project, generated, data, snapshots>>
  /\ LocalServiceRoot => job.at = "local_root" /\ UNCHANGED <<shape, dir, bak, project, generated, data, snapshots>>
  /\ CheckTaskServiceFiles => job.at = "verify" /\ UNCHANGED <<shape, dir, bak, project, generated, data, snapshots>>
  /\ RunCommand => job.at \in Commands /\ UNCHANGED <<shape, dir, bak, project, generated, data, snapshots>>
  /\ ComposeUp => job.at = "compose_up" /\ UNCHANGED <<shape, dir, bak, generated, data, snapshots>>
  /\ ComposeDown => job.at = "compose_down" /\ UNCHANGED <<shape, dir, bak, generated, data, snapshots>>
  /\ DockerTask => job.at \in {"docker_stop", "docker_start", "docker_restart", "docker_remove_container"} /\ UNCHANGED <<shape, dir, bak, generated, data, snapshots>>
  /\ PruneContainers => job.at = "containers" /\ UNCHANGED <<shape, dir, bak, generated, data, snapshots>>
  /\ RemoveVolumes => job.at \in {"volumes", "docker_remove_volume"} /\ UNCHANGED <<shape, dir, bak, project, generated, snapshots>>
  /\ CaddyWrite => job.at = "caddy_write" /\ UNCHANGED <<shape, dir, bak, project, data, snapshots>>
  /\ CaddyRemove => job.at = "caddy_remove" /\ UNCHANGED <<shape, dir, bak, project, data, snapshots>>
  /\ RemoveGenerated => job.at = "remove_generated" /\ UNCHANGED <<shape, dir, bak, project, data, snapshots>>
  /\ WriteGenerated => job.at = "write_generated" /\ UNCHANGED <<shape, dir, bak, project, data, snapshots>>
  /\ ColdStop => job.at = "cold_stop" /\ UNCHANGED <<shape, dir, bak, generated, data, snapshots>>
  /\ ReadFirst => job.at = "read_first" /\ UNCHANGED <<shape, dir, bak, project, generated, data, snapshots>>
  /\ ReadRest => job.at = "read_rest" /\ UNCHANGED <<shape, dir, bak, project, generated, data>>
  /\ ClearTargets => job.at = "clear" /\ UNCHANGED <<shape, dir, bak, project, generated, snapshots>>
  /\ FillTargets => job.at = "fill" /\ UNCHANGED <<shape, dir, bak, project, generated, snapshots>>
  /\ ColdStart => job.at = "cold_start" /\ UNCHANGED <<shape, dir, bak, generated, data, snapshots>>
  /\ RusticForget => job.at = "forget" /\ UNCHANGED <<shape, dir, bak, project, generated, data>>
  /\ FinishWork => job.at \in {"done", "failed"} /\ UNCHANGED <<shape, dir, bak, project, generated, data, snapshots>>
<1>1. StageBundle => job.at = "stage" /\ UNCHANGED <<shape, dir, bak, project, generated, data, snapshots>>
  BY DEF StageBundle, At, dataVars, installedVars
<1>2. RemoveOldBackup => job.at = "clear_bak" /\ UNCHANGED <<shape, dir, project, generated, data, snapshots>>
  BY DEF RemoveOldBackup, At, dataVars, installedVars
<1>3. MoveOldAway => job.at = "move_old" /\ UNCHANGED <<shape, project, generated, data, snapshots>>
  BY DEF MoveOldAway, At, dataVars, installedVars
<1>4. ActivateStaged => job.at = "activate" /\ UNCHANGED <<shape, project, generated, data, snapshots>>
  BY DEF ActivateStaged, At, dataVars, installedVars
<1>5. DropBackup => job.at = "drop_bak" /\ UNCHANGED <<shape, dir, project, generated, data, snapshots>>
  BY DEF DropBackup, At, dataVars, installedVars
<1>6. LocalServiceRoot => job.at = "local_root" /\ UNCHANGED <<shape, dir, bak, project, generated, data, snapshots>>
  BY DEF LocalServiceRoot, At, dataVars, installedVars
<1>7. CheckTaskServiceFiles => job.at = "verify" /\ UNCHANGED <<shape, dir, bak, project, generated, data, snapshots>>
  BY DEF CheckTaskServiceFiles, At, dataVars, installedVars
<1>8. RunCommand => job.at \in Commands /\ UNCHANGED <<shape, dir, bak, project, generated, data, snapshots>>
  BY DEF RunCommand, At, dataVars, installedVars
<1>9. ComposeUp => job.at = "compose_up" /\ UNCHANGED <<shape, dir, bak, generated, data, snapshots>>
  BY DEF ComposeUp, At, dataVars, installedVars
<1>10. ComposeDown => job.at = "compose_down" /\ UNCHANGED <<shape, dir, bak, generated, data, snapshots>>
  BY DEF ComposeDown, At, dataVars, installedVars
<1>11. DockerTask => job.at \in {"docker_stop", "docker_start", "docker_restart", "docker_remove_container"} /\ UNCHANGED <<shape, dir, bak, generated, data, snapshots>>
  BY DEF DockerTask, At, dataVars, installedVars
<1>12. CaddyWrite => job.at = "caddy_write" /\ UNCHANGED <<shape, dir, bak, project, data, snapshots>>
  BY DEF CaddyWrite, At, dataVars, installedVars
<1>13. CaddyRemove => job.at = "caddy_remove" /\ UNCHANGED <<shape, dir, bak, project, data, snapshots>>
  BY DEF CaddyRemove, At, dataVars, installedVars
<1>14. RemoveGenerated => job.at = "remove_generated" /\ UNCHANGED <<shape, dir, bak, project, data, snapshots>>
  BY DEF RemoveGenerated, At, dataVars, installedVars
<1>15. WriteGenerated => job.at = "write_generated" /\ UNCHANGED <<shape, dir, bak, project, data, snapshots>>
  BY DEF WriteGenerated, At, dataVars, installedVars
<1>16. ColdStop => job.at = "cold_stop" /\ UNCHANGED <<shape, dir, bak, generated, data, snapshots>>
  BY DEF ColdStop, At, dataVars, installedVars
<1>17. ReadFirst => job.at = "read_first" /\ UNCHANGED <<shape, dir, bak, project, generated, data, snapshots>>
  BY DEF ReadFirst, At, dataVars, installedVars
<1>18. ReadRest => job.at = "read_rest" /\ UNCHANGED <<shape, dir, bak, project, generated, data>>
  BY DEF ReadRest, At, dataVars, installedVars
<1>19. ClearTargets => job.at = "clear" /\ UNCHANGED <<shape, dir, bak, project, generated, snapshots>>
  BY DEF ClearTargets, At, dataVars, installedVars
<1>20. FillTargets => job.at = "fill" /\ UNCHANGED <<shape, dir, bak, project, generated, snapshots>>
  BY DEF FillTargets, At, dataVars, installedVars
<1>21. ColdStart => job.at = "cold_start" /\ UNCHANGED <<shape, dir, bak, generated, data, snapshots>>
  BY DEF ColdStart, At, dataVars, installedVars
<1>22. RusticForget => job.at = "forget" /\ UNCHANGED <<shape, dir, bak, project, generated, data>>
  BY DEF RusticForget, At, dataVars, installedVars
<1>23. FinishWork => job.at \in {"done", "failed"} /\ UNCHANGED <<shape, dir, bak, project, generated, data, snapshots>>
  BY DEF FinishWork, At, dataVars, installedVars
<1>24. PruneContainers => job.at = "containers" /\ UNCHANGED <<shape, dir, bak, generated, data, snapshots>>
  BY DEF PruneContainers, At, dataVars, installedVars
<1>25. RemoveVolumes => job.at \in {"volumes", "docker_remove_volume"} /\ UNCHANGED <<shape, dir, bak, project, generated, snapshots>>
  BY DEF RemoveVolumes, At, dataVars, installedVars
<1> QED
  BY <1>1, <1>2, <1>3, <1>4, <1>5, <1>6, <1>7, <1>8, <1>9, <1>10, <1>11,
     <1>12, <1>13, <1>14, <1>15, <1>16, <1>17, <1>18, <1>19, <1>20, <1>21, <1>22, <1>23, <1>24,
     <1>25

\* So the phase says which action is taken.
LEMMA Dispatch ==
  ASSUME WorkPhase
  PROVE  /\ job.at = "stage" => StageBundle
         /\ job.at = "clear_bak" => RemoveOldBackup
         /\ job.at = "move_old" => MoveOldAway
         /\ job.at = "activate" => ActivateStaged
         /\ job.at = "drop_bak" => DropBackup
         /\ job.at = "local_root" => LocalServiceRoot
         /\ job.at = "verify" => CheckTaskServiceFiles
         /\ job.at \in {"pull", "finalize"} => RunCommand
         /\ job.at = "compose_up" => ComposeUp
         /\ job.at = "compose_down" => ComposeDown
         /\ job.at = "caddy_write" => CaddyWrite
         /\ job.at = "caddy_remove" => CaddyRemove
         /\ job.at = "remove_generated" => RemoveGenerated
         /\ job.at = "write_generated" => WriteGenerated
         /\ job.at = "cold_stop" => ColdStop
         /\ job.at = "read_first" => ReadFirst
         /\ job.at = "read_rest" => ReadRest
         /\ job.at = "clear" => ClearTargets
         /\ job.at = "fill" => FillTargets
         /\ job.at = "cold_start" => ColdStart
         /\ job.at \in {"done", "failed"} => FinishWork
  BY PhaseOfAction DEF WorkPhase, Commands

\* Only phases change the agent's directories, projects and Caddy files, and a
\* task that goes on is the one that was begun.
World == UNCHANGED <<shape, dir, bak, project, generated>>

LEMMA Between ==
  ASSUME WorkTypeOK, WorkNext, ~WorkPhase
  PROVE  /\ World
         /\ \/ \E type \in WorkTypes, s \in WorkServices :
                 /\ StartWork(type, s) /\ Begins(type, s) /\ ~AtWork
                 /\ UNCHANGED <<last, data, snapshots, instanceStatus>>
            \/ /\ WorkCancelled /\ AtWork /\ job \in Jobs /\ Cancels /\ UNCHANGED <<last, data, snapshots>>
            \/ job' = NoJob /\ last' = [result |-> "lost"] /\ UNCHANGED <<data, snapshots>>
            \/ job' = NoJob /\ job = NoJob /\ UNCHANGED <<last, data, snapshots, instanceStatus>>
            \/ /\ UNCHANGED <<job, last, snapshots, instanceStatus>> /\ Running(DataService)
<1> USE DEF dataVars, World
<1>1. ASSUME NEW type \in WorkTypes, NEW s \in WorkServices, StartWork(type, s)
      PROVE  /\ StartWork(type, s) /\ Begins(type, s) /\ ~AtWork
             /\ World /\ UNCHANGED <<last, data, snapshots, instanceStatus>>
  BY <1>1, StartWorkIs DEF StartWork, AtWork
<1>2. CASE WorkCancelled
  BY <1>2, CancelledIs DEF Quiet
<1>3. CASE AgentCrash
  BY <1>3 DEF AgentCrash
<1>4. CASE NewRevision
  BY <1>4 DEF NewRevision
<1>5. ASSUME NEW i \in DataItems, ApplicationWrites(i)
      PROVE  World /\ UNCHANGED <<job, last, snapshots, instanceStatus>> /\ Running(DataService)
  BY <1>5 DEF ApplicationWrites
<1> QED  BY <1>1, <1>2, <1>3, <1>4, <1>5 DEF WorkNext

-----------------------------------------------------------------------------
(* Services without containers, stops and restarts *)

LEMMA InfraStep ==
  ASSUME WorkTypeOK, PhaseInv, ItemsInv, InfraInv, WorkNext
  PROVE  InfraInv'
<1>0. shape' = shape
  BY PhaseOfAction, Between DEF WorkPhase, World
<1> SUFFICES ASSUME NEW s \in WorkServices, s \in shape.infra PROVE project'[s] = NoProject
  BY <1>0 DEF InfraInv
<1>1. project[s] = NoProject /\ project \in [WorkServices -> Projects]
  BY DEF InfraInv, WorkTypeOK
<1>2. CASE project' = project
  BY <1>1, <1>2
<1>3. ASSUME NEW p, project' = [project EXCEPT ![job.service] = p], job.service # s
      PROVE  project'[s] = NoProject
  BY <1>1, <1>3
<1>4. CASE project' = [project EXCEPT ![job.service] = NoProject]
  BY <1>1, <1>4
<1>5. CASE ComposeUp
  BY <1>2, <1>3, <1>5 DEF ComposeUp
<1>6. CASE ComposeDown \/ ColdStop
  BY <1>2, <1>4, <1>6 DEF ComposeDown, ColdStop, StopProject
<1>7. CASE DockerTask
  BY <1>1, <1>2, <1>3, <1>7 DEF DockerTask
<1>10. CASE PruneContainers
  <2>1. project'[s] \in {project[s], NoProject}
    BY <1>10 DEF PruneContainers
  <2> QED  BY <1>1, <2>1
<1>8. CASE ColdStart
  <2>1. AtPhase /\ AtWork
    BY <1>8, PhaseIsWork, AtWorkIsJob DEF ColdStart, At, AtPhase
  <2>2. job.type \in {"backup", "restore"} /\ job.at = "cold_start"
    BY <1>8, <2>1, TypeOfPhase DEF ColdStart, At, AtPhase
  <2>3. job.restart => job.service # s
    BY <2>1, <2>2 DEF ItemsInv, StartOwed, Is
  <2> QED  BY <1>2, <1>3, <1>8, <2>3 DEF ColdStart
<1>9. CASE ~WorkPhase
  BY <1>2, <1>9, Between DEF World
<1> QED  BY <1>2, <1>5, <1>6, <1>7, <1>8, <1>9, <1>10, PhaseOfAction DEF WorkPhase

LEMMA TaskKept ==
  ASSUME AtPhase, workFaults \in Nat, WorkPhase, ~FinishWork
  PROVE  job'.type = job.type /\ job'.service = job.service /\ job'.before = job.before
<1>0. job \in Jobs
  BY DEF AtPhase
<1>1. CASE Usual
  BY <1>1, UsualIs DEF Advances, Broken, Refused, Ends, SameTask
<1>2. CASE ItemFails \/ ItemRefused
  BY <1>2, ItemFailsIs DEF ItemEnds, SameTask
<1>3. CASE StageBundle \/ RemoveOldBackup \/ MoveOldAway \/ DropBackup \/ LocalServiceRoot \/ RunCommand
  BY <1>1, <1>3 DEF Usual, StageBundle, RemoveOldBackup, MoveOldAway, DropBackup, LocalServiceRoot,
     RunCommand
<1>4. CASE ActivateStaged
  BY <1>0, <1>1, <1>4 DEF Usual, ActivateStaged, Jobs
<1>5. CASE CheckTaskServiceFiles
  BY <1>0, <1>1, <1>5 DEF Usual, CheckTaskServiceFiles, Jobs
<1>6. CASE \/ ComposeUp \/ ComposeDown \/ DockerTask \/ PruneContainers \/ RemoveVolumes
           \/ RusticForget
  BY <1>1, <1>6 DEF Usual, ComposeUp, ComposeDown, DockerTask, PruneContainers, RemoveVolumes,
     RusticForget
<1>7. CASE CaddyWrite \/ CaddyRemove \/ RemoveGenerated
  BY <1>1, <1>7 DEF Usual, CaddyWrite, CaddyRemove, RemoveGenerated
<1>8. CASE WriteGenerated
  BY <1>0, <1>1, <1>8 DEF Usual, WriteGenerated, Jobs
<1>9. CASE ColdStop
  BY <1>0, <1>1, <1>9 DEF Usual, ColdStop, Jobs
<1>10. CASE ReadFirst
  BY <1>0, <1>2, <1>10 DEF ReadFirst, Jobs
<1>11. CASE ReadRest \/ ClearTargets \/ FillTargets
  BY <1>1, <1>2, <1>11 DEF Usual, ReadRest, ClearTargets, FillTargets
<1>12. CASE ColdStart
  BY <1>0, <1>1, <1>12 DEF Usual, ColdStart, Jobs
<1> QED
  BY <1>3, <1>4, <1>5, <1>6, <1>7, <1>8, <1>9, <1>10, <1>11, <1>12 DEF WorkPhase

\* A task that is at work after a step has been begun by it, was cancelled, was
\* left alone, or has gone through a phase.
LEMMA Onward ==
  ASSUME WorkTypeOK, PhaseInv, ItemsInv, WorkNext, NEW types, Is(types)'
  PROVE  \/ \E type \in types, s \in WorkServices : Begins(type, s) /\ World
         \/ Is(types) /\ Cancels /\ World /\ UNCHANGED data
         \/ Is(types) /\ UNCHANGED job /\ World /\ Running(DataService)
         \/ WorkPhase /\ Is(types) /\ AtPhase
<1>1. job' # NoJob /\ job'.type \in types
  BY DEF Is, AtWork
<1>2. CASE ~WorkPhase
  BY <1>1, <1>2, Between DEF Begins, Is, AtWork, Cancels, SameTask
<1>3. CASE WorkPhase
  <2>1. ~FinishWork
    BY <1>1, FinishWorkIs DEF EndsWith
  <2>2. job.at \notin {"idle", "done", "failed"}
    BY <1>3, <2>1, PhaseOfAction DEF WorkPhase, Commands
  <2>3. AtPhase /\ AtWork
    BY <2>2, PhaseIsWork, AtWorkIsJob DEF AtPhase
  <2>4. job'.type = job.type
    BY <1>3, <2>1, <2>3, TaskKept DEF WorkTypeOK
  <2> QED  BY <1>1, <1>3, <2>3, <2>4 DEF Is
<1> QED  BY <1>2, <1>3

LEMMA StopStep ==
  ASSUME WorkTypeOK, PhaseInv, ItemsInv, InfraInv, StopInv, WorkNext
  PROVE  StopInv'
<1> SUFFICES ASSUME Is({"stop"})', job'.at \in {"caddy_remove", "done"}
             PROVE  /\ project'[job'.service] = NoProject
                    /\ job'.at = "done" => generated'[job'.service] = 0
  BY DEF StopInv, Is, AtWork
<1>1. CASE \E type \in {"stop"}, s \in WorkServices : Begins(type, s) /\ World
  BY <1>1 DEF Begins, PhasesOf
<1>2. CASE Is({"stop"}) /\ World /\ (Cancels \/ UNCHANGED job)
  BY <1>2 DEF StopInv, World, Cancels, SameTask
<1>3. CASE WorkPhase /\ Is({"stop"}) /\ AtPhase
  <2>0. /\ job.type = "stop" /\ job.service \in WorkServices /\ workFaults \in Nat
        /\ project \in [WorkServices -> Projects] /\ generated \in [WorkServices -> Nat]
    BY <1>3 DEF Is, AtPhase, Jobs, WorkTypeOK
  <2>1. /\ job.at \in {"local_root", "compose_down", "caddy_remove"}
        /\ job.at = "local_root" => Following = "compose_down"
        /\ job.at = "compose_down" => Following = "caddy_remove"
        /\ job.at = "caddy_remove" => Following = "done"
    BY <1>3, <2>0, StopOrder DEF AtPhase
  <2>2. ASSUME Usual
        PROVE  job'.at \in {Following, "failed"} /\ job'.service = job.service
    BY <1>3, <2>0, <2>2, UsualIs DEF Advances, Broken, Refused, Ends, SameTask
  <2>3. CASE job.at = "local_root"
    BY <1>3, <2>1, <2>2, <2>3, Dispatch DEF LocalServiceRoot, Usual
  <2>4. CASE job.at = "compose_down"
    <3>1. ComposeDown
      BY <1>3, <2>4, Dispatch
    <3>2. Usual
      BY <3>1 DEF ComposeDown, Usual
    <3>3. \/ Fails \/ project' = [project EXCEPT ![job.service] = NoProject]
          \/ project' = project /\ job.service \in shape.infra
      BY <2>0, <3>1 DEF ComposeDown, StopProject
    <3>4. Fails => job'.at = "failed"
      BY <1>3, AbortIs DEF Fails, Broken, Ends
    <3> QED  BY <2>0, <2>1, <2>2, <2>4, <3>2, <3>3, <3>4 DEF InfraInv
  <2>5. CASE job.at = "caddy_remove"
    <3>1. CaddyRemove /\ project' = project
      BY <1>3, <2>5, Dispatch, PhaseOfAction
    <3>2. project[job.service] = NoProject
      BY <1>3, <2>5 DEF StopInv
    <3>3. Fails => job'.at = "failed"
      BY <1>3, AbortIs DEF Fails, Broken, Ends
    <3> QED  BY <2>0, <2>1, <2>2, <2>5, <3>1, <3>2, <3>3 DEF CaddyRemove, Usual
  <2> QED  BY <2>1, <2>3, <2>4, <2>5
<1> QED  BY <1>1, <1>2, <1>3, Onward

LEMMA RestartStep ==
  ASSUME WorkTypeOK, PhaseInv, ItemsInv, InfraInv, RestartInv, WorkNext
  PROVE  RestartInv'
<1> SUFFICES ASSUME Is({"restart"})', job'.at \in {"compose_up", "done"}
             PROVE  LET s == job'.service
                    IN  /\ job'.at = "compose_up" => s \notin shape'.infra /\ project'[s] = NoProject
                        /\ job'.at = "done" =>
                             project'[s] = [rev |-> dir'[s].rev, id |-> dir'[s].id, on |-> TRUE]
  BY DEF RestartInv, Is, AtWork
<1>1. CASE \E type \in {"restart"}, s \in WorkServices : Begins(type, s) /\ World
  BY <1>1 DEF Begins, PhasesOf
<1>2. CASE Is({"restart"}) /\ World /\ (Cancels \/ UNCHANGED job)
  BY <1>2 DEF RestartInv, World, Cancels, SameTask
<1>3. CASE WorkPhase /\ Is({"restart"}) /\ AtPhase
  <2>0. /\ job.type = "restart" /\ job.service \in WorkServices /\ workFaults \in Nat
        /\ project \in [WorkServices -> Projects]
    BY <1>3 DEF Is, AtPhase, Jobs, WorkTypeOK
  <2>1. /\ job.at \in {"local_root", "compose_down", "compose_up"}
        /\ job.at = "local_root" => Following = "compose_down"
        /\ job.at = "compose_down" => Following = "compose_up"
        /\ job.at = "compose_up" => Following = "done"
    BY <1>3, <2>0, RestartOrder DEF AtPhase
  <2>2. ASSUME Usual
        PROVE  job'.at \in {Following, "failed"} /\ job'.service = job.service
    BY <1>3, <2>0, <2>2, UsualIs DEF Advances, Broken, Refused, Ends, SameTask
  <2>3. Fails \/ Refuse => job'.at = "failed"
    BY <1>3, AbortIs, RefuseIs DEF Fails, Broken, Refused, Ends
  <2>4. CASE job.at = "local_root"
    BY <1>3, <2>1, <2>2, <2>4, Dispatch DEF LocalServiceRoot, Usual
  <2>5. CASE job.at = "compose_down"
    <3>1. ComposeDown /\ shape' = shape
      BY <1>3, <2>5, Dispatch, PhaseOfAction
    <3>2. Usual
      BY <3>1 DEF ComposeDown, Usual
    <3>3. \/ Fails \/ Refuse
          \/ job.service \notin shape.infra /\ project' = [project EXCEPT ![job.service] = NoProject]
      BY <2>0, <3>1 DEF ComposeDown, StopProject
    <3> QED  BY <2>0, <2>1, <2>2, <2>3, <2>5, <3>1, <3>2, <3>3
  <2>6. CASE job.at = "compose_up"
    <3>1. ComposeUp /\ dir' = dir
      BY <1>3, <2>6, Dispatch, PhaseOfAction
    <3>2. Usual /\ job.service \notin shape.infra /\ project[job.service] = NoProject
      BY <1>3, <2>6, <3>1 DEF ComposeUp, Usual, RestartInv
    <3>3. PICK force \in BOOLEAN :
            Fails \/ project' = [project EXCEPT ![job.service] = AfterUp(job.service, force)]
      BY <3>1, <3>2 DEF ComposeUp
    <3>4. AfterUp(job.service, force) =
            [rev |-> dir[job.service].rev, id |-> dir[job.service].id, on |-> TRUE]
      BY <2>0, <3>2, AfterUpIs
    <3> QED  BY <2>0, <2>1, <2>2, <2>3, <2>6, <3>1, <3>2, <3>3, <3>4
  <2> QED  BY <2>1, <2>4, <2>5, <2>6
<1> QED  BY <1>1, <1>2, <1>3, Onward

-----------------------------------------------------------------------------
(* Deployments and updates *)

LEMMA InstallOrder ==
  ASSUME job.type \in {"deploy", "update"}, PhaseOK
  PROVE  /\ job.at \in {"stage", "clear_bak", "move_old", "activate", "drop_bak", "done", "failed"} \cup Pulled
         /\ job.at = "stage" => Following = "clear_bak"
         /\ job.at = "clear_bak" => Following = "move_old"
         /\ job.at = "move_old" => Following = "activate"
         /\ job.at = "activate" => Following = "drop_bak"
         /\ job.at = "drop_bak" => Following \in {"pull", "compose_up"}
         /\ job.at = "pull" => Following = "compose_up"
         /\ job.at = "compose_up" => Following = "caddy_write"
         /\ job.at = "caddy_write" => Following = "finalize"
         /\ job.at = "finalize" => Following = "done"
<1>1. CASE job.type = "deploy"
  BY <1>1, DeployOrder DEF Pulled, Upped
<1>2. CASE job.type = "update"
  BY <1>2, UpdateOrder DEF Pulled, Upped
<1> QED  BY <1>1, <1>2

\* What a phase leaves when it fails: the old directory or the new one.
LEMMA DeployFailed ==
  ASSUME job'.at = "failed",
         job'.before.installed /\ job'.faults <= 1 => dir'[job'.service] # NoDir
  PROVE  (NewDirectory /\ NewContainers /\ NewCaddyFile /\ OldDirectory)'
  BY DEF NewDirectory, NewContainers, NewCaddyFile, OldDirectory, Pulled, Upped, Installed

LEMMA DeployStep ==
  ASSUME WorkTypeOK, PhaseInv, ItemsInv, DeployInv, WorkNext
  PROVE  DeployInv'
<1> DEFINE types == {"deploy", "update"}
           Facts == NewDirectory /\ NewContainers /\ NewCaddyFile /\ OldDirectory
<1> SUFFICES ASSUME Is(types)' PROVE Facts'
  BY DEF DeployInv
<1>1. CASE \E type \in types, s \in WorkServices : Begins(type, s) /\ World
  <2>1. PICK type \in types, s \in WorkServices : Begins(type, s) /\ World
    BY <1>1
  <2>2. job'.at = "stage"
    BY <2>1 DEF Begins, PhasesOf
  <2> QED
    BY <2>1, <2>2 DEF Begins, World, NewDirectory, NewContainers, NewCaddyFile, OldDirectory, Pulled, Upped,
       Installed
<1>2. CASE Is(types) /\ World /\ UNCHANGED job
  BY <1>2 DEF DeployInv, World, NewDirectory, NewContainers, NewCaddyFile, OldDirectory, Installed
<1>3. CASE Is(types) /\ World /\ Cancels
  <2>1. NewDirectory /\ NewContainers /\ NewCaddyFile /\ OldDirectory
    BY <1>3 DEF DeployInv
  <2>2. NewDirectory' /\ NewContainers' /\ NewCaddyFile'
    BY <1>3, <2>1 DEF World, Cancels, SameTask, NewDirectory, NewContainers, NewCaddyFile
  <2>3. job'.faults <= 1 => job.faults <= 1
    BY <1>3, AtWorkIsJob DEF Cancels, SameTask, Jobs, Is
  <2>4. OldDirectory'
    BY <1>3, <2>1, <2>3 DEF World, Cancels, SameTask, OldDirectory, Installed
  <2> QED  BY <2>2, <2>4
<1>4. CASE WorkPhase /\ Is(types) /\ AtPhase
  <2> DEFINE s == job.service
  <2>0. /\ job.type \in types /\ s \in WorkServices /\ workFaults \in Nat /\ job.rev \in Nat \ {0}
        /\ dir \in [WorkServices -> Dirs] /\ bak \in [WorkServices -> Dirs]
        /\ project \in [WorkServices -> Projects] /\ generated \in [WorkServices -> Nat]
        /\ PhaseOK /\ job.at \notin {"done", "failed"}
    BY <1>4 DEF Is, AtPhase, Jobs, WorkTypeOK
  <2>1. Facts
    BY <1>4 DEF DeployInv
  <2>2. Advances => job'.at = Following /\ SameTask
    BY DEF Advances
  <2>3. Broken \/ Refused => job'.at = "failed" /\ SameTask
    BY DEF Broken, Refused, Ends
  <2>4. GoOn \/ Proceed => Advances
    BY <1>4, GoOnIs DEF Proceed
  <2>5. Abort \/ Fails => Broken
    BY <1>4, AbortIs DEF Fails
  <2>6. ASSUME job'.at = "failed", SameTask, dir' = dir,
               job.at \in {"stage", "clear_bak", "move_old", "drop_bak"} \cup Pulled
        PROVE  Facts'
    <3>1. job.before.installed => dir[s] # NoDir
      BY <2>0, <2>1, <2>6 DEF NewDirectory, OldDirectory, Installed, NoDir
    <3>2. job'.before = job.before /\ job'.service = s
      BY <2>6 DEF SameTask
    <3> QED  BY <2>6, <3>1, <3>2, DeployFailed
  <2>7. CASE job.at = "stage"
    <3>1. (Advances \/ Broken) /\ dir' = dir
      BY <1>4, <2>4, <2>5, <2>7, Dispatch, PhaseOfAction DEF StageBundle
    <3>2. CASE Broken
      BY <2>3, <2>6, <2>7, <3>1, <3>2
    <3>3. CASE Advances
      <4>1. job'.at = "clear_bak" /\ SameTask
        BY <2>0, <2>2, <2>7, <3>3, InstallOrder
      <4> QED
        BY <2>1, <2>7, <3>1, <4>1 DEF SameTask, NewDirectory, NewContainers, NewCaddyFile, OldDirectory,
           Pulled, Upped, Installed
    <3> QED  BY <3>1, <3>2, <3>3
  <2>8. CASE job.at = "clear_bak"
    <3>1. (Advances \/ Broken) /\ dir' = dir
      BY <1>4, <2>4, <2>5, <2>8, Dispatch, PhaseOfAction DEF RemoveOldBackup
    <3>2. CASE Broken
      BY <2>3, <2>6, <2>8, <3>1, <3>2
    <3>3. CASE Advances
      <4>1. job'.at = "move_old" /\ SameTask
        BY <2>0, <2>2, <2>8, <3>3, InstallOrder
      <4> QED
        BY <2>1, <2>8, <3>1, <4>1 DEF SameTask, NewDirectory, NewContainers, NewCaddyFile, OldDirectory,
           Pulled, Upped, Installed
    <3> QED  BY <3>1, <3>2, <3>3
  <2>9. CASE job.at = "move_old"
    <3>1. \/ Advances /\ bak' = [bak EXCEPT ![s] = dir[s]]
          \/ Broken /\ dir' = dir
      BY <1>4, <2>4, <2>5, <2>9, Dispatch DEF MoveOldAway, installedVars
    <3>2. CASE Broken /\ dir' = dir
      BY <2>3, <2>6, <2>9, <3>2
    <3>3. CASE Advances /\ bak' = [bak EXCEPT ![s] = dir[s]]
      <4>1. job'.at = "activate" /\ SameTask
        BY <2>0, <2>2, <2>9, <3>3, InstallOrder
      <4>2. bak'[s] = dir[s] /\ (job.before.installed => dir[s] # NoDir)
        BY <2>0, <2>1, <2>9, <3>3 DEF OldDirectory, Installed
      <4> QED
        BY <4>1, <4>2 DEF SameTask, NewDirectory, NewContainers, NewCaddyFile, OldDirectory, Pulled, Upped
    <3> QED  BY <3>1, <3>2, <3>3
  <2>10. CASE job.at = "activate"
    <3>1. ActivateStaged
      BY <1>4, <2>10, Dispatch
    <3>2. CASE GoOn /\ dir' = [dir EXCEPT ![s] = [rev |-> job.rev, id |-> job.id]]
      <4>1. job'.at = "drop_bak" /\ SameTask
        BY <2>0, <2>2, <2>4, <2>10, <3>2, InstallOrder
      <4>2. dir'[s] = [rev |-> job.rev, id |-> job.id]
        BY <2>0, <3>2
      <4> QED
        BY <4>1, <4>2 DEF SameTask, NewDirectory, NewContainers, NewCaddyFile, OldDirectory, Pulled, Upped
    <3>3. CASE Abort /\ PutBack
      <4>1. job'.at = "failed" /\ SameTask
        BY <2>3, <2>5, <3>3
      <4>2. dir'[s] = bak[s] /\ (job.before.installed => bak[s] # NoDir)
        BY <2>0, <2>1, <2>10, <3>3 DEF PutBack, OldDirectory
      <4>3. job'.before = job.before /\ job'.service = s
        BY <4>1 DEF SameTask
      <4> QED  BY <4>1, <4>2, <4>3, DeployFailed
    <3>4. CASE job' = [job EXCEPT !.at = "failed", !.origin = job.at, !.faults = @ + 2]
      <4>1. Broken /\ job'.faults > 1
        BY <1>4, <3>4, ActivateTwice
      <4>2. job'.at = "failed" /\ SameTask
        BY <2>3, <4>1
      <4>3. ~(job'.faults <= 1)
        BY <4>1, <4>2 DEF SameTask, Jobs
      <4> QED  BY <4>2, <4>3, DeployFailed
    <3> QED  BY <3>1, <3>2, <3>3, <3>4 DEF ActivateStaged
  <2>11. CASE job.at = "drop_bak"
    <3>1. /\ dir' = dir
          /\ \/ Advances /\ bak' = [bak EXCEPT ![s] = NoDir]
             \/ Broken
      BY <1>4, <2>4, <2>5, <2>11, Dispatch, PhaseOfAction DEF DropBackup
    <3>2. CASE Broken
      BY <2>3, <2>6, <2>11, <3>1, <3>2
    <3>3. CASE Advances /\ bak' = [bak EXCEPT ![s] = NoDir]
      <4>1. job'.at \in {"pull", "compose_up"} /\ SameTask
        BY <2>0, <2>2, <2>11, <3>3, InstallOrder
      <4>2. bak'[s] = NoDir /\ dir'[s] = [rev |-> job.rev, id |-> job.id]
        BY <2>0, <2>1, <2>11, <3>1, <3>3 DEF NewDirectory
      <4> QED
        BY <4>1, <4>2 DEF SameTask, NewDirectory, NewContainers, NewCaddyFile, OldDirectory, Pulled, Upped
    <3> QED  BY <3>1, <3>2, <3>3
  <2>12. CASE job.at \in {"pull", "finalize"}
    <3>1. (Advances \/ Broken) /\ UNCHANGED <<shape, dir, bak, project, generated>>
      BY <1>4, <2>4, <2>5, <2>12, Dispatch, PhaseOfAction DEF RunCommand
    <3>2. CASE Broken
      BY <2>3, <2>6, <2>12, <3>1, <3>2 DEF Pulled, Upped
    <3>3. CASE Advances
      <4>1. SameTask /\ job'.at = (IF job.at = "pull" THEN "compose_up" ELSE "done")
        BY <2>0, <2>2, <2>12, <3>3, InstallOrder
      <4>2. SameTask /\ job'.at \in {"compose_up", "done"}
        BY <4>1
      <4> QED
        BY <2>1, <2>12, <3>1, <4>1, <4>2 DEF SameTask, NewDirectory, NewContainers, NewCaddyFile,
           OldDirectory, Pulled, Upped
    <3> QED  BY <3>1, <3>2, <3>3
  <2>13. CASE job.at = "compose_up"
    <3>0. /\ ComposeUp /\ UNCHANGED <<shape, dir, bak, generated>>
      BY <1>4, <2>13, Dispatch, PhaseOfAction
    <3>1. PICK force \in BOOLEAN : force = resolveComposeForceRecreate(s, job.mode)
      BY DEF resolveComposeForceRecreate
    <3>2. \/ Broken
          \/ Advances /\ s \in shape.infra
          \/ Advances /\ project' = [project EXCEPT ![s] = AfterUp(s, force)]
      BY <2>0, <2>4, <2>5, <3>0, <3>1 DEF ComposeUp
    <3>3. CASE Broken
      BY <2>3, <2>6, <2>13, <3>0, <3>3 DEF Pulled
    <3>4. CASE Advances /\ (s \in shape.infra \/ project' = [project EXCEPT ![s] = AfterUp(s, force)])
      <4>1. job'.at = "caddy_write" /\ SameTask
        BY <2>0, <2>2, <2>13, <3>4, InstallOrder
      <4>2. dir[s] = [rev |-> job.rev, id |-> job.id] /\ bak[s] = NoDir
        BY <2>1, <2>13 DEF NewDirectory, Pulled
      <4>3. /\ AfterUp(s, force).on = TRUE /\ AfterUp(s, force).rev = job.rev
            /\ force => AfterUp(s, force) = [rev |-> job.rev, id |-> job.id, on |-> TRUE]
        <5>1. dir[s].rev = job.rev /\ dir[s].id = job.id
          BY <4>2
        <5> QED  BY <2>0, <5>1, AfterUpIs
      <4>4. s \in shape.mounts /\ job.mode # "no" => force
        BY <1>4, <3>1 DEF resolveComposeForceRecreate, AtPhase, Jobs
      <4>5. s \notin shape.infra => project'[s] = AfterUp(s, force)
        BY <2>0, <3>4
      <4>6. NewContainers'
        BY <3>0, <4>1, <4>3, <4>4, <4>5 DEF SameTask, NewContainers
      <4> QED
        BY <3>0, <4>1, <4>2, <4>6 DEF SameTask, NewDirectory, NewCaddyFile, OldDirectory, Pulled, Upped
    <3> QED  BY <3>2, <3>3, <3>4
  <2>14. CASE job.at = "caddy_write"
    <3>1. /\ UNCHANGED <<shape, dir, bak, project>>
          /\ Broken \/ (Advances /\ generated' = Written(s))
      BY <1>4, <2>4, <2>5, <2>14, Dispatch, PhaseOfAction DEF CaddyWrite
    <3>2. CASE Broken
      BY <2>3, <2>6, <2>14, <3>1, <3>2 DEF Pulled, Upped
    <3>3. CASE Advances /\ generated' = Written(s)
      <4>1. job'.at = "finalize" /\ SameTask
        BY <2>0, <2>2, <2>14, <3>3, InstallOrder
      <4>2. dir[s] = [rev |-> job.rev, id |-> job.id] /\ bak[s] = NoDir
        BY <2>1, <2>14 DEF NewDirectory, Pulled, Upped
      <4>3. <<s, job.rev>> \in shape.caddy => generated'[s] = job.rev
        BY <2>0, <3>3, <4>2 DEF Written
      <4> QED
        BY <2>1, <2>14, <3>1, <4>1, <4>2, <4>3 DEF SameTask, NewDirectory, NewContainers, NewCaddyFile,
           OldDirectory, Pulled, Upped
    <3> QED  BY <3>1, <3>2, <3>3
  <2> QED
    BY <2>0, <2>7, <2>8, <2>9, <2>10, <2>11, <2>12, <2>13, <2>14, InstallOrder DEF Pulled, Upped
<1> QED  BY <1>1, <1>2, <1>3, <1>4, Onward

-----------------------------------------------------------------------------
(* Backups and restores *)

LEMMA ItemOrder ==
  ASSUME job.type \in {"backup", "restore"}, PhaseOK
  PROVE  /\ job.at \in {"verify", "cold_stop", "done", "failed"} \cup ItemPhases
         /\ job.at = "verify" => Following = "cold_stop"
         /\ job.at = "cold_stop" => Following = IF job.type = "backup" THEN "read_first" ELSE "clear"
         /\ job.at = "read_first" => Following = "read_rest"
         /\ job.at \in {"read_rest", "fill"} => Following = "cold_start"
         /\ job.at = "clear" => Following = "fill"
<1>1. CASE job.type = "backup"
  BY <1>1, BackupOrder DEF ItemPhases
<1>2. CASE job.type = "restore"
  BY <1>2, RestoreOrder DEF ItemPhases
<1> QED  BY <1>1, <1>2

\* From one phase of an item to the next the project is left alone.
LEMMA ItemGoesOn ==
  ASSUME ItemAtHand, StartOwed, SameTask, job.at \in ItemPhases, job'.at \in ItemPhases,
         job'.item = job.item, job'.restart = job.restart, UNCHANGED <<shape, project>>
  PROVE  (ItemAtHand /\ StartOwed)'
<1>1. ItemAtHand'
  BY DEF ItemAtHand, SameTask
<1>2. StartOwed'
  BY DEF StartOwed, SameTask, ItemPhases, Running
<1> QED  BY <1>1, <1>2

\* A failure is followed by nothing that the invariant speaks of, unless
\* nothing broke or the files did not match.
LEMMA ItemAborted ==
  ASSUME ItemAtHand, SameTask, job'.at = "failed", job'.origin # "verify", job'.faults > 0, job'.faults \in Nat
  PROVE  (ItemAtHand /\ StartOwed)'
<1>1. ItemAtHand'
  BY DEF ItemAtHand, SameTask, ItemPhases
<1>2. StartOwed'
  BY DEF StartOwed, ItemPhases
<1> QED  BY <1>1, <1>2

LEMMA ItemsStep ==
  ASSUME WorkTypeOK, PhaseInv, ItemsInv, InfraInv, WorkNext
  PROVE  ItemsInv'
<1> DEFINE types == {"backup", "restore"}
<1> SUFFICES ASSUME Is(types)' PROVE (ItemAtHand /\ StartOwed)'
  BY DEF ItemsInv
<1>1. CASE \E type \in types, s \in WorkServices : Begins(type, s) /\ World
  <2>1. PICK type \in types, s \in WorkServices : Begins(type, s) /\ World
    BY <1>1
  <2>2. job'.at = "verify"
    BY <2>1 DEF Begins, PhasesOf
  <2>3. ItemAtHand'
    BY <2>1, <2>2 DEF Begins, ItemAtHand, ItemPhases
  <2>4. StartOwed'
    BY <2>1, <2>2 DEF Begins, World, StartOwed, Running
  <2> QED  BY <2>3, <2>4
<1>2. CASE Is(types) /\ World /\ UNCHANGED job
  BY <1>2 DEF ItemsInv, World, ItemAtHand, StartOwed, Running
<1>3. CASE Is(types) /\ World /\ Cancels
  <2>1. ItemAtHand /\ StartOwed
    BY <1>3 DEF ItemsInv
  <2>2. ItemAtHand'
    BY <1>3, <2>1 DEF Cancels, SameTask, SameItem, ItemAtHand
  <2>3. job'.faults # 0
    BY <1>3 DEF Cancels, SameTask, Jobs
  <2>4. StartOwed'
    BY <1>3, <2>1, <2>3 DEF World, Cancels, SameTask, SameItem, StartOwed, Running
  <2> QED  BY <2>2, <2>4
<1>4. CASE WorkPhase /\ Is(types) /\ AtPhase
  <2> DEFINE s == job.service
  <2>0. /\ job \in Jobs /\ job.type \in types /\ s \in WorkServices /\ workFaults \in Nat
        /\ project \in [WorkServices -> Projects] /\ job.origin = "none"
        /\ PhaseOK /\ job.at \notin {"done", "failed"}
    BY <1>4 DEF Is, AtPhase, Jobs, WorkTypeOK
  <2>1. ItemAtHand /\ StartOwed
    BY <1>4 DEF ItemsInv
  <2>2. job.at \in {"verify", "cold_stop"} => ~job.restart /\ Running(s) = job.before.on
    BY <2>1 DEF StartOwed, ItemPhases
  <2>3. CASE job.at = "verify"
    <3>1. CheckTaskServiceFiles /\ UNCHANGED <<shape, project>>
      BY <1>4, <2>3, Dispatch, PhaseOfAction
    <3>2. /\ SameTask /\ job'.restart = job.restart
          /\ job'.at \in {"verify", "cold_stop"} \/ job'.at = "failed"
      <4>1. CASE Usual
        BY <1>4, <2>0, <2>3, <4>1, UsualIs, ItemOrder DEF Advances, Broken, Refused, Ends, SameItem
      <4>2. ASSUME NEW x \in job.verify, job' = [job EXCEPT !.verify = @ \ {x}]
            PROVE  SameTask /\ job'.restart = job.restart /\ job'.at = "verify"
        BY <1>4, <2>3, <4>2, OneVerifiedIs DEF OneVerified
      <4> QED  BY <3>1, <4>1, <4>2 DEF CheckTaskServiceFiles, Usual
    <3>3. ItemAtHand'
      BY <2>1, <3>2 DEF ItemAtHand, SameTask, ItemPhases
    <3>4. StartOwed'
      BY <2>2, <2>3, <3>1, <3>2 DEF StartOwed, SameTask, Running
    <3> QED  BY <3>3, <3>4
  <2>4. CASE job.at = "cold_stop"
    <3>1. ColdStop /\ shape' = shape
      BY <1>4, <2>4, Dispatch, PhaseOfAction
    <3>2. CASE Fails
      <4>1. SameTask /\ job'.at = "failed" /\ job'.origin = "cold_stop" /\ job'.faults > 0
        BY <1>4, <2>4, <3>2, AbortIs DEF Fails, Broken, Ends
      <4> QED  BY <2>1, <4>1, ItemAborted DEF SameTask, Jobs
    <3>3. ASSUME NEW i \in job.items, job' = [job EXCEPT !.at = Following, !.item = i],
                 UNCHANGED project
          PROVE  (ItemAtHand /\ StartOwed)'
      <4>1. i \in DataItems
        BY <2>0 DEF Jobs
      <4>2. ItemBegins(i, job.restart)
        BY <1>4, <3>3, <4>1, ItemBeginsIs
      <4>3. SameTask /\ job'.at \in ItemPhases /\ job'.item = i /\ ~job'.restart
        BY <2>0, <2>2, <2>4, <4>2, ItemOrder DEF ItemBegins, ItemPhases
      <4>4. ItemAtHand'
        BY <2>1, <4>1, <4>3 DEF ItemAtHand, SameTask
      <4>5. StartOwed'
        BY <2>2, <2>4, <3>3, <4>3 DEF StartOwed, SameTask, Running, ItemPhases
      <4> QED  BY <4>4, <4>5
    <3>4. ASSUME NEW i \in job.items, StopsFor(i), StopProject(s),
                 job' = [job EXCEPT !.at = Following, !.item = i, !.restart = TRUE]
          PROVE  (ItemAtHand /\ StartOwed)'
      <4>1. i \in DataItems
        BY <2>0 DEF Jobs
      <4>2. ItemBegins(i, TRUE)
        BY <1>4, <3>4, <4>1, ItemBeginsIs
      <4>3. SameTask /\ job'.at \in ItemPhases /\ job'.item = i /\ job'.restart = TRUE
        BY <2>0, <2>2, <2>4, <4>2, ItemOrder DEF ItemBegins, ItemPhases
      <4>4. ItemAtHand'
        BY <2>1, <4>1, <4>3 DEF ItemAtHand, SameTask
      <4>5. project'[s] = NoProject /\ Running(s) /\ project[s] # NoProject
        BY <2>0, <3>4 DEF StopProject, StopsFor, SeenRunning, ProjectSeen
      <4>6. s \notin shape.infra /\ job.before.on
        BY <2>0, <2>2, <2>4, <4>5 DEF InfraInv
      <4>7. StartOwed'
        BY <3>1, <4>3, <4>5, <4>6 DEF StartOwed, SameTask, ItemPhases
      <4> QED  BY <4>4, <4>7
    <3> QED  BY <3>1, <3>2, <3>3, <3>4 DEF ColdStop
  <2>5. CASE job.at \in ItemPhases \ {"cold_start"}
    <3>1. /\ ReadFirst \/ ReadRest \/ ClearTargets \/ FillTargets
          /\ UNCHANGED <<shape, project>>
      BY <1>4, <2>5, Dispatch, PhaseOfAction DEF ItemPhases
    <3>2. /\ SameTask /\ job'.item = job.item /\ job'.restart = job.restart
          /\ job'.at \in ItemPhases
      <4>1. CASE Proceed
        <5>1. Advances
          BY <1>4, <4>1, GoOnIs DEF Proceed
        <5> QED  BY <2>0, <2>5, <5>1, ItemOrder DEF Advances, SameItem, ItemPhases
      <4>2. CASE ItemFails \/ ItemRefused
        BY <1>4, <2>0, <4>2, ItemFailsIs DEF ItemEnds, ItemPhases
      <4>3. CASE ReadFirst /\ job' = [job EXCEPT !.at = Following, !.copy = data[job.item]]
        <5>1. data[job.item] \in Nat
          BY <2>1, <2>5 DEF ItemAtHand, WorkTypeOK
        <5>2. ItemRead(data[job.item])
          BY <1>4, <4>3, <5>1, ItemReadIs
        <5> QED  BY <2>0, <2>5, <4>3, <5>2, ItemOrder, PhaseOfAction DEF ItemRead, ItemPhases
      <4> QED  BY <3>1, <4>1, <4>2, <4>3 DEF ReadFirst, ReadRest, ClearTargets, FillTargets
    <3> QED  BY <2>1, <2>5, <3>1, <3>2, ItemGoesOn
  <2>6. CASE job.at = "cold_start"
    <3>1. ColdStart /\ shape' = shape
      BY <1>4, <2>6, Dispatch, PhaseOfAction
    <3>2. CASE Fails \/ (job.cancelled /\ job' = [job EXCEPT !.at = "failed", !.origin = "cold_start"])
      <4>1. Broken
        BY <1>4, <2>6, <3>2, AbortIs, ColdStartCancelled DEF Fails
      <4>2. SameTask /\ job'.at = "failed" /\ job'.origin = "cold_start" /\ job'.faults > 0
        BY <2>6, <4>1 DEF Broken, Ends
      <4> QED  BY <2>1, <4>2, ItemAborted DEF SameTask, Jobs
    <3>3. ASSUME NEW at \in {"failed", "done", "cold_stop"},
                 job' = [job EXCEPT !.at = at, !.items = job.items \ {job.item}, !.item = "none",
                                    !.copy = 0, !.restart = FALSE],
                 project' = IF job.restart THEN [project EXCEPT ![s] = AfterUp(s, FALSE)] ELSE project
          PROVE  (ItemAtHand /\ StartOwed)'
      <4>1. ItemDone(at)
        BY <1>4, <3>3, ItemDoneIs DEF Ats, Phases
      <4>2. ItemAtHand'
        BY <2>1, <4>1 DEF ItemAtHand, ItemDone, SameTask, ItemPhases
      <4>3. AfterUp(s, FALSE).on = TRUE
        BY <2>0, AfterUpIs
      <4>4. project'[s].on = job.before.on
        <5>1. CASE job.restart
          <6>1. job.before.on = TRUE
            BY <2>0, <2>1, <2>6, <5>1 DEF StartOwed, Jobs, Befores
          <6>2. project'[s] = AfterUp(s, FALSE)
            BY <2>0, <3>3, <5>1
          <6> QED  BY <4>3, <6>1, <6>2
        <5>2. CASE ~job.restart
          BY <2>1, <2>6, <3>3, <5>2 DEF StartOwed, Running
        <5> QED  BY <5>1, <5>2
      <4>5. StartOwed'
        BY <4>1, <4>4 DEF StartOwed, ItemDone, SameTask, Running
      <4> QED  BY <4>2, <4>5
    <3> QED  BY <3>1, <3>2, <3>3 DEF ColdStart
  <2> QED  BY <2>0, <2>3, <2>4, <2>5, <2>6, ItemOrder
<1> QED  BY <1>1, <1>2, <1>3, <1>4, Onward

\* While an item of a project that is found is copied cold, nothing writes to it.
LEMMA ColdStep ==
  ASSUME WorkTypeOK, PhaseInv, ItemsInv, ColdInv, WorkNext
  PROVE  ColdInv'
<1> SUFFICES ASSUME Is({"backup"})', DataService \in shape'.named,
                    job'.at \in {"read_first", "read_rest"}, StrategyOf[job'.item] = Cold
             PROVE  /\ ~Running(DataService)'
                    /\ job'.at = "read_rest" => job'.copy = data'[job'.item]
  BY DEF ColdInv
<1>1. CASE \E type \in {"backup"}, s \in WorkServices : Begins(type, s) /\ World
  BY <1>1 DEF Begins, PhasesOf
<1>2. CASE Is({"backup"}) /\ Cancels /\ World /\ UNCHANGED data
  BY <1>2 DEF ColdInv, World, Cancels, SameTask, SameItem, Running
<1>3. CASE Is({"backup"}) /\ UNCHANGED job /\ World /\ Running(DataService)
  BY <1>3 DEF ColdInv, World, Running
<1>4. CASE WorkPhase /\ Is({"backup"}) /\ AtPhase
  <2>0. /\ job \in Jobs /\ job.type = "backup" /\ job.service = DataService /\ DataService \in WorkServices
        /\ project \in [WorkServices -> Projects] /\ workFaults \in Nat
        /\ PhaseOK /\ job.at \notin {"done", "failed"}
    BY <1>4 DEF Is, AtPhase, Jobs, WorkTypeOK, ItemsInv, ItemAtHand
  <2>1. /\ job.at \in {"verify", "cold_stop", "read_first", "read_rest", "cold_start"}
        /\ job.at = "verify" => Following = "cold_stop"
        /\ job.at = "cold_stop" => Following = "read_first"
        /\ job.at = "read_first" => Following = "read_rest"
        /\ job.at = "read_rest" => Following = "cold_start"
    BY <2>0, BackupOrder
  <2>2. Usual => job'.at \in {Following, "failed"}
    BY <1>4, <2>0, UsualIs DEF Advances, Broken, Refused, Ends
  <2>3. ItemFails \/ ItemRefused => job'.at = "cold_start"
    BY <1>4, <2>0, ItemFailsIs DEF ItemEnds
  <2>4. CASE job.at = "verify"
    <3>1. \A x \in job.verify : job' = [job EXCEPT !.verify = @ \ {x}] => job'.at = "verify"
      BY <1>4, <2>4, OneVerifiedIs DEF OneVerified
    <3> QED  BY <1>4, <2>1, <2>2, <2>4, <3>1, Dispatch DEF CheckTaskServiceFiles, Usual
  <2>5. CASE job.at = "cold_stop"
    <3>1. ColdStop /\ shape' = shape
      BY <1>4, <2>5, Dispatch, PhaseOfAction
    <3>2. ~Fails
      BY <2>1, <2>2, <2>5, AbortIs, <1>4 DEF Fails, Broken, Ends
    <3>3. PICK i \in job.items :
            \/ ~StopsFor(i) /\ job' = [job EXCEPT !.at = Following, !.item = i] /\ UNCHANGED project
            \/ /\ job' = [job EXCEPT !.at = Following, !.item = i, !.restart = TRUE]
               /\ StopProject(job.service)
      BY <3>1, <3>2 DEF ColdStop
    <3>4. job'.item = i /\ job'.at = "read_first"
      <4>1. i \in DataItems
        BY <2>0 DEF Jobs
      <4> QED  BY <1>4, <2>1, <2>5, <3>3, <4>1, ItemBeginsIs DEF ItemBegins
    <3>5. CASE ~StopsFor(i) /\ UNCHANGED project
      <4>1. ~SeenRunning(DataService)
        BY <2>0, <3>4, <3>5 DEF StopsFor
      <4>2. project[DataService] = NoProject \/ ~Running(DataService)
        BY <3>1, <4>1 DEF SeenRunning, ProjectSeen
      <4>3. ~project[DataService].on
        BY <4>2, Blanks DEF Running
      <4> QED  BY <3>4, <3>5, <4>3 DEF Running
    <3>6. CASE StopProject(job.service)
      <4>1. project'[DataService] = NoProject
        BY <2>0, <3>6 DEF StopProject
      <4> QED  BY <3>4, <4>1, Blanks DEF Running
    <3> QED  BY <3>3, <3>5, <3>6
  <2>6. CASE job.at = "read_first"
    <3>1. ReadFirst /\ UNCHANGED <<shape, project, data>>
      BY <1>4, <2>6, Dispatch, PhaseOfAction
    <3>2. job' = [job EXCEPT !.at = Following, !.copy = data[job.item]]
      BY <2>3, <3>1 DEF ReadFirst
    <3>3. data[job.item] \in Nat
      BY <1>4, <2>6 DEF ItemsInv, ItemAtHand, Is, ItemPhases, WorkTypeOK
    <3>4. job'.item = job.item /\ job'.copy = data[job.item]
      BY <1>4, <3>2, <3>3, ItemReadIs DEF ItemRead
    <3>5. ~Running(DataService)
      BY <1>4, <2>6, <3>1, <3>4 DEF ColdInv
    <3> QED  BY <3>1, <3>4, <3>5 DEF Running
  <2>7. CASE job.at = "read_rest"
    BY <1>4, <2>1, <2>2, <2>3, <2>7, Dispatch DEF ReadRest, Usual
  <2>8. CASE job.at = "cold_start"
    <3>1. ColdStart
      BY <1>4, <2>8, Dispatch
    <3>2. job'.at \in {"failed", "done", "cold_stop"}
      BY <1>4, <2>0, <3>1, AbortIs DEF ColdStart, Jobs, Fails, Broken, Ends
    <3> QED  BY <3>2
  <2> QED  BY <2>1, <2>4, <2>5, <2>6, <2>7, <2>8
<1> QED  BY <1>1, <1>2, <1>3, <1>4, Onward

-----------------------------------------------------------------------------
(* Caddy files *)

\* A Caddy sync in its three phases.
SyncFacts ==
  /\ Running(job.service) = job.before.on
  /\ job.at = "verify" \/ job.origin = "verify" => generated = job.before.generated
  /\ job.full => Verified /\ Rebuilt

LEMMA SyncVerifies ==
  ASSUME WorkTypeOK, AtPhase, job.type = "caddy_sync", SyncFacts, job.at = "verify",
         CheckTaskServiceFiles
  PROVE  SyncFacts'
<1>0. /\ UNCHANGED <<shape, dir, project, generated>> /\ Following = "remove_generated"
      /\ job.sources = CaddyServices(job.rev) \/ ~job.full
  BY PhaseOfAction, SyncOrder DEF AtPhase, SyncFacts, Verified
<1>1. CASE Broken \/ Refused
  <2>1. SameTask /\ job'.at = "failed"
    BY <1>1 DEF Broken, Refused, Ends
  <2> QED  BY <1>0, <2>1 DEF SyncFacts, SameTask, Verified, Rebuilt, Running
<1>2. CASE job.verify = {} /\ Advances
  <2>1. /\ SameTask /\ job'.at = "remove_generated" /\ job'.origin = job.origin
        /\ job'.sources = job.sources
    BY <1>0, <1>2 DEF Advances, SameItem
  <2> QED  BY <1>0, <1>2, <2>1 DEF SyncFacts, SameTask, Verified, Rebuilt, Running, CaddyServices
<1>3. ASSUME NEW s \in job.verify, dir[s].rev = job.rev, job' = [job EXCEPT !.verify = @ \ {s}]
      PROVE  SyncFacts'
  <2>1. OneVerified(s)
    BY <1>3, OneVerifiedIs
  <2>2. /\ SameTask /\ job'.at = "verify" /\ job'.sources = job.sources
        /\ job'.verify = job.verify \ {s}
    BY <2>1 DEF OneVerified
  <2>3. job.full => \A x \in CaddyServices(job.rev) \ job'.verify : dir[x].rev = job.rev
    BY <1>3, <2>2 DEF SyncFacts, Verified
  <2> QED  BY <1>0, <2>2, <2>3 DEF SyncFacts, SameTask, Verified, Rebuilt, Running, CaddyServices
<1> QED
  BY <1>1, <1>2, <1>3, GoOnIs, AbortIs, RefuseIs DEF CheckTaskServiceFiles, Fails

LEMMA SyncRemoves ==
  ASSUME WorkTypeOK, AtPhase, job.type = "caddy_sync", SyncFacts, job.at = "remove_generated",
         RemoveGenerated
  PROVE  SyncFacts'
<1>0. /\ UNCHANGED <<shape, dir, project>> /\ Following = "write_generated" /\ job.origin = "none"
      /\ job.full => job.sources = CaddyServices(job.rev)
      /\ job.full => \A s \in CaddyServices(job.rev) : dir[s].rev = job.rev
  BY PhaseOfAction, SyncOrder DEF AtPhase, SyncFacts, Verified
<1>1. CASE Broken
  <2>1. SameTask /\ job'.at = "failed" /\ job'.origin = "remove_generated"
    BY <1>1 DEF Broken, Ends
  <2> QED  BY <1>0, <2>1 DEF SyncFacts, SameTask, Verified, Rebuilt, Running
<1>2. CASE Advances /\ (job.full => generated' = [s \in WorkServices |-> 0])
  <2>1. /\ SameTask /\ job'.at = "write_generated" /\ job'.origin = job.origin
        /\ job'.sources = job.sources
    BY <1>0, <1>2 DEF Advances, SameItem
  <2> QED  BY <1>0, <1>2, <2>1 DEF SyncFacts, SameTask, Verified, Rebuilt, Running, CaddyServices
<1> QED  BY <1>1, <1>2, GoOnIs, AbortIs DEF RemoveGenerated

LEMMA SyncWrites ==
  ASSUME WorkTypeOK, AtPhase, job.type = "caddy_sync", SyncFacts, job.at = "write_generated",
         WriteGenerated
  PROVE  SyncFacts'
<1>0. /\ UNCHANGED <<shape, dir, project>> /\ Following = "done" /\ job.origin = "none"
      /\ job.full => Verified /\ Rebuilt
      /\ generated \in [WorkServices -> Nat] /\ job.sources \subseteq WorkServices
  BY PhaseOfAction, SyncOrder DEF AtPhase, SyncFacts, WorkTypeOK, Jobs
<1>1. CASE Broken
  <2>1. SameTask /\ job'.at = "failed" /\ job'.origin = "write_generated"
    BY <1>1 DEF Broken, Ends
  <2> QED  BY <1>0, <2>1 DEF SyncFacts, SameTask, Verified, Rebuilt, Running
<1>2. CASE job.sources = {} /\ Advances /\ UNCHANGED generated
  <2>1. SameTask /\ job'.at = "done" /\ job'.origin = job.origin
    BY <1>0, <1>2 DEF Advances
  <2>2. job.full => \A s \in WorkServices :
          generated[s] = IF s \in CaddyServices(job.rev) THEN job.rev ELSE 0
    BY <1>0, <1>2 DEF Rebuilt
  <2> QED  BY <1>0, <1>2, <2>1, <2>2 DEF SyncFacts, SameTask, Verified, Rebuilt, Running, CaddyServices
<1>3. ASSUME NEW s \in job.sources, job' = [job EXCEPT !.sources = @ \ {s}], generated' = Written(s)
      PROVE  SyncFacts'
  <2>1. OneWritten(s)
    BY <1>3, OneWrittenIs
  <2>2. /\ SameTask /\ job'.at = "write_generated" /\ job'.origin = job.origin
        /\ job'.sources = job.sources \ {s}
    BY <2>1 DEF OneWritten
  <2>3. ASSUME job.full
        PROVE  /\ generated'[s] = job.rev /\ s \in CaddyServices(job.rev)
               /\ \A x \in WorkServices : x # s => generated'[x] = generated[x]
    <3>1. s \in CaddyServices(job.rev) /\ dir[s].rev = job.rev
      BY <1>0, <2>3 DEF Rebuilt, Verified
    <3>2. generated' = [generated EXCEPT ![s] = job.rev]
      BY <1>3, <3>1 DEF Written, CaddyServices
    <3> QED  BY <1>0, <3>1, <3>2
  <2>4. job.full => Verified'
    BY <1>0, <2>2 DEF Verified, SameTask, CaddyServices
  <2>5. job.full => Rebuilt'
    BY <1>0, <2>2, <2>3 DEF Rebuilt, SameTask, CaddyServices
  <2> QED  BY <1>0, <2>2, <2>4, <2>5 DEF SyncFacts, SameTask, Running
<1> QED  BY <1>1, <1>2, <1>3, GoOnIs, AbortIs DEF WriteGenerated

LEMMA CaddyStep ==
  ASSUME WorkTypeOK, PhaseInv, ItemsInv, GeneratedInv, RebuildInv, WorkNext
  PROVE  GeneratedInv' /\ RebuildInv'
<1>1. ASSUME Is({"backup", "restore"})'
      PROVE  generated' = job'.before.generated
  <2>1. CASE WorkPhase /\ Is({"backup", "restore"}) /\ AtPhase
    <3>1. ~FinishWork
      BY <1>1, FinishWorkIs DEF EndsWith, Is, AtWork
    <3>2. job'.before = job.before
      BY <2>1, <3>1, TaskKept DEF WorkTypeOK
    <3>3. job.at \in {"verify", "cold_stop"} \cup ItemPhases
      BY <2>1, ItemOrder DEF Is, AtPhase
    <3>4. generated' = generated
      BY <2>1, <3>3, Dispatch, PhaseOfAction DEF ItemPhases
    <3> QED  BY <2>1, <3>2, <3>4 DEF GeneratedInv
  <2> QED
    BY <1>1, <2>1, Onward DEF GeneratedInv, Begins, World, Cancels, SameTask
<1>2. ASSUME Is({"caddy_sync"})'
      PROVE  SyncFacts'
  <2>1. CASE \E type \in {"caddy_sync"}, s \in WorkServices : Begins(type, s) /\ World
    <3>1. PICK s \in WorkServices : Begins("caddy_sync", s) /\ World
      BY <2>1
    <3>2. job'.at = "verify"
      BY <3>1 DEF Begins, PhasesOf
    <3> QED
      BY <3>1, <3>2 DEF Begins, World, SyncFacts, Verified, Rebuilt, Running, CaddyServices
  <2>2. Is({"caddy_sync"}) => SyncFacts
    BY DEF GeneratedInv, RebuildInv, SyncFacts, Is
  <2>3. CASE Is({"caddy_sync"}) /\ World /\ UNCHANGED job
    BY <2>2, <2>3 DEF World, SyncFacts, Verified, Rebuilt, Running, CaddyServices
  <2>4. CASE Is({"caddy_sync"}) /\ World /\ Cancels
    BY <2>2, <2>4 DEF World, Cancels, SameTask, SameItem, SyncFacts, Verified, Rebuilt, Running,
       CaddyServices
  <2>5. CASE WorkPhase /\ Is({"caddy_sync"}) /\ AtPhase
    <3>1. job.type = "caddy_sync" /\ job.at \in {"verify", "remove_generated", "write_generated"}
      BY <2>5, SyncOrder DEF Is, AtPhase
    <3> QED  BY <2>2, <2>5, <3>1, Dispatch, SyncVerifies, SyncRemoves, SyncWrites
  <2> QED  BY <1>2, <2>1, <2>3, <2>4, <2>5, Onward
<1> QED  BY <1>1, <1>2 DEF GeneratedInv, RebuildInv, SyncFacts, Is

-----------------------------------------------------------------------------
(* The results *)

\* Without a fault the status is written.
LEMMA StatusReported ==
  ASSUME WorkTypeOK, PhaseInv, FinishWork, last'.faults = 0,
         job.type \in {"deploy", "update", "stop", "restart"}
  PROVE  /\ job.at = "done" => instanceStatus'[job.service] = StatusAfter(job.type)
         /\ job.at = "failed" /\ job.origin # "local_root" => instanceStatus'[job.service] = "error"
<1>1. /\ job \in Jobs /\ AtWork /\ job.faults = 0 /\ workFaults' = workFaults
  BY FinishWorkIs DEF EndsWith
<1>2. ~job.cancelled /\ job.service \in WorkServices
  BY <1>1 DEF PhaseInv, Jobs
<1>3. ~Breaks
  BY <1>1, <1>2 DEF Breaks, WorkTypeOK
<1>4. ASSUME NEW status, Reports(job.service, status)
      PROVE  instanceStatus'[job.service] = status
  BY <1>2, <1>3, <1>4 DEF Reports, WorkTypeOK
<1>5. CASE job.at = "done"
  BY <1>4, <1>5 DEF FinishWork, At
<1>6. CASE job.at = "failed" /\ job.origin # "local_root"
  BY <1>4, <1>6 DEF FinishWork, At, FailsService
<1> QED  BY <1>5, <1>6

LEMMA DeployEnds ==
  ASSUME WorkInv, FinishWork
  PROVE  DeploymentIsInForce' /\ FailureKeepsDirectory'
<1>1. \/ job.at = "done" /\ EndsWith("succeeded")
      \/ job.at = "failed" /\ EndsWith("failed")
  BY FinishWorkIs DEF WorkInv
<1>2. UNCHANGED <<shape, dir, bak, project, generated>>
  BY PhaseOfAction
<1>3. SUFFICES ASSUME job.type \in {"deploy", "update"}
               PROVE  DeploymentIsInForce' /\ FailureKeepsDirectory'
  BY <1>1 DEF DeploymentIsInForce, FailureKeepsDirectory, Ended, EndsWith
<1>4. /\ AtWork /\ NewDirectory /\ NewContainers /\ NewCaddyFile /\ OldDirectory
      /\ job \in Jobs
  BY <1>1, <1>3 DEF WorkInv, DeployInv, Is, EndsWith
<1>5. CASE job.at = "done" /\ EndsWith("succeeded")
  <2>1. DeploymentIsInForce'
    <3> DEFINE s == job.service
    <3>1. /\ dir[s] = [rev |-> job.rev, id |-> job.id] /\ bak[s] = NoDir
          /\ s \notin shape.infra =>
                /\ project[s].on = TRUE /\ project[s].rev = job.rev
                /\ s \in shape.mounts /\ job.mode # "no" => project[s].id = job.id
          /\ <<s, job.rev>> \in shape.caddy => generated[s] = job.rev
      BY <1>4, <1>5 DEF NewDirectory, NewContainers, NewCaddyFile, Pulled, Upped
    <3>2. dir[s].rev = job.rev /\ dir[s].id = job.id
      BY <3>1
    <3>3. last'.service = s /\ last'.rev = job.rev /\ last'.mode = job.mode
      BY <1>5 DEF EndsWith
    <3> HIDE DEF s
    <3> QED  BY <1>2, <3>1, <3>2, <3>3 DEF DeploymentIsInForce
  <2>2. FailureKeepsDirectory'
    BY <1>5 DEF FailureKeepsDirectory, EndsWith
  <2> QED  BY <2>1, <2>2
<1>6. CASE job.at = "failed" /\ EndsWith("failed")
  <2>1. /\ last'.faults <= 1 => job.faults <= 1
        /\ last'.service = job.service /\ last'.before = job.before /\ last'.result = "failed"
    BY <1>6 DEF EndsWith, Results, Jobs
  <2>2. job.before.installed /\ job.faults <= 1 => Installed(job.service)
    BY <1>4, <1>6 DEF OldDirectory
  <2> QED  BY <1>2, <2>1, <2>2 DEF DeploymentIsInForce, FailureKeepsDirectory, Installed
<1> QED  BY <1>1, <1>5, <1>6

LEMMA StopEnds ==
  ASSUME WorkInv, FinishWork
  PROVE  StopAndRestartAreInForce'
<1>1. \/ job.at = "done" /\ EndsWith("succeeded")
      \/ job.at = "failed" /\ EndsWith("failed")
  BY FinishWorkIs DEF WorkInv
<1>2. UNCHANGED <<dir, project, generated>>
  BY PhaseOfAction
<1>3. SUFFICES ASSUME job.at = "done", EndsWith("succeeded")
               PROVE  StopAndRestartAreInForce'
  BY <1>1 DEF StopAndRestartAreInForce, EndsWith
<1>4. last'.type = job.type /\ last'.service = job.service /\ AtWork
  BY <1>3 DEF EndsWith
<1>5. job.type = "stop" => project[job.service] = NoProject /\ generated[job.service] = 0
  BY <1>3, <1>4 DEF WorkInv, StopInv, Is
<1>6. job.type = "restart" =>
        /\ project[job.service].on = TRUE
        /\ project[job.service].rev = dir[job.service].rev
        /\ project[job.service].id = dir[job.service].id
  BY <1>3, <1>4 DEF WorkInv, RestartInv, Is
<1> QED  BY <1>2, <1>4, <1>5, <1>6 DEF StopAndRestartAreInForce, Ended

LEMMA StatusEnds ==
  ASSUME WorkInv, FinishWork
  PROVE  StatusIsTrue'
<1>1. \/ job.at = "done" /\ EndsWith("succeeded")
      \/ job.at = "failed" /\ EndsWith("failed")
  BY FinishWorkIs DEF WorkInv
<1>2. UNCHANGED <<shape, project>>
  BY PhaseOfAction
<1>3. /\ last'.type = job.type /\ last'.service = job.service /\ last'.origin = job.origin
      /\ AtWork /\ job \in Jobs
  BY <1>1 DEF EndsWith
<1>4. SUFFICES ASSUME job.type \in {"deploy", "update", "stop", "restart"}, last'.faults = 0
               PROVE  StatusIsTrue'
  BY <1>3 DEF StatusIsTrue, Ended
<1> DEFINE s == job.service
<1>5. /\ job.at = "done" => instanceStatus'[s] = StatusAfter(job.type)
      /\ job.at = "failed" /\ job.origin # "local_root" => instanceStatus'[s] = "error"
  BY <1>4, StatusReported DEF WorkInv
<1>6. CASE job.at = "done" /\ EndsWith("succeeded")
  <2>1. CASE job.type = "stop"
    <3>1. project[s] = NoProject
      BY <1>3, <1>6, <2>1 DEF WorkInv, StopInv, Is
    <3>2. ~project[s].on /\ instanceStatus'[s] = "stopped"
      BY <1>5, <1>6, <2>1, <3>1, Blanks DEF StatusAfter
    <3>3. last'.result = "succeeded"
      BY <1>6 DEF EndsWith
    <3> QED  BY <1>2, <1>3, <2>1, <3>2, <3>3 DEF StatusIsTrue, Running
  <2>2. CASE job.type \in {"deploy", "update", "restart"}
    <3>1. CASE job.type = "restart"
      <4>1. project[s].on = TRUE
        BY <1>3, <1>6, <3>1 DEF WorkInv, RestartInv, Is
      <4> QED  BY <1>2, <1>3, <1>5, <1>6, <3>1, <4>1 DEF StatusIsTrue, Running, StatusAfter, EndsWith
    <3>2. CASE job.type \in {"deploy", "update"}
      <4>1. s \notin shape.infra => project[s].on = TRUE
        BY <1>3, <1>6, <3>2 DEF WorkInv, DeployInv, NewContainers, Upped, Is
      <4>2. instanceStatus'[s] = "running" /\ last'.type # "stop" /\ last'.result = "succeeded"
        BY <1>3, <1>5, <1>6, <3>2 DEF StatusAfter, EndsWith
      <4> QED  BY <1>2, <1>3, <4>1, <4>2 DEF StatusIsTrue, Running
    <3> QED  BY <2>2, <3>1, <3>2
  <2> QED  BY <1>4, <2>1, <2>2
<1>7. CASE job.at = "failed" /\ EndsWith("failed")
  <2>1. last'.result = "failed"
    BY <1>7 DEF EndsWith
  <2> QED  BY <1>3, <1>5, <1>7, <2>1 DEF StatusIsTrue
<1> QED  BY <1>1, <1>6, <1>7

LEMMA ItemsEnd ==
  ASSUME WorkInv, FinishWork
  PROVE  RefusedChangesNothing' /\ ProjectRunsAgain'
<1>1. \/ job.at = "done" /\ EndsWith("succeeded")
      \/ job.at = "failed" /\ EndsWith("failed")
  BY FinishWorkIs DEF WorkInv
<1>2. UNCHANGED <<project, generated>>
  BY PhaseOfAction
<1>3. /\ last'.type = job.type /\ last'.service = job.service /\ last'.origin = job.origin
      /\ last'.before = job.before /\ AtWork /\ (last'.faults = 0 => job.faults = 0)
  BY <1>1 DEF EndsWith
<1>4. ASSUME job.type \in {"backup", "restore"}
      PROVE  /\ generated = job.before.generated
             /\ job.at = "done" \/ job.origin = "verify" \/ job.faults = 0
                  => Running(job.service) = job.before.on
  <2>1. StartOwed /\ generated = job.before.generated
    BY <1>3, <1>4 DEF WorkInv, ItemsInv, GeneratedInv, Is
  <2> QED  BY <1>1, <2>1 DEF StartOwed, ItemPhases
<1>5. job.type = "caddy_sync" =>
        /\ Running(job.service) = job.before.on
        /\ job.origin = "verify" => generated = job.before.generated
  BY <1>3 DEF WorkInv, GeneratedInv, Is
<1>6. RefusedChangesNothing'
  BY <1>2, <1>3, <1>4, <1>5 DEF RefusedChangesNothing, Ended, Running
<1>7. last'.result = "succeeded" => job.at = "done"
  BY <1>1 DEF EndsWith
<1>8. ProjectRunsAgain'
  BY <1>2, <1>3, <1>4, <1>7 DEF ProjectRunsAgain, Ended, Running
<1> QED  BY <1>6, <1>8

LEMMA RebuildEnds ==
  ASSUME WorkInv, FinishWork
  PROVE  RebuildIsExact'
<1>1. \/ job.at = "done" /\ EndsWith("succeeded")
      \/ job.at = "failed" /\ EndsWith("failed")
  BY FinishWorkIs DEF WorkInv
<1>2. UNCHANGED <<shape, generated>>
  BY PhaseOfAction
<1>3. SUFFICES ASSUME job.at = "done", EndsWith("succeeded"), job.type = "caddy_sync", job.full
               PROVE  RebuildIsExact'
  BY <1>1 DEF RebuildIsExact, Ended, EndsWith
<1>4. last'.rev = job.rev /\ AtWork
  BY <1>3 DEF EndsWith
<1>5. \A s \in WorkServices : generated[s] = IF s \in CaddyServices(job.rev) THEN job.rev ELSE 0
  BY <1>3, <1>4 DEF WorkInv, RebuildInv, Rebuilt, Is
<1> QED  BY <1>2, <1>4, <1>5 DEF RebuildIsExact, CaddyServices

LEMMA SnapshotsStep ==
  ASSUME WorkInv, WorkNext, DataService \in shape.named, ColdBackupsAreConsistent
  PROVE  ColdBackupsAreConsistent'
<1>1. CASE snapshots' \subseteq snapshots
  BY <1>1 DEF ColdBackupsAreConsistent
<1>2. CASE ReadRest
  <2> DEFINE rest == IF StrategyOf[job.item] = Postgres THEN job.copy ELSE data[job.item]
             saved == [item |-> job.item, first |-> job.copy, rest |-> rest]
  <2>1. job.at = "read_rest"
    BY <1>2 DEF ReadRest, At
  <2>2. AtPhase
    BY <2>1, PhaseIsWork DEF WorkInv
  <2>3. Is({"backup"})
    BY <2>1, <2>2, TypeOfPhase, AtWorkIsJob DEF WorkInv, AtPhase, Is
  <2>4. StrategyOf[job.item] = Cold => job.copy = data[job.item]
    BY <2>1, <2>3 DEF WorkInv, ColdInv
  <2>5. saved.item = job.item /\ saved.first = job.copy /\ saved.rest = rest
    OBVIOUS
  <2>6. StrategyOf[saved.item] = Cold => saved.first = saved.rest
    BY <2>4, <2>5
  <2> HIDE DEF saved
  <2>7. snapshots' \in {snapshots, snapshots \cup {saved}}
    BY <1>2 DEF ReadRest, saved
  <2> QED  BY <2>6, <2>7 DEF ColdBackupsAreConsistent
<1>3. CASE RusticForget
  BY <1>1, <1>3 DEF RusticForget
<1>4. CASE ~WorkPhase
  BY <1>1, <1>4, Between DEF WorkInv
<1> QED  BY <1>1, <1>2, <1>3, <1>4, PhaseOfAction DEF WorkPhase

\* Until it ends a task remains at work.
LEMMA StillAtWork ==
  ASSUME WorkTypeOK, PhaseInv, ItemsInv, WorkPhase, ~FinishWork
  PROVE  job' \in Jobs
<1>0. AtPhase /\ workFaults \in Nat
  <2>1. job.at \notin {"idle", "done", "failed"}
    BY PhaseOfAction DEF WorkPhase, Commands
  <2> QED  BY <2>1, PhaseIsWork DEF WorkTypeOK
<1>1. CASE Usual
  BY <1>0, <1>1, UsualIs
<1>2. CASE ItemFails \/ ItemRefused
  BY <1>0, <1>2, ItemFailsIs DEF ItemEnds, SameTask
<1>3. CASE StageBundle \/ RemoveOldBackup \/ MoveOldAway \/ DropBackup \/ LocalServiceRoot \/ RunCommand
  BY <1>1, <1>3 DEF Usual, StageBundle, RemoveOldBackup, MoveOldAway, DropBackup, LocalServiceRoot,
     RunCommand
<1>4. CASE ActivateStaged
  BY <1>0, <1>1, <1>4, ActivateTwice DEF Usual, ActivateStaged, Broken, Ends, SameTask
<1>5. CASE CheckTaskServiceFiles
  <2>1. ASSUME NEW s \in job.verify, job' = [job EXCEPT !.verify = @ \ {s}] PROVE job' \in Jobs
    BY <1>0, <2>1, OneVerifiedIs DEF OneVerified, SameTask
  <2> QED  BY <1>1, <1>5, <2>1 DEF Usual, CheckTaskServiceFiles
<1>6. CASE \/ ComposeUp \/ ComposeDown \/ DockerTask \/ PruneContainers \/ RemoveVolumes
           \/ RusticForget
  BY <1>1, <1>6 DEF Usual, ComposeUp, ComposeDown, DockerTask, PruneContainers, RemoveVolumes,
     RusticForget
<1>7. CASE CaddyWrite \/ CaddyRemove \/ RemoveGenerated
  BY <1>1, <1>7 DEF Usual, CaddyWrite, CaddyRemove, RemoveGenerated
<1>8. CASE WriteGenerated
  <2>1. ASSUME NEW s \in job.sources, job' = [job EXCEPT !.sources = @ \ {s}] PROVE job' \in Jobs
    BY <1>0, <2>1, OneWrittenIs DEF OneWritten, SameTask
  <2> QED  BY <1>1, <1>8, <2>1 DEF Usual, WriteGenerated
<1>9. CASE ColdStop
  <2>1. ASSUME NEW i \in job.items,
               \/ job' = [job EXCEPT !.at = Following, !.item = i]
               \/ job' = [job EXCEPT !.at = Following, !.item = i, !.restart = TRUE]
        PROVE  job' \in Jobs
    <3>1. i \in DataItems
      BY <1>0 DEF AtPhase, Jobs
    <3> QED  BY <1>0, <2>1, <3>1, ItemBeginsIs DEF ItemBegins, SameTask
  <2> QED  BY <1>1, <1>9, <2>1 DEF Usual, ColdStop
<1>10. CASE ReadRest \/ ClearTargets \/ FillTargets
  BY <1>1, <1>2, <1>10 DEF Usual, ReadRest, ClearTargets, FillTargets
<1>11. CASE ReadFirst
  <2>1. ASSUME job' = [job EXCEPT !.at = Following, !.copy = data[job.item]] PROVE job' \in Jobs
    <3>1. Is({"backup", "restore"}) /\ job.at \in ItemPhases
      BY <1>0, <1>11, AtWorkIsJob, TypeOfPhase DEF ReadFirst, At, AtPhase, Is, ItemPhases
    <3>2. data[job.item] \in Nat
      BY <3>1 DEF ItemsInv, ItemAtHand, WorkTypeOK
    <3> QED  BY <1>0, <2>1, <3>2, ItemReadIs DEF ItemRead, SameTask
  <2> QED  BY <1>2, <1>11, <2>1 DEF ReadFirst
<1>12. CASE ColdStart
  <2>1. ASSUME NEW at \in {"failed", "done", "cold_stop"},
               job' = [job EXCEPT !.at = at, !.items = job.items \ {job.item}, !.item = "none",
                                  !.copy = 0, !.restart = FALSE]
        PROVE  job' \in Jobs
    BY <1>0, <2>1, ItemDoneIs DEF ItemDone, SameTask, Ats, Phases
  <2>2. ASSUME job.cancelled, job' = [job EXCEPT !.at = "failed", !.origin = "cold_start"]
        PROVE  job' \in Jobs
    BY <1>0, <1>12, <2>2, ColdStartCancelled DEF ColdStart, At, Broken, Ends, SameTask
  <2> QED  BY <1>1, <1>12, <2>1, <2>2 DEF ColdStart, Usual
<1> QED
  BY <1>3, <1>4, <1>5, <1>6, <1>7, <1>8, <1>9, <1>10, <1>11, <1>12 DEF WorkPhase

LEMMA SoundStep ==
  ASSUME WorkInv, WorkNext
  PROVE  AgentWorkIsSound'
<1>0. WorkTypeOK /\ PhaseInv /\ ItemsInv /\ AgentWorkIsSound
  BY DEF WorkInv
<1>1. shape' = shape
  BY <1>0, PhaseOfAction, Between DEF WorkPhase, World
<1>2. (DataService \in shape.named => ColdBackupsAreConsistent)'
  BY <1>0, <1>1, SnapshotsStep DEF AgentWorkIsSound
<1> DEFINE Promises == /\ DeploymentIsInForce /\ StopAndRestartAreInForce /\ StatusIsTrue
                       /\ FailureKeepsDirectory /\ RefusedChangesNothing /\ ProjectRunsAgain
                       /\ RebuildIsExact
<1>3. ASSUME FinishWork PROVE Promises'
  BY <1>3, DeployEnds, StopEnds, StatusEnds, ItemsEnd, RebuildEnds
<1>4. ASSUME job' # NoJob \/ last'.result = "lost" PROVE Promises'
  BY <1>4 DEF Ended, DeploymentIsInForce, StopAndRestartAreInForce, StatusIsTrue,
     FailureKeepsDirectory, RefusedChangesNothing, ProjectRunsAgain, RebuildIsExact
<1>5. ASSUME job = NoJob, UNCHANGED <<shape, dir, bak, project, generated, instanceStatus, job, last>>
      PROVE  Promises'
  BY <1>0, <1>5 DEF AgentWorkIsSound, Ended, DeploymentIsInForce, StopAndRestartAreInForce, StatusIsTrue,
     FailureKeepsDirectory, RefusedChangesNothing, ProjectRunsAgain, RebuildIsExact, Running, Installed
<1>6. ASSUME WorkPhase, ~FinishWork PROVE Promises'
  <2> HIDE DEF Promises
  <2> QED  BY <1>0, <1>4, <1>6, StillAtWork, NoJobIsNone
<1>7. ASSUME ~WorkPhase PROVE Promises'
  <2>1. \/ AtWork' \/ last'.result = "lost"
        \/ job = NoJob /\ UNCHANGED <<job, last, instanceStatus>>
    <3>1. \/ job' \in Jobs \/ (job' = NoJob /\ last' = [result |-> "lost"])
          \/ job' = NoJob /\ job = NoJob /\ UNCHANGED <<last, instanceStatus>>
          \/ UNCHANGED <<job, last, instanceStatus>>
      BY <1>0, <1>7, Between DEF Begins, Cancels, SameTask
    <3> QED  BY <3>1, NoJobIsNone DEF AtWork
  <2>2. UNCHANGED <<shape, dir, bak, project, generated>>
    BY <1>0, <1>7, Between DEF World
  <2> HIDE DEF Promises
  <2> QED  BY <1>4, <1>5, <2>1, <2>2 DEF AtWork
<1>8. Promises'
  BY <1>3, <1>4, <1>5, <1>6, <1>7
<1> QED  BY <1>2, <1>8 DEF AgentWorkIsSound

-----------------------------------------------------------------------------
(* The invariant holds *)

LEMMA WorkInvInit == WorkInit => WorkInv
<1> SUFFICES ASSUME WorkInit PROVE WorkInv
  OBVIOUS
<1>1. WorkTypeOK /\ PhaseInv
  BY InitTypes
<1>2. job = NoJob /\ last = NoWork
  BY DEF WorkInit
<1>3. DeployInv /\ StopInv /\ RestartInv /\ ItemsInv /\ ColdInv /\ GeneratedInv /\ RebuildInv
  BY <1>2 DEF DeployInv, StopInv, RestartInv, ItemsInv, ColdInv, GeneratedInv, RebuildInv, Is, AtWork
<1>4. InfraInv
  BY DEF WorkInit, InfraInv
<1>5. ColdBackupsAreConsistent
  BY DEF WorkInit, ColdBackupsAreConsistent
<1>6. ASSUME NEW types PROVE ~Ended(types)
  BY <1>2 DEF Ended, NoWork
<1>7. AgentWorkIsSound
  BY <1>5, <1>6 DEF AgentWorkIsSound, DeploymentIsInForce, StopAndRestartAreInForce, StatusIsTrue,
     FailureKeepsDirectory, RefusedChangesNothing, ProjectRunsAgain, RebuildIsExact
<1> QED  BY <1>1, <1>3, <1>4, <1>7 DEF WorkInv

LEMMA WorkInvStep ==
  ASSUME WorkInv, WorkNext
  PROVE  WorkInv'
<1>1. /\ WorkTypeOK /\ PhaseInv /\ InfraInv /\ DeployInv /\ StopInv /\ RestartInv /\ ItemsInv
      /\ ColdInv /\ GeneratedInv /\ RebuildInv
  BY DEF WorkInv
<1>2. WorkTypeOK' /\ PhaseInv'
  BY <1>1, WorkTypeStep
<1>3. InfraInv' /\ StopInv' /\ RestartInv'
  BY <1>1, InfraStep, StopStep, RestartStep
<1>4. DeployInv' /\ ItemsInv' /\ ColdInv'
  BY <1>1, DeployStep, ItemsStep, ColdStep
<1>5. GeneratedInv' /\ RebuildInv'
  BY <1>1, CaddyStep
<1>6. AgentWorkIsSound'
  BY SoundStep
<1> QED  BY <1>2, <1>3, <1>4, <1>5, <1>6 DEF WorkInv

LEMMA WorkInvStutter ==
  ASSUME WorkInv, UNCHANGED workVars
  PROVE  WorkInv'
<1>1. UNCHANGED <<shape, head, dir, bak, project, generated, data, snapshots, artifacts,
                  instanceStatus, job, last, works, writes, workFaults>>
  BY DEF workVars
<1>2. WorkTypeOK' /\ PhaseInv' /\ InfraInv'
  BY <1>1 DEF WorkInv, WorkTypeOK, PhaseInv, PhaseOK, AtWork, InfraInv
<1>3. DeployInv'
  BY <1>1 DEF WorkInv, DeployInv, Is, AtWork, NewDirectory, NewContainers, NewCaddyFile, OldDirectory,
     Installed
<1>4. StopInv' /\ RestartInv'
  BY <1>1 DEF WorkInv, StopInv, RestartInv, Is, AtWork
<1>5. ItemsInv' /\ ColdInv'
  BY <1>1 DEF WorkInv, ItemsInv, ItemAtHand, StartOwed, ColdInv, Is, AtWork, Running
<1>6. GeneratedInv' /\ RebuildInv'
  BY <1>1 DEF WorkInv, GeneratedInv, RebuildInv, Verified, Rebuilt, CaddyServices, Is, AtWork, Running
<1>7. AgentWorkIsSound'
  BY <1>1 DEF WorkInv, AgentWorkIsSound, DeploymentIsInForce, StopAndRestartAreInForce, StatusIsTrue,
     FailureKeepsDirectory, RefusedChangesNothing, ProjectRunsAgain, RebuildIsExact,
     ColdBackupsAreConsistent, Ended, Running, Installed
<1> QED  BY <1>2, <1>3, <1>4, <1>5, <1>6, <1>7 DEF WorkInv

\* For any services, data, declarations and numbers of tasks, writes and faults
\* an agent's tasks do what their results say: a deployment that succeeded is in
\* force, a stop and a restart too, the reported status is the project's, one
\* fault leaves a service its directory, a refused task has changed nothing, a
\* backup or restore leaves the project running as it was, a cold backup is of
\* one state of the data, and a full Caddy rebuild is exact.
THEOREM AgentWorkSound == WorkSpec => []AgentWorkIsSound
<1>1. WorkInv /\ [WorkNext]_workVars => WorkInv'
  <2> SUFFICES ASSUME WorkInv, [WorkNext]_workVars PROVE WorkInv'
    OBVIOUS
  <2>1. CASE WorkNext
    BY <2>1, WorkInvStep
  <2>2. CASE UNCHANGED workVars
    BY <2>2, WorkInvStutter
  <2> QED  BY <2>1, <2>2
<1>2. WorkInv => AgentWorkIsSound
  BY DEF WorkInv
<1> QED  BY <1>1, <1>2, WorkInvInit, PTL DEF WorkSpec

-----------------------------------------------------------------------------
(* Docker queries *)

Places == {"idle", "enqueued", "look", "select", "wait", "returned"}
Fields == {NoField, "items", "raw", "content", "exec"}
Answers == [field : Fields, code : {NoCode, "none", "deadline", "not_found", "internal"}]
QueryResults == [field : Fields, code : {NoCode, "none", "not_found", "internal"}]
Polls == [at : {"none", "pull", "wait"}, signal : BOOLEAN]

InQueue(q) == \E i \in DOMAIN pendingQueue : pendingQueue[i] = q

\* What is data is the answer to this query, which has run.
Own(q, r) == executions[q] = 1 /\ (r.code = NoCode => r.field = PayloadField(QueryKind[q]))

BrokerTypes ==
  /\ caller \in [Queries -> Places] /\ answer \in [Queries -> Answers]
  /\ queryAge \in [Queries -> Nat] /\ \A q \in Queries : queryAge[q] <= WaitTimeout(q)
  /\ pendingQueue \in Seq(Queries) /\ IsInjective(pendingQueue)
  /\ assignedQueries \in SUBSET Queries
  /\ storedResults \in [Queries -> QueryResults] /\ resultSignal \in [Queries -> BOOLEAN]
  /\ poll \in [{"current", "late"} -> Polls]
  /\ worker \in [at : {"idle", "run", "report"}, query : Queries \cup {IdleWorker.query}, result : QueryResults]
  /\ executions \in [Queries -> 0..1]

\* A query somebody waits for is queued, assigned or answered, and never two of
\* these; the others have left the broker.
PlaceInv(q) ==
  /\ InQueue(q) => q \notin assignedQueries /\ storedResults[q] = NoResult /\ executions[q] = 0
  /\ q \in assignedQueries => storedResults[q] = NoResult
  /\ caller[q] \in {"idle", "returned"} =>
       ~InQueue(q) /\ q \notin assignedQueries /\ storedResults[q] = NoResult
  /\ caller[q] = "idle" => executions[q] = 0
  /\ caller[q] \notin {"idle", "returned"} =>
       InQueue(q) \/ q \in assignedQueries \/ storedResults[q] # NoResult
  /\ caller[q] \in {"select", "wait"} /\ storedResults[q] # NoResult => resultSignal[q]

AnswerInv(q) ==
  /\ storedResults[q] # NoResult => Own(q, storedResults[q])
  /\ caller[q] = "returned" /\ answer[q].code \notin {"none", "deadline"} => Own(q, answer[q])

\* The agent runs one query at a time, which is queued no more, and polls when
\* it has none.
WorkerInv ==
  /\ worker.at # "idle" =>
       /\ worker.query \in Queries /\ caller[worker.query] # "idle" /\ ~InQueue(worker.query)
       /\ executions[worker.query] = IF worker.at = "run" THEN 0 ELSE 1
  /\ worker.at = "report" =>
       worker.result \in QueryResults /\ worker.result # NoResult /\ Own(worker.query, worker.result)
  /\ poll["current"].at # "none" => worker.at = "idle"

PollInv == \A h \in {"current", "late"} : poll[h].at = "wait" /\ pendingQueue # <<>> => poll[h].signal

BrokerInv ==
  /\ BrokerTypes /\ \A q \in Queries : PlaceInv(q) /\ AnswerInv(q)
  /\ WorkerInv /\ PollInv

-----------------------------------------------------------------------------
(* The filtered queue *)

KeptPlaces(list, keep) == {i \in DOMAIN list : list[i] \in keep}
Before(kept, i) == {j \in kept : j < i}

\* The entries that stay have one place each, and their order.
LEMMA KeptIsFinite ==
  ASSUME NEW S, NEW list \in Seq(S), NEW keep
  PROVE  /\ KeptPlaces(list, keep) \subseteq 1..Len(list) /\ KeptPlaces(list, keep) \subseteq Nat
         /\ IsFiniteSet(KeptPlaces(list, keep))
<1>1. KeptPlaces(list, keep) \subseteq 1..Len(list) /\ Len(list) \in Nat
  BY DEF KeptPlaces
<1>2. IsFiniteSet(1..Len(list))
  BY <1>1, FS_Interval
<1>3. IsFiniteSet(KeptPlaces(list, keep))
  <2> HIDE DEF KeptPlaces
  <2>1. KeptPlaces(list, keep) \in SUBSET (1..Len(list))
    BY <1>1
  <2> QED
    BY ONLY <1>2, <2>1, FS_Subset
<1> QED
  BY <1>1, <1>3

LEMMA BeforeGrows ==
  ASSUME NEW kept \in SUBSET Nat, IsFiniteSet(kept), NEW i \in kept, NEW j \in kept, i < j
  PROVE  Cardinality(Before(kept, i)) < Cardinality(Before(kept, j))
<1>1. Before(kept, i) \in SUBSET Before(kept, j) /\ i \in Before(kept, j) /\ i \notin Before(kept, i)
  <2>1. \A k \in kept : k \in Nat
    OBVIOUS
  <2>2. \A k \in kept : k < i => k < j
    BY <2>1
  <2>3. Before(kept, i) \subseteq Before(kept, j)
    BY <2>2 DEF Before
  <2>4. i \in Before(kept, j) /\ i \notin Before(kept, i)
    BY <2>1 DEF Before
  <2> QED
    BY <2>3, <2>4
<1>2. Before(kept, j) \in SUBSET kept
  BY DEF Before
<1>3. IsFiniteSet(Before(kept, j))
  BY <1>2, FS_Subset
<1>4. /\ IsFiniteSet(Before(kept, i)) /\ Cardinality(Before(kept, i)) <= Cardinality(Before(kept, j))
      /\ Cardinality(Before(kept, i)) # Cardinality(Before(kept, j))
  BY <1>1, <1>3, FS_Subset
<1> QED
  BY <1>3, <1>4, FS_CardinalityType

LEMMA BeforeBounds ==
  ASSUME NEW kept \in SUBSET Nat, IsFiniteSet(kept), NEW i \in kept
  PROVE  Cardinality(Before(kept, i)) + 1 \in 1..Cardinality(kept)
<1>1. Before(kept, i) \in SUBSET (kept \ {i})
  BY DEF Before
<1>2. IsFiniteSet(kept \ {i}) /\ Cardinality(kept \ {i}) = Cardinality(kept) - 1
  BY FS_RemoveElement
<1>3. IsFiniteSet(Before(kept, i)) /\ Cardinality(Before(kept, i)) <= Cardinality(kept \ {i})
  BY <1>1, <1>2, FS_Subset
<1> QED
  BY <1>2, <1>3, FS_CardinalityType

\* Counting entries and places, every place is taken.
LEMMA PlaceIsTaken ==
  ASSUME NEW kept \in SUBSET Nat, IsFiniteSet(kept), NEW n \in 1..Cardinality(kept)
  PROVE  \E i \in kept : Cardinality(Before(kept, i)) = n - 1
<1> DEFINE f == [i \in kept |-> Cardinality(Before(kept, i)) + 1]
           T == 1..Cardinality(kept)
<1>0. Cardinality(kept) \in Nat
  BY FS_CardinalityType
<1>1. \A i \in kept : Cardinality(Before(kept, i)) \in Nat
  <2> SUFFICES ASSUME NEW i \in kept PROVE Cardinality(Before(kept, i)) \in Nat
    OBVIOUS
  <2>1. Before(kept, i) \in SUBSET kept
    BY DEF Before
  <2> QED
    BY <2>1, FS_Subset, FS_CardinalityType
<1>2. f \in [kept -> T]
  BY BeforeBounds
<1>3. \A i, j \in kept : f[i] = f[j] => i = j
  <2> SUFFICES ASSUME NEW i \in kept, NEW j \in kept, i # j PROVE f[i] # f[j]
    OBVIOUS
  <2>1. i < j \/ j < i
    OBVIOUS
  <2>2. Cardinality(Before(kept, i)) # Cardinality(Before(kept, j))
    BY <1>1, <2>1, BeforeGrows
  <2> QED
    BY <1>1, <2>2
<1>4. f \in Injection(kept, T)
  <2> HIDE DEF f, T
  <2> QED
    BY <1>2, <1>3 DEF Injection, IsInjective
<1>5. IsFiniteSet(T) /\ Cardinality(T) = Cardinality(kept)
  <2>1. IsFiniteSet(T) /\ Cardinality(T) = IF 1 > Cardinality(kept) THEN 0 ELSE Cardinality(kept) - 1 + 1
    BY <1>0, FS_Interval
  <2> QED
    BY <1>0, <2>1
<1>6. f \in Surjection(kept, T)
  BY <1>4, <1>5, FS_Injection
<1>7. PICK i \in kept : f[i] = n
  BY <1>6 DEF Surjection
<1> QED
  BY <1>0, <1>1, <1>7

\* What stays in a queue of different entries is what is to be kept, once each.
LEMMA FilteredQueue ==
  ASSUME NEW S, NEW list \in Seq(S), IsInjective(list), NEW keep
  PROVE  /\ Filtered(list, keep) \in Seq(S) /\ IsInjective(Filtered(list, keep))
         /\ \A q : (\E n \in DOMAIN Filtered(list, keep) : Filtered(list, keep)[n] = q)
                      <=> q \in keep /\ \E i \in DOMAIN list : list[i] = q
         /\ list = <<>> => Filtered(list, keep) = <<>>
<1> DEFINE kept == KeptPlaces(list, keep)
           at(n) == CHOOSE i \in kept : Cardinality(Before(kept, i)) = n - 1
           out == Filtered(list, keep)
<1>1. out = [n \in 1..Cardinality(kept) |-> list[at(n)]]
  BY DEF Filtered, KeptPlaces, Before
<1>2. kept \subseteq 1..Len(list) /\ kept \in SUBSET Nat /\ IsFiniteSet(kept) /\ Len(list) \in Nat
  BY KeptIsFinite
<1>3. Cardinality(kept) \in Nat
  BY <1>2, FS_CardinalityType
<1>4. \A i \in kept : i \in DOMAIN list /\ list[i] \in keep /\ list[i] \in S
  BY DEF KeptPlaces
<1>5. \A q : q \in keep /\ (\E i \in DOMAIN list : list[i] = q) => \E i \in kept : list[i] = q
  BY DEF KeptPlaces
<1> HIDE DEF kept
<1>6. ASSUME NEW n \in 1..Cardinality(kept)
      PROVE  at(n) \in kept /\ Cardinality(Before(kept, at(n))) = n - 1
  <2>1. \E i \in kept : Cardinality(Before(kept, i)) = n - 1
    BY <1>2, PlaceIsTaken
  <2> QED
    BY <2>1
<1>7. ASSUME NEW i \in kept
      PROVE  \E n \in 1..Cardinality(kept) : at(n) = i
  <2> DEFINE n == Cardinality(Before(kept, i)) + 1
  <2>1. n \in 1..Cardinality(kept)
    BY <1>2, BeforeBounds
  <2>2. Before(kept, i) \in SUBSET kept
    BY DEF Before
  <2>3. Cardinality(Before(kept, i)) \in Nat
    BY <1>2, <2>2, FS_Subset, FS_CardinalityType
  <2>4. Cardinality(Before(kept, i)) = n - 1
    BY <2>3
  <2> HIDE DEF n
  <2> DEFINE j == at(n)
  <2>5. j \in kept /\ Cardinality(Before(kept, j)) = Cardinality(Before(kept, i))
    BY <1>6, <2>1, <2>4
  <2> HIDE DEF j
  <2>6. ~(i < j) /\ ~(j < i)
    BY <1>2, <2>3, <2>5, BeforeGrows
  <2>7. i = j
    BY <1>2, <2>5, <2>6
  <2> QED
    BY <2>1, <2>7 DEF j
<1>8. \A m, n \in 1..Cardinality(kept) : at(m) = at(n) => m = n
  <2> SUFFICES ASSUME NEW m \in 1..Cardinality(kept), NEW n \in 1..Cardinality(kept), at(m) = at(n)
               PROVE  m = n
    OBVIOUS
  <2>1. Cardinality(Before(kept, at(m))) = m - 1 /\ Cardinality(Before(kept, at(n))) = n - 1
    BY <1>6
  <2> HIDE DEF at
  <2>2. m - 1 = n - 1
    BY <2>1
  <2> QED
    BY <1>3, <2>2
<1> HIDE DEF at
<1>9. DOMAIN out = 1..Cardinality(kept) /\ \A n \in 1..Cardinality(kept) : out[n] = list[at(n)]
  BY <1>1
<1>10. out \in Seq(S)
  BY <1>1, <1>3, <1>4, <1>6
<1>11. IsInjective(out)
  <2> SUFFICES ASSUME NEW m \in 1..Cardinality(kept), NEW n \in 1..Cardinality(kept), out[m] = out[n]
               PROVE  m = n
    BY <1>9 DEF IsInjective
  <2>1. list[at(m)] = list[at(n)] /\ at(m) \in DOMAIN list /\ at(n) \in DOMAIN list
    BY <1>4, <1>6, <1>9
  <2>2. at(m) = at(n)
    BY <2>1 DEF IsInjective
  <2> QED
    BY <1>8, <2>2
<1>12. ASSUME NEW q
       PROVE  (\E n \in DOMAIN out : out[n] = q) <=> q \in keep /\ \E i \in DOMAIN list : list[i] = q
  BY <1>4, <1>5, <1>6, <1>7, <1>9
<1>13. ASSUME list = <<>> PROVE out = <<>>
  <2>1. Len(list) = 0
    BY <1>13
  <2>2. kept = {}
    BY <1>2, <2>1
  <2>3. Cardinality(kept) = 0
    BY <2>2, FS_EmptySet
  <2>4. out \in Seq(S) /\ Len(out) = 0
    BY <1>3, <1>9, <1>10, <2>3
  <2> QED
    BY <2>4
<1> QED
  BY <1>10, <1>11, <1>12, <1>13

\* A queue that keeps all its entries stays as it is.
LEMMA NothingFiltered ==
  ASSUME NEW S, NEW list \in Seq(S), NEW keep, \A i \in DOMAIN list : list[i] \in keep
  PROVE  Filtered(list, keep) = list
<1> DEFINE at(n) == CHOOSE i \in 1..Len(list) : Cardinality(Before(1..Len(list), i)) = n - 1
<1>1. Len(list) \in Nat /\ DOMAIN list = 1..Len(list) /\ KeptPlaces(list, keep) = 1..Len(list)
  BY DEF KeptPlaces
<1>2. Cardinality(1..Len(list)) = Len(list)
  <2>1. Cardinality(1..Len(list)) = IF 1 > Len(list) THEN 0 ELSE Len(list) - 1 + 1
    BY <1>1, FS_Interval
  <2> QED
    BY <1>1, <2>1
<1>3. Filtered(list, keep) = [n \in 1..Len(list) |-> list[at(n)]]
  <2> DEFINE kept == KeptPlaces(list, keep)
  <2>1. Filtered(list, keep) = [n \in 1..Cardinality(kept) |->
          list[CHOOSE i \in kept : Cardinality(Before(kept, i)) = n - 1]]
    BY DEF Filtered, KeptPlaces, Before
  <2>2. kept = 1..Len(list) /\ Cardinality(kept) = Len(list)
    BY <1>1, <1>2
  <2> HIDE DEF kept
  <2> QED
    BY <2>1, <2>2
<1>4. \A i \in 1..Len(list) : Cardinality(Before(1..Len(list), i)) = i - 1
  <2> SUFFICES ASSUME NEW i \in 1..Len(list) PROVE Cardinality(Before(1..Len(list), i)) = i - 1
    OBVIOUS
  <2>1. Before(1..Len(list), i) = 1..(i - 1) /\ i - 1 \in Nat
    BY <1>1 DEF Before
  <2>2. Cardinality(1..(i - 1)) = IF 1 > i - 1 THEN 0 ELSE i - 1 - 1 + 1
    BY <2>1, FS_Interval
  <2> QED
    BY <2>1, <2>2
<1>5. ASSUME NEW n \in 1..Len(list) PROVE at(n) = n
  <2>1. \E i \in 1..Len(list) : Cardinality(Before(1..Len(list), i)) = n - 1
    BY <1>4
  <2>2. at(n) \in 1..Len(list) /\ Cardinality(Before(1..Len(list), at(n))) = n - 1
    BY <2>1
  <2> HIDE DEF at
  <2>3. at(n) - 1 = n - 1
    BY <1>4, <2>2
  <2> QED
    BY <1>1, <2>2, <2>3
<1> HIDE DEF at
<1>6. Filtered(list, keep) = [n \in 1..Len(list) |-> list[n]]
  BY <1>3, <1>5
<1> QED
  BY <1>1, <1>6

-----------------------------------------------------------------------------
(* The broker *)

\* Whoever waits gives up before the broker would: the sweep removes nothing.
LEMMA NothingExpires ==
  ASSUME BrokerTypes
  PROVE  LivePending = pendingQueue /\ LiveAssigned = assignedQueries /\ LiveResults = storedResults
<1>1. \A q \in Queries : queryAge[q] < DockerQueryTTL(q) /\ queryAge[q] < DockerQueryTTL(q) + CleanupGrace
  <2> SUFFICES ASSUME NEW q \in Queries
               PROVE  queryAge[q] < DockerQueryTTL(q) /\ queryAge[q] < DockerQueryTTL(q) + CleanupGrace
    OBVIOUS
  <2>1. /\ QueryTimeout[q] \in Nat /\ MaxWait \in Nat /\ CleanupGrace \in Nat /\ TimeoutMargin \in Nat
        /\ TimeoutMargin < CleanupGrace
    BY QueryAssumption
  <2>2. queryAge[q] \in Nat /\ queryAge[q] <= WaitTimeout(q)
    BY DEF BrokerTypes
  <2> QED
    BY <2>1, <2>2 DEF DockerQueryTTL, WaitTimeout, Larger
<1>2. LivePending = pendingQueue
  <2> DEFINE fresh == {q \in Queries : queryAge[q] < DockerQueryTTL(q)}
  <2>1. pendingQueue \in Seq(Queries) /\ \A i \in DOMAIN pendingQueue : pendingQueue[i] \in fresh
    BY <1>1 DEF BrokerTypes
  <2> HIDE DEF fresh
  <2>2. Filtered(pendingQueue, fresh) = pendingQueue
    BY <2>1, NothingFiltered
  <2> QED
    BY <2>2 DEF LivePending, fresh
<1>3. LiveAssigned = assignedQueries
  BY <1>1 DEF LiveAssigned, BrokerTypes
<1>4. LiveResults = storedResults
  <2>1. storedResults = [q \in Queries |-> storedResults[q]]
    BY DEF BrokerTypes
  <2>2. LiveResults = [q \in Queries |-> storedResults[q]]
    BY <1>1 DEF LiveResults
  <2> QED
    BY <2>1, <2>2
<1> QED
  BY <1>2, <1>3, <1>4

LEMMA CodesDiffer == NoCode # "none"
  BY Zenon DEF NoCode

\* What the agent reports is a result of its query.
LEMMA ResultFits ==
  ASSUME NEW q \in Queries, NEW outcome \in {"ok"} \cup Codes
  PROVE  /\ ResultOf(q, outcome) \in QueryResults /\ ResultOf(q, outcome) # NoResult
         /\ ResultOf(q, outcome).code = NoCode => ResultOf(q, outcome).field = PayloadField(QueryKind[q])
<1>1. PayloadField(QueryKind[q]) \in Fields
  BY QueryAssumption DEF PayloadField, Kinds, Fields
<1>2. CASE outcome = "ok"
  <2>1. ResultOf(q, outcome) = [field |-> PayloadField(QueryKind[q]), code |-> NoCode]
    BY <1>2 DEF ResultOf
  <2> QED
    BY <1>1, <2>1, CodesDiffer DEF QueryResults, NoResult
<1>3. CASE outcome # "ok"
  <2>1. /\ ResultOf(q, outcome) = [field |-> NoField, code |-> IF outcome = "canceled" THEN "internal" ELSE outcome]
        /\ outcome \in Codes
    BY <1>3 DEF ResultOf
  <2>2. ResultOf(q, outcome).code \in {"not_found", "internal"}
    BY <2>1 DEF Codes
  <2>3. NoCode \notin {"not_found", "internal"}
    BY Zenon DEF NoCode
  <2> QED
    BY <2>1, <2>2, <2>3 DEF QueryResults, NoResult, Fields
<1> QED
  BY <1>2, <1>3

LEMMA BrokerInitOK == QueryInit => BrokerInv
<1> SUFFICES ASSUME QueryInit PROVE BrokerInv
  OBVIOUS
<1> USE DEF QueryInit
<1>1. BrokerTypes
  <2>1. NoResult \in Answers /\ NoResult \in QueryResults
    BY DEF NoResult, Answers, QueryResults, Fields
  <2>2. \A q \in Queries : queryAge[q] <= WaitTimeout(q)
    BY QueryAssumption DEF WaitTimeout, Larger
  <2>3. pendingQueue \in Seq(Queries) /\ IsInjective(pendingQueue)
    BY DEF IsInjective
  <2>4. worker \in [at : {"idle", "run", "report"}, query : Queries \cup {IdleWorker.query}, result : QueryResults]
    BY DEF IdleWorker, QueryResults, Fields
  <2>5. poll \in [{"current", "late"} -> Polls]
    BY DEF Polls
  <2> QED
    BY <2>1, <2>2, <2>3, <2>4, <2>5 DEF BrokerTypes, Places
<1>2. \A q \in Queries : PlaceInv(q) /\ AnswerInv(q)
  BY DEF PlaceInv, AnswerInv, InQueue
<1>3. WorkerInv /\ PollInv
  BY DEF WorkerInv, PollInv, IdleWorker
<1> QED
  BY <1>1, <1>2, <1>3 DEF BrokerInv

LEMMA SubscribeKeeps ==
  ASSUME BrokerInv, NEW q \in Queries, SubscribeResult(q)
  PROVE  BrokerInv'
<1> USE DEF BrokerInv, SubscribeResult
<1>0. LivePending = pendingQueue /\ LiveAssigned = assignedQueries /\ LiveResults = storedResults
  BY NothingExpires
<1>1. BrokerTypes'
  BY <1>0 DEF BrokerTypes, Places
<1>2. \A p \in Queries : PlaceInv(p)'
  BY <1>0 DEF BrokerTypes, PlaceInv, InQueue
<1>3. \A p \in Queries : AnswerInv(p)'
  BY <1>0 DEF BrokerTypes, AnswerInv, Own
<1>4. WorkerInv'
  BY <1>0 DEF BrokerTypes, WorkerInv, Own, InQueue
<1>5. PollInv'
  BY <1>0 DEF BrokerTypes, PollInv
<1> QED
  BY <1>1, <1>2, <1>3, <1>4, <1>5 DEF BrokerInv

LEMMA PopKeeps ==
  ASSUME BrokerInv, NEW q \in Queries, PopResult(q)
  PROVE  BrokerInv'
<1> USE DEF BrokerInv, PopResult
<1>0. LivePending = pendingQueue /\ LiveAssigned = assignedQueries /\ LiveResults = storedResults
  BY NothingExpires
<1>1. BrokerTypes'
  <2>1. NoResult \in QueryResults /\ QueryResults \subseteq Answers
    BY DEF NoResult, QueryResults, Answers, Fields
  <2>2. storedResults' = [storedResults EXCEPT ![q] = NoResult] /\ storedResults' \in [Queries -> QueryResults]
    BY <1>0, <2>1 DEF BrokerTypes
  <2>3. answer' \in [Queries -> Answers]
    BY <1>0, <2>1 DEF BrokerTypes
  <2>4. caller' \in [Queries -> Places]
    BY <1>0 DEF BrokerTypes, Places
  <2> HIDE DEF NoResult
  <2> QED
    BY <1>0, <2>2, <2>3, <2>4 DEF BrokerTypes
<1>2. \A p \in Queries : PlaceInv(p)'
  BY <1>0 DEF BrokerTypes, PlaceInv, InQueue
<1>3. \A p \in Queries : AnswerInv(p)'
  BY <1>0 DEF BrokerTypes, AnswerInv, Own
<1>4. WorkerInv'
  BY <1>0 DEF BrokerTypes, WorkerInv, Own, InQueue
<1>5. PollInv'
  BY <1>0 DEF BrokerTypes, PollInv
<1> QED
  BY <1>1, <1>2, <1>3, <1>4, <1>5 DEF BrokerInv

LEMMA SelectKeeps ==
  ASSUME BrokerInv, NEW q \in Queries, EnterSelect(q)
  PROVE  BrokerInv'
<1> USE DEF BrokerInv, EnterSelect
<1>0. LivePending = pendingQueue /\ LiveAssigned = assignedQueries /\ LiveResults = storedResults
  BY NothingExpires
<1>1. BrokerTypes'
  BY <1>0 DEF BrokerTypes, Places
<1>2. \A p \in Queries : PlaceInv(p)'
  BY <1>0 DEF BrokerTypes, PlaceInv, InQueue
<1>3. \A p \in Queries : AnswerInv(p)'
  BY <1>0 DEF BrokerTypes, AnswerInv, Own
<1>4. WorkerInv'
  BY <1>0 DEF BrokerTypes, WorkerInv, Own, InQueue
<1>5. PollInv'
  BY <1>0 DEF BrokerTypes, PollInv
<1> QED
  BY <1>1, <1>2, <1>3, <1>4, <1>5 DEF BrokerInv

LEMMA WakeKeeps ==
  ASSUME BrokerInv, NEW q \in Queries, WakeCaller(q)
  PROVE  BrokerInv'
<1> USE DEF BrokerInv, WakeCaller
<1>0. LivePending = pendingQueue /\ LiveAssigned = assignedQueries /\ LiveResults = storedResults
  BY NothingExpires
<1>1. BrokerTypes'
  BY <1>0 DEF BrokerTypes, Places
<1>2. \A p \in Queries : PlaceInv(p)'
  BY <1>0 DEF BrokerTypes, PlaceInv, InQueue
<1>3. \A p \in Queries : AnswerInv(p)'
  BY <1>0 DEF BrokerTypes, AnswerInv, Own
<1>4. WorkerInv'
  BY <1>0 DEF BrokerTypes, WorkerInv, Own, InQueue
<1>5. PollInv'
  BY <1>0 DEF BrokerTypes, PollInv
<1> QED
  BY <1>1, <1>2, <1>3, <1>4, <1>5 DEF BrokerInv

LEMMA StartPollKeeps ==
  ASSUME BrokerInv, StartPoll
  PROVE  BrokerInv'
<1> USE DEF BrokerInv, StartPoll
<1>0. LivePending = pendingQueue /\ LiveAssigned = assignedQueries /\ LiveResults = storedResults
  BY NothingExpires
<1>1. BrokerTypes'
  BY <1>0 DEF BrokerTypes, Polls
<1>2. \A p \in Queries : PlaceInv(p)'
  BY <1>0 DEF BrokerTypes, PlaceInv, InQueue
<1>3. \A p \in Queries : AnswerInv(p)'
  BY <1>0 DEF BrokerTypes, AnswerInv, Own
<1>4. WorkerInv'
  BY <1>0 DEF BrokerTypes, WorkerInv, Own, InQueue
<1>5. PollInv'
  BY <1>0 DEF BrokerTypes, PollInv
<1> QED
  BY <1>1, <1>2, <1>3, <1>4, <1>5 DEF BrokerInv

LEMMA PollAgainKeeps ==
  ASSUME BrokerInv, NEW h \in DOMAIN poll, PollAgain(h)
  PROVE  BrokerInv'
<1> USE DEF BrokerInv, PollAgain
<1>0. LivePending = pendingQueue /\ LiveAssigned = assignedQueries /\ LiveResults = storedResults
  BY NothingExpires
<1>1. BrokerTypes'
  BY <1>0 DEF BrokerTypes, Polls
<1>2. \A p \in Queries : PlaceInv(p)'
  BY <1>0 DEF BrokerTypes, PlaceInv, InQueue
<1>3. \A p \in Queries : AnswerInv(p)'
  BY <1>0 DEF BrokerTypes, AnswerInv, Own
<1>4. WorkerInv'
  BY <1>0 DEF BrokerTypes, WorkerInv, Own, InQueue
<1>5. PollInv'
  BY <1>0 DEF BrokerTypes, PollInv
<1> QED
  BY <1>1, <1>2, <1>3, <1>4, <1>5 DEF BrokerInv

LEMMA PollEndsKeeps ==
  ASSUME BrokerInv, NEW h \in DOMAIN poll, PollEnds(h)
  PROVE  BrokerInv'
<1> USE DEF BrokerInv, PollEnds
<1>0. LivePending = pendingQueue /\ LiveAssigned = assignedQueries /\ LiveResults = storedResults
  BY NothingExpires
<1>1. BrokerTypes'
  BY <1>0 DEF BrokerTypes, Polls
<1>2. \A p \in Queries : PlaceInv(p)'
  BY <1>0 DEF BrokerTypes, PlaceInv, InQueue
<1>3. \A p \in Queries : AnswerInv(p)'
  BY <1>0 DEF BrokerTypes, AnswerInv, Own
<1>4. WorkerInv'
  BY <1>0 DEF BrokerTypes, WorkerInv, Own, InQueue
<1>5. PollInv'
  BY <1>0 DEF BrokerTypes, PollInv
<1> QED
  BY <1>1, <1>2, <1>3, <1>4, <1>5 DEF BrokerInv

LEMMA LosePollKeeps ==
  ASSUME BrokerInv, LosePoll
  PROVE  BrokerInv'
<1> USE DEF BrokerInv, LosePoll
<1>0. LivePending = pendingQueue /\ LiveAssigned = assignedQueries /\ LiveResults = storedResults
  BY NothingExpires
<1>1. BrokerTypes'
  <2>1. poll["current"] \in Polls /\ [at |-> "none", signal |-> FALSE] \in Polls
    BY DEF BrokerTypes, Polls
  <2>2. poll' = [current |-> [at |-> "none", signal |-> FALSE], late |-> poll["current"]]
    OBVIOUS
  <2> DEFINE a == [at |-> "none", signal |-> FALSE]
             b == poll["current"]
             pair == [current |-> a, late |-> b]
  <2> HIDE DEF a, b
  <2>3. pair \in [{"current", "late"} -> {a, b}]
    OBVIOUS
  <2>4. poll' \in [{"current", "late"} -> Polls]
    BY <2>1, <2>2, <2>3 DEF a, b
  <2> QED
    BY <2>4 DEF BrokerTypes
<1>2. \A p \in Queries : PlaceInv(p)'
  BY <1>0 DEF BrokerTypes, PlaceInv, InQueue
<1>3. \A p \in Queries : AnswerInv(p)'
  BY <1>0 DEF BrokerTypes, AnswerInv, Own
<1>4. WorkerInv'
  BY <1>0 DEF BrokerTypes, WorkerInv, Own, InQueue
<1>5. PollInv'
  BY <1>0 DEF BrokerTypes, PollInv
<1> QED
  BY <1>1, <1>2, <1>3, <1>4, <1>5 DEF BrokerInv

LEMMA LoseReportKeeps ==
  ASSUME BrokerInv, LoseReport
  PROVE  BrokerInv'
<1> USE DEF BrokerInv, LoseReport, IdleWorker
<1>0. LivePending = pendingQueue /\ LiveAssigned = assignedQueries /\ LiveResults = storedResults
  BY NothingExpires
<1>1. BrokerTypes'
  <2>1. worker' \in [at : {"idle", "run", "report"}, query : Queries \cup {IdleWorker.query}, result : QueryResults]
    BY DEF QueryResults, Fields
  <2> QED
    BY <2>1 DEF BrokerTypes
<1>2. \A p \in Queries : PlaceInv(p)'
  BY <1>0 DEF BrokerTypes, PlaceInv, InQueue
<1>3. \A p \in Queries : AnswerInv(p)'
  BY <1>0 DEF BrokerTypes, AnswerInv, Own
<1>4. WorkerInv'
  BY <1>0 DEF BrokerTypes, WorkerInv, Own, InQueue
<1>5. PollInv'
  BY <1>0 DEF BrokerTypes, PollInv
<1> QED
  BY <1>1, <1>2, <1>3, <1>4, <1>5 DEF BrokerInv

LEMMA QueryTimeKeeps ==
  ASSUME BrokerInv, QueryTimePasses
  PROVE  BrokerInv'
<1> USE DEF BrokerInv, QueryTimePasses
<1>0. LivePending = pendingQueue /\ LiveAssigned = assignedQueries /\ LiveResults = storedResults
  BY NothingExpires
<1>1. BrokerTypes'
  <2>1. \A q \in Queries : WaitTimeout(q) \in Nat
    BY QueryAssumption DEF WaitTimeout, Larger
  <2>2. \A q \in Queries : queryAge'[q] = IF caller[q] = "wait" THEN queryAge[q] + 1 ELSE queryAge[q]
    BY DEF BrokerTypes
  <2>3. \A q \in Queries : queryAge'[q] \in Nat /\ queryAge'[q] <= WaitTimeout(q)
    <3> SUFFICES ASSUME NEW q \in Queries PROVE queryAge'[q] \in Nat /\ queryAge'[q] <= WaitTimeout(q)
      OBVIOUS
    <3>1. queryAge[q] \in Nat /\ queryAge[q] <= WaitTimeout(q) /\ (caller[q] = "wait" => queryAge[q] < WaitTimeout(q))
      BY DEF BrokerTypes
    <3> QED
      BY <2>1, <2>2, <3>1
  <2>4. queryAge' \in [Queries -> Nat]
    BY <2>3 DEF BrokerTypes
  <2>5. \A q \in Queries : WaitTimeout(q)' = WaitTimeout(q)
    BY DEF WaitTimeout, Larger
  <2> QED
    BY <2>3, <2>4, <2>5 DEF BrokerTypes
<1>2. \A p \in Queries : PlaceInv(p)'
  BY <1>0 DEF BrokerTypes, PlaceInv, InQueue
<1>3. \A p \in Queries : AnswerInv(p)'
  BY <1>0 DEF BrokerTypes, AnswerInv, Own
<1>4. WorkerInv'
  BY <1>0 DEF BrokerTypes, WorkerInv, Own, InQueue
<1>5. PollInv'
  BY <1>0 DEF BrokerTypes, PollInv
<1> QED
  BY <1>1, <1>2, <1>3, <1>4, <1>5 DEF BrokerInv

\* A query that is added to the queue is its new last entry.
LEMMA QueueGrows ==
  ASSUME NEW S, NEW list \in Seq(S), IsInjective(list), NEW q \in S, \A i \in DOMAIN list : list[i] # q
  PROVE  /\ Append(list, q) \in Seq(S) /\ IsInjective(Append(list, q))
         /\ \A p : (\E n \in DOMAIN Append(list, q) : Append(list, q)[n] = p)
                      <=> p = q \/ \E i \in DOMAIN list : list[i] = p
<1> DEFINE t == Append(list, q)
<1>1. /\ t \in Seq(S) /\ Len(list) \in Nat /\ DOMAIN list = 1..Len(list) /\ DOMAIN t = 1..(Len(list) + 1)
      /\ \A i \in 1..Len(list) : t[i] = list[i]
      /\ t[Len(list) + 1] = q
  OBVIOUS
<1> HIDE DEF t
<1>2. IsInjective(t)
  BY <1>1 DEF IsInjective
<1>3. ASSUME NEW p
      PROVE  (\E n \in DOMAIN t : t[n] = p) <=> p = q \/ \E i \in DOMAIN list : list[i] = p
  <2>1. ASSUME NEW n \in DOMAIN t, t[n] = p PROVE p = q \/ \E i \in DOMAIN list : list[i] = p
    BY <1>1, <2>1
  <2>2. Len(list) + 1 \in DOMAIN t
    BY <1>1
  <2>3. \A i \in DOMAIN list : i \in DOMAIN t /\ t[i] = list[i]
    BY <1>1
  <2> QED
    BY <1>1, <2>1, <2>2, <2>3
<1> QED
  BY <1>1, <1>2, <1>3 DEF t

\* and one that is taken from it was its first.
LEMMA QueueShrinks ==
  ASSUME NEW S, NEW list \in Seq(S), IsInjective(list), list # <<>>
  PROVE  /\ Tail(list) \in Seq(S) /\ IsInjective(Tail(list)) /\ Head(list) \in S
         /\ \E i \in DOMAIN list : list[i] = Head(list)
         /\ \A p : (\E n \in DOMAIN Tail(list) : Tail(list)[n] = p)
                      <=> p # Head(list) /\ \E i \in DOMAIN list : list[i] = p
<1> DEFINE t == Tail(list)
           h == Head(list)
<1>1. /\ t \in Seq(S) /\ Len(list) \in Nat /\ Len(list) # 0 /\ DOMAIN list = 1..Len(list)
      /\ DOMAIN t = 1..(Len(list) - 1)
      /\ \A i \in 1..(Len(list) - 1) : t[i] = list[i + 1]
      /\ h = list[1] /\ h \in S
  OBVIOUS
<1> HIDE DEF t, h
<1>2. IsInjective(t)
  <2> SUFFICES ASSUME NEW m \in 1..(Len(list) - 1), NEW n \in 1..(Len(list) - 1), t[m] = t[n]
               PROVE  m = n
    BY <1>1 DEF IsInjective
  <2>1. m + 1 \in DOMAIN list /\ n + 1 \in DOMAIN list /\ list[m + 1] = list[n + 1]
    BY <1>1
  <2>2. m + 1 = n + 1
    BY <2>1 DEF IsInjective
  <2> QED
    BY <2>2
<1>3. 1 \in DOMAIN list
  BY <1>1
<1>4. ASSUME NEW p
      PROVE  (\E n \in DOMAIN t : t[n] = p) <=> p # h /\ \E i \in DOMAIN list : list[i] = p
  <2>1. ASSUME NEW n \in DOMAIN t, t[n] = p PROVE p # h /\ \E i \in DOMAIN list : list[i] = p
    <3>1. n + 1 \in DOMAIN list /\ list[n + 1] = p /\ n + 1 # 1
      BY <1>1, <2>1
    <3> QED
      BY <1>1, <1>3, <3>1 DEF IsInjective
  <2>2. ASSUME NEW i \in DOMAIN list, list[i] = p, p # h PROVE \E n \in DOMAIN t : t[n] = p
    <3>1. i - 1 \in DOMAIN t /\ t[i - 1] = p
      BY <1>1, <2>2
    <3> QED
      BY <3>1
  <2> QED
    BY <2>1, <2>2
<1> QED
  BY <1>1, <1>2, <1>3, <1>4 DEF t, h

LEMMA EnqueueKeeps ==
  ASSUME BrokerInv, NEW q \in Queries, Enqueue(q)
  PROVE  BrokerInv'
<1> USE DEF BrokerInv, Enqueue
<1>0. LivePending = pendingQueue /\ LiveAssigned = assignedQueries /\ LiveResults = storedResults
  BY NothingExpires
<1>a. /\ pendingQueue' \in Seq(Queries) /\ IsInjective(pendingQueue')
      /\ \A p \in Queries : InQueue(p)' <=> p = q \/ InQueue(p)
  <2>1. pendingQueue \in Seq(Queries) /\ IsInjective(pendingQueue) /\ \A i \in DOMAIN pendingQueue : pendingQueue[i] # q
    BY DEF BrokerTypes, PlaceInv, InQueue
  <2>2. pendingQueue' = Append(pendingQueue, q)
    BY <1>0
  <2> QED
    BY ONLY <2>1, <2>2, QueueGrows, q \in Queries DEF InQueue
<1>b. /\ poll' \in [{"current", "late"} -> Polls]
      /\ \A h \in {"current", "late"} : poll'[h].at = poll[h].at /\ (poll[h].at # "none" => poll'[h].signal)
  BY DEF Signalled, BrokerTypes, Polls
<1>1. BrokerTypes'
  BY <1>0, <1>a, <1>b DEF BrokerTypes, Places
<1>2. \A p \in Queries : PlaceInv(p)'
  BY <1>0, <1>a DEF BrokerTypes, PlaceInv
<1>3. \A p \in Queries : AnswerInv(p)'
  BY <1>0 DEF BrokerTypes, AnswerInv, Own
<1>4. WorkerInv'
  BY <1>0, <1>a, <1>b DEF BrokerTypes, WorkerInv, Own
<1>5. PollInv'
  BY <1>0, <1>b DEF PollInv, Polls, BrokerTypes
<1> QED
  BY <1>1, <1>2, <1>3, <1>4, <1>5 DEF BrokerInv

LEMMA GiveUpKeeps ==
  ASSUME BrokerInv, NEW q \in Queries, NEW canceled \in BOOLEAN, GiveUp(q, canceled)
  PROVE  BrokerInv'
<1> USE DEF BrokerInv, GiveUp, Cancel
<1>0. LivePending = pendingQueue /\ LiveAssigned = assignedQueries /\ LiveResults = storedResults
  BY NothingExpires
<1>a. /\ pendingQueue' \in Seq(Queries) /\ IsInjective(pendingQueue')
      /\ \A p \in Queries : InQueue(p)' <=> p # q /\ InQueue(p)
      /\ pendingQueue = <<>> => pendingQueue' = <<>>
  <2> DEFINE rest == Queries \ {q}
  <2>1. pendingQueue \in Seq(Queries) /\ IsInjective(pendingQueue)
    BY DEF BrokerTypes
  <2>2. pendingQueue' = Filtered(pendingQueue, rest) /\ \A p \in Queries : p \in rest <=> p # q
    OBVIOUS
  <2> HIDE DEF rest
  <2> QED
    BY ONLY <2>1, <2>2, FilteredQueue DEF InQueue
<1>b. TimedOut \in Answers /\ NoResult \in QueryResults
  BY DEF TimedOut, NoResult, Answers, QueryResults, Fields
<1>1. BrokerTypes'
  BY <1>0, <1>a, <1>b DEF BrokerTypes, Places
<1>2. \A p \in Queries : PlaceInv(p)'
  BY <1>0, <1>a DEF BrokerTypes, PlaceInv
<1>3. \A p \in Queries : AnswerInv(p)'
  BY <1>0 DEF BrokerTypes, AnswerInv, Own, TimedOut
<1>4. WorkerInv'
  BY <1>0, <1>a DEF BrokerTypes, WorkerInv, Own
<1>5. PollInv'
  BY <1>0, <1>a DEF PollInv, BrokerTypes
<1> QED
  BY <1>1, <1>2, <1>3, <1>4, <1>5 DEF BrokerInv

LEMMA PullSomeKeeps ==
  ASSUME BrokerInv, NEW h \in DOMAIN poll, PullNextDockerQuery(h), pendingQueue # <<>>
  PROVE  BrokerInv'
<1> USE DEF BrokerInv
<1>0. LivePending = pendingQueue /\ LiveAssigned = assignedQueries /\ LiveResults = storedResults
  BY NothingExpires
<1>h. h \in {"current", "late"} /\ poll[h] \in Polls /\ poll[h].at = "pull"
  BY DEF BrokerTypes, PullNextDockerQuery
<1>u. UNCHANGED <<caller, answer, queryAge, resultSignal, executions, lostPolls, lostReports>>
  BY DEF PullNextDockerQuery
<1>a. /\ pendingQueue' \in Seq(Queries) /\ IsInjective(pendingQueue') /\ Head(pendingQueue) \in Queries
      /\ InQueue(Head(pendingQueue))
      /\ \A p \in Queries : InQueue(p)' <=> p # Head(pendingQueue) /\ InQueue(p)
  <2>1. pendingQueue \in Seq(Queries) /\ IsInjective(pendingQueue)
    BY DEF BrokerTypes
  <2>2. pendingQueue' = Tail(pendingQueue)
    BY <1>0 DEF PullNextDockerQuery
  <2> QED
    BY ONLY <2>1, <2>2, QueueShrinks, pendingQueue # <<>> DEF InQueue
<1>b. /\ storedResults' = storedResults /\ assignedQueries' = assignedQueries \cup {Head(pendingQueue)}
      /\ poll' = [poll EXCEPT ![h] = [at |-> "none", signal |-> FALSE]] /\ poll' \in [{"current", "late"} -> Polls]
      /\ worker' = IF h = "current" THEN [worker EXCEPT !.at = "run", !.query = Head(pendingQueue)] ELSE worker
      /\ worker' \in [at : {"idle", "run", "report"}, query : Queries \cup {IdleWorker.query}, result : QueryResults]
      /\ pendingQueue # <<>>
  <2>1. [at |-> "none", signal |-> FALSE] \in Polls
    BY DEF Polls
  <2>2. /\ storedResults' = storedResults /\ assignedQueries' = assignedQueries \cup {Head(pendingQueue)}
        /\ poll' = [poll EXCEPT ![h] = [at |-> "none", signal |-> FALSE]]
        /\ worker' = IF h = "current" THEN [worker EXCEPT !.at = "run", !.query = Head(pendingQueue)] ELSE worker
    BY <1>0 DEF PullNextDockerQuery
  <2>3. poll' \in [{"current", "late"} -> Polls]
    BY <2>1, <2>2 DEF BrokerTypes
  <2>4. worker' \in [at : {"idle", "run", "report"}, query : Queries \cup {IdleWorker.query}, result : QueryResults]
    BY <1>a, <2>2 DEF BrokerTypes
  <2> QED
    BY <2>2, <2>3, <2>4
<1>1. BrokerTypes'
  BY <1>a, <1>b, <1>h, <1>u DEF BrokerTypes
<1>2. \A p \in Queries : PlaceInv(p)'
  BY <1>a, <1>b, <1>u DEF BrokerTypes, PlaceInv
<1>3. \A p \in Queries : AnswerInv(p)'
  BY <1>b, <1>u DEF BrokerTypes, AnswerInv, Own
<1>4. WorkerInv'
  <2>1. CASE h = "current"
    <3>1. worker.at = "idle" /\ worker'.at = "run" /\ worker'.query = Head(pendingQueue) /\ poll'["current"].at = "none"
      BY <1>b, <1>h, <2>1 DEF WorkerInv, BrokerTypes
    <3> QED
      BY <1>a, <1>u, <3>1 DEF WorkerInv, PlaceInv
  <2>2. CASE h # "current"
    <3>1. worker' = worker /\ poll'["current"] = poll["current"]
      BY <1>b, <1>h, <2>2 DEF BrokerTypes
    <3> QED
      BY <1>a, <1>u, <3>1 DEF WorkerInv, Own
  <2> QED
    BY <2>1, <2>2
<1>5. PollInv'
  BY <1>a, <1>b, <1>h DEF PollInv, BrokerTypes, Polls
<1> QED
  BY <1>1, <1>2, <1>3, <1>4, <1>5 DEF BrokerInv

LEMMA PullNoneKeeps ==
  ASSUME BrokerInv, NEW h \in DOMAIN poll, PullNextDockerQuery(h), pendingQueue = <<>>
  PROVE  BrokerInv'
<1> USE DEF BrokerInv
<1>0. LivePending = pendingQueue /\ LiveAssigned = assignedQueries /\ LiveResults = storedResults
  BY NothingExpires
<1>h. h \in {"current", "late"} /\ poll[h] \in Polls /\ poll[h].at = "pull"
  BY DEF BrokerTypes, PullNextDockerQuery
<1>u. UNCHANGED <<caller, answer, queryAge, resultSignal, executions, lostPolls, lostReports>>
  BY DEF PullNextDockerQuery
<1>b. /\ storedResults' = storedResults /\ assignedQueries' = assignedQueries /\ pendingQueue' = <<>>
      /\ poll' = [poll EXCEPT ![h].at = "wait"] /\ poll' \in [{"current", "late"} -> Polls]
      /\ worker' = worker
  <2>1. /\ storedResults' = storedResults /\ assignedQueries' = assignedQueries /\ pendingQueue' = <<>>
        /\ poll' = [poll EXCEPT ![h].at = "wait"] /\ worker' = worker
    BY <1>0 DEF PullNextDockerQuery
  <2>2. [poll[h] EXCEPT !.at = "wait"] \in Polls
    BY <1>h DEF Polls
  <2>3. poll' \in [{"current", "late"} -> Polls]
    BY <1>h, <2>1, <2>2 DEF BrokerTypes
  <2> QED
    BY <2>1, <2>3
<1>c. pendingQueue' = pendingQueue
  BY <1>b
<1>1. BrokerTypes'
  BY <1>c, <1>b, <1>h, <1>u DEF BrokerTypes
<1>2. \A p \in Queries : PlaceInv(p)'
  BY <1>c, <1>b, <1>u DEF BrokerTypes, PlaceInv, InQueue
<1>3. \A p \in Queries : AnswerInv(p)'
  BY <1>b, <1>u DEF BrokerTypes, AnswerInv, Own
<1>4. WorkerInv'
  BY <1>c, <1>b, <1>h, <1>u DEF BrokerTypes, WorkerInv, InQueue, Own
<1>5. PollInv'
  BY <1>c, <1>b, <1>h DEF PollInv, BrokerTypes, Polls
<1> QED
  BY <1>1, <1>2, <1>3, <1>4, <1>5 DEF BrokerInv

LEMMA ExecuteKeeps ==
  ASSUME BrokerInv, NEW outcome \in {"ok"} \cup Codes, ExecuteDockerQuery(outcome)
  PROVE  BrokerInv'
<1> USE DEF BrokerInv, ExecuteDockerQuery
<1>0. LivePending = pendingQueue /\ LiveAssigned = assignedQueries /\ LiveResults = storedResults
  BY NothingExpires
<1>a. /\ worker.query \in Queries /\ executions[worker.query] = 0 /\ ~InQueue(worker.query)
      /\ caller[worker.query] # "idle" /\ executions' = [executions EXCEPT ![worker.query] = 1]
  <2>1. /\ worker.query \in Queries /\ executions[worker.query] = 0 /\ ~InQueue(worker.query)
        /\ caller[worker.query] # "idle"
    BY DEF WorkerInv
  <2>2. executions' = [executions EXCEPT ![worker.query] = 0 + 1]
    BY <2>1
  <2> QED
    BY <2>1, <2>2
<1>b. /\ worker'.at = "report" /\ worker'.query = worker.query /\ worker'.result \in QueryResults
      /\ worker'.result # NoResult
      /\ worker'.result.code = NoCode => worker'.result.field = PayloadField(QueryKind[worker.query])
  BY <1>a, ResultFits
<1>1. BrokerTypes'
  <2>1. executions' \in [Queries -> 0..1]
    BY <1>a DEF BrokerTypes
  <2>2. worker' \in [at : {"idle", "run", "report"}, query : Queries \cup {IdleWorker.query}, result : QueryResults]
    <3> DEFINE r == ResultOf(worker.query, outcome)
    <3>1. r \in QueryResults
      BY <1>a, ResultFits
    <3>2. worker' = [worker EXCEPT !.at = "report", !.result = r]
      OBVIOUS
    <3> HIDE DEF r
    <3> QED
      BY <3>1, <3>2 DEF BrokerTypes
  <2> QED
    BY <2>1, <2>2 DEF BrokerTypes
<1>2. \A p \in Queries : PlaceInv(p)'
  BY <1>0, <1>a DEF BrokerTypes, PlaceInv, InQueue
<1>3. \A p \in Queries : AnswerInv(p)'
  BY <1>0, <1>a DEF BrokerTypes, AnswerInv, Own
<1>4. WorkerInv'
  BY <1>0, <1>a, <1>b DEF BrokerTypes, WorkerInv, Own, InQueue
<1>5. PollInv'
  BY <1>0 DEF BrokerTypes, PollInv
<1> QED
  BY <1>1, <1>2, <1>3, <1>4, <1>5 DEF BrokerInv

LEMMA ReportKeeps ==
  ASSUME BrokerInv, ReportDockerQueryResult
  PROVE  BrokerInv'
<1> USE DEF BrokerInv, ReportDockerQueryResult
<1>0. LivePending = pendingQueue /\ LiveAssigned = assignedQueries /\ LiveResults = storedResults
  BY NothingExpires
<1>a. /\ worker.query \in Queries /\ worker.result \in QueryResults /\ worker.result # NoResult
      /\ Own(worker.query, worker.result) /\ ~InQueue(worker.query)
  BY DEF WorkerInv
<1>b. worker'.at = "idle" /\ worker' \in [at : {"idle", "run", "report"}, query : Queries \cup {IdleWorker.query}, result : QueryResults]
  BY DEF IdleWorker, QueryResults, Fields
<1>c. /\ pendingQueue' = pendingQueue /\ assignedQueries' = assignedQueries \ {worker.query}
      /\ storedResults' = IF worker.query \in assignedQueries
                          THEN [storedResults EXCEPT ![worker.query] = worker.result] ELSE storedResults
      /\ resultSignal' = [resultSignal EXCEPT ![worker.query] =
           @ \/ (worker.query \in assignedQueries /\ NotifyResult(worker.query))]
      /\ UNCHANGED <<caller, answer, queryAge, poll, executions>>
  BY <1>0
<1>1. BrokerTypes'
  BY <1>0, <1>a, <1>b DEF BrokerTypes
<1>2. \A p \in Queries : PlaceInv(p)'
  <2> HIDE DEF ReportDockerQueryResult
  <2> SUFFICES ASSUME NEW p \in Queries PROVE PlaceInv(p)'
    OBVIOUS
  <2>1. InQueue(p)' <=> InQueue(p)
    BY <1>c DEF InQueue
  <2>2. CASE p # worker.query
    BY <1>a, <1>c, <2>1, <2>2 DEF BrokerTypes, PlaceInv
  <2>3. CASE p = worker.query /\ p \in assignedQueries
    <3>1. storedResults'[p] = worker.result /\ resultSignal'[p] = (resultSignal[p] \/ NotifyResult(p))
      BY <1>a, <1>c, <2>3 DEF BrokerTypes
    <3>2. p \notin assignedQueries' /\ caller' = caller /\ executions' = executions /\ ~InQueue(p)'
      BY <1>a, <1>c, <2>1, <2>3
    <3>3. caller[p] \notin {"idle", "returned"}
      BY <2>3 DEF PlaceInv
    <3> QED
      BY <1>a, <2>3, <3>1, <3>2, <3>3 DEF PlaceInv, NotifyResult
  <2>4. CASE p = worker.query /\ p \notin assignedQueries
    <3>1. storedResults' = storedResults /\ assignedQueries' = assignedQueries /\ caller' = caller /\ executions' = executions
      BY <1>c, <2>4
    <3>2. resultSignal'[p] = resultSignal[p]
      BY <1>c, <2>4 DEF BrokerTypes
    <3> QED
      BY <2>1, <3>1, <3>2 DEF PlaceInv
  <2> QED
    BY <2>2, <2>3, <2>4
<1>3. \A p \in Queries : AnswerInv(p)'
  BY <1>0, <1>a, <1>b DEF BrokerTypes, AnswerInv, Own
<1>4. WorkerInv'
  BY <1>0, <1>b DEF BrokerTypes, WorkerInv, Own, InQueue
<1>5. PollInv'
  BY <1>0 DEF PollInv
<1> QED
  BY <1>1, <1>2, <1>3, <1>4, <1>5 DEF BrokerInv

LEMMA BrokerStep == BrokerInv /\ [QueryNext]_queryVars => BrokerInv'
<1> SUFFICES ASSUME BrokerInv, [QueryNext]_queryVars PROVE BrokerInv'
  OBVIOUS
<1>1. ASSUME NEW q \in Queries, CallerStep(q) PROVE BrokerInv'
  BY <1>1, EnqueueKeeps, SubscribeKeeps, PopKeeps, SelectKeeps, WakeKeeps, GiveUpKeeps DEF CallerStep
<1>2. ASSUME NEW h \in DOMAIN poll, PullNextDockerQuery(h) \/ PollAgain(h) \/ PollEnds(h) PROVE BrokerInv'
  BY <1>2, PullSomeKeeps, PullNoneKeeps, PollAgainKeeps, PollEndsKeeps
<1>3. ASSUME NEW outcome \in {"ok"} \cup Codes, ExecuteDockerQuery(outcome) PROVE BrokerInv'
  BY <1>3, ExecuteKeeps
<1>4. CASE StartPoll
  BY <1>4, StartPollKeeps
<1>5. CASE LosePoll
  BY <1>5, LosePollKeeps
<1>6. CASE ReportDockerQueryResult
  BY <1>6, ReportKeeps
<1>7. CASE LoseReport
  BY <1>7, LoseReportKeeps
<1>8. CASE QueryTimePasses
  BY <1>8, QueryTimeKeeps
<1>9. CASE UNCHANGED queryVars
  <2>1. BrokerTypes' /\ WorkerInv' /\ PollInv'
    BY <1>9 DEF BrokerInv, BrokerTypes, WorkerInv, PollInv, Own, InQueue, queryVars
  <2>2. \A q \in Queries : PlaceInv(q)' /\ AnswerInv(q)'
    BY <1>9 DEF BrokerInv, PlaceInv, AnswerInv, Own, InQueue, queryVars
  <2> QED
    BY <2>1, <2>2 DEF BrokerInv
<1> QED
  BY <1>1, <1>2, <1>3, <1>4, <1>5, <1>6, <1>7, <1>8, <1>9 DEF QueryNext

LEMMA BrokerInvIsSound == BrokerInv => BrokerIsSound
<1> SUFFICES ASSUME BrokerInv PROVE BrokerIsSound
  OBVIOUS
<1> USE DEF BrokerInv
<1>1. QueryTypeOK
  <2>1. \A q \in Queries : queryAge[q] \in 0..WaitTimeout(q)
    <3>1. \A q \in Queries : WaitTimeout(q) \in Nat
      BY QueryAssumption DEF WaitTimeout, Larger
    <3> QED
      BY <3>1 DEF BrokerTypes
  <2>2. Range(pendingQueue) \subseteq Queries
    BY DEF BrokerTypes, Range
  <2>3. \A r \in QueryResults : r \in [field : Fields, code : {NoCode, "none"} \cup Codes]
    BY DEF QueryResults, Codes
  <2>4. storedResults \in [Queries -> [field : Fields, code : {NoCode, "none"} \cup Codes]]
    BY <2>3 DEF BrokerTypes
  <2> QED
    BY <2>1, <2>2, <2>4 DEF BrokerTypes, QueryTypeOK, Answers, Fields, Places
<1>2. NothingLeftBehind
  BY DEF NothingLeftBehind, PlaceInv, InQueue, Range
<1>3. WaitedForIsKnown
  BY NothingExpires DEF WaitedForIsKnown, PlaceInv, InQueue
<1>4. NoLostWakeup
  BY DEF NoLostWakeup, PlaceInv, PollInv, BrokerTypes
<1>5. AnswerIsOwn
  BY DEF AnswerIsOwn, AnswerInv, Own
<1> QED
  BY <1>1, <1>2, <1>3, <1>4, <1>5 DEF BrokerIsSound

\* For any queries, time-outs, lost polls and lost reports: the broker keeps what
\* somebody waits for and nothing else, loses no wake-up, and gives each caller
\* the answer to its own query, run once.
THEOREM BrokerSound == QuerySpec => []BrokerIsSound
<1> QED
  BY BrokerInitOK, BrokerStep, BrokerInvIsSound, PTL DEF QuerySpec

-----------------------------------------------------------------------------
(* Tunnels *)

Messages == [kind : {"start", "stdin", "close", "output", "closed"}, session : Sessions]
SessionRows == [known : BOOLEAN, closed : BOOLEAN, opened : BOOLEAN, token : BOOLEAN, expired : BOOLEAN,
                attaching : BOOLEAN, taken : BOOLEAN, incoming : Seq({"output", "closed"}),
                reader : {"none", "reading", "leaving", "left"}]

TunnelTypes ==
  /\ tunnelKind \in {"exec", "log"} /\ registered \in 0..MaxStreams /\ agentStream \in 0..MaxStreams
  /\ queue \in [Streams -> Seq(Messages)] /\ \A g \in Streams : Len(queue[g]) <= QueueSize
  /\ chanOpen \in [Streams -> BOOLEAN] /\ handler \in [Streams -> {"none", "serving", "ended"}]
  /\ fromAgent \in [Streams -> Seq(Messages)]
  /\ delivering \in [Streams -> Messages \cup {NoMessage}]
  /\ session \in [Sessions -> SessionRows] /\ \A s \in Sessions : Len(session[s].incoming) <= QueueSize
  /\ attach \in [Browsers -> [Sessions -> {"none", "upgrading", "attached", "refused"}]]
  /\ running \in [Sessions -> 0..MaxStreams]
  /\ \A g \in Streams : \A i \in DOMAIN fromAgent[g] : fromAgent[g][i].kind \in {"output", "closed"}
  /\ \A g \in Streams : delivering[g] # NoMessage => delivering[g].kind \in {"output", "closed"}

\* The registered tunnel has an open queue and a handler that serves it; what
\* runs on the agent runs on its current stream.
StreamInv ==
  /\ registered # 0 => chanOpen[registered] /\ handler[registered] = "serving"
  /\ \A g \in Streams : handler[g] = "none" => queue[g] = <<>>
  /\ \A s \in Sessions : running[s] # 0 => running[s] = agentStream /\ handler[running[s]] # "none"
  /\ ~crashed

Has(q, m) == \E i \in DOMAIN q : q[i] = m
Once(q, m) == \A i, j \in DOMAIN q : q[i] = m /\ q[j] = m => i = j
Earlier(q, m, n) == \A i, j \in DOMAIN q : q[i] = m /\ q[j] = n => i < j
ToStart(s) == \E g \in Streams : Has(queue[g], Message("start", s))
ToEnd(s) == \E g \in Streams : Has(queue[g], Message("close", s))
Reported(s) == \E g \in Streams : Has(fromAgent[g], Message("closed", s))

\* A session is started once: it waits in one queue, runs, or has been reported
\* as ended, and of these only one.
SessionInv(s) ==
  /\ session[s].known => session[s].opened
  /\ ~session[s].opened => running[s] = 0 /\ ~ToStart(s) /\ ~ToEnd(s) /\ ~Reported(s)
  /\ \A g \in Streams : /\ Once(queue[g], Message("start", s))
                         /\ Earlier(queue[g], Message("start", s), Message("close", s))
  /\ \A g, h \in Streams : Has(queue[g], Message("start", s)) /\ Has(queue[h], Message("start", s)) => g = h
  /\ ToStart(s) => running[s] = 0
  /\ Reported(s) => running[s] = 0 /\ ~ToStart(s)

\* What is forgotten and runs, or will run, on the registered tunnel is told to
\* end.
ForgottenInv(s) ==
  session[s].opened /\ ~session[s].known /\ s \notin dropped \cup orphaned /\ registered # 0
    /\ (running[s] = registered \/ Has(queue[registered], Message("start", s)))
  => Has(queue[registered], Message("close", s))

TunnelInv ==
  /\ TunnelTypes /\ StreamInv
  /\ \A s \in Sessions : SessionInv(s) /\ ForgottenInv(s)

(* Messages and queues *)

LEMMA Messages_ ==
  /\ \A k, l, s, p : Message(k, s) = Message(l, p) <=> k = l /\ s = p
  /\ \A k, s : Message(k, s).kind = k /\ Message(k, s).session = s
  /\ \A k \in {"start", "stdin", "close", "output", "closed"}, s \in Sessions : Message(k, s) \in Messages
  /\ \A m \in Messages : m = Message(m.kind, m.session)
  BY DEF Message, Messages

LEMMA AppendHas ==
  ASSUME NEW S, NEW q \in Seq(S), NEW m \in S
  PROVE  /\ Append(q, m) \in Seq(S) /\ Len(Append(q, m)) = Len(q) + 1 /\ Len(q) \in Nat
         /\ \A x : Has(Append(q, m), x) <=> Has(q, x) \/ x = m
         /\ \A x : Once(q, x) /\ (x = m => ~Has(q, x)) => Once(Append(q, m), x)
<1> DEFINE t == Append(q, m)
<1>1. /\ t \in Seq(S) /\ Len(q) \in Nat /\ Len(t) = Len(q) + 1 /\ DOMAIN q = 1..Len(q) /\ DOMAIN t = 1..(Len(q) + 1)
      /\ \A i \in 1..Len(q) : t[i] = q[i]
      /\ t[Len(q) + 1] = m
  OBVIOUS
<1> HIDE DEF t
<1>2. \A i \in DOMAIN t : i \in DOMAIN q \/ i = Len(q) + 1
  BY <1>1
<1>3. \A i \in DOMAIN q : i \in DOMAIN t /\ t[i] = q[i]
  BY <1>1
<1>4. Len(q) + 1 \in DOMAIN t
  BY <1>1
<1>5. ASSUME NEW x PROVE Has(t, x) <=> Has(q, x) \/ x = m
  BY <1>1, <1>2, <1>3, <1>4 DEF Has
<1>6. ASSUME NEW x, Once(q, x), x = m => ~Has(q, x) PROVE Once(t, x)
  BY <1>1, <1>2, <1>3, <1>6 DEF Has, Once
<1> QED
  BY <1>1, <1>5, <1>6 DEF t

LEMMA TailHas ==
  ASSUME NEW S, NEW q \in Seq(S), q # <<>>
  PROVE  /\ Tail(q) \in Seq(S) /\ Len(Tail(q)) = Len(q) - 1 /\ Len(q) \in Nat /\ Head(q) \in S
         /\ Has(q, Head(q))
         /\ \A x : Has(Tail(q), x) => Has(q, x)
         /\ \A x : Has(q, x) /\ x # Head(q) => Has(Tail(q), x)
         /\ \A x : Once(q, x) => Once(Tail(q), x)
         /\ Once(q, Head(q)) => ~Has(Tail(q), Head(q))
         /\ \A i \in DOMAIN Tail(q) : i + 1 \in DOMAIN q /\ Tail(q)[i] = q[i + 1]
<1> DEFINE t == Tail(q)
           h == Head(q)
<1>1. /\ t \in Seq(S) /\ Len(q) \in Nat /\ Len(q) # 0 /\ DOMAIN q = 1..Len(q) /\ DOMAIN t = 1..(Len(q) - 1)
      /\ Len(t) = Len(q) - 1
      /\ \A i \in 1..(Len(q) - 1) : t[i] = q[i + 1]
      /\ h = q[1] /\ h \in S
  OBVIOUS
<1> HIDE DEF t, h
<1>2. \A i \in DOMAIN t : i \in Nat /\ i + 1 \in DOMAIN q /\ t[i] = q[i + 1] /\ i + 1 # 1
  BY <1>1
<1>3. 1 \in DOMAIN q
  BY <1>1
<1>4. \A i \in DOMAIN q : i # 1 => i - 1 \in DOMAIN t /\ t[i - 1] = q[i]
  BY <1>1
<1>5. \A x : Has(t, x) => Has(q, x)
  BY <1>2 DEF Has
<1>6. \A x : Has(q, x) /\ x # h => Has(t, x)
  BY <1>1, <1>4 DEF Has
<1>7. ASSUME NEW x, Once(q, x), NEW i \in DOMAIN t, NEW j \in DOMAIN t, t[i] = x, t[j] = x PROVE i = j
  <2>1. i + 1 = j + 1
    BY <1>2, <1>7 DEF Once
  <2> QED
    BY <1>2, <2>1
<1>8. Once(q, h) => ~Has(t, h)
  BY <1>1, <1>2, <1>3 DEF Has, Once
<1>9. Has(q, h)
  BY <1>1, <1>3 DEF Has
<1> QED
  BY <1>1, <1>2, <1>5, <1>6, <1>7, <1>8, <1>9 DEF t, h, Once

LEMMA AppendOrder ==
  ASSUME NEW S, NEW q \in Seq(S), NEW m \in S, NEW x, NEW y, Earlier(q, x, y), m # x \/ (~Has(q, y) /\ m # y)
  PROVE  Earlier(Append(q, m), x, y)
<1> DEFINE t == Append(q, m)
<1>1. /\ Len(q) \in Nat /\ DOMAIN q = 1..Len(q) /\ DOMAIN t = 1..(Len(q) + 1)
      /\ \A i \in 1..Len(q) : t[i] = q[i]
      /\ t[Len(q) + 1] = m
  OBVIOUS
<1> HIDE DEF t
<1>2. \A i \in DOMAIN t : i \in DOMAIN q \/ i = Len(q) + 1
  BY <1>1
<1>3. ASSUME NEW i \in DOMAIN t, NEW j \in DOMAIN t, t[i] = x, t[j] = y PROVE i < j
  <2>1. CASE i \in DOMAIN q /\ j \in DOMAIN q
    BY <1>1, <1>3, <2>1 DEF Earlier
  <2>2. CASE i \in DOMAIN q /\ j = Len(q) + 1
    BY <1>1, <2>2
  <2>3. CASE i = Len(q) + 1
    <3>1. m = x /\ ~Has(q, y) /\ m # y
      BY <1>1, <1>3, <2>3
    <3>2. j \notin DOMAIN q /\ j # Len(q) + 1
      BY <1>1, <1>3, <3>1 DEF Has
    <3> QED
      BY <1>2, <3>2
  <2> QED
    BY <1>2, <2>1, <2>2, <2>3
<1> QED
  BY <1>3 DEF t, Earlier

LEMMA TailOrder ==
  ASSUME NEW S, NEW q \in Seq(S), q # <<>>, NEW x, NEW y, Earlier(q, x, y)
  PROVE  Earlier(Tail(q), x, y) /\ (Head(q) = y => ~Has(Tail(q), x))
<1> DEFINE t == Tail(q)
<1>1. /\ Len(q) \in Nat /\ Len(q) # 0 /\ DOMAIN q = 1..Len(q) /\ DOMAIN t = 1..(Len(q) - 1)
      /\ \A i \in 1..(Len(q) - 1) : t[i] = q[i + 1]
      /\ Head(q) = q[1]
  OBVIOUS
<1> HIDE DEF t
<1>2. \A i \in DOMAIN t : i \in Nat /\ i + 1 \in DOMAIN q /\ t[i] = q[i + 1] /\ ~(i + 1 < 1)
  BY <1>1
<1>3. ASSUME NEW i \in DOMAIN t, NEW j \in DOMAIN t, t[i] = x, t[j] = y PROVE i < j
  <2>1. i + 1 < j + 1
    BY <1>2, <1>3 DEF Earlier
  <2> QED
    BY <1>2, <2>1
<1>4. Head(q) = y => ~Has(t, x)
  BY <1>1, <1>2 DEF Has, Earlier
<1> QED
  BY <1>3, <1>4 DEF t, Earlier

LEMMA TunnelInitOK == TunnelInit => TunnelInv
<1> SUFFICES ASSUME TunnelInit PROVE TunnelInv
  OBVIOUS
<1> USE TunnelAssumption DEF TunnelInit, Streams
<1>1. TunnelTypes
  <2>1. session \in [Sessions -> SessionRows]
    BY DEF SessionRows
  <2>2. \A g \in Streams : queue[g] = <<>> /\ fromAgent[g] = <<>>
    OBVIOUS
  <2>3. \A s \in Sessions : session[s].incoming = <<>>
    OBVIOUS
  <2> QED
    BY <2>1, <2>2, <2>3 DEF TunnelTypes
<1>2. StreamInv
  BY DEF StreamInv
<1>3. \A s \in Sessions : SessionInv(s) /\ ForgottenInv(s)
  BY DEF SessionInv, ForgottenInv, ToStart, ToEnd, Reported, Has, Once, Earlier
<1> QED
  BY <1>1, <1>2, <1>3 DEF TunnelInv

\* What keeps the invariant: a step of the controller that starts and ends
\* nothing on the agent, and tells it about every session it forgets.
LEMMA ControllerStep ==
  ASSUME TunnelInv, TunnelTypes', crashed' = FALSE,
         UNCHANGED <<registered, chanOpen, handler, agentStream, running>>,
         \A p \in Sessions : Reported(p)' => Reported(p),
         \A g \in Streams, p \in Sessions :
           /\ Has(queue'[g], Message("start", p)) <=> Has(queue[g], Message("start", p))
           /\ Once(queue[g], Message("start", p)) => Once(queue'[g], Message("start", p))
           /\ Earlier(queue[g], Message("start", p), Message("close", p)) =>
                Earlier(queue'[g], Message("start", p), Message("close", p))
           /\ Has(queue[g], Message("close", p)) => Has(queue'[g], Message("close", p))
           /\ Has(queue'[g], Message("close", p)) => Has(queue[g], Message("close", p)) \/ session[p].opened,
         \A g \in Streams : handler[g] = "none" => queue'[g] = queue[g],
         dropped \subseteq dropped', orphaned \subseteq orphaned',
         \A p \in Sessions :
           /\ session'[p].opened = session[p].opened
           /\ session'[p].known => session[p].known
           /\ session[p].known /\ ~session'[p].known /\ registered # 0 =>
                p \in dropped' \cup orphaned' \/ Has(queue'[registered], Message("close", p)) \/ Reported(p)
  PROVE  TunnelInv'
<1>1. StreamInv'
  BY DEF TunnelInv, StreamInv
<1>2. ASSUME NEW p \in Sessions PROVE SessionInv(p)'
  <2>1. (ToStart(p)' <=> ToStart(p)) /\ (ToEnd(p)' => ToEnd(p) \/ session[p].opened)
    BY DEF ToStart, ToEnd, Streams
  <2> QED
    BY <2>1 DEF TunnelInv, SessionInv, Streams
<1>3. ASSUME NEW p \in Sessions PROVE ForgottenInv(p)'
  <2>1. SUFFICES ASSUME session'[p].opened, ~session'[p].known, p \notin dropped' \cup orphaned', registered # 0,
                        running[p] = registered \/ Has(queue'[registered], Message("start", p))
                 PROVE  Has(queue'[registered], Message("close", p))
    BY DEF ForgottenInv
  <2>2. registered \in Streams /\ p \notin dropped \cup orphaned /\ session[p].opened
    BY <2>1 DEF TunnelInv, TunnelTypes, Streams
  <2>3. running[p] = registered \/ Has(queue[registered], Message("start", p))
    BY <2>1, <2>2
  <2>4. CASE ~session[p].known
    BY <2>1, <2>2, <2>3, <2>4 DEF TunnelInv, ForgottenInv
  <2>5. CASE session[p].known
    <3>1. ~Reported(p)
      BY <2>1, <2>2, <2>3 DEF TunnelInv, SessionInv, ToStart
    <3> QED
      BY <2>1, <2>5, <3>1
  <2> QED
    BY <2>4, <2>5
<1> QED
  BY <1>1, <1>2, <1>3 DEF TunnelInv

LEMMA RegisteredServes ==
  ASSUME TunnelInv, registered # 0
  PROVE  registered \in Streams /\ handler[registered] = "serving" /\ chanOpen[registered]
  BY DEF TunnelInv, TunnelTypes, StreamInv, Streams

\* A message for the agent is queued when there is room, and the queue of the
\* registered tunnel is open.
LEMMA SendEffect ==
  ASSUME TunnelInv, NEW m \in Messages, Room, queue' = [queue EXCEPT ![registered] = Append(@, m)],
         crashed' = (crashed \/ SendCrashes)
  PROVE  /\ crashed' = FALSE /\ registered \in Streams /\ handler[registered] = "serving"
         /\ queue' \in [Streams -> Seq(Messages)] /\ \A g \in Streams : Len(queue'[g]) <= QueueSize
         /\ \A g \in Streams : g # registered => queue'[g] = queue[g]
         /\ \A x : Has(queue'[registered], x) <=> Has(queue[registered], x) \/ x = m
         /\ \A x : Once(queue[registered], x) /\ (x = m => ~Has(queue[registered], x)) => Once(queue'[registered], x)
         /\ \A x, y : Earlier(queue[registered], x, y) /\ (m # x \/ (~Has(queue[registered], y) /\ m # y))
              => Earlier(queue'[registered], x, y)
<1>1. registered # 0 /\ Len(queue[registered]) < QueueSize
  BY DEF Room
<1>2. registered \in Streams /\ handler[registered] = "serving" /\ chanOpen[registered]
  BY <1>1, RegisteredServes
<1>3. crashed' = FALSE
  BY <1>2 DEF SendCrashes, TunnelInv, StreamInv
<1>4. queue \in [Streams -> Seq(Messages)] /\ (\A g \in Streams : Len(queue[g]) <= QueueSize) /\ QueueSize \in Nat
  BY TunnelAssumption DEF TunnelInv, TunnelTypes
<1> DEFINE t == Append(queue[registered], m)
<1>5. /\ t \in Seq(Messages) /\ Len(t) = Len(queue[registered]) + 1 /\ Len(queue[registered]) \in Nat
      /\ \A x : Has(t, x) <=> Has(queue[registered], x) \/ x = m
      /\ \A x : Once(queue[registered], x) /\ (x = m => ~Has(queue[registered], x)) => Once(t, x)
      /\ \A x, y : Earlier(queue[registered], x, y) /\ (m # x \/ (~Has(queue[registered], y) /\ m # y))
           => Earlier(t, x, y)
  <2>1. queue[registered] \in Seq(Messages)
    BY <1>2, <1>4
  <2> QED
    BY <2>1, AppendHas, AppendOrder
<1> HIDE DEF t
<1>6. queue' = [queue EXCEPT ![registered] = t]
  BY DEF t
<1>7. queue'[registered] = t /\ \A g \in Streams : g # registered => queue'[g] = queue[g]
  BY <1>2, <1>4, <1>6
<1>8. Len(t) <= QueueSize
  BY <1>1, <1>4, <1>5
<1>9. queue' \in [Streams -> Seq(Messages)]
  BY <1>4, <1>5, <1>6
<1>10. \A g \in Streams : Len(queue'[g]) <= QueueSize
  BY <1>4, <1>7, <1>8
<1> QED
  BY <1>2, <1>3, <1>5, <1>7, <1>9, <1>10

\* closeSessionLocked tells the agent, if it can, and harms nobody else.
LEMMA CloseEffect ==
  ASSUME TunnelInv, NEW s \in Sessions, NEW r \in SessionRows, Len(r.incoming) <= QueueSize, CloseSession(s, r)
  PROVE  /\ session' \in [Sessions -> SessionRows] /\ \A p \in Sessions : Len(session'[p].incoming) <= QueueSize
         /\ crashed' = FALSE
         /\ queue' \in [Streams -> Seq(Messages)] /\ \A g \in Streams : Len(queue'[g]) <= QueueSize
         /\ \A g \in Streams, p \in Sessions :
              /\ Has(queue'[g], Message("start", p)) <=> Has(queue[g], Message("start", p))
              /\ Once(queue[g], Message("start", p)) => Once(queue'[g], Message("start", p))
              /\ Earlier(queue[g], Message("start", p), Message("close", p)) =>
                   Earlier(queue'[g], Message("start", p), Message("close", p))
              /\ Has(queue[g], Message("close", p)) => Has(queue'[g], Message("close", p))
              /\ Has(queue'[g], Message("close", p)) => Has(queue[g], Message("close", p)) \/ (p = s /\ r.known)
         /\ \A g \in Streams : handler[g] = "none" => queue'[g] = queue[g]
         /\ dropped \subseteq dropped'
         /\ session'[s].opened = r.opened /\ ~session'[s].known
         /\ \A p \in Sessions \ {s} : session'[p] = session[p]
         /\ r.known /\ registered # 0 => s \in dropped' \/ Has(queue'[registered], Message("close", s))
<1> DEFINE m == Message("close", s)
<1>1. m \in Messages /\ \A p \in Sessions : m # Message("start", p) /\ (m = Message("close", p) => p = s)
  BY Messages_ DEF Messages
<1>2. /\ Closed(r) \in SessionRows /\ Closed(r).incoming = r.incoming /\ Closed(r).opened = r.opened
      /\ ~Closed(r).known
  BY DEF Closed, SessionRows
<1>3. session' = [session EXCEPT ![s] = Closed(r)] /\ session \in [Sessions -> SessionRows]
      /\ \A p \in Sessions : Len(session[p].incoming) <= QueueSize
  BY DEF CloseSession, TunnelInv, TunnelTypes
<1>4. /\ session' \in [Sessions -> SessionRows] /\ \A p \in Sessions : Len(session'[p].incoming) <= QueueSize
      /\ session'[s].opened = r.opened /\ ~session'[s].known
      /\ \A p \in Sessions \ {s} : session'[p] = session[p]
  <2> HIDE DEF Closed
  <2>1. session'[s] = Closed(r) /\ \A p \in Sessions \ {s} : session'[p] = session[p]
    BY <1>3
  <2>2. session' \in [Sessions -> SessionRows]
    BY <1>2, <1>3
  <2> QED
    BY <1>2, <1>3, <2>1, <2>2
<1>7. dropped \subseteq dropped' /\ (r.known /\ registered # 0 /\ ~Room => s \in dropped')
  BY DEF CloseSession
<1>8. queue \in [Streams -> Seq(Messages)] /\ (\A g \in Streams : Len(queue[g]) <= QueueSize) /\ QueueSize \in Nat
  BY TunnelAssumption DEF TunnelInv, TunnelTypes
<1> HIDE DEF m
<1>9. CASE r.known /\ Room
  <2>1. Room /\ queue' = [queue EXCEPT ![registered] = Append(@, m)] /\ crashed' = (crashed \/ SendCrashes)
    BY <1>9 DEF CloseSession, m
  <2>2. /\ crashed' = FALSE /\ registered \in Streams /\ handler[registered] = "serving"
        /\ queue' \in [Streams -> Seq(Messages)] /\ \A g \in Streams : Len(queue'[g]) <= QueueSize
        /\ \A g \in Streams : g # registered => queue'[g] = queue[g]
        /\ \A x : Has(queue'[registered], x) <=> Has(queue[registered], x) \/ x = m
        /\ \A x : Once(queue[registered], x) /\ (x = m => ~Has(queue[registered], x)) => Once(queue'[registered], x)
        /\ \A x, y : Earlier(queue[registered], x, y) /\ (m # x \/ (~Has(queue[registered], y) /\ m # y))
             => Earlier(queue'[registered], x, y)
    BY <1>1, <2>1, SendEffect
  <2>8. ASSUME NEW g \in Streams, NEW p \in Sessions
        PROVE  /\ Has(queue'[g], Message("start", p)) <=> Has(queue[g], Message("start", p))
               /\ Once(queue[g], Message("start", p)) => Once(queue'[g], Message("start", p))
               /\ Earlier(queue[g], Message("start", p), Message("close", p)) =>
                    Earlier(queue'[g], Message("start", p), Message("close", p))
               /\ Has(queue[g], Message("close", p)) => Has(queue'[g], Message("close", p))
               /\ Has(queue'[g], Message("close", p)) => Has(queue[g], Message("close", p)) \/ (p = s /\ r.known)
    <3>1. CASE g = registered
      BY <1>1, <1>9, <2>2, <3>1
    <3>2. CASE g # registered
      BY <2>2, <3>2
    <3> QED
      BY <3>1, <3>2
  <2>9. Has(queue'[registered], m) /\ \A g \in Streams : handler[g] = "none" => queue'[g] = queue[g]
    BY <2>2
  <2> QED
    BY <1>4, <1>7, <2>2, <2>8, <2>9 DEF m
<1>10. CASE ~(r.known /\ Room)
  <2>1. queue' = queue /\ crashed' = FALSE
    BY <1>10, RegisteredServes DEF CloseSession, SendCrashes, TunnelInv, StreamInv
  <2> QED
    BY <1>4, <1>7, <1>8, <1>10, <2>1
<1> QED
  BY <1>9, <1>10

Elsewhere == /\ UNCHANGED <<tunnelKind, registered, chanOpen, handler, agentStream, running>>
             /\ orphaned \subseteq orphaned'
             /\ fromAgent' \in [Streams -> Seq(Messages)]
             /\ \A g \in Streams : \A i \in DOMAIN fromAgent'[g] : fromAgent'[g][i].kind \in {"output", "closed"}
             /\ \A p \in Sessions : Reported(p)' => Reported(p)
             /\ delivering' \in [Streams -> Messages \cup {NoMessage}]
             /\ \A g \in Streams : delivering'[g] # NoMessage => delivering'[g].kind \in {"output", "closed"}
             /\ attach' \in [Browsers -> [Sessions -> {"none", "upgrading", "attached", "refused"}]]

LEMMA CloseStep ==
  ASSUME TunnelInv, NEW s \in Sessions, NEW r \in SessionRows, Len(r.incoming) <= QueueSize, CloseSession(s, r),
         r.known = session[s].known, r.opened = session[s].opened, Elsewhere
  PROVE  TunnelInv'
<1>1. /\ session' \in [Sessions -> SessionRows] /\ \A p \in Sessions : Len(session'[p].incoming) <= QueueSize
      /\ crashed' = FALSE
      /\ queue' \in [Streams -> Seq(Messages)] /\ \A g \in Streams : Len(queue'[g]) <= QueueSize
      /\ \A g \in Streams, p \in Sessions :
           /\ Has(queue'[g], Message("start", p)) <=> Has(queue[g], Message("start", p))
           /\ Once(queue[g], Message("start", p)) => Once(queue'[g], Message("start", p))
           /\ Earlier(queue[g], Message("start", p), Message("close", p)) =>
                Earlier(queue'[g], Message("start", p), Message("close", p))
           /\ Has(queue[g], Message("close", p)) => Has(queue'[g], Message("close", p))
           /\ Has(queue'[g], Message("close", p)) => Has(queue[g], Message("close", p)) \/ (p = s /\ r.known)
      /\ \A g \in Streams : handler[g] = "none" => queue'[g] = queue[g]
      /\ dropped \subseteq dropped'
      /\ session'[s].opened = r.opened /\ ~session'[s].known
      /\ \A p \in Sessions \ {s} : session'[p] = session[p]
      /\ r.known /\ registered # 0 => s \in dropped' \/ Has(queue'[registered], Message("close", s))
  BY CloseEffect
<1>2. TunnelTypes'
  BY <1>1 DEF Elsewhere, TunnelInv, TunnelTypes, Streams
<1>3. \A p \in Sessions :
        /\ session'[p].opened = session[p].opened
        /\ session'[p].known => session[p].known
        /\ session[p].known /\ ~session'[p].known /\ registered # 0 =>
             p \in dropped' \cup orphaned' \/ Has(queue'[registered], Message("close", p)) \/ Reported(p)
  BY <1>1
<1>4. /\ UNCHANGED <<registered, chanOpen, handler, agentStream, running>> /\ orphaned \subseteq orphaned'
      /\ \A p \in Sessions : Reported(p)' => Reported(p)
  BY DEF Elsewhere
<1>5. session[s].known => session[s].opened
  BY DEF TunnelInv, SessionInv
<1> QED
  BY <1>1, <1>2, <1>3, <1>4, <1>5, ControllerStep

\* A step that forgets nothing, or forgets what has ended.
LEMMA PlainStep ==
  ASSUME TunnelInv, Elsewhere, UNCHANGED <<queue, dropped, crashed>>,
         session' \in [Sessions -> SessionRows], \A p \in Sessions : Len(session'[p].incoming) <= QueueSize,
         \A p \in Sessions :
           /\ session'[p].opened = session[p].opened
           /\ session'[p].known => session[p].known
           /\ session[p].known /\ ~session'[p].known => Reported(p)
  PROVE  TunnelInv'
<1>1. TunnelTypes'
  BY DEF Elsewhere, TunnelInv, TunnelTypes, Streams
<1>2. crashed' = FALSE
  BY DEF TunnelInv, StreamInv
<1>3. /\ UNCHANGED <<registered, chanOpen, handler, agentStream, running>> /\ orphaned \subseteq orphaned'
      /\ \A p \in Sessions : Reported(p)' => Reported(p)
  BY DEF Elsewhere
<1> QED
  BY <1>1, <1>2, <1>3, ControllerStep

LEMMA RowOf ==
  ASSUME TunnelInv, NEW s \in Sessions
  PROVE  session[s] \in SessionRows /\ Len(session[s].incoming) <= QueueSize
  BY DEF TunnelInv, TunnelTypes

LEMMA ElsewhereAlone ==
  ASSUME TunnelInv, UNCHANGED <<tunnelKind, registered, chanOpen, handler, agentStream, running, orphaned, fromAgent,
                                delivering>>,
         attach' \in [Browsers -> [Sessions -> {"none", "upgrading", "attached", "refused"}]]
  PROVE  Elsewhere
  BY DEF Elsewhere, TunnelInv, TunnelTypes, Reported

LEMMA AttachTypes ==
  ASSUME TunnelInv
  PROVE  attach \in [Browsers -> [Sessions -> {"none", "upgrading", "attached", "refused"}]]
  BY DEF TunnelInv, TunnelTypes

\* A step that changes what no session's life depends on.
LEMMA RowStep ==
  ASSUME TunnelInv, Elsewhere, UNCHANGED <<queue, dropped, crashed>>, NEW s \in Sessions,
         NEW r \in SessionRows, session' = [session EXCEPT ![s] = r], Len(r.incoming) <= QueueSize,
         r.known = session[s].known, r.opened = session[s].opened
  PROVE  TunnelInv'
<1>1. session' \in [Sessions -> SessionRows] /\ \A p \in Sessions : session'[p] = IF p = s THEN r ELSE session[p]
  BY DEF TunnelInv, TunnelTypes
<1>2. \A p \in Sessions : Len(session'[p].incoming) <= QueueSize
  BY <1>1, RowOf
<1> QED
  BY <1>1, <1>2, PlainStep

LEMMA TokenKeeps ==
  ASSUME TunnelInv, NEW s \in Sessions, TokenExpires(s)
  PROVE  TunnelInv'
<1> DEFINE r == [session[s] EXCEPT !.expired = TRUE]
<1>1. Elsewhere /\ UNCHANGED <<queue, dropped, crashed>> /\ session' = [session EXCEPT ![s] = r]
  BY ElsewhereAlone, AttachTypes DEF TokenExpires
<1>2. /\ r \in SessionRows /\ Len(r.incoming) <= QueueSize /\ r.known = session[s].known
      /\ r.opened = session[s].opened
  BY RowOf DEF SessionRows
<1> HIDE DEF r
<1> QED
  BY <1>1, <1>2, RowStep

LEMMA ReaderLeavesKeeps ==
  ASSUME TunnelInv, NEW s \in Sessions, ReaderLeaves(s)
  PROVE  TunnelInv'
<1> DEFINE r == [session[s] EXCEPT !.reader = "leaving"]
<1>1. Elsewhere /\ UNCHANGED <<queue, dropped, crashed>> /\ session' = [session EXCEPT ![s] = r]
  BY ElsewhereAlone, AttachTypes DEF ReaderLeaves
<1>2. /\ r \in SessionRows /\ Len(r.incoming) <= QueueSize /\ r.known = session[s].known
      /\ r.opened = session[s].opened
  BY RowOf DEF SessionRows
<1> HIDE DEF r
<1> QED
  BY <1>1, <1>2, RowStep

LEMMA ReadKeeps_ ==
  ASSUME TunnelInv, NEW s \in Sessions, ReadIncoming(s)
  PROVE  TunnelInv'
<1>1. Elsewhere /\ UNCHANGED <<queue, dropped, crashed>>
  BY ElsewhereAlone, AttachTypes DEF ReadIncoming
<1>2. session[s] \in SessionRows /\ Len(session[s].incoming) <= QueueSize
  BY RowOf
<1>3. PICK r \in SessionRows : /\ session' = [session EXCEPT ![s] = r] /\ Len(r.incoming) <= QueueSize
                               /\ r.known = session[s].known /\ r.opened = session[s].opened
  <2>1. CASE session[s].incoming # <<>>
             /\ session' = [session EXCEPT ![s].incoming = Tail(@),
                  ![s].reader = IF Head(session[s].incoming) = "closed" THEN "leaving" ELSE @]
    <3> DEFINE rest == Tail(session[s].incoming)
               place == IF Head(session[s].incoming) = "closed" THEN "leaving" ELSE session[s].reader
               r == [session[s] EXCEPT !.incoming = rest, !.reader = place]
    <3>1. session[s].incoming \in Seq({"output", "closed"})
      BY <1>2 DEF SessionRows
    <3>2. rest \in Seq({"output", "closed"}) /\ Len(rest) = Len(session[s].incoming) - 1 /\ Len(session[s].incoming) \in Nat
      BY <2>1, <3>1, TailHas
    <3>3. place \in {"none", "reading", "leaving", "left"}
      BY <1>2 DEF SessionRows
    <3>4. session' = [session EXCEPT ![s] = r]
      BY <2>1 DEF TunnelInv, TunnelTypes
    <3> HIDE DEF rest, place
    <3>5. r \in SessionRows /\ r.incoming = rest /\ r.known = session[s].known /\ r.opened = session[s].opened
      BY <1>2, <3>2, <3>3 DEF SessionRows
    <3>6. Len(rest) <= QueueSize
      BY <1>2, <3>2, TunnelAssumption
    <3> HIDE DEF r
    <3> QED
      BY <3>4, <3>5, <3>6
  <2>2. CASE session' = [session EXCEPT ![s].reader = "leaving"]
    <3> DEFINE r == [session[s] EXCEPT !.reader = "leaving"]
    <3>1. r \in SessionRows /\ r.incoming = session[s].incoming /\ r.known = session[s].known /\ r.opened = session[s].opened
      BY <1>2 DEF SessionRows
    <3>2. session' = [session EXCEPT ![s] = r]
      BY <2>2
    <3> HIDE DEF r
    <3> QED
      BY <1>2, <3>1, <3>2
  <2> QED
    BY <2>1, <2>2 DEF ReadIncoming
<1> QED
  BY <1>1, <1>3, RowStep

LEMMA ReaderClosesKeeps ==
  ASSUME TunnelInv, NEW s \in Sessions, ReaderCloses(s)
  PROVE  TunnelInv'
<1> DEFINE r == [session[s] EXCEPT !.reader = "left"]
<1>1. Elsewhere
  BY ElsewhereAlone, AttachTypes DEF ReaderCloses
<1>2. /\ r \in SessionRows /\ Len(r.incoming) <= QueueSize /\ r.known = session[s].known
      /\ r.opened = session[s].opened
  BY RowOf DEF SessionRows
<1>3. session[s].known => CloseSession(s, r)
  BY DEF ReaderCloses
<1>4. ~session[s].known => session' = [session EXCEPT ![s] = r] /\ UNCHANGED <<queue, dropped, crashed>>
  BY DEF ReaderCloses
<1> HIDE DEF r
<1>5. CASE session[s].known
  BY <1>1, <1>2, <1>3, <1>5, CloseStep
<1>6. CASE ~session[s].known
  BY <1>1, <1>2, <1>4, <1>6, RowStep
<1> QED
  BY <1>5, <1>6

LEMMA SweepKeeps ==
  ASSUME TunnelInv, NEW s \in Sessions, SweepExpiredSessions(s)
  PROVE  TunnelInv'
<1>1. Elsewhere /\ CloseSession(s, session[s])
  BY ElsewhereAlone, AttachTypes DEF SweepExpiredSessions
<1> QED
  BY <1>1, RowOf, CloseStep

LEMMA SendKeeps ==
  ASSUME TunnelInv, NEW s \in Sessions, SendToSessionNode(s)
  PROVE  TunnelInv'
<1>1. Elsewhere
  BY ElsewhereAlone, AttachTypes DEF SendToSessionNode
<1> DEFINE r == [session[s] EXCEPT !.reader = "leaving"]
<1>2. /\ r \in SessionRows /\ Len(r.incoming) <= QueueSize /\ r.known = session[s].known
      /\ r.opened = session[s].opened
  BY RowOf DEF SessionRows
<1>3. CASE ~session[s].known \/ registered = 0
  <2>1. session' = [session EXCEPT ![s] = r] /\ UNCHANGED <<queue, dropped, crashed>>
    BY <1>3 DEF SendToSessionNode
  <2> HIDE DEF r
  <2> QED
    BY <1>1, <1>2, <2>1, RowStep
<1>4. CASE ~(~session[s].known \/ registered = 0) /\ ~Room
  <2>1. CloseSession(s, r)
    BY <1>4 DEF SendToSessionNode
  <2> HIDE DEF r
  <2> QED
    BY <1>1, <1>2, <2>1, CloseStep
<1>5. CASE ~(~session[s].known \/ registered = 0) /\ Room
  <2> DEFINE m == Message("stdin", s)
  <2>1. m \in Messages /\ \A p : m # Message("start", p) /\ m # Message("close", p)
    BY Messages_
  <2>2. /\ Room /\ queue' = [queue EXCEPT ![registered] = Append(@, m)] /\ crashed' = (crashed \/ SendCrashes)
        /\ UNCHANGED <<session, dropped>>
    BY <1>5 DEF SendToSessionNode
  <2> HIDE DEF m
  <2>3. /\ crashed' = FALSE /\ registered \in Streams /\ handler[registered] = "serving"
        /\ queue' \in [Streams -> Seq(Messages)] /\ \A g \in Streams : Len(queue'[g]) <= QueueSize
        /\ \A g \in Streams : g # registered => queue'[g] = queue[g]
        /\ \A x : Has(queue'[registered], x) <=> Has(queue[registered], x) \/ x = m
        /\ \A x : Once(queue[registered], x) /\ (x = m => ~Has(queue[registered], x)) => Once(queue'[registered], x)
        /\ \A x, y : Earlier(queue[registered], x, y) /\ (m # x \/ (~Has(queue[registered], y) /\ m # y))
             => Earlier(queue'[registered], x, y)
    BY <2>1, <2>2, SendEffect
  <2>4. ASSUME NEW g \in Streams, NEW p \in Sessions
        PROVE  /\ Has(queue'[g], Message("start", p)) <=> Has(queue[g], Message("start", p))
               /\ Once(queue[g], Message("start", p)) => Once(queue'[g], Message("start", p))
               /\ Earlier(queue[g], Message("start", p), Message("close", p)) =>
                    Earlier(queue'[g], Message("start", p), Message("close", p))
               /\ Has(queue[g], Message("close", p)) => Has(queue'[g], Message("close", p))
               /\ Has(queue'[g], Message("close", p)) => Has(queue[g], Message("close", p)) \/ session[p].opened
    <3>1. CASE g = registered
      BY <2>1, <2>3, <3>1
    <3>2. CASE g # registered
      BY <2>3, <3>2
    <3> QED
      BY <3>1, <3>2
  <2>5. TunnelTypes'
    BY <1>1, <2>2, <2>3 DEF Elsewhere, TunnelInv, TunnelTypes, Streams
  <2>6. /\ UNCHANGED <<registered, chanOpen, handler, agentStream, running>> /\ orphaned \subseteq orphaned'
        /\ \A p \in Sessions : Reported(p)' => Reported(p)
    BY <1>1 DEF Elsewhere
  <2>7. \A g \in Streams : handler[g] = "none" => queue'[g] = queue[g]
    BY <2>3
  <2> QED
    BY <2>2, <2>3, <2>4, <2>5, <2>6, <2>7, ControllerStep
<1> QED
  BY <1>3, <1>4, <1>5

LEMMA AttachChanges ==
  ASSUME TunnelInv, NEW b \in Browsers, NEW s \in Sessions, NEW v \in {"none", "upgrading", "attached", "refused"},
         attach' = [attach EXCEPT ![b][s] = v],
         UNCHANGED <<tunnelKind, registered, chanOpen, handler, agentStream, running, orphaned, fromAgent, delivering>>
  PROVE  Elsewhere
<1>1. attach' \in [Browsers -> [Sessions -> {"none", "upgrading", "attached", "refused"}]]
  BY AttachTypes
<1> QED
  BY <1>1, ElsewhereAlone

LEMMA ReserveKeeps ==
  ASSUME TunnelInv, NEW b \in Browsers, NEW s \in Sessions, ReserveSessionAttach(b, s)
  PROVE  TunnelInv'
<1> DEFINE v == IF ~Expired(s) /\ Reservable(s) THEN "upgrading" ELSE "refused"
           r == [session[s] EXCEPT !.attaching = TRUE]
<1>1. v \in {"none", "upgrading", "attached", "refused"} /\ attach' = [attach EXCEPT ![b][s] = v]
  BY DEF ReserveSessionAttach
<1>2. Elsewhere
  <2> HIDE DEF v
  <2> QED
    BY <1>1, AttachChanges DEF ReserveSessionAttach
<1>3. /\ r \in SessionRows /\ Len(r.incoming) <= QueueSize /\ r.known = session[s].known
      /\ r.opened = session[s].opened
  BY RowOf DEF SessionRows
<1>4. CASE Expired(s)
  <2>1. CloseSession(s, session[s])
    BY <1>4 DEF ReserveSessionAttach
  <2> QED
    BY <1>2, <2>1, RowOf, CloseStep
<1>5. CASE ~Expired(s)
  <2>1. UNCHANGED <<queue, dropped, crashed>>
        /\ (session' = [session EXCEPT ![s] = r] \/ session' = session)
    BY <1>5 DEF ReserveSessionAttach
  <2> HIDE DEF r
  <2>2. session' = session => session' = [session EXCEPT ![s] = session[s]]
    BY DEF TunnelInv, TunnelTypes
  <2> QED
    BY <1>2, <1>3, <2>1, <2>2, RowOf, RowStep
<1> QED
  BY <1>4, <1>5

LEMMA UpgradeKeeps_ ==
  ASSUME TunnelInv, NEW b \in Browsers, NEW s \in Sessions, NEW upgraded \in BOOLEAN,
         UpgradeWebsocket(b, s, upgraded)
  PROVE  TunnelInv'
<1> DEFINE v == IF session[s].token /\ ~Expired(s) /\ upgraded THEN "attached" ELSE "refused"
           r == [session[s] EXCEPT !.attaching = FALSE, !.taken = TRUE, !.token = FALSE, !.reader = "reading"]
           q == [session[s] EXCEPT !.attaching = FALSE]
<1>1. v \in {"none", "upgrading", "attached", "refused"} /\ attach' = [attach EXCEPT ![b][s] = v]
  BY DEF UpgradeWebsocket
<1>2. Elsewhere
  <2> HIDE DEF v
  <2> QED
    BY <1>1, AttachChanges DEF UpgradeWebsocket
<1>3. /\ r \in SessionRows /\ Len(r.incoming) <= QueueSize /\ r.known = session[s].known
      /\ r.opened = session[s].opened
  BY RowOf DEF SessionRows
<1>4. /\ q \in SessionRows /\ Len(q.incoming) <= QueueSize /\ q.known = session[s].known
      /\ q.opened = session[s].opened
  BY RowOf DEF SessionRows
<1>5. CASE session[s].token /\ Expired(s)
  <2>1. CloseSession(s, session[s])
    BY <1>5 DEF UpgradeWebsocket
  <2> QED
    BY <1>2, <2>1, RowOf, CloseStep
<1>6. CASE ~(session[s].token /\ Expired(s))
  <2>1. /\ UNCHANGED <<queue, dropped, crashed>>
        /\ \/ session' = session
           \/ session' = [session EXCEPT ![s] = q]
           \/ session' = [session EXCEPT ![s].attaching = FALSE, ![s].taken = TRUE,
                                         ![s].token = FALSE, ![s].reader = "reading"]
    BY <1>6 DEF UpgradeWebsocket, ReleaseSessionAttach
  <2>2. session' = [session EXCEPT ![s].attaching = FALSE, ![s].taken = TRUE,
                                   ![s].token = FALSE, ![s].reader = "reading"]
        => session' = [session EXCEPT ![s] = r]
    BY DEF TunnelInv, TunnelTypes
  <2> HIDE DEF r, q
  <2>3. session' = session => session' = [session EXCEPT ![s] = session[s]]
    BY DEF TunnelInv, TunnelTypes
  <2> QED
    BY <1>2, <1>3, <1>4, <2>1, <2>2, <2>3, RowOf, RowStep
<1> QED
  BY <1>5, <1>6

\* What the agent has sent leaves its stream in order.
LEMMA LookupKeeps ==
  ASSUME TunnelInv, NEW g \in Streams, LookupSession(g)
  PROVE  TunnelInv'
<1> DEFINE q == fromAgent[g]
           m == Head(q)
           s == m.session
<1>1. /\ q \in Seq(Messages) /\ q # <<>> /\ fromAgent \in [Streams -> Seq(Messages)]
      /\ delivering \in [Streams -> Messages \cup {NoMessage}]
  BY DEF LookupSession, TunnelInv, TunnelTypes
<1>2. /\ Tail(q) \in Seq(Messages) /\ m \in Messages /\ Has(q, m)
      /\ \A x : Has(Tail(q), x) => Has(q, x)
      /\ \A i \in DOMAIN Tail(q) : i + 1 \in DOMAIN q /\ Tail(q)[i] = q[i + 1]
  BY <1>1, TailHas
<1>3. m.kind \in {"output", "closed"} /\ s \in Sessions /\ m = Message(m.kind, s)
  <2>1. \A i \in DOMAIN q : q[i].kind \in {"output", "closed"}
    BY DEF TunnelInv, TunnelTypes
  <2> HIDE DEF q
  <2>2. m.kind \in {"output", "closed"}
    BY <1>2, <2>1 DEF Has
  <2> QED
    BY <1>2, <2>2, Messages_ DEF Messages
<1>4. Elsewhere
  <2> DEFINE d == IF session[s].known THEN m ELSE NoMessage
             t == Tail(q)
  <2>1. /\ fromAgent' = [fromAgent EXCEPT ![g] = t] /\ delivering' = [delivering EXCEPT ![g] = d]
        /\ UNCHANGED <<tunnelKind, registered, chanOpen, handler, agentStream, running, orphaned, attach>>
    BY DEF LookupSession
  <2>2. d \in Messages \cup {NoMessage} /\ (d # NoMessage => d.kind \in {"output", "closed"})
    BY <1>2, <1>3
  <2>3. t \in Seq(Messages) /\ (\A x : Has(t, x) => Has(q, x))
        /\ \A i \in DOMAIN t : i + 1 \in DOMAIN q /\ t[i] = q[i + 1]
    BY <1>2
  <2> HIDE DEF d, t, m, s
  <2>4. fromAgent'[g] = t /\ \A h \in Streams : h # g => fromAgent'[h] = fromAgent[h]
    BY <1>1, <2>1
  <2>5. fromAgent' \in [Streams -> Seq(Messages)]
    BY <1>1, <2>1, <2>3
  <2>6. \A h \in Streams : \A i \in DOMAIN fromAgent[h] : fromAgent[h][i].kind \in {"output", "closed"}
    BY DEF TunnelInv, TunnelTypes
  <2>7. ASSUME NEW h \in Streams, NEW i \in DOMAIN fromAgent'[h]
        PROVE  fromAgent'[h][i].kind \in {"output", "closed"}
    BY <2>3, <2>4, <2>6, <2>7
  <2>8. ASSUME NEW p \in Sessions, NEW h \in Streams, Has(fromAgent'[h], Message("closed", p)) PROVE Reported(p)
    BY <2>3, <2>4, <2>8 DEF Reported
  <2>9. /\ delivering' \in [Streams -> Messages \cup {NoMessage}]
        /\ \A h \in Streams : delivering'[h] = IF h = g THEN d ELSE delivering[h]
    BY <1>1, <2>1, <2>2
  <2>10. \A h \in Streams : delivering'[h] # NoMessage => delivering'[h].kind \in {"output", "closed"}
    BY <2>2, <2>9 DEF TunnelInv, TunnelTypes
  <2>11. \A p \in Sessions : Reported(p)' => Reported(p)
    BY <2>8 DEF Reported, Streams
  <2> QED
    BY <2>1, <2>5, <2>7, <2>9, <2>10, <2>11, AttachTypes DEF Elsewhere
<1>5. UNCHANGED <<queue, dropped, crashed>>
  BY DEF LookupSession
<1> DEFINE r == [session[s] EXCEPT !.known = FALSE]
<1>6. (session' = [session EXCEPT ![s] = r] /\ m.kind = "closed") \/ session' = session
  BY DEF LookupSession
<1>7. r \in SessionRows /\ Len(r.incoming) <= QueueSize /\ r.opened = session[s].opened /\ ~r.known
  BY <1>3, RowOf DEF SessionRows
<1>8. m.kind = "closed" => Reported(s)
  BY <1>2, <1>3 DEF Reported
<1> HIDE DEF r, s
<1>9. CASE session' = session
  BY <1>4, <1>5, <1>9, RowOf, PlainStep DEF TunnelInv, TunnelTypes
<1>10. CASE session' = [session EXCEPT ![s] = r] /\ m.kind = "closed"
  <2>1. session' \in [Sessions -> SessionRows] /\ \A p \in Sessions : session'[p] = IF p = s THEN r ELSE session[p]
    BY <1>3, <1>7, <1>10 DEF TunnelInv, TunnelTypes
  <2>2. \A p \in Sessions : Len(session'[p].incoming) <= QueueSize
    BY <1>7, <2>1, RowOf
  <2> QED
    BY <1>4, <1>5, <1>7, <1>8, <1>10, <2>1, <2>2, PlainStep
<1> QED
  BY <1>6, <1>9, <1>10

LEMMA DeliverKeeps ==
  ASSUME TunnelInv, NEW g \in Streams, Deliver(g)
  PROVE  TunnelInv'
<1> DEFINE m == delivering[g]
           s == m.session
<1>1. m \in Messages /\ m.kind \in {"output", "closed"} /\ s \in Sessions
  BY DEF Deliver, TunnelInv, TunnelTypes, Messages
<1>2. Elsewhere
  <2>1. /\ delivering' = [delivering EXCEPT ![g] = NoMessage] /\ orphaned \subseteq orphaned'
        /\ UNCHANGED <<tunnelKind, registered, chanOpen, handler, agentStream, running, fromAgent, attach>>
    BY DEF Deliver
  <2> QED
    BY <2>1 DEF Elsewhere, TunnelInv, TunnelTypes, Reported
<1> DEFINE ends == session[s].closed \/ (tunnelKind = "log" /\ m.kind = "closed")
           more == Append(session[s].incoming, m.kind)
           r == [session[s] EXCEPT !.incoming = more, !.closed = ends]
<1>3. session[s] \in SessionRows /\ Len(session[s].incoming) <= QueueSize
  BY <1>1, RowOf
<1>4. CASE session[s].closed \/ Len(session[s].incoming) >= QueueSize
  <2>1. CASE session[s].known
    <3>1. CloseSession(s, session[s])
      BY <1>4, <2>1 DEF Deliver
    <3> QED
      BY <1>1, <1>2, <1>3, <3>1, CloseStep
  <2>2. CASE ~session[s].known
    <3>1. UNCHANGED <<session, queue, dropped, crashed>>
      BY <1>4, <2>2 DEF Deliver
    <3> QED
      BY <1>2, <3>1, RowOf, PlainStep DEF TunnelInv, TunnelTypes
  <2> QED
    BY <2>1, <2>2
<1>5. CASE ~(session[s].closed \/ Len(session[s].incoming) >= QueueSize)
  <2>1. /\ session' = [session EXCEPT ![s].incoming = Append(@, m.kind),
                                      ![s].closed = (@ \/ (tunnelKind = "log" /\ m.kind = "closed"))]
        /\ UNCHANGED <<queue, dropped, crashed>>
    BY <1>5 DEF Deliver
  <2>2. session' = [session EXCEPT ![s] = r]
    BY <1>1, <2>1 DEF TunnelInv, TunnelTypes
  <2>3. session[s].incoming \in Seq({"output", "closed"})
    BY <1>3 DEF SessionRows
  <2>4. more \in Seq({"output", "closed"}) /\ Len(more) = Len(session[s].incoming) + 1
        /\ Len(session[s].incoming) \in Nat
    BY <1>1, <2>3, AppendHas
  <2>5. ends \in BOOLEAN
    BY <1>3 DEF SessionRows
  <2>6. Len(more) <= QueueSize
    BY <1>5, <2>4, TunnelAssumption
  <2> HIDE DEF ends, more, s, m
  <2>7. r \in SessionRows /\ r.incoming = more /\ r.known = session[s].known /\ r.opened = session[s].opened
    BY <1>3, <2>4, <2>5 DEF SessionRows
  <2> HIDE DEF r
  <2> QED
    BY <1>1, <1>2, <2>1, <2>2, <2>6, <2>7, RowStep
<1> QED
  BY <1>4, <1>5

\* A new session has left no trace on the agent; when its start message finds
\* no room, it is closed at once.
LEMMA OpenKeeps_ ==
  ASSUME TunnelInv, NEW s \in Sessions, OpenSession(s)
  PROVE  TunnelInv'
<1> DEFINE tk == (tunnelKind = "exec")
           r == [session[s] EXCEPT !.opened = TRUE, !.known = TRUE, !.token = tk]
           e == IF tunnelKind = "log" THEN [r EXCEPT !.reader = "reading"] ELSE r
           m == Message("start", s)
<1>1. /\ registered # 0 /\ ~session[s].opened
      /\ UNCHANGED <<tunnelKind, registered, chanOpen, handler, agentStream, fromAgent, delivering, attach,
                     running, orphaned>>
  BY DEF OpenSession
<1>2. running[s] = 0 /\ ~ToStart(s) /\ ~ToEnd(s) /\ ~Reported(s)
  BY <1>1 DEF TunnelInv, SessionInv
<1>3. r \in SessionRows /\ Len(r.incoming) <= QueueSize /\ r.opened /\ r.known
  BY RowOf DEF SessionRows
<1>4. e \in SessionRows /\ Len(e.incoming) <= QueueSize /\ e.opened /\ e.known
  <2> HIDE DEF r
  <2> DEFINE l == [r EXCEPT !.reader = "reading"]
  <2>1. l \in SessionRows /\ l.incoming = r.incoming /\ l.opened /\ l.known
    BY <1>3 DEF SessionRows
  <2>2. e = l \/ e = r
    OBVIOUS
  <2> HIDE DEF l, e
  <2> QED
    BY <1>3, <2>1, <2>2
<1>5. CASE Room
  <2>1. /\ session' = [session EXCEPT ![s] = e] /\ queue' = [queue EXCEPT ![registered] = Append(@, m)]
        /\ crashed' = (crashed \/ SendCrashes) /\ UNCHANGED dropped
    BY <1>5 DEF OpenSession
  <2> HIDE DEF r, e
  <2>2. m \in Messages /\ (\A p : m # Message("close", p)) /\ \A p : m = Message("start", p) => p = s
    BY Messages_
  <2> HIDE DEF m
  <2>3. /\ crashed' = FALSE /\ registered \in Streams /\ handler[registered] = "serving"
        /\ queue' \in [Streams -> Seq(Messages)] /\ \A g \in Streams : Len(queue'[g]) <= QueueSize
        /\ \A g \in Streams : g # registered => queue'[g] = queue[g]
        /\ \A x : Has(queue'[registered], x) <=> Has(queue[registered], x) \/ x = m
        /\ \A x : Once(queue[registered], x) /\ (x = m => ~Has(queue[registered], x)) => Once(queue'[registered], x)
        /\ \A x, y : Earlier(queue[registered], x, y) /\ (m # x \/ (~Has(queue[registered], y) /\ m # y))
             => Earlier(queue'[registered], x, y)
    BY <1>5, <2>1, <2>2, SendEffect
  <2>4. /\ session' \in [Sessions -> SessionRows]
        /\ \A p \in Sessions : session'[p] = IF p = s THEN e ELSE session[p]
    BY <1>4, <2>1 DEF TunnelInv, TunnelTypes
  <2>5. TunnelTypes'
    <3>1. \A p \in Sessions : Len(session'[p].incoming) <= QueueSize
      BY <1>4, <2>4, RowOf
    <3> QED
      BY <1>1, <2>3, <2>4, <3>1 DEF TunnelInv, TunnelTypes, Streams
  <2>6. StreamInv'
    BY <1>1, <2>3 DEF TunnelInv, StreamInv, Streams
  <2>7. \A g \in Streams : ~Has(queue[g], Message("start", s)) /\ ~Has(queue[g], Message("close", s))
    BY <1>2 DEF ToStart, ToEnd
  <2>8. ASSUME NEW g \in Streams, NEW p \in Sessions
        PROVE  /\ Has(queue'[g], Message("close", p)) <=> Has(queue[g], Message("close", p))
               /\ Has(queue'[g], Message("start", p)) <=>
                    Has(queue[g], Message("start", p)) \/ (g = registered /\ p = s)
               /\ Once(queue'[g], Message("start", p))
               /\ Earlier(queue'[g], Message("start", p), Message("close", p))
    <3>1. Once(queue[g], Message("start", p)) /\ Earlier(queue[g], Message("start", p), Message("close", p))
      BY DEF TunnelInv, SessionInv
    <3>2. CASE g = registered
      BY <2>2, <2>3, <2>7, <3>1, <3>2 DEF m
    <3>3. CASE g # registered
      BY <2>3, <3>1, <3>3
    <3> QED
      BY <3>2, <3>3
  <2>9. ASSUME NEW p \in Sessions PROVE SessionInv(p)' /\ ForgottenInv(p)'
    <3>1. ToStart(p)' <=> ToStart(p) \/ p = s
      BY <2>3, <2>8 DEF ToStart, Streams
    <3>2. (ToEnd(p)' <=> ToEnd(p)) /\ (Reported(p)' <=> Reported(p))
      BY <1>1, <2>8 DEF ToEnd, Reported, Streams
    <3>3. CASE p = s
      <4>1. session'[p].opened /\ session'[p].known
        BY <1>4, <2>4, <3>3
      <4>2. \A g, h \in Streams :
              Has(queue'[g], Message("start", p)) /\ Has(queue'[h], Message("start", p)) => g = h
        BY <2>7, <2>8, <3>3
      <4> QED
        BY <1>1, <1>2, <2>8, <3>2, <3>3, <4>1, <4>2 DEF SessionInv, ForgottenInv, Streams
    <3>4. CASE p # s
      <4>1. session'[p] = session[p] /\ running' = running /\ dropped' = dropped /\ orphaned' = orphaned
            /\ registered' = registered
        BY <1>1, <2>1, <2>4, <3>4
      <4>2. SessionInv(p) /\ ForgottenInv(p) /\ registered \in Streams
        BY <2>3 DEF TunnelInv
      <4>3. SessionInv(p)'
        BY <2>8, <3>1, <3>2, <3>4, <4>1, <4>2 DEF SessionInv, Streams
      <4>4. ForgottenInv(p)'
        BY <2>8, <3>4, <4>1, <4>2 DEF ForgottenInv
      <4> QED
        BY <4>3, <4>4
    <3> QED
      BY <3>3, <3>4
  <2> QED
    BY <2>5, <2>6, <2>9 DEF TunnelInv
<1>6. CASE ~Room
  <2>1. CloseSession(s, r)
    BY <1>6 DEF OpenSession
  <2> HIDE DEF r
  <2>2. queue' = queue /\ dropped' = dropped \cup {s}
    BY <1>1, <1>3, <1>6, <2>1 DEF CloseSession
  <2>3. /\ session' \in [Sessions -> SessionRows] /\ \A p \in Sessions : Len(session'[p].incoming) <= QueueSize
        /\ crashed' = FALSE
        /\ session'[s].opened = r.opened /\ ~session'[s].known
        /\ \A p \in Sessions \ {s} : session'[p] = session[p]
    BY <1>3, <2>1, CloseEffect
  <2>4. TunnelTypes'
    BY <1>1, <2>2, <2>3 DEF TunnelInv, TunnelTypes, Streams
  <2>5. StreamInv'
    BY <1>1, <2>2, <2>3 DEF TunnelInv, StreamInv, Streams
  <2>6. ASSUME NEW p \in Sessions PROVE SessionInv(p)' /\ ForgottenInv(p)'
    <3>1. SessionInv(p) /\ ForgottenInv(p)
      BY DEF TunnelInv
    <3>2. (ToStart(p)' <=> ToStart(p)) /\ (ToEnd(p)' <=> ToEnd(p)) /\ (Reported(p)' <=> Reported(p))
      BY <1>1, <2>2 DEF ToStart, ToEnd, Reported, Streams
    <3>3. CASE p = s
      BY <1>1, <1>3, <2>2, <2>3, <3>1, <3>2, <3>3 DEF SessionInv, ForgottenInv, Streams
    <3>4. CASE p # s
      BY <1>1, <2>2, <2>3, <3>1, <3>2, <3>4 DEF SessionInv, ForgottenInv, Streams
    <3> QED
      BY <3>3, <3>4
  <2> QED
    BY <2>4, <2>5, <2>6 DEF TunnelInv
<1> QED
  BY <1>5, <1>6

\* A new tunnel: nothing is queued on its stream and nothing runs there.
LEMMA RegisterKeeps ==
  ASSUME TunnelInv, RegisterTunnel
  PROVE  TunnelInv'
<1>1. PICK g \in Streams :
        /\ agentStream = g /\ handler[g] = "none"
        /\ handler' = [handler EXCEPT ![g] = "serving"]
        /\ registered' = g
        /\ chanOpen' = [h \in Streams |-> h = g \/ (chanOpen[h] /\ h # registered)]
        /\ orphaned \subseteq orphaned'
        /\ crashed' = (crashed \/ (registered # 0 /\ ~chanOpen[registered]))
        /\ UNCHANGED <<tunnelKind, queue, agentStream, fromAgent, delivering, session, attach, running, dropped>>
  BY DEF RegisterTunnel
<1>2. crashed' = FALSE
  BY <1>1, RegisteredServes DEF TunnelInv, StreamInv
<1>3. handler \in [Streams -> {"none", "serving", "ended"}]
  BY DEF TunnelInv, TunnelTypes
<1>4. TunnelTypes'
  <2>1. chanOpen' \in [Streams -> BOOLEAN]
    <3> DEFINE o(h) == h = g \/ (chanOpen[h] /\ h # registered)
    <3>1. \A h \in Streams : o(h) \in BOOLEAN
      BY DEF TunnelInv, TunnelTypes
    <3>2. chanOpen' = [h \in Streams |-> o(h)]
      BY <1>1
    <3> HIDE DEF o
    <3> QED
      BY <3>1, <3>2
  <2>2. handler' \in [Streams -> {"none", "serving", "ended"}]
    BY <1>1, <1>3
  <2>3. registered' \in 0..MaxStreams
    BY <1>1, TunnelAssumption DEF Streams
  <2> QED
    BY <1>1, <2>1, <2>2, <2>3 DEF TunnelInv, TunnelTypes, Streams
<1>5. chanOpen'[g] /\ handler'[g] = "serving" /\ \A h \in Streams : h # g => handler'[h] = handler[h]
  BY <1>1, <1>3
<1>6. queue[g] = <<>> /\ \A p \in Sessions : running[p] # g
  <2>1. g # 0
    BY DEF Streams
  <2> QED
    BY <1>1, <2>1 DEF TunnelInv, StreamInv
<1>7. StreamInv'
  <2>1. \A h \in Streams : handler'[h] = "none" => queue'[h] = <<>>
    BY <1>1, <1>5 DEF TunnelInv, StreamInv
  <2>2. \A p \in Sessions : running[p] # 0 => running[p] \in Streams /\ running[p] = agentStream /\ handler[running[p]] # "none"
    BY DEF TunnelInv, TunnelTypes, StreamInv, Streams
  <2>3. \A p \in Sessions : running'[p] # 0 => running'[p] = agentStream' /\ handler'[running'[p]] # "none"
    BY <1>1, <1>5, <2>2
  <2> QED
    BY <1>1, <1>2, <1>5, <2>1, <2>3 DEF StreamInv, Streams
<1>8. ASSUME NEW p \in Sessions PROVE SessionInv(p)' /\ ForgottenInv(p)'
  <2>1. (ToStart(p)' <=> ToStart(p)) /\ (ToEnd(p)' <=> ToEnd(p)) /\ (Reported(p)' <=> Reported(p))
    BY <1>1 DEF ToStart, ToEnd, Reported, Streams
  <2>2. SessionInv(p)'
    BY <1>1, <2>1 DEF TunnelInv, SessionInv, Streams
  <2>3. ~Has(queue[g], Message("start", p)) /\ running[p] # g
    BY <1>6 DEF Has
  <2>4. ForgottenInv(p)'
    BY <1>1, <2>3 DEF ForgottenInv
  <2> QED
    BY <2>2, <2>4
<1> QED
  BY <1>4, <1>7, <1>8 DEF TunnelInv

\* A tunnel that ends takes its queue with it and closes its sessions.
LEMMA HandlerEndsKeeps ==
  ASSUME TunnelInv, NEW g \in Streams, HandlerEnds(g)
  PROVE  TunnelInv'
<1>1. /\ handler[g] = "serving" /\ handler' = [handler EXCEPT ![g] = "ended"]
      /\ queue' = [queue EXCEPT ![g] = <<>>] /\ fromAgent' = [fromAgent EXCEPT ![g] = <<>>]
      /\ UnregisterTunnel(g)
      /\ UNCHANGED <<tunnelKind, agentStream, delivering, attach, running, dropped, orphaned>>
  BY DEF HandlerEnds
<1>2. /\ queue \in [Streams -> Seq(Messages)] /\ fromAgent \in [Streams -> Seq(Messages)]
      /\ handler \in [Streams -> {"none", "serving", "ended"}] /\ chanOpen \in [Streams -> BOOLEAN]
      /\ \A h \in Streams : Len(queue[h]) <= QueueSize
      /\ \A h \in Streams : \A i \in DOMAIN fromAgent[h] : fromAgent[h][i].kind \in {"output", "closed"}
  BY DEF TunnelInv, TunnelTypes
<1>3. /\ handler'[g] = "ended" /\ queue'[g] = <<>> /\ fromAgent'[g] = <<>>
      /\ \A h \in Streams : h # g => /\ handler'[h] = handler[h] /\ queue'[h] = queue[h]
                                     /\ fromAgent'[h] = fromAgent[h]
  BY <1>1, <1>2
<1>4. /\ registered' \in {0, registered} /\ (registered' # 0 => registered' # g /\ registered \in Streams)
      /\ (registered' # 0 => chanOpen'[registered] /\ chanOpen' = chanOpen)
      /\ chanOpen' \in [Streams -> BOOLEAN] /\ crashed' = FALSE
  <2>1. registered # 0 => registered \in Streams /\ chanOpen[registered]
    BY RegisteredServes
  <2>2. ~crashed /\ registered \in 0..MaxStreams /\ g # 0
    BY DEF TunnelInv, TunnelTypes, StreamInv, Streams
  <2>3. CASE registered # g
    BY <1>1, <1>2, <2>1, <2>2, <2>3 DEF UnregisterTunnel
  <2>4. CASE registered = g
    BY <1>1, <1>2, <2>1, <2>2, <2>4 DEF UnregisterTunnel
  <2> QED
    BY <2>3, <2>4
<1>5. /\ \A p \in Sessions : session'[p] \in {session[p], Closed(session[p])}
      /\ session' \in [Sessions -> SessionRows]
  <2>1. \A p \in Sessions : Closed(session[p]) \in SessionRows
    BY RowOf DEF Closed, SessionRows
  <2>2. session \in [Sessions -> SessionRows]
    BY DEF TunnelInv, TunnelTypes
  <2>3. session' = session \/ session' = [p \in Sessions |-> IF session[p].known THEN Closed(session[p]) ELSE session[p]]
    BY <1>1 DEF UnregisterTunnel
  <2> HIDE DEF Closed
  <2> QED
    BY <2>1, <2>2, <2>3
<1>6. \A p \in Sessions : /\ session'[p].opened = session[p].opened /\ (session'[p].known => session[p].known)
                          /\ session'[p].incoming = session[p].incoming
  <2>1. \A p \in Sessions : /\ Closed(session[p]).opened = session[p].opened /\ ~Closed(session[p]).known
                            /\ Closed(session[p]).incoming = session[p].incoming
    BY RowOf DEF Closed, SessionRows
  <2> HIDE DEF Closed
  <2> QED
    BY <1>5, <2>1
<1>7. TunnelTypes'
  <2>1. queue' \in [Streams -> Seq(Messages)] /\ fromAgent' \in [Streams -> Seq(Messages)]
    <3>1. <<>> \in Seq(Messages)
      OBVIOUS
    <3> QED
      BY <1>1, <1>2, <3>1
  <2>2. \A h \in Streams : /\ Len(queue'[h]) <= QueueSize
                           /\ \A i \in DOMAIN fromAgent'[h] : fromAgent'[h][i].kind \in {"output", "closed"}
    <3>1. Len(<<>>) <= QueueSize /\ DOMAIN <<>> = {}
      BY TunnelAssumption
    <3> QED
      BY <1>2, <1>3, <3>1
  <2>3. handler' \in [Streams -> {"none", "serving", "ended"}]
    BY <1>1, <1>2
  <2>4. registered' \in 0..MaxStreams
    BY <1>4, TunnelAssumption DEF TunnelInv, TunnelTypes
  <2>5. \A p \in Sessions : Len(session'[p].incoming) <= QueueSize
    BY <1>6, RowOf
  <2>6. /\ tunnelKind' \in {"exec", "log"} /\ agentStream' \in 0..MaxStreams
        /\ delivering' \in [Streams -> Messages \cup {NoMessage}]
        /\ \A h \in Streams : delivering'[h] # NoMessage => delivering'[h].kind \in {"output", "closed"}
        /\ attach' \in [Browsers -> [Sessions -> {"none", "upgrading", "attached", "refused"}]]
        /\ running' \in [Sessions -> 0..MaxStreams]
    BY <1>1 DEF TunnelInv, TunnelTypes
  <2>7. chanOpen' \in [Streams -> BOOLEAN] /\ session' \in [Sessions -> SessionRows]
    BY <1>4, <1>5
  <2> QED
    BY <2>1, <2>2, <2>3, <2>4, <2>5, <2>6, <2>7 DEF TunnelTypes, Streams
<1>8. StreamInv'
  <2>1. registered' # 0 => chanOpen'[registered'] /\ handler'[registered'] = "serving"
    BY <1>3, <1>4 DEF TunnelInv, StreamInv
  <2>2. \A h \in Streams : handler'[h] = "none" => queue'[h] = <<>>
    BY <1>3 DEF TunnelInv, StreamInv
  <2>3. \A p \in Sessions : running[p] # 0 => running[p] \in Streams /\ running[p] = agentStream /\ handler[running[p]] # "none"
    BY DEF TunnelInv, TunnelTypes, StreamInv, Streams
  <2>4. \A p \in Sessions : running'[p] # 0 => running'[p] = agentStream' /\ handler'[running'[p]] # "none"
    BY <1>1, <1>3, <2>3
  <2> QED
    BY <1>4, <2>1, <2>2, <2>4 DEF StreamInv, Streams
<1>9. ASSUME NEW p \in Sessions PROVE SessionInv(p)' /\ ForgottenInv(p)'
  <2>1. SessionInv(p) /\ ForgottenInv(p)
    BY DEF TunnelInv
  <2>2. \A x : ~Has(<<>>, x) /\ Once(<<>>, x) /\ \A y : Earlier(<<>>, x, y)
    BY DEF Has, Once, Earlier
  <2>3. \A h \in Streams : \A x : /\ Has(queue'[h], x) => Has(queue[h], x)
                                  /\ Has(fromAgent'[h], x) => Has(fromAgent[h], x)
                                  /\ Once(queue[h], x) => Once(queue'[h], x)
                                  /\ \A y : Earlier(queue[h], x, y) => Earlier(queue'[h], x, y)
    BY <1>3, <2>2
  <2>4. (ToStart(p)' => ToStart(p)) /\ (ToEnd(p)' => ToEnd(p)) /\ (Reported(p)' => Reported(p))
    BY <2>3 DEF ToStart, ToEnd, Reported, Streams
  <2>5. SessionInv(p)'
    BY <1>1, <1>6, <2>1, <2>3, <2>4 DEF SessionInv, Streams
  <2>6. SUFFICES ASSUME session'[p].opened, ~session'[p].known, p \notin dropped \cup orphaned, registered' # 0,
                        running[p] = registered' \/ Has(queue'[registered'], Message("start", p))
                 PROVE  Has(queue'[registered'], Message("close", p))
    BY <1>1, <2>5 DEF ForgottenInv
  <2>7. registered' = registered /\ registered # 0 /\ queue'[registered] = queue[registered]
    BY <1>3, <1>4, <2>6
  <2>8. session'[p] = session[p]
    <3>1. registered # g
      BY <1>4, <2>6, <2>7
    <3> QED
      BY <1>1, <3>1 DEF UnregisterTunnel
  <2> QED
    BY <2>1, <2>6, <2>7, <2>8 DEF ForgottenInv
<1> QED
  BY <1>7, <1>8, <1>9 DEF TunnelInv

LEMMA OpenStreamKeeps ==
  ASSUME TunnelInv, OpenStream
  PROVE  TunnelInv'
<1>1. PICK g \in Streams : agentStream = 0 /\ agentStream' = g
        /\ UNCHANGED <<tunnelKind, registered, queue, chanOpen, handler, fromAgent, delivering,
                       session, attach, running, inputs, crashed, dropped, orphaned>>
  BY DEF OpenStream
<1>2. \A p \in Sessions : running[p] = 0
  BY <1>1 DEF TunnelInv, StreamInv
<1>3. TunnelTypes'
  BY <1>1 DEF TunnelInv, TunnelTypes, Streams
<1>4. StreamInv'
  BY <1>1, <1>2 DEF TunnelInv, StreamInv, Streams
<1>5. ASSUME NEW p \in Sessions PROVE SessionInv(p)' /\ ForgottenInv(p)'
  BY <1>1 DEF TunnelInv, SessionInv, ForgottenInv, ToStart, ToEnd, Reported, Streams
<1> QED
  BY <1>3, <1>4, <1>5 DEF TunnelInv

\* The stream ends with all it runs.
LEMMA StreamEndsKeeps ==
  ASSUME TunnelInv, StreamEnds
  PROVE  TunnelInv'
<1>1. /\ agentStream # 0 /\ agentStream' = 0
      /\ running' = [s \in Sessions |-> IF running[s] = agentStream THEN 0 ELSE running[s]]
      /\ UNCHANGED <<tunnelKind, registered, queue, chanOpen, handler, fromAgent, delivering,
                     session, attach, crashed, dropped, orphaned>>
  BY DEF StreamEnds
<1>2. \A p \in Sessions : running'[p] = 0
  BY <1>1 DEF TunnelInv, StreamInv
<1>3. running' \in [Sessions -> 0..MaxStreams] /\ agentStream' \in 0..MaxStreams
  <2>1. 0 \in 0..MaxStreams
    BY TunnelAssumption
  <2>2. DOMAIN running' = Sessions /\ running' = [s \in Sessions |-> running'[s]]
    BY <1>1
  <2> QED
    BY <1>1, <1>2, <2>1, <2>2
<1>4. TunnelTypes'
  BY <1>1, <1>3 DEF TunnelInv, TunnelTypes, Streams
<1>5. StreamInv'
  BY <1>1, <1>2 DEF TunnelInv, StreamInv, Streams
<1>6. ASSUME NEW p \in Sessions PROVE SessionInv(p)' /\ ForgottenInv(p)'
  <2>1. (ToStart(p)' <=> ToStart(p)) /\ (ToEnd(p)' <=> ToEnd(p)) /\ (Reported(p)' <=> Reported(p))
    BY <1>1 DEF ToStart, ToEnd, Reported, Streams
  <2>2. SessionInv(p) /\ ForgottenInv(p) /\ running'[p] = 0
    BY <1>2 DEF TunnelInv
  <2>3. SessionInv(p)'
    BY <1>1, <2>1, <2>2 DEF SessionInv, Streams
  <2>4. ForgottenInv(p)'
    BY <1>1, <2>2 DEF ForgottenInv
  <2> QED
    BY <2>3, <2>4
<1> QED
  BY <1>4, <1>5, <1>6 DEF TunnelInv

\* What the agent sends.
LEMMA ReportEffect ==
  ASSUME TunnelInv, NEW g \in Streams, NEW s \in Sessions, NEW k \in {"output", "closed"},
         fromAgent' = [fromAgent EXCEPT ![g] = Append(@, Message(k, s))]
  PROVE  /\ fromAgent' \in [Streams -> Seq(Messages)]
         /\ \A h \in Streams : \A i \in DOMAIN fromAgent'[h] : fromAgent'[h][i].kind \in {"output", "closed"}
         /\ \A p \in Sessions : Reported(p)' <=> Reported(p) \/ (p = s /\ k = "closed")
<1> DEFINE m == Message(k, s)
           t == Append(fromAgent[g], m)
<1>1. /\ m \in Messages /\ m.kind \in {"output", "closed"}
      /\ \A p : m = Message("closed", p) <=> p = s /\ k = "closed"
  BY Messages_
<1> HIDE DEF m
<1>2. /\ fromAgent \in [Streams -> Seq(Messages)]
      /\ \A h \in Streams : \A i \in DOMAIN fromAgent[h] : fromAgent[h][i].kind \in {"output", "closed"}
  BY DEF TunnelInv, TunnelTypes
<1>3. t \in Seq(Messages) /\ \A x : Has(t, x) <=> Has(fromAgent[g], x) \/ x = m
  <2>1. fromAgent[g] \in Seq(Messages)
    BY <1>2
  <2> QED
    BY <1>1, <2>1, AppendHas
<1>4. fromAgent' = [fromAgent EXCEPT ![g] = t]
  BY DEF m
<1> HIDE DEF t
<1>5. fromAgent' \in [Streams -> Seq(Messages)]
  BY <1>2, <1>3, <1>4
<1>6. \A h \in Streams : \A x : Has(fromAgent'[h], x) <=> Has(fromAgent[h], x) \/ (h = g /\ x = m)
  BY <1>2, <1>3, <1>4
<1>7. ASSUME NEW h \in Streams, NEW i \in DOMAIN fromAgent'[h] PROVE fromAgent'[h][i].kind \in {"output", "closed"}
  <2>1. Has(fromAgent'[h], fromAgent'[h][i])
    BY DEF Has
  <2>2. Has(fromAgent[h], fromAgent'[h][i]) \/ fromAgent'[h][i] = m
    BY <1>6, <2>1
  <2> QED
    BY <1>1, <1>2, <2>2 DEF Has
<1>8. ASSUME NEW p \in Sessions PROVE Reported(p)' <=> Reported(p) \/ (p = s /\ k = "closed")
  BY <1>1, <1>6 DEF Reported, Streams
<1> QED
  BY <1>5, <1>7, <1>8

\* The agent takes the next message: a start is run or reported as refused, and
\* what follows a close is not its start.
LEMMA HandleKeeps_ ==
  ASSUME TunnelInv, NEW starts \in BOOLEAN, HandleMessage(starts)
  PROVE  TunnelInv'
<1> DEFINE g == agentStream
           q == queue[g]
           m == Head(q)
           s == m.session
           n == CASE m.kind = "start" -> IF starts THEN g ELSE running[s]
                  [] m.kind = "close" -> 0
                  [] OTHER -> running[s]
           refused == m.kind = "start" /\ ~starts
<1>1. /\ g # 0 /\ handler[g] = "serving" /\ q # <<>>
      /\ queue' = [queue EXCEPT ![g] = Tail(q)] /\ running' = [running EXCEPT ![s] = n]
      /\ refused => fromAgent' = [fromAgent EXCEPT ![g] = Append(@, Message("closed", s))]
      /\ ~refused => fromAgent' = fromAgent
      /\ UNCHANGED <<tunnelKind, registered, chanOpen, handler, agentStream, delivering, session,
                     attach, crashed, dropped, orphaned>>
  BY DEF HandleMessage
<1>2. /\ g \in Streams /\ queue \in [Streams -> Seq(Messages)] /\ running \in [Sessions -> 0..MaxStreams]
      /\ \A h \in Streams : Len(queue[h]) <= QueueSize
  BY <1>1 DEF TunnelInv, TunnelTypes, Streams
<1>3. /\ Tail(q) \in Seq(Messages) /\ Len(Tail(q)) = Len(q) - 1 /\ Len(q) \in Nat /\ m \in Messages
      /\ Has(q, m)
      /\ \A x : Has(Tail(q), x) => Has(q, x)
      /\ \A x : Has(q, x) /\ x # m => Has(Tail(q), x)
      /\ \A x : Once(q, x) => Once(Tail(q), x)
      /\ Once(q, m) => ~Has(Tail(q), m)
      /\ \A x, y : Earlier(q, x, y) => Earlier(Tail(q), x, y) /\ (m = y => ~Has(Tail(q), x))
  BY <1>1, <1>2, TailHas, TailOrder
<1>4. s \in Sessions /\ m = Message(m.kind, s) /\ \A k, p : m = Message(k, p) <=> m.kind = k /\ s = p
  BY <1>3, Messages_ DEF Messages
<1>5. /\ n \in {g, 0, running[s]} /\ (n = g => m.kind = "start" \/ running[s] = g \/ g = 0)
      /\ m.kind = "close" => n = 0
      /\ m.kind \notin {"start", "close"} \/ refused => n = running[s]
  OBVIOUS
<1> DEFINE t == Tail(q)
<1> HIDE DEF n, m, s, t
<1>6. queue' = [queue EXCEPT ![g] = t] /\ running' = [running EXCEPT ![s] = n]
  BY <1>1 DEF t
<1> HIDE DEF g
<1>7. queue'[g] = t /\ (\A h \in Streams : h # g => queue'[h] = queue[h])
      /\ running'[s] = n /\ (\A p \in Sessions : p # s => running'[p] = running[p])
  BY <1>2, <1>4, <1>6
<1>8. \A h \in Streams : \A x :
        /\ Has(queue'[h], x) => Has(queue[h], x)
        /\ Has(queue[h], x) /\ (h # g \/ x # m) => Has(queue'[h], x)
        /\ Once(queue[h], x) => Once(queue'[h], x)
        /\ \A y : Earlier(queue[h], x, y) => Earlier(queue'[h], x, y)
  BY <1>3, <1>7 DEF t
<1>9. \A p \in Sessions : Reported(p)' <=> Reported(p) \/ (p = s /\ refused)
  <2>1. CASE refused
    BY <1>1, <1>2, <1>4, <2>1, ReportEffect
  <2>2. CASE ~refused
    BY <1>1, <2>2 DEF Reported
  <2> HIDE DEF refused
  <2> QED
    BY <2>1, <2>2
<1>10. TunnelTypes'
  <2>1. /\ fromAgent' \in [Streams -> Seq(Messages)]
        /\ \A h \in Streams : \A i \in DOMAIN fromAgent'[h] : fromAgent'[h][i].kind \in {"output", "closed"}
    <3>1. CASE refused
      BY <1>1, <1>2, <1>4, <3>1, ReportEffect
    <3>2. CASE ~refused
      BY <1>1, <3>2 DEF TunnelInv, TunnelTypes
    <3> HIDE DEF refused
    <3> QED
      BY <3>1, <3>2
  <2>2. n \in 0..MaxStreams /\ running' \in [Sessions -> 0..MaxStreams]
    <3>1. 0 \in 0..MaxStreams /\ g \in 0..MaxStreams
      BY <1>2, TunnelAssumption DEF Streams
    <3>2. n \in 0..MaxStreams
      BY <1>2, <1>4, <1>5, <3>1
    <3> QED
      BY <1>2, <1>6, <3>2
  <2>3. t \in Seq(Messages) /\ Len(t) <= QueueSize
    BY <1>2, <1>3, TunnelAssumption DEF t
  <2>4. queue' \in [Streams -> Seq(Messages)] /\ \A h \in Streams : Len(queue'[h]) <= QueueSize
    BY <1>2, <1>6, <1>7, <2>3
  <2>5. UNCHANGED <<tunnelKind, registered, chanOpen, handler, agentStream, delivering, session, attach>>
    BY <1>1
  <2> QED
    BY <2>1, <2>2, <2>4, <2>5 DEF TunnelInv, TunnelTypes, Streams
<1>11. StreamInv'
  <2>1. g # 0 /\ handler[g] = "serving" /\ g = agentStream
    BY <1>1 DEF g
  <2>2. \A p \in Sessions : running[p] # 0 => running[p] = g
    BY DEF TunnelInv, StreamInv, g
  <2>3. \A p \in Sessions : running'[p] # 0 => running'[p] = g
    BY <1>4, <1>5, <1>7, <2>2
  <2>4. \A h \in Streams : handler[h] = "none" => queue'[h] = <<>>
    BY <1>7, <2>1 DEF TunnelInv, StreamInv
  <2>5. UNCHANGED <<registered, chanOpen, handler, agentStream, crashed>>
    BY <1>1
  <2> QED
    BY <2>1, <2>3, <2>4, <2>5 DEF TunnelInv, StreamInv, Streams
<1>12. ASSUME NEW p \in Sessions PROVE SessionInv(p)' /\ ForgottenInv(p)'
  <2>1. SessionInv(p) /\ ForgottenInv(p)
    BY DEF TunnelInv
  <2>2. (ToStart(p)' => ToStart(p)) /\ (ToEnd(p)' => ToEnd(p))
    BY <1>8 DEF ToStart, ToEnd, Streams
  <2>3. UNCHANGED <<registered, session, dropped, orphaned>>
    BY <1>1
  <2>4. p = s /\ m.kind = "start" => ToStart(p) /\ ~ToStart(p)' /\ ~Reported(p) /\ running[p] = 0
    <3>1. SUFFICES ASSUME p = s, m.kind = "start" PROVE ToStart(p) /\ ~ToStart(p)' /\ ~Reported(p) /\ running[p] = 0
      OBVIOUS
    <3>2. m = Message("start", p)
      BY <1>4, <3>1
    <3>3. Has(queue[g], Message("start", p)) /\ ~Has(queue'[g], Message("start", p))
      BY <1>2, <1>3, <1>7, <2>1, <3>2 DEF SessionInv, t
    <3>4. \A h \in Streams : ~Has(queue'[h], Message("start", p))
      BY <1>2, <1>8, <2>1, <3>3 DEF SessionInv
    <3> QED
      BY <1>2, <2>1, <3>3, <3>4 DEF ToStart, SessionInv, Streams
  <2>5. running'[p] = running[p] \/ (p = s /\ m.kind \in {"start", "close"})
    BY <1>4, <1>5, <1>7
  <2>6. p = s /\ m.kind = "close" => running'[p] = 0
    BY <1>5, <1>7
  <2>7. p = s /\ refused => m.kind = "start" /\ running'[p] = running[p]
    BY <1>5, <1>7
  <2>8. Reported(p)' <=> Reported(p) \/ (p = s /\ refused)
    BY <1>9
  <2>9. \A h \in Streams : /\ Once(queue'[h], Message("start", p))
                           /\ Earlier(queue'[h], Message("start", p), Message("close", p))
    BY <1>8, <2>1 DEF SessionInv
  <2>10. \A h, i \in Streams :
           Has(queue'[h], Message("start", p)) /\ Has(queue'[i], Message("start", p)) => h = i
    BY <1>8, <2>1 DEF SessionInv
  <2> HIDE DEF refused
  <2>11. SessionInv(p)'
    <3>1. ~session[p].opened => running'[p] = 0 /\ ~ToStart(p)' /\ ~ToEnd(p)' /\ ~Reported(p)'
      <4>1. SUFFICES ASSUME ~session[p].opened
                     PROVE  running'[p] = 0 /\ ~ToStart(p)' /\ ~ToEnd(p)' /\ ~Reported(p)'
        OBVIOUS
      <4>2. running[p] = 0 /\ ~ToStart(p) /\ ~ToEnd(p) /\ ~Reported(p)
        BY <2>1, <4>1 DEF SessionInv
      <4> QED
        BY <2>2, <2>4, <2>5, <2>6, <2>7, <2>8, <4>2
    <3>2. ToStart(p)' => running'[p] = 0
      BY <2>1, <2>2, <2>4, <2>5, <2>6 DEF SessionInv
    <3>3. Reported(p)' => running'[p] = 0 /\ ~ToStart(p)'
      BY <2>1, <2>2, <2>4, <2>5, <2>6, <2>7, <2>8 DEF SessionInv
    <3> QED
      BY <2>1, <2>3, <2>9, <2>10, <3>1, <3>2, <3>3 DEF SessionInv, Streams
  <2>12. SUFFICES ASSUME session[p].opened, ~session[p].known, p \notin dropped \cup orphaned, registered # 0,
                         running'[p] = registered \/ Has(queue'[registered], Message("start", p))
                  PROVE  Has(queue'[registered], Message("close", p))
    BY <2>3, <2>11 DEF ForgottenInv
  <2>13. registered \in Streams
    BY <2>12, RegisteredServes
  <2>14. g # 0 /\ g = agentStream
    BY <1>1 DEF g
  <2>15. CASE p = s /\ m.kind = "close"
    <3>1. registered # 0 /\ running'[p] = 0
      BY <2>6, <2>12, <2>15
    <3>2. Has(queue'[registered], Message("start", p))
      BY <2>12, <3>1
    <3>3. registered # g
      <4>1. m = Message("close", p)
        BY <1>4, <2>15
      <4>2. ~Has(queue'[g], Message("start", p))
        BY <1>2, <1>3, <1>7, <2>1, <4>1 DEF SessionInv, t
      <4> QED
        BY <3>2, <4>2
    <3> QED
      BY <1>8, <2>1, <2>12, <2>13, <3>2, <3>3 DEF ForgottenInv
  <2>16. CASE ~(p = s /\ m.kind = "close")
    <3>1. m # Message("close", p)
      BY <1>4, <2>16
    <3>2. running[p] = registered \/ Has(queue[registered], Message("start", p))
      <4>1. CASE Has(queue'[registered], Message("start", p))
        BY <1>8, <2>13, <4>1
      <4>2. CASE running'[p] = registered /\ running'[p] = running[p]
        BY <4>2
      <4>3. CASE running'[p] = registered /\ running'[p] # running[p]
        <5>1. p = s /\ m.kind = "start"
          BY <2>5, <2>16, <4>3
        <5>2. running[p] = 0 /\ n = g /\ registered = g
          BY <1>5, <1>7, <2>4, <2>12, <4>3, <5>1
        <5> QED
          BY <1>3, <1>4, <5>1, <5>2
      <4> QED
        BY <2>12, <4>1, <4>2, <4>3
    <3> QED
      BY <1>8, <2>1, <2>12, <2>13, <3>1, <3>2 DEF ForgottenInv
  <2> QED
    BY <2>15, <2>16
<1> QED
  BY <1>10, <1>11, <1>12 DEF TunnelInv

LEMMA OutputKeeps_ ==
  ASSUME TunnelInv, NEW s \in Sessions, NEW ends \in BOOLEAN, Output(s, ends)
  PROVE  TunnelInv'
<1> DEFINE k == IF ends THEN "closed" ELSE "output"
           n == IF ends THEN 0 ELSE running[s]
<1>1. /\ running[s] # 0 /\ fromAgent' = [fromAgent EXCEPT ![running[s]] = Append(@, Message(k, s))]
      /\ UNCHANGED <<tunnelKind, registered, queue, chanOpen, handler, agentStream, delivering,
                     session, attach, crashed, dropped, orphaned>>
  BY DEF Output
<1>2. running[s] \in Streams /\ running \in [Sessions -> 0..MaxStreams] /\ k \in {"output", "closed"}
      /\ (k = "closed" <=> ends)
  BY <1>1 DEF TunnelInv, TunnelTypes, Streams
<1>3. running' = [running EXCEPT ![s] = n]
  BY <1>2 DEF Output
<1>4. n \in 0..MaxStreams /\ (ends => n = 0) /\ (~ends => n = running[s])
  BY <1>2, TunnelAssumption
<1> HIDE DEF k, n
<1>5. /\ fromAgent' \in [Streams -> Seq(Messages)]
      /\ \A h \in Streams : \A i \in DOMAIN fromAgent'[h] : fromAgent'[h][i].kind \in {"output", "closed"}
      /\ \A p \in Sessions : Reported(p)' <=> Reported(p) \/ (p = s /\ ends)
  BY <1>1, <1>2, ReportEffect
<1>6. /\ running' \in [Sessions -> 0..MaxStreams]
      /\ \A p \in Sessions : running'[p] = IF p = s THEN n ELSE running[p]
  BY <1>2, <1>3, <1>4
<1>7. TunnelTypes'
  BY <1>1, <1>5, <1>6 DEF TunnelInv, TunnelTypes, Streams
<1>8. StreamInv'
  <2>1. \A p \in Sessions : running'[p] # 0 => running'[p] = running[p]
    BY <1>4, <1>6
  <2> QED
    BY <1>1, <2>1 DEF TunnelInv, StreamInv, Streams
<1>9. ASSUME NEW p \in Sessions PROVE SessionInv(p)' /\ ForgottenInv(p)'
  <2>1. (ToStart(p)' <=> ToStart(p)) /\ (ToEnd(p)' <=> ToEnd(p)) /\ (Reported(p)' <=> Reported(p) \/ (p = s /\ ends))
    BY <1>1, <1>5 DEF ToStart, ToEnd, Streams
  <2>2. SessionInv(p) /\ ForgottenInv(p)
    BY DEF TunnelInv
  <2>3. (p = s => running[p] # 0) /\ (p = s /\ ends => running'[p] = 0) /\ (running'[p] = running[p] \/ running'[p] = 0)
    BY <1>1, <1>4, <1>6
  <2>4. SessionInv(p)'
    BY <1>1, <2>1, <2>2, <2>3 DEF SessionInv, Streams
  <2>5. ForgottenInv(p)'
    BY <1>1, <2>2, <2>3 DEF ForgottenInv
  <2> QED
    BY <2>4, <2>5
<1> QED
  BY <1>7, <1>8, <1>9 DEF TunnelInv

LEMMA TunnelStep == TunnelInv /\ [TunnelNext]_tunnelVars => TunnelInv'
<1>1. ASSUME TunnelInv, TunnelNext PROVE TunnelInv'
  <2>1. CASE RegisterTunnel
    BY <1>1, <2>1, RegisterKeeps
  <2>2. CASE OpenStream
    BY <1>1, <2>2, OpenStreamKeeps
  <2>3. CASE StreamEnds
    BY <1>1, <2>3, StreamEndsKeeps
  <2>4. ASSUME NEW g \in Streams, HandlerEnds(g) \/ LookupSession(g) \/ Deliver(g) PROVE TunnelInv'
    BY <1>1, <2>4, HandlerEndsKeeps, LookupKeeps, DeliverKeeps
  <2>5. ASSUME NEW s \in Sessions,
               \/ OpenSession(s) \/ SendToSessionNode(s) \/ TokenExpires(s) \/ SweepExpiredSessions(s)
               \/ ReadIncoming(s) \/ ReaderLeaves(s) \/ ReaderCloses(s)
        PROVE  TunnelInv'
    BY <1>1, <2>5, OpenKeeps_, SendKeeps, TokenKeeps, SweepKeeps, ReadKeeps_, ReaderLeavesKeeps, ReaderClosesKeeps
  <2>6. ASSUME NEW s \in Sessions, NEW ends \in BOOLEAN, Output(s, ends) PROVE TunnelInv'
    BY <1>1, <2>6, OutputKeeps_
  <2>7. ASSUME NEW s \in Sessions, NEW b \in Browsers,
               ReserveSessionAttach(b, s) \/ \E upgraded \in BOOLEAN : UpgradeWebsocket(b, s, upgraded)
        PROVE  TunnelInv'
    BY <1>1, <2>7, ReserveKeeps, UpgradeKeeps_
  <2>8. ASSUME NEW starts \in BOOLEAN, HandleMessage(starts) PROVE TunnelInv'
    BY <1>1, <2>8, HandleKeeps_
  <2> QED
    BY <1>1, <2>1, <2>2, <2>3, <2>4, <2>5, <2>6, <2>7, <2>8 DEF TunnelNext
<1>2. TunnelInv /\ UNCHANGED tunnelVars => TunnelInv'
  BY DEF TunnelInv, TunnelTypes, StreamInv, SessionInv, ForgottenInv, ToStart, ToEnd, Reported, tunnelVars
<1> QED
  BY <1>1, <1>2

LEMMA TunnelInvIsSafe == TunnelInv => SessionsAreSafe
<1> SUFFICES ASSUME TunnelInv PROVE SessionsAreSafe
  OBVIOUS
<1>1. TunnelTypeOK
  BY DEF TunnelInv, TunnelTypes, TunnelTypeOK
<1>2. NoPanic
  BY DEF TunnelInv, StreamInv, NoPanic
<1>3. ForgottenSessionsEnd
  <2>1. SUFFICES ASSUME NEW s \in Sessions, running[s] # 0, session[s].opened, ~session[s].known,
                        registered = running[s], s \notin dropped \cup orphaned
                 PROVE  Has(queue[running[s]], Message("close", s))
    BY DEF ForgottenSessionsEnd, Has
  <2> QED
    BY <2>1 DEF TunnelInv, ForgottenInv
<1> QED
  BY <1>1, <1>2, <1>3 DEF SessionsAreSafe

\* The safety half of SessionsAreSafeAndEnd, for any number of sessions, browsers
\* and streams.  No goroutine of the tunnel managers sends on a closed channel
\* or closes one twice, and a session that closeSessionLocked has forgotten has
\* its close message queued for the agent that runs it.
THEOREM SessionsSafe == TunnelSpec => []SessionsAreSafe
<1>1. TunnelInit => TunnelInv
  BY TunnelInitOK
<1>2. TunnelInv /\ [TunnelNext]_tunnelVars => TunnelInv'
  BY TunnelStep
<1>3. TunnelInv => SessionsAreSafe
  BY TunnelInvIsSafe
<1> QED
  BY <1>1, <1>2, <1>3, PTL DEF TunnelSpec

-----------------------------------------------------------------------------
(* The status of a node *)

\* A heartbeat under way is of a running agent, whose timer counts from its start;
\* there is one that the agent still waits for.  What is recorded is not yet old.
LiveInv ==
  /\ \A c, d \in Live : c = d
  /\ \A c \in Live :
       /\ agent.up /\ agent.timer + c.sent = HeartbeatInterval
       /\ c.stage \in {"read", "recorded"} => c.at <= c.sent
CallInv ==
  \A c \in calls :
    /\ ~ctlUp => c.stage = "lost"
    /\ c.stage = "recorded" => row.online /\ row.age <= WriteDelay + c.at
SlowInv ==
  \/ nodeFaults <= MaxNodeFaults
  \/ \A c \in Live : c.stage # "lost" => c.sent < HeartbeatTimeout

\* What a sweep overlooks has just been recorded.
SweepInv ==
  /\ row.online => row.seen
  /\ ~ctlUp => sweep.stage = "idle"
  /\ sweep.stage = "before" /\ ~sweep.before /\ row.online
     => row.age <= WriteDelay + sweep.busy

FreshInv ==
  ctlUp /\ row.online /\ ~sweepFailed =>
    IF sweep.stage = "before" THEN row.age <= OfflineAfter + SweepInterval + sweep.busy
    ELSE row.age + sweep.timer <= OfflineAfter + SweepInterval

DeathInv ==
  ctlUp /\ ~row.online /\ wasOnline /\ ~sweepFailed =>
    \/ lastEvent = "offline"
    \/ sweep.stage = "marked" /\ sweep.before
    \/ sweep.stage = "report"

Missed == IF misses = 0 THEN HeartbeatInterval ELSE 2 * HeartbeatInterval
MissInv ==
  /\ steady => agent.up
  /\ steady /\ misses < 2 =>
       /\ Live = {} => row.age + agent.timer <= WriteDelay + Missed
       /\ \A c \in Live : row.age <= WriteDelay + Missed + c.sent

NodeInv == NodeTypeOK /\ LiveInv /\ CallInv /\ SlowInv /\ SweepInv /\ FreshInv /\ DeathInv /\ MissInv
CallStages == {"sent", "lost", "read", "recorded"}
Calls == [stage : CallStages, sent : 0..HeartbeatTimeout, at : 0..WriteDelay,
          prev : [online : BOOLEAN, seen : BOOLEAN], live : BOOLEAN]

LEMMA Durations ==
  /\ HeartbeatInterval \in Nat /\ HeartbeatTimeout \in Nat /\ OfflineAfter \in Nat
  /\ SweepInterval \in Nat /\ WriteDelay \in Nat /\ MaxNodeFaults \in Nat
  /\ 0 < HeartbeatTimeout /\ HeartbeatTimeout < HeartbeatInterval
  /\ 0 < SweepInterval /\ 0 < WriteDelay
  /\ 2 * WriteDelay < OfflineAfter
  /\ WriteDelay + 2 * HeartbeatInterval + HeartbeatTimeout <= OfflineAfter
  /\ AgeCap \in Nat /\ AgeCap = OfflineAfter + SweepInterval + 2 * WriteDelay + 1
  BY NodeAssumption, MissesAssumption DEF AgeCap

LEMMA CallFields ==
  ASSUME NEW c \in Calls
  PROVE  /\ c.stage \in CallStages /\ c.sent \in 0..HeartbeatTimeout /\ c.at \in 0..WriteDelay
         /\ c.prev \in [online : BOOLEAN, seen : BOOLEAN] /\ c.live \in BOOLEAN
         /\ c.sent \in Nat /\ c.at \in Nat /\ c.sent <= HeartbeatTimeout /\ c.at <= WriteDelay
  BY Durations DEF Calls

\* A call that is given up, that moves on, and that reads the row.
LEMMA GivenUp ==
  ASSUME NEW c \in Calls
  PROVE  LET d == [c EXCEPT !.live = FALSE]
         IN  d \in Calls /\ d.stage = c.stage /\ d.sent = c.sent /\ d.at = c.at /\ d.live = FALSE
  BY DEF Calls
LEMMA MovesOn ==
  ASSUME NEW c \in Calls, NEW s \in CallStages
  PROVE  LET d == [c EXCEPT !.stage = s]
         IN  d \in Calls /\ d.stage = s /\ d.sent = c.sent /\ d.at = c.at /\ d.live = c.live
  BY DEF Calls
LEMMA ReadsRow ==
  ASSUME NEW c \in Calls, NEW p \in [online : BOOLEAN, seen : BOOLEAN]
  PROVE  LET d == [c EXCEPT !.stage = "read", !.at = 0, !.prev = p]
         IN  d \in Calls /\ d.stage = "read" /\ d.sent = c.sent /\ d.at = 0 /\ d.live = c.live
<1>1. "read" \in CallStages /\ 0 \in 0..WriteDelay
  BY Durations DEF CallStages
<1>. QED
  BY <1>1 DEF Calls

Ticked(c) == [c EXCEPT !.sent = IF c.live THEN @ + 1 ELSE 0,
                       !.at = IF c.stage \in {"read", "recorded"} THEN @ + 1 ELSE @]

LEMMA TickShape ==
  ASSUME NEW c \in Calls,
         c.live => c.sent < HeartbeatTimeout - Hurry(c),
         c.stage \in {"read", "recorded"} => c.at < WriteDelay
  PROVE  /\ Ticked(c) \in Calls
         /\ Ticked(c).stage = c.stage /\ Ticked(c).live = c.live
         /\ c.live => Ticked(c).sent = c.sent + 1
         /\ Ticked(c).at = IF c.stage \in {"read", "recorded"} THEN c.at + 1 ELSE c.at
<1>1. Hurry(c) \in {0, 1}
  BY DEF Hurry
<1>2. c.sent \in 0..HeartbeatTimeout /\ c.at \in 0..WriteDelay /\ c.live \in BOOLEAN
  BY DEF Calls
<1>3. (IF c.live THEN c.sent + 1 ELSE 0) \in 0..HeartbeatTimeout
  BY <1>1, <1>2, Durations
<1>4. (IF c.stage \in {"read", "recorded"} THEN c.at + 1 ELSE c.at) \in 0..WriteDelay
  BY <1>2, Durations
<1>. QED
  BY <1>3, <1>4 DEF Ticked, Calls

\* The type invariant, in the form the lemmas below use it.
LEMMA NodeTypes ==
  NodeTypeOK <=>
    /\ row \in [online : BOOLEAN, seen : BOOLEAN, age : 0..AgeCap]
    /\ agent \in [up : BOOLEAN, timer : 0..HeartbeatInterval]
    /\ calls \subseteq Calls
    /\ sweep \in [stage : {"idle", "before", "marked", "report"}, timer : 0..SweepInterval,
                  busy : 0..WriteDelay + 1, before : BOOLEAN]
    /\ ctlUp \in BOOLEAN /\ steady \in BOOLEAN /\ wasOnline \in BOOLEAN /\ sweepFailed \in BOOLEAN
    /\ lastEvent \in {"none", "online", "offline"} /\ misses \in 0..3
    /\ nodeFaults \in 0..MaxNodeFaults + 1
  BY DEF NodeTypeOK, Calls, CallStages

-----------------------------------------------------------------------------
(* The agent *)

LEMMA NodeInitOK == NodeInit => NodeInv
<1>. SUFFICES ASSUME NodeInit PROVE NodeInv
  OBVIOUS
<1>1. NodeTypeOK
  <2>1. row \in [online : BOOLEAN, seen : BOOLEAN, age : 0..AgeCap]
    BY Durations DEF NodeInit
  <2>2. agent \in [up : BOOLEAN, timer : 0..HeartbeatInterval]
    BY Durations DEF NodeInit
  <2>3. sweep \in [stage : {"idle", "before", "marked", "report"}, timer : 0..SweepInterval,
                   busy : 0..WriteDelay + 1, before : BOOLEAN]
    BY Durations DEF NodeInit, SweepIdle
  <2>4. calls \subseteq Calls /\ nodeFaults \in 0..MaxNodeFaults + 1 /\ misses \in 0..3
    BY Durations DEF NodeInit
  <2>5. /\ ctlUp \in BOOLEAN /\ steady \in BOOLEAN /\ wasOnline \in BOOLEAN /\ sweepFailed \in BOOLEAN
        /\ lastEvent \in {"none", "online", "offline"}
    BY DEF NodeInit
  <2>. QED
    BY <2>1, <2>2, <2>3, <2>4, <2>5, NodeTypes
<1>. QED
  BY <1>1, Durations DEF NodeInit, NodeInv, LiveInv, CallInv, SlowInv, SweepInv, FreshInv, DeathInv,
       MissInv, Live, SweepIdle

LEMMA StartAgentKeeps == NodeInv /\ StartAgent => NodeInv'
<1>. SUFFICES ASSUME NodeInv, StartAgent PROVE NodeInv'
  OBVIOUS
<1>1. NodeTypeOK'
  BY Durations, NodeTypes DEF NodeInv, NodeTypeOK, StartAgent
<1>2. Live = {} /\ ~steady /\ Live' = Live
  BY DEF NodeInv, LiveInv, MissInv, StartAgent, Live
<1>3. SlowInv' /\ CallInv' /\ SweepInv' /\ FreshInv' /\ DeathInv'
  BY <1>2 DEF NodeInv, StartAgent, SlowInv, CallInv, SweepInv, FreshInv, DeathInv
<1>4. LiveInv' /\ MissInv'
  BY <1>2 DEF LiveInv, MissInv, StartAgent
<1>. QED
  BY <1>1, <1>3, <1>4 DEF NodeInv

LEMMA StopAgentKeeps == NodeInv /\ StopAgent => NodeInv'
<1>. SUFFICES ASSUME NodeInv, StopAgent PROVE NodeInv'
  OBVIOUS
<1>1. \A d \in calls' : \E c \in calls : d = [c EXCEPT !.live = FALSE] /\ c.stage # "lost"
  BY DEF StopAgent
<1>2. ASSUME NEW d \in calls'
      PROVE  /\ d \in Calls /\ d.live = FALSE
             /\ \E c \in calls : c.stage # "lost" /\ d.stage = c.stage /\ d.at = c.at
  <2>1. PICK c \in calls : d = [c EXCEPT !.live = FALSE] /\ c.stage # "lost"
    BY <1>1, <1>2
  <2>2. c \in Calls
    BY NodeTypes DEF NodeInv
  <2>. QED
    BY <2>1, <2>2, GivenUp
<1>3. NodeTypeOK'
  <2>1. agent' \in [up : BOOLEAN, timer : 0..HeartbeatInterval]
    BY NodeTypes DEF NodeInv, StopAgent
  <2>2. nodeFaults' \in 0..MaxNodeFaults + 1
    BY NodeTypes, Durations DEF NodeInv, StopAgent
  <2>. QED
    BY <1>2, <2>1, <2>2, NodeTypes DEF NodeInv, NodeTypeOK, StopAgent, Calls, CallStages
<1>4. Live' = {}
  BY <1>2 DEF Live
<1>5. LiveInv' /\ MissInv' /\ SlowInv'
  BY <1>4 DEF LiveInv, MissInv, SlowInv, StopAgent
<1>6. CallInv'
  <2>1. row' = row /\ ctlUp' = ctlUp
    BY DEF StopAgent
  <2>2. CallInv
    BY DEF NodeInv
  <2>3. SUFFICES ASSUME NEW d \in calls'
                 PROVE  /\ ~ctlUp => d.stage = "lost"
                        /\ d.stage = "recorded" => row.online /\ row.age <= WriteDelay + d.at
    BY <2>1 DEF CallInv
  <2>4. PICK c \in calls : c.stage # "lost" /\ d.stage = c.stage /\ d.at = c.at
    BY <1>2
  <2>. QED
    BY <2>2, <2>4 DEF CallInv
<1>7. SweepInv' /\ FreshInv' /\ DeathInv'
  BY DEF NodeInv, StopAgent, SweepInv, FreshInv, DeathInv
<1>. QED
  BY <1>3, <1>5, <1>6, <1>7 DEF NodeInv

LEMMA SendHeartbeatKeeps == NodeInv /\ SendHeartbeat => NodeInv'
<1>. SUFFICES ASSUME NodeInv, SendHeartbeat PROVE NodeInv'
  OBVIOUS
<1>1. PICK new : /\ calls' = calls \cup {new} /\ new \in Calls
                 /\ new.stage \in {"sent", "lost"} /\ new.sent = 0 /\ new.at = 0 /\ new.live = TRUE
                 /\ ~ctlUp => new.stage = "lost"
                 /\ nodeFaults' = nodeFaults \/ (nodeFaults' = nodeFaults + 1 /\ nodeFaults < MaxNodeFaults)
  <2>1. PICK arrives \in BOOLEAN :
          /\ arrives => ctlUp
          /\ ~arrives /\ ctlUp => nodeFaults < MaxNodeFaults
          /\ calls' = calls \cup
               {[stage |-> IF arrives THEN "sent" ELSE "lost", sent |-> 0, at |-> 0,
                 prev |-> [online |-> FALSE, seen |-> FALSE], live |-> TRUE]}
          /\ nodeFaults' = IF arrives \/ ~ctlUp THEN nodeFaults ELSE nodeFaults + 1
    BY DEF SendHeartbeat
  <2> DEFINE n == [stage |-> IF arrives THEN "sent" ELSE "lost", sent |-> 0, at |-> 0,
                   prev |-> [online |-> FALSE, seen |-> FALSE], live |-> TRUE]
  <2>2. n \in Calls /\ n.stage = (IF arrives THEN "sent" ELSE "lost") /\ n.sent = 0 /\ n.at = 0 /\ n.live = TRUE
    BY Durations DEF Calls, CallStages
  <2>. QED
    BY <2>1, <2>2
<1>2. Live = {} /\ agent.up /\ agent.timer = 0
  BY DEF SendHeartbeat
<1>3. Live' = {new}
  BY <1>1, <1>2 DEF Live
<1>4. agent'.up /\ agent'.timer = HeartbeatInterval /\ agent' \in [up : BOOLEAN, timer : 0..HeartbeatInterval]
  BY Durations, NodeTypes, <1>2 DEF NodeInv, SendHeartbeat
<1>5. NodeTypeOK'
  <2>1. nodeFaults' \in 0..MaxNodeFaults + 1
    BY <1>1, NodeTypes, Durations DEF NodeInv
  <2>. QED
    BY <1>1, <1>4, <2>1, NodeTypes DEF NodeInv, NodeTypeOK, SendHeartbeat, Calls, CallStages
<1>6. LiveInv'
  BY <1>1, <1>3, <1>4, Durations DEF LiveInv
<1>7. SlowInv'
  BY <1>1, <1>3, Durations DEF SlowInv
<1>8. CallInv'
  BY <1>1 DEF NodeInv, CallInv, SendHeartbeat
<1>9. SweepInv' /\ FreshInv' /\ DeathInv'
  BY DEF NodeInv, SendHeartbeat, SweepInv, FreshInv, DeathInv
<1>10. MissInv'
  <2>1. steady /\ misses < 2 => row.age <= WriteDelay + Missed
    BY <1>2, Durations, NodeTypes DEF NodeInv, MissInv, Missed
  <2>2. Missed' = Missed
    BY DEF Missed, SendHeartbeat
  <2>3. row' = row /\ steady' = steady /\ misses' = misses
    BY DEF SendHeartbeat
  <2>. QED
    BY <1>1, <1>3, <1>4, <2>1, <2>2, <2>3, Durations, NodeTypes DEF NodeInv, MissInv, Missed
<1>. QED
  BY <1>5, <1>6, <1>7, <1>8, <1>9, <1>10 DEF NodeInv

LEMMA HeartbeatTimesOutKeeps == NodeInv /\ HeartbeatTimesOut => NodeInv'
<1>. SUFFICES ASSUME NodeInv, HeartbeatTimesOut PROVE NodeInv'
  OBVIOUS
<1>1. PICK c \in Live :
        /\ c.sent = HeartbeatTimeout
        /\ calls' = (calls \ {c}) \cup
             {[c EXCEPT !.live = FALSE] : d \in {e \in {c} : e.stage # "lost" /\ calls = {c}}}
        /\ misses' = IF misses < 3 THEN misses + 1 ELSE misses
        /\ nodeFaults' = IF c.stage = "lost" THEN nodeFaults ELSE nodeFaults + 1
  BY DEF HeartbeatTimesOut
<1>2. c \in calls /\ c \in Calls /\ c.live
  BY NodeTypes DEF NodeInv, Live
<1> DEFINE late == [c EXCEPT !.live = FALSE]
<1>3. late \in Calls /\ late.stage = c.stage /\ late.at = c.at /\ late.live = FALSE
  BY <1>2, GivenUp
<1>. HIDE DEF late
<1>4. calls' \subseteq (calls \ {c}) \cup {late}
  BY <1>1 DEF late
<1>5. Live' = {}
  BY <1>1, <1>3, <1>4 DEF NodeInv, LiveInv, Live
<1>6. c.stage # "lost" => nodeFaults <= MaxNodeFaults
  BY <1>1, Durations DEF NodeInv, SlowInv
<1>7. NodeTypeOK'
  <2>1. nodeFaults' \in 0..MaxNodeFaults + 1 /\ misses' \in 0..3
    BY <1>1, <1>6, NodeTypes, Durations DEF NodeInv
  <2>. QED
    BY <1>3, <1>4, <2>1, NodeTypes DEF NodeInv, NodeTypeOK, HeartbeatTimesOut, Calls, CallStages
<1>8. LiveInv' /\ SlowInv'
  BY <1>5 DEF LiveInv, SlowInv
<1>9. CallInv'
  BY <1>2, <1>3, <1>4 DEF NodeInv, CallInv, HeartbeatTimesOut
<1>10. SweepInv' /\ FreshInv' /\ DeathInv'
  BY DEF NodeInv, HeartbeatTimesOut, SweepInv, FreshInv, DeathInv
<1>11. MissInv'
  <2>1. agent.up /\ agent.timer + HeartbeatTimeout = HeartbeatInterval
    BY <1>1 DEF NodeInv, LiveInv
  <2>2. row' = row /\ steady' = steady /\ agent' = agent
    BY DEF HeartbeatTimesOut
  <2>3. CASE steady /\ misses = 0
    <3>1. row.age <= WriteDelay + HeartbeatInterval + HeartbeatTimeout
      BY <1>1, <2>3 DEF NodeInv, MissInv, Missed
    <3>2. misses' = 1
      BY <1>1, <2>3
    <3>. QED
      BY <1>5, <2>1, <2>2, <3>1, <3>2, Durations, NodeTypes DEF NodeInv, MissInv, Missed
  <2>4. CASE ~(steady /\ misses = 0)
    <3>1. ~(steady' /\ misses' < 2)
      BY <1>1, <2>2, <2>4, NodeTypes DEF NodeInv
    <3>. QED
      BY <2>1, <2>2, <3>1 DEF MissInv
  <2>. QED
    BY <2>3, <2>4
<1>. QED
  BY <1>7, <1>8, <1>9, <1>10, <1>11 DEF NodeInv

-----------------------------------------------------------------------------
(* The handler *)

\* A call that moves on stays the one the agent waits for, or one it does not.
LEMMA OneMovesOn ==
  ASSUME LiveInv, NEW c \in calls, NEW d, d.live = c.live, c.live \in BOOLEAN,
         calls' = (calls \ {c}) \cup {d}
  PROVE  IF c.live THEN Live = {c} /\ Live' = {d} ELSE Live' = Live
<1>1. CASE c.live
  <2>1. Live = {c}
    BY <1>1 DEF LiveInv, Live
  <2>2. \A x : x \in Live' <=> x = d
    BY <1>1, <2>1 DEF Live
  <2>. QED
    BY <1>1, <2>1, <2>2
<1>2. CASE ~c.live
  BY <1>2 DEF Live
<1>. QED
  BY <1>1, <1>2

LEMMA OneEnds ==
  ASSUME LiveInv, NEW c \in calls, c.live \in BOOLEAN, calls' = calls \ {c}
  PROVE  IF c.live THEN Live = {c} /\ Live' = {} ELSE Live' = Live
<1>1. CASE c.live
  BY <1>1 DEF LiveInv, Live
<1>2. CASE ~c.live
  BY <1>2 DEF Live
<1>. QED
  BY <1>1, <1>2

LEMMA ReadPreviousSnapshotKeeps == NodeInv /\ ReadPreviousSnapshot => NodeInv'
<1>. SUFFICES ASSUME NodeInv, ReadPreviousSnapshot PROVE NodeInv'
  OBVIOUS
<1>1. PICK c \in calls :
        /\ c.stage = "sent" /\ ctlUp
        /\ calls' = (calls \ {c}) \cup
             {[c EXCEPT !.stage = "read", !.at = 0,
                        !.prev = [online |-> row.online, seen |-> row.seen]]}
  BY DEF ReadPreviousSnapshot
<1> DEFINE p == [online |-> row.online, seen |-> row.seen]
<1> DEFINE d == [c EXCEPT !.stage = "read", !.at = 0, !.prev = p]
<1>2. c \in Calls /\ p \in [online : BOOLEAN, seen : BOOLEAN]
  BY NodeTypes DEF NodeInv
<1>3. d \in Calls /\ d.stage = "read" /\ d.sent = c.sent /\ d.at = 0 /\ d.live = c.live
  BY <1>2, ReadsRow
<1>4. calls' = (calls \ {c}) \cup {d}
  BY <1>1
<1>. HIDE DEF d
<1>5. c.sent \in Nat /\ c.live \in BOOLEAN
  BY <1>2, CallFields
<1>6. IF c.live THEN Live = {c} /\ Live' = {d} ELSE Live' = Live
  BY <1>3, <1>4, <1>5, OneMovesOn DEF NodeInv
<1>7. UNCHANGED <<row, agent, sweep, ctlUp, lastEvent, misses, steady, wasOnline, sweepFailed, nodeFaults>>
  BY DEF ReadPreviousSnapshot
<1>8. NodeTypeOK'
  BY <1>3, <1>4, <1>7, NodeTypes DEF NodeInv, NodeTypeOK, Calls, CallStages
<1>9. LiveInv' /\ SlowInv'
  BY <1>1, <1>3, <1>5, <1>6, <1>7 DEF NodeInv, LiveInv, SlowInv
<1>10. CallInv'
  BY <1>1, <1>3, <1>4, <1>7 DEF NodeInv, CallInv
<1>11. SweepInv' /\ FreshInv' /\ DeathInv'
  BY <1>7 DEF NodeInv, SweepInv, FreshInv, DeathInv
<1>12. MissInv'
  BY <1>3, <1>6, <1>7 DEF NodeInv, MissInv, Missed
<1>. QED
  BY <1>8, <1>9, <1>10, <1>11, <1>12 DEF NodeInv

LEMMA RecordHeartbeatKeeps == NodeInv /\ RecordHeartbeat => NodeInv'
<1>. SUFFICES ASSUME NodeInv, RecordHeartbeat PROVE NodeInv'
  OBVIOUS
<1>1. PICK c \in calls :
        /\ c.stage = "read"
        /\ row' = HeartbeatRow(c)
        /\ wasOnline' = (wasOnline \/ row'.online)
        /\ calls' = (calls \ {c}) \cup {[c EXCEPT !.stage = "recorded"]}
  BY DEF RecordHeartbeat
<1> DEFINE d == [c EXCEPT !.stage = "recorded"]
<1>2. c \in Calls
  BY NodeTypes DEF NodeInv
<1>3. d \in Calls /\ d.stage = "recorded" /\ d.sent = c.sent /\ d.at = c.at /\ d.live = c.live
  BY <1>2, MovesOn DEF CallStages
<1>4. calls' = (calls \ {c}) \cup {d}
  BY <1>1
<1>. HIDE DEF d
<1>5. c.sent \in Nat /\ c.at \in Nat /\ c.at <= WriteDelay /\ c.live \in BOOLEAN
  BY <1>2, CallFields
<1>6. IF c.live THEN Live = {c} /\ Live' = {d} ELSE Live' = Live
  BY <1>3, <1>4, <1>5, OneMovesOn DEF NodeInv
<1>7. UNCHANGED <<agent, sweep, ctlUp, lastEvent, misses, steady, sweepFailed, nodeFaults>>
  BY DEF RecordHeartbeat
<1>8. /\ row'.online = TRUE /\ row'.seen = TRUE /\ row'.age = c.at
      /\ row' \in [online : BOOLEAN, seen : BOOLEAN, age : 0..AgeCap]
  BY <1>1, <1>5, Durations DEF HeartbeatRow
<1>9. NodeTypeOK'
  BY <1>1, <1>3, <1>4, <1>7, <1>8, NodeTypes DEF NodeInv, NodeTypeOK, Calls, CallStages
<1>10. LiveInv' /\ SlowInv'
  BY <1>1, <1>3, <1>5, <1>6, <1>7 DEF NodeInv, LiveInv, SlowInv
<1>11. CallInv'
  <2>1. ctlUp
    BY <1>1 DEF NodeInv, CallInv
  <2>2. \A x \in calls' : x \in Calls
    BY <1>3, <1>4, NodeTypes DEF NodeInv
  <2>3. \A x \in calls' : x.at \in Nat
    BY <2>2, CallFields
  <2>. QED
    BY <1>5, <1>7, <1>8, <2>1, <2>3, Durations DEF CallInv
<1>12. SweepInv' /\ FreshInv' /\ DeathInv'
  <2>1. sweep.timer \in 0..SweepInterval /\ sweep.busy \in 0..WriteDelay + 1
    BY NodeTypes DEF NodeInv
  <2>. QED
    BY <1>5, <1>7, <1>8, <2>1, Durations DEF NodeInv, SweepInv, FreshInv, DeathInv
<1>13. MissInv'
  <2>1. agent.timer \in 0..HeartbeatInterval
    BY NodeTypes DEF NodeInv
  <2>2. Missed' = Missed /\ Missed \in Nat /\ Missed >= HeartbeatInterval
    BY <1>7, Durations DEF Missed
  <2>3. \A x \in Live' : x \in Calls
    BY <1>3, <1>4, NodeTypes DEF NodeInv, Live
  <2>4. \A x \in Live' : x.sent \in Nat
    BY <2>3, CallFields
  <2>5. Live' = {} => row'.age + agent'.timer <= WriteDelay + Missed'
    BY <1>5, <1>7, <1>8, <2>1, <2>2, Durations
  <2>6. \A x \in Live' : row'.age <= WriteDelay + Missed' + x.sent
    BY <1>5, <1>8, <2>2, <2>4, Durations
  <2>. QED
    BY <1>7, <2>5, <2>6 DEF NodeInv, MissInv
<1>. QED
  BY <1>9, <1>10, <1>11, <1>12, <1>13 DEF NodeInv

\* Only a call whose record stands is finished, so node_online is true.
LEMMA FinishHeartbeatKeeps == NodeInv /\ FinishHeartbeat => NodeInv'
<1>. SUFFICES ASSUME NodeInv, FinishHeartbeat PROVE NodeInv'
  OBVIOUS
<1>1. PICK c \in calls :
        /\ c.stage = "recorded"
        /\ lastEvent' = IF ~c.prev.online /\ c.prev.seen THEN "online" ELSE lastEvent
        /\ calls' = calls \ {c}
        /\ misses' = IF c.live THEN 0 ELSE misses
        /\ steady' = (steady \/ c.live)
  BY DEF FinishHeartbeat
<1>2. c \in Calls
  BY NodeTypes DEF NodeInv
<1>3. c.sent \in Nat /\ c.at \in Nat /\ c.at <= WriteDelay /\ c.live \in BOOLEAN
  BY <1>2, CallFields
<1>4. IF c.live THEN Live = {c} /\ Live' = {} ELSE Live' = Live
  BY <1>1, <1>3, OneEnds DEF NodeInv
<1>5. UNCHANGED <<row, agent, sweep, ctlUp, wasOnline, sweepFailed, nodeFaults>>
  BY DEF FinishHeartbeat
<1>6. row.online /\ row.age <= WriteDelay + c.at
  BY <1>1 DEF NodeInv, CallInv
<1>7. NodeTypeOK'
  <2>1. lastEvent' \in {"none", "online", "offline"} /\ misses' \in 0..3 /\ steady' \in BOOLEAN
    BY <1>1, <1>3, NodeTypes DEF NodeInv
  <2>. QED
    BY <1>1, <1>5, <2>1, NodeTypes DEF NodeInv, NodeTypeOK, Calls, CallStages
<1>8. LiveInv' /\ SlowInv'
  BY <1>4, <1>5 DEF NodeInv, LiveInv, SlowInv
<1>9. CallInv'
  BY <1>1, <1>5 DEF NodeInv, CallInv
<1>10. SweepInv' /\ FreshInv' /\ DeathInv'
  BY <1>5, <1>6 DEF NodeInv, SweepInv, FreshInv, DeathInv
<1>11. MissInv'
  <2>1. CASE c.live
    <3>1. /\ agent.up /\ agent.timer + c.sent = HeartbeatInterval /\ c.at <= c.sent
      BY <1>1, <1>4, <2>1 DEF NodeInv, LiveInv
    <3>2. misses' = 0 /\ Live' = {}
      BY <1>1, <1>4, <2>1
    <3>3. agent.timer \in Nat /\ row.age \in Nat
      BY NodeTypes, Durations DEF NodeInv
    <3>4. row.age + agent.timer <= WriteDelay + HeartbeatInterval
      BY <1>3, <1>6, <3>1, <3>3, Durations
    <3>. QED
      BY <1>5, <3>1, <3>2, <3>4 DEF MissInv, Missed
  <2>2. CASE ~c.live
    <3>1. Live' = Live /\ misses' = misses /\ (steady' <=> steady)
      BY <1>1, <1>4, <2>2
    <3>. QED
      BY <1>5, <3>1 DEF NodeInv, MissInv, Missed
  <2>. QED
    BY <1>3, <2>1, <2>2
<1>. QED
  BY <1>7, <1>8, <1>9, <1>10, <1>11 DEF NodeInv

LEMMA CancelLateHeartbeatKeeps == NodeInv /\ CancelLateHeartbeat => NodeInv'
<1>. SUFFICES ASSUME NodeInv, CancelLateHeartbeat PROVE NodeInv'
  OBVIOUS
<1>1. PICK c \in calls : ~c.live /\ calls' = calls \ {c}
  BY DEF CancelLateHeartbeat
<1>2. UNCHANGED <<row, agent, sweep, ctlUp, lastEvent, misses, steady, wasOnline, sweepFailed, nodeFaults>>
  BY DEF CancelLateHeartbeat
<1>3. Live' = Live
  BY <1>1 DEF Live
<1>4. NodeTypeOK'
  BY <1>1, <1>2 DEF NodeInv, NodeTypeOK
<1>5. LiveInv' /\ SlowInv' /\ CallInv' /\ SweepInv' /\ FreshInv' /\ DeathInv' /\ MissInv'
  BY <1>1, <1>2, <1>3 DEF NodeInv, LiveInv, SlowInv, CallInv, SweepInv, FreshInv, DeathInv, MissInv, Missed
<1>. QED
  BY <1>4, <1>5 DEF NodeInv

-----------------------------------------------------------------------------
(* The sweep *)

LEMMA SweepFields ==
  ASSUME NodeInv
  PROVE  /\ sweep.stage \in {"idle", "before", "marked", "report"} /\ sweep.before \in BOOLEAN
         /\ sweep.timer \in Nat /\ sweep.timer <= SweepInterval
         /\ sweep.busy \in Nat /\ sweep.busy <= WriteDelay + 1
         /\ row.online \in BOOLEAN /\ row.seen \in BOOLEAN /\ row.age \in Nat /\ row.age <= AgeCap
         /\ agent.up \in BOOLEAN /\ agent.timer \in Nat /\ agent.timer <= HeartbeatInterval
  BY NodeTypes, Durations DEF NodeInv

\* The round that ends leaves the timer as it is.
LEMMA RoundEnds ==
  ASSUME NodeInv
  PROVE  LET w == [SweepIdle EXCEPT !.timer = sweep.timer]
         IN  /\ w \in [stage : {"idle", "before", "marked", "report"}, timer : 0..SweepInterval,
                       busy : 0..WriteDelay + 1, before : BOOLEAN]
             /\ w.stage = "idle" /\ w.timer = sweep.timer
<1> DEFINE Rounds == [stage : {"idle", "before", "marked", "report"}, timer : 0..SweepInterval,
                      busy : 0..WriteDelay + 1, before : BOOLEAN]
<1>1. sweep.timer \in 0..SweepInterval
  BY SweepFields, Durations
<1>2. SweepIdle \in Rounds /\ SweepIdle.stage = "idle"
  BY Durations DEF SweepIdle
<1>. QED
  BY <1>1, <1>2

\* The calls do not depend on the sweep, nor on what was reported.
LEMMA CallsStay ==
  ASSUME NodeInv, UNCHANGED <<row, agent, calls, ctlUp, misses, steady, nodeFaults>>
  PROVE  LiveInv' /\ CallInv' /\ SlowInv' /\ MissInv'
<1>1. Live' = Live /\ Missed' = Missed
  BY DEF Live, Missed
<1>. QED
  BY <1>1 DEF NodeInv, LiveInv, CallInv, SlowInv, MissInv

LEMMA SweepReadsBeforeKeeps == NodeInv /\ SweepReadsBefore => NodeInv'
<1>. SUFFICES ASSUME NodeInv, SweepReadsBefore PROVE NodeInv'
  OBVIOUS
<1>1. UNCHANGED <<row, agent, calls, ctlUp, lastEvent, misses, steady, wasOnline, sweepFailed, nodeFaults>>
  BY DEF SweepReadsBefore
<1>2. ctlUp /\ sweep.stage = "idle" /\ sweep.timer = 0
  BY DEF SweepReadsBefore
<1>3. /\ sweep'.stage = "before" /\ sweep'.busy = 0 /\ sweep'.before = row.online
      /\ sweep' \in [stage : {"idle", "before", "marked", "report"}, timer : 0..SweepInterval,
                     busy : 0..WriteDelay + 1, before : BOOLEAN]
  BY SweepFields, Durations DEF SweepReadsBefore
<1>4. NodeTypeOK'
  BY <1>1, <1>3 DEF NodeInv, NodeTypeOK
<1>5. SweepInv' /\ FreshInv' /\ DeathInv'
  BY <1>1, <1>2, <1>3, SweepFields, Durations DEF NodeInv, SweepInv, FreshInv, DeathInv
<1>. QED
  BY <1>1, <1>4, <1>5, CallsStay DEF NodeInv

\* What is marked is older than OfflineAfter: not what was just recorded.
LEMMA Marking ==
  ASSUME NodeInv
  PROVE  LET r == MarkOfflineNodesBefore(row)
         IN  /\ r \in [online : BOOLEAN, seen : BOOLEAN, age : 0..AgeCap]
             /\ r.seen = row.seen /\ r.age = row.age
             /\ r.online <=> row.online /\ row.seen /\ row.age <= OfflineAfter
<1>1. row \in [online : BOOLEAN, seen : BOOLEAN, age : 0..AgeCap]
  BY NodeTypes DEF NodeInv
<1> DEFINE b == row.online /\ row.seen /\ ~(row.age > OfflineAfter)
<1>2. b \in BOOLEAN
  BY SweepFields
<1>3. b <=> row.online /\ row.seen /\ row.age <= OfflineAfter
  BY SweepFields, Durations
<1>4. MarkOfflineNodesBefore(row) = [row EXCEPT !.online = b]
  BY DEF MarkOfflineNodesBefore
<1>. HIDE DEF b
<1>. QED
  BY <1>1, <1>2, <1>3, <1>4

LEMMA RecordedIsFresh ==
  ASSUME NodeInv, NEW c \in calls, c.stage = "recorded"
  PROVE  row.online /\ row.age <= OfflineAfter
<1>1. c.at \in Nat /\ c.at <= WriteDelay
  BY CallFields, NodeTypes DEF NodeInv
<1>. QED
  BY <1>1, SweepFields, Durations DEF NodeInv, CallInv

LEMMA SteadyIsFresh ==
  ASSUME NodeInv, steady, misses < 2
  PROVE  row.age <= OfflineAfter
<1>1. Missed \in Nat /\ Missed <= 2 * HeartbeatInterval
  BY Durations DEF Missed
<1>2. CASE Live = {}
  <2>1. row.age + agent.timer <= WriteDelay + Missed
    BY <1>2 DEF NodeInv, MissInv
  <2>. QED
    BY <1>1, <2>1, SweepFields, Durations
<1>3. CASE Live # {}
  <2>1. PICK c \in Live : TRUE
    BY <1>3
  <2>2. c.sent \in Nat /\ c.sent <= HeartbeatTimeout
    BY CallFields, NodeTypes DEF NodeInv, Live
  <2>3. row.age <= WriteDelay + Missed + c.sent
    BY DEF NodeInv, MissInv
  <2>. QED
    BY <1>1, <2>2, <2>3, SweepFields, Durations
<1>. QED
  BY <1>2, <1>3

\* What marking the row keeps.
LEMMA MarkingKeeps ==
  ASSUME NodeInv, row' = MarkOfflineNodesBefore(row),
         UNCHANGED <<agent, calls, misses, steady, nodeFaults>>, ctlUp => ctlUp'
  PROVE  LiveInv' /\ CallInv' /\ SlowInv' /\ MissInv' /\ (row'.online => row'.seen)
<1>1. Live' = Live /\ Missed' = Missed
  BY DEF Live, Missed
<1>2. row'.age = row.age /\ row'.seen = row.seen
  BY Marking
<1>3. row'.online <=> row.online /\ row.seen /\ row.age <= OfflineAfter
  BY Marking
<1>4. LiveInv' /\ SlowInv' /\ MissInv'
  BY <1>1, <1>2 DEF NodeInv, LiveInv, SlowInv, MissInv
<1>5. CallInv'
  <2>1. \A c \in calls : c.stage = "recorded" => row'.online
    BY <1>3, RecordedIsFresh DEF NodeInv, SweepInv
  <2>. QED
    BY <1>2, <2>1 DEF NodeInv, CallInv
<1>. QED
  BY <1>2, <1>3, <1>4, <1>5

LEMMA SweepMarksKeeps == NodeInv /\ SweepMarks => NodeInv'
<1>. SUFFICES ASSUME NodeInv, SweepMarks PROVE NodeInv'
  OBVIOUS
<1>1. /\ UNCHANGED <<agent, calls, ctlUp, lastEvent, misses, steady, wasOnline, sweepFailed, nodeFaults>>
      /\ sweep.stage = "before" /\ row' = MarkOfflineNodesBefore(row)
  BY DEF SweepMarks
<1>2. /\ sweep'.stage = "marked" /\ sweep'.timer = sweep.timer /\ sweep'.before = sweep.before
      /\ sweep' \in [stage : {"idle", "before", "marked", "report"}, timer : 0..SweepInterval,
                     busy : 0..WriteDelay + 1, before : BOOLEAN]
  BY NodeTypes DEF NodeInv, SweepMarks
<1>3. /\ row' \in [online : BOOLEAN, seen : BOOLEAN, age : 0..AgeCap]
      /\ row'.age = row.age
      /\ row'.online <=> row.online /\ row.seen /\ row.age <= OfflineAfter
  BY <1>1, Marking
<1>4. NodeTypeOK'
  BY <1>1, <1>2, <1>3 DEF NodeInv, NodeTypeOK
<1>5. FreshInv'
  BY <1>2, <1>3, SweepFields, Durations DEF FreshInv
<1>6. SweepInv'
  BY <1>1, <1>2, MarkingKeeps DEF NodeInv, SweepInv
<1>7. DeathInv'
  <2>1. row.online /\ ~sweep.before => row.age <= OfflineAfter
    BY <1>1, SweepFields, Durations DEF NodeInv, SweepInv
  <2>2. row.online => row.seen
    BY DEF NodeInv, SweepInv
  <2>. QED
    BY <1>1, <1>2, <1>3, <2>1, <2>2 DEF NodeInv, DeathInv
<1>. QED
  BY <1>1, <1>4, <1>5, <1>6, <1>7, MarkingKeeps DEF NodeInv

LEMMA SweepReadsAfterKeeps == NodeInv /\ SweepReadsAfter => NodeInv'
<1>. SUFFICES ASSUME NodeInv, SweepReadsAfter PROVE NodeInv'
  OBVIOUS
<1>1. UNCHANGED <<row, agent, calls, ctlUp, lastEvent, misses, steady, wasOnline, sweepFailed, nodeFaults>>
  BY DEF SweepReadsAfter
<1>2. sweep.stage = "marked"
  BY DEF SweepReadsAfter
<1>3. /\ sweep'.stage = IF sweep.before /\ ~row.online THEN "report" ELSE "idle"
      /\ sweep'.timer = sweep.timer
      /\ sweep' \in [stage : {"idle", "before", "marked", "report"}, timer : 0..SweepInterval,
                     busy : 0..WriteDelay + 1, before : BOOLEAN]
  <2>1. CASE sweep.before /\ ~row.online
    BY <2>1, NodeTypes DEF NodeInv, SweepReadsAfter
  <2>2. CASE ~(sweep.before /\ ~row.online)
    BY <2>2, RoundEnds DEF SweepReadsAfter
  <2>. QED
    BY <2>1, <2>2
<1>4. NodeTypeOK'
  BY <1>1, <1>3 DEF NodeInv, NodeTypeOK
<1>5. SweepInv' /\ FreshInv' /\ DeathInv'
  BY <1>1, <1>2, <1>3 DEF NodeInv, SweepInv, FreshInv, DeathInv
<1>. QED
  BY <1>1, <1>4, <1>5, CallsStay DEF NodeInv

LEMMA SweepReportsKeeps == NodeInv /\ SweepReports => NodeInv'
<1>. SUFFICES ASSUME NodeInv, SweepReports PROVE NodeInv'
  OBVIOUS
<1>1. /\ UNCHANGED <<row, agent, calls, ctlUp, misses, steady, wasOnline, sweepFailed, nodeFaults>>
      /\ sweep.stage = "report" /\ lastEvent' = "offline" /\ sweep' = [SweepIdle EXCEPT !.timer = sweep.timer]
  BY DEF SweepReports
<1>2. NodeTypeOK'
  BY <1>1, RoundEnds DEF NodeInv, NodeTypeOK
<1>3. SweepInv' /\ FreshInv' /\ DeathInv'
  BY <1>1, RoundEnds DEF NodeInv, SweepInv, FreshInv, DeathInv
<1>. QED
  BY <1>1, <1>2, <1>3, CallsStay DEF NodeInv

\* The round that fails does not report any more: hence the exception.
LEMMA SweepFailsKeeps == NodeInv /\ SweepFails => NodeInv'
<1>. SUFFICES ASSUME NodeInv, SweepFails PROVE NodeInv'
  OBVIOUS
<1>1. /\ UNCHANGED <<row, agent, calls, ctlUp, lastEvent, misses, steady, wasOnline>>
      /\ sweepFailed' = TRUE /\ sweep' = [SweepIdle EXCEPT !.timer = sweep.timer]
      /\ nodeFaults < MaxNodeFaults /\ nodeFaults' = nodeFaults + 1
  BY DEF SweepFails
<1>2. nodeFaults' \in 0..MaxNodeFaults + 1 /\ nodeFaults' <= MaxNodeFaults
  BY <1>1, NodeTypes, Durations DEF NodeInv
<1>3. NodeTypeOK'
  BY <1>1, <1>2, RoundEnds DEF NodeInv, NodeTypeOK
<1>4. SweepInv' /\ FreshInv' /\ DeathInv'
  BY <1>1, RoundEnds DEF NodeInv, SweepInv, FreshInv, DeathInv
<1>5. Live' = Live /\ Missed' = Missed
  BY <1>1 DEF Live, Missed
<1>6. LiveInv' /\ CallInv' /\ SlowInv' /\ MissInv'
  BY <1>1, <1>2, <1>5 DEF NodeInv, LiveInv, CallInv, SlowInv, MissInv
<1>. QED
  BY <1>3, <1>4, <1>6 DEF NodeInv

-----------------------------------------------------------------------------
(* The controller's process, and time *)

LEMMA StopControllerKeeps == NodeInv /\ StopController => NodeInv'
<1>. SUFFICES ASSUME NodeInv, StopController PROVE NodeInv'
  OBVIOUS
<1>1. /\ UNCHANGED <<row, agent, lastEvent, misses, steady, wasOnline, sweepFailed>>
      /\ ctlUp' = FALSE /\ sweep' = SweepIdle
      /\ nodeFaults < MaxNodeFaults /\ nodeFaults' = nodeFaults + 1
      /\ calls' = {[c EXCEPT !.stage = "lost"] : c \in Live}
  BY DEF StopController
<1>2. ASSUME NEW d \in calls'
      PROVE  /\ d \in Calls /\ d.stage = "lost" /\ d.live
             /\ \E c \in Live : d = [c EXCEPT !.stage = "lost"] /\ d.sent = c.sent
  <2>1. PICK c \in Live : d = [c EXCEPT !.stage = "lost"]
    BY <1>1, <1>2
  <2>2. c \in Calls /\ c.live
    BY NodeTypes DEF NodeInv, Live
  <2>3. d \in Calls /\ d.stage = "lost" /\ d.sent = c.sent /\ d.live = c.live
    BY <2>1, <2>2, MovesOn DEF CallStages
  <2>. QED
    BY <2>1, <2>2, <2>3
<1>3. nodeFaults' \in 0..MaxNodeFaults + 1 /\ nodeFaults' <= MaxNodeFaults
  BY <1>1, NodeTypes, Durations DEF NodeInv
<1>4. NodeTypeOK'
  <2>1. SweepIdle \in [stage : {"idle", "before", "marked", "report"}, timer : 0..SweepInterval,
                      busy : 0..WriteDelay + 1, before : BOOLEAN]
    BY Durations DEF SweepIdle
  <2>. QED
    BY <1>1, <1>2, <1>3, <2>1, NodeTypes DEF NodeInv, NodeTypeOK, Calls, CallStages
<1>5. LiveInv'
  <2>1. \A d \in Live' : d \in calls'
    BY DEF Live
  <2>2. \A c, d \in Live' : c = d
    BY <1>2, <2>1 DEF NodeInv, LiveInv
  <2>3. \A d \in Live' : agent.up /\ agent.timer + d.sent = HeartbeatInterval /\ d.stage = "lost"
    BY <1>2, <2>1 DEF NodeInv, LiveInv
  <2>. QED
    BY <1>1, <2>2, <2>3 DEF LiveInv
<1>6. CallInv' /\ SlowInv'
  BY <1>2, <1>3 DEF CallInv, SlowInv
<1>7. SweepInv' /\ FreshInv' /\ DeathInv'
  BY <1>1 DEF NodeInv, SweepInv, FreshInv, DeathInv, SweepIdle
<1>8. MissInv'
  <2>1. Live' = {} => Live = {}
    <3>1. SUFFICES ASSUME NEW c \in Live PROVE Live' # {}
      OBVIOUS
    <3>2. [c EXCEPT !.stage = "lost"] \in calls'
      BY <1>1
    <3>. QED
      BY <1>2, <3>2 DEF Live
  <2>2. \A d \in Live' : \E c \in Live : d.sent = c.sent
    BY <1>2 DEF Live
  <2>3. Missed' = Missed
    BY <1>1 DEF Missed
  <2>. QED
    BY <1>1, <2>1, <2>2, <2>3 DEF NodeInv, MissInv
<1>. QED
  BY <1>4, <1>5, <1>6, <1>7, <1>8 DEF NodeInv

LEMMA StartControllerKeeps == NodeInv /\ StartController => NodeInv'
<1>. SUFFICES ASSUME NodeInv, StartController PROVE NodeInv'
  OBVIOUS
<1>1. /\ UNCHANGED <<agent, calls, sweep, misses, steady, sweepFailed, nodeFaults>>
      /\ ~ctlUp /\ ctlUp' = TRUE /\ row' = MarkOfflineNodesBefore(row)
      /\ wasOnline' = row'.online /\ lastEvent' = "none"
  BY DEF StartController
<1>2. /\ row' \in [online : BOOLEAN, seen : BOOLEAN, age : 0..AgeCap]
      /\ row'.age = row.age
      /\ row'.online <=> row.online /\ row.seen /\ row.age <= OfflineAfter
  BY <1>1, Marking
<1>3. NodeTypeOK'
  BY <1>1, <1>2 DEF NodeInv, NodeTypeOK
<1>4. LiveInv' /\ CallInv' /\ SlowInv' /\ MissInv' /\ (row'.online => row'.seen)
  BY <1>1, MarkingKeeps
<1>5. sweep.stage = "idle"
  BY <1>1 DEF NodeInv, SweepInv
<1>6. SweepInv' /\ DeathInv'
  BY <1>1, <1>4, <1>5 DEF SweepInv, DeathInv
<1>7. FreshInv'
  BY <1>1, <1>2, <1>5, SweepFields, Durations DEF FreshInv
<1>. QED
  BY <1>3, <1>4, <1>6, <1>7 DEF NodeInv

LEMMA TimePassesKeeps == NodeInv /\ TimePasses => NodeInv'
<1>. SUFFICES ASSUME NodeInv, TimePasses PROVE NodeInv'
  OBVIOUS
<1>1. /\ UNCHANGED <<ctlUp, lastEvent, misses, steady, wasOnline, sweepFailed, nodeFaults>>
      /\ ctlUp => sweep.timer > 0 /\ sweep.busy <= WriteDelay
      /\ agent.up => agent.timer > 0
      /\ \A c \in calls : /\ c.live => c.sent < HeartbeatTimeout - Hurry(c)
                          /\ c.stage \in {"read", "recorded"} => c.at < WriteDelay
  BY DEF TimePasses
<1>2. row' = [row EXCEPT !.age = Older(@)] /\ agent' = [agent EXCEPT !.timer = IF agent.up THEN @ - 1 ELSE 0]
  BY DEF TimePasses
<1>3. calls' = {Ticked(c) : c \in calls}
  BY DEF TimePasses, Ticked
<1>4. sweep' = [sweep EXCEPT !.timer = IF ctlUp THEN @ - 1 ELSE @,
                             !.busy = IF sweep.stage = "idle" THEN 0 ELSE @ + 1]
  BY DEF TimePasses
<1>5. ~ctlUp => sweep.stage = "idle"
  BY DEF NodeInv, SweepInv
<1>6. /\ row' \in [online : BOOLEAN, seen : BOOLEAN, age : 0..AgeCap]
      /\ row'.online = row.online /\ row'.seen = row.seen
      /\ row'.age \in Nat /\ row'.age <= row.age + 1
  <2>1. Older(row.age) \in 0..AgeCap /\ Older(row.age) <= row.age + 1
    BY SweepFields, Durations DEF Older
  <2>. QED
    BY <1>2, <2>1, NodeTypes, Durations DEF NodeInv
<1>7. /\ agent' \in [up : BOOLEAN, timer : 0..HeartbeatInterval]
      /\ agent'.up = agent.up /\ agent'.timer = IF agent.up THEN agent.timer - 1 ELSE 0
  <2>1. (IF agent.up THEN agent.timer - 1 ELSE 0) \in 0..HeartbeatInterval
    BY <1>1, SweepFields, Durations
  <2>. QED
    BY <1>2, <2>1, NodeTypes DEF NodeInv
<1>8. /\ sweep' \in [stage : {"idle", "before", "marked", "report"}, timer : 0..SweepInterval,
                     busy : 0..WriteDelay + 1, before : BOOLEAN]
      /\ sweep'.stage = sweep.stage /\ sweep'.before = sweep.before
      /\ sweep'.timer = IF ctlUp THEN sweep.timer - 1 ELSE sweep.timer
      /\ sweep'.busy = IF sweep.stage = "idle" THEN 0 ELSE sweep.busy + 1
  <2>1. (IF ctlUp THEN sweep.timer - 1 ELSE sweep.timer) \in 0..SweepInterval
    BY <1>1, SweepFields, Durations
  <2>2. (IF sweep.stage = "idle" THEN 0 ELSE sweep.busy + 1) \in 0..WriteDelay + 1
    BY <1>1, <1>5, SweepFields, Durations
  <2>. QED
    BY <1>4, <2>1, <2>2, NodeTypes DEF NodeInv
<1>9. ASSUME NEW c \in calls
      PROVE  /\ c \in Calls /\ Ticked(c) \in Calls
             /\ Ticked(c).stage = c.stage /\ Ticked(c).live = c.live
             /\ c.live => Ticked(c).sent = c.sent + 1
             /\ Ticked(c).at = IF c.stage \in {"read", "recorded"} THEN c.at + 1 ELSE c.at
  <2>1. c \in Calls
    BY NodeTypes DEF NodeInv
  <2>. QED
    BY <1>1, <2>1, TickShape
<1>10. NodeTypeOK'
  BY <1>1, <1>3, <1>6, <1>7, <1>8, <1>9, NodeTypes DEF NodeInv, NodeTypeOK, Calls, CallStages
<1>11. \A d \in Live' : \E c \in Live : d = Ticked(c)
  BY <1>3, <1>9 DEF Live
<1>12. Live = {} <=> Live' = {}
  BY <1>3, <1>9 DEF Live
<1>13. ASSUME NEW d \in Live'
       PROVE  \E c \in Live : /\ d = Ticked(c) /\ c \in calls /\ c \in Calls /\ d.sent = c.sent + 1 /\ d.stage = c.stage
                              /\ d.at = IF c.stage \in {"read", "recorded"} THEN c.at + 1 ELSE c.at
  BY <1>9, <1>11 DEF Live
<1>14. LiveInv'
  <2>1. \A c, d \in Live' : c = d
    BY <1>11 DEF NodeInv, LiveInv
  <2>2. ASSUME NEW d \in Live'
        PROVE  /\ agent'.up /\ agent'.timer + d.sent = HeartbeatInterval
               /\ d.stage \in {"read", "recorded"} => d.at <= d.sent
    <3>1. PICK c \in Live : /\ c \in Calls /\ d.sent = c.sent + 1 /\ d.stage = c.stage
                            /\ d.at = IF c.stage \in {"read", "recorded"} THEN c.at + 1 ELSE c.at
      BY <1>13, <2>2
    <3>2. /\ agent.up /\ agent.timer + c.sent = HeartbeatInterval
          /\ c.stage \in {"read", "recorded"} => c.at <= c.sent
      BY DEF NodeInv, LiveInv
    <3>3. c.sent \in Nat /\ c.at \in Nat
      BY <3>1, CallFields
    <3>. QED
      BY <1>7, <3>1, <3>2, <3>3, SweepFields, Durations
  <2>. QED
    BY <2>1, <2>2 DEF LiveInv
<1>15. CallInv'
  <2>1. SUFFICES ASSUME NEW d \in calls'
                 PROVE  /\ ~ctlUp => d.stage = "lost"
                        /\ d.stage = "recorded" => row'.online /\ row'.age <= WriteDelay + d.at
    BY <1>1 DEF CallInv
  <2>2. PICK c \in calls : d = Ticked(c)
    BY <1>3
  <2>3. c.at \in Nat
    BY <1>9, CallFields
  <2>4. /\ ~ctlUp => c.stage = "lost"
        /\ c.stage = "recorded" => row.online /\ row.age <= WriteDelay + c.at
    BY DEF NodeInv, CallInv
  <2>5. d.stage = c.stage /\ d.at = IF c.stage \in {"read", "recorded"} THEN c.at + 1 ELSE c.at
    BY <1>9, <2>2
  <2>. QED
    BY <1>6, <2>3, <2>4, <2>5, SweepFields, Durations
<1>16. SlowInv'
  <2>1. CASE nodeFaults <= MaxNodeFaults
    BY <1>1, <2>1 DEF SlowInv
  <2>2. CASE ~(nodeFaults <= MaxNodeFaults)
    <3>1. SUFFICES ASSUME NEW d \in Live', d.stage # "lost" PROVE d.sent < HeartbeatTimeout
      BY DEF SlowInv
    <3>2. PICK c \in Live : c \in calls /\ c \in Calls /\ d.sent = c.sent + 1 /\ d.stage = c.stage
      BY <1>13
    <3>3. nodeFaults >= MaxNodeFaults
      BY <2>2, NodeTypes, Durations DEF NodeInv
    <3>4. Hurry(c) = 1
      BY <3>1, <3>2, <3>3 DEF Hurry
    <3>5. c.sent < HeartbeatTimeout - 1
      BY <1>1, <3>2, <3>4 DEF Live
    <3>6. c.sent \in Nat
      BY <3>2, CallFields
    <3>. QED
      BY <3>2, <3>5, <3>6, Durations
  <2>. QED
    BY <2>1, <2>2
<1>17. SweepInv'
  BY <1>1, <1>5, <1>6, <1>8, SweepFields, Durations DEF NodeInv, SweepInv
<1>18. FreshInv'
  BY <1>1, <1>6, <1>8, SweepFields, Durations DEF NodeInv, FreshInv
<1>19. DeathInv'
  BY <1>1, <1>6, <1>8 DEF NodeInv, DeathInv
<1>20. MissInv'
  <2>1. Missed' = Missed /\ Missed \in Nat
    BY <1>1, Durations DEF Missed
  <2>2. steady => agent.up
    BY DEF NodeInv, MissInv
  <2>3. ASSUME steady, misses < 2, Live' = {}
        PROVE  row'.age + agent'.timer <= WriteDelay + Missed
    <3>1. row.age + agent.timer <= WriteDelay + Missed /\ agent.up
      BY <1>12, <2>2, <2>3 DEF NodeInv, MissInv
    <3>. QED
      BY <1>1, <1>6, <1>7, <2>1, <3>1, SweepFields, Durations
  <2>4. ASSUME steady, misses < 2, NEW d \in Live'
        PROVE  row'.age <= WriteDelay + Missed + d.sent
    <3>1. PICK c \in Live : c \in Calls /\ d.sent = c.sent + 1
      BY <1>13
    <3>2. row.age <= WriteDelay + Missed + c.sent
      BY <2>4 DEF NodeInv, MissInv
    <3>3. c.sent \in Nat
      BY <3>1, CallFields
    <3>. QED
      BY <1>6, <2>1, <3>1, <3>2, <3>3, SweepFields, Durations
  <2>. QED
    BY <1>1, <1>7, <2>1, <2>2, <2>3, <2>4 DEF MissInv
<1>. QED
  BY <1>10, <1>14, <1>15, <1>16, <1>17, <1>18, <1>19, <1>20 DEF NodeInv

-----------------------------------------------------------------------------
(* The theorem *)

LEMMA NodeStays == NodeInv /\ UNCHANGED nodeVars => NodeInv'
<1>. SUFFICES ASSUME NodeInv, UNCHANGED nodeVars PROVE NodeInv'
  OBVIOUS
<1>1. LiveInv' /\ CallInv' /\ SlowInv' /\ MissInv'
  BY CallsStay DEF nodeVars
<1>2. NodeTypeOK' /\ SweepInv' /\ FreshInv' /\ DeathInv'
  BY DEF nodeVars, NodeInv, NodeTypeOK, SweepInv, FreshInv, DeathInv
<1>. QED
  BY <1>1, <1>2 DEF NodeInv

LEMMA NodeStep == NodeInv /\ [NodeNext]_nodeVars => NodeInv'
  BY StartAgentKeeps, StopAgentKeeps, SendHeartbeatKeeps, HeartbeatTimesOutKeeps,
     ReadPreviousSnapshotKeeps, RecordHeartbeatKeeps, FinishHeartbeatKeeps, CancelLateHeartbeatKeeps,
     SweepReadsBeforeKeeps, SweepMarksKeeps, SweepReadsAfterKeeps, SweepReportsKeeps, SweepFailsKeeps,
     StopControllerKeeps, StartControllerKeeps, TimePassesKeeps, NodeStays DEF NodeNext

LEMMA NodeInvIsRight == NodeInv => NodeStatusIsRight
<1>. SUFFICES ASSUME NodeInv PROVE NodeStatusIsRight
  OBVIOUS
<1>1. AvailableNodeIsFresh
  BY SweepFields, Durations DEF NodeInv, FreshInv, AvailableNodeIsFresh, TargetNodeAvailable
<1>2. DeathIsReported
  BY DEF NodeInv, DeathInv, DeathIsReported
<1>. QED
  BY <1>1, <1>2 DEF NodeInv, NodeStatusIsRight

\* The row goes offline only where it is marked.
LEMMA MarkedWhenOld ==
  ASSUME NodeInv, [NodeNext]_nodeVars, row.online, ~row'.online
  PROVE  row' = MarkOfflineNodesBefore(row)
<1>1. ~UNCHANGED row
  OBVIOUS
<1>2. ~RecordHeartbeat
  BY DEF RecordHeartbeat, HeartbeatRow
<1>3. ~TimePasses
  <2>1. row \in [online : BOOLEAN, seen : BOOLEAN, age : 0..AgeCap]
    BY NodeTypes DEF NodeInv
  <2>2. row' = [row EXCEPT !.age = Older(@)] => row'.online = row.online
    BY <2>1
  <2>. QED
    BY <2>2 DEF TimePasses
<1>. QED
  BY <1>1, <1>2, <1>3 DEF NodeNext, nodeVars, StartAgent, StopAgent, SendHeartbeat, HeartbeatTimesOut,
    ReadPreviousSnapshot, FinishHeartbeat, CancelLateHeartbeat, SweepReadsBefore, SweepMarks,
    SweepReadsAfter, SweepReports, SweepFails, StopController, StartController

LEMMA MissesFirst ==
  NodeInv /\ [NodeNext]_nodeVars => (row.online /\ ~row'.online /\ steady => misses >= 2)
<1>. SUFFICES ASSUME NodeInv, [NodeNext]_nodeVars, row.online, ~row'.online, steady, ~(misses >= 2)
              PROVE  FALSE
  OBVIOUS
<1>1. misses < 2
  BY NodeTypes DEF NodeInv
<1>2. row.age <= OfflineAfter
  BY <1>1, SteadyIsFresh
<1>3. row.seen
  BY DEF NodeInv, SweepInv
<1>. QED
  BY <1>2, <1>3, MarkedWhenOld, Marking

\* A node's row and what was reported of it are right in every state, and a running
\* agent's node goes offline only after two missed heartbeats (agent_report.go,
\* runtime.go): the safety half of NodeStatusFollows, for any intervals that satisfy
\* NodeAssumption and MissesAssumption.
THEOREM NodeStatusSound == NodeSpec => []NodeStatusIsRight /\ MarkedAfterTwoMisses
<1>1. NodeInv /\ [NodeNext]_nodeVars
      => [row.online /\ ~row'.online /\ steady => misses >= 2]_nodeVars
  BY MissesFirst
<1>. QED
  BY <1>1, NodeInitOK, NodeStep, NodeInvIsRight, PTL DEF NodeSpec, MarkedAfterTwoMisses
=============================================================================
