----------------------------- MODULE Scheduler ------------------------------
(***************************************************************************)
(* The controller's scheduler.  Every 15 seconds, under repoMu, a pass looks *)
(* for image checks, backups and rustic maintenance that are due in the      *)
(* minute in which the pass began, and creates the tasks that do not exist   *)
(* yet for that minute.  Nothing else remembers what was scheduled: a        *)
(* restart repeats the pass, and a minute without a pass is lost.            *)
(*                                                                         *)
(* One service on TargetNodes with images and one data item, and the rustic  *)
(* service on RusticNodes.  A schedule is "", "none", "every" (minute) or    *)
(* "odd" (minutes); a time within a minute is not modelled, so a pass may    *)
(* begin in any minute and end in a later one.  userBusy stands for tasks    *)
(* of the service instance that the scheduler did not create.                *)
(***************************************************************************)
EXTENDS Naturals, Sequences, FiniteSets

CONSTANTS TargetNodes,     \* nodes of the service
          RusticNodes,     \* nodes of the rustic service that may do maintenance
          Images,          \* images of the service
          Schedules,       \* the configurations of schedules that occur
          MaxMinutes, MaxPasses,   \* minutes, and passes begun in each
          MaxDisturbances  \* changes of nodes, user tasks and forges

ASSUME SchedAssumption == IsFiniteSet(TargetNodes)

VARIABLES schedules,    \* defaults, service, image and item schedules
          minute,       \* the current minute
          passes,       \* passes begun in this minute
          pass,         \* the pass that holds repoMu
          scheduled,    \* tasks with source "schedule", in order of creation
          nodeOnline, userBusy,
          forge,        \* release tags the forges report; "down" if they fail
          disturbances,
          undisturbed   \* history: nodes online and free of users' tasks, and of an
                        \* earlier minute's, all this minute

schedVars == <<schedules, minute, passes, pass, scheduled, nodeOnline, userBusy, forge,
               disturbances, undisturbed>>
NoPass == [at |-> "idle"]
NodesOfAll == TargetNodes \cup RusticNodes

-----------------------------------------------------------------------------
(* Effective schedules                                                      *)

\* "none" at a level disables, an empty one defers to the next level.
FirstSet(a, b) == IF a = "" THEN b ELSE a
EnabledSpec(spec) == IF spec = "none" THEN "" ELSE spec
effectiveImageCheckSchedule(i) ==
  EnabledSpec(FirstSet(schedules.image[i], FirstSet(schedules.service, schedules.checkDefault)))
effectiveBackupSchedule == EnabledSpec(FirstSet(schedules.item, schedules.backupDefault))

\* The next time after a minute before the window is the window.
DueNow(spec, window) == spec = "every" \/ (spec = "odd" /\ window % 2 = 1)

dueServiceImageUpdateNames(window) ==
  {i \in Images : DueNow(effectiveImageCheckSchedule(i), window)}

-----------------------------------------------------------------------------
(* Tasks                                                                    *)

\* asked is history: the forges' answer that the pass looked for the task with.
ScheduledTask(type, node, window, params, asked) ==
  [type |-> type, node |-> node, window |-> window, params |-> params, asked |-> asked,
   active |-> TRUE]

\* Mutant: only tasks that have not ended are looked at.
MatchesActiveTask(type, node, window, params) ==
  \E k \in 1..Len(scheduled) :
    LET t == scheduled[k]
    IN  t.active /\ t.type = type /\ t.node = node /\ t.window = window /\ t.params = params

\* A scheduled task of this type, node and parameters was created in the window;
\* the tasks carry the window as their creation time.
HasMatchingTaskInWindow(type, node, window, params) ==
  \E k \in 1..Len(scheduled) :
    LET t == scheduled[k]
    IN  t.type = type /\ t.node = node /\ t.window = window /\ t.params = params

Rustic == {"rustic_forget", "rustic_prune"}
InstanceBusy(n) ==
  \/ userBusy[n]
  \/ \E k \in 1..Len(scheduled) :
       scheduled[k].node = n /\ scheduled[k].active /\ scheduled[k].type \notin Rustic

\* createServiceTasksWithOptions: all of the nodes or none.
Admissible(nodes) == \A n \in nodes : nodeOnline[n] /\ ~InstanceBusy(n)
CreateAll(new) ==
  \E order \in [1..Cardinality(new) -> new] :
    /\ \A t \in new : \E k \in DOMAIN order : order[k] = t
    /\ scheduled' = scheduled \o order

\* What a pass creates late disturbs the next minute.
Occupies(nodes) == undisturbed' = IF pass.window = minute THEN undisturbed ELSE undisturbed \ nodes

-----------------------------------------------------------------------------
SchedInit ==
  /\ schedules \in Schedules
  /\ minute = 0 /\ passes = 0 /\ pass = NoPass /\ scheduled = <<>>
  /\ nodeOnline = [n \in NodesOfAll |-> TRUE]
  /\ userBusy = [n \in TargetNodes |-> FALSE]
  /\ forge = "none" /\ disturbances = 0 /\ undisturbed = NodesOfAll

\* A tick of the timer, or the first pass of a controller that started.
StartPass ==
  /\ pass = NoPass /\ passes < MaxPasses
  /\ passes' = passes + 1
  /\ pass' = [at |-> "collect", window |-> minute, forge |-> "none", todo |-> {}]
  /\ UNCHANGED <<schedules, minute, scheduled, nodeOnline, userBusy, forge, disturbances,
                 undisturbed>>

ToBackups == pass' = [pass EXCEPT !.at = "backup",
                        !.todo = IF DueNow(effectiveBackupSchedule, pass.window)
                                   THEN TargetNodes ELSE {}]

\* The forges are asked while repoMu is held; an error ends the image checks.
collectForgeImageCandidates ==
  /\ pass.at = "collect"
  /\ IF dueServiceImageUpdateNames(pass.window) # {} /\ forge # "down"
       THEN pass' = [pass EXCEPT !.at = "check", !.forge = forge]
       ELSE ToBackups
  /\ UNCHANGED <<schedules, minute, passes, scheduled, nodeOnline, userBusy, forge,
                 disturbances, undisturbed>>

\* The nodes without a matching task get one, all of them or none.  Where no
\* candidate was found the admission asks the forges again and stores what it
\* finds, whatever the match was looked up with.
scheduleServiceImageChecks ==
  LET due == dueServiceImageUpdateNames(pass.window)
      missing == {n \in TargetNodes :
                    ~HasMatchingTaskInWindow("image_check", n, pass.window, <<due, pass.forge>>)}
      stored == IF pass.forge = "none" THEN forge ELSE pass.forge
  IN  /\ pass.at = "check" /\ ToBackups
      /\ \/ /\ Admissible(missing) /\ stored # "down"
            /\ CreateAll({ScheduledTask("image_check", n, pass.window, <<due, stored>>, pass.forge) :
                            n \in missing})
            /\ Occupies(missing)
         \/ ~(Admissible(missing) /\ stored # "down") /\ UNCHANGED <<scheduled, undisturbed>>
      /\ UNCHANGED <<schedules, minute, passes, nodeOnline, userBusy, forge, disturbances>>

\* Node by node, in any order (Go ranges over a map).  The node must also carry
\* the rustic service.
scheduleServiceBackups(n) ==
  /\ pass.at = "backup" /\ n \in pass.todo
  /\ pass' = [pass EXCEPT !.todo = @ \ {n}]
  /\ \/ /\ ~HasMatchingTaskInWindow("backup", n, pass.window, <<>>)
        /\ n \in RusticNodes /\ Admissible({n})
        /\ scheduled' = Append(scheduled, ScheduledTask("backup", n, pass.window, <<>>, "none"))
        /\ Occupies({n})
     \/ /\ \/ HasMatchingTaskInWindow("backup", n, pass.window, <<>>)
           \/ n \notin RusticNodes \/ ~Admissible({n})
        /\ UNCHANGED <<scheduled, undisturbed>>
  /\ UNCHANGED <<schedules, minute, passes, nodeOnline, userBusy, forge, disturbances>>

ServicesDone ==
  /\ pass.at = "backup" /\ pass.todo = {}
  /\ pass' = [pass EXCEPT !.at = "rustic_forget"]
  /\ UNCHANGED <<schedules, minute, passes, scheduled, nodeOnline, userBusy, forge,
                 disturbances, undisturbed>>

\* The first eligible node that is online; nodes are ordered.
chooseScheduledRusticMainNode(n) ==
  /\ n \in RusticNodes /\ nodeOnline[n]
  /\ \A m \in RusticNodes : nodeOnline[m] => n <= m

\* No node is available: the error ends the maintenance of this pass.
scheduleRusticMaintenance(type) ==
  LET spec == IF type = "rustic_forget" THEN schedules.forget ELSE schedules.prune
      due == DueNow(EnabledSpec(spec), pass.window)
      nobody == ~\E n \in RusticNodes : nodeOnline[n]
  IN  /\ type \in Rustic /\ pass.at = type
      /\ pass' = IF type = "rustic_forget" /\ ~(due /\ nobody)
                   THEN [pass EXCEPT !.at = "rustic_prune"] ELSE NoPass
      /\ \/ /\ due
            /\ \E n \in RusticNodes :
                 /\ chooseScheduledRusticMainNode(n)
                 /\ scheduled' =
                      IF HasMatchingTaskInWindow(type, n, pass.window, <<>>) THEN scheduled
                      ELSE Append(scheduled, ScheduledTask(type, n, pass.window, <<>>, "none"))
         \/ (~due \/ nobody) /\ UNCHANGED scheduled
      /\ UNCHANGED <<schedules, minute, passes, nodeOnline, userBusy, forge, disturbances,
                     undisturbed>>

-----------------------------------------------------------------------------
(* The environment                                                          *)

Disturb == disturbances < MaxDisturbances /\ disturbances' = disturbances + 1

NextMinute ==
  /\ minute < MaxMinutes /\ minute' = minute + 1 /\ passes' = 0
  /\ undisturbed' = {n \in NodesOfAll :
                       nodeOnline[n] /\ (n \in TargetNodes => ~InstanceBusy(n))}
  /\ UNCHANGED <<schedules, pass, scheduled, nodeOnline, userBusy, forge, disturbances>>

NodeFlips(n) ==
  /\ Disturb /\ nodeOnline' = [nodeOnline EXCEPT ![n] = ~@]
  /\ undisturbed' = undisturbed \ {n}
  /\ UNCHANGED <<schedules, minute, passes, pass, scheduled, userBusy, forge>>

UserTaskBegins(n) ==
  /\ Disturb /\ ~InstanceBusy(n) /\ userBusy' = [userBusy EXCEPT ![n] = TRUE]
  /\ undisturbed' = undisturbed \ {n}
  /\ UNCHANGED <<schedules, minute, passes, pass, scheduled, nodeOnline, forge>>

UserTaskEnds(n) ==
  /\ userBusy[n] /\ userBusy' = [userBusy EXCEPT ![n] = FALSE]
  /\ UNCHANGED <<schedules, minute, passes, pass, scheduled, nodeOnline, forge, disturbances,
                 undisturbed>>

ScheduledTaskEnds(k) ==
  /\ scheduled[k].active /\ scheduled' = [scheduled EXCEPT ![k].active = FALSE]
  /\ UNCHANGED <<schedules, minute, passes, pass, nodeOnline, userBusy, forge, disturbances,
                 undisturbed>>

ForgeChanges(f) ==
  /\ Disturb /\ f # forge /\ forge' = f
  /\ undisturbed' = undisturbed \ TargetNodes
  /\ UNCHANGED <<schedules, minute, passes, pass, scheduled, nodeOnline, userBusy>>

\* The controller stops in the middle of a pass; its successor starts over.
RestartScheduler ==
  /\ Disturb /\ pass # NoPass /\ pass' = NoPass
  /\ UNCHANGED <<schedules, minute, passes, scheduled, nodeOnline, userBusy, forge,
                 undisturbed>>

SchedNext ==
  \/ StartPass \/ collectForgeImageCandidates \/ scheduleServiceImageChecks
  \/ \E n \in TargetNodes : scheduleServiceBackups(n)
  \/ ServicesDone
  \/ \E type \in Rustic : scheduleRusticMaintenance(type)
  \/ NextMinute \/ RestartScheduler
  \/ \E n \in NodesOfAll : NodeFlips(n)
  \/ \E n \in TargetNodes : UserTaskBegins(n) \/ UserTaskEnds(n)
  \/ \E k \in 1..Len(scheduled) : ScheduledTaskEnds(k)
  \/ \E f \in {"none", "v1", "down"} : ForgeChanges(f)

SchedSpec == SchedInit /\ [][SchedNext]_schedVars

-----------------------------------------------------------------------------
(* Properties                                                               *)

\* Passes that repeat in a minute, also after a restart, schedule nothing twice:
\* one backup per node and minute, one maintenance task per node, and one image
\* check per node as long as the forges report the same.  A second check with the
\* same parameters exists only if the forges answered the admission otherwise than
\* the pass that looked for it.
ScheduledOnce ==
  \A j, k \in 1..Len(scheduled) :
    LET a == scheduled[j]
        b == scheduled[k]
    IN  j < k /\ a.type = b.type /\ a.node = b.node /\ a.window = b.window
          => a.type = "image_check" /\ (a.params # b.params \/ b.params[2] # b.asked)

\* An image check covers all nodes of the service or none.
ChecksCoverAllNodes ==
  \A k \in 1..Len(scheduled) :
    LET t == scheduled[k]
    IN  t.type = "image_check" =>
          \A n \in TargetNodes : \E j \in 1..Len(scheduled) :
            [scheduled[j] EXCEPT !.active = t.active] = [t EXCEPT !.node = n]

WasScheduled(type, nodes, window) ==
  \E k \in 1..Len(scheduled) :
    scheduled[k].type = type /\ scheduled[k].node \in nodes /\ scheduled[k].window = window

\* What a pass must have brought about when it ends in the minute it began in,
\* where nothing disturbed the nodes, a late pass of an earlier minute included.
\* A backup may give way to an image check of the same minute, which holds the
\* instance.
PassFindsTheDue ==
  /\ dueServiceImageUpdateNames(minute) # {} /\ TargetNodes \subseteq undisturbed
       /\ forge # "down"
     => \A n \in TargetNodes : WasScheduled("image_check", {n}, minute)
  /\ DueNow(effectiveBackupSchedule, minute)
     => \A n \in TargetNodes \cap RusticNodes \cap undisturbed :
          WasScheduled("backup", {n}, minute) \/ WasScheduled("image_check", {n}, minute)
  /\ RusticNodes \cap undisturbed # {}
     => /\ DueNow(EnabledSpec(schedules.forget), minute) => WasScheduled("rustic_forget", RusticNodes, minute)
        /\ DueNow(EnabledSpec(schedules.prune), minute) => WasScheduled("rustic_prune", RusticNodes, minute)

PassEnds == pass.at = "rustic_prune" /\ pass' = NoPass /\ disturbances' = disturbances
ScheduleIsKept ==
  /\ [](ScheduledOnce /\ ChecksCoverAllNodes)
  /\ [][PassEnds /\ pass.window = minute => PassFindsTheDue']_schedVars
=============================================================================
