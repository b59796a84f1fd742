---------------------------- MODULE MCTaskStore ----------------------------
(***************************************************************************)
(* What the controller remembers: the task table, under every order of      *)
(* calls on a deployment and a stop of one service with two declared        *)
(* instances (MCAdmission has the controller's own tasks); the scheduler,   *)
(* for which the tasks are all it remembers; the configuration file, under  *)
(* two users that edit it, a person at the file, reloads and crashes; and   *)
(* the database of an older release that is opened.  They share no state    *)
(* here, so each behaviour exercises one of them, chosen at the start.      *)
(***************************************************************************)
EXTENDS TaskStore, Scheduler, ControllerConfig, SchemaUpgrade

VARIABLE focus

MCTypeOf == [deploy1 |-> "deploy", stop2 |-> "stop"]
MCTasks == DOMAIN MCTypeOf
MCServiceOf == [t \in MCTasks |-> "web"]
MCNodeOf == [deploy1 |-> "alpha", stop2 |-> "beta"]
MCDedupeKeyOf == [t \in MCTasks |-> "nokey"]
MCQueueKey == [deploy1 |-> 1, stop2 |-> 2]
MCDeclared == {"web"} \X {"alpha", "beta"}

\* "odd" is a schedule that is due in odd minutes.
Schedule(default, service, image, backup, item, forget, prune) ==
  [checkDefault |-> default, service |-> service, image |-> [i \in Images |-> image],
   backupDefault |-> backup, item |-> item, forget |-> forget, prune |-> prune]
\* Each level set, turned off or left to the next one.
MCSchedules ==
  {Schedule("odd", "", "", "odd", "", "", ""), Schedule("", "", "", "odd", "", "odd", "odd"),
   Schedule("odd", "", "", "every", "", "", "none")}
  \cup {Schedule(x[1], x[2], x[3], "none", "", "none", "") :
          x \in {<<"", "", "">>, <<"odd", "none", "">>, <<"none", "odd", "">>,
                 <<"odd", "odd", "none">>, <<"none", "none", "odd">>}}
  \cup {Schedule("", "", "", x[1], x[2], "", "") : x \in {<<"odd", "none">>, <<"none", "odd">>}}

MCFirstContent ==
  [parses |-> TRUE, remote |-> TRUE, listen |-> "l", repo |-> "controller", agent |-> "main",
   nodes |-> <<[id |-> "main", token |-> "n1", enabled |-> TRUE],
               [id |-> "n", token |-> "file", enabled |-> TRUE]>>,
   access |-> <<"a1">>, mainNodes |-> {"n"}, tunnelNodes |-> {"main"},
   zones |-> [p \in Providers |-> CASE p = "cloudflare" -> {"z1"} [] p = "alidns" -> {"z2"} [] OTHER -> {}],
   schedule |-> "daily", smtp |-> "on", smtpComplete |-> TRUE]
MCEdit(nodes, schedule, smtp) ==
  [wellFormed |-> TRUE, listsNodes |-> nodes # <<>>, nodes |-> nodes, schedule |-> schedule, smtp |-> smtp]
MCEdits ==
  {MCEdit(<<>>, "weekly", "keep"), MCEdit(<<>>, "bad", "keep"),
   MCEdit(<<[id |-> "n", enabled |-> FALSE], [id |-> "main", enabled |-> TRUE]>>, "keep", "off"),
   MCEdit(<<[id |-> "n", enabled |-> FALSE]>>, "keep", "keep"),
   [MCEdit(<<>>, "daily", "keep") EXCEPT !.wellFormed = FALSE]}
\* Unreadable, another address, a provider without a zone, editing turned off,
\* and a token used twice.
MCHandContents ==
  {Unreadable, [MCFirstContent EXCEPT !.listen = "other"],
   [MCFirstContent EXCEPT !.zones["cloudflare"] = {""}],
   [MCFirstContent EXCEPT !.schedule = "weekly", !.smtp = "none", !.remote = FALSE],
   [MCFirstContent EXCEPT !.access = <<"n1">>]}

MCSupportedTypes == IndexedWide \cup {"migrate", "migrate_rollback", "cloudflare_tunnel_sync", "prune"}
OldRows == {Row("docker_list", "n", "succeeded", FALSE, 0), Row("deploy", "n", "running", FALSE, 0),
            Row("deploy", "n", "running", TRUE, 0), Row("restore", "n", "pending", FALSE, 0),
            Row("migrate", "", "awaiting_confirmation", FALSE, 0), Row("backup", "n", "succeeded", FALSE, 0)}
NewRows == {Row("deploy", "n", "pending", FALSE, 1), Row("docker_list", "n", "running", FALSE, 0),
            Row("migrate", "", "running", FALSE, 0), Row("backup", "gone", "succeeded", FALSE, 0),
            Row("backup", "n", "failed", FALSE, 1)}
\* What the schema of each release admits; rows written while the foreign keys
\* were off, or whose check was cut off, may refer to nothing.
Legal(d) ==
  /\ LeftByRelease(d)
  /\ d.version = 0 => d.tasks = <<>> /\ d.backups = {} /\ d.steps = <<>> /\ d.instances["n"].last = 0
  /\ d.version >= 3 => Unique(d, Indexed) /\ \A t \in TaskIDs(d) : d.tasks[t].node # "gone"
  /\ d.version < 9 => \A t \in TaskIDs(d) : ~d.tasks[t].execution
  /\ d.service.last = 2 => 2 \in TaskIDs(d)
MCDatabases ==
  {d \in [version : {0, 2, 4, 6, 8, 9, 11, 13, 14},
          tasks : {<<>>} \cup {<<t>> : t \in OldRows} \cup {<<t, u>> : t \in OldRows, u \in NewRows},
          steps : {<<>>, <<"running">>, [t \in {3} |-> "running"]},
          backups : {{}, {[task |-> 1, node |-> "n"]}, {[task |-> 1, node |-> ""]},
                     {[task |-> 2, node |-> "n"], [task |-> 3, node |-> "n"]}},
          instances : {[n \in {"n"} |-> [runtime |-> "running", last |-> l]] : l \in {0, 1}},
          service : [runtime : {"running"}, last : {0, 2}]] : Legal(d)}

MCInit ==
  /\ focus \in {"store", "scheduler", "config", "upgrade"}
  /\ StoreInit /\ ConfigInit
  /\ UpgradeInit /\ (focus # "upgrade" => disk.version = 0)
  /\ SchedInit /\ (focus # "scheduler" => schedules = (CHOOSE x \in Schedules : TRUE))
MCNext ==
  \/ focus = "store" /\ StoreNext /\ UNCHANGED <<focus, schedVars, configVars, upgradeVars>>
  \/ focus = "scheduler" /\ SchedNext /\ UNCHANGED <<focus, storeVars, configVars, upgradeVars>>
  \/ focus = "config" /\ ConfigNext /\ UNCHANGED <<focus, storeVars, schedVars, upgradeVars>>
  \/ focus = "upgrade" /\ UpgradeNext /\ UNCHANGED <<focus, storeVars, schedVars, configVars>>
MCSpec == MCInit /\ [][MCNext]_<<focus, storeVars, schedVars, configVars, upgradeVars>>
=============================================================================
