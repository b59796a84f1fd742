-------------------------- MODULE ControllerConfig --------------------------
(***************************************************************************)
(* The controller's configuration file: users edit the whitelisted part of  *)
(* it over RPC, persons edit the file itself, and the main loop of the      *)
(* process (bootstrap.go, Run) replaces the runtime when a reload is asked  *)
(* for.  flock keeps the handlers and the loop's repairs apart, but neither  *)
(* a person nor the loop's own reads.                                       *)
(*                                                                         *)
(* The content of the file is a record; its revision, a SHA-256, is the     *)
(* content itself.  listen stands for the four settings that need a restart *)
(* of the process.  A token "file" is read from a token file.               *)
(***************************************************************************)
EXTENDS Naturals, Sequences, FiniteSets, SequencesExt

CONSTANTS Editors,        \* users of the editing RPCs
          Edits,          \* the editable documents they send
          FirstContent,   \* the file at the start
          HandContents,   \* what a person may put in its place
          MaxHand,        \* changes by hand, of the file or of the token file
          MaxReloads,     \* plain reload requests
          MaxUpdates,     \* calls of UpdateEditableConfig
          MaxConfigFaults \* runtimes that do not start, failing writes, crashes

VARIABLES file, secret,   \* the configuration file, and the token file
          lock,           \* holder of the flock, or "free"
          ctl,            \* the main loop
          queue,          \* reloadRequests, a channel of capacity one
          sighup,         \* the goroutine that forwards SIGHUP
          editor,         \* the handlers, and what each user was shown
          hand, secrets, reloads, updateCalls, configFaults,
          refused         \* an edit was written and its reload not queued

configHistory == <<hand, secrets, reloads, updateCalls, configFaults, refused>>
configVars == <<file, secret, lock, ctl, queue, sighup, editor, configHistory>>

Anything == {}   \* no expectedRevision; otherwise the set of the one expected

\* A DNS provider that is not configured has no zones; one that is configured
\* without a name has {""}.
Providers == {"cloudflare", "alidns", "dnspod", "route53", "huaweicloud"}
Unreadable == [parses |-> FALSE, remote |-> FALSE, listen |-> "", nodes |-> <<>>,
               access |-> <<>>, mainNodes |-> {}, tunnelNodes |-> {}, zones |-> [p \in Providers |-> {}],
               schedule |-> "none", smtp |-> "none", smtpComplete |-> TRUE,
               agent |-> "none", repo |-> ""]
Contents ==
  [parses : BOOLEAN, remote : BOOLEAN, listen : STRING,
   nodes : Seq([id : STRING, token : STRING, enabled : BOOLEAN]), access : Seq(STRING),
   mainNodes : SUBSET STRING, tunnelNodes : SUBSET STRING, zones : [Providers -> SUBSET STRING],
   schedule : STRING, smtp : STRING, smtpComplete : BOOLEAN, agent : STRING, repo : STRING]
Documents ==
  [wellFormed : BOOLEAN, listsNodes : BOOLEAN, nodes : Seq([id : STRING, enabled : BOOLEAN]),
   schedule : STRING, smtp : STRING]

-----------------------------------------------------------------------------
(* Loading and validating.                                                 *)

\* resolveInlineOrFileValue, when the token file holds s: "" is a required
\* value that is missing.
Resolved(token, s) == IF token = "file" THEN s ELSE token
NodeTokens(c, s) == [i \in DOMAIN c.nodes |-> Resolved(c.nodes[i].token, s)]
AccessTokens(c, s) == [i \in DOMAIN c.access |-> Resolved(c.access[i], s)]
NodeIDs(c) == {c.nodes[i].id : i \in DOMAIN c.nodes}

validateControllerDNS(c) ==
  /\ c.zones["cloudflare"] # {""}
  /\ \A p, q \in Providers : p # q => c.zones[p] \cap c.zones[q] \subseteq {""}

\* controller.rustic.main_nodes and controller.cloudflare_tunnel.nodes.
ReferencedNodesExist(c) == c.mainNodes \cup c.tunnelNodes \subseteq NodeIDs(c)

validateControllerNotifications(c) == c.smtp = "on" => c.smtpComplete

validateSharedControllerAgentConfig(c) ==
  c.agent # "none" => c.agent = "main" /\ c.repo # "agent" /\ "main" \in NodeIDs(c)

validateController(c, s) ==
  /\ c.listen # "" /\ c.repo # ""
  /\ validateControllerDNS(c)
  /\ \A i \in DOMAIN c.nodes : c.nodes[i].id # "" /\ NodeTokens(c, s)[i] # ""
  /\ IsInjective([i \in DOMAIN c.nodes |-> c.nodes[i].id])
  /\ IsInjective(NodeTokens(c, s))
  /\ ReferencedNodesExist(c)
  /\ c.schedule # "bad"
  /\ validateControllerNotifications(c)
  /\ "" \notin Range(AccessTokens(c, s)) /\ IsInjective(AccessTokens(c, s))
  /\ Range(AccessTokens(c, s)) \cap Range(NodeTokens(c, s)) = {}
  /\ validateSharedControllerAgentConfig(c)

LoadController(c, s) == c.parses /\ validateController(c, s)
validateControllerReload(running, next) == running.listen = next.listen
loadReloadControllerConfig(c) == LoadController(c, secret) /\ validateControllerReload(ctl.cfg, c)

\* The controller is first started with a file that loads.
ASSUME ConfigAssumption ==
  /\ "free" \notin Editors
  /\ FirstContent \in Contents /\ LoadController(FirstContent, "s0")
  /\ HandContents \subseteq Contents /\ Edits \subseteq Documents
  /\ {MaxHand, MaxReloads, MaxUpdates, MaxConfigFaults} \subseteq Nat

-----------------------------------------------------------------------------
(* The editable part.  An edit names only what it changes: a setting it     *)
(* leaves out is "keep".                                                    *)

EditableNodes(c) == [i \in DOMAIN c.nodes |-> [id |-> c.nodes[i].id, enabled |-> c.nodes[i].enabled]]
marshalEditableControllerConfig(c) ==
  [wellFormed |-> TRUE, listsNodes |-> TRUE, nodes |-> EditableNodes(c), schedule |-> c.schedule,
   smtp |-> IF c.smtp = "none" THEN "keep" ELSE c.smtp]

\* No aliases, merge keys, deep nesting, unknown fields or second documents.
decodeEditableControllerConfig(e) == e.wellFormed

applyEditableNodeYAML(c, nodes) ==
  /\ Len(nodes) = Len(c.nodes)
  /\ \A n \in Range(nodes) : n.id # ""
  /\ IsInjective([i \in DOMAIN nodes |-> nodes[i].id])
  /\ NodeIDs(c) \subseteq {n.id : n \in Range(nodes)}
applyEditableNotificationYAML(c, smtp) == c.smtp # "none"

CanApply(c, e) ==
  /\ e.listsNodes => applyEditableNodeYAML(c, e.nodes)
  /\ e.smtp # "keep" => applyEditableNotificationYAML(c, e.smtp)

\* Settings are replaced in place; what the edit does not name is kept.
SetNodes(nodes, edited) ==
  [i \in DOMAIN nodes |->
     [nodes[i] EXCEPT !.enabled = (CHOOSE n \in Range(edited) : n.id = nodes[i].id).enabled]]

applyEditableControllerConfig(c, e) ==
  [c EXCEPT !.schedule = IF e.schedule = "keep" THEN @ ELSE e.schedule,
            !.smtp = IF e.smtp = "keep" THEN @ ELSE e.smtp,
            !.nodes = IF e.listsNodes THEN SetNodes(@, e.nodes) ELSE @]

-----------------------------------------------------------------------------
Nothing == <<>>
NoHandler == [at |-> "none", raw |-> Nothing, candidate |-> Nothing]
NoRequest == [rev |-> Anything, reply |-> FALSE]

ConfigInit ==
  /\ file = FirstContent /\ secret = "s0" /\ lock = "free" /\ queue = <<>> /\ sighup = "none"
  /\ ctl = [at |-> "off", cfg |-> Nothing, activeRaw |-> Nothing,
            request |-> NoRequest, currentRaw |-> Nothing, next |-> Nothing]
  /\ editor = [e \in Editors |-> [shown |-> Nothing, call |-> NoHandler]]
  /\ hand = 0 /\ secrets = 0 /\ reloads = 0 /\ updateCalls = 0 /\ configFaults = 0 /\ refused = FALSE

ConfigFault == configFaults < MaxConfigFaults /\ configFaults' = configFaults + 1

\* A runtime serves RPCs until it is told to stop; stopping waits for them.
Serving == ctl.at \in {"running", "loading", "checking", "rollback"}

\* The process ends: its locks are released, its handlers are gone.
ProcessEnds ==
  /\ ctl' = [at |-> "off", cfg |-> Nothing, activeRaw |-> Nothing,
             request |-> NoRequest, currentRaw |-> Nothing, next |-> Nothing]
  /\ queue' = <<>> /\ sighup' = "none" /\ lock' = "free"
  /\ editor' = [e \in Editors |-> [editor[e] EXCEPT !.call = NoHandler]]

(* Editing over RPC.                                                        *)

EnsureAvailable == Serving /\ ctl.cfg.remote
ensureRemoteConfigEnabled(c) == c.parses /\ c.remote

GetEditableConfig(e) ==
  /\ editor[e].call.at = "none" /\ EnsureAvailable /\ lock = "free"
  /\ ensureRemoteConfigEnabled(file) /\ editor[e].shown # file
  /\ editor' = [editor EXCEPT ![e].shown = file]
  /\ UNCHANGED <<file, secret, lock, ctl, queue, sighup, configHistory>>

\* Mutant: the file is not locked while it is edited.
UpdateWithoutLock(e, edit) ==
  /\ editor[e].call.at = "none" /\ EnsureAvailable
  /\ updateCalls < MaxUpdates /\ updateCalls' = updateCalls + 1
  /\ editor[e].shown = file /\ ensureRemoteConfigEnabled(file)
  /\ decodeEditableControllerConfig(edit) /\ CanApply(file, edit)
  /\ LET candidate == applyEditableControllerConfig(file, edit)
     IN /\ loadReloadControllerConfig(candidate) /\ candidate # file
        /\ editor' = [editor EXCEPT ![e].call = [at |-> "checked", raw |-> file, candidate |-> candidate]]
  /\ UNCHANGED <<file, secret, lock, ctl, queue, sighup, hand, secrets, reloads, configFaults, refused>>

\* The part of UpdateEditableConfig up to the point where the edit is known
\* to be acceptable; a call that is refused here changes nothing.
UpdateEditableConfig(e, edit) ==
  /\ editor[e].call.at = "none" /\ EnsureAvailable /\ lock = "free"
  /\ updateCalls < MaxUpdates /\ updateCalls' = updateCalls + 1
  /\ editor[e].shown = file /\ ensureRemoteConfigEnabled(file)
  /\ decodeEditableControllerConfig(edit) /\ CanApply(file, edit)
  /\ LET candidate == applyEditableControllerConfig(file, edit)
     IN /\ loadReloadControllerConfig(candidate) /\ candidate # file
        /\ lock' = e
        /\ editor' = [editor EXCEPT ![e].call = [at |-> "checked", raw |-> file, candidate |-> candidate]]
  /\ UNCHANGED <<file, secret, ctl, queue, sighup, hand, secrets, reloads, configFaults, refused>>

Answer(e) == editor' = [editor EXCEPT ![e].call = NoHandler]

\* The file is read a second time before it is replaced.
CheckUnchanged(e) ==
  LET c == editor[e].call
  IN /\ c.at = "checked"
     /\ IF file = c.raw THEN editor' = [editor EXCEPT ![e].call.at = "write"] /\ UNCHANGED lock
                        ELSE Answer(e) /\ lock' = "free"
     /\ UNCHANGED <<file, secret, ctl, queue, sighup, configHistory>>

\* Up to the rename nothing has happened; after it the file is in place,
\* whatever becomes of the directory's sync.
atomicWriteControllerConfig(content) ==
  \/ file' = content /\ UNCHANGED configFaults
  \/ file' = file /\ ConfigFault

WriteCandidate(e) ==
  LET c == editor[e].call
  IN /\ c.at = "write"
     /\ \/ /\ file' = c.candidate
           /\ editor' = [editor EXCEPT ![e].call.at = "queue"]
           /\ UNCHANGED <<lock, configFaults>>
        \/ ConfigFault /\ Answer(e) /\ lock' = "free" /\ UNCHANGED file
     /\ UNCHANGED <<secret, ctl, queue, sighup, hand, secrets, reloads, updateCalls, refused>>

requestControllerReload(request) == Len(queue) < 1 /\ queue' = Append(queue, request)

\* The lock is given back before the file is restored.
QueueReload(e) ==
  LET c == editor[e].call
  IN /\ c.at = "queue"
     /\ \/ /\ requestControllerReload([rev |-> {c.candidate}, reply |-> FALSE])
           /\ Answer(e) /\ UNCHANGED refused
        \/ /\ Len(queue) = 1
           /\ editor' = [editor EXCEPT ![e].call.at = "restore"]
           /\ refused' = TRUE /\ UNCHANGED queue
     /\ lock' = "free"
     /\ UNCHANGED <<file, secret, ctl, sighup, hand, secrets, reloads, updateCalls, configFaults>>

restoreControllerConfigIfCurrent(expected, content) ==
  IF file = expected THEN atomicWriteControllerConfig(content) ELSE UNCHANGED <<file, configFaults>>

RestoreAfterRefusal(e) ==
  LET c == editor[e].call
  IN /\ c.at = "restore" /\ lock = "free"
     /\ restoreControllerConfigIfCurrent(c.candidate, c.raw)
     /\ Answer(e)
     /\ UNCHANGED <<secret, lock, ctl, queue, sighup, hand, secrets, reloads, updateCalls, refused>>

(* Reload requests without a revision: the RPC, and SIGHUP.                 *)

ReloadControllerConfig ==
  /\ Serving /\ reloads < MaxReloads /\ reloads' = reloads + 1
  /\ requestControllerReload([rev |-> Anything, reply |-> FALSE])
  /\ UNCHANGED <<file, secret, lock, ctl, sighup, editor, hand, secrets, updateCalls, configFaults, refused>>

Sighup ==
  /\ ctl.at # "off" /\ sighup = "none" /\ reloads < MaxReloads /\ reloads' = reloads + 1
  /\ sighup' = "sending"
  /\ UNCHANGED <<file, secret, lock, ctl, queue, editor, hand, secrets, updateCalls, configFaults, refused>>

requestControllerReloadAndWait ==
  /\ sighup = "sending" /\ sighup' = "waiting"
  /\ requestControllerReload([rev |-> Anything, reply |-> TRUE])
  /\ UNCHANGED <<file, secret, lock, ctl, editor, configHistory>>

(* The main loop.                                                           *)

\* LoadController and ReadFile are two reads.
LoadAtStart ==
  /\ ctl.at = "off" /\ LoadController(file, secret)
  /\ ctl' = [ctl EXCEPT !.at = "loaded", !.cfg = file]
  /\ UNCHANGED <<file, secret, lock, queue, sighup, editor, configHistory>>

ReadAtStart ==
  /\ ctl.at = "loaded"
  /\ IF file = Unreadable THEN ctl' = [ctl EXCEPT !.at = "off"]
                          ELSE ctl' = [ctl EXCEPT !.at = "starting", !.activeRaw = file]
  /\ UNCHANGED <<file, secret, lock, queue, sighup, editor, configHistory>>

\* waitControllerRuntimeReady, at the start or after a reload was undone.
RuntimeReady ==
  /\ ctl.at = "starting"
  /\ \/ ctl' = [ctl EXCEPT !.at = "running"] /\ UNCHANGED <<lock, queue, sighup, editor, configFaults>>
     \/ ConfigFault /\ ProcessEnds
  /\ UNCHANGED <<file, secret, hand, secrets, reloads, updateCalls, refused>>

Respond(request) == sighup' = IF request.reply THEN "none" ELSE sighup
RequestDone(cfg, raw, at) ==
  ctl' = [at |-> at, cfg |-> cfg, activeRaw |-> raw, request |-> NoRequest,
          currentRaw |-> Nothing, next |-> Nothing]
Rejected(request) == RequestDone(ctl.cfg, ctl.activeRaw, "running") /\ Respond(request)

TakeRequest ==
  /\ ctl.at = "running" /\ queue # <<>>
  /\ LET request == Head(queue) IN
       \/ /\ file = Unreadable /\ request.rev # Anything
          /\ ProcessEnds
       \/ /\ IF file = Unreadable \/ request.rev \notin {Anything, {file}}
             THEN Rejected(request)
             ELSE /\ ctl' = [ctl EXCEPT !.at = "loading", !.request = request, !.currentRaw = file]
                  /\ UNCHANGED sighup
          /\ file = Unreadable => request.rev = Anything
          /\ queue' = Tail(queue) /\ UNCHANGED <<lock, editor>>
  /\ UNCHANGED <<file, secret, configHistory>>

\* rollbackQueuedControllerConfig only repairs what an edit has written.
RollbackOrReject ==
  IF ctl.request.rev = Anything
  THEN Rejected(ctl.request)
  ELSE ctl' = [ctl EXCEPT !.at = "rollback"] /\ UNCHANGED sighup

LoadReload ==
  /\ ctl.at = "loading"
  /\ IF loadReloadControllerConfig(file)
     THEN ctl' = [ctl EXCEPT !.at = "checking", !.next = file] /\ UNCHANGED sighup
     ELSE RollbackOrReject
  /\ UNCHANGED <<file, secret, lock, queue, editor, configHistory>>

ReadAgain ==
  /\ ctl.at = "checking"
  /\ \/ file = Unreadable /\ RollbackOrReject
     \/ file \notin {Unreadable, ctl.currentRaw} /\ Rejected(ctl.request)
     \/ file = ctl.currentRaw /\ ctl' = [ctl EXCEPT !.at = "stopping"] /\ UNCHANGED sighup
  /\ UNCHANGED <<file, secret, lock, queue, editor, configHistory>>

\* The old runtime's server waits for its handlers, which are short.
StopRuntime ==
  /\ ctl.at = "stopping" /\ \A e \in Editors : editor[e].call.at = "none"
  /\ ctl' = [ctl EXCEPT !.at = "switching"]
  /\ UNCHANGED <<file, secret, lock, queue, sighup, editor, configHistory>>

\* What was loaded lies between two reads that agree; it need not be the same.
StartNext ==
  /\ ctl.at = "switching"
  /\ \/ /\ RequestDone(ctl.next, ctl.currentRaw, "running")
        /\ Respond(ctl.request) /\ UNCHANGED configFaults
     \/ ctl' = [ctl EXCEPT !.at = "undo"] /\ ConfigFault /\ UNCHANGED sighup
  /\ UNCHANGED <<file, secret, lock, queue, editor, hand, secrets, reloads, updateCalls, refused>>

\* The repair of the file, in the loop; it ends the process if the file is
\* no longer what was loaded, or if it fails.
RestoreActive ==
  /\ ctl.at \in {"undo", "rollback"} /\ lock = "free"
  /\ restoreControllerConfigIfCurrent(ctl.currentRaw, ctl.activeRaw)
  /\ IF file' = ctl.activeRaw /\ file = ctl.currentRaw
     THEN /\ RequestDone(ctl.cfg, ctl.activeRaw, IF ctl.at = "undo" THEN "starting" ELSE "running")
          /\ Respond(ctl.request) /\ UNCHANGED <<lock, queue, editor>>
     ELSE ProcessEnds
  /\ UNCHANGED <<secret, hand, secrets, reloads, updateCalls, refused>>

(* The environment.                                                         *)

EditByHand(content) ==
  /\ hand + secrets < MaxHand /\ hand' = hand + 1 /\ content # file /\ file' = content
  /\ UNCHANGED <<secret, lock, ctl, queue, sighup, editor, secrets, reloads, updateCalls, configFaults, refused>>

ChangeTokenFile(value) ==
  /\ hand + secrets < MaxHand /\ secrets' = secrets + 1 /\ secret' = value
  /\ UNCHANGED <<file, lock, ctl, queue, sighup, editor, hand, reloads, updateCalls, configFaults, refused>>

CrashController ==
  /\ ctl.at # "off" /\ ConfigFault /\ ProcessEnds
  /\ UNCHANGED <<file, secret, hand, secrets, reloads, updateCalls, refused>>

ConfigNext ==
  \/ \E e \in Editors :
       \/ GetEditableConfig(e) \/ \E edit \in Edits : UpdateEditableConfig(e, edit)
       \/ CheckUnchanged(e) \/ WriteCandidate(e) \/ QueueReload(e) \/ RestoreAfterRefusal(e)
  \/ ReloadControllerConfig \/ Sighup \/ requestControllerReloadAndWait
  \/ LoadAtStart \/ ReadAtStart \/ RuntimeReady \/ TakeRequest \/ LoadReload \/ ReadAgain
  \/ StopRuntime \/ StartNext \/ RestoreActive
  \/ \E content \in HandContents : EditByHand(content)
  \/ \E value \in {"", "s0", "n1"} : ChangeTokenFile(value)
  \/ CrashController
ConfigSpec == ConfigInit /\ [][ConfigNext]_configVars

-----------------------------------------------------------------------------
(* What the controller promises about its file.  A person at the file, and  *)
(* an edit that met a full queue, may break the promises that name them.    *)

\* Whatever the controller is killed in the middle of, the file it leaves
\* loads, and needs no restart of the running process.
FileIsLoadable ==
  hand = 0 /\ secrets = 0 => LoadController(file, secret) /\ validateControllerReload(FirstContent, file)

\* Edits leave alone what users must not edit, through any number of edits,
\* restores and reloads.
Protected(c) == [c EXCEPT !.schedule = "", !.smtp = "", !.nodes = [i \in DOMAIN @ |-> @[i].token]]
EditsAreWhitelisted == hand = 0 => Protected(file) = Protected(FirstContent)

\* A writer replaces what it has read, never the work of another.
WritersExclude ==
  hand = 0 => \A e \in Editors :
    LET c == editor[e].call
    IN /\ c.at \in {"checked", "write"} => file = c.raw
       /\ c.at = "queue" => file = c.candidate

\* When nothing is under way, the file is the configuration that runs.
AtRest ==
  /\ ctl.at = "running" /\ queue = <<>> /\ sighup = "none"
  /\ \A e \in Editors : editor[e].call.at = "none"
FileIsInForce == AtRest /\ hand = 0 /\ ~refused => file = ctl.activeRaw /\ file = ctl.cfg

\* Without a fault or a person at its files, the process never gives up.
NeverGivesUp ==
  hand = 0 /\ secrets = 0 /\ configFaults = 0 /\ ~refused =>
    ctl.at \notin {"undo", "rollback"} /\ (ctl.at = "off" => file = FirstContent /\ updateCalls = 0)

\* The goroutine that waits for the outcome of a SIGHUP gets one.
SighupIsAnswered ==
  sighup = "waiting" => ctl.request.reply \/ \E i \in DOMAIN queue : queue[i].reply

\* What a user is shown can be sent back unchanged.
ShownCanBeSent ==
  \A e \in Editors : LET c == editor[e].shown IN
    c # Nothing /\ LoadController(c, secret) =>
                         /\ CanApply(c, marshalEditableControllerConfig(c))
                         /\ applyEditableControllerConfig(c, marshalEditableControllerConfig(c)) = c

\* The configuration file survives edits, reloads, failures and crashes: it
\* stays loadable, protected and exclusive, and is in force when all is done
\* (controller_config.go, bootstrap.go).
ConfigIsSafe ==
  /\ FileIsLoadable /\ EditsAreWhitelisted /\ WritersExclude /\ FileIsInForce
  /\ NeverGivesUp /\ SighupIsAnswered /\ ShownCanBeSent
=============================================================================
