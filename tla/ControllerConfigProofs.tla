----------------------- MODULE ControllerConfigProofs -----------------------
(***************************************************************************)
(* What the controller finds when it starts again.                         *)
(*                                                                         *)
(* Why the configuration file stays loadable, protected and in force, for  *)
(* any users, documents, contents, reloads and faults.  The argument has   *)
(* three parts: whoever writes the file holds its lock; every content that *)
(* a handler or the loop may still write is an edit of the first; and when *)
(* the file is not what runs, a request that will notice is on its way.    *)
(*                                                                         *)
(* Why the database of any older release is brought to the current schema, *)
(* or refused for a reason that was in it.  One relation says what the     *)
(* migrations up to a version have made of the database found; every       *)
(* migration keeps it, whether it is applied for the first time or after a *)
(* crash; and the places of Open say which databases have been checked.    *)
(*                                                                         *)
(* Why the scheduler, which remembers nothing but the tasks it created,    *)
(* schedules nothing twice and leaves nothing due undone.  A batch of      *)
(* checks is looked up as it was created, on all nodes; and what keeps an  *)
(* undisturbed node busy in a minute is a task of that minute.             *)
(***************************************************************************)
EXTENDS ControllerConfig, SchemaUpgrade, Scheduler, SequenceTheorems, FiniteSetTheorems, WellFoundedInduction, TLAPS

Places == {"off", "loaded", "starting", "running", "loading", "checking", "stopping",
           "switching", "undo", "rollback"}
Busy == {"loading", "checking", "stopping", "switching", "undo", "rollback"}
Held == {"checked", "write", "queue"}
MaybeContent == Contents \cup {Nothing}
Requests == [rev : SUBSET Contents, reply : BOOLEAN]
Loops == [at : Places, cfg : MaybeContent, activeRaw : MaybeContent, request : Requests,
          currentRaw : MaybeContent, next : MaybeContent]
Calls == [at : Held \cup {"none", "restore"}, raw : MaybeContent, candidate : MaybeContent]

ConfigTypeOK ==
  /\ file \in Contents /\ lock \in Editors \cup {"free"}
  /\ ctl \in Loops /\ queue \in Seq(Requests) /\ sighup \in {"none", "sending", "waiting"}
  /\ editor \in [Editors -> [shown : MaybeContent, call : Calls]]
  /\ hand \in Nat /\ secrets \in Nat /\ updateCalls \in Nat /\ configFaults \in Nat
  /\ refused \in BOOLEAN

\* What the loop has read by the time it is where it is.
LoopInv ==
  /\ ctl.at # "off" => ctl.cfg \in Contents
  /\ ctl.at \notin {"off", "loaded"} => ctl.activeRaw \in Contents
  /\ ctl.at \in Busy => ctl.currentRaw \in Contents
  /\ ctl.at \in {"checking", "stopping", "switching"} => ctl.next \in Contents
  /\ ctl.at \notin Busy => ctl.request = NoRequest
  /\ Len(queue) <= 1

\* Who is between its check and its request holds the lock, and handlers live
\* in a runtime that serves or waits for them.
LockInv ==
  /\ \A e \in Editors :
       /\ editor[e].call.at \in Held => lock = e
       /\ editor[e].call.at # "none" => /\ Serving \/ ctl.at = "stopping"
                                        /\ editor[e].call.raw \in Contents
                                        /\ editor[e].call.candidate \in Contents

\* Every content that is in the file or may be put there.
Around ==
  {file, ctl.cfg, ctl.activeRaw, ctl.currentRaw, ctl.next}
  \cup {editor[e].call.raw : e \in Editors} \cup {editor[e].call.candidate : e \in Editors}
Whitelisted(c) == c # Nothing => Protected(c) = Protected(FirstContent)
Valid(c) == c # Nothing => LoadController(c, "s0") /\ validateControllerReload(FirstContent, c)
ContentInv ==
  /\ secrets = 0 => secret = "s0"
  /\ hand = 0 => \A c \in Around : Whitelisted(c)
  /\ hand = 0 /\ secrets = 0 => \A c \in Around : Valid(c)

\* A request for the content of the file is queued, or about to be.
AtQueue == \E e \in Editors : editor[e].call.at = "queue"
Due == AtQueue \/ (queue # <<>> /\ Head(queue).rev = {file})

\* Where the loop is, and how the file may differ from what it has read.
ForceInv ==
  hand = 0 /\ ~refused =>
    /\ \A e \in Editors : editor[e].call.at # "restore"
    /\ ctl.at = "loaded" => file = ctl.cfg
    /\ ctl.at \notin {"off", "loaded"} => ctl.cfg = ctl.activeRaw
    /\ ctl.at \in {"starting", "running"} => file = ctl.activeRaw \/ Due
    /\ ctl.at \in Busy => file = ctl.currentRaw \/ Due
    /\ ctl.at \in {"loading", "checking"} /\ ctl.request.rev = Anything =>
         file = ctl.activeRaw \/ Due
    /\ ctl.at = "checking" /\ ctl.next # ctl.currentRaw =>
         \/ file = ctl.next /\ AtQueue
         \/ queue # <<>> /\ (file = ctl.currentRaw => AtQueue)
    /\ ctl.at = "stopping" /\ ctl.next # ctl.currentRaw => queue # <<>> /\ AtQueue
    /\ ctl.at = "switching" => ctl.next = ctl.currentRaw

ConfigInv ==
  /\ ConfigTypeOK /\ LoopInv /\ LockInv /\ ContentInv /\ ForceInv
  /\ WritersExclude /\ NeverGivesUp /\ SighupIsAnswered
-----------------------------------------------------------------------------
(* Contents and edits *)

NodeRows == [id : STRING, token : STRING, enabled : BOOLEAN]
EditRows == [id : STRING, enabled : BOOLEAN]

LEMMA SetNodesTyped ==
  ASSUME NEW nodes \in Seq(NodeRows), NEW edited \in Seq(EditRows),
         {nodes[i].id : i \in DOMAIN nodes} \subseteq {n.id : n \in Range(edited)}
  PROVE  /\ SetNodes(nodes, edited) \in Seq(NodeRows)
         /\ DOMAIN SetNodes(nodes, edited) = DOMAIN nodes
         /\ \A i \in DOMAIN nodes : SetNodes(nodes, edited)[i].token = nodes[i].token
<1> DEFINE found(i) == CHOOSE n \in Range(edited) : n.id = nodes[i].id
           row(i) == [nodes[i] EXCEPT !.enabled = found(i).enabled]
<1>1. ASSUME NEW i \in DOMAIN nodes  PROVE row(i) \in NodeRows /\ row(i).token = nodes[i].token
  <2>1. nodes[i] \in NodeRows
    BY ElementOfSeq
  <2>2. PICK n \in Range(edited) : n.id = nodes[i].id
    OBVIOUS
  <2>3. found(i) \in Range(edited)
    BY <2>2
  <2>4. found(i) \in EditRows
    BY <2>3, RangeOfSeq
  <2>5. found(i).enabled \in BOOLEAN
    BY <2>4 DEF EditRows
  <2> HIDE DEF found
  <2> QED  BY <2>1, <2>5 DEF NodeRows
<1>2. SetNodes(nodes, edited) = [i \in DOMAIN nodes |-> row(i)]
  BY DEF SetNodes
<1>3. DOMAIN nodes = 1..Len(nodes) /\ Len(nodes) \in Nat
  OBVIOUS
<1> HIDE DEF row
<1>4. SetNodes(nodes, edited) \in [1..Len(nodes) -> NodeRows]
  BY <1>1, <1>2, <1>3
<1>5. SetNodes(nodes, edited) \in Seq(NodeRows)
  BY <1>3, <1>4, SeqDef
<1> QED  BY <1>1, <1>2, <1>5

LEMMA ApplyTyped ==
  ASSUME NEW c \in Contents, NEW e \in Documents, CanApply(c, e)
  PROVE  /\ applyEditableControllerConfig(c, e) \in Contents
         /\ Protected(applyEditableControllerConfig(c, e)) = Protected(c)
         /\ applyEditableControllerConfig(c, e).listen = c.listen
<1> DEFINE nodes == IF e.listsNodes THEN SetNodes(c.nodes, e.nodes) ELSE c.nodes
           schedule == IF e.schedule = "keep" THEN c.schedule ELSE e.schedule
           smtp == IF e.smtp = "keep" THEN c.smtp ELSE e.smtp
           d == [c EXCEPT !.schedule = schedule, !.smtp = smtp, !.nodes = nodes]
<1>1. applyEditableControllerConfig(c, e) = d
  BY DEF applyEditableControllerConfig
<1>2. c.nodes \in Seq(NodeRows) /\ e.nodes \in Seq(EditRows)
  BY DEF Contents, Documents, NodeRows, EditRows
<1>3. /\ nodes \in Seq(NodeRows) /\ DOMAIN nodes = DOMAIN c.nodes
      /\ \A i \in DOMAIN nodes : nodes[i].token = c.nodes[i].token
  <2>1. CASE e.listsNodes
    <3>1. {c.nodes[i].id : i \in DOMAIN c.nodes} \subseteq {n.id : n \in Range(e.nodes)}
      BY <2>1 DEF CanApply, applyEditableNodeYAML, NodeIDs
    <3> QED  BY <1>2, <2>1, <3>1, SetNodesTyped
  <2> QED  BY <1>2, <2>1
<1>4. schedule \in STRING /\ smtp \in STRING
  BY DEF Contents, Documents
<1> HIDE DEF nodes, schedule, smtp
<1>5. d \in Contents /\ d.listen = c.listen
  BY <1>3, <1>4 DEF Contents, NodeRows
<1>6. [i \in DOMAIN nodes |-> nodes[i].token] = [i \in DOMAIN c.nodes |-> c.nodes[i].token]
  BY <1>3
<1>7. d.nodes = nodes
  BY DEF Contents
<1>8. Protected(d) = [d EXCEPT !.schedule = "", !.smtp = "",
                               !.nodes = [i \in DOMAIN c.nodes |-> c.nodes[i].token]]
  BY <1>6, <1>7 DEF Protected
<1>9. Protected(c) = [c EXCEPT !.schedule = "", !.smtp = "",
                               !.nodes = [i \in DOMAIN c.nodes |-> c.nodes[i].token]]
  BY DEF Protected
<1>10. Protected(d) = Protected(c)
  BY <1>8, <1>9 DEF Contents
<1> QED  BY <1>1, <1>5, <1>10

\* What is shown to a user can be sent back, and changes nothing.
LEMMA ShownIsFixed ==
  ASSUME NEW c \in Contents, NEW s, LoadController(c, s)
  PROVE  /\ CanApply(c, marshalEditableControllerConfig(c))
         /\ applyEditableControllerConfig(c, marshalEditableControllerConfig(c)) = c
<1> DEFINE e == marshalEditableControllerConfig(c)
           rows == EditableNodes(c)
<1>1. c.nodes \in Seq(NodeRows) /\ DOMAIN c.nodes = 1..Len(c.nodes) /\ Len(c.nodes) \in Nat
  BY DEF Contents, NodeRows
<1>2. \A i \in DOMAIN c.nodes : c.nodes[i] \in NodeRows
  BY <1>1, ElementOfSeq
<1>3. /\ \A i \in DOMAIN c.nodes : c.nodes[i].id # ""
      /\ \A i, j \in DOMAIN c.nodes : c.nodes[i].id = c.nodes[j].id => i = j
  BY DEF LoadController, validateController, IsInjective
<1>4. /\ DOMAIN rows = DOMAIN c.nodes
      /\ \A i \in DOMAIN c.nodes : rows[i] = [id |-> c.nodes[i].id, enabled |-> c.nodes[i].enabled]
  BY DEF EditableNodes
<1>5. rows \in Seq(EditRows)
  <2>1. \A i \in DOMAIN c.nodes : [id |-> c.nodes[i].id, enabled |-> c.nodes[i].enabled] \in EditRows
    BY <1>2 DEF NodeRows, EditRows
  <2>2. rows \in [1..Len(c.nodes) -> EditRows]
    BY <1>1, <2>1 DEF EditableNodes
  <2> HIDE DEF rows
  <2> QED  BY <1>1, <2>2, SeqDef
<1>6. Len(rows) = Len(c.nodes)
  BY <1>1, <1>4, <1>5
<1> HIDE DEF rows
<1>7. ASSUME NEW i \in DOMAIN c.nodes
      PROVE  rows[i].id = c.nodes[i].id /\ rows[i].enabled = c.nodes[i].enabled
  <2>1. rows[i] = [id |-> c.nodes[i].id, enabled |-> c.nodes[i].enabled]
    BY <1>4
  <2> QED  BY <2>1
<1>8. applyEditableNodeYAML(c, rows)
  <2>1. Range(rows) = {rows[i] : i \in DOMAIN c.nodes}
    BY <1>4 DEF Range
  <2>2. ASSUME NEW n \in Range(rows)  PROVE n.id # ""
    <3>1. PICK i \in DOMAIN c.nodes : n = rows[i]
      BY <2>1
    <3> QED  BY <1>3, <1>7, <3>1
  <2>3. IsInjective([i \in DOMAIN rows |-> rows[i].id])
    BY <1>3, <1>4, <1>7 DEF IsInjective
  <2>4. NodeIDs(c) \subseteq {n.id : n \in Range(rows)}
    BY <1>7, <2>1 DEF NodeIDs
  <2> QED  BY <1>6, <2>2, <2>3, <2>4 DEF applyEditableNodeYAML
<1>9. /\ e.listsNodes /\ e.nodes = rows /\ e.schedule = c.schedule
      /\ e.smtp = IF c.smtp = "none" THEN "keep" ELSE c.smtp
  BY DEF marshalEditableControllerConfig, rows
<1>10. SetNodes(c.nodes, rows) = c.nodes
  <2>1. ASSUME NEW i \in DOMAIN c.nodes
        PROVE  (CHOOSE n \in Range(rows) : n.id = c.nodes[i].id) = rows[i]
    <3>1. rows[i] \in Range(rows) /\ rows[i].id = c.nodes[i].id
      BY <1>4, <1>7 DEF Range
    <3>2. ASSUME NEW n \in Range(rows), n.id = c.nodes[i].id  PROVE n = rows[i]
      <4>1. PICK j \in DOMAIN c.nodes : n = rows[j]
        BY <1>4 DEF Range
      <4> QED  BY <1>3, <1>7, <3>2, <4>1
    <3> QED  BY <3>1, <3>2
  <2>2. ASSUME NEW i \in DOMAIN c.nodes
        PROVE  [c.nodes[i] EXCEPT !.enabled = (CHOOSE n \in Range(rows) : n.id = c.nodes[i].id).enabled]
                 = c.nodes[i]
    BY <1>2, <1>7, <2>1 DEF NodeRows
  <2>3. SetNodes(c.nodes, rows) = [i \in DOMAIN c.nodes |-> c.nodes[i]]
    BY <2>2 DEF SetNodes
  <2> QED  BY <1>1, <2>3
<1> HIDE DEF e
<1>11. CanApply(c, e)
  BY <1>8, <1>9 DEF CanApply, applyEditableNotificationYAML
<1>12. applyEditableControllerConfig(c, e)
         = [c EXCEPT !.schedule = c.schedule, !.smtp = c.smtp, !.nodes = c.nodes]
  BY <1>9, <1>10 DEF applyEditableControllerConfig
<1>13. [c EXCEPT !.schedule = c.schedule, !.smtp = c.smtp, !.nodes = c.nodes] = c
  BY DEF Contents
<1> QED  BY <1>11, <1>12, <1>13 DEF e
-----------------------------------------------------------------------------
(* What the parts of a step do, field by field *)

LEMMA Fields ==
  ASSUME ConfigTypeOK
  PROVE  /\ ctl.at \in Places /\ ctl.cfg \in MaybeContent /\ ctl.activeRaw \in MaybeContent
         /\ ctl.currentRaw \in MaybeContent /\ ctl.next \in MaybeContent
         /\ ctl.request \in Requests /\ ctl.request.rev \in SUBSET Contents
         /\ ctl.request.reply \in BOOLEAN
         /\ \A e \in Editors : /\ editor[e].shown \in MaybeContent /\ editor[e].call \in Calls
                               /\ editor[e].call.at \in Held \cup {"none", "restore"}
                               /\ editor[e].call.raw \in MaybeContent
                               /\ editor[e].call.candidate \in MaybeContent
<1>1. ctl \in Loops /\ \A e \in Editors : editor[e] \in [shown : MaybeContent, call : Calls]
  BY DEF ConfigTypeOK
<1>2. /\ ctl.at \in Places /\ ctl.cfg \in MaybeContent /\ ctl.activeRaw \in MaybeContent
      /\ ctl.currentRaw \in MaybeContent /\ ctl.next \in MaybeContent /\ ctl.request \in Requests
  BY <1>1 DEF Loops
<1>3. ctl.request.rev \in SUBSET Contents /\ ctl.request.reply \in BOOLEAN
  BY <1>2 DEF Requests
<1>4. \A e \in Editors : editor[e].shown \in MaybeContent /\ editor[e].call \in Calls
  BY <1>1
<1>5. \A e \in Editors : /\ editor[e].call.at \in Held \cup {"none", "restore"}
                         /\ editor[e].call.raw \in MaybeContent
                         /\ editor[e].call.candidate \in MaybeContent
  BY <1>4 DEF Calls
<1> QED  BY <1>2, <1>3, <1>4, <1>5

LEMMA NoneTyped ==
  /\ NoHandler \in Calls /\ NoHandler.at = "none"
  /\ NoHandler.raw = Nothing /\ NoHandler.candidate = Nothing
  /\ NoRequest \in Requests /\ NoRequest.rev = Anything /\ NoRequest.reply = FALSE
BY DEF NoHandler, Calls, MaybeContent, NoRequest, Requests, Anything

CallIs(e, call) == editor' = [editor EXCEPT ![e].call = call]

LEMMA CallIsEffect ==
  ASSUME ConfigTypeOK, NEW e \in Editors, NEW call \in Calls, CallIs(e, call)
  PROVE  /\ editor' \in [Editors -> [shown : MaybeContent, call : Calls]]
         /\ editor'[e].call = call /\ editor'[e].shown = editor[e].shown
         /\ \A f \in Editors : f # e => editor'[f] = editor[f]
<1> DEFINE row == [editor[e] EXCEPT !.call = call]
<1>1. editor[e] \in [shown : MaybeContent, call : Calls]
  BY DEF ConfigTypeOK
<1>2. row \in [shown : MaybeContent, call : Calls] /\ row.call = call /\ row.shown = editor[e].shown
  BY <1>1
<1>3. editor' = [editor EXCEPT ![e] = row]
  BY DEF CallIs
<1> HIDE DEF row
<1> QED  BY <1>2, <1>3 DEF ConfigTypeOK

LEMMA AnswerEffect ==
  ASSUME ConfigTypeOK, NEW e \in Editors, Answer(e)
  PROVE  CallIs(e, NoHandler)
BY DEF Answer, CallIs

LEMMA RequestDoneEffect ==
  ASSUME NEW cfg \in MaybeContent, NEW raw \in MaybeContent, NEW at \in Places,
         RequestDone(cfg, raw, at)
  PROVE  /\ ctl' \in Loops /\ ctl'.at = at /\ ctl'.cfg = cfg /\ ctl'.activeRaw = raw
         /\ ctl'.request = NoRequest /\ ctl'.currentRaw = Nothing /\ ctl'.next = Nothing
BY NoneTyped DEF RequestDone, Loops, MaybeContent

LEMMA ProcessEndsEffect ==
  ASSUME ConfigTypeOK, ProcessEnds
  PROVE  /\ ctl' \in Loops /\ ctl'.at = "off" /\ ctl'.cfg = Nothing /\ ctl'.activeRaw = Nothing
         /\ ctl'.request = NoRequest /\ ctl'.currentRaw = Nothing /\ ctl'.next = Nothing
         /\ queue' = <<>> /\ sighup' = "none" /\ lock' = "free"
         /\ editor' \in [Editors -> [shown : MaybeContent, call : Calls]]
         /\ \A e \in Editors : editor'[e].call = NoHandler /\ editor'[e].shown = editor[e].shown
<1>1. /\ ctl' \in Loops /\ ctl'.at = "off" /\ ctl'.cfg = Nothing /\ ctl'.activeRaw = Nothing
      /\ ctl'.request = NoRequest /\ ctl'.currentRaw = Nothing /\ ctl'.next = Nothing
  BY NoneTyped DEF ProcessEnds, Loops, MaybeContent, Places
<1>2. editor' = [e \in Editors |-> [editor[e] EXCEPT !.call = NoHandler]]
  BY DEF ProcessEnds
<1>3. \A e \in Editors : editor[e] \in [shown : MaybeContent, call : Calls]
  BY DEF ConfigTypeOK
<1>4. \A e \in Editors :
        /\ [editor[e] EXCEPT !.call = NoHandler] \in [shown : MaybeContent, call : Calls]
        /\ [editor[e] EXCEPT !.call = NoHandler].call = NoHandler
        /\ [editor[e] EXCEPT !.call = NoHandler].shown = editor[e].shown
  BY <1>3, NoneTyped
<1>5. /\ editor' \in [Editors -> [shown : MaybeContent, call : Calls]]
      /\ \A e \in Editors : editor'[e].call = NoHandler /\ editor'[e].shown = editor[e].shown
  BY <1>2, <1>4
<1> QED  BY <1>1, <1>5 DEF ProcessEnds

\* Only the place of the loop changes.
LoopGoes(at) == ctl' = [ctl EXCEPT !.at = at]

LEMMA LoopGoesEffect ==
  ASSUME ConfigTypeOK, NEW at \in Places, LoopGoes(at)
  PROVE  /\ ctl' \in Loops /\ ctl'.at = at /\ ctl'.cfg = ctl.cfg /\ ctl'.activeRaw = ctl.activeRaw
         /\ ctl'.request = ctl.request /\ ctl'.currentRaw = ctl.currentRaw /\ ctl'.next = ctl.next
BY DEF ConfigTypeOK, LoopGoes, Loops
-----------------------------------------------------------------------------
(* Contents, and the end of the process *)

LEMMA NothingIsNone == Nothing \notin Contents
<1>1. \A c \in Contents : "parses" \in DOMAIN c
  BY DEF Contents
<1>2. "parses" \notin DOMAIN Nothing
  BY DEF Nothing
<1> QED  BY <1>1, <1>2

\* A content that an edit of the file has just produced.
NewCandidate(c) ==
  Serving /\ \E edit \in Edits : /\ CanApply(file, edit)
                                 /\ c = applyEditableControllerConfig(file, edit)
                                 /\ loadReloadControllerConfig(c)

LEMMA ContentStep ==
  ASSUME ConfigTypeOK, LoopInv, ContentInv,
         hand' = 0 => hand = 0,
         secrets' = 0 => secrets = 0 /\ secret' = secret,
         hand' = 0 => \A c \in Around' : c \in Around \/ c = Nothing \/ NewCandidate(c)
  PROVE  ContentInv'
<1>1. file \in Around /\ ctl.cfg \in Around /\ file # Nothing
  BY NothingIsNone DEF Around, ConfigTypeOK
<1>2. ASSUME hand = 0, NEW c, NewCandidate(c)  PROVE Whitelisted(c)
  <2>1. PICK edit \in Edits : CanApply(file, edit) /\ c = applyEditableControllerConfig(file, edit)
    BY <1>2 DEF NewCandidate
  <2>2. edit \in Documents
    BY ConfigAssumption
  <2>3. Protected(c) = Protected(file)
    BY <2>1, <2>2, ApplyTyped DEF ConfigTypeOK
  <2> QED  BY <1>1, <1>2, <2>3 DEF ContentInv, Whitelisted
<1>3. ASSUME hand = 0, secrets = 0, NEW c, NewCandidate(c)  PROVE Valid(c)
  <2>1. LoadController(c, "s0") /\ validateControllerReload(ctl.cfg, c)
    BY <1>3 DEF NewCandidate, loadReloadControllerConfig, ContentInv
  <2>2. ctl.cfg \in Contents
    BY <1>3 DEF NewCandidate, Serving, LoopInv
  <2>3. validateControllerReload(FirstContent, ctl.cfg)
    BY <1>1, <1>3, <2>2, NothingIsNone DEF ContentInv, Valid
  <2> QED  BY <2>1, <2>3 DEF Valid, validateControllerReload
<1>4. hand' = 0 => \A c \in Around' : Whitelisted(c)
  BY <1>2 DEF ContentInv, Whitelisted
<1>5. hand' = 0 /\ secrets' = 0 => \A c \in Around' : Valid(c)
  BY <1>3 DEF ContentInv, Valid
<1>6. secrets' = 0 => secret' = "s0"
  BY DEF ContentInv
<1> QED  BY <1>4, <1>5, <1>6 DEF ContentInv

\* Nobody has touched the files: the file loads, so it is readable.
LEMMA FileReadable ==
  ASSUME ConfigTypeOK, ContentInv, hand = 0, secrets = 0
  PROVE  /\ file # Unreadable
         /\ ctl.at # "off" /\ LoopInv => loadReloadControllerConfig(file)
<1>1. file \in Around /\ ctl.cfg \in Around /\ file # Nothing
  BY NothingIsNone DEF Around, ConfigTypeOK
<1>2. LoadController(file, "s0") /\ validateControllerReload(FirstContent, file)
  BY <1>1 DEF ContentInv, Valid
<1>3. file # Unreadable
  <2>1. Unreadable.parses = FALSE
    BY DEF Unreadable
  <2>2. file.parses
    BY <1>2 DEF LoadController
  <2> QED  BY <2>1, <2>2
<1>4. ASSUME ctl.at # "off", LoopInv  PROVE validateControllerReload(FirstContent, ctl.cfg)
  BY <1>1, <1>4, NothingIsNone DEF ContentInv, Valid, LoopInv
<1> QED
  BY <1>2, <1>3, <1>4 DEF loadReloadControllerConfig, ContentInv, validateControllerReload

LEMMA EndStep ==
  ASSUME ConfigInv, ProcessEnds, UNCHANGED <<file, secret, hand, secrets, updateCalls, refused>>,
         configFaults' \in Nat,
         hand = 0 /\ secrets = 0 /\ ~refused => configFaults' # 0
  PROVE  ConfigInv'
<1> USE ProcessEndsEffect, NoneTyped
<1> ConfigTypeOK
  BY DEF ConfigInv
<1>1. ConfigTypeOK'
  <2>1. queue' \in Seq(Requests)
    OBVIOUS
  <2> QED  BY <2>1 DEF ConfigTypeOK
<1>2. LoopInv'
  BY DEF ConfigInv, LoopInv, Busy
<1>3. LockInv'
  BY DEF ConfigInv, LockInv, Held
<1>4. ContentInv'
  <2>1. \A c \in Around' : c = file \/ c = Nothing
    BY DEF ConfigInv, Around
  <2>2. file \in Around
    BY DEF Around
  <2> QED  BY <2>1, <2>2, ContentStep DEF ConfigInv
<1>5. ForceInv' /\ WritersExclude' /\ SighupIsAnswered'
  BY DEF ConfigInv, ForceInv, WritersExclude, SighupIsAnswered, Busy
<1>6. NeverGivesUp'
  BY DEF ConfigInv, NeverGivesUp
<1> QED  BY <1>1, <1>2, <1>3, <1>4, <1>5, <1>6 DEF ConfigInv
-----------------------------------------------------------------------------
(* The handlers *)

LEMMA GetStep ==
  ASSUME ConfigInv, NEW e \in Editors, GetEditableConfig(e)
  PROVE  ConfigInv'
<1> DEFINE row == [editor[e] EXCEPT !.shown = file]
<1>0. ConfigTypeOK /\ file \in Contents
  BY DEF ConfigInv, ConfigTypeOK
<1>1. editor' = [editor EXCEPT ![e] = row]
  BY DEF GetEditableConfig
<1>2. row \in [shown : MaybeContent, call : Calls] /\ row.call = editor[e].call
  BY <1>0 DEF ConfigTypeOK, MaybeContent
<1> HIDE DEF row
<1>3. /\ editor' \in [Editors -> [shown : MaybeContent, call : Calls]]
      /\ \A f \in Editors : editor'[f].call = editor[f].call
  BY <1>0, <1>1, <1>2 DEF ConfigTypeOK
<1>4. UNCHANGED <<file, secret, lock, ctl, queue, sighup, hand, secrets, reloads, updateCalls,
                  configFaults, refused>>
  BY DEF GetEditableConfig, configHistory
<1>5. ConfigTypeOK' /\ LoopInv'
  BY <1>0, <1>3, <1>4 DEF ConfigInv, ConfigTypeOK, LoopInv
<1>6. LockInv' /\ WritersExclude'
  BY <1>3, <1>4 DEF ConfigInv, LockInv, WritersExclude, Serving
<1>7. ContentInv'
  <2>1. \A c \in Around' : c \in Around
    BY <1>3, <1>4 DEF Around
  <2> QED  BY <1>4, <2>1, ContentStep DEF ConfigInv
<1>8. ForceInv'
  <2>1. (AtQueue' <=> AtQueue) /\ (Due' <=> Due)
    BY <1>3, <1>4 DEF AtQueue, Due
  <2> QED  BY <1>3, <1>4, <2>1 DEF ConfigInv, ForceInv
<1>9. NeverGivesUp' /\ SighupIsAnswered'
  BY <1>4 DEF ConfigInv, NeverGivesUp, SighupIsAnswered
<1> QED  BY <1>5, <1>6, <1>7, <1>8, <1>9 DEF ConfigInv

LEMMA UpdateStep ==
  ASSUME ConfigInv, NEW e \in Editors, NEW edit \in Edits, UpdateEditableConfig(e, edit)
  PROVE  ConfigInv'
<1> DEFINE candidate == applyEditableControllerConfig(file, edit)
           call == [at |-> "checked", raw |-> file, candidate |-> candidate]
<1>0. ConfigTypeOK /\ file \in Contents /\ edit \in Documents
  BY ConfigAssumption DEF ConfigInv, ConfigTypeOK
<1>1. /\ editor[e].call.at = "none" /\ Serving /\ lock = "free" /\ CanApply(file, edit)
      /\ lock' = e /\ CallIs(e, call) /\ updateCalls' = updateCalls + 1
      /\ loadReloadControllerConfig(candidate)
  BY DEF UpdateEditableConfig, EnsureAvailable, CallIs
<1>2. UNCHANGED <<file, secret, ctl, queue, sighup, hand, secrets, configFaults, refused>>
  BY DEF UpdateEditableConfig
<1>3. candidate \in Contents
  BY <1>0, <1>1, ApplyTyped
<1>4. NewCandidate(candidate)
  BY <1>1 DEF NewCandidate
<1> HIDE DEF candidate
<1>5. call \in Calls /\ call.at = "checked" /\ call.raw = file /\ call.candidate = candidate
  BY <1>0, <1>3 DEF Calls, MaybeContent, Held
<1> HIDE DEF call
<1>6. /\ editor' \in [Editors -> [shown : MaybeContent, call : Calls]] /\ editor'[e].call = call
      /\ \A f \in Editors : f # e => editor'[f] = editor[f]
  BY <1>0, <1>1, <1>5, CallIsEffect
<1>7. ConfigTypeOK' /\ LoopInv'
  BY <1>0, <1>1, <1>2, <1>6 DEF ConfigInv, ConfigTypeOK, LoopInv
<1>8. LockInv' /\ WritersExclude'
  BY <1>0, <1>1, <1>2, <1>3, <1>5, <1>6, ConfigAssumption
  DEF ConfigInv, LockInv, WritersExclude, Serving, Held
<1>9. ContentInv'
  <2>1. \A c \in Around' : c \in Around \/ c = candidate
    BY <1>2, <1>5, <1>6 DEF Around
  <2> QED  BY <1>2, <1>4, <2>1, ContentStep DEF ConfigInv
<1>10. ForceInv'
  <2>1. (AtQueue' <=> AtQueue) /\ (Due' <=> Due)
    BY <1>1, <1>2, <1>5, <1>6 DEF AtQueue, Due
  <2> QED  BY <1>2, <1>5, <1>6, <2>1 DEF ConfigInv, ForceInv
<1>11. NeverGivesUp' /\ SighupIsAnswered'
  BY <1>1, <1>2 DEF ConfigInv, NeverGivesUp, SighupIsAnswered, Serving
<1> QED  BY <1>7, <1>8, <1>9, <1>10, <1>11 DEF ConfigInv

\* A handler gives up before it has written: the lock is free again.
LEMMA AnswerStep ==
  ASSUME ConfigInv, NEW e \in Editors, editor[e].call.at \in {"checked", "write"},
         Answer(e), lock' = "free", configFaults' \in Nat, configFaults' >= configFaults,
         UNCHANGED <<file, secret, ctl, queue, sighup, hand, secrets, updateCalls, refused>>
  PROVE  ConfigInv'
<1>0. ConfigTypeOK
  BY DEF ConfigInv
<1>1. /\ editor' \in [Editors -> [shown : MaybeContent, call : Calls]] /\ editor'[e].call = NoHandler
      /\ \A f \in Editors : f # e => editor'[f] = editor[f]
  BY <1>0, AnswerEffect, CallIsEffect, NoneTyped
<1>2. ConfigTypeOK' /\ LoopInv'
  BY <1>0, <1>1 DEF ConfigInv, ConfigTypeOK, LoopInv
<1>3. LockInv' /\ WritersExclude'
  BY <1>0, <1>1, NoneTyped, ConfigAssumption
  DEF ConfigInv, LockInv, WritersExclude, Serving, Held
<1>4. ContentInv'
  <2>1. \A c \in Around' : c \in Around \/ c = Nothing
    BY <1>1, NoneTyped DEF Around
  <2> QED  BY <2>1, ContentStep DEF ConfigInv
<1>5. ForceInv'
  <2>1. (AtQueue' <=> AtQueue) /\ (Due' <=> Due)
    BY <1>1, NoneTyped DEF AtQueue, Due
  <2> QED  BY <1>1, <2>1, NoneTyped DEF ConfigInv, ForceInv
<1>6. NeverGivesUp' /\ SighupIsAnswered'
  BY <1>0 DEF ConfigInv, ConfigTypeOK, NeverGivesUp, SighupIsAnswered
<1> QED  BY <1>2, <1>3, <1>4, <1>5, <1>6 DEF ConfigInv

\* The place of one handler, its contents kept.
HandlerGoes(e, at) == editor' = [editor EXCEPT ![e].call.at = at]

LEMMA HandlerGoesEffect ==
  ASSUME ConfigTypeOK, NEW e \in Editors, NEW at \in Held \cup {"none", "restore"}, HandlerGoes(e, at)
  PROVE  /\ editor' \in [Editors -> [shown : MaybeContent, call : Calls]]
         /\ editor'[e].call.at = at /\ editor'[e].call.raw = editor[e].call.raw
         /\ editor'[e].call.candidate = editor[e].call.candidate
         /\ \A f \in Editors : f # e => editor'[f] = editor[f]
<1> DEFINE call == [editor[e].call EXCEPT !.at = at]
<1>1. editor[e].call \in Calls
  BY Fields
<1>2. /\ call \in Calls /\ call.at = at /\ call.raw = editor[e].call.raw
      /\ call.candidate = editor[e].call.candidate
  BY <1>1 DEF Calls
<1>3. CallIs(e, call)
  BY DEF HandlerGoes, CallIs
<1> HIDE DEF call
<1> QED  BY <1>2, <1>3, CallIsEffect

LEMMA CheckStep ==
  ASSUME ConfigInv, NEW e \in Editors, CheckUnchanged(e)
  PROVE  ConfigInv'
<1>0. ConfigTypeOK /\ editor[e].call.at = "checked"
  BY DEF ConfigInv, CheckUnchanged
<1>1. UNCHANGED <<file, secret, ctl, queue, sighup, hand, secrets, updateCalls, configFaults, refused>>
  BY DEF CheckUnchanged, configHistory
<1>2. CASE file # editor[e].call.raw
  <2>1. Answer(e) /\ lock' = "free"
    BY <1>2 DEF CheckUnchanged
  <2>2. configFaults' \in Nat /\ configFaults' >= configFaults
    BY <1>0, <1>1 DEF ConfigTypeOK
  <2> QED  BY <1>0, <1>1, <2>1, <2>2, AnswerStep
<1>3. CASE file = editor[e].call.raw
  <2>1. HandlerGoes(e, "write") /\ lock' = lock
    BY <1>3 DEF CheckUnchanged, HandlerGoes
  <2>2. /\ editor' \in [Editors -> [shown : MaybeContent, call : Calls]]
        /\ editor'[e].call.at = "write" /\ editor'[e].call.raw = editor[e].call.raw
        /\ editor'[e].call.candidate = editor[e].call.candidate
        /\ \A f \in Editors : f # e => editor'[f] = editor[f]
    BY <1>0, <2>1, HandlerGoesEffect DEF Held
  <2>3. ConfigTypeOK' /\ LoopInv'
    BY <1>0, <1>1, <2>1, <2>2 DEF ConfigInv, ConfigTypeOK, LoopInv
  <2>4. LockInv' /\ WritersExclude'
    BY <1>0, <1>1, <1>3, <2>1, <2>2 DEF ConfigInv, LockInv, WritersExclude, Serving, Held
  <2>5. ContentInv'
    <3>1. \A c \in Around' : c \in Around
      BY <1>1, <2>2 DEF Around
    <3> QED  BY <1>1, <3>1, ContentStep DEF ConfigInv
  <2>6. ForceInv'
    <3>1. (AtQueue' <=> AtQueue) /\ (Due' <=> Due)
      BY <1>0, <1>1, <2>2 DEF AtQueue, Due
    <3> QED  BY <1>1, <2>2, <3>1 DEF ConfigInv, ForceInv
  <2>7. NeverGivesUp' /\ SighupIsAnswered'
    BY <1>1 DEF ConfigInv, NeverGivesUp, SighupIsAnswered
  <2> QED  BY <2>3, <2>4, <2>5, <2>6, <2>7 DEF ConfigInv
<1> QED  BY <1>2, <1>3

LEMMA WriteStep ==
  ASSUME ConfigInv, NEW e \in Editors, WriteCandidate(e)
  PROVE  ConfigInv'
<1>0. ConfigTypeOK /\ editor[e].call.at = "write" /\ configFaults \in Nat
  BY DEF ConfigInv, WriteCandidate, ConfigTypeOK
<1>1. UNCHANGED <<secret, ctl, queue, sighup, hand, secrets, updateCalls, refused>>
  BY DEF WriteCandidate
<1>2. CASE ConfigFault /\ Answer(e) /\ lock' = "free" /\ UNCHANGED file
  <2>1. configFaults' \in Nat /\ configFaults' >= configFaults
    BY <1>0, <1>2 DEF ConfigFault
  <2> QED  BY <1>0, <1>1, <1>2, <2>1, AnswerStep
<1>3. CASE /\ file' = editor[e].call.candidate /\ HandlerGoes(e, "queue")
           /\ UNCHANGED <<lock, configFaults>>
  <2>1. /\ editor' \in [Editors -> [shown : MaybeContent, call : Calls]]
        /\ editor'[e].call.at = "queue" /\ editor'[e].call.raw = editor[e].call.raw
        /\ editor'[e].call.candidate = editor[e].call.candidate
        /\ \A f \in Editors : f # e => editor'[f] = editor[f]
    BY <1>0, <1>3, HandlerGoesEffect DEF Held
  <2>2. /\ lock = e /\ (Serving \/ ctl.at = "stopping")
        /\ editor[e].call.raw \in Contents /\ editor[e].call.candidate \in Contents
        /\ \A f \in Editors : f # e => editor[f].call.at \notin Held
    BY <1>0 DEF ConfigInv, LockInv, Held
  <2>3. ConfigTypeOK' /\ LoopInv'
    BY <1>0, <1>1, <1>3, <2>1, <2>2 DEF ConfigInv, ConfigTypeOK, LoopInv
  <2>4. LockInv'
    BY <1>1, <1>3, <2>1, <2>2 DEF ConfigInv, LockInv, Serving, Held
  <2>5. WritersExclude'
    BY <1>1, <1>3, <2>1, <2>2 DEF WritersExclude, Held
  <2>6. ContentInv'
    <3>1. \A c \in Around' : c \in Around
      BY <1>1, <1>3, <2>1 DEF Around
    <3> QED  BY <1>1, <3>1, ContentStep DEF ConfigInv
  <2>7. ForceInv'
    <3>1. AtQueue' /\ Due'
      BY <2>1 DEF AtQueue, Due
    <3>2. hand = 0 /\ ~refused /\ ctl.at = "checking" /\ ctl.next # ctl.currentRaw => queue # <<>>
      BY <1>0, <2>2 DEF ConfigInv, ForceInv, AtQueue, Held
    <3> QED  BY <1>0, <1>1, <2>1, <2>2, <3>1, <3>2 DEF ConfigInv, ForceInv, Serving
  <2>8. NeverGivesUp' /\ SighupIsAnswered'
    BY <1>1, <1>3, <2>2 DEF ConfigInv, NeverGivesUp, SighupIsAnswered, Serving
  <2> QED  BY <2>3, <2>4, <2>5, <2>6, <2>7, <2>8 DEF ConfigInv
<1> QED  BY <1>2, <1>3 DEF WriteCandidate, HandlerGoes

LEMMA EnqueueEffect ==
  ASSUME ConfigTypeOK, NEW r \in Requests, requestControllerReload(r)
  PROVE  /\ queue = <<>> /\ DOMAIN queue = {}
         /\ queue' \in Seq(Requests) /\ Len(queue') = 1 /\ queue' # <<>>
         /\ Head(queue') = r /\ 1 \in DOMAIN queue' /\ queue'[1] = r
<1>1. queue \in Seq(Requests) /\ Len(queue) < 1 /\ queue' = Append(queue, r)
  BY DEF ConfigTypeOK, requestControllerReload
<1>2. queue = <<>>
  BY <1>1
<1>3. queue' = <<r>>
  BY <1>1, <1>2
<1> QED  BY <1>2, <1>3

LEMMA QueueStep ==
  ASSUME ConfigInv, NEW e \in Editors, QueueReload(e)
  PROVE  ConfigInv'
<1>0. ConfigTypeOK /\ editor[e].call.at = "queue"
  BY DEF ConfigInv, QueueReload
<1>1. UNCHANGED <<file, secret, ctl, sighup, hand, secrets, updateCalls, configFaults>> /\ lock' = "free"
  BY DEF QueueReload
<1>2. /\ editor[e].call.candidate \in Contents /\ editor[e].call.raw \in Contents
      /\ Serving \/ ctl.at = "stopping"
      /\ \A f \in Editors : f # e => editor[f].call.at \notin Held
  BY <1>0 DEF ConfigInv, LockInv, Held
<1> DEFINE r == [rev |-> {editor[e].call.candidate}, reply |-> FALSE]
<1>3. r \in Requests /\ r.rev = {editor[e].call.candidate}
  BY <1>2 DEF Requests
<1>4. CASE requestControllerReload(r) /\ Answer(e) /\ UNCHANGED refused
  <2> HIDE DEF r
  <2>1. /\ queue = <<>> /\ DOMAIN queue = {} /\ queue' \in Seq(Requests) /\ Len(queue') = 1
        /\ queue' # <<>> /\ Head(queue') = r
    BY <1>0, <1>3, <1>4, EnqueueEffect
  <2>2. /\ editor' \in [Editors -> [shown : MaybeContent, call : Calls]]
        /\ editor'[e].call = NoHandler
        /\ \A f \in Editors : f # e => editor'[f] = editor[f]
    BY <1>0, <1>4, AnswerEffect, CallIsEffect, NoneTyped
  <2>3. ConfigTypeOK' /\ LoopInv'
    BY <1>0, <1>1, <1>4, <2>1, <2>2 DEF ConfigInv, ConfigTypeOK, LoopInv
  <2>4. LockInv' /\ WritersExclude'
    BY <1>1, <1>2, <2>2, NoneTyped DEF ConfigInv, LockInv, WritersExclude, Serving, Held
  <2>5. ContentInv'
    <3>1. \A c \in Around' : c \in Around \/ c = Nothing
      BY <1>1, <2>2, NoneTyped DEF Around
    <3> QED  BY <1>1, <3>1, ContentStep DEF ConfigInv
  <2>6. ForceInv'
    <3>1. hand = 0 => Due'
      BY <1>0, <1>1, <1>3, <2>1 DEF ConfigInv, WritersExclude, Due
    <3>2. hand = 0 /\ ~refused /\ ctl.at \in {"checking", "stopping"} /\ ctl.next # ctl.currentRaw
            => ctl.at = "checking" /\ file = ctl.next
      BY <2>1 DEF ConfigInv, ForceInv
    <3>3. hand = 0 /\ ~refused => \A f \in Editors : editor'[f].call.at # "restore"
      BY <2>2, NoneTyped DEF ConfigInv, ForceInv
    <3>4. hand' = hand /\ refused' = refused /\ ctl' = ctl /\ file' = file
      BY <1>1, <1>4
    <3> QED  BY <2>1, <3>1, <3>2, <3>3, <3>4 DEF ConfigInv, ForceInv
  <2>7. NeverGivesUp' /\ SighupIsAnswered'
    BY <1>1, <1>4, <2>1 DEF ConfigInv, NeverGivesUp, SighupIsAnswered
  <2> QED  BY <2>3, <2>4, <2>5, <2>6, <2>7 DEF ConfigInv
<1>5. CASE HandlerGoes(e, "restore") /\ refused' = TRUE /\ UNCHANGED queue
  <2>1. /\ editor' \in [Editors -> [shown : MaybeContent, call : Calls]]
        /\ editor'[e].call.at = "restore" /\ editor'[e].call.raw = editor[e].call.raw
        /\ editor'[e].call.candidate = editor[e].call.candidate
        /\ \A f \in Editors : f # e => editor'[f] = editor[f]
    BY <1>0, <1>5, HandlerGoesEffect
  <2>2. ConfigTypeOK' /\ LoopInv'
    BY <1>0, <1>1, <1>5, <2>1 DEF ConfigInv, ConfigTypeOK, LoopInv
  <2>3. LockInv' /\ WritersExclude'
    BY <1>1, <1>2, <2>1 DEF ConfigInv, LockInv, WritersExclude, Serving, Held
  <2>4. ContentInv'
    <3>1. \A c \in Around' : c \in Around
      BY <1>1, <2>1 DEF Around
    <3> QED  BY <1>1, <3>1, ContentStep DEF ConfigInv
  <2>5. ForceInv' /\ NeverGivesUp'
    BY <1>5 DEF ForceInv, NeverGivesUp
  <2>6. SighupIsAnswered'
    BY <1>1, <1>5 DEF ConfigInv, SighupIsAnswered
  <2> QED  BY <2>2, <2>3, <2>4, <2>5, <2>6 DEF ConfigInv
<1> QED  BY <1>4, <1>5 DEF QueueReload, HandlerGoes

LEMMA RestoreEffect ==
  ASSUME ConfigTypeOK, NEW expected, NEW content \in Contents,
         restoreControllerConfigIfCurrent(expected, content)
  PROVE  /\ file' \in {file, content} /\ file' \in Contents /\ (file # expected => file' = file)
         /\ configFaults' \in Nat /\ configFaults' >= configFaults
<1>1. file \in Contents /\ configFaults \in Nat
  BY DEF ConfigTypeOK
<1> QED
  BY <1>1 DEF restoreControllerConfigIfCurrent, atomicWriteControllerConfig, ConfigFault

LEMMA RefusalStep ==
  ASSUME ConfigInv, NEW e \in Editors, RestoreAfterRefusal(e)
  PROVE  ConfigInv'
<1>0. ConfigTypeOK /\ editor[e].call.at = "restore" /\ lock = "free" /\ Answer(e)
  BY DEF ConfigInv, RestoreAfterRefusal
<1>1. UNCHANGED <<secret, lock, ctl, queue, sighup, hand, secrets, updateCalls, refused>>
  BY DEF RestoreAfterRefusal
<1>2. editor[e].call.raw \in Contents /\ \A f \in Editors : editor[f].call.at \notin Held
  BY <1>0, ConfigAssumption DEF ConfigInv, LockInv
<1>3. hand = 0 => refused
  BY <1>0 DEF ConfigInv, ForceInv
<1>4. /\ file' \in {file, editor[e].call.raw} /\ file' \in Contents
      /\ configFaults' \in Nat /\ configFaults' >= configFaults
  BY <1>0, <1>2, RestoreEffect DEF RestoreAfterRefusal
<1>5. /\ editor' \in [Editors -> [shown : MaybeContent, call : Calls]]
      /\ editor'[e].call = NoHandler
      /\ \A f \in Editors : f # e => editor'[f] = editor[f]
  BY <1>0, AnswerEffect, CallIsEffect, NoneTyped
<1>6. ConfigTypeOK' /\ LoopInv'
  BY <1>0, <1>1, <1>4, <1>5 DEF ConfigInv, ConfigTypeOK, LoopInv
<1>7. LockInv' /\ WritersExclude'
  BY <1>1, <1>2, <1>5, NoneTyped DEF ConfigInv, LockInv, WritersExclude, Serving, Held
<1>8. ContentInv'
  <2>1. \A c \in Around' : c \in Around \/ c = Nothing
    BY <1>1, <1>4, <1>5, NoneTyped DEF Around
  <2> QED  BY <1>1, <2>1, ContentStep DEF ConfigInv
<1>9. ForceInv' /\ NeverGivesUp'
  BY <1>1, <1>3 DEF ForceInv, NeverGivesUp
<1>10. SighupIsAnswered'
  BY <1>1 DEF ConfigInv, SighupIsAnswered
<1> QED  BY <1>6, <1>7, <1>8, <1>9, <1>10 DEF ConfigInv
-----------------------------------------------------------------------------
(* Reload requests *)

LEMMA RequestStep ==
  ASSUME ConfigInv, NEW r \in Requests, requestControllerReload(r),
         UNCHANGED <<file, secret, lock, ctl, editor, hand, secrets, updateCalls, configFaults, refused>>,
         sighup' \in {"none", "sending", "waiting"},
         sighup' = "waiting" => sighup = "waiting" \/ r.reply
  PROVE  ConfigInv'
<1>0. ConfigTypeOK
  BY DEF ConfigInv
<1>1. /\ queue = <<>> /\ DOMAIN queue = {} /\ queue' \in Seq(Requests) /\ Len(queue') = 1
      /\ queue' # <<>> /\ 1 \in DOMAIN queue' /\ queue'[1] = r
  BY <1>0, EnqueueEffect
<1>2. ConfigTypeOK' /\ LoopInv' /\ LockInv' /\ WritersExclude'
  BY <1>0, <1>1 DEF ConfigInv, ConfigTypeOK, LoopInv, LockInv, WritersExclude, Serving
<1>3. ContentInv'
  <2>1. \A c \in Around' : c \in Around
    BY DEF Around
  <2> QED  BY <2>1, ContentStep DEF ConfigInv
<1>4. ForceInv'
  <2>1. (AtQueue' <=> AtQueue) /\ (Due => Due') /\ (Due => AtQueue)
    BY <1>1 DEF AtQueue, Due
  <2> QED  BY <1>1, <2>1 DEF ConfigInv, ForceInv
<1>5. NeverGivesUp' /\ SighupIsAnswered'
  BY <1>1 DEF ConfigInv, NeverGivesUp, SighupIsAnswered
<1> QED  BY <1>2, <1>3, <1>4, <1>5 DEF ConfigInv

LEMMA ReloadStep ==
  ASSUME ConfigInv, ReloadControllerConfig
  PROVE  ConfigInv'
<1> DEFINE r == [rev |-> Anything, reply |-> FALSE]
<1>1. r \in Requests
  BY DEF Requests, Anything
<1>2. requestControllerReload(r)
  BY DEF ReloadControllerConfig
<1>3. /\ UNCHANGED <<file, secret, lock, ctl, editor, hand, secrets, updateCalls, configFaults, refused>>
      /\ sighup' = sighup /\ sighup' \in {"none", "sending", "waiting"}
  BY DEF ReloadControllerConfig, ConfigInv, ConfigTypeOK
<1> HIDE DEF r
<1> QED  BY <1>1, <1>2, <1>3, RequestStep

LEMMA WaitStep ==
  ASSUME ConfigInv, requestControllerReloadAndWait
  PROVE  ConfigInv'
<1> DEFINE r == [rev |-> Anything, reply |-> TRUE]
<1>1. r \in Requests /\ r.reply
  BY DEF Requests, Anything
<1>2. requestControllerReload(r)
  BY DEF requestControllerReloadAndWait
<1>3. /\ UNCHANGED <<file, secret, lock, ctl, editor, hand, secrets, updateCalls, configFaults, refused>>
      /\ sighup' = "waiting"
  BY DEF requestControllerReloadAndWait, configHistory
<1> HIDE DEF r
<1> QED  BY <1>1, <1>2, <1>3, RequestStep

LEMMA SighupStep ==
  ASSUME ConfigInv, Sighup
  PROVE  ConfigInv'
<1>0. ConfigTypeOK
  BY DEF ConfigInv
<1>1. /\ UNCHANGED <<file, secret, lock, ctl, queue, editor, hand, secrets, updateCalls, configFaults, refused>>
      /\ sighup' = "sending"
  BY DEF Sighup
<1>2. ConfigTypeOK' /\ LoopInv' /\ LockInv' /\ WritersExclude'
  BY <1>0, <1>1 DEF ConfigInv, ConfigTypeOK, LoopInv, LockInv, WritersExclude, Serving
<1>3. ContentInv'
  <2>1. \A c \in Around' : c \in Around
    BY <1>1 DEF Around
  <2> QED  BY <1>1, <2>1, ContentStep DEF ConfigInv
<1>4. ForceInv'
  <2>1. (AtQueue' <=> AtQueue) /\ (Due' <=> Due)
    BY <1>1 DEF AtQueue, Due
  <2> QED  BY <1>1, <2>1 DEF ConfigInv, ForceInv
<1>5. NeverGivesUp' /\ SighupIsAnswered'
  BY <1>1 DEF ConfigInv, NeverGivesUp, SighupIsAnswered
<1> QED  BY <1>2, <1>3, <1>4, <1>5 DEF ConfigInv
-----------------------------------------------------------------------------
(* The main loop *)

\* A step of the loop that leaves the file and the handlers alone.
LEMMA LoopFrame ==
  ASSUME ConfigInv, UNCHANGED <<file, secret, lock, editor, hand, secrets, updateCalls, refused>>,
         ctl' \in Loops, queue' \in Seq(Requests), sighup' \in {"none", "sending", "waiting"},
         configFaults' \in Nat,
         {ctl'.cfg, ctl'.activeRaw, ctl'.currentRaw, ctl'.next} \subseteq Around \cup {Nothing},
         \/ ctl'.at \in {"running", "loading", "checking", "rollback", "stopping"}
         \/ \A e \in Editors : editor[e].call.at = "none"
  PROVE  ConfigTypeOK' /\ LockInv' /\ ContentInv' /\ WritersExclude'
<1>1. ConfigTypeOK'
  BY DEF ConfigInv, ConfigTypeOK
<1>2. LockInv' /\ WritersExclude'
  BY DEF ConfigInv, LockInv, WritersExclude, Serving, Held
<1>3. ContentInv'
  <2>1. \A c \in Around' : c \in Around \/ c = Nothing
    BY DEF Around
  <2> QED  BY <2>1, ContentStep DEF ConfigInv
<1> QED  BY <1>1, <1>2, <1>3

\* Handlers exist only in a runtime that serves or stops.
LEMMA NoHandlers ==
  ASSUME ConfigInv, ctl.at \in {"off", "loaded", "starting", "switching", "undo"}
  PROVE  ~AtQueue /\ \A e \in Editors : editor[e].call.at = "none"
BY DEF ConfigInv, LockInv, Serving, AtQueue

LEMMA RejectStep ==
  ASSUME ConfigInv, NEW request \in Requests, Rejected(request), ctl.at \notin {"off", "loaded"},
         UNCHANGED <<file, secret, lock, editor, hand, secrets, updateCalls, configFaults, refused>>,
         queue' \in Seq(Requests), Len(queue') <= 1,
         hand = 0 /\ ~refused => file = ctl.activeRaw \/ Due',
         sighup = "waiting" => request.reply \/ \E i \in DOMAIN queue' : queue'[i].reply
  PROVE  ConfigInv'
<1>0. ConfigTypeOK
  BY DEF ConfigInv
<1>1. /\ ctl' \in Loops /\ ctl'.at = "running" /\ ctl'.cfg = ctl.cfg /\ ctl'.activeRaw = ctl.activeRaw
      /\ ctl'.request = NoRequest /\ ctl'.currentRaw = Nothing /\ ctl'.next = Nothing
  BY <1>0, Fields, RequestDoneEffect DEF Rejected, Places
<1>2. sighup' = IF request.reply THEN "none" ELSE sighup
  BY DEF Rejected, Respond
<1>3. sighup' \in {"none", "sending", "waiting"} /\ configFaults' \in Nat
  BY <1>0, <1>2 DEF ConfigTypeOK
<1>4. {ctl'.cfg, ctl'.activeRaw, ctl'.currentRaw, ctl'.next} \subseteq Around \cup {Nothing}
  BY <1>1 DEF Around
<1>5. ConfigTypeOK' /\ LockInv' /\ ContentInv' /\ WritersExclude'
  BY <1>1, <1>3, <1>4, LoopFrame
<1>6. LoopInv'
  BY <1>1 DEF ConfigInv, LoopInv, Busy
<1>7. ForceInv'
  BY <1>1 DEF ConfigInv, ForceInv, Busy
<1>8. NeverGivesUp' /\ SighupIsAnswered'
  BY <1>1, <1>2 DEF ConfigInv, NeverGivesUp, SighupIsAnswered
<1> QED  BY <1>5, <1>6, <1>7, <1>8 DEF ConfigInv

LEMMA LoadStep ==
  ASSUME ConfigInv, LoadAtStart
  PROVE  ConfigInv'
<1>0. ConfigTypeOK /\ ctl \in Loops /\ file \in Contents /\ ctl.at = "off"
  BY DEF ConfigInv, ConfigTypeOK, LoadAtStart
<1>1. /\ UNCHANGED <<file, secret, lock, editor, hand, secrets, updateCalls, refused>>
      /\ UNCHANGED <<queue, sighup, configFaults>>
  BY DEF LoadAtStart, configHistory
<1>2. /\ ctl' \in Loops /\ ctl'.at = "loaded" /\ ctl'.cfg = file /\ ctl'.activeRaw = ctl.activeRaw
      /\ ctl'.request = ctl.request /\ ctl'.currentRaw = ctl.currentRaw /\ ctl'.next = ctl.next
  BY <1>0 DEF LoadAtStart, Loops, Places, MaybeContent
<1>3. {ctl'.cfg, ctl'.activeRaw, ctl'.currentRaw, ctl'.next} \subseteq Around \cup {Nothing}
  BY <1>2 DEF Around
<1>4. \A e \in Editors : editor[e].call.at = "none"
  BY <1>0, NoHandlers
<1>5. ConfigTypeOK' /\ LockInv' /\ ContentInv' /\ WritersExclude'
  BY <1>0, <1>1, <1>2, <1>3, <1>4, LoopFrame DEF ConfigTypeOK
<1>6. LoopInv'
  BY <1>0, <1>1, <1>2 DEF ConfigInv, LoopInv, Busy
<1>7. ForceInv'
  BY <1>1, <1>2, <1>4 DEF ForceInv, Busy
<1>8. NeverGivesUp' /\ SighupIsAnswered'
  BY <1>1, <1>2 DEF ConfigInv, NeverGivesUp, SighupIsAnswered
<1> QED  BY <1>5, <1>6, <1>7, <1>8 DEF ConfigInv

LEMMA ReadStep ==
  ASSUME ConfigInv, ReadAtStart
  PROVE  ConfigInv'
<1>0. ConfigTypeOK /\ ctl \in Loops /\ file \in Contents /\ ctl.at = "loaded" /\ ContentInv
  BY DEF ConfigInv, ConfigTypeOK, ReadAtStart
<1>1. /\ UNCHANGED <<file, secret, lock, editor, hand, secrets, updateCalls, refused>>
      /\ UNCHANGED <<queue, sighup, configFaults>>
  BY DEF ReadAtStart, configHistory
<1>2. /\ ctl' \in Loops /\ ctl'.cfg = ctl.cfg /\ ctl'.activeRaw \in {ctl.activeRaw, file}
      /\ ctl'.request = ctl.request /\ ctl'.currentRaw = ctl.currentRaw /\ ctl'.next = ctl.next
      /\ \/ ctl'.at = "off" /\ file = Unreadable
         \/ ctl'.at = "starting" /\ ctl'.activeRaw = file
  BY <1>0 DEF ReadAtStart, Loops, Places, MaybeContent
<1>3. {ctl'.cfg, ctl'.activeRaw, ctl'.currentRaw, ctl'.next} \subseteq Around \cup {Nothing}
  BY <1>2 DEF Around
<1>4. \A e \in Editors : editor[e].call.at = "none"
  BY <1>0, NoHandlers
<1>5. ConfigTypeOK' /\ LockInv' /\ ContentInv' /\ WritersExclude'
  BY <1>0, <1>1, <1>2, <1>3, <1>4, LoopFrame DEF ConfigTypeOK
<1>6. LoopInv'
  BY <1>0, <1>1, <1>2 DEF ConfigInv, LoopInv, Busy
<1>7. ForceInv'
  BY <1>0, <1>1, <1>2, <1>4 DEF ConfigInv, ForceInv, Busy
<1>8. NeverGivesUp' /\ SighupIsAnswered'
  BY <1>0, <1>1, <1>2, FileReadable DEF ConfigInv, NeverGivesUp, SighupIsAnswered
<1> QED  BY <1>5, <1>6, <1>7, <1>8 DEF ConfigInv

LEMMA ReadyStep ==
  ASSUME ConfigInv, RuntimeReady
  PROVE  ConfigInv'
<1>0. ConfigTypeOK /\ ctl.at = "starting" /\ configFaults \in Nat
  BY DEF ConfigInv, ConfigTypeOK, RuntimeReady
<1>1. UNCHANGED <<file, secret, hand, secrets, updateCalls, refused>>
  BY DEF RuntimeReady
<1>2. CASE ConfigFault /\ ProcessEnds
  BY <1>0, <1>1, <1>2, EndStep DEF ConfigFault
<1>3. CASE LoopGoes("running") /\ UNCHANGED <<lock, queue, sighup, editor, configFaults>>
  <2>1. /\ ctl' \in Loops /\ ctl'.at = "running" /\ ctl'.cfg = ctl.cfg
        /\ ctl'.activeRaw = ctl.activeRaw /\ ctl'.request = ctl.request
        /\ ctl'.currentRaw = ctl.currentRaw /\ ctl'.next = ctl.next
    BY <1>0, <1>3, LoopGoesEffect DEF Places
  <2>2. {ctl'.cfg, ctl'.activeRaw, ctl'.currentRaw, ctl'.next} \subseteq Around \cup {Nothing}
    BY <2>1 DEF Around
  <2>3. ConfigTypeOK' /\ LockInv' /\ ContentInv' /\ WritersExclude'
    BY <1>0, <1>1, <1>3, <2>1, <2>2, LoopFrame DEF ConfigTypeOK
  <2>4. LoopInv'
    BY <1>0, <1>3, <2>1 DEF ConfigInv, LoopInv, Busy
  <2>5. ForceInv'
    <3>1. Due' <=> Due
      BY <1>1, <1>3 DEF AtQueue, Due
    <3> QED  BY <1>0, <1>1, <1>3, <2>1, <3>1 DEF ConfigInv, ForceInv, Busy
  <2>6. NeverGivesUp' /\ SighupIsAnswered'
    BY <1>1, <1>3, <2>1 DEF ConfigInv, NeverGivesUp, SighupIsAnswered
  <2> QED  BY <2>3, <2>4, <2>5, <2>6 DEF ConfigInv
<1> QED  BY <1>2, <1>3 DEF RuntimeReady, LoopGoes

LEMMA QueueIsShort ==
  ASSUME ConfigInv, queue # <<>>
  PROVE  /\ Head(queue) \in Requests /\ DOMAIN queue = {1} /\ queue[1] = Head(queue)
         /\ Tail(queue) = <<>>
<1>1. queue \in Seq(Requests) /\ Len(queue) <= 1
  BY DEF ConfigInv, ConfigTypeOK, LoopInv
<1>2. Len(queue) < 1 => queue = <<>>
  BY <1>1
<1>3. Len(queue) = 1
  <2>1. Len(queue) \in Nat
    BY <1>1
  <2>2. ~(Len(queue) < 1)
    BY <1>2
  <2> QED  BY <1>1, <2>1, <2>2
<1>4. queue[1] \in Requests /\ Head(queue) = queue[1] /\ DOMAIN queue = {1}
  BY <1>1, <1>3, ElementOfSeq
<1>5. Tail(queue) \in Seq(Requests) /\ Len(Tail(queue)) < 1
  <2>1. PICK rest \in Seq(Requests) : rest = Tail(queue) /\ Len(rest) = Len(queue) - 1
    BY <1>1, HeadTailProperties
  <2>2. Len(rest) < 1
    BY <1>3, <2>1
  <2> QED  BY <2>1, <2>2
<1>6. Tail(queue) = <<>>
  BY <1>5
<1> QED  BY <1>4, <1>6

LEMMA TakeStep ==
  ASSUME ConfigInv, TakeRequest
  PROVE  ConfigInv'
<1> DEFINE request == Head(queue)
<1>0. ConfigTypeOK /\ ctl.at = "running" /\ queue # <<>> /\ configFaults \in Nat /\ ContentInv
      /\ file \in Contents /\ ctl \in Loops
  BY DEF ConfigInv, ConfigTypeOK, TakeRequest
<1>1. UNCHANGED <<file, secret, hand, secrets, updateCalls, configFaults, refused>>
  BY DEF TakeRequest, configHistory
<1>2. request \in Requests /\ DOMAIN queue = {1} /\ queue[1] = request /\ Tail(queue) = <<>>
  BY <1>0, QueueIsShort
<1>3. CASE file = Unreadable /\ ProcessEnds
  BY <1>0, <1>1, <1>3, EndStep, FileReadable
<1>4. CASE /\ file = Unreadable \/ request.rev \notin {Anything, {file}}
           /\ file = Unreadable => request.rev = Anything
           /\ Rejected(request) /\ queue' = Tail(queue) /\ UNCHANGED <<lock, editor>>
  <2>1. request.rev # {file}
    BY <1>4 DEF Anything
  <2>2. hand = 0 /\ ~refused => file = ctl.activeRaw \/ AtQueue
    BY <1>0, <2>1 DEF ConfigInv, ForceInv, Due
  <2>3. AtQueue => Due'
    BY <1>4 DEF AtQueue, Due
  <2>4. sighup = "waiting" => request.reply
    BY <1>0, <1>2, NoneTyped DEF ConfigInv, SighupIsAnswered, LoopInv, Busy
  <2>5. queue' = <<>>
    BY <1>2, <1>4
  <2>6. queue' \in Seq(Requests) /\ Len(queue') <= 1
    BY <2>5
  <2> QED  BY <1>0, <1>1, <1>2, <1>4, <2>2, <2>3, <2>4, <2>6, RejectStep
<1>5. CASE /\ request.rev \in {Anything, {file}}
           /\ ctl' = [ctl EXCEPT !.at = "loading", !.request = request, !.currentRaw = file]
           /\ sighup' = sighup /\ queue' = Tail(queue) /\ UNCHANGED <<lock, editor>>
  <2> HIDE DEF request
  <2>1. /\ ctl' \in Loops /\ ctl'.at = "loading" /\ ctl'.cfg = ctl.cfg /\ ctl'.activeRaw = ctl.activeRaw
        /\ ctl'.request = request /\ ctl'.currentRaw = file /\ ctl'.next = ctl.next
    BY <1>0, <1>2, <1>5 DEF Loops, Places, MaybeContent
  <2>2. {ctl'.cfg, ctl'.activeRaw, ctl'.currentRaw, ctl'.next} \subseteq Around \cup {Nothing}
    BY <2>1 DEF Around
  <2>0. queue' = <<>>
    BY <1>2, <1>5
  <2>3. queue' \in Seq(Requests) /\ Len(queue') <= 1
    BY <2>0
  <2>4. ConfigTypeOK' /\ LockInv' /\ ContentInv' /\ WritersExclude'
    BY <1>0, <1>1, <1>5, <2>1, <2>2, <2>3, LoopFrame DEF ConfigTypeOK
  <2>5. LoopInv'
    BY <1>0, <2>1, <2>3 DEF ConfigInv, LoopInv, Busy
  <2>6. ForceInv'
    <3>1. hand = 0 /\ ~refused /\ request.rev = Anything => file = ctl.activeRaw \/ AtQueue
      BY <1>0 DEF ConfigInv, ForceInv, Due, request, Anything
    <3>2. AtQueue => Due'
      BY <1>5 DEF AtQueue, Due
    <3> QED  BY <1>0, <1>1, <1>5, <2>1, <3>1, <3>2 DEF ConfigInv, ForceInv, Busy
  <2>7. NeverGivesUp'
    BY <1>1, <2>1 DEF ConfigInv, NeverGivesUp
  <2>8. SighupIsAnswered'
    BY <1>0, <1>2, <1>5, <2>1, NoneTyped DEF ConfigInv, SighupIsAnswered, LoopInv, Busy
  <2> QED  BY <2>4, <2>5, <2>6, <2>7, <2>8 DEF ConfigInv
<1> QED  BY <1>3, <1>4, <1>5 DEF TakeRequest

\* The loop goes back to the runtime it has, or to the repair of the file.
LEMMA RollbackOrRejectStep ==
  ASSUME ConfigInv, RollbackOrReject, ctl.at \in {"loading", "checking"},
         UNCHANGED <<file, secret, lock, queue, editor, hand, secrets, updateCalls, configFaults, refused>>,
         hand = 0 => secrets # 0
  PROVE  ConfigInv'
<1>0. ConfigTypeOK /\ configFaults \in Nat /\ ctl.request \in Requests
  BY Fields DEF ConfigInv, ConfigTypeOK
<1>1. Due' <=> Due
  BY DEF AtQueue, Due
<1>2. CASE ctl.request.rev = Anything
  <2>1. Rejected(ctl.request)
    BY <1>2 DEF RollbackOrReject
  <2>2. hand = 0 /\ ~refused => file = ctl.activeRaw \/ Due
    BY <1>2 DEF ConfigInv, ForceInv
  <2>3. sighup = "waiting" => ctl.request.reply \/ \E i \in DOMAIN queue' : queue'[i].reply
    BY DEF ConfigInv, SighupIsAnswered
  <2>4. queue' \in Seq(Requests) /\ Len(queue') <= 1
    BY DEF ConfigInv, ConfigTypeOK, LoopInv
  <2> QED  BY <1>0, <1>1, <2>1, <2>2, <2>3, <2>4, RejectStep
<1>3. CASE ctl.request.rev # Anything
  <2>1. LoopGoes("rollback") /\ sighup' = sighup
    BY <1>3 DEF RollbackOrReject, LoopGoes
  <2>2. /\ ctl' \in Loops /\ ctl'.at = "rollback" /\ ctl'.cfg = ctl.cfg
        /\ ctl'.activeRaw = ctl.activeRaw /\ ctl'.request = ctl.request
        /\ ctl'.currentRaw = ctl.currentRaw /\ ctl'.next = ctl.next
    BY <1>0, <2>1, LoopGoesEffect DEF Places
  <2>3. {ctl'.cfg, ctl'.activeRaw, ctl'.currentRaw, ctl'.next} \subseteq Around \cup {Nothing}
    BY <2>2 DEF Around
  <2>4. ConfigTypeOK' /\ LockInv' /\ ContentInv' /\ WritersExclude'
    BY <1>0, <2>1, <2>2, <2>3, LoopFrame DEF ConfigTypeOK
  <2>5. LoopInv'
    BY <2>2 DEF ConfigInv, LoopInv, Busy
  <2>6. ForceInv'
    BY <1>1, <2>2 DEF ConfigInv, ForceInv, Busy
  <2>7. NeverGivesUp' /\ SighupIsAnswered'
    BY <2>1, <2>2 DEF ConfigInv, NeverGivesUp, SighupIsAnswered
  <2> QED  BY <2>4, <2>5, <2>6, <2>7 DEF ConfigInv
<1> QED  BY <1>2, <1>3

LEMMA LoadReloadStep ==
  ASSUME ConfigInv, LoadReload
  PROVE  ConfigInv'
<1>0. ConfigTypeOK /\ ctl.at = "loading" /\ file \in Contents /\ ctl \in Loops /\ ContentInv /\ LoopInv
  BY DEF ConfigInv, ConfigTypeOK, LoadReload
<1>1. UNCHANGED <<file, secret, lock, queue, editor, hand, secrets, updateCalls, configFaults, refused>>
  BY DEF LoadReload, configHistory
<1>2. CASE ~loadReloadControllerConfig(file)
  <2>1. hand = 0 => secrets # 0
    BY <1>0, <1>2, FileReadable
  <2>2. RollbackOrReject
    BY <1>2 DEF LoadReload
  <2> QED  BY <1>0, <1>1, <2>1, <2>2, RollbackOrRejectStep
<1>3. CASE loadReloadControllerConfig(file)
  <2>1. sighup' = sighup /\ ctl' = [ctl EXCEPT !.at = "checking", !.next = file]
    BY <1>3 DEF LoadReload
  <2>2. /\ ctl' \in Loops /\ ctl'.at = "checking" /\ ctl'.cfg = ctl.cfg
        /\ ctl'.activeRaw = ctl.activeRaw /\ ctl'.request = ctl.request
        /\ ctl'.currentRaw = ctl.currentRaw /\ ctl'.next = file
    BY <1>0, <2>1 DEF Loops, Places, MaybeContent
  <2>3. {ctl'.cfg, ctl'.activeRaw, ctl'.currentRaw, ctl'.next} \subseteq Around \cup {Nothing}
    BY <2>2 DEF Around
  <2>4. ConfigTypeOK' /\ LockInv' /\ ContentInv' /\ WritersExclude'
    BY <1>0, <1>1, <2>1, <2>2, <2>3, LoopFrame DEF ConfigTypeOK
  <2>5. LoopInv'
    BY <1>0, <1>1, <2>2 DEF LoopInv, Busy
  <2>6. ForceInv'
    <3>1. (Due' <=> Due) /\ (AtQueue' <=> AtQueue) /\ (Due => AtQueue \/ queue # <<>>)
      BY <1>1 DEF AtQueue, Due
    <3> QED  BY <1>0, <1>1, <2>2, <3>1 DEF ConfigInv, ForceInv, Busy
  <2>7. NeverGivesUp' /\ SighupIsAnswered'
    BY <1>1, <2>1, <2>2 DEF ConfigInv, NeverGivesUp, SighupIsAnswered
  <2> QED  BY <2>4, <2>5, <2>6, <2>7 DEF ConfigInv
<1> QED  BY <1>2, <1>3

LEMMA ReadAgainStep ==
  ASSUME ConfigInv, ReadAgain
  PROVE  ConfigInv'
<1>0. ConfigTypeOK /\ ctl.at = "checking" /\ ContentInv /\ ctl.request \in Requests
  BY Fields DEF ConfigInv, ReadAgain
<1>1. UNCHANGED <<file, secret, lock, queue, editor, hand, secrets, updateCalls, configFaults, refused>>
  BY DEF ReadAgain, configHistory
<1>2. (Due' <=> Due) /\ (AtQueue' <=> AtQueue)
  BY <1>1 DEF AtQueue, Due
<1>3. CASE file = Unreadable /\ RollbackOrReject
  BY <1>0, <1>1, <1>3, FileReadable, RollbackOrRejectStep
<1>4. CASE file # ctl.currentRaw /\ Rejected(ctl.request)
  <2>1. hand = 0 /\ ~refused => Due
    BY <1>0, <1>4 DEF ConfigInv, ForceInv, Busy
  <2>2. sighup = "waiting" => ctl.request.reply \/ \E i \in DOMAIN queue' : queue'[i].reply
    BY <1>1 DEF ConfigInv, SighupIsAnswered
  <2>3. queue' \in Seq(Requests) /\ Len(queue') <= 1
    BY <1>1 DEF ConfigInv, ConfigTypeOK, LoopInv
  <2> QED  BY <1>0, <1>1, <1>2, <1>4, <2>1, <2>2, <2>3, RejectStep
<1>5. CASE file = ctl.currentRaw /\ LoopGoes("stopping") /\ UNCHANGED sighup
  <2>1. /\ ctl' \in Loops /\ ctl'.at = "stopping" /\ ctl'.cfg = ctl.cfg
        /\ ctl'.activeRaw = ctl.activeRaw /\ ctl'.request = ctl.request
        /\ ctl'.currentRaw = ctl.currentRaw /\ ctl'.next = ctl.next
    BY <1>0, <1>5, LoopGoesEffect DEF Places
  <2>2. {ctl'.cfg, ctl'.activeRaw, ctl'.currentRaw, ctl'.next} \subseteq Around \cup {Nothing}
    BY <2>1 DEF Around
  <2>3. ConfigTypeOK' /\ LockInv' /\ ContentInv' /\ WritersExclude'
    BY <1>0, <1>1, <1>5, <2>1, <2>2, LoopFrame DEF ConfigTypeOK
  <2>4. LoopInv'
    BY <1>0, <1>1, <2>1 DEF ConfigInv, LoopInv, Busy
  <2>5. ForceInv'
    BY <1>0, <1>1, <1>2, <1>5, <2>1 DEF ConfigInv, ForceInv, Busy
  <2>6. NeverGivesUp' /\ SighupIsAnswered'
    BY <1>1, <1>5, <2>1 DEF ConfigInv, NeverGivesUp, SighupIsAnswered
  <2> QED  BY <2>3, <2>4, <2>5, <2>6 DEF ConfigInv
<1> QED  BY <1>3, <1>4, <1>5 DEF ReadAgain, LoopGoes

LEMMA StopStep ==
  ASSUME ConfigInv, StopRuntime
  PROVE  ConfigInv'
<1>0. /\ ConfigTypeOK /\ ctl.at = "stopping" /\ LoopGoes("switching")
      /\ \A e \in Editors : editor[e].call.at = "none"
  BY DEF ConfigInv, StopRuntime, LoopGoes
<1>1. /\ UNCHANGED <<file, secret, lock, editor, hand, secrets, updateCalls, refused>>
      /\ UNCHANGED <<queue, sighup, configFaults>>
  BY DEF StopRuntime, configHistory
<1>2. /\ ctl' \in Loops /\ ctl'.at = "switching" /\ ctl'.cfg = ctl.cfg
      /\ ctl'.activeRaw = ctl.activeRaw /\ ctl'.request = ctl.request
      /\ ctl'.currentRaw = ctl.currentRaw /\ ctl'.next = ctl.next
  BY <1>0, LoopGoesEffect DEF Places
<1>3. {ctl'.cfg, ctl'.activeRaw, ctl'.currentRaw, ctl'.next} \subseteq Around \cup {Nothing}
  BY <1>2 DEF Around
<1>4. ConfigTypeOK' /\ LockInv' /\ ContentInv' /\ WritersExclude'
  BY <1>0, <1>1, <1>2, <1>3, LoopFrame DEF ConfigTypeOK
<1>5. LoopInv'
  BY <1>0, <1>1, <1>2 DEF ConfigInv, LoopInv, Busy
<1>6. ForceInv'
  <2>1. (Due' <=> Due) /\ ~AtQueue
    BY <1>0, <1>1 DEF AtQueue, Due
  <2> QED  BY <1>0, <1>1, <1>2, <2>1 DEF ConfigInv, ForceInv, Busy
<1>7. NeverGivesUp' /\ SighupIsAnswered'
  BY <1>1, <1>2 DEF ConfigInv, NeverGivesUp, SighupIsAnswered
<1> QED  BY <1>4, <1>5, <1>6, <1>7 DEF ConfigInv

LEMMA StartStep ==
  ASSUME ConfigInv, StartNext
  PROVE  ConfigInv'
<1>0. ConfigTypeOK /\ ctl.at = "switching" /\ configFaults \in Nat
  BY DEF ConfigInv, ConfigTypeOK, StartNext
<1>1. UNCHANGED <<file, secret, lock, queue, editor, hand, secrets, updateCalls, refused>>
  BY DEF StartNext
<1>2. Due' <=> Due
  BY <1>1 DEF AtQueue, Due
<1>3. \A e \in Editors : editor[e].call.at = "none"
  BY <1>0, NoHandlers
<1>4. CASE /\ RequestDone(ctl.next, ctl.currentRaw, "running")
           /\ Respond(ctl.request) /\ UNCHANGED configFaults
  <2>1. /\ ctl' \in Loops /\ ctl'.at = "running" /\ ctl'.cfg = ctl.next
        /\ ctl'.activeRaw = ctl.currentRaw /\ ctl'.request = NoRequest
        /\ ctl'.currentRaw = Nothing /\ ctl'.next = Nothing
    BY <1>0, <1>4, Fields, RequestDoneEffect DEF Places
  <2>2. {ctl'.cfg, ctl'.activeRaw, ctl'.currentRaw, ctl'.next} \subseteq Around \cup {Nothing}
    BY <2>1 DEF Around
  <2>3. sighup' = IF ctl.request.reply THEN "none" ELSE sighup
    BY <1>4 DEF Respond
  <2>4. ConfigTypeOK' /\ LockInv' /\ ContentInv' /\ WritersExclude'
    BY <1>0, <1>1, <1>3, <1>4, <2>1, <2>2, <2>3, LoopFrame DEF ConfigTypeOK
  <2>5. LoopInv'
    BY <1>0, <1>1, <2>1 DEF ConfigInv, LoopInv, Busy
  <2>6. ForceInv'
    BY <1>0, <1>1, <1>2, <2>1 DEF ConfigInv, ForceInv, Busy
  <2>7. NeverGivesUp' /\ SighupIsAnswered'
    BY <1>1, <1>4, <2>1, <2>3 DEF ConfigInv, NeverGivesUp, SighupIsAnswered
  <2> QED  BY <2>4, <2>5, <2>6, <2>7 DEF ConfigInv
<1>5. CASE LoopGoes("undo") /\ ConfigFault /\ UNCHANGED sighup
  <2>1. /\ ctl' \in Loops /\ ctl'.at = "undo" /\ ctl'.cfg = ctl.cfg
        /\ ctl'.activeRaw = ctl.activeRaw /\ ctl'.request = ctl.request
        /\ ctl'.currentRaw = ctl.currentRaw /\ ctl'.next = ctl.next
    BY <1>0, <1>5, LoopGoesEffect DEF Places
  <2>2. {ctl'.cfg, ctl'.activeRaw, ctl'.currentRaw, ctl'.next} \subseteq Around \cup {Nothing}
    BY <2>1 DEF Around
  <2>3. configFaults' \in Nat /\ configFaults' # 0
    BY <1>0, <1>5 DEF ConfigFault
  <2>4. ConfigTypeOK' /\ LockInv' /\ ContentInv' /\ WritersExclude'
    BY <1>0, <1>1, <1>3, <1>5, <2>1, <2>2, <2>3, LoopFrame DEF ConfigTypeOK
  <2>5. LoopInv'
    BY <1>0, <1>1, <2>1 DEF ConfigInv, LoopInv, Busy
  <2>6. ForceInv'
    BY <1>0, <1>1, <1>2, <2>1 DEF ConfigInv, ForceInv, Busy
  <2>7. NeverGivesUp' /\ SighupIsAnswered'
    BY <1>1, <1>5, <2>1, <2>3 DEF ConfigInv, NeverGivesUp, SighupIsAnswered
  <2> QED  BY <2>4, <2>5, <2>6, <2>7 DEF ConfigInv
<1> QED  BY <1>4, <1>5 DEF StartNext, LoopGoes

LEMMA RestoreStep ==
  ASSUME ConfigInv, RestoreActive
  PROVE  ConfigInv'
<1>0. /\ ConfigTypeOK /\ ctl.at \in {"undo", "rollback"} /\ lock = "free"
      /\ restoreControllerConfigIfCurrent(ctl.currentRaw, ctl.activeRaw)
  BY DEF ConfigInv, RestoreActive
<1>1. UNCHANGED <<secret, hand, secrets, updateCalls, refused>>
  BY DEF RestoreActive
<1>2. ctl.activeRaw \in Contents /\ ctl.cfg \in Contents
  BY <1>0 DEF ConfigInv, LoopInv
<1>3. /\ file' \in {file, ctl.activeRaw} /\ file' \in Contents
      /\ file # ctl.currentRaw => file' = file
      /\ configFaults' \in Nat /\ configFaults' >= configFaults /\ configFaults \in Nat
  BY <1>0, <1>2, RestoreEffect DEF ConfigTypeOK
<1>4. CASE ProcessEnds /\ ~(file' = ctl.activeRaw /\ file = ctl.currentRaw)
  <2>1. file' = file
    BY <1>3, <1>4
  <2>2. hand = 0 /\ secrets = 0 /\ ~refused => configFaults' # 0
    BY <1>0, <1>3 DEF ConfigInv, NeverGivesUp
  <2> QED  BY <1>1, <1>3, <1>4, <2>1, <2>2, EndStep
<1>5. CASE /\ file' = ctl.activeRaw /\ file = ctl.currentRaw
           /\ RequestDone(ctl.cfg, ctl.activeRaw, IF ctl.at = "undo" THEN "starting" ELSE "running")
           /\ Respond(ctl.request) /\ UNCHANGED <<lock, queue, editor>>
  <2> DEFINE at == IF ctl.at = "undo" THEN "starting" ELSE "running"
  <2>0. at \in Places /\ at \in {"starting", "running"} /\ (at = "starting" => ctl.at = "undo")
    BY <1>0 DEF Places
  <2>1. RequestDone(ctl.cfg, ctl.activeRaw, at)
    BY <1>5
  <2> HIDE DEF at
  <2>2. /\ ctl' \in Loops /\ ctl'.at = at /\ ctl'.cfg = ctl.cfg
        /\ ctl'.activeRaw = ctl.activeRaw /\ ctl'.request = NoRequest
        /\ ctl'.currentRaw = Nothing /\ ctl'.next = Nothing
    BY <1>0, <2>0, <2>1, Fields, RequestDoneEffect
  <2>3. sighup' = IF ctl.request.reply THEN "none" ELSE sighup
    BY <1>5 DEF Respond
  <2>4. \A e \in Editors : editor[e].call.at \notin Held
    BY <1>0, ConfigAssumption DEF ConfigInv, LockInv
  <2>5. ConfigTypeOK'
    BY <1>0, <1>1, <1>3, <1>5, <2>2, <2>3 DEF ConfigTypeOK
  <2>6. LoopInv'
    BY <1>2, <1>5, <2>0, <2>2 DEF ConfigInv, LoopInv, Busy
  <2>7. at = "starting" => \A e \in Editors : editor[e].call.at = "none"
    BY <2>0, NoHandlers
  <2>8. LockInv' /\ WritersExclude'
    BY <1>5, <2>0, <2>2, <2>4, <2>7 DEF ConfigInv, LockInv, WritersExclude, Serving, Held
  <2>9. ContentInv'
    <3>1. \A c \in Around' : c \in Around \/ c = Nothing
      BY <1>5, <2>2 DEF Around
    <3> QED  BY <1>1, <3>1, ContentStep DEF ConfigInv
  <2>10. ForceInv'
    BY <1>0, <1>1, <1>5, <2>0, <2>2 DEF ConfigInv, ForceInv, Busy
  <2>11. NeverGivesUp'
    BY <2>0, <2>2 DEF NeverGivesUp
  <2>12. SighupIsAnswered'
    BY <1>5, <2>3 DEF ConfigInv, SighupIsAnswered
  <2> QED  BY <2>5, <2>6, <2>8, <2>9, <2>10, <2>11, <2>12 DEF ConfigInv
<1> QED  BY <1>4, <1>5 DEF RestoreActive
-----------------------------------------------------------------------------
(* The environment, and the theorem *)

LEMMA HandStep ==
  ASSUME ConfigInv, NEW content \in HandContents, EditByHand(content)
  PROVE  ConfigInv'
<1>0. ConfigTypeOK /\ content \in Contents /\ hand \in Nat
  BY ConfigAssumption DEF ConfigInv, ConfigTypeOK
<1>1. /\ UNCHANGED <<secret, lock, ctl, queue, sighup, editor, secrets, updateCalls, configFaults, refused>>
      /\ file' = content /\ hand' = hand + 1
  BY DEF EditByHand
<1>2. hand' \in Nat /\ hand' # 0
  BY <1>0, <1>1
<1>3. ConfigTypeOK' /\ LoopInv' /\ LockInv'
  BY <1>0, <1>1, <1>2 DEF ConfigInv, ConfigTypeOK, LoopInv, LockInv, Serving
<1>4. ContentInv' /\ ForceInv' /\ WritersExclude' /\ NeverGivesUp'
  BY <1>1, <1>2 DEF ConfigInv, ContentInv, ForceInv, WritersExclude, NeverGivesUp
<1>5. SighupIsAnswered'
  BY <1>1 DEF ConfigInv, SighupIsAnswered
<1> QED  BY <1>3, <1>4, <1>5 DEF ConfigInv

LEMMA TokenStep ==
  ASSUME ConfigInv, NEW value, ChangeTokenFile(value)
  PROVE  ConfigInv'
<1>0. ConfigTypeOK /\ secrets \in Nat
  BY DEF ConfigInv, ConfigTypeOK
<1>1. /\ UNCHANGED <<file, lock, ctl, queue, sighup, editor, hand, updateCalls, configFaults, refused>>
      /\ secrets' = secrets + 1
  BY DEF ChangeTokenFile
<1>2. secrets' \in Nat /\ secrets' # 0
  BY <1>0, <1>1
<1>3. ConfigTypeOK' /\ LoopInv' /\ LockInv' /\ WritersExclude'
  BY <1>0, <1>1, <1>2 DEF ConfigInv, ConfigTypeOK, LoopInv, LockInv, WritersExclude, Serving
<1>4. ContentInv'
  <2>1. \A c \in Around' : c \in Around
    BY <1>1 DEF Around
  <2> QED  BY <1>1, <1>2, <2>1, ContentStep DEF ConfigInv
<1>5. ForceInv'
  <2>1. (AtQueue' <=> AtQueue) /\ (Due' <=> Due)
    BY <1>1 DEF AtQueue, Due
  <2> QED  BY <1>1, <2>1 DEF ConfigInv, ForceInv
<1>6. NeverGivesUp' /\ SighupIsAnswered'
  BY <1>1, <1>2 DEF ConfigInv, NeverGivesUp, SighupIsAnswered
<1> QED  BY <1>3, <1>4, <1>5, <1>6 DEF ConfigInv

LEMMA CrashStep ==
  ASSUME ConfigInv, CrashController
  PROVE  ConfigInv'
<1>1. /\ ProcessEnds /\ UNCHANGED <<file, secret, hand, secrets, updateCalls, refused>>
      /\ configFaults \in Nat /\ configFaults' = configFaults + 1
  BY DEF ConfigInv, ConfigTypeOK, CrashController, ConfigFault
<1>2. configFaults' \in Nat /\ configFaults' # 0
  BY <1>1
<1> QED  BY <1>1, <1>2, EndStep

LEMMA ConfigInvInit ==
  ASSUME ConfigInit
  PROVE  ConfigInv
<1>0. /\ file = FirstContent /\ FirstContent \in Contents /\ LoadController(FirstContent, "s0")
      /\ secret = "s0" /\ lock = "free" /\ queue = <<>> /\ sighup = "none" /\ hand = 0 /\ secrets = 0
      /\ updateCalls = 0 /\ configFaults = 0 /\ refused = FALSE
  BY ConfigAssumption DEF ConfigInit
<1>1. /\ ctl \in Loops /\ ctl.at = "off" /\ ctl.cfg = Nothing /\ ctl.activeRaw = Nothing
      /\ ctl.request = NoRequest /\ ctl.currentRaw = Nothing /\ ctl.next = Nothing
  BY NoneTyped DEF ConfigInit, Loops, Places, MaybeContent
<1>2. [shown |-> Nothing, call |-> NoHandler] \in [shown : MaybeContent, call : Calls]
  BY NoneTyped DEF MaybeContent
<1>3. /\ editor \in [Editors -> [shown : MaybeContent, call : Calls]]
      /\ \A e \in Editors : editor[e].call = NoHandler
  BY <1>2 DEF ConfigInit
<1>4. queue \in Seq(Requests) /\ Len(queue) = 0
  BY <1>0
<1>5. ConfigTypeOK /\ LoopInv /\ LockInv
  <2>1. ConfigTypeOK
    BY <1>0, <1>1, <1>3, <1>4 DEF ConfigTypeOK
  <2>2. LoopInv
    BY <1>1, <1>4 DEF LoopInv, Busy
  <2>3. LockInv
    BY <1>3, NoneTyped DEF LockInv, Held
  <2> QED  BY <2>1, <2>2, <2>3
<1>6. ContentInv
  <2>1. \A c \in Around : c = FirstContent \/ c = Nothing
    BY <1>0, <1>1, <1>3, NoneTyped DEF Around
  <2> QED  BY <1>0, <2>1 DEF ContentInv, Whitelisted, Valid, validateControllerReload
<1>7. ForceInv /\ WritersExclude /\ NeverGivesUp /\ SighupIsAnswered
  BY <1>0, <1>1, <1>3, NoneTyped
  DEF ForceInv, WritersExclude, NeverGivesUp, SighupIsAnswered, Busy
<1> QED  BY <1>5, <1>6, <1>7 DEF ConfigInv

LEMMA ConfigInvStep ==
  ASSUME ConfigInv, [ConfigNext]_configVars
  PROVE  ConfigInv'
<1>1. CASE UNCHANGED configVars
  <2>1. UNCHANGED <<file, secret, lock, ctl, queue, sighup, editor, hand, secrets, updateCalls,
                    configFaults, refused>>
    BY <1>1 DEF configVars, configHistory
  <2>2. ConfigTypeOK' /\ LoopInv' /\ LockInv' /\ WritersExclude' /\ NeverGivesUp' /\ SighupIsAnswered'
    BY <2>1 DEF ConfigInv, ConfigTypeOK, LoopInv, LockInv, WritersExclude, NeverGivesUp,
                SighupIsAnswered, Serving
  <2>3. ContentInv'
    BY <2>1 DEF ConfigInv, ContentInv, Around
  <2>4. ForceInv'
    BY <2>1 DEF ConfigInv, ForceInv, Due, AtQueue
  <2> QED  BY <2>2, <2>3, <2>4 DEF ConfigInv
<1>2. CASE ConfigNext
  BY <1>2, GetStep, UpdateStep, CheckStep, WriteStep, QueueStep, RefusalStep, ReloadStep,
     SighupStep, WaitStep, LoadStep, ReadStep, ReadyStep, TakeStep, LoadReloadStep, ReadAgainStep,
     StopStep, StartStep, RestoreStep, HandStep, TokenStep, CrashStep DEF ConfigNext
<1> QED  BY <1>1, <1>2

LEMMA ConfigInvIsSafe ==
  ASSUME ConfigInv
  PROVE  ConfigIsSafe
<1>0. ConfigTypeOK /\ file \in Around /\ file # Nothing /\ ContentInv
  BY NothingIsNone DEF ConfigInv, ConfigTypeOK, Around
<1>1. FileIsLoadable /\ EditsAreWhitelisted
  BY <1>0 DEF ContentInv, FileIsLoadable, EditsAreWhitelisted, Valid, Whitelisted
<1>2. FileIsInForce
  <2>1. AtRest => ~Due
    BY DEF AtRest, Due, AtQueue
  <2> QED  BY <2>1 DEF ConfigInv, ForceInv, FileIsInForce, AtRest
<1>3. ShownCanBeSent
  <2>1. \A e \in Editors : editor[e].shown # Nothing => editor[e].shown \in Contents
    BY <1>0, Fields DEF MaybeContent
  <2> QED  BY <2>1, ShownIsFixed DEF ShownCanBeSent
<1> QED  BY <1>1, <1>2, <1>3 DEF ConfigInv, ConfigIsSafe

\* The configuration file survives edits, reloads, a person at its files,
\* failures and crashes (controller_config.go, bootstrap.go, reload.go): it
\* stays loadable and protected, its writers exclude each other, and what it
\* holds is in force when all is done.
THEOREM ConfigSafe == ConfigSpec => []ConfigIsSafe
<1>1. ConfigInit => ConfigInv
  BY ConfigInvInit
<1>2. ConfigInv /\ [ConfigNext]_configVars => ConfigInv'
  BY ConfigInvStep
<1>3. ConfigInv => ConfigIsSafe
  BY ConfigInvIsSafe
<1> QED  BY <1>1, <1>2, <1>3, PTL DEF ConfigSpec

-----------------------------------------------------------------------------
(* Opening the database of an older release                                *)

\* A set of natural numbers that is not empty has a least member.
LEMMA LeastMember ==
  ASSUME NEW S, S \subseteq Nat, S # {}
  PROVE  \E i \in S : \A j \in S : i <= j
<1> DEFINE smaller == {ss \in Nat \X Nat : ss[1] < ss[2]}
<1>1. IsWellFoundedOn(smaller, Nat)
  BY NatLessThanWellFounded DEF OpToRel
<1>2. PICK i \in S : \A j \in S : <<j, i>> \notin smaller
  BY <1>1, WFMin
<1>3. ASSUME NEW j \in S, ~(i <= j)
      PROVE  FALSE
  <2>1. i \in Nat /\ j \in Nat /\ j < i
    BY <1>3
  <2>2. <<j, i>> \in smaller
    BY <2>1
  <2> QED  BY <1>2, <2>2
<1> QED  BY <1>3

\* The members of a sequence of numbers are bounded.
LEMMA BoundedNumbers ==
  ASSUME NEW n \in Nat, NEW s, \A i \in 1..n : s[i] \in Nat
  PROVE  \E m \in Nat : \A i \in 1..n : s[i] <= m
<1> DEFINE Bounded(k) == \E m \in Nat : \A i \in 1..k : s[i] <= m
           unbounded == {k \in 0..n : ~Bounded(k)}
<1>1. Bounded(0)
  <2>1. \A i \in 1..0 : s[i] <= 0
    OBVIOUS
  <2> QED  BY <2>1
<1>2. ASSUME NEW k \in 1..n, Bounded(k - 1)
      PROVE  Bounded(k)
  <2>1. PICK m \in Nat : \A i \in 1..(k - 1) : s[i] <= m
    BY <1>2
  <2>2. s[k] \in Nat
    OBVIOUS
  <2>3. PICK h \in Nat : h >= m /\ h >= s[k]
    BY <2>2
  <2>4. ASSUME NEW i \in 1..k
        PROVE  s[i] <= h
    <3>1. CASE i = k
      BY <2>3, <3>1
    <3>2. CASE i # k
      <4>1. i \in 1..(k - 1) /\ i \in 1..n
        BY <3>2
      <4>2. s[i] \in Nat /\ s[i] <= m
        BY <2>1, <4>1
      <4> QED  BY <2>3, <4>2
    <3> QED  BY <3>1, <3>2
  <2>5. \A i \in 1..k : s[i] <= h
    BY <2>4
  <2> QED  BY <2>5
<1> HIDE DEF Bounded
<1>3. unbounded = {}
  <2> SUFFICES ASSUME unbounded # {}
               PROVE  FALSE
    OBVIOUS
  <2>1. PICK k \in unbounded : \A j \in unbounded : k <= j
    <3>1. unbounded \subseteq Nat
      OBVIOUS
    <3> HIDE DEF unbounded
    <3> QED  BY <3>1, LeastMember
  <2>2. k # 0 /\ k \in 0..n /\ ~Bounded(k)
    BY <1>1
  <2>3. k \in 1..n /\ k - 1 \in 0..n /\ k - 1 \notin unbounded
    BY <2>1, <2>2
  <2>4. Bounded(k - 1)
    BY <2>3
  <2> QED  BY <1>2, <2>2, <2>3, <2>4
<1>4. n \in 0..n
  OBVIOUS
<1>5. Bounded(n)
  BY <1>3, <1>4
<1> QED  BY <1>5 DEF Bounded

\* The newest of some tasks is one of them.
LEMMA NewestIsOneOfThem ==
  ASSUME NEW S, IsFiniteSet(S), S \subseteq Nat, S # {}
  PROVE  Newest(S) \in S
<1>1. PICK n \in Nat : ExistsBijection(1..n, S)
  BY FS_NatBijection
<1>2. PICK s \in Bijection(1..n, S) : TRUE
  BY <1>1 DEF ExistsBijection
<1>3. s \in [1..n -> S] /\ \A t \in S : \E i \in 1..n : s[i] = t
  BY <1>2 DEF Bijection, Injection, Surjection
<1>4. \A i \in 1..n : s[i] \in Nat
  BY <1>3
<1>5. PICK m \in Nat : \A i \in 1..n : s[i] <= m
  BY <1>4, BoundedNumbers
<1>6. \A t \in S : t \in Nat /\ t <= m
  BY <1>3, <1>5
<1> DEFINE below == {k \in Nat : \E t \in S : k = m - t}
<1>7. ASSUME NEW t \in S
      PROVE  m - t \in below
  <2>1. m - t \in Nat
    BY <1>6
  <2> QED  BY <2>1
<1>d. below # {} /\ below \subseteq Nat
  BY <1>7
<1>8. PICK k \in below : \A j \in below : k <= j
  <2> HIDE DEF below
  <2> QED  BY <1>d, LeastMember
<1>9. PICK t \in S : k = m - t
  OBVIOUS
<1>10. ASSUME NEW u \in S
       PROVE  u <= t
  <2>1. k <= m - u
    BY <1>7, <1>8
  <2> QED  BY <1>6, <1>9, <2>1
<1>11. \E x \in S : \A u \in S : u <= x
  BY <1>10
<1> QED  BY <1>11 DEF Newest

\* No reason to refuse is the empty one.
LEMMA BlankIsNoReason ==
  Blank # "newer" /\ Blank # "check" /\ Blank # "statement"
BY Zenon DEF Blank

\* The rows of a database at version v that comes from f: the rebuilds of the
\* task table (versions 7 and 8) leave the supported tasks, and version 10
\* ends those that were cut off.
Rebuilt(f, v) == (f.version < 7 /\ 7 <= v) \/ (f.version < 8 /\ 8 <= v)
Supports(f, t) == t \in TaskIDs(f) /\ f.tasks[t].type \in SupportedTypes
Survivors(f, v) == {t \in TaskIDs(f) : Rebuilt(f, v) => f.tasks[t].type \in SupportedTypes}
CutOff(f, t) == f.tasks[t].status = "running" /\ ~f.tasks[t].execution /\ f.version < 10
FailedAt(f, v) == {t \in Survivors(f, v) : v >= 10 /\ CutOff(f, t)}
RefAt(f, v, task) == IF Rebuilt(f, v) THEN Cleared(f, task) ELSE task
RowAt(f, v, t) ==
  Row(f.tasks[t].type, f.tasks[t].node, IF v >= 10 /\ CutOff(f, t) THEN "failed" ELSE f.tasks[t].status,
      f.tasks[t].execution, RefAt(f, v, f.tasks[t].attempt))
TasksAt(f, v) == [t \in Survivors(f, v) |-> RowAt(f, v, t)]

Database(v, ts, ss, bs, is, sv) ==
  [version |-> v, tasks |-> ts, steps |-> ss, backups |-> bs, instances |-> is, service |-> sv]

\* The steps, backups and references to a task.
StepsFrom(f, d) ==
  /\ d.steps = [t \in DOMAIN d.steps |-> d.steps[t]]
  /\ DOMAIN d.steps = DOMAIN f.steps \ {t \in TaskIDs(f) : t \notin Survivors(f, d.version)}
  /\ d.version >= 10 =>
       \A t \in DOMAIN d.steps : (t \in Survivors(f, d.version) /\ CutOff(f, t)) => d.steps[t] # "running"
BackupsFrom(f, d) ==
  /\ \A b \in d.backups : \E c \in f.backups : b = c \/ b = WithNode(f, c)
  /\ d.version >= 3 => \A b \in d.backups : b.node # Blank
  /\ (Rebuilt(f, d.version) \/ d.version >= 12) => \A b \in d.backups : b.task \in Survivors(f, d.version)
  /\ \A c \in f.backups : Supports(f, c.task) => \E b \in d.backups : b.task = c.task
RefsFrom(f, d) ==
  /\ d.instances = [n \in DOMAIN f.instances |-> [runtime |-> d.instances[n].runtime, last |-> d.instances[n].last]]
  /\ \A n \in DOMAIN f.instances :
       d.instances[n].last \in FailedAt(f, d.version) \cup {RefAt(f, d.version, f.instances[n].last)}
  /\ d.service = [runtime |-> d.service.runtime, last |-> d.service.last]
  /\ d.service.last \in FailedAt(f, d.version) \cup {RefAt(f, d.version, f.service.last)}

\* d is what the migrations up to its version made of f.
Comes(f, d) ==
  /\ d = Database(d.version, d.tasks, d.steps, d.backups, d.instances, d.service)
  /\ d.version \in Nat /\ f.version <= d.version /\ d.version <= sqliteSchemaVersion
  /\ d.tasks = TasksAt(f, d.version)
  /\ StepsFrom(f, d)
  /\ BackupsFrom(f, d)
  /\ RefsFrom(f, d)
  /\ d.version >= 8 => \A t \in Survivors(f, d.version) : f.tasks[t].type \in SupportedTypes
  /\ d.version >= 9 => Unique(d, IndexedWide)

\* A database an older release may have left.
Left(f) == WellFormed(f) /\ LeftByRelease(f) /\ f.version <= sqliteSchemaVersion

LEMMA DatabaseFields ==
  ASSUME NEW v, NEW ts, NEW ss, NEW bs, NEW is, NEW sv
  PROVE  LET d == Database(v, ts, ss, bs, is, sv) IN
         /\ d.version = v /\ d.tasks = ts /\ d.steps = ss /\ d.backups = bs /\ d.instances = is /\ d.service = sv
BY DEF Database

LEMMA RowFields ==
  ASSUME NEW type, NEW node, NEW st, NEW leased, NEW attempt
  PROVE  LET r == Row(type, node, st, leased, attempt) IN
         r.type = type /\ r.node = node /\ r.status = st /\ r.execution = leased /\ r.attempt = attempt
BY DEF Row

\* What the task table looks like.
LEMMA TasksFrom ==
  ASSUME NEW f, NEW d, Comes(f, d)
  PROVE  /\ TaskIDs(d) = Survivors(f, d.version)
         /\ \A t \in Survivors(f, d.version) :
              /\ t \in TaskIDs(f)
              /\ d.tasks[t] = RowAt(f, d.version, t)
              /\ d.tasks[t].type = f.tasks[t].type /\ d.tasks[t].node = f.tasks[t].node
              /\ d.tasks[t].status = (IF d.version >= 10 /\ CutOff(f, t) THEN "failed" ELSE f.tasks[t].status)
              /\ d.tasks[t].execution = f.tasks[t].execution
              /\ d.tasks[t].attempt = RefAt(f, d.version, f.tasks[t].attempt)
<1>1. d.tasks = TasksAt(f, d.version)
  BY DEF Comes
<1>2. TaskIDs(d) = Survivors(f, d.version)
  BY <1>1 DEF TaskIDs, TasksAt
<1>3. ASSUME NEW t \in Survivors(f, d.version)
      PROVE  t \in TaskIDs(f) /\ d.tasks[t] = RowAt(f, d.version, t)
  BY <1>1, <1>3 DEF TasksAt, Survivors
<1>4. ASSUME NEW t \in Survivors(f, d.version)
      PROVE  /\ d.tasks[t].type = f.tasks[t].type /\ d.tasks[t].node = f.tasks[t].node
             /\ d.tasks[t].status = (IF d.version >= 10 /\ CutOff(f, t) THEN "failed" ELSE f.tasks[t].status)
             /\ d.tasks[t].execution = f.tasks[t].execution
             /\ d.tasks[t].attempt = RefAt(f, d.version, f.tasks[t].attempt)
  BY <1>3, RowFields DEF RowAt
<1> QED  BY <1>2, <1>3, <1>4

\* What was found comes from itself.
LEMMA ComesFromItself ==
  ASSUME NEW f, Left(f)
  PROVE  Comes(f, f)
<1>1. f.version \in Nat /\ f.version <= 13
  BY DEF Left, WellFormed, sqliteSchemaVersion
<1>2. ~Rebuilt(f, f.version) /\ \A t : ~(f.version >= 10 /\ CutOff(f, t))
  BY <1>1 DEF Rebuilt, CutOff
<1>3. Survivors(f, f.version) = TaskIDs(f)
  BY <1>2 DEF Survivors
<1>4. f.tasks = TasksAt(f, f.version)
  <2>1. ASSUME NEW t \in TaskIDs(f)
        PROVE  RowAt(f, f.version, t) = Row(f.tasks[t].type, f.tasks[t].node, f.tasks[t].status,
                                             f.tasks[t].execution, f.tasks[t].attempt)
    BY <1>2 DEF RowAt, RefAt
  <2>2. f.tasks = [t \in TaskIDs(f) |-> Row(f.tasks[t].type, f.tasks[t].node, f.tasks[t].status,
                                             f.tasks[t].execution, f.tasks[t].attempt)]
    BY DEF Left, WellFormed
  <2> QED  BY <1>3, <2>1, <2>2 DEF TasksAt
<1>5. StepsFrom(f, f)
  BY <1>2, <1>3 DEF StepsFrom, Left, WellFormed
<1>6. BackupsFrom(f, f)
  BY <1>2, <1>3 DEF BackupsFrom, Left, LeftByRelease, Supports
<1>7. RefsFrom(f, f)
  BY <1>2 DEF RefsFrom, RefAt, Left, WellFormed
<1>8. f = Database(f.version, f.tasks, f.steps, f.backups, f.instances, f.service)
  BY DEF Left, WellFormed, Database
<1>9. /\ f.version >= 8 => \A t \in Survivors(f, f.version) : f.tasks[t].type \in SupportedTypes
      /\ f.version >= 9 => Unique(f, IndexedWide)
  BY <1>3 DEF Left, LeftByRelease
<1> QED  BY <1>1, <1>4, <1>5, <1>6, <1>7, <1>8, <1>9 DEF Comes, sqliteSchemaVersion

\* A version that changes neither the task table nor the statuses.
LEMMA QuietVersion ==
  ASSUME NEW f, f.version \in Nat, NEW v \in Nat, f.version <= v, v + 1 \notin {7, 8, 10}
  PROVE  /\ Rebuilt(f, v + 1) <=> Rebuilt(f, v)
         /\ Survivors(f, v + 1) = Survivors(f, v)
         /\ TasksAt(f, v + 1) = TasksAt(f, v)
         /\ \A x : RefAt(f, v + 1, x) = RefAt(f, v, x)
         /\ FailedAt(f, v + 1) = FailedAt(f, v)
<1>1. Rebuilt(f, v + 1) <=> Rebuilt(f, v)
  BY DEF Rebuilt
<1>2. \A t : (v + 1 >= 10 /\ CutOff(f, t)) <=> (v >= 10 /\ CutOff(f, t))
  BY DEF CutOff
<1>3. Survivors(f, v + 1) = Survivors(f, v)
  BY <1>1 DEF Survivors
<1>4. \A x : RefAt(f, v + 1, x) = RefAt(f, v, x)
  BY <1>1 DEF RefAt
<1>5. \A t : RowAt(f, v + 1, t) = RowAt(f, v, t)
  BY <1>2, <1>4 DEF RowAt
<1>6. FailedAt(f, v + 1) = FailedAt(f, v)
  BY <1>2, <1>3 DEF FailedAt
<1> QED  BY <1>1, <1>3, <1>4, <1>5, <1>6 DEF TasksAt

LEMMA SameTasksUnique ==
  ASSUME NEW d, NEW e, d.tasks = e.tasks, NEW kinds
  PROVE  Unique(d, kinds) <=> Unique(e, kinds)
BY DEF Unique, TaskIDs

\* A migration may at most change the backups.
LEMMA QuietMigration ==
  ASSUME NEW f, Left(f), NEW d, Comes(f, d), d.version < 13, d.version + 1 \notin {7, 8, 10},
         NEW B, NEW g, g = Database(d.version + 1, d.tasks, d.steps, B, d.instances, d.service),
         BackupsFrom(f, g), d.version + 1 = 9 => Unique(d, IndexedWide)
  PROVE  Comes(f, g)
<1>1. f.version \in Nat /\ d.version \in Nat /\ f.version <= d.version
  BY DEF Comes, Left, WellFormed
<1>2. /\ Survivors(f, d.version + 1) = Survivors(f, d.version)
      /\ TasksAt(f, d.version + 1) = TasksAt(f, d.version)
      /\ \A x : RefAt(f, d.version + 1, x) = RefAt(f, d.version, x)
      /\ FailedAt(f, d.version + 1) = FailedAt(f, d.version)
  BY <1>1, QuietVersion
<1>3. /\ g.version = d.version + 1 /\ g.tasks = d.tasks /\ g.steps = d.steps
      /\ g.backups = B /\ g.instances = d.instances /\ g.service = d.service
  BY DatabaseFields
<1>4. g = Database(g.version, g.tasks, g.steps, g.backups, g.instances, g.service)
  BY <1>3
<1>5. g.tasks = TasksAt(f, g.version)
  BY <1>2, <1>3 DEF Comes
<1>6. StepsFrom(f, g)
  <2>1. d.version + 1 >= 10 => d.version >= 10
    BY <1>1
  <2> QED  BY <1>2, <1>3, <2>1 DEF StepsFrom, Comes
<1>7. RefsFrom(f, g)
  BY <1>2, <1>3 DEF RefsFrom, Comes
<1>8. g.version >= 8 => \A t \in Survivors(f, g.version) : f.tasks[t].type \in SupportedTypes
  <2>1. d.version + 1 >= 8 => d.version >= 8
    BY <1>1
  <2> QED  BY <1>2, <1>3, <2>1 DEF Comes
<1>9. g.version >= 9 => Unique(g, IndexedWide)
  <2>1. d.version + 1 >= 9 => d.version >= 9 \/ d.version + 1 = 9
    BY <1>1
  <2>2. g.version >= 9 => Unique(d, IndexedWide)
    BY <1>3, <2>1 DEF Comes
  <2> QED  BY <1>3, <2>2, SameTasksUnique
<1> QED  BY <1>1, <1>3, <1>4, <1>5, <1>6, <1>7, <1>8, <1>9 DEF Comes, sqliteSchemaVersion

\* What the statements write into the record of a database.
LEMMA NewVersion ==
  ASSUME NEW d, d = Database(d.version, d.tasks, d.steps, d.backups, d.instances, d.service), NEW v, NEW B
  PROVE  /\ [d EXCEPT !.version = v] = Database(v, d.tasks, d.steps, d.backups, d.instances, d.service)
         /\ [[d EXCEPT !.backups = B] EXCEPT !.version = v]
              = Database(v, d.tasks, d.steps, B, d.instances, d.service)
<1> DEFINE a == d.version
           b == d.tasks
           c == d.steps
           e == d.backups
           i == d.instances
           s == d.service
<1>1. d = [version |-> a, tasks |-> b, steps |-> c, backups |-> e, instances |-> i, service |-> s]
  BY DEF Database
<1> HIDE DEF a, b, c, e, i, s
<1>2. [d EXCEPT !.version = v] = [version |-> v, tasks |-> b, steps |-> c, backups |-> e, instances |-> i, service |-> s]
  BY <1>1
<1>3. [d EXCEPT !.backups = B] = [version |-> a, tasks |-> b, steps |-> c, backups |-> B, instances |-> i, service |-> s]
  BY <1>1
<1> DEFINE h == [d EXCEPT !.backups = B]
<1>4. [h EXCEPT !.version = v]
        = [version |-> v, tasks |-> b, steps |-> c, backups |-> B, instances |-> i, service |-> s]
  <2> HIDE DEF h
  <2>1. h = [version |-> a, tasks |-> b, steps |-> c, backups |-> B, instances |-> i, service |-> s]
    BY <1>3 DEF h
  <2> QED  BY <2>1
<1> QED  BY <1>2, <1>4 DEF Database, a, b, c, e, i, s

\* Versions that add columns and triggers, or only make an index anew.
LEMMA ColumnMigration ==
  ASSUME NEW f, Left(f), NEW d, Comes(f, d), d.version < 13, d.version + 1 \notin {3, 5, 7, 8, 10, 12},
         d.version + 1 = 9 => Unique(d, IndexedWide)
  PROVE  Comes(f, [d EXCEPT !.version = d.version + 1])
<1> DEFINE g == Database(d.version + 1, d.tasks, d.steps, d.backups, d.instances, d.service)
<1>1. f.version \in Nat /\ d.version \in Nat /\ f.version <= d.version
  BY DEF Comes, Left, WellFormed
<1>2. [d EXCEPT !.version = d.version + 1] = g
  BY NewVersion DEF Comes
<1>3. g.version = d.version + 1 /\ g.backups = d.backups
  BY DatabaseFields
<1> HIDE DEF g
<1>4. /\ Survivors(f, d.version + 1) = Survivors(f, d.version)
      /\ Rebuilt(f, d.version + 1) <=> Rebuilt(f, d.version)
  BY <1>1, QuietVersion
<1>5. (d.version + 1 >= 3 => d.version >= 3) /\ (d.version + 1 >= 12 => d.version >= 12)
  BY <1>1
<1>6. BackupsFrom(f, g)
  BY <1>3, <1>4, <1>5 DEF BackupsFrom, Comes
<1>7. Comes(f, g)
  BY <1>6, QuietMigration DEF g
<1> QED  BY <1>2, <1>7

\* The node a backup gets.
NodeOf(d, task) == IF task \in TaskIDs(d) THEN d.tasks[task].node ELSE Blank

LEMMA WithNodeRecord ==
  ASSUME NEW d, NEW b, b = [task |-> b.task, node |-> b.node]
  PROVE  /\ WithNode(d, b) = [task |-> b.task, node |-> IF b.node # Blank THEN b.node ELSE NodeOf(d, b.task)]
         /\ WithNode(d, b).task = b.task
         /\ WithNode(d, b).node = (IF b.node # Blank THEN b.node ELSE NodeOf(d, b.task))
<1> DEFINE t == b.task
           n == b.node
<1>1. b = [task |-> t, node |-> n]
  OBVIOUS
<1>2. WithNode(d, b) = IF n # Blank THEN b ELSE [b EXCEPT !.node = NodeOf(d, t)]
  BY DEF WithNode, NodeOf
<1> HIDE DEF t, n
<1>3. [b EXCEPT !.node = NodeOf(d, t)] = [task |-> t, node |-> NodeOf(d, t)]
  BY <1>1
<1>4. WithNode(d, b) = [task |-> t, node |-> IF n # Blank THEN n ELSE NodeOf(d, t)]
  BY <1>1, <1>2, <1>3
<1>5. WithNode(d, b).task = t /\ WithNode(d, b).node = (IF n # Blank THEN n ELSE NodeOf(d, t))
  BY <1>4
<1> QED  BY <1>4, <1>5 DEF t, n

\* Before the rebuilds a backup gets the node that the one it was copied from
\* would have got at the start.
LEMMA SameNodeAsFirst ==
  ASSUME NEW f, Left(f), NEW d, Comes(f, d), d.version < 7, NEW b \in d.backups
  PROVE  \E c \in f.backups : WithNode(d, b) = WithNode(f, c) /\ WithNode(f, c).task = c.task /\ c.task = b.task
<1>1. ~Rebuilt(f, d.version)
  BY DEF Rebuilt, Comes
<1>2. TaskIDs(d) = TaskIDs(f) /\ \A t \in TaskIDs(f) : d.tasks[t].node = f.tasks[t].node
  <2>1. Survivors(f, d.version) = TaskIDs(f)
    BY <1>1 DEF Survivors
  <2> QED  BY <2>1, TasksFrom
<1>3. \A t : NodeOf(d, t) = NodeOf(f, t)
  BY <1>2 DEF NodeOf
<1>4. PICK c \in f.backups : b = c \/ b = WithNode(f, c)
  BY DEF Comes, BackupsFrom
<1>5. c = [task |-> c.task, node |-> c.node]
  BY DEF Left, WellFormed
<1>6. /\ WithNode(f, c) = [task |-> c.task, node |-> IF c.node # Blank THEN c.node ELSE NodeOf(f, c.task)]
      /\ WithNode(f, c).task = c.task
      /\ WithNode(f, c).node = (IF c.node # Blank THEN c.node ELSE NodeOf(f, c.task))
  BY <1>5, WithNodeRecord
<1>7. CASE b = c
  <2>1. WithNode(d, b) = [task |-> c.task, node |-> IF c.node # Blank THEN c.node ELSE NodeOf(d, c.task)]
    BY <1>5, <1>7, WithNodeRecord
  <2> QED  BY <1>3, <1>6, <1>7, <2>1
<1>8. CASE b = WithNode(f, c)
  <2>1. b = [task |-> b.task, node |-> b.node] /\ b.task = c.task
        /\ b.node = (IF c.node # Blank THEN c.node ELSE NodeOf(f, c.task))
    BY <1>6, <1>8
  <2>2. WithNode(d, b) = [task |-> b.task, node |-> IF b.node # Blank THEN b.node ELSE NodeOf(d, b.task)]
    BY <2>1, WithNodeRecord
  <2>3. WithNode(d, b) = WithNode(f, c)
    BY <1>3, <1>6, <2>1, <2>2
  <2> QED  BY <1>6, <2>1, <2>3
<1> QED  BY <1>4, <1>7, <1>8

\* What versions 3 and 5 make, if they can.
LEMMA BackfillEffect ==
  ASSUME NEW d
  PROVE  LET made == [d EXCEPT !.backups = {WithNode(d, b) : b \in d.backups}]
         IN  BackfillBackups(d) = IF BackupsRefer(made) THEN {made} ELSE {}
BY DEF BackfillBackups

LEMMA BackfillMigration ==
  ASSUME NEW f, Left(f), NEW d, Comes(f, d), d.version \in {2, 4}, NEW e \in BackfillBackups(d)
  PROVE  Comes(f, [e EXCEPT !.version = d.version + 1])
<1> DEFINE B == {WithNode(d, b) : b \in d.backups}
           g == Database(d.version + 1, d.tasks, d.steps, B, d.instances, d.service)
<1>1. e = [d EXCEPT !.backups = B] /\ BackupsRefer(e)
  BY BackfillEffect
<1>2. [e EXCEPT !.version = d.version + 1] = g
  <2>1. d = Database(d.version, d.tasks, d.steps, d.backups, d.instances, d.service)
    BY DEF Comes
  <2>2. [[d EXCEPT !.backups = B] EXCEPT !.version = d.version + 1] = g
    BY <2>1, NewVersion
  <2> QED  BY <1>1, <2>2
<1>3. g.version = d.version + 1 /\ g.backups = B
  BY DatabaseFields
<1>4. e.backups = B /\ e.instances = d.instances
  <2>1. d = [version |-> d.version, tasks |-> d.tasks, steps |-> d.steps, backups |-> d.backups,
             instances |-> d.instances, service |-> d.service]
    BY DEF Comes, Database
  <2> QED  BY <1>1, <2>1
<1>5. DOMAIN d.instances = DOMAIN f.instances /\ Blank \notin DOMAIN f.instances
  <2>1. d.instances = [n \in DOMAIN f.instances |-> [runtime |-> d.instances[n].runtime, last |-> d.instances[n].last]]
    BY DEF Comes, RefsFrom
  <2>2. Blank \notin DOMAIN f.instances
    BY DEF Left, WellFormed
  <2> QED  BY <2>1, <2>2
<1>6. ASSUME NEW b \in B
      PROVE  b.node # Blank /\ \E c \in f.backups : b = WithNode(f, c)
  <2>1. b.node # Blank
    BY <1>1, <1>4, <1>5 DEF BackupsRefer
  <2>2. PICK a \in d.backups : b = WithNode(d, a)
    OBVIOUS
  <2>3. \E c \in f.backups : WithNode(d, a) = WithNode(f, c)
    BY SameNodeAsFirst
  <2> QED  BY <2>1, <2>2, <2>3
<1>7. ASSUME NEW c \in f.backups, Supports(f, c.task)
      PROVE  \E b \in B : b.task = c.task
  <2>1. PICK a \in d.backups : a.task = c.task
    BY <1>7 DEF Comes, BackupsFrom
  <2>2. WithNode(d, a).task = a.task
    BY SameNodeAsFirst
  <2> QED  BY <2>1, <2>2
<1>8. ~Rebuilt(f, d.version + 1)
  BY DEF Rebuilt
<1> HIDE DEF B, g
<1>9. BackupsFrom(f, g)
  BY <1>3, <1>6, <1>7, <1>8 DEF BackupsFrom
<1>10. Comes(f, g)
  BY <1>9, QuietMigration DEF g
<1> QED  BY <1>2, <1>10

\* Version 12.
LEMMA OrphanMigration ==
  ASSUME NEW f, Left(f), NEW d, Comes(f, d), d.version = 11, NEW e \in DropOrphanBackups(d)
  PROVE  Comes(f, [e EXCEPT !.version = 12])
<1> DEFINE B == {b \in d.backups : b.task \in TaskIDs(d)}
           g == Database(d.version + 1, d.tasks, d.steps, B, d.instances, d.service)
<1>1. e = [d EXCEPT !.backups = B]
  BY DEF DropOrphanBackups
<1>2. [e EXCEPT !.version = 12] = g
  <2>1. d = Database(d.version, d.tasks, d.steps, d.backups, d.instances, d.service)
    BY DEF Comes
  <2>2. [[d EXCEPT !.backups = B] EXCEPT !.version = d.version + 1] = g
    BY <2>1, NewVersion
  <2> QED  BY <1>1, <2>2
<1>3. g.version = 12 /\ g.backups = B
  BY DatabaseFields
<1>4. TaskIDs(d) = Survivors(f, 11)
  BY TasksFrom
<1>5. f.version \in Nat /\ f.version <= 11
  BY DEF Comes, Left, WellFormed
<1>6. Survivors(f, 12) = Survivors(f, 11)
  BY <1>5 DEF Survivors, Rebuilt
<1>7. ASSUME NEW c \in f.backups, Supports(f, c.task)
      PROVE  \E b \in B : b.task = c.task
  <2>1. PICK a \in d.backups : a.task = c.task
    BY <1>7 DEF Comes, BackupsFrom
  <2>2. a.task \in TaskIDs(d)
    BY <1>4, <1>7, <2>1 DEF Supports, Survivors
  <2> QED  BY <2>1, <2>2
<1>8. \A b \in d.backups : (\E c \in f.backups : b = c \/ b = WithNode(f, c)) /\ b.node # Blank
  BY DEF Comes, BackupsFrom
<1>9. BackupsFrom(f, g)
  <2>1. \A b \in B : b \in d.backups /\ b.task \in Survivors(f, 12)
    BY <1>4, <1>6
  <2> HIDE DEF B, g
  <2> QED  BY <1>3, <1>7, <1>8, <2>1 DEF BackupsFrom
<1>10. Comes(f, g)
  <2> HIDE DEF B
  <2> QED  BY <1>9, QuietMigration
<1> QED  BY <1>2, <1>10

\* A reason for which a database cannot be brought to the schema.
Hopeless(f) ==
  \/ f.version < 5 /\ \E b \in f.backups : ~(WithNode(f, b).node \in DOMAIN f.instances /\ b.task \in TaskIDs(f))
  \/ ~Unique(f, IndexedWide)

\* Tasks that an index does not admit were there from the start.
LEMMA UniqueAtFirst ==
  ASSUME NEW f, NEW d, Comes(f, d), d.version < 10, NEW kinds, kinds \subseteq IndexedWide, ~Unique(d, kinds)
  PROVE  ~Unique(f, IndexedWide)
<1>1. \A t \in TaskIDs(d) : /\ t \in TaskIDs(f) /\ d.tasks[t].type = f.tasks[t].type
                            /\ d.tasks[t].node = f.tasks[t].node /\ d.tasks[t].status = f.tasks[t].status
  BY TasksFrom DEF Comes
<1>2. PICK t \in TaskIDs(d), u \in TaskIDs(d) :
        /\ t # u /\ d.tasks[t].status \in LiveStatuses /\ d.tasks[u].status \in LiveStatuses
        /\ d.tasks[t].node = d.tasks[u].node
        /\ {d.tasks[t].type, d.tasks[u].type} \subseteq
             IF d.tasks[t].node = Blank THEN {"migrate", "migrate_rollback", "cloudflare_tunnel_sync"} ELSE kinds
  BY DEF Unique
<1>3. /\ t \in TaskIDs(f) /\ u \in TaskIDs(f)
      /\ t # u /\ f.tasks[t].status \in LiveStatuses /\ f.tasks[u].status \in LiveStatuses
      /\ f.tasks[t].node = f.tasks[u].node
      /\ {f.tasks[t].type, f.tasks[u].type} \subseteq
             IF f.tasks[t].node = Blank THEN {"migrate", "migrate_rollback", "cloudflare_tunnel_sync"} ELSE IndexedWide
  BY <1>1, <1>2
<1> QED  BY <1>3 DEF Unique

LEMMA BackfillFails ==
  ASSUME NEW f, Left(f), NEW d, Comes(f, d), d.version < 5, BackfillBackups(d) = {}
  PROVE  Hopeless(f)
<1> DEFINE B == {WithNode(d, b) : b \in d.backups}
           e == [d EXCEPT !.backups = B]
<1>1. ~BackupsRefer(e)
  BY BackfillEffect
<1>2. e.backups = B /\ e.instances = d.instances /\ e.tasks = d.tasks
  <2>1. d = [version |-> d.version, tasks |-> d.tasks, steps |-> d.steps, backups |-> d.backups,
             instances |-> d.instances, service |-> d.service]
    BY DEF Comes, Database
  <2> QED  BY <2>1
<1>3. DOMAIN d.instances = DOMAIN f.instances
  <2>1. d.instances = [n \in DOMAIN f.instances |-> [runtime |-> d.instances[n].runtime, last |-> d.instances[n].last]]
    BY DEF Comes, RefsFrom
  <2> QED  BY <2>1
<1>4. f.version \in Nat /\ d.version \in Nat /\ f.version <= d.version
  BY DEF Comes, Left, WellFormed
<1>5. TaskIDs(e) = TaskIDs(f)
  <2>1. Survivors(f, d.version) = TaskIDs(f)
    BY <1>4 DEF Survivors, Rebuilt
  <2> QED  BY <1>2, <2>1, TasksFrom DEF TaskIDs
<1> HIDE DEF e
<1>6. PICK b \in B : ~(Refers(e, b.task) /\ b.node \in DOMAIN d.instances)
  BY <1>1, <1>2 DEF BackupsRefer
<1>7. PICK a \in d.backups : b = WithNode(d, a)
  OBVIOUS
<1>8. PICK c \in f.backups : WithNode(d, a) = WithNode(f, c) /\ WithNode(f, c).task = c.task
  BY <1>4, SameNodeAsFirst
<1>9. ~(WithNode(f, c).node \in DOMAIN f.instances /\ c.task \in TaskIDs(f))
  BY <1>3, <1>5, <1>6, <1>7, <1>8 DEF Refers
<1> QED  BY <1>4, <1>9 DEF Hopeless

\* What the rebuild and version 10 write, several tables at once.
RebuildUpdate(d, ts, ss, bs, is, sv) ==
  [d EXCEPT !.tasks = ts, !.steps = ss, !.backups = bs, !.service = sv, !.instances = is]
LegacyUpdate(d, ts, ss, is, sv) ==
  [d EXCEPT !.instances = is, !.service = sv, !.steps = ss, !.tasks = ts]

LEMMA RebuildUpdates ==
  ASSUME NEW d, d = Database(d.version, d.tasks, d.steps, d.backups, d.instances, d.service),
         NEW ts, NEW ss, NEW bs, NEW is, NEW sv
  PROVE  RebuildUpdate(d, ts, ss, bs, is, sv) = Database(d.version, ts, ss, bs, is, sv)
<1> DEFINE a == d.version
           e == d.backups
           h == RebuildUpdate(d, ts, ss, bs, is, sv)
           g == Database(a, ts, ss, bs, is, sv)
           fields == {"version", "tasks", "steps", "backups", "instances", "service"}
<1>1. d = [version |-> a, tasks |-> d.tasks, steps |-> d.steps, backups |-> e, instances |-> d.instances,
           service |-> d.service]
  BY DEF Database
<1> HIDE DEF a, e
<1>2. DOMAIN h = fields /\ h = [x \in DOMAIN h |-> h[x]]
  BY <1>1 DEF RebuildUpdate
<1>3. DOMAIN g = fields /\ g = [x \in DOMAIN g |-> g[x]]
  BY DEF Database
<1>4. h.version = a /\ h.tasks = ts /\ h.steps = ss /\ h.backups = bs /\ h.instances = is /\ h.service = sv
  BY <1>1 DEF RebuildUpdate
<1>5. g.version = a /\ g.tasks = ts /\ g.steps = ss /\ g.backups = bs /\ g.instances = is /\ g.service = sv
  BY DEF Database
<1> HIDE DEF h, g
<1>6. \A x \in fields : h[x] = g[x]
  BY <1>4, <1>5
<1> HIDE DEF fields
<1>7. h = g
  BY <1>2, <1>3, <1>6
<1> QED  BY <1>7 DEF h, g, a, e

LEMMA LegacyUpdates ==
  ASSUME NEW d, d = Database(d.version, d.tasks, d.steps, d.backups, d.instances, d.service),
         NEW ts, NEW ss, NEW is, NEW sv
  PROVE  LegacyUpdate(d, ts, ss, is, sv) = Database(d.version, ts, ss, d.backups, is, sv)
<1> DEFINE a == d.version
           e == d.backups
           h == LegacyUpdate(d, ts, ss, is, sv)
           g == Database(a, ts, ss, e, is, sv)
           fields == {"version", "tasks", "steps", "backups", "instances", "service"}
<1>1. d = [version |-> a, tasks |-> d.tasks, steps |-> d.steps, backups |-> e, instances |-> d.instances,
           service |-> d.service]
  BY DEF Database
<1> HIDE DEF a, e
<1>2. DOMAIN h = fields /\ h = [x \in DOMAIN h |-> h[x]]
  BY <1>1 DEF LegacyUpdate
<1>3. DOMAIN g = fields /\ g = [x \in DOMAIN g |-> g[x]]
  BY DEF Database
<1>4. h.version = a /\ h.tasks = ts /\ h.steps = ss /\ h.backups = e /\ h.instances = is /\ h.service = sv
  BY <1>1 DEF LegacyUpdate
<1>5. g.version = a /\ g.tasks = ts /\ g.steps = ss /\ g.backups = e /\ g.instances = is /\ g.service = sv
  BY DEF Database
<1> HIDE DEF h, g
<1>6. \A x \in fields : h[x] = g[x]
  BY <1>4, <1>5
<1> HIDE DEF fields
<1>7. h = g
  BY <1>2, <1>3, <1>6
<1> QED  BY <1>7 DEF h, g, a, e

\* What the rebuild of the task table makes of a database.
LEMMA RebuildEffect ==
  ASSUME NEW d, d = Database(d.version, d.tasks, d.steps, d.backups, d.instances, d.service), NEW B,
         d.service = [runtime |-> d.service.runtime, last |-> d.service.last]
  PROVE  LET supported == {t \in TaskIDs(d) : d.tasks[t].type \in SupportedTypes}
             gone == TaskIDs(d) \ supported
         IN  WithoutUnsupported(d, B) =
               Database(d.version,
                        [t \in supported |-> [d.tasks[t] EXCEPT !.attempt = Cleared(d, d.tasks[t].attempt)]],
                        Restricted(d.steps, DOMAIN d.steps \ gone), B,
                        [n \in DOMAIN d.instances |->
                           [d.instances[n] EXCEPT !.last = Cleared(d, d.instances[n].last)]],
                        [runtime |-> d.service.runtime, last |-> Cleared(d, d.service.last)])
<1> DEFINE supported == {t \in TaskIDs(d) : d.tasks[t].type \in SupportedTypes}
           gone == TaskIDs(d) \ supported
           ts == [t \in supported |-> [d.tasks[t] EXCEPT !.attempt = Cleared(d, d.tasks[t].attempt)]]
           ss == Restricted(d.steps, DOMAIN d.steps \ gone)
           is == [n \in DOMAIN d.instances |-> [d.instances[n] EXCEPT !.last = Cleared(d, d.instances[n].last)]]
           sv == [runtime |-> d.service.runtime, last |-> Cleared(d, d.service.last)]
<1>1. [d.service EXCEPT !.last = Cleared(d, d.service.last)] = sv
  <2> DEFINE r == d.service.runtime
             l == d.service.last
             x == Cleared(d, d.service.last)
  <2>1. d.service = [runtime |-> r, last |-> l]
    OBVIOUS
  <2> HIDE DEF r, l, x
  <2>2. [d.service EXCEPT !.last = x] = [runtime |-> r, last |-> x]
    BY <2>1
  <2> QED  BY <2>2 DEF r, x
<1>2. WithoutUnsupported(d, B) =
        RebuildUpdate(d, ts, ss, B, is, sv)
  BY <1>1 DEF WithoutUnsupported, RebuildUpdate
<1> HIDE DEF ts, ss, is, sv
<1>3. RebuildUpdate(d, ts, ss, B, is, sv) = Database(d.version, ts, ss, B, is, sv)
  BY RebuildUpdates
<1>4. WithoutUnsupported(d, B) = Database(d.version, ts, ss, B, is, sv)
  BY <1>2, <1>3
<1> QED  BY <1>4 DEF ts, ss, is, sv

\* A row with another attempt, another status.
LEMMA RowUpdates ==
  ASSUME NEW type, NEW node, NEW st, NEW leased, NEW attempt, NEW x
  PROVE  LET r == Row(type, node, st, leased, attempt) IN
         /\ [r EXCEPT !.attempt = x] = Row(type, node, st, leased, x)
         /\ [r EXCEPT !.status = x] = Row(type, node, x, leased, attempt)
BY DEF Row

\* Clearing again what has been cleared before changes nothing.
LEMMA ClearedTwice ==
  ASSUME NEW f, Left(f), NEW d, Comes(f, d), NEW x
  PROVE  Cleared(d, RefAt(f, d.version, x)) = Cleared(f, x)
<1>1. TaskIDs(d) = Survivors(f, d.version) /\ \A t \in TaskIDs(d) : d.tasks[t].type = f.tasks[t].type
  BY TasksFrom
<1>2. CASE Rebuilt(f, d.version)
  <2>1. \A t : t \in TaskIDs(d) <=> t \in TaskIDs(f) /\ f.tasks[t].type \in SupportedTypes
    BY <1>1, <1>2 DEF Survivors
  <2>2. \A y : Cleared(d, y) = y
    BY <1>1, <2>1 DEF Cleared
  <2> QED  BY <1>2, <2>2 DEF RefAt
<1>3. CASE ~Rebuilt(f, d.version)
  <2>1. TaskIDs(d) = TaskIDs(f)
    BY <1>1, <1>3 DEF Survivors
  <2> QED  BY <1>1, <1>3, <2>1 DEF RefAt, Cleared
<1> QED  BY <1>2, <1>3

\* Versions 7 and 8.
LEMMA RebuildMigration ==
  ASSUME NEW f, Left(f), NEW d, Comes(f, d), d.version \in {6, 7}, NEW e \in RebuildTasks(d)
  PROVE  Comes(f, [e EXCEPT !.version = d.version + 1])
<1> DEFINE v == d.version + 1
           supported == {t \in TaskIDs(d) : d.tasks[t].type \in SupportedTypes}
           gone == TaskIDs(d) \ supported
           B == {b \in d.backups : b.task \in TaskIDs(d) /\ d.tasks[b.task].type \in SupportedTypes}
           ts == [t \in supported |-> [d.tasks[t] EXCEPT !.attempt = Cleared(d, d.tasks[t].attempt)]]
           ss == Restricted(d.steps, DOMAIN d.steps \ gone)
           is == [n \in DOMAIN d.instances |-> [d.instances[n] EXCEPT !.last = Cleared(d, d.instances[n].last)]]
           sv == [runtime |-> d.service.runtime, last |-> Cleared(d, d.service.last)]
           g == Database(v, ts, ss, B, is, sv)
<1>1. d = Database(d.version, d.tasks, d.steps, d.backups, d.instances, d.service)
  BY DEF Comes
<1>2. e = Database(d.version, ts, ss, B, is, sv)
  <2>1. d.service = [runtime |-> d.service.runtime, last |-> d.service.last]
    BY DEF Comes, RefsFrom
  <2>2. e = WithoutUnsupported(d, B)
    BY DEF RebuildTasks
  <2> QED  BY <1>1, <2>1, <2>2, RebuildEffect
<1>3. [e EXCEPT !.version = v] = g
  <2> HIDE DEF ts, ss, B, is, sv, v
  <2>1. /\ e = Database(e.version, e.tasks, e.steps, e.backups, e.instances, e.service)
        /\ e.tasks = ts /\ e.steps = ss /\ e.backups = B /\ e.instances = is /\ e.service = sv
    BY <1>2, DatabaseFields
  <2> QED  BY <2>1, NewVersion
<1>4. f.version \in Nat /\ f.version <= d.version
  BY DEF Comes, Left, WellFormed
<1>5. v \in {7, 8} /\ Rebuilt(f, v)
  BY <1>4 DEF Rebuilt
<1>6. Survivors(f, v) = {t \in TaskIDs(f) : f.tasks[t].type \in SupportedTypes} /\ \A x : RefAt(f, v, x) = Cleared(f, x)
  BY <1>5 DEF Survivors, RefAt
<1>7. /\ TaskIDs(d) = Survivors(f, d.version)
      /\ \A t \in TaskIDs(d) : t \in TaskIDs(f) /\ d.tasks[t] = RowAt(f, d.version, t) /\ d.tasks[t].type = f.tasks[t].type
                               /\ d.tasks[t].attempt = RefAt(f, d.version, f.tasks[t].attempt)
  BY TasksFrom
<1>8. supported = Survivors(f, v)
  <2>1. \A t \in Survivors(f, v) : t \in Survivors(f, d.version)
    BY <1>6 DEF Survivors
  <2> QED  BY <1>6, <1>7, <2>1
<1> HIDE DEF v
<1>9. ts = TasksAt(f, v)
  <2>1. ASSUME NEW t \in supported
        PROVE  [d.tasks[t] EXCEPT !.attempt = Cleared(d, d.tasks[t].attempt)] = RowAt(f, v, t)
    <3>1. d.tasks[t].attempt = RefAt(f, d.version, f.tasks[t].attempt)
      BY <1>7
    <3>2. Cleared(d, d.tasks[t].attempt) = RefAt(f, v, f.tasks[t].attempt)
      BY <1>6, <3>1, ClearedTwice
    <3>3. ~(d.version >= 10) /\ ~(v >= 10)
      BY <1>5
    <3>4. d.tasks[t] = Row(f.tasks[t].type, f.tasks[t].node, f.tasks[t].status, f.tasks[t].execution,
                           RefAt(f, d.version, f.tasks[t].attempt))
      BY <1>7, <3>3 DEF RowAt
    <3>5. [d.tasks[t] EXCEPT !.attempt = RefAt(f, v, f.tasks[t].attempt)]
            = Row(f.tasks[t].type, f.tasks[t].node, f.tasks[t].status, f.tasks[t].execution,
                  RefAt(f, v, f.tasks[t].attempt))
      BY <3>4, RowUpdates
    <3>6. RowAt(f, v, t) = Row(f.tasks[t].type, f.tasks[t].node, f.tasks[t].status, f.tasks[t].execution,
                               RefAt(f, v, f.tasks[t].attempt))
      BY <3>3 DEF RowAt
    <3> QED  BY <3>2, <3>5, <3>6
  <2> QED  BY <1>8, <2>1 DEF TasksAt
<1>10. /\ g.version = v /\ g.tasks = ts /\ g.steps = ss /\ g.backups = B /\ g.instances = is /\ g.service = sv
       /\ g = Database(g.version, g.tasks, g.steps, g.backups, g.instances, g.service)
  <2> HIDE DEF ts, ss, B, is, sv
  <2> QED  BY DatabaseFields
<1>11. StepsFrom(f, g)
  <2>1. DOMAIN ss = DOMAIN d.steps \ gone /\ ss = [t \in DOMAIN ss |-> ss[t]]
    BY DEF Restricted
  <2>2. DOMAIN d.steps = DOMAIN f.steps \ {t \in TaskIDs(f) : t \notin Survivors(f, d.version)}
    BY DEF Comes, StepsFrom
  <2>3. DOMAIN ss = DOMAIN f.steps \ {t \in TaskIDs(f) : t \notin Survivors(f, v)}
    <3>1. \A t \in Survivors(f, v) : t \in Survivors(f, d.version)
      BY <1>7, <1>8
    <3>2. gone = Survivors(f, d.version) \ Survivors(f, v)
      BY <1>7, <1>8
    <3>3. Survivors(f, d.version) \subseteq TaskIDs(f)
      BY DEF Survivors
    <3> HIDE DEF ss, gone
    <3> QED  BY <2>1, <2>2, <3>1, <3>2, <3>3
  <2>4. ~(v >= 10)
    BY <1>5
  <2> HIDE DEF ss, g
  <2> QED  BY <1>10, <2>1, <2>3, <2>4 DEF StepsFrom
<1>12. BackupsFrom(f, g)
  <2>1. \A b \in B : b \in d.backups /\ b.task \in Survivors(f, v)
    BY <1>8
  <2>2. \A b \in d.backups : (\E c \in f.backups : b = c \/ b = WithNode(f, c)) /\ b.node # Blank
    BY DEF Comes, BackupsFrom
  <2>3. ASSUME NEW c \in f.backups, Supports(f, c.task)
        PROVE  \E b \in B : b.task = c.task
    <3>1. PICK a \in d.backups : a.task = c.task
      BY <2>3 DEF Comes, BackupsFrom
    <3>2. c.task \in supported
      BY <1>6, <1>8, <2>3 DEF Supports
    <3> QED  BY <3>1, <3>2
  <2> HIDE DEF B, g
  <2> QED  BY <1>10, <2>1, <2>2, <2>3 DEF BackupsFrom
<1>13. RefsFrom(f, g)
  <2>1. ~(d.version >= 10)
    BY <1>5
  <2>2. FailedAt(f, d.version) = {}
    BY <2>1 DEF FailedAt
  <2>3. d.instances = [n \in DOMAIN f.instances |-> [runtime |-> d.instances[n].runtime, last |-> d.instances[n].last]]
    BY DEF Comes, RefsFrom
  <2>4. /\ \A n \in DOMAIN f.instances : d.instances[n].last = RefAt(f, d.version, f.instances[n].last)
        /\ d.service.last = RefAt(f, d.version, f.service.last)
    BY <2>2 DEF Comes, RefsFrom
  <2>5. ASSUME NEW n \in DOMAIN f.instances
        PROVE  is[n] = [runtime |-> d.instances[n].runtime, last |-> RefAt(f, v, f.instances[n].last)]
    <3>1. Cleared(d, d.instances[n].last) = RefAt(f, v, f.instances[n].last)
      BY <1>6, <2>4, ClearedTwice
    <3>2. d.instances[n] = [runtime |-> d.instances[n].runtime, last |-> d.instances[n].last] /\ n \in DOMAIN d.instances
      BY <2>3
    <3>3. is[n] = [d.instances[n] EXCEPT !.last = Cleared(d, d.instances[n].last)]
      BY <3>2
    <3> HIDE DEF is
    <3> QED  BY <3>1, <3>2, <3>3
  <2>6. is = [n \in DOMAIN f.instances |-> [runtime |-> is[n].runtime, last |-> is[n].last]]
    <3>1. DOMAIN d.instances = DOMAIN f.instances
      BY <2>3
    <3>2. is = [n \in DOMAIN f.instances |-> is[n]]
      BY <3>1
    <3>3. ASSUME NEW n \in DOMAIN f.instances
          PROVE  is[n] = [runtime |-> is[n].runtime, last |-> is[n].last]
      <4> DEFINE r == d.instances[n].runtime
                 l == RefAt(f, v, f.instances[n].last)
      <4>1. is[n] = [runtime |-> r, last |-> l]
        BY <2>5
      <4> HIDE DEF is, r, l
      <4> QED  BY <4>1
    <3> HIDE DEF is
    <3> QED  BY <3>2, <3>3
  <2>7. sv.last = RefAt(f, v, f.service.last) /\ sv = [runtime |-> sv.runtime, last |-> sv.last]
    BY <1>6, <2>4, ClearedTwice
  <2>8. \A n \in DOMAIN f.instances : is[n].last = RefAt(f, v, f.instances[n].last)
    <3> SUFFICES ASSUME NEW n \in DOMAIN f.instances
                 PROVE  is[n].last = RefAt(f, v, f.instances[n].last)
      OBVIOUS
    <3> DEFINE r == d.instances[n].runtime
               l == RefAt(f, v, f.instances[n].last)
    <3>1. is[n] = [runtime |-> r, last |-> l]
      BY <2>5
    <3> HIDE DEF is, r
    <3> QED  BY <3>1
  <2> HIDE DEF is, sv, g
  <2> QED  BY <1>10, <2>6, <2>7, <2>8 DEF RefsFrom
<1>14. /\ g.version \in Nat /\ f.version <= g.version /\ g.version <= sqliteSchemaVersion
       /\ g.tasks = TasksAt(f, g.version) /\ ~(g.version >= 9)
       /\ \A t \in Survivors(f, g.version) : f.tasks[t].type \in SupportedTypes
  <2>1. v \in {7, 8} /\ f.version <= v
    BY <1>4, <1>5 DEF v
  <2>2. v \in Nat /\ v <= 13 /\ ~(v >= 9)
    BY <2>1
  <2>3. g.version = v /\ g.tasks = TasksAt(f, v)
    BY <1>9, <1>10
  <2> HIDE DEF g
  <2> QED  BY <1>6, <2>1, <2>2, <2>3 DEF sqliteSchemaVersion
<1> HIDE DEF g, v
<1>15. Comes(f, g)
  BY <1>10, <1>11, <1>12, <1>13, <1>14 DEF Comes
<1> QED  BY <1>3, <1>15 DEF v

\* Version 10.
Legacy(d) == {t \in TaskIDs(d) : d.tasks[t].status = "running" /\ ~d.tasks[t].execution}
LegacyOn(d, n) == {t \in Legacy(d) : d.tasks[t].node = n}
LegacyTasks(d) ==
  [t \in TaskIDs(d) |-> IF t \in Legacy(d) THEN [d.tasks[t] EXCEPT !.status = "failed"] ELSE d.tasks[t]]
LegacySteps(d) ==
  [t \in DOMAIN d.steps |-> IF t \in Legacy(d) /\ d.steps[t] = "running" THEN "failed" ELSE d.steps[t]]
HitInstances(d) ==
  {n \in DOMAIN d.instances :
     \E t \in LegacyOn(d, n) : d.tasks[t].type \in {"deploy", "update", "stop", "restart"}}
MarkedInstances(d) ==
  [n \in DOMAIN d.instances |->
     IF n \in HitInstances(d) THEN [runtime |-> "error", last |-> Newest(LegacyOn(d, n))] ELSE d.instances[n]]
MarkedService(d) ==
  IF Legacy(d) = {} THEN d.service
  ELSE [runtime |-> IF \E n \in DOMAIN MarkedInstances(d) : MarkedInstances(d)[n].runtime = "error"
                    THEN "error" ELSE d.service.runtime,
        last |-> Newest(Legacy(d))]

LEMMA LegacyEffect ==
  ASSUME NEW d, d = Database(d.version, d.tasks, d.steps, d.backups, d.instances, d.service)
  PROVE  FailLegacyTasks(d) =
           IF ~UpdatesAreValid(d, Legacy(d)) THEN {}
           ELSE {Database(d.version, LegacyTasks(d), LegacySteps(d), d.backups, MarkedInstances(d), MarkedService(d))}
<1>1. FailLegacyTasks(d) =
        IF ~UpdatesAreValid(d, Legacy(d)) THEN {}
        ELSE {LegacyUpdate(d, LegacyTasks(d), LegacySteps(d), MarkedInstances(d), MarkedService(d))}
  BY DEF FailLegacyTasks, LegacyUpdate, Legacy, LegacyTasks, LegacySteps, MarkedInstances, MarkedService,
         HitInstances, LegacyOn, TaskIDs
<1>2. LegacyUpdate(d, LegacyTasks(d), LegacySteps(d), MarkedInstances(d), MarkedService(d))
        = Database(d.version, LegacyTasks(d), LegacySteps(d), d.backups, MarkedInstances(d), MarkedService(d))
  BY LegacyUpdates
<1> QED  BY <1>1, <1>2

LEMMA LegacyMigration ==
  ASSUME NEW f, Left(f), NEW d, Comes(f, d), d.version = 9
  PROVE  /\ UpdatesAreValid(d, Legacy(d))
         /\ \A e \in FailLegacyTasks(d) : Comes(f, [e EXCEPT !.version = 10])
<1>1. d = Database(d.version, d.tasks, d.steps, d.backups, d.instances, d.service)
  BY DEF Comes
<1>2. f.version \in Nat /\ f.version <= 9
  BY DEF Comes, Left, WellFormed
<1>3. /\ Survivors(f, 10) = Survivors(f, 9) /\ \A x : RefAt(f, 10, x) = RefAt(f, 9, x)
      /\ Rebuilt(f, 10) <=> Rebuilt(f, 9)
  BY <1>2 DEF Survivors, RefAt, Rebuilt
<1>4. /\ TaskIDs(d) = Survivors(f, 9)
      /\ \A t \in TaskIDs(d) : /\ t \in TaskIDs(f) /\ d.tasks[t] = RowAt(f, 9, t)
                               /\ d.tasks[t].type = f.tasks[t].type /\ d.tasks[t].node = f.tasks[t].node
                               /\ d.tasks[t].status = f.tasks[t].status
                               /\ d.tasks[t].execution = f.tasks[t].execution
  BY TasksFrom
<1>5. \A t \in TaskIDs(d) : t \in Legacy(d) <=> CutOff(f, t)
  BY <1>2, <1>4 DEF Legacy, CutOff
<1>6. UpdatesAreValid(d, Legacy(d))
  BY <1>4 DEF UpdatesAreValid, Legacy, Comes
<1> DEFINE e == Database(d.version, LegacyTasks(d), LegacySteps(d), d.backups, MarkedInstances(d), MarkedService(d))
           g == Database(10, LegacyTasks(d), LegacySteps(d), d.backups, MarkedInstances(d), MarkedService(d))
<1>7. FailLegacyTasks(d) = {e}
  BY <1>1, <1>6, LegacyEffect
<1>8. [e EXCEPT !.version = 10] = g
  <2>1. /\ e = Database(e.version, e.tasks, e.steps, e.backups, e.instances, e.service)
        /\ e.tasks = LegacyTasks(d) /\ e.steps = LegacySteps(d) /\ e.backups = d.backups
        /\ e.instances = MarkedInstances(d) /\ e.service = MarkedService(d)
    BY DatabaseFields
  <2> QED  BY <2>1, NewVersion
<1>9. /\ g.version = 10 /\ g.tasks = LegacyTasks(d) /\ g.steps = LegacySteps(d) /\ g.backups = d.backups
      /\ g.instances = MarkedInstances(d) /\ g.service = MarkedService(d)
      /\ g = Database(g.version, g.tasks, g.steps, g.backups, g.instances, g.service)
  BY DatabaseFields
<1> HIDE DEF e, g
<1>10. LegacyTasks(d) = TasksAt(f, 10)
  <2>1. ASSUME NEW t \in TaskIDs(d)
        PROVE  LegacyTasks(d)[t] = RowAt(f, 10, t)
    <3>1. d.tasks[t] = Row(f.tasks[t].type, f.tasks[t].node, f.tasks[t].status, f.tasks[t].execution,
                           RefAt(f, 9, f.tasks[t].attempt))
      BY <1>4 DEF RowAt
    <3>2. [d.tasks[t] EXCEPT !.status = "failed"]
            = Row(f.tasks[t].type, f.tasks[t].node, "failed", f.tasks[t].execution, RefAt(f, 9, f.tasks[t].attempt))
      <4> DEFINE a == f.tasks[t].type
                 b == f.tasks[t].node
                 s == f.tasks[t].status
                 x == f.tasks[t].execution
                 l == RefAt(f, 9, f.tasks[t].attempt)
      <4> HIDE DEF a, b, s, x, l
      <4>1. d.tasks[t] = Row(a, b, s, x, l)
        BY <3>1 DEF a, b, s, x, l
      <4>2. [d.tasks[t] EXCEPT !.status = "failed"] = Row(a, b, "failed", x, l)
        BY <4>1 DEF Row
      <4> QED  BY <4>2 DEF a, b, x, l
    <3>3. RowAt(f, 10, t) = Row(f.tasks[t].type, f.tasks[t].node, IF CutOff(f, t) THEN "failed" ELSE f.tasks[t].status,
                                f.tasks[t].execution, RefAt(f, 9, f.tasks[t].attempt))
      BY <1>3 DEF RowAt
    <3> QED  BY <1>5, <3>1, <3>2, <3>3 DEF LegacyTasks
  <2>2. LegacyTasks(d) = [t \in TaskIDs(d) |-> LegacyTasks(d)[t]]
    BY DEF LegacyTasks
  <2> QED  BY <1>3, <1>4, <2>1, <2>2 DEF TasksAt
<1>11. StepsFrom(f, g)
  <2>1. LegacySteps(d) = [t \in DOMAIN LegacySteps(d) |-> LegacySteps(d)[t]] /\ DOMAIN LegacySteps(d) = DOMAIN d.steps
    BY DEF LegacySteps
  <2>2. DOMAIN d.steps = DOMAIN f.steps \ {t \in TaskIDs(f) : t \notin Survivors(f, 9)}
    BY DEF Comes, StepsFrom
  <2>3. \A t \in DOMAIN d.steps : (t \in Survivors(f, 10) /\ CutOff(f, t)) => LegacySteps(d)[t] # "running"
    BY <1>3, <1>4, <1>5 DEF LegacySteps
  <2> QED  BY <1>3, <1>9, <2>1, <2>2, <2>3 DEF StepsFrom
<1>12. BackupsFrom(f, g)
  BY <1>3, <1>9 DEF Comes, BackupsFrom
<1>13. \A S : (S \subseteq Legacy(d) /\ S # {}) => Newest(S) \in FailedAt(f, 10)
  <2> SUFFICES ASSUME NEW S, S \subseteq Legacy(d), S # {}
               PROVE  Newest(S) \in FailedAt(f, 10)
    OBVIOUS
  <2>1. Legacy(d) \subseteq TaskIDs(d) /\ TaskIDs(d) \subseteq TaskIDs(f)
    BY <1>4 DEF Legacy
  <2>2. IsFiniteSet(TaskIDs(f)) /\ TaskIDs(f) \subseteq Nat
    BY DEF Left, WellFormed
  <2>3. IsFiniteSet(S) /\ S \subseteq Nat
    BY <2>1, <2>2, FS_Subset
  <2>4. Newest(S) \in S
    BY <2>3, NewestIsOneOfThem
  <2> QED  BY <1>3, <1>4, <1>5, <2>1, <2>4 DEF FailedAt
<1>14. /\ d.instances = [n \in DOMAIN f.instances |-> [runtime |-> d.instances[n].runtime, last |-> d.instances[n].last]]
       /\ \A n \in DOMAIN f.instances : d.instances[n].last = RefAt(f, 10, f.instances[n].last)
       /\ d.service = [runtime |-> d.service.runtime, last |-> d.service.last]
       /\ d.service.last = RefAt(f, 10, f.service.last)
  <2>1. FailedAt(f, 9) = {}
    BY DEF FailedAt
  <2> QED  BY <1>3, <2>1 DEF Comes, RefsFrom
<1>15. RefsFrom(f, g)
  <2>1. ASSUME NEW n \in DOMAIN f.instances
        PROVE  /\ MarkedInstances(d)[n] = [runtime |-> MarkedInstances(d)[n].runtime, last |-> MarkedInstances(d)[n].last]
               /\ MarkedInstances(d)[n].last \in FailedAt(f, 10) \cup {RefAt(f, 10, f.instances[n].last)}
    <3>1. n \in DOMAIN d.instances
          /\ d.instances[n] = [runtime |-> d.instances[n].runtime, last |-> d.instances[n].last]
      BY <1>14
    <3>2. CASE n \in HitInstances(d)
      <4>1. LegacyOn(d, n) # {} /\ LegacyOn(d, n) \subseteq Legacy(d)
        BY <3>2 DEF HitInstances, LegacyOn
      <4> DEFINE x == Newest(LegacyOn(d, n))
      <4>2. x \in FailedAt(f, 10)
        BY <1>13, <4>1
      <4>3. MarkedInstances(d)[n] = [runtime |-> "error", last |-> x]
        BY <3>1, <3>2 DEF MarkedInstances
      <4> HIDE DEF x
      <4> QED  BY <4>2, <4>3
    <3>3. CASE n \notin HitInstances(d)
      <4>1. MarkedInstances(d)[n] = d.instances[n]
        BY <3>1, <3>3 DEF MarkedInstances
      <4> QED  BY <1>14, <3>1, <4>1
    <3> QED  BY <3>2, <3>3
  <2>2. MarkedInstances(d) = [n \in DOMAIN f.instances |-> MarkedInstances(d)[n]]
    <3>1. DOMAIN d.instances = DOMAIN f.instances
      BY <1>14
    <3> QED  BY <3>1 DEF MarkedInstances
  <2>3. MarkedInstances(d) = [n \in DOMAIN f.instances |->
                                [runtime |-> MarkedInstances(d)[n].runtime, last |-> MarkedInstances(d)[n].last]]
    <3> DEFINE is == MarkedInstances(d)
    <3>1. is = [n \in DOMAIN f.instances |-> is[n]]
          /\ \A n \in DOMAIN f.instances : is[n] = [runtime |-> is[n].runtime, last |-> is[n].last]
      BY <2>1, <2>2
    <3> HIDE DEF is
    <3>2. is = [n \in DOMAIN f.instances |-> [runtime |-> is[n].runtime, last |-> is[n].last]]
      BY <3>1
    <3> QED  BY <3>2 DEF is
  <2>4. /\ MarkedService(d) = [runtime |-> MarkedService(d).runtime, last |-> MarkedService(d).last]
        /\ MarkedService(d).last \in FailedAt(f, 10) \cup {RefAt(f, 10, f.service.last)}
    <3>1. CASE Legacy(d) = {}
      BY <1>14, <3>1 DEF MarkedService
    <3>2. CASE Legacy(d) # {}
      <4> DEFINE x == Newest(Legacy(d))
                 r == IF \E n \in DOMAIN MarkedInstances(d) : MarkedInstances(d)[n].runtime = "error"
                      THEN "error" ELSE d.service.runtime
      <4>1. x \in FailedAt(f, 10)
        BY <1>13, <3>2
      <4>2. MarkedService(d) = [runtime |-> r, last |-> x]
        BY <3>2 DEF MarkedService
      <4> HIDE DEF x, r
      <4> QED  BY <4>1, <4>2
    <3> QED  BY <3>1, <3>2
  <2> QED  BY <1>9, <2>1, <2>3, <2>4 DEF RefsFrom
<1>16. Unique(g, IndexedWide)
  <2>1. Unique(d, IndexedWide)
    BY DEF Comes
  <2>2. TaskIDs(g) = TaskIDs(d)
    BY <1>9 DEF TaskIDs, LegacyTasks
  <2>3. ASSUME NEW t \in TaskIDs(d)
        PROVE  /\ g.tasks[t].type = d.tasks[t].type /\ g.tasks[t].node = d.tasks[t].node
               /\ g.tasks[t].status \in LiveStatuses => d.tasks[t].status \in LiveStatuses
    <3>1. g.tasks[t] = RowAt(f, 10, t)
      <4>1. t \in Survivors(f, 10)
        BY <1>3, <1>4
      <4> QED  BY <1>9, <1>10, <4>1 DEF TasksAt
    <3>2. /\ g.tasks[t].type = f.tasks[t].type /\ g.tasks[t].node = f.tasks[t].node
          /\ g.tasks[t].status = (IF CutOff(f, t) THEN "failed" ELSE f.tasks[t].status)
      BY <3>1, RowFields DEF RowAt
    <3> QED  BY <1>4, <3>2 DEF LiveStatuses
  <2> QED  BY <2>1, <2>2, <2>3 DEF Unique
<1>17. \A t \in Survivors(f, 10) : f.tasks[t].type \in SupportedTypes
  BY <1>3 DEF Comes
<1>18. Comes(f, g)
  <2>1. g.tasks = TasksAt(f, g.version) /\ g.version \in Nat /\ f.version <= g.version /\ g.version <= sqliteSchemaVersion
    BY <1>2, <1>9, <1>10 DEF sqliteSchemaVersion
  <2> QED  BY <1>9, <1>11, <1>12, <1>15, <1>16, <1>17, <2>1 DEF Comes
<1> QED  BY <1>6, <1>7, <1>8, <1>18

\* Any migration that succeeds.
LEMMA MigrationKeeps ==
  ASSUME NEW f, Left(f), NEW d, Comes(f, d), d.version < 13, NEW e \in migration(d.version + 1, d)
  PROVE  Comes(f, [e EXCEPT !.version = d.version + 1])
<1>1. d.version \in Nat
  BY DEF Comes
<1>2. CASE d.version + 1 \in {1, 2, 4, 11, 13}
  <2>1. e = d
    BY <1>2 DEF migration, CreateTables, AddTriggers, AddColumn
  <2> QED  BY <1>2, <2>1, ColumnMigration
<1>3. CASE d.version + 1 = 3
  <2>1. e \in BackfillBackups(d)
    BY <1>3 DEF migration, AddIndexes
  <2>2. d.version \in {2, 4}
    BY <1>1, <1>3
  <2> QED  BY <2>1, <2>2, BackfillMigration
<1>4. CASE d.version + 1 = 5
  <2>1. e \in BackfillBackups(d)
    BY <1>4 DEF migration
  <2>2. d.version \in {2, 4}
    BY <1>1, <1>4
  <2> QED  BY <2>1, <2>2, BackfillMigration
<1>5. CASE d.version + 1 = 6
  <2>1. e = d
    BY <1>5 DEF migration, ReplaceServiceIndex
  <2> QED  BY <1>5, <2>1, ColumnMigration
<1>6. CASE d.version + 1 \in {7, 8}
  <2>1. e \in RebuildTasks(d)
    BY <1>6 DEF migration
  <2>2. d.version \in {6, 7}
    BY <1>1, <1>6
  <2> QED  BY <2>1, <2>2, RebuildMigration
<1>7. CASE d.version + 1 = 9
  <2>1. e = d /\ Unique(d, IndexedWide)
    BY <1>7 DEF migration, AddExecutions
  <2> QED  BY <1>7, <2>1, ColumnMigration
<1>8. CASE d.version + 1 = 10
  <2>1. e \in FailLegacyTasks(d)
    BY <1>8 DEF migration
  <2>2. d.version = 9
    BY <1>1, <1>8
  <2> QED  BY <1>8, <2>1, <2>2, LegacyMigration
<1>9. CASE d.version + 1 = 12
  <2>1. e \in DropOrphanBackups(d)
    BY <1>9 DEF migration
  <2>2. d.version = 11
    BY <1>1, <1>9
  <2> QED  BY <1>9, <2>1, <2>2, OrphanMigration
<1>10. d.version + 1 \in {1, 2, 4, 11, 13} \/ d.version + 1 = 3 \/ d.version + 1 = 5 \/ d.version + 1 = 6
       \/ d.version + 1 \in {7, 8} \/ d.version + 1 = 9 \/ d.version + 1 = 10 \/ d.version + 1 = 12
  BY <1>1
<1> QED  BY <1>2, <1>3, <1>4, <1>5, <1>6, <1>7, <1>8, <1>9, <1>10

\* And any that fails.
LEMMA MigrationFails ==
  ASSUME NEW f, Left(f), NEW d, Comes(f, d), d.version < 13, migration(d.version + 1, d) = {}
  PROVE  Hopeless(f)
<1>1. d.version \in Nat
  BY DEF Comes
<1>2. CASE ~Unique(d, Indexed) /\ d.version < 10
  BY <1>2, UniqueAtFirst DEF Hopeless, IndexedWide
<1>3. CASE ~Unique(d, IndexedWide) /\ d.version < 10
  BY <1>3, UniqueAtFirst DEF Hopeless
<1>4. CASE BackfillBackups(d) = {} /\ d.version < 5
  BY <1>4, BackfillFails
<1>5. CASE d.version + 1 \in {1, 2, 4, 11, 13}
  <2>1. migration(d.version + 1, d) = {d}
    BY <1>5 DEF migration, CreateTables, AddTriggers, AddColumn
  <2> QED  BY <2>1
<1>6. CASE d.version + 1 = 3
  <2>1. Unique(d, Indexed) => BackfillBackups(d) = {}
    BY <1>6 DEF migration, AddIndexes
  <2>2. d.version < 10 /\ d.version < 5
    BY <1>1, <1>6
  <2> QED  BY <1>2, <1>4, <2>1, <2>2
<1>7. CASE d.version + 1 = 5
  <2>1. BackfillBackups(d) = {}
    BY <1>7 DEF migration
  <2>2. d.version < 5
    BY <1>1, <1>7
  <2> QED  BY <1>4, <2>1, <2>2
<1>8. CASE d.version + 1 = 6
  <2>1. ~Unique(d, Indexed)
    BY <1>8 DEF migration, ReplaceServiceIndex
  <2>2. d.version < 10
    BY <1>1, <1>8
  <2> QED  BY <1>2, <2>1, <2>2
<1>9. CASE d.version + 1 \in {7, 8}
  <2>1. RebuildTasks(d) = {}
    BY <1>9 DEF migration
  <2> QED  BY <2>1 DEF RebuildTasks
<1>10. CASE d.version + 1 = 9
  <2>1. ~Unique(d, IndexedWide)
    BY <1>10 DEF migration, AddExecutions
  <2>2. d.version < 10
    BY <1>1, <1>10
  <2> QED  BY <1>3, <2>1, <2>2
<1>11. CASE d.version + 1 = 10
  <2>1. FailLegacyTasks(d) = {}
    BY <1>11 DEF migration
  <2>2. d.version = 9
    BY <1>1, <1>11
  <2>3. UpdatesAreValid(d, Legacy(d))
    BY <2>2, LegacyMigration
  <2>4. d = Database(d.version, d.tasks, d.steps, d.backups, d.instances, d.service)
    BY DEF Comes
  <2> QED  BY <2>1, <2>3, <2>4, LegacyEffect
<1>12. CASE d.version + 1 = 12
  <2>1. DropOrphanBackups(d) = {}
    BY <1>12 DEF migration
  <2> QED  BY <2>1 DEF DropOrphanBackups
<1>13. d.version + 1 \in {1, 2, 4, 11, 13} \/ d.version + 1 = 3 \/ d.version + 1 = 5 \/ d.version + 1 = 6
       \/ d.version + 1 \in {7, 8} \/ d.version + 1 = 9 \/ d.version + 1 = 10 \/ d.version + 1 = 12
  BY <1>1
<1> QED  BY <1>5, <1>6, <1>7, <1>8, <1>9, <1>10, <1>11, <1>12, <1>13

\* A migration makes at most one database.
LEMMA MigrationIsOne ==
  ASSUME NEW v \in Nat, v <= 13, NEW d, NEW e \in migration(v, d), NEW g \in migration(v, d)
  PROVE  e = g
<1>1. \A x, y \in BackfillBackups(d) : x = y
  BY BackfillEffect
<1>2. CASE v \in {0, 1, 2, 4, 11, 13}
  <2>1. migration(v, d) = {d}
    BY <1>2 DEF migration, CreateTables, AddTriggers, AddColumn
  <2> QED  BY <2>1
<1>3. CASE v = 3
  BY <1>1, <1>3 DEF migration, AddIndexes
<1>4. CASE v = 5
  BY <1>1, <1>4 DEF migration
<1>5. CASE v = 6
  BY <1>5 DEF migration, ReplaceServiceIndex
<1>6. CASE v \in {7, 8}
  <2>1. e \in RebuildTasks(d) /\ g \in RebuildTasks(d)
    BY <1>6 DEF migration
  <2> QED  BY <2>1 DEF RebuildTasks
<1>7. CASE v = 9
  BY <1>7 DEF migration, AddExecutions
<1>8. CASE v = 10
  <2>1. e \in FailLegacyTasks(d) /\ g \in FailLegacyTasks(d)
    BY <1>8 DEF migration
  <2> QED  BY <2>1 DEF FailLegacyTasks
<1>9. CASE v = 12
  <2>1. e \in DropOrphanBackups(d) /\ g \in DropOrphanBackups(d)
    BY <1>9 DEF migration
  <2> QED  BY <2>1 DEF DropOrphanBackups
<1>10. v \in {0, 1, 2, 4, 11, 13} \/ v = 3 \/ v = 5 \/ v = 6 \/ v \in {7, 8} \/ v = 9 \/ v = 10 \/ v = 12
  OBVIOUS
<1> QED  BY <1>2, <1>3, <1>4, <1>5, <1>6, <1>7, <1>8, <1>9, <1>10

\* The last migration keeps the references.
LEMMA NewVersionRefers ==
  ASSUME NEW d, d = Database(d.version, d.tasks, d.steps, d.backups, d.instances, d.service), NEW v
  PROVE  foreignKeysHold([d EXCEPT !.version = v]) <=> foreignKeysHold(d)
<1> DEFINE e == [d EXCEPT !.version = v]
<1>1. e = Database(v, d.tasks, d.steps, d.backups, d.instances, d.service)
  BY NewVersion
<1>2. e.tasks = d.tasks /\ e.steps = d.steps /\ e.backups = d.backups /\ e.instances = d.instances /\ e.service = d.service
  <2> HIDE DEF e
  <2> QED  BY <1>1, DatabaseFields
<1> HIDE DEF e
<1>3. TaskIDs(e) = TaskIDs(d) /\ \A x : Refers(e, x) <=> Refers(d, x)
  BY <1>2 DEF TaskIDs, Refers
<1>4. BackupsRefer(e) <=> BackupsRefer(d)
  BY <1>2, <1>3 DEF BackupsRefer
<1>5. foreignKeysHold(e) <=> foreignKeysHold(d)
  BY <1>2, <1>3, <1>4 DEF foreignKeysHold
<1> QED  BY <1>5 DEF e

\* References that were broken in what stays of the database found.
Remains(f) == WithoutUnsupported(f, {WithNode(f, b) : b \in {c \in f.backups : Supports(f, c.task)}})

\* A reference that does not hold after a rebuild did not hold at the start.
LEMMA BrokenAtFirst ==
  ASSUME NEW f, Left(f), NEW d, Comes(f, d), f.version < d.version, d.version \in Rebuilds, foreignKeysHold(Remains(f))
  PROVE  foreignKeysHold(d)
<1> DEFINE B == {WithNode(f, b) : b \in {c \in f.backups : Supports(f, c.task)}}
           supported == {t \in TaskIDs(f) : f.tasks[t].type \in SupportedTypes}
           gone == TaskIDs(f) \ supported
           ts == [t \in supported |-> [f.tasks[t] EXCEPT !.attempt = Cleared(f, f.tasks[t].attempt)]]
           ss == Restricted(f.steps, DOMAIN f.steps \ gone)
           is == [n \in DOMAIN f.instances |-> [f.instances[n] EXCEPT !.last = Cleared(f, f.instances[n].last)]]
           sv == [runtime |-> f.service.runtime, last |-> Cleared(f, f.service.last)]
           w == Remains(f)
<1>1. w = Database(f.version, ts, ss, B, is, sv)
  <2>1. f = Database(f.version, f.tasks, f.steps, f.backups, f.instances, f.service)
        /\ f.service = [runtime |-> f.service.runtime, last |-> f.service.last]
    BY DEF Left, WellFormed, Database
  <2> QED  BY <2>1, RebuildEffect DEF Remains
<1>2. f.version \in Nat /\ d.version \in {7, 8, 12}
  BY DEF Left, WellFormed, Rebuilds
<1>3. Survivors(f, d.version) = supported /\ \A x : RefAt(f, d.version, x) = Cleared(f, x)
  <2>1. CASE Rebuilt(f, d.version)
    BY <2>1 DEF Survivors, RefAt
  <2>2. CASE ~Rebuilt(f, d.version)
    <3>1. f.version >= 8
      BY <1>2, <2>2 DEF Rebuilt
    <3>2. \A t \in TaskIDs(f) : f.tasks[t].type \in SupportedTypes
      BY <3>1 DEF Left, LeftByRelease
    <3>3. \A x : Cleared(f, x) = x
      BY <3>2 DEF Cleared
    <3> QED  BY <2>2, <3>2, <3>3 DEF Survivors, RefAt
  <2> QED  BY <2>1, <2>2
<1>4. /\ TaskIDs(d) = supported
      /\ \A t \in supported : t \in TaskIDs(f) /\ d.tasks[t].attempt = Cleared(f, f.tasks[t].attempt)
                              /\ d.tasks[t].node = f.tasks[t].node
  BY <1>3, TasksFrom
<1>5. /\ w.tasks = ts /\ w.steps = ss /\ w.backups = B /\ w.instances = is /\ w.service = sv
  <2> HIDE DEF ts, ss, B, is, sv, w
  <2> QED  BY <1>1, DatabaseFields
<1>6. TaskIDs(w) = supported
  BY <1>5 DEF TaskIDs
<1>7. \A x : Refers(w, x) <=> Refers(d, x)
  BY <1>4, <1>6 DEF Refers
<1>8. DOMAIN w.instances = DOMAIN f.instances
      /\ \A n \in DOMAIN f.instances : w.instances[n].last = Cleared(f, f.instances[n].last)
  <2>1. ASSUME NEW n \in DOMAIN f.instances
        PROVE  is[n].last = Cleared(f, f.instances[n].last)
    <3> DEFINE r == f.instances[n].runtime
               l == f.instances[n].last
               x == Cleared(f, l)
    <3>1. f.instances[n] = [runtime |-> r, last |-> l]
      BY DEF Left, WellFormed
    <3>2. is[n] = [f.instances[n] EXCEPT !.last = x]
      OBVIOUS
    <3> HIDE DEF is, r, l, x
    <3>3. is[n].last = x
      BY <3>1, <3>2
    <3> QED  BY <3>3 DEF x, l
  <2>2. DOMAIN is = DOMAIN f.instances
    OBVIOUS
  <2> HIDE DEF is, w
  <2> QED  BY <1>5, <2>1, <2>2
<1>9. w.service.last = Cleared(f, f.service.last)
  BY <1>5
<1>10. \A t \in supported : w.tasks[t].attempt = Cleared(f, f.tasks[t].attempt) /\ w.tasks[t].node = f.tasks[t].node
  <2>1. ASSUME NEW t \in supported
        PROVE  ts[t].attempt = Cleared(f, f.tasks[t].attempt) /\ ts[t].node = f.tasks[t].node
    <3> DEFINE r == f.tasks[t]
               a == f.tasks[t].type
               b == f.tasks[t].node
               s == f.tasks[t].status
               e == f.tasks[t].execution
               l == f.tasks[t].attempt
               x == Cleared(f, l)
    <3>1. r = Row(a, b, s, e, l)
      BY DEF Left, WellFormed
    <3>2. ts[t] = [r EXCEPT !.attempt = x]
      OBVIOUS
    <3> HIDE DEF ts, r, a, b, s, e, l, x
    <3>3. ts[t].attempt = x /\ ts[t].node = b
      BY <3>1, <3>2 DEF Row
    <3> QED  BY <3>3 DEF x, l, b
  <2> HIDE DEF ts, w, supported
  <2> QED  BY <1>5, <2>1
<1>11. DOMAIN w.steps = DOMAIN d.steps
  <2>1. DOMAIN d.steps = DOMAIN f.steps \ {t \in TaskIDs(f) : t \notin supported}
    BY <1>3 DEF Comes, StepsFrom
  <2>2. DOMAIN ss = DOMAIN f.steps \ gone
    BY DEF Restricted
  <2> HIDE DEF w
  <2> QED  BY <1>5, <2>1, <2>2
<1> HIDE DEF w, ts, ss, is, sv
<1>12. DOMAIN d.instances = DOMAIN f.instances
  <2>1. d.instances = [n \in DOMAIN f.instances |-> [runtime |-> d.instances[n].runtime, last |-> d.instances[n].last]]
    BY DEF Comes, RefsFrom
  <2> QED  BY <2>1
<1>13. foreignKeysHold(w)
  BY DEF w
<1>14. BackupsRefer(d)
  <2> SUFFICES ASSUME NEW b \in d.backups
               PROVE  Refers(d, b.task) /\ b.node \in DOMAIN d.instances
    BY DEF BackupsRefer
  <2>1. b.task \in supported
    <3>1. Rebuilt(f, d.version) \/ d.version >= 12
      \/ (f.version < d.version /\ d.version \in {7, 8})
      BY <1>2
    <3>2. Rebuilt(f, d.version) \/ d.version >= 12
      BY <1>2, <3>1 DEF Rebuilt
    <3> QED  BY <1>3, <3>2 DEF Comes, BackupsFrom
  <2>2. b.node # Blank
    BY <1>2 DEF Comes, BackupsFrom
  <2>3. PICK c \in f.backups : b = c \/ b = WithNode(f, c)
    BY DEF Comes, BackupsFrom
  <2>4. b = WithNode(f, c) /\ b.task = c.task
    <3>1. c = [task |-> c.task, node |-> c.node]
      BY DEF Left, WellFormed
    <3>2. WithNode(f, c).task = c.task
      BY <3>1, WithNodeRecord
    <3>3. b = c => WithNode(f, c) = c
      BY <2>2 DEF WithNode
    <3> QED  BY <2>3, <3>2, <3>3
  <2>5. b \in B
    BY <2>1, <2>3, <2>4 DEF Supports
  <2>6. b.node \in DOMAIN w.instances
    BY <1>5, <1>13, <2>5 DEF foreignKeysHold, BackupsRefer
  <2>7. Refers(d, b.task)
    BY <1>4, <2>1 DEF Refers
  <2> QED  BY <1>8, <1>12, <2>6, <2>7
<1>15. DOMAIN d.steps \subseteq TaskIDs(d)
  BY <1>4, <1>6, <1>11, <1>13 DEF foreignKeysHold
<1>16. \A t \in FailedAt(f, d.version) : Refers(d, t)
  <2>1. FailedAt(f, d.version) \subseteq Survivors(f, d.version)
    BY DEF FailedAt
  <2> HIDE DEF supported
  <2> QED  BY <1>3, <1>4, <2>1 DEF Refers
<1>17. \A n \in DOMAIN d.instances : Refers(d, d.instances[n].last)
  <2> SUFFICES ASSUME NEW n \in DOMAIN d.instances
               PROVE  Refers(d, d.instances[n].last)
    OBVIOUS
  <2>1. d.instances[n].last \in FailedAt(f, d.version) \/ d.instances[n].last = Cleared(f, f.instances[n].last)
    BY <1>3, <1>12 DEF Comes, RefsFrom
  <2>2. Refers(d, Cleared(f, f.instances[n].last))
    BY <1>7, <1>8, <1>12, <1>13 DEF foreignKeysHold
  <2> QED  BY <1>16, <2>1, <2>2
<1>18. Refers(d, d.service.last)
  <2>1. d.service.last \in FailedAt(f, d.version) \/ d.service.last = Cleared(f, f.service.last)
    BY <1>3 DEF Comes, RefsFrom
  <2>2. Refers(d, Cleared(f, f.service.last))
    BY <1>7, <1>9, <1>13 DEF foreignKeysHold
  <2> QED  BY <1>16, <2>1, <2>2
<1>19. \A t \in TaskIDs(d) : Refers(d, d.tasks[t].attempt) /\ d.tasks[t].node \in DOMAIN d.instances \cup {Blank}
  <2> HIDE DEF supported
  <2> QED  BY <1>4, <1>6, <1>7, <1>8, <1>10, <1>12, <1>13 DEF foreignKeysHold
<1> QED  BY <1>14, <1>15, <1>17, <1>18, <1>19 DEF foreignKeysHold

\* The databases on the way: what is committed and what the transaction holds
\* come from what was found.
Referring(d) == (d.version >= 12 /\ ~foreignKeysHold(d)) => unchecked
PlaceInv ==
  /\ upgrade \in {"closed", "run", "rebuild", "commit", "check", "open"}
  /\ upgrade = "rebuild" => \A d \in work : d.version + 1 \in Rebuilds
  /\ upgrade = "commit" => \A d \in work : d.version \in Rebuilds /\ first.version < d.version
  /\ upgrade = "check" => disk.version \in Rebuilds /\ first.version < disk.version /\ \A d \in work : d = disk
  /\ upgrade = "open" => disk.version = 13
  /\ upgrade # "check" => Referring(disk)
  /\ upgrade \notin {"commit", "check"} => \A d \in work : Referring(d)
RefusalInv ==
  /\ refusal \in {Blank, "check", "statement"}
  /\ refusal = "check" => ~foreignKeysHold(Remains(first))
  /\ refusal = "statement" => Hopeless(first)
KnownInv ==
  /\ Left(first)
  /\ Comes(first, disk)
  /\ \A d \in work : Comes(first, d)
  /\ \A d, e \in work : d = e
  /\ unchecked \in BOOLEAN
  /\ PlaceInv
  /\ RefusalInv
\* The database of a newer release stays as it is.
NewerInv ==
  /\ first.version \in Nat /\ first.version > 13
  /\ disk = first /\ work = {} /\ upgrade = "closed" /\ refusal \in {Blank, "newer"}
UpgradeInv == KnownInv \/ NewerInv

LEMMA UpgradeInvAtStart == UpgradeInit => UpgradeInv
<1> SUFFICES ASSUME UpgradeInit
             PROVE  UpgradeInv
  OBVIOUS
<1>1. first \in FirstDatabases /\ disk = first /\ work = {} /\ upgrade = "closed" /\ refusal = Blank
      /\ unchecked = (first.version >= 12 /\ ~foreignKeysHold(first))
  BY DEF UpgradeInit
<1>2. WellFormed(first) /\ first.version \in Nat
  BY <1>1, UpgradeAssumption DEF WellFormed
<1>3. CASE first.version > 13
  BY <1>1, <1>2, <1>3 DEF UpgradeInv, NewerInv
<1>4. CASE first.version <= 13
  <2>1. Left(first)
    BY <1>1, <1>2, <1>4, UpgradeAssumption DEF Left, sqliteSchemaVersion
  <2>2. Comes(first, disk)
    BY <1>1, <2>1, ComesFromItself
  <2>3. Referring(disk) /\ unchecked \in BOOLEAN
    BY <1>1 DEF Referring
  <2>4. PlaceInv
    BY <1>1, <2>3 DEF PlaceInv
  <2>5. RefusalInv
    BY <1>1, BlankIsNoReason DEF RefusalInv
  <2> QED  BY <1>1, <2>1, <2>2, <2>3, <2>4, <2>5 DEF UpgradeInv, KnownInv
<1> QED  BY <1>2, <1>3, <1>4

LEMMA UpgradeInvIsEnough == UpgradeInv => UpgradesAreSafe
<1>1. ASSUME NewerInv
      PROVE  UpgradesAreSafe
  <2>1. \A t : Supported(t) => t \in TaskIDs(disk) /\ disk.tasks[t].status = first.tasks[t].status
    BY <1>1 DEF NewerInv, Supported
  <2>2. HistoryIsKept
    BY <1>1, <2>1 DEF HistoryIsKept, NewerInv
  <2>3. refusal # "check" /\ refusal # "statement" /\ upgrade # "open" /\ first.version > sqliteSchemaVersion
    BY <1>1, BlankIsNoReason DEF NewerInv, sqliteSchemaVersion
  <2> QED  BY <2>2, <2>3 DEF UpgradesAreSafe
<1>2. ASSUME KnownInv
      PROVE  UpgradesAreSafe
  <2>1. Comes(first, disk)
    BY <1>2 DEF KnownInv
  <2>2. /\ TaskIDs(disk) = Survivors(first, disk.version)
        /\ \A t \in Survivors(first, disk.version) :
              t \in TaskIDs(first) /\
              disk.tasks[t].status = (IF disk.version >= 10 /\ CutOff(first, t) THEN "failed" ELSE first.tasks[t].status)
    BY <2>1, TasksFrom
  <2>3. \A t : (Supported(t) <=> Supports(first, t)) /\ (Unfinished(t) <=> CutOff(first, t))
    BY DEF Supported, Supports, Unfinished, CutOff
  <2>4. \A t : Supports(first, t) => t \in Survivors(first, disk.version)
    BY DEF Supports, Survivors
  <2>5. HistoryIsKept
    <3>1. \A b \in first.backups : Supported(b.task) => \E c \in disk.backups : c.task = b.task
      BY <2>1, <2>3 DEF Comes, BackupsFrom
    <3> QED  BY <2>2, <2>3, <2>4, <3>1 DEF HistoryIsKept
  <2>6. ASSUME upgrade = "open"
        PROVE  /\ disk.version = sqliteSchemaVersion
               /\ \A t \in TaskIDs(disk) : Supported(t) /\ (Unfinished(t) => disk.tasks[t].status = "failed")
               /\ \A t \in DOMAIN disk.steps : (Supported(t) /\ Unfinished(t)) => disk.steps[t] # "running"
               /\ Unique(disk, IndexedWide)
               /\ \A b \in disk.backups : b.task \in TaskIDs(disk)
               /\ foreignKeysHold(disk) \/ unchecked
    <3>1. disk.version = 13 /\ Referring(disk)
      BY <1>2, <2>6 DEF KnownInv, PlaceInv
    <3>2. \A t \in Survivors(first, disk.version) : Supports(first, t)
      BY <2>1, <2>2, <3>1 DEF Comes, Supports
    <3>3. \A t \in TaskIDs(disk) : Supported(t) /\ (Unfinished(t) => disk.tasks[t].status = "failed")
      BY <2>2, <2>3, <3>1, <3>2
    <3>4. \A t \in DOMAIN disk.steps : (Supported(t) /\ Unfinished(t)) => disk.steps[t] # "running"
      BY <2>1, <2>3, <2>4, <3>1 DEF Comes, StepsFrom
    <3>5. Unique(disk, IndexedWide) /\ \A b \in disk.backups : b.task \in TaskIDs(disk)
      BY <2>1, <2>2, <3>1 DEF Comes, BackupsFrom
    <3> QED  BY <3>1, <3>3, <3>4, <3>5 DEF Referring, sqliteSchemaVersion
  <2>7. refusal = "check" => ReferencesBroken
    <3>1. ReferencesBroken <=> ~foreignKeysHold(Remains(first))
      <4>1. {WithNode(first, b) : b \in {c \in first.backups : Supported(c.task)}}
              = {WithNode(first, b) : b \in {c \in first.backups : Supports(first, c.task)}}
        BY <2>3
      <4> QED  BY <4>1 DEF ReferencesBroken, Remains
    <3> QED  BY <1>2, <3>1 DEF KnownInv, RefusalInv
  <2>8. refusal = "statement" => CannotBeUpgraded
    BY <1>2 DEF KnownInv, RefusalInv, Hopeless, CannotBeUpgraded
  <2>9. refusal # "newer"
    BY <1>2, BlankIsNoReason DEF KnownInv, RefusalInv
  <2> QED  BY <2>5, <2>6, <2>7, <2>8, <2>9 DEF UpgradesAreSafe
<1> QED  BY <1>1, <1>2 DEF UpgradeInv

\* A database of a known release: every step of Open.
LEMMA OpenKeeps ==
  ASSUME KnownInv, OpenDatabase
  PROVE  KnownInv'
<1>1. disk.version <= sqliteSchemaVersion /\ disk.version \in Nat
  BY DEF KnownInv, Comes
<1>2. upgrade = "closed" /\ upgrade' = "run" /\ work' = {disk} /\ refusal' = Blank
      /\ UNCHANGED <<disk, first, unchecked, upgradeFaults>>
  BY <1>1 DEF OpenDatabase, sqliteSchemaVersion
<1>3. Referring(disk)'
  BY <1>2 DEF KnownInv, PlaceInv, Referring
<1>4. PlaceInv'
  BY <1>2, <1>3 DEF PlaceInv, Referring
<1>5. RefusalInv'
  BY <1>2, BlankIsNoReason DEF RefusalInv
<1> QED  BY <1>2, <1>4, <1>5 DEF KnownInv

LEMMA CommitBeforeKeeps ==
  ASSUME KnownInv, CommitBeforeRebuild
  PROVE  KnownInv'
<1>1. PICK d \in work : /\ upgrade = "run" /\ d.version + 1 \in Rebuilds /\ disk' = d /\ upgrade' = "rebuild"
                        /\ UNCHANGED <<work, first, unchecked, refusal, upgradeFaults>>
  BY DEF CommitBeforeRebuild
<1>2. \A e \in work : e = d
  BY DEF KnownInv
<1>3. \A e \in work : Referring(e)
  BY <1>1 DEF KnownInv, PlaceInv
<1>4. PlaceInv'
  BY <1>1, <1>2, <1>3 DEF PlaceInv, Referring
<1>5. RefusalInv'
  BY <1>1 DEF KnownInv, RefusalInv
<1> QED  BY <1>1, <1>4, <1>5 DEF KnownInv

LEMMA ApplyKeeps ==
  ASSUME KnownInv, ApplyMigration
  PROVE  KnownInv'
<1>1. PICK d \in work :
        LET v == d.version + 1
            made == {[e EXCEPT !.version = v] : e \in migration(v, d)}
        IN  /\ \/ upgrade = "run" /\ d.version < sqliteSchemaVersion /\ v \notin Rebuilds
               \/ upgrade = "rebuild"
            /\ IF made = {} THEN Refuse("statement")
               ELSE /\ work' = made /\ upgrade' = (IF upgrade = "rebuild" THEN "commit" ELSE "run")
                    /\ UNCHANGED refusal
            /\ UNCHANGED <<disk, first, unchecked, upgradeFaults>>
  BY DEF ApplyMigration
<1> DEFINE v == d.version + 1
           made == {[e EXCEPT !.version = v] : e \in migration(v, d)}
<1>2. Comes(first, d) /\ Left(first) /\ d.version \in Nat /\ first.version \in Nat /\ first.version <= d.version
  BY DEF KnownInv, Comes, Left, WellFormed
<1>3. d.version < 13 /\ v \in Nat /\ v <= 13
  <2>1. upgrade = "rebuild" => d.version + 1 \in {7, 8, 12}
    BY DEF KnownInv, PlaceInv, Rebuilds
  <2> QED  BY <1>1, <1>2, <2>1 DEF sqliteSchemaVersion
<1>4. upgrade # "closed" /\ upgrade # "check" /\ upgrade # "commit"
  BY <1>1
<1>5. UNCHANGED <<disk, first, unchecked>> /\ Referring(disk) /\ Referring(disk)'
  BY <1>1, <1>4 DEF KnownInv, PlaceInv, Referring
<1>6. CASE made = {}
  <2>1. upgrade' = "closed" /\ work' = {} /\ refusal' = "statement"
    BY <1>1, <1>6 DEF Refuse
  <2>2. migration(v, d) = {}
    BY <1>6
  <2>3. Hopeless(first)
    BY <1>2, <1>3, <2>2, MigrationFails
  <2>4. PlaceInv'
    BY <1>5, <2>1 DEF PlaceInv, Referring
  <2>5. RefusalInv'
    BY <1>5, <2>1, <2>3 DEF RefusalInv
  <2> QED  BY <1>5, <2>1, <2>4, <2>5 DEF KnownInv
<1>7. CASE made # {}
  <2>1. work' = made /\ upgrade' = (IF upgrade = "rebuild" THEN "commit" ELSE "run") /\ refusal' = refusal
    BY <1>1, <1>7
  <2>2. ASSUME NEW g \in made
        PROVE  Comes(first, g) /\ g.version = v
    <3>1. PICK e \in migration(v, d) : g = [e EXCEPT !.version = v]
      OBVIOUS
    <3>2. Comes(first, g)
      BY <1>2, <1>3, <3>1, MigrationKeeps
    <3>3. g.version = v
      <4>1. "version" \in DOMAIN g
        BY <3>2 DEF Comes, Database
      <4> HIDE DEF v
      <4> QED  BY <3>1, <4>1
    <3> QED  BY <3>2, <3>3
  <2>3. \A g, h \in made : g = h
    BY <1>3, MigrationIsOne
  <2>4. CASE upgrade = "rebuild"
    <3>1. v \in Rebuilds /\ first.version < v
      BY <1>2, <2>4 DEF KnownInv, PlaceInv
    <3>2. upgrade' = "commit"
      BY <2>1, <2>4
    <3>3. PlaceInv'
      <4> HIDE DEF made, v
      <4> QED  BY <1>5, <2>1, <2>2, <3>1, <3>2 DEF PlaceInv, Referring
    <3>4. RefusalInv'
      BY <1>5, <2>1 DEF KnownInv, RefusalInv
    <3> HIDE DEF made, v
    <3> QED  BY <1>5, <2>1, <2>2, <2>3, <3>3, <3>4 DEF KnownInv
  <2>5. CASE upgrade # "rebuild"
    <3>1. upgrade = "run" /\ v \notin Rebuilds /\ upgrade' = "run"
      BY <1>1, <2>1, <2>5
    <3>2. ASSUME NEW g \in made
          PROVE  Referring(g)'
      <4>1. g.version = v
        BY <2>2
      <4>2. CASE v < 12
        BY <1>3, <4>1, <4>2 DEF Referring
      <4>3. CASE v >= 12
        <5>1. v = 13
          BY <1>3, <3>1, <4>3 DEF Rebuilds
        <5>2. migration(v, d) = {d}
          BY <5>1 DEF migration, AddColumn
        <5>3. g = [d EXCEPT !.version = v]
          BY <5>2
        <5>4. foreignKeysHold(g) <=> foreignKeysHold(d)
          BY <1>2, <5>3, NewVersionRefers DEF Comes
        <5>5. d.version >= 12 /\ Referring(d)
          BY <1>2, <3>1, <5>1 DEF KnownInv, PlaceInv
        <5> QED  BY <1>5, <5>4, <5>5 DEF Referring
      <4> QED  BY <1>3, <4>2, <4>3
    <3>3. PlaceInv'
      <4> HIDE DEF made, v
      <4> QED  BY <1>5, <2>1, <3>1, <3>2 DEF PlaceInv, Referring
    <3>4. RefusalInv'
      BY <1>5, <2>1 DEF KnownInv, RefusalInv
    <3> HIDE DEF made, v
    <3> QED  BY <1>5, <2>1, <2>2, <2>3, <3>3, <3>4 DEF KnownInv
  <2> QED  BY <2>4, <2>5
<1> QED  BY <1>6, <1>7

LEMMA CommitRebuildKeeps ==
  ASSUME KnownInv, CommitRebuild
  PROVE  KnownInv'
<1>1. PICK d \in work : /\ upgrade = "commit" /\ disk' = d /\ upgrade' = "check"
                        /\ UNCHANGED <<work, first, unchecked, refusal, upgradeFaults>>
  BY DEF CommitRebuild
<1>2. (\A e \in work : e = d) /\ d.version \in Rebuilds /\ first.version < d.version
  BY <1>1 DEF KnownInv, PlaceInv
<1>3. PlaceInv'
  BY <1>1, <1>2 DEF PlaceInv
<1>4. RefusalInv'
  BY <1>1 DEF KnownInv, RefusalInv
<1> QED  BY <1>1, <1>3, <1>4 DEF KnownInv

LEMMA CheckKeeps ==
  ASSUME KnownInv, checkSQLiteForeignKeys
  PROVE  KnownInv'
<1>1. upgrade = "check" /\ UNCHANGED <<disk, first, upgradeFaults>>
  BY DEF checkSQLiteForeignKeys
<1>2. disk.version \in Rebuilds /\ first.version < disk.version /\ \A d \in work : d = disk
  BY <1>1 DEF KnownInv, PlaceInv
<1>3. CASE foreignKeysHold(disk)
  <2>1. upgrade' = "run" /\ UNCHANGED <<work, refusal, unchecked>>
    BY <1>3 DEF checkSQLiteForeignKeys
  <2>2. Referring(disk)'
    BY <1>1, <1>3 DEF Referring
  <2>3. PlaceInv'
    BY <1>1, <1>2, <2>1, <2>2 DEF PlaceInv, Referring
  <2>4. RefusalInv'
    BY <1>1, <2>1 DEF KnownInv, RefusalInv
  <2> QED  BY <1>1, <2>1, <2>3, <2>4 DEF KnownInv
<1>4. CASE ~foreignKeysHold(disk)
  <2>1. upgrade' = "closed" /\ work' = {} /\ refusal' = "check" /\ unchecked' = TRUE
    BY <1>4 DEF checkSQLiteForeignKeys, Refuse
  <2>2. ~foreignKeysHold(Remains(first))
    BY <1>2, <1>4, BrokenAtFirst DEF KnownInv
  <2>3. PlaceInv'
    BY <1>1, <2>1 DEF PlaceInv, Referring
  <2>4. RefusalInv'
    BY <1>1, <2>1, <2>2 DEF RefusalInv
  <2> QED  BY <1>1, <2>1, <2>3, <2>4 DEF KnownInv
<1> QED  BY <1>3, <1>4

LEMMA FinishKeeps ==
  ASSUME KnownInv, FinishUpgrade
  PROVE  KnownInv'
<1>1. PICK d \in work : /\ upgrade = "run" /\ d.version = sqliteSchemaVersion
                        /\ disk' = d /\ work' = {} /\ upgrade' = "open"
                        /\ UNCHANGED <<first, unchecked, refusal, upgradeFaults>>
  BY DEF FinishUpgrade
<1>2. Referring(d)
  BY <1>1 DEF KnownInv, PlaceInv
<1>3. Referring(disk)'
  BY <1>1, <1>2 DEF Referring
<1>4. PlaceInv'
  BY <1>1, <1>3 DEF PlaceInv, sqliteSchemaVersion
<1>5. RefusalInv'
  BY <1>1 DEF KnownInv, RefusalInv
<1> QED  BY <1>1, <1>4, <1>5 DEF KnownInv

LEMMA InterruptionKeeps ==
  ASSUME KnownInv, UpgradeInterrupted
  PROVE  KnownInv'
<1>1. /\ upgrade' = "closed" /\ work' = {} /\ UNCHANGED <<disk, first, refusal>>
      /\ unchecked' = (unchecked \/ upgrade = "check")
  BY DEF UpgradeInterrupted
<1>2. unchecked' \in BOOLEAN /\ (unchecked => unchecked') /\ (upgrade = "check" => unchecked')
  BY <1>1 DEF KnownInv
<1>3. Referring(disk)'
  <2>1. upgrade # "check" => Referring(disk)
    BY DEF KnownInv, PlaceInv
  <2> QED  BY <1>1, <1>2, <2>1 DEF Referring
<1>4. PlaceInv'
  BY <1>1, <1>3 DEF PlaceInv
<1>5. RefusalInv'
  BY <1>1 DEF KnownInv, RefusalInv
<1> QED  BY <1>1, <1>2, <1>4, <1>5 DEF KnownInv

\* Open brings the database of any older release to the current schema, or
\* refuses it for a reason that was in it, whatever crashes and failures come in
\* between (migrate in store/db.go).
THEOREM UpgradesSafe == UpgradeSpec => []UpgradesAreSafe
<1>1. UpgradeInv /\ [UpgradeNext]_upgradeVars => UpgradeInv'
  <2>1. ASSUME KnownInv, UpgradeNext
        PROVE  KnownInv'
    BY <2>1, OpenKeeps, CommitBeforeKeeps, ApplyKeeps, CommitRebuildKeeps, CheckKeeps, FinishKeeps, InterruptionKeeps
       DEF UpgradeNext
  <2>2. ASSUME NewerInv, UpgradeNext
        PROVE  NewerInv'
    <3>1. OpenDatabase
      BY <2>2 DEF NewerInv, UpgradeNext, CommitBeforeRebuild, ApplyMigration, CommitRebuild, checkSQLiteForeignKeys,
                  FinishUpgrade, UpgradeInterrupted
    <3>2. disk.version > sqliteSchemaVersion
      BY <2>2 DEF NewerInv, sqliteSchemaVersion
    <3> QED  BY <2>2, <3>1, <3>2 DEF NewerInv, OpenDatabase, Refuse
  <2>3. ASSUME UpgradeInv, UNCHANGED upgradeVars
        PROVE  UpgradeInv'
    BY <2>3 DEF UpgradeInv, KnownInv, NewerInv, PlaceInv, RefusalInv, Referring, upgradeVars
  <2> QED  BY <2>1, <2>2, <2>3 DEF UpgradeInv
<1> QED  BY <1>1, UpgradeInvAtStart, UpgradeInvIsEnough, PTL DEF UpgradeSpec

-----------------------------------------------------------------------------
(* The scheduler *)

Forges == {"none", "v1", "down"}
Stages == {"collect", "check", "backup", "rustic_forget", "rustic_prune"}
TaskRows == [type : {"image_check", "backup"} \cup Rustic, node : NodesOfAll, window : Nat,
             params : {<<>>} \cup ((SUBSET Images) \X Forges), asked : Forges, active : BOOLEAN]
PassRows == [at : Stages, window : Nat, forge : Forges, todo : SUBSET TargetNodes]
TaskIds == 1..Len(scheduled)

Fits(t, now) ==
  /\ t.window <= now
  /\ t.type \notin Rustic => t.node \in TargetNodes
  /\ t.type \in Rustic => t.node \in RusticNodes
  /\ t.type # "image_check" => t.params = <<>>
TasksFit == scheduled \in Seq(TaskRows) /\ \A k \in TaskIds : Fits(scheduled[k], minute)

SchedTypes ==
  /\ minute \in Nat /\ disturbances \in Nat
  /\ pass = NoPass \/ (pass \in PassRows /\ pass.window <= minute)
  /\ nodeOnline \in [NodesOfAll -> BOOLEAN] /\ userBusy \in [TargetNodes -> BOOLEAN]
  /\ forge \in Forges /\ undisturbed \in SUBSET NodesOfAll

\* An undisturbed node is online, and only tasks of this minute keep it busy.
FreeInv ==
  \A n \in undisturbed :
    /\ nodeOnline[n] /\ (n \in TargetNodes => ~userBusy[n])
    /\ \A k \in TaskIds :
         scheduled[k].node = n /\ scheduled[k].active /\ scheduled[k].type \notin Rustic
         => scheduled[k].window = minute

Calm == TargetNodes # {} /\ TargetNodes \subseteq undisturbed
InPass(stages) == pass.at \in stages /\ pass.window = minute
Checked == \A n \in TargetNodes : WasScheduled("image_check", {n}, minute)

\* The forges have not changed since the pass asked them.
AskedInv == Calm /\ InPass({"check"}) => pass.forge = forge

ChecksDue == dueServiceImageUpdateNames(minute) # {}
BackupsDue == DueNow(effectiveBackupSchedule, minute)
ForgetDue == DueNow(EnabledSpec(schedules.forget), minute)
PruneDue == DueNow(EnabledSpec(schedules.prune), minute)

\* Backups of a minute come after its checks.
CheckedInv ==
  /\ Calm /\ forge # "down" /\ ChecksDue
  /\ InPass({"backup"} \cup Rustic) \/ WasScheduled("backup", TargetNodes, minute)
  => Checked

BackedUp(n) == WasScheduled("backup", {n}, minute) \/ WasScheduled("image_check", {n}, minute)
BackedUpInv ==
  InPass({"backup"} \cup Rustic) /\ BackupsDue
  => \A n \in TargetNodes \cap RusticNodes \cap undisturbed :
       BackedUp(n) \/ (pass.at = "backup" /\ n \in pass.todo)

ForgottenInv ==
  InPass({"rustic_prune"}) /\ RusticNodes \cap undisturbed # {} /\ ForgetDue
  => WasScheduled("rustic_forget", RusticNodes, minute)

SchedInv ==
  /\ SchedTypes /\ TasksFit /\ ScheduledOnce /\ ChecksCoverAllNodes
  /\ FreeInv /\ AskedInv /\ CheckedInv /\ BackedUpInv /\ ForgottenInv

-----------------------------------------------------------------------------
(* Growing lists of tasks *)

LEMMA RowShape ==
  ASSUME NEW a \in TaskRows, NEW t \in TaskRows, NEW n
  PROVE  [a EXCEPT !.active = t.active] = [t EXCEPT !.node = n]
         <=> /\ a.type = t.type /\ a.node = n /\ a.window = t.window
             /\ a.params = t.params /\ a.asked = t.asked
<1>1. /\ a = [type |-> a.type, node |-> a.node, window |-> a.window, params |-> a.params, asked |-> a.asked, active |-> a.active]
      /\ t = [type |-> t.type, node |-> t.node, window |-> t.window, params |-> t.params, asked |-> t.asked, active |-> t.active]
  BY DEF TaskRows
<1> QED
  BY <1>1

\* The tasks of a minute that exist, whether they run or have ended.
Kept ==
  /\ scheduled \in Seq(TaskRows) /\ scheduled' \in Seq(TaskRows)
  /\ Len(scheduled) <= Len(scheduled')
  /\ \A k \in TaskIds :
       /\ scheduled'[k].type = scheduled[k].type /\ scheduled'[k].node = scheduled[k].node
       /\ scheduled'[k].window = scheduled[k].window /\ scheduled'[k].params = scheduled[k].params
       /\ scheduled'[k].asked = scheduled[k].asked
       /\ scheduled'[k].active => scheduled[k].active

\* The new tasks come after the others, each in one place.
Added(new) ==
  /\ Kept
  /\ \A k \in TaskIds : scheduled'[k] = scheduled[k]
  /\ \A k \in TaskIds' : k \notin TaskIds => scheduled'[k] \in new
  /\ \A j, k \in TaskIds' : j \notin TaskIds /\ k \notin TaskIds /\ scheduled'[j] = scheduled'[k] => j = k
  /\ \A t \in new : \E k \in TaskIds' : scheduled'[k] = t

LEMMA IdsAreNumbers == scheduled \in Seq(TaskRows) => Len(scheduled) \in Nat /\ \A k \in TaskIds : scheduled[k] \in TaskRows
  BY DEF TaskIds

LEMMA AppendAdds ==
  ASSUME TasksFit, NEW t \in TaskRows, scheduled' = Append(scheduled, t)
  PROVE  Added({t})
<1>1. /\ scheduled \in Seq(TaskRows) /\ scheduled' \in Seq(TaskRows)
      /\ Len(scheduled) \in Nat /\ Len(scheduled') = Len(scheduled) + 1
      /\ \A k \in 1..Len(scheduled) : scheduled'[k] = scheduled[k]
      /\ scheduled'[Len(scheduled) + 1] = t
  BY DEF TasksFit
<1> QED
  BY <1>1 DEF Added, Kept, TaskIds

LEMMA Appended ==
  ASSUME scheduled \in Seq(TaskRows), NEW t \in Seq(TaskRows), scheduled' = scheduled \o t
  PROVE  /\ scheduled' \in Seq(TaskRows) /\ Len(scheduled) \in Nat /\ Len(scheduled') = Len(scheduled) + Len(t)
         /\ \A k \in 1..Len(scheduled) : scheduled'[k] = scheduled[k]
         /\ \A k \in 1..Len(t) : scheduled'[Len(scheduled) + k] = t[k]
  OBVIOUS

LEMMA CreateAdds ==
  ASSUME TasksFit, NEW new, new \subseteq TaskRows, IsFiniteSet(new), CreateAll(new)
  PROVE  Added(new)
<1> DEFINE c == Cardinality(new)
<1>1. c \in Nat
  BY FS_CardinalityType
<1>2. PICK order \in [1..c -> new] :
        /\ \A t \in new : \E k \in DOMAIN order : order[k] = t
        /\ scheduled' = scheduled \o order
  BY DEF CreateAll
<1> HIDE DEF c
<1>3. order \in Seq(TaskRows) /\ Len(order) = c /\ DOMAIN order = 1..c
  <2>1. order \in [1..c -> TaskRows]
    BY <1>2
  <2> QED
    BY <2>1, <1>1
<1>4. order \in Injection(1..c, new)
  <2>1. order \in Surjection(1..c, new)
    BY <1>2, <1>3 DEF Surjection
  <2>2. IsFiniteSet(1..c) /\ Cardinality(1..c) = c
    BY <1>1, FS_Interval
  <2> QED
    BY <2>1, <2>2, FS_SurjSameCardinalityImpliesInj DEF c
<1>5. \A j, k \in 1..c : order[j] = order[k] => j = k
  BY <1>4 DEF Injection, IsInjective
<1>6. /\ scheduled \in Seq(TaskRows) /\ scheduled' \in Seq(TaskRows)
      /\ Len(scheduled) \in Nat /\ Len(scheduled') = Len(scheduled) + c
      /\ \A k \in 1..Len(scheduled) : scheduled'[k] = scheduled[k]
      /\ \A k \in 1..c : scheduled'[Len(scheduled) + k] = order[k]
  <2>1. scheduled \in Seq(TaskRows)
    BY DEF TasksFit
  <2>2. order \in Seq(TaskRows) /\ scheduled' = scheduled \o order
    BY <1>2, <1>3
  <2>3. /\ scheduled' \in Seq(TaskRows) /\ Len(scheduled) \in Nat /\ Len(scheduled') = Len(scheduled) + Len(order)
        /\ \A k \in 1..Len(scheduled) : scheduled'[k] = scheduled[k]
        /\ \A k \in 1..Len(order) : scheduled'[Len(scheduled) + k] = order[k]
    BY <2>1, <2>2, Appended
  <2> QED
    BY <1>3, <2>1, <2>3
<1>7. \A k \in TaskIds' : k \notin TaskIds =>
        k - Len(scheduled) \in 1..c /\ scheduled'[k] = order[k - Len(scheduled)]
  <2> SUFFICES ASSUME NEW k \in TaskIds', k \notin TaskIds
               PROVE  k - Len(scheduled) \in 1..c /\ scheduled'[k] = order[k - Len(scheduled)]
    OBVIOUS
  <2>1. k - Len(scheduled) \in 1..c /\ Len(scheduled) + (k - Len(scheduled)) = k
    BY <1>1, <1>6 DEF TaskIds
  <2> QED
    BY <2>1, <1>6
<1>8. Kept
  BY <1>1, <1>6 DEF Kept, TaskIds
<1>9. \A k \in TaskIds' : k \notin TaskIds => scheduled'[k] \in new
  BY <1>2, <1>7
<1>10. ASSUME NEW j \in TaskIds', NEW k \in TaskIds', j \notin TaskIds, k \notin TaskIds, scheduled'[j] = scheduled'[k]
       PROVE  j = k
  <2>1. j - Len(scheduled) = k - Len(scheduled)
    BY <1>5, <1>7, <1>10
  <2> QED
    BY <2>1, <1>6 DEF TaskIds
<1>11. ASSUME NEW t \in new PROVE \E k \in TaskIds' : scheduled'[k] = t
  <2>1. PICK k \in 1..c : order[k] = t
    BY <1>2, <1>3
  <2>2. Len(scheduled) + k \in TaskIds' /\ scheduled'[Len(scheduled) + k] = t
    BY <1>1, <1>6, <2>1 DEF TaskIds
  <2> QED
    BY <2>2
<1> QED
  BY <1>6, <1>8, <1>9, <1>10, <1>11 DEF Added, TaskIds

LEMMA NothingAdded == TasksFit /\ UNCHANGED scheduled => Added({})
  BY DEF Added, Kept, TasksFit, TaskIds

LEMMA EndingKeeps ==
  ASSUME TasksFit, NEW k \in TaskIds, scheduled' = [scheduled EXCEPT ![k].active = FALSE]
  PROVE  /\ Kept /\ TaskIds' = TaskIds
<1>1. scheduled \in Seq(TaskRows) /\ Len(scheduled) \in Nat /\ scheduled[k] \in TaskRows
  BY DEF TasksFit, TaskIds
<1> DEFINE row == [scheduled[k] EXCEPT !.active = FALSE]
<1>2. row \in TaskRows /\ row.active = FALSE
      /\ row.type = scheduled[k].type /\ row.node = scheduled[k].node /\ row.window = scheduled[k].window
      /\ row.params = scheduled[k].params /\ row.asked = scheduled[k].asked
  BY <1>1 DEF TaskRows
<1>3. scheduled' = [scheduled EXCEPT ![k] = row]
  OBVIOUS
<1> HIDE DEF row
<1>4. /\ scheduled' \in Seq(TaskRows) /\ Len(scheduled') = Len(scheduled)
      /\ \A j \in TaskIds : scheduled'[j] = IF j = k THEN row ELSE scheduled[j]
  <2>1. k \in 1..Len(scheduled)
    BY DEF TaskIds
  <2>2. /\ [scheduled EXCEPT ![k] = row] \in Seq(TaskRows)
        /\ Len([scheduled EXCEPT ![k] = row]) = Len(scheduled)
        /\ \A j \in 1..Len(scheduled) : [scheduled EXCEPT ![k] = row][j] = IF j = k THEN row ELSE scheduled[j]
    BY ONLY <2>1, <1>1, <1>2, ExceptSeq
  <2> QED
    BY ONLY <2>2, <1>3 DEF TaskIds
<1> QED
  BY <1>1, <1>2, <1>4 DEF Kept, TaskIds

LEMMA WasStays ==
  ASSUME Kept, NEW type, NEW nodes, NEW window, WasScheduled(type, nodes, window)
  PROVE  WasScheduled(type, nodes, window)'
<1>1. PICK k \in TaskIds : scheduled[k].type = type /\ scheduled[k].node \in nodes /\ scheduled[k].window = window
  BY DEF WasScheduled, TaskIds
<1>2. k \in 1..Len(scheduled') /\ scheduled'[k].type = type /\ scheduled'[k].node \in nodes /\ scheduled'[k].window = window
  BY <1>1 DEF Kept, TaskIds
<1> QED
  BY <1>2 DEF WasScheduled

LEMMA NewWas ==
  ASSUME NEW new, Added(new), NEW t \in new
  PROVE  WasScheduled(t.type, {t.node}, t.window)'
<1>1. PICK k \in TaskIds' : scheduled'[k] = t
  BY DEF Added
<1> QED
  BY <1>1 DEF WasScheduled, TaskIds

-----------------------------------------------------------------------------
(* Nothing twice, and all nodes or none *)

Fresh(new) ==
  /\ \A t \in new, k \in TaskIds :
       scheduled[k].type = t.type /\ scheduled[k].node = t.node /\ scheduled[k].window = t.window
       => t.type = "image_check" /\ (scheduled[k].params # t.params \/ t.params[2] # t.asked)
  /\ \A t, u \in new : t.node = u.node => t = u

LEMMA OnceAdded ==
  ASSUME ScheduledOnce, NEW new, Added(new), Fresh(new)
  PROVE  ScheduledOnce'
<1> SUFFICES ASSUME NEW j \in TaskIds', NEW k \in TaskIds', j < k,
                    scheduled'[j].type = scheduled'[k].type, scheduled'[j].node = scheduled'[k].node,
                    scheduled'[j].window = scheduled'[k].window
             PROVE  scheduled'[j].type = "image_check"
                    /\ (scheduled'[j].params # scheduled'[k].params \/ scheduled'[k].params[2] # scheduled'[k].asked)
  BY DEF ScheduledOnce, TaskIds
<1>0. k \in TaskIds => j \in TaskIds
  BY DEF Added, Kept, TaskIds
<1>1. CASE k \in TaskIds
  BY <1>0, <1>1 DEF ScheduledOnce, Added, TaskIds
<1>2. CASE k \notin TaskIds /\ j \in TaskIds
  BY <1>2 DEF Added, Fresh
<1>3. CASE k \notin TaskIds /\ j \notin TaskIds
  <2>1. scheduled'[j] = scheduled'[k]
    BY <1>3 DEF Added, Fresh
  <2>2. j = k
    BY <1>3, <2>1 DEF Added
  <2> QED
    BY <2>2 DEF Added, Kept, TaskIds
<1> QED
  BY <1>1, <1>2, <1>3

LEMMA OnceEnds ==
  ASSUME ScheduledOnce, Kept, TaskIds' = TaskIds
  PROVE  ScheduledOnce'
<1> SUFFICES ASSUME NEW j \in TaskIds, NEW k \in TaskIds, j < k,
                    scheduled'[j].type = scheduled'[k].type, scheduled'[j].node = scheduled'[k].node,
                    scheduled'[j].window = scheduled'[k].window
             PROVE  scheduled'[j].type = "image_check"
                    /\ (scheduled'[j].params # scheduled'[k].params \/ scheduled'[k].params[2] # scheduled'[k].asked)
  BY DEF ScheduledOnce, TaskIds
<1> QED
  BY DEF ScheduledOnce, TaskIds, Kept

\* What ChecksCoverAllNodes says, field by field.
Beside(a, t, n) ==
  a.type = t.type /\ a.node = n /\ a.window = t.window /\ a.params = t.params /\ a.asked = t.asked
Covers ==
  \A k \in TaskIds : scheduled[k].type = "image_check" =>
    \A n \in TargetNodes : \E j \in TaskIds : Beside(scheduled[j], scheduled[k], n)

LEMMA CoversIs == TasksFit => (ChecksCoverAllNodes <=> Covers)
<1> SUFFICES ASSUME TasksFit PROVE ChecksCoverAllNodes <=> Covers
  OBVIOUS
<1>1. \A k, j \in TaskIds, n \in TargetNodes :
        [scheduled[j] EXCEPT !.active = scheduled[k].active] = [scheduled[k] EXCEPT !.node = n]
        <=> Beside(scheduled[j], scheduled[k], n)
  <2>1. \A k \in TaskIds : scheduled[k] \in TaskRows
    BY IdsAreNumbers DEF TasksFit
  <2> SUFFICES ASSUME NEW k \in TaskIds, NEW j \in TaskIds, NEW n \in TargetNodes
               PROVE  [scheduled[j] EXCEPT !.active = scheduled[k].active] = [scheduled[k] EXCEPT !.node = n]
                      <=> Beside(scheduled[j], scheduled[k], n)
    OBVIOUS
  <2>2. scheduled[j] \in TaskRows /\ scheduled[k] \in TaskRows
    BY <2>1
  <2> QED
    BY ONLY <2>2, RowShape DEF Beside
<1> QED
  BY <1>1 DEF ChecksCoverAllNodes, Covers, TaskIds

LEMMA CoversWillBe == TasksFit' => (ChecksCoverAllNodes' <=> Covers')
  BY CoversIs, PTL

LEMMA CoversAdded ==
  ASSUME Covers, NEW new, Added(new),
         \A t \in new : t.type = "image_check" => \A n \in TargetNodes : \E u \in new : Beside(u, t, n)
  PROVE  Covers'
<1> SUFFICES ASSUME NEW k \in TaskIds', scheduled'[k].type = "image_check", NEW n \in TargetNodes
             PROVE  \E j \in TaskIds' : Beside(scheduled'[j], scheduled'[k], n)
  BY DEF Covers
<1>1. CASE k \in TaskIds
  <2>1. PICK j \in TaskIds : Beside(scheduled[j], scheduled[k], n)
    BY <1>1 DEF Covers, Added
  <2>2. j \in TaskIds' /\ Beside(scheduled'[j], scheduled'[k], n)
    BY <1>1, <2>1 DEF Added, Kept, TaskIds
  <2> QED
    BY <2>2
<1>2. CASE k \notin TaskIds
  <2>1. PICK u \in new : Beside(u, scheduled'[k], n)
    BY <1>2 DEF Added
  <2>2. PICK j \in TaskIds' : scheduled'[j] = u
    BY DEF Added
  <2> QED
    BY <2>1, <2>2
<1> QED
  BY <1>1, <1>2

LEMMA CoversEnds ==
  ASSUME Covers, Kept, TaskIds' = TaskIds
  PROVE  Covers'
<1> SUFFICES ASSUME NEW k \in TaskIds, scheduled'[k].type = "image_check", NEW n \in TargetNodes
             PROVE  \E j \in TaskIds : Beside(scheduled'[j], scheduled'[k], n)
  BY DEF Covers
<1>1. PICK j \in TaskIds : Beside(scheduled[j], scheduled[k], n)
  BY DEF Covers, Kept
<1>2. Beside(scheduled'[j], scheduled'[k], n)
  BY <1>1 DEF Kept, Beside
<1> QED
  BY <1>2

LEMMA FitAdded ==
  ASSUME TasksFit, NEW new, Added(new), minute' = minute, \A t \in new : Fits(t, minute)
  PROVE  TasksFit'
<1> SUFFICES ASSUME NEW k \in TaskIds' PROVE Fits(scheduled'[k], minute')
  BY DEF TasksFit, Added, Kept
<1> QED
  BY DEF TasksFit, Added

LEMMA FitEnds ==
  ASSUME SchedTypes, TasksFit, Kept, TaskIds' = TaskIds, minute <= minute', minute' \in Nat
  PROVE  TasksFit'
<1> SUFFICES ASSUME NEW k \in TaskIds PROVE Fits(scheduled'[k], minute')
  BY DEF TasksFit, Kept
<1>1. scheduled[k] \in TaskRows /\ minute \in Nat
  BY IdsAreNumbers DEF TasksFit, SchedTypes
<1>2. scheduled[k].window \in Nat
  BY <1>1 DEF TaskRows
<1> QED
  BY <1>1, <1>2 DEF TasksFit, Fits, Kept

-----------------------------------------------------------------------------
(* What is due *)

LEMMA DuesStay ==
  ASSUME schedules' = schedules, minute' = minute
  PROVE  /\ ChecksDue' <=> ChecksDue
         /\ BackupsDue' <=> BackupsDue
         /\ ForgetDue' <=> ForgetDue
         /\ PruneDue' <=> PruneDue
  BY DEF ChecksDue, BackupsDue, ForgetDue, PruneDue, dueServiceImageUpdateNames, effectiveImageCheckSchedule,
         effectiveBackupSchedule

LEMMA CheckedStays ==
  ASSUME Kept, minute' = minute, Checked
  PROVE  Checked'
  BY WasStays DEF Checked

LEMMA BackedUpStays ==
  ASSUME Kept, minute' = minute, NEW n, BackedUp(n)
  PROVE  BackedUp(n)'
  BY WasStays DEF BackedUp

\* Tasks of this type and minute are as they were.
LEMMA WasBefore ==
  ASSUME Kept, TaskIds' = TaskIds, NEW type, NEW nodes, NEW window, WasScheduled(type, nodes, window)'
  PROVE  WasScheduled(type, nodes, window)
<1>1. PICK k \in TaskIds : scheduled'[k].type = type /\ scheduled'[k].node \in nodes /\ scheduled'[k].window = window
  BY DEF WasScheduled, TaskIds
<1> QED
  BY <1>1 DEF WasScheduled, TaskIds, Kept

-----------------------------------------------------------------------------
(* Steps of the environment within a minute *)

LEMMA DisturbanceKeeps ==
  ASSUME SchedInv, SchedTypes', Kept, TaskIds' = TaskIds, schedules' = schedules, minute' = minute, pass' = pass,
         undisturbed' \subseteq undisturbed,
         \A n \in undisturbed' : nodeOnline'[n] = nodeOnline[n]
                                  /\ (n \in TargetNodes /\ ~userBusy[n] => ~userBusy'[n]),
         forge' # forge => undisturbed' \cap TargetNodes = {}
  PROVE  SchedInv'
<1>1. TasksFit' /\ ScheduledOnce' /\ ChecksCoverAllNodes'
  <2>1. minute \in Nat
    BY DEF SchedInv, SchedTypes
  <2>2. TasksFit'
    BY <2>1, FitEnds DEF SchedInv
  <2>3. Covers'
    BY CoversIs, CoversEnds DEF SchedInv
  <2> QED
    BY <2>2, <2>3, OnceEnds, CoversWillBe DEF SchedInv
<1>2. FreeInv'
  <2> SUFFICES ASSUME NEW n \in undisturbed'
               PROVE  /\ nodeOnline'[n] /\ (n \in TargetNodes => ~userBusy'[n])
                      /\ \A k \in TaskIds :
                           scheduled'[k].node = n /\ scheduled'[k].active /\ scheduled'[k].type \notin Rustic
                           => scheduled'[k].window = minute
    BY DEF FreeInv
  <2> QED
    BY DEF FreeInv, SchedInv, Kept
<1>3. Calm' => Calm /\ forge' = forge
  BY DEF Calm
<1>4. AskedInv'
  BY <1>3 DEF AskedInv, SchedInv, InPass
<1>5. CheckedInv'
  <2> SUFFICES ASSUME Calm', forge' # "down", ChecksDue',
                      InPass({"backup"} \cup Rustic)' \/ WasScheduled("backup", TargetNodes, minute)'
               PROVE  Checked'
    BY DEF CheckedInv
  <2>1. InPass({"backup"} \cup Rustic) \/ WasScheduled("backup", TargetNodes, minute)
    BY WasBefore DEF InPass
  <2>2. Checked
    BY <1>3, <2>1, DuesStay DEF CheckedInv, SchedInv
  <2> QED
    BY <2>2, CheckedStays
<1>6. BackedUpInv'
  <2> SUFFICES ASSUME InPass({"backup"} \cup Rustic)', BackupsDue', NEW n \in TargetNodes \cap RusticNodes \cap undisturbed'
               PROVE  BackedUp(n)' \/ (pass'.at = "backup" /\ n \in pass'.todo)
    BY DEF BackedUpInv
  <2>1. BackedUp(n) \/ (pass.at = "backup" /\ n \in pass.todo)
    BY DuesStay DEF BackedUpInv, SchedInv, InPass
  <2> QED
    BY <2>1, BackedUpStays
<1>7. ForgottenInv'
  <2> SUFFICES ASSUME InPass({"rustic_prune"})', RusticNodes \cap undisturbed' # {}, ForgetDue'
               PROVE  WasScheduled("rustic_forget", RusticNodes, minute)'
    BY DEF ForgottenInv
  <2>1. WasScheduled("rustic_forget", RusticNodes, minute)
    BY DuesStay DEF ForgottenInv, SchedInv, InPass
  <2> QED
    BY <2>1, WasStays
<1> QED
  BY <1>1, <1>2, <1>4, <1>5, <1>6, <1>7 DEF SchedInv

LEMMA NodeFlipsKeeps ==
  ASSUME SchedInv, NEW n \in NodesOfAll, NodeFlips(n)
  PROVE  SchedInv'
<1>1. TasksFit /\ TaskIds' = TaskIds /\ Kept
  BY NothingAdded DEF SchedInv, NodeFlips, TaskIds, Added
<1>2. SchedTypes'
  BY DEF SchedInv, SchedTypes, NodeFlips, Disturb
<1> QED
  BY <1>1, <1>2, DisturbanceKeeps DEF NodeFlips, SchedInv, SchedTypes

LEMMA UserTaskKeeps ==
  ASSUME SchedInv, NEW n \in TargetNodes, UserTaskBegins(n) \/ UserTaskEnds(n)
  PROVE  SchedInv'
<1>1. TasksFit /\ TaskIds' = TaskIds /\ Kept
  BY NothingAdded DEF SchedInv, UserTaskBegins, UserTaskEnds, TaskIds, Added
<1>2. SchedTypes'
  <2>1. /\ minute' = minute /\ pass' = pass /\ nodeOnline' = nodeOnline /\ forge' = forge
        /\ undisturbed' \subseteq undisturbed
        /\ disturbances' = disturbances \/ disturbances' = disturbances + 1
    BY DEF UserTaskBegins, UserTaskEnds, Disturb
  <2>2. userBusy' \in [TargetNodes -> BOOLEAN]
    BY DEF UserTaskBegins, UserTaskEnds, SchedInv, SchedTypes
  <2> QED
    BY <2>1, <2>2 DEF SchedInv, SchedTypes
<1>3. CASE UserTaskBegins(n)
  BY <1>1, <1>2, <1>3, DisturbanceKeeps DEF UserTaskBegins, SchedInv, SchedTypes
<1>4. CASE UserTaskEnds(n)
  BY <1>1, <1>2, <1>4, DisturbanceKeeps DEF UserTaskEnds, SchedInv, SchedTypes
<1> QED
  BY <1>3, <1>4

LEMMA ForgeChangesKeeps ==
  ASSUME SchedInv, NEW f \in {"none", "v1", "down"}, ForgeChanges(f)
  PROVE  SchedInv'
<1>1. TasksFit /\ TaskIds' = TaskIds /\ Kept
  BY NothingAdded DEF SchedInv, ForgeChanges, TaskIds, Added
<1>2. SchedTypes'
  BY DEF SchedInv, SchedTypes, ForgeChanges, Disturb, Forges
<1> QED
  BY <1>1, <1>2, DisturbanceKeeps DEF ForgeChanges

LEMMA TaskEndKeeps ==
  ASSUME SchedInv, NEW k \in TaskIds, ScheduledTaskEnds(k)
  PROVE  SchedInv'
<1>1. TaskIds' = TaskIds /\ Kept
  BY EndingKeeps DEF SchedInv, ScheduledTaskEnds
<1>2. SchedTypes'
  BY DEF SchedInv, SchedTypes, ScheduledTaskEnds
<1> QED
  BY <1>1, <1>2, DisturbanceKeeps DEF ScheduledTaskEnds

LEMMA StutterKeeps ==
  ASSUME SchedInv, UNCHANGED schedVars
  PROVE  SchedInv'
<1>1. TasksFit /\ TaskIds' = TaskIds /\ Kept
  BY NothingAdded DEF SchedInv, schedVars, TaskIds, Added
<1>2. SchedTypes'
  BY DEF SchedInv, SchedTypes, schedVars
<1> QED
  BY <1>1, <1>2, DisturbanceKeeps DEF schedVars

-----------------------------------------------------------------------------
(* A new minute, and the places of a pass *)

LEMMA MinuteKeeps ==
  ASSUME SchedInv, NextMinute
  PROVE  SchedInv'
<1>0. /\ minute \in Nat /\ minute' = minute + 1 /\ scheduled' = scheduled /\ pass' = pass
      /\ TasksFit /\ SchedTypes
  BY DEF SchedInv, SchedTypes, NextMinute
<1>1. TaskIds' = TaskIds /\ Kept
  BY <1>0, NothingAdded DEF TaskIds, Added
<1>2. SchedTypes'
  BY <1>0 DEF SchedTypes, NextMinute, PassRows
<1>3. TasksFit' /\ ScheduledOnce' /\ ChecksCoverAllNodes'
  <2>1. TasksFit'
    BY <1>0, <1>1, FitEnds
  <2>2. ScheduledOnce' /\ ChecksCoverAllNodes'
    BY <1>1, <2>1, OnceEnds, CoversIs, CoversWillBe, CoversEnds DEF SchedInv
  <2> QED
    BY <2>1, <2>2
<1>4. FreeInv'
  <2> SUFFICES ASSUME NEW n \in undisturbed'
               PROVE  /\ nodeOnline'[n] /\ (n \in TargetNodes => ~userBusy'[n])
                      /\ \A k \in TaskIds :
                           scheduled[k].node = n /\ scheduled[k].active /\ scheduled[k].type \notin Rustic
                           => FALSE
    BY <1>0, <1>1 DEF FreeInv
  <2>1. nodeOnline[n] /\ (n \in TargetNodes => ~InstanceBusy(n))
    BY DEF NextMinute
  <2> QED
    BY <1>0, <2>1 DEF NextMinute, InstanceBusy, TasksFit, Fits, TaskIds
<1>5. ASSUME NEW stages PROVE "idle" \in stages \/ ~InPass(stages)'
  <2> SUFFICES ASSUME "idle" \notin stages PROVE ~InPass(stages)'
    OBVIOUS
  <2>1. pass.at = "idle" \/ (pass.window \in Nat /\ pass.window <= minute)
    BY <1>0 DEF SchedTypes, PassRows, NoPass
  <2> QED
    BY <1>0, <2>1 DEF InPass
<1>6. ASSUME NEW type, NEW nodes, WasScheduled(type, nodes, minute)' PROVE FALSE
  <2>1. PICK k \in TaskIds : scheduled[k].window = minute + 1
    BY <1>0, <1>6 DEF WasScheduled, TaskIds
  <2>2. scheduled[k].window \in Nat /\ scheduled[k].window <= minute
    BY <1>0, IdsAreNumbers DEF TasksFit, Fits, TaskRows
  <2> QED
    BY <1>0, <2>1, <2>2
<1>7. AskedInv' /\ CheckedInv' /\ BackedUpInv' /\ ForgottenInv'
  BY <1>5, <1>6 DEF AskedInv, CheckedInv, BackedUpInv, ForgottenInv, Rustic
<1> QED
  BY <1>2, <1>3, <1>4, <1>7 DEF SchedInv

\* A step of a pass that creates nothing.
LEMMA PassKeeps ==
  ASSUME SchedInv, SchedTypes', AskedInv', CheckedInv', BackedUpInv', ForgottenInv',
         UNCHANGED <<minute, scheduled, undisturbed, nodeOnline, userBusy>>
  PROVE  SchedInv'
<1>1. TasksFit /\ Added({})
  BY NothingAdded DEF SchedInv
<1>2. TasksFit'
  BY <1>1, FitAdded
<1>3. ScheduledOnce' /\ ChecksCoverAllNodes'
  BY DEF SchedInv, ScheduledOnce, ChecksCoverAllNodes
<1>4. FreeInv'
  BY DEF SchedInv, FreeInv, TaskIds
<1> QED
  BY <1>2, <1>3, <1>4 DEF SchedInv

LEMMA PassStages ==
  /\ pass = NoPass => pass.at = "idle"
  /\ \A stages : InPass(stages) => pass.at \in stages
  BY DEF NoPass, InPass

LEMMA StartPassKeeps ==
  ASSUME SchedInv, StartPass
  PROVE  SchedInv'
<1>1. pass'.at = "collect" /\ pass' \in PassRows /\ pass'.window <= minute
  BY DEF StartPass, SchedInv, SchedTypes, PassRows, Stages, Forges
<1>2. SchedTypes'
  BY <1>1 DEF StartPass, SchedInv, SchedTypes
<1>3. \A stages : InPass(stages)' => "collect" \in stages
  BY <1>1 DEF InPass
<1>4. AskedInv' /\ BackedUpInv' /\ ForgottenInv'
  BY <1>3 DEF AskedInv, BackedUpInv, ForgottenInv, Rustic
<1>5. CheckedInv'
  <2> SUFFICES ASSUME Calm', forge' # "down", ChecksDue', WasScheduled("backup", TargetNodes, minute)'
               PROVE  Checked'
    BY <1>3 DEF CheckedInv, Rustic
  <2>1. Kept /\ TaskIds' = TaskIds
    BY NothingAdded DEF StartPass, SchedInv, Added, TaskIds
  <2>2. Calm /\ forge # "down" /\ ChecksDue /\ WasScheduled("backup", TargetNodes, minute)
    BY <2>1, WasBefore, DuesStay DEF Calm, StartPass
  <2>3. Checked
    BY <2>2 DEF CheckedInv, SchedInv
  <2> QED
    BY <2>1, <2>3, CheckedStays DEF StartPass
<1> QED
  BY <1>2, <1>4, <1>5, PassKeeps DEF StartPass

LEMMA PassLeaves ==
  ASSUME SchedInv, UNCHANGED <<schedules, minute, scheduled, nodeOnline, userBusy, forge, undisturbed>>,
         disturbances' \in Nat, pass' = NoPass
  PROVE  SchedInv'
<1>1. pass'.at = "idle"
  BY DEF NoPass
<1>2. SchedTypes'
  BY DEF SchedInv, SchedTypes
<1>3. \A stages : InPass(stages)' => "idle" \in stages
  BY <1>1 DEF InPass
<1>4. AskedInv' /\ BackedUpInv' /\ ForgottenInv'
  BY <1>3 DEF AskedInv, BackedUpInv, ForgottenInv, Rustic
<1>5. CheckedInv'
  <2> SUFFICES ASSUME Calm', forge' # "down", ChecksDue', WasScheduled("backup", TargetNodes, minute)'
               PROVE  Checked'
    BY <1>3 DEF CheckedInv, Rustic
  <2>1. Kept /\ TaskIds' = TaskIds
    BY NothingAdded DEF SchedInv, Added, TaskIds
  <2>2. Calm /\ forge # "down" /\ ChecksDue /\ WasScheduled("backup", TargetNodes, minute)
    BY <2>1, WasBefore, DuesStay DEF Calm
  <2>3. Checked
    BY <2>2 DEF CheckedInv, SchedInv
  <2> QED
    BY <2>1, <2>3, CheckedStays
<1> QED
  BY <1>2, <1>4, <1>5, PassKeeps

LEMMA CollectKeeps ==
  ASSUME SchedInv, collectForgeImageCandidates
  PROVE  SchedInv'
<1>0. /\ pass \in PassRows /\ pass.at = "collect" /\ pass.window <= minute /\ minute' = minute /\ schedules' = schedules
      /\ scheduled' = scheduled /\ undisturbed' = undisturbed /\ forge' = forge /\ forge \in Forges
  BY PassStages DEF collectForgeImageCandidates, SchedInv, SchedTypes
<1>1. Kept /\ TaskIds' = TaskIds
  BY <1>0, NothingAdded DEF SchedInv, Added, TaskIds
<1> DEFINE asks == dueServiceImageUpdateNames(pass.window) # {} /\ forge # "down"
<1>2. pass'.window = pass.window /\ pass' \in PassRows
      /\ (asks => pass'.at = "check" /\ pass'.forge = forge)
      /\ (~asks => pass'.at = "backup" /\ pass'.todo = IF DueNow(effectiveBackupSchedule, pass.window) THEN TargetNodes ELSE {})
  <2>1. CASE asks
    <3>1. pass' = [pass EXCEPT !.at = "check", !.forge = forge]
      BY <2>1 DEF collectForgeImageCandidates
    <3> QED
      BY <1>0, <2>1, <3>1 DEF PassRows, Stages
  <2>2. CASE ~asks
    <3> DEFINE todo == IF DueNow(effectiveBackupSchedule, pass.window) THEN TargetNodes ELSE {}
    <3>1. pass' = [pass EXCEPT !.at = "backup", !.todo = todo]
      BY <2>2 DEF collectForgeImageCandidates, ToBackups
    <3>2. todo \in SUBSET TargetNodes
      OBVIOUS
    <3> HIDE DEF todo
    <3>3. pass' \in PassRows /\ pass'.at = "backup" /\ pass'.todo = todo /\ pass'.window = pass.window
      BY <1>0, <3>1, <3>2 DEF PassRows, Stages
    <3> QED
      BY <2>2, <3>3 DEF todo
  <2> QED
    BY <2>1, <2>2
<1>3. SchedTypes'
  BY <1>0, <1>2 DEF SchedInv, SchedTypes, collectForgeImageCandidates
<1>4. pass.window = minute => (asks <=> ChecksDue /\ forge # "down")
  BY DEF ChecksDue
<1> HIDE DEF asks
<1>5. AskedInv'
  BY <1>0, <1>2 DEF AskedInv, InPass
<1>6. CheckedInv'
  <2> SUFFICES ASSUME Calm', forge' # "down", ChecksDue',
                      InPass({"backup"} \cup Rustic)' \/ WasScheduled("backup", TargetNodes, minute)'
               PROVE  Checked'
    BY DEF CheckedInv
  <2>1. ~InPass({"backup"} \cup Rustic)'
    BY <1>0, <1>2, <1>4, DuesStay DEF InPass, Rustic
  <2>2. Calm /\ forge # "down" /\ ChecksDue /\ WasScheduled("backup", TargetNodes, minute)
    BY <1>0, <1>1, <2>1, WasBefore, DuesStay DEF Calm
  <2>3. Checked
    BY <2>2 DEF CheckedInv, SchedInv
  <2> QED
    BY <1>0, <1>1, <2>3, CheckedStays
<1>7. BackedUpInv'
  <2> SUFFICES ASSUME InPass({"backup"} \cup Rustic)', BackupsDue', NEW n \in TargetNodes
               PROVE  pass'.at = "backup" /\ n \in pass'.todo
    BY DEF BackedUpInv
  <2>1. DueNow(effectiveBackupSchedule, pass.window)
    BY <1>0, <1>2, DuesStay DEF InPass, BackupsDue
  <2> QED
    BY <1>2, <2>1 DEF InPass, Rustic
<1>8. ForgottenInv'
  BY <1>2 DEF ForgottenInv, InPass
<1> QED
  BY <1>0, <1>3, <1>5, <1>6, <1>7, <1>8, PassKeeps DEF collectForgeImageCandidates

LEMMA ServicesDoneKeeps ==
  ASSUME SchedInv, ServicesDone
  PROVE  SchedInv'
<1>0. /\ pass \in PassRows /\ pass.at = "backup" /\ pass.todo = {} /\ pass.window <= minute
      /\ minute' = minute /\ schedules' = schedules /\ scheduled' = scheduled
      /\ undisturbed' = undisturbed /\ forge' = forge
  BY PassStages DEF ServicesDone, SchedInv, SchedTypes
<1>1. Kept /\ TaskIds' = TaskIds
  BY <1>0, NothingAdded DEF SchedInv, Added, TaskIds
<1>2. pass'.window = pass.window /\ pass' \in PassRows /\ pass'.at = "rustic_forget"
  BY <1>0 DEF ServicesDone, PassRows, Stages
<1>3. SchedTypes'
  BY <1>0, <1>2 DEF SchedInv, SchedTypes, ServicesDone
<1>4. AskedInv' /\ ForgottenInv'
  BY <1>2 DEF AskedInv, ForgottenInv, InPass
<1>5. CheckedInv'
  <2> SUFFICES ASSUME Calm', forge' # "down", ChecksDue',
                      InPass({"backup"} \cup Rustic)' \/ WasScheduled("backup", TargetNodes, minute)'
               PROVE  Checked'
    BY DEF CheckedInv
  <2>1. InPass({"backup"} \cup Rustic) \/ WasScheduled("backup", TargetNodes, minute)
    BY <1>0, <1>1, <1>2, WasBefore DEF InPass
  <2>2. Calm /\ forge # "down" /\ ChecksDue
    BY <1>0, DuesStay DEF Calm
  <2>3. Checked
    BY <2>1, <2>2 DEF CheckedInv, SchedInv
  <2> QED
    BY <1>0, <1>1, <2>3, CheckedStays
<1>6. BackedUpInv'
  <2> SUFFICES ASSUME InPass({"backup"} \cup Rustic)', BackupsDue', NEW n \in TargetNodes \cap RusticNodes \cap undisturbed'
               PROVE  BackedUp(n)'
    BY DEF BackedUpInv
  <2>1. InPass({"backup"} \cup Rustic) /\ BackupsDue
    BY <1>0, <1>2, DuesStay DEF InPass
  <2>2. BackedUp(n)
    BY <1>0, <2>1 DEF BackedUpInv, SchedInv
  <2> QED
    BY <1>0, <1>1, <2>2, BackedUpStays
<1> QED
  BY <1>0, <1>3, <1>4, <1>5, <1>6, PassKeeps DEF ServicesDone

-----------------------------------------------------------------------------
(* Steps of a pass that create tasks *)

LEMMA CreatingKeeps ==
  ASSUME SchedInv, NEW new, Added(new), Fresh(new), \A t \in new : Fits(t, minute),
         \A t \in new : t.type = "image_check" => \A n \in TargetNodes : \E u \in new : Beside(u, t, n),
         minute' = minute, nodeOnline' = nodeOnline, userBusy' = userBusy, undisturbed' \subseteq undisturbed,
         \A t \in new : t.type \in Rustic \/ t.window = minute \/ t.node \notin undisturbed'
  PROVE  TasksFit' /\ ScheduledOnce' /\ ChecksCoverAllNodes' /\ FreeInv'
<1>1. TasksFit'
  BY FitAdded DEF SchedInv
<1>2. ScheduledOnce'
  BY OnceAdded DEF SchedInv
<1>3. ChecksCoverAllNodes'
  BY <1>1, CoversIs, CoversWillBe, CoversAdded DEF SchedInv
<1>4. FreeInv'
  <2> SUFFICES ASSUME NEW n \in undisturbed'
               PROVE  /\ nodeOnline[n] /\ (n \in TargetNodes => ~userBusy[n])
                      /\ \A k \in TaskIds' :
                           scheduled'[k].node = n /\ scheduled'[k].active /\ scheduled'[k].type \notin Rustic
                           => scheduled'[k].window = minute
    BY DEF FreeInv
  <2>1. nodeOnline[n] /\ (n \in TargetNodes => ~userBusy[n])
    BY DEF FreeInv, SchedInv
  <2>2. ASSUME NEW k \in TaskIds', scheduled'[k].node = n, scheduled'[k].active, scheduled'[k].type \notin Rustic
        PROVE  scheduled'[k].window = minute
    <3>1. CASE k \in TaskIds
      BY <2>2, <3>1 DEF FreeInv, SchedInv, Added
    <3>2. CASE k \notin TaskIds
      BY <2>2, <3>2 DEF Added
    <3> QED
      BY <3>1, <3>2
  <2> QED
    BY <2>1, <2>2
<1> QED
  BY <1>1, <1>2, <1>3, <1>4

\* A task that matches stands for one on each node.
LEMMA MatchCovers ==
  ASSUME SchedInv, NEW n, NEW m \in TargetNodes, NEW window, NEW params,
         HasMatchingTaskInWindow("image_check", n, window, params)
  PROVE  HasMatchingTaskInWindow("image_check", m, window, params)
<1>1. PICK k \in TaskIds : /\ scheduled[k].type = "image_check" /\ scheduled[k].node = n
                             /\ scheduled[k].window = window /\ scheduled[k].params = params
  BY DEF HasMatchingTaskInWindow, TaskIds
<1>2. Covers
  BY CoversIs DEF SchedInv
<1>3. PICK j \in TaskIds : Beside(scheduled[j], scheduled[k], m)
  BY <1>1, <1>2 DEF Covers
<1> QED
  BY <1>1, <1>3 DEF HasMatchingTaskInWindow, TaskIds, Beside

LEMMA MatchWas ==
  ASSUME NEW type, NEW n, NEW window, NEW params, HasMatchingTaskInWindow(type, n, window, params)
  PROVE  WasScheduled(type, {n}, window)
  BY DEF HasMatchingTaskInWindow, WasScheduled

\* The image checks of an undisturbed node exist, or a backup of the minute.
LEMMA BusyWith ==
  ASSUME SchedInv, NEW n \in TargetNodes \cap undisturbed, ~Admissible({n})
  PROVE  WasScheduled("image_check", {n}, minute) \/ WasScheduled("backup", {n}, minute)
<1>1. nodeOnline[n] /\ ~userBusy[n]
  BY DEF SchedInv, FreeInv
<1>2. PICK k \in TaskIds : scheduled[k].node = n /\ scheduled[k].active /\ scheduled[k].type \notin Rustic
  BY <1>1 DEF Admissible, InstanceBusy, TaskIds
<1>3. scheduled[k].window = minute
  BY <1>2 DEF SchedInv, FreeInv
<1>4. scheduled[k].type \in {"image_check", "backup"}
  BY <1>2, IdsAreNumbers DEF SchedInv, TasksFit, TaskRows
<1> QED
  BY <1>2, <1>3, <1>4 DEF WasScheduled, TaskIds

LEMMA OneCheckIsAll ==
  ASSUME SchedInv, NEW n, WasScheduled("image_check", {n}, minute)
  PROVE  Checked
<1>1. PICK k \in TaskIds : scheduled[k].type = "image_check" /\ scheduled[k].node = n /\ scheduled[k].window = minute
  BY DEF WasScheduled, TaskIds
<1>2. Covers
  BY CoversIs DEF SchedInv
<1> SUFFICES ASSUME NEW m \in TargetNodes PROVE WasScheduled("image_check", {m}, minute)
  BY DEF Checked
<1>3. PICK j \in TaskIds : Beside(scheduled[j], scheduled[k], m)
  BY <1>1, <1>2 DEF Covers
<1> QED
  BY <1>1, <1>3 DEF WasScheduled, TaskIds, Beside

LEMMA WasAdded ==
  ASSUME NEW new, Added(new), NEW type, NEW nodes, NEW window,
         \A t \in new : t.type # type \/ t.window # window,
         WasScheduled(type, nodes, window)'
  PROVE  WasScheduled(type, nodes, window)
<1>1. PICK k \in TaskIds' : scheduled'[k].type = type /\ scheduled'[k].node \in nodes /\ scheduled'[k].window = window
  BY DEF WasScheduled, TaskIds
<1>2. k \in TaskIds
  BY <1>1 DEF Added
<1> QED
  BY <1>1, <1>2 DEF WasScheduled, TaskIds, Added

LEMMA ToBackupsIs ==
  ASSUME pass \in PassRows, ToBackups
  PROVE  /\ pass' \in PassRows /\ pass'.at = "backup" /\ pass'.window = pass.window
         /\ DueNow(effectiveBackupSchedule, pass.window) => pass'.todo = TargetNodes
<1> DEFINE todo == IF DueNow(effectiveBackupSchedule, pass.window) THEN TargetNodes ELSE {}
<1>1. pass' = [pass EXCEPT !.at = "backup", !.todo = todo]
  BY DEF ToBackups
<1>2. todo \in SUBSET TargetNodes /\ (DueNow(effectiveBackupSchedule, pass.window) => todo = TargetNodes)
  OBVIOUS
<1> HIDE DEF todo
<1> QED
  BY <1>1, <1>2 DEF PassRows, Stages

LEMMA OccupiesIs ==
  ASSUME NEW nodes, Occupies(nodes)
  PROVE  undisturbed' \subseteq undisturbed /\ (pass.window # minute => undisturbed' \cap nodes = {})
  BY DEF Occupies

\* The task of a check on a node.
CheckRow(n, window, params, asked) == ScheduledTask("image_check", n, window, params, asked)

LEMMA RowsAre ==
  ASSUME NEW type, NEW n, NEW window, NEW params, NEW asked
  PROVE  LET t == ScheduledTask(type, n, window, params, asked)
         IN  /\ t.type = type /\ t.node = n /\ t.window = window /\ t.params = params /\ t.asked = asked
             /\ type \in {"image_check", "backup"} \cup Rustic /\ n \in NodesOfAll /\ window \in Nat
                /\ params \in {<<>>} \cup ((SUBSET Images) \X Forges) /\ asked \in Forges
                => t \in TaskRows
  BY DEF ScheduledTask, TaskRows

LEMMA FiniteRows ==
  ASSUME NEW nodes, nodes \subseteq TargetNodes, NEW window, NEW params, NEW asked
  PROVE  IsFiniteSet({CheckRow(n, window, params, asked) : n \in nodes})
<1> DEFINE f == [n \in nodes |-> CheckRow(n, window, params, asked)]
           rows == {CheckRow(n, window, params, asked) : n \in nodes}
<1>1. IsFiniteSet(nodes)
  BY SchedAssumption, FS_Subset
<1>2. f \in Surjection(nodes, rows)
  BY DEF Surjection
<1> QED
  BY <1>1, <1>2, FS_Surjection

LEMMA ChecksKeep ==
  ASSUME SchedInv, scheduleServiceImageChecks
  PROVE  SchedInv'
<1> DEFINE due == dueServiceImageUpdateNames(pass.window)
           found == <<due, pass.forge>>
           stored == IF pass.forge = "none" THEN forge ELSE pass.forge
           missing == {n \in TargetNodes : ~HasMatchingTaskInWindow("image_check", n, pass.window, found)}
           rows == {CheckRow(n, pass.window, <<due, stored>>, pass.forge) : n \in missing}
           creates == Admissible(missing) /\ stored # "down"
<1>0. /\ pass \in PassRows /\ pass.at = "check" /\ pass.window <= minute /\ minute \in Nat
      /\ minute' = minute /\ schedules' = schedules /\ forge' = forge /\ forge \in Forges
      /\ nodeOnline' = nodeOnline /\ userBusy' = userBusy /\ disturbances' = disturbances
  BY PassStages DEF scheduleServiceImageChecks, SchedInv, SchedTypes
<1>1. /\ ToBackups
      /\ creates => CreateAll(rows) /\ Occupies(missing)
      /\ ~creates => scheduled' = scheduled /\ undisturbed' = undisturbed
  BY DEF scheduleServiceImageChecks, CheckRow
<1>2. due \in SUBSET Images /\ stored \in Forges /\ pass.forge \in Forges /\ pass.window \in Nat
  BY <1>0 DEF dueServiceImageUpdateNames, PassRows
<1>3. pass.window = minute => (due # {} <=> ChecksDue)
  BY DEF ChecksDue
<1>4. ASSUME NEW t \in rows
      PROVE  /\ t \in TaskRows /\ t.type = "image_check" /\ t.window = pass.window
             /\ t.params = <<due, stored>> /\ t.asked = pass.forge /\ t.node \in missing
             /\ t = CheckRow(t.node, pass.window, <<due, stored>>, pass.forge)
  <2>1. PICK n \in missing : t = CheckRow(n, pass.window, <<due, stored>>, pass.forge)
    OBVIOUS
  <2>2. n \in NodesOfAll
    BY DEF NodesOfAll
  <2>3. <<due, stored>> \in (SUBSET Images) \X Forges
    BY <1>2
  <2> HIDE DEF due, stored, missing, rows
  <2> QED
    BY <1>2, <2>1, <2>2, <2>3, RowsAre DEF CheckRow
<1>5. missing = {} \/ missing = TargetNodes
  BY MatchCovers
<1>6. stored = <<due, stored>>[2] /\ (stored = pass.forge => <<due, stored>> = found)
  OBVIOUS
<1>7. \A n \in missing : ~HasMatchingTaskInWindow("image_check", n, pass.window, found) /\ n \in TargetNodes
  OBVIOUS
<1>8. \A n \in missing : CheckRow(n, pass.window, <<due, stored>>, pass.forge) \in rows
  OBVIOUS
<1>9. IsFiniteSet(rows)
  <2>1. missing \subseteq TargetNodes
    OBVIOUS
  <2> HIDE DEF due, stored, missing
  <2> QED
    BY <2>1, FiniteRows
<1>10. pass.window = minute /\ Calm => pass.forge = forge /\ stored = forge
  BY <1>0 DEF SchedInv, AskedInv, InPass
<1>11. missing = TargetNodes \/ \A n \in TargetNodes : HasMatchingTaskInWindow("image_check", n, pass.window, found)
  BY <1>5
<1> DEFINE new == IF creates THEN rows ELSE {}
<1> HIDE DEF due, found, stored, missing, rows, creates
<1>12. Added(new) /\ new \subseteq rows
  <2>1. CASE creates
    BY <1>1, <1>4, <1>9, <2>1, CreateAdds DEF SchedInv
  <2>2. CASE ~creates
    BY <1>1, <2>2, NothingAdded DEF SchedInv
  <2> QED
    BY <2>1, <2>2
<1>13. undisturbed' \subseteq undisturbed
       /\ \A t \in new : t.window = minute \/ t.node \notin undisturbed'
  <2>1. CASE creates
    BY <1>1, <1>4, <1>12, <2>1, OccupiesIs
  <2>2. CASE ~creates
    BY <1>1, <2>2
  <2> QED
    BY <2>1, <2>2
<1>14. \A t \in new : t.type = "image_check" => \A n \in TargetNodes : \E u \in new : Beside(u, t, n)
  <2> SUFFICES ASSUME NEW t \in new, NEW n \in TargetNodes PROVE \E u \in new : Beside(u, t, n)
    OBVIOUS
  <2>1. new = rows /\ t \in rows /\ missing = TargetNodes
    BY <1>4, <1>5, <1>12
  <2>2. CheckRow(n, pass.window, <<due, stored>>, pass.forge) \in new
    BY <1>8, <2>1
  <2>3. Beside(CheckRow(n, pass.window, <<due, stored>>, pass.forge), t, n)
    BY <1>4, <2>1, RowsAre DEF Beside, CheckRow
  <2> QED
    BY <2>2, <2>3
<1>15. Fresh(new)
  <2>1. ASSUME NEW t \in new, NEW k \in TaskIds, scheduled[k].type = t.type, scheduled[k].node = t.node,
               scheduled[k].window = t.window
        PROVE  t.type = "image_check" /\ (scheduled[k].params # t.params \/ t.params[2] # t.asked)
    <3>1. t.type = "image_check" /\ t.params = <<due, stored>> /\ t.asked = pass.forge /\ t.window = pass.window
          /\ ~HasMatchingTaskInWindow("image_check", t.node, pass.window, found)
      BY <1>4, <1>7, <1>12
    <3>2. scheduled[k].params # found
      BY <2>1, <3>1 DEF HasMatchingTaskInWindow, TaskIds
    <3>3. t.params[2] = stored
      BY <1>6, <3>1
    <3>4. stored = pass.forge => t.params = found
      BY <1>6, <3>1
    <3> QED
      BY <3>1, <3>2, <3>3, <3>4
  <2>2. \A t, u \in new : t.node = u.node => t = u
    BY <1>4, <1>12
  <2> QED
    BY <2>1, <2>2 DEF Fresh
<1>16. \A t \in new : Fits(t, minute)
  BY <1>0, <1>4, <1>7, <1>12 DEF Fits, Rustic
<1>17. TasksFit' /\ ScheduledOnce' /\ ChecksCoverAllNodes' /\ FreeInv'
  BY <1>0, <1>12, <1>13, <1>14, <1>15, <1>16, CreatingKeeps
<1>18. /\ pass' \in PassRows /\ pass'.at = "backup" /\ pass'.window = pass.window
       /\ DueNow(effectiveBackupSchedule, pass.window) => pass'.todo = TargetNodes
  BY <1>0, <1>1, ToBackupsIs
<1>19. SchedTypes'
  BY <1>0, <1>13, <1>18 DEF SchedInv, SchedTypes
<1>20. AskedInv' /\ ForgottenInv'
  BY <1>18 DEF AskedInv, ForgottenInv, InPass
<1>21. BackedUpInv'
  <2> SUFFICES ASSUME InPass({"backup"} \cup Rustic)', BackupsDue', NEW n \in TargetNodes
               PROVE  pass'.at = "backup" /\ n \in pass'.todo
    BY DEF BackedUpInv
  <2>1. DueNow(effectiveBackupSchedule, pass.window)
    BY <1>0, <1>18, DuesStay DEF InPass, BackupsDue
  <2> QED
    BY <1>18, <2>1
<1>22. CheckedInv'
  <2> SUFFICES ASSUME Calm', forge' # "down", ChecksDue',
                      InPass({"backup"} \cup Rustic)' \/ WasScheduled("backup", TargetNodes, minute)'
               PROVE  Checked'
    BY DEF CheckedInv
  <2>0. Calm /\ forge # "down" /\ ChecksDue /\ Kept
    BY <1>0, <1>12, <1>13, DuesStay DEF Calm, Added
  <2>1. ASSUME Checked PROVE Checked'
    BY <1>0, <2>0, <2>1, CheckedStays
  <2>2. ASSUME WasScheduled("backup", TargetNodes, minute) PROVE Checked
    BY <2>0, <2>2 DEF CheckedInv, SchedInv
  <2>3. CASE pass.window # minute
    <3>1. WasScheduled("backup", TargetNodes, minute)'
      BY <1>0, <1>18, <2>3 DEF InPass
    <3>2. \A t \in new : t.type # "backup" \/ t.window # minute
      BY <1>4, <1>12
    <3>3. WasScheduled("backup", TargetNodes, minute)
      BY <1>0, <1>12, <3>1, <3>2, WasAdded
    <3> QED
      BY <2>1, <2>2, <3>3
  <2>4. CASE pass.window = minute
    <3>1. PICK m : m \in TargetNodes
      BY <2>0 DEF Calm
    <3>2. CASE missing # TargetNodes
      <4>1. WasScheduled("image_check", {m}, minute)
        BY <1>11, <2>4, <3>1, <3>2, MatchWas
      <4> QED
        BY <2>1, <4>1, OneCheckIsAll
    <3>3. CASE missing = TargetNodes /\ ~creates
      <4>1. PICK n \in TargetNodes : ~Admissible({n})
        BY <1>10, <2>0, <2>4, <3>3 DEF creates, Admissible
      <4>2. CASE WasScheduled("image_check", {n}, minute)
        BY <2>1, <4>2, OneCheckIsAll
      <4>3. CASE WasScheduled("backup", {n}, minute)
        <5>1. WasScheduled("backup", TargetNodes, minute)
          BY <4>1, <4>3 DEF WasScheduled
        <5> QED
          BY <2>1, <2>2, <5>1
      <4> QED
        BY <2>0, <4>1, <4>2, <4>3, BusyWith DEF Calm
    <3>4. CASE missing = TargetNodes /\ creates
      <4> SUFFICES ASSUME NEW n \in TargetNodes PROVE WasScheduled("image_check", {n}, minute)'
        BY DEF Checked
      <4>1. PICK t \in new : t.type = "image_check" /\ t.node = n /\ t.window = minute
        BY <1>8, <2>4, <3>4, RowsAre DEF CheckRow
      <4>2. WasScheduled(t.type, {t.node}, t.window)'
        BY <1>12, NewWas
      <4> QED
        BY <1>0, <4>1, <4>2 DEF WasScheduled
    <3> QED
      BY <3>2, <3>3, <3>4
  <2> QED
    BY <2>3, <2>4
<1> QED
  BY <1>17, <1>19, <1>20, <1>21, <1>22 DEF SchedInv

LEMMA BackupKeeps ==
  ASSUME SchedInv, NEW n \in TargetNodes, scheduleServiceBackups(n)
  PROVE  SchedInv'
<1> DEFINE row == ScheduledTask("backup", n, pass.window, <<>>, "none")
           matched == HasMatchingTaskInWindow("backup", n, pass.window, <<>>)
           creates == ~matched /\ n \in RusticNodes /\ Admissible({n})
<1>0. /\ pass \in PassRows /\ pass.at = "backup" /\ n \in pass.todo /\ pass.window <= minute /\ minute \in Nat
      /\ minute' = minute /\ schedules' = schedules /\ forge' = forge /\ forge \in Forges
      /\ nodeOnline' = nodeOnline /\ userBusy' = userBusy /\ disturbances' = disturbances
  BY PassStages DEF scheduleServiceBackups, SchedInv, SchedTypes
<1>1. /\ pass' = [pass EXCEPT !.todo = @ \ {n}]
      /\ creates => scheduled' = Append(scheduled, row) /\ Occupies({n})
      /\ ~creates => scheduled' = scheduled /\ undisturbed' = undisturbed
  BY DEF scheduleServiceBackups
<1>2. /\ pass' \in PassRows /\ pass'.at = "backup" /\ pass'.window = pass.window /\ pass'.todo = pass.todo \ {n}
  BY <1>0, <1>1 DEF PassRows
<1>3. /\ row \in TaskRows /\ row.type = "backup" /\ row.window = pass.window /\ row.params = <<>> /\ row.node = n
  <2>1. pass.window \in Nat /\ n \in NodesOfAll /\ "none" \in Forges
    BY <1>0 DEF PassRows, NodesOfAll, Forges
  <2> QED
    BY <2>1, RowsAre
<1>4. ~matched => \A k \in TaskIds : ~(scheduled[k].type = "backup" /\ scheduled[k].node = n
                                         /\ scheduled[k].window = pass.window)
  BY DEF HasMatchingTaskInWindow, SchedInv, TasksFit, Fits, TaskIds
<1>5. matched => WasScheduled("backup", {n}, pass.window)
  BY MatchWas
<1> DEFINE new == IF creates THEN {row} ELSE {}
<1> HIDE DEF row, matched
<1>6. Added(new)
  <2>1. CASE creates
    BY <1>1, <1>3, <2>1, AppendAdds DEF SchedInv
  <2>2. CASE ~creates
    BY <1>1, <2>2, NothingAdded DEF SchedInv
  <2> QED
    BY <2>1, <2>2
<1>7. undisturbed' \subseteq undisturbed
      /\ \A t \in new : t.window = minute \/ t.node \notin undisturbed'
  <2>1. CASE creates
    BY <1>1, <1>3, <2>1, OccupiesIs
  <2>2. CASE ~creates
    BY <1>1, <2>2
  <2> QED
    BY <2>1, <2>2
<1>8. \A t \in new : t = row /\ creates
  OBVIOUS
<1>9. creates => row \in new
  OBVIOUS
<1> HIDE DEF new
<1>10. Fresh(new)
  BY <1>3, <1>4, <1>8 DEF Fresh
<1>11. \A t \in new : Fits(t, minute)
  BY <1>0, <1>3, <1>8 DEF Fits, Rustic
<1>12. \A t \in new : t.type # "image_check"
  BY <1>3, <1>8
<1>13. TasksFit' /\ ScheduledOnce' /\ ChecksCoverAllNodes' /\ FreeInv'
  BY <1>0, <1>6, <1>7, <1>10, <1>11, <1>12, CreatingKeeps
<1>14. SchedTypes'
  BY <1>0, <1>2, <1>7 DEF SchedInv, SchedTypes
<1>15. AskedInv' /\ ForgottenInv'
  BY <1>2 DEF AskedInv, ForgottenInv, InPass
<1>16. CheckedInv'
  <2> SUFFICES ASSUME Calm', forge' # "down", ChecksDue',
                      InPass({"backup"} \cup Rustic)' \/ WasScheduled("backup", TargetNodes, minute)'
               PROVE  Checked'
    BY DEF CheckedInv
  <2>0. Calm /\ forge # "down" /\ ChecksDue /\ Kept
    BY <1>0, <1>6, <1>7, DuesStay DEF Calm, Added
  <2>1. InPass({"backup"} \cup Rustic) \/ WasScheduled("backup", TargetNodes, minute)
    <3>1. CASE pass.window = minute
      BY <1>0, <3>1 DEF InPass
    <3>2. CASE pass.window # minute
      <4>1. \A t \in new : t.type # "backup" \/ t.window # minute
        BY <1>3, <1>8, <3>2
      <4> QED
        BY <1>0, <1>2, <1>6, <3>2, <4>1, WasAdded DEF InPass
    <3> QED
      BY <3>1, <3>2
  <2>2. Checked
    BY <2>0, <2>1 DEF CheckedInv, SchedInv
  <2> QED
    BY <1>0, <2>0, <2>2, CheckedStays
<1>17. BackedUpInv'
  <2> SUFFICES ASSUME InPass({"backup"} \cup Rustic)', BackupsDue', NEW m \in TargetNodes \cap RusticNodes \cap undisturbed'
               PROVE  BackedUp(m)' \/ m \in pass'.todo
    BY <1>2 DEF BackedUpInv
  <2>1. pass.window = minute /\ InPass({"backup"} \cup Rustic) /\ BackupsDue /\ m \in undisturbed /\ Kept
    BY <1>0, <1>2, <1>6, <1>7, DuesStay DEF InPass, Added
  <2>2. BackedUp(m) \/ m \in pass.todo
    BY <2>1 DEF BackedUpInv, SchedInv
  <2>3. CASE BackedUp(m)
    BY <1>0, <2>1, <2>3, BackedUpStays
  <2>4. CASE m # n /\ m \in pass.todo
    BY <1>2, <2>4
  <2>5. CASE m = n
    <3>1. CASE matched
      <4>1. BackedUp(n)
        BY <1>5, <2>1, <3>1 DEF BackedUp
      <4> QED
        BY <1>0, <2>1, <2>5, <4>1, BackedUpStays
    <3>2. CASE ~matched /\ ~Admissible({n})
      <4>1. BackedUp(n)
        BY <2>1, <2>5, <3>2, BusyWith DEF BackedUp
      <4> QED
        BY <1>0, <2>1, <2>5, <4>1, BackedUpStays
    <3>3. CASE creates
      <4>1. PICK t \in new : t.type = "backup" /\ t.node = n /\ t.window = minute
        BY <1>3, <1>9, <2>1, <3>3
      <4>2. WasScheduled(t.type, {t.node}, t.window)'
        BY <1>6, NewWas
      <4> QED
        BY <1>0, <2>5, <4>1, <4>2 DEF BackedUp
    <3> QED
      BY <2>5, <3>1, <3>2, <3>3
  <2> QED
    BY <2>2, <2>3, <2>4, <2>5
<1> QED
  BY <1>13, <1>14, <1>15, <1>16, <1>17 DEF SchedInv

MaintenanceDue(type, window) ==
  DueNow(EnabledSpec(IF type = "rustic_forget" THEN schedules.forget ELSE schedules.prune), window)

Maintains(new, type, window) ==
  /\ Added(new) /\ Fresh(new)
  /\ \A t \in new : Fits(t, minute) /\ t.type \in Rustic
  /\ MaintenanceDue(type, window) /\ (\E n \in RusticNodes : nodeOnline[n])
     => WasScheduled(type, RusticNodes, window)'

LEMMA MaintenanceAdds ==
  ASSUME SchedInv, NEW type \in Rustic, scheduleRusticMaintenance(type), NEW w, w = pass.window
  PROVE  \E new : Maintains(new, type, w)
<1>0. /\ pass \in PassRows /\ pass.at = type /\ w \in Nat /\ w <= minute /\ minute \in Nat
  BY PassStages DEF scheduleRusticMaintenance, SchedInv, SchedTypes, Rustic, PassRows
<1> DEFINE free == ~MaintenanceDue(type, w) \/ ~\E n \in RusticNodes : nodeOnline[n]
<1>1. CASE scheduled' = scheduled /\ free
  <2>1. Added({})
    BY <1>1, NothingAdded DEF SchedInv
  <2>2. Fresh({})
    BY DEF Fresh
  <2> QED
    BY <1>1, <2>1, <2>2 DEF Maintains
<1>2. CASE \E n \in RusticNodes : HasMatchingTaskInWindow(type, n, w, <<>>) /\ scheduled' = scheduled
  <2>1. PICK n \in RusticNodes : HasMatchingTaskInWindow(type, n, w, <<>>)
    BY <1>2
  <2>2. Added({}) /\ Kept
    BY <1>2, NothingAdded DEF SchedInv, Added
  <2>3. Fresh({})
    BY DEF Fresh
  <2>4. WasScheduled(type, RusticNodes, w)
    BY <2>1 DEF HasMatchingTaskInWindow, WasScheduled
  <2>5. WasScheduled(type, RusticNodes, w)'
    BY <2>2, <2>4, WasStays
  <2> QED
    BY <2>2, <2>3, <2>5 DEF Maintains
<1>3. CASE \E n \in RusticNodes : /\ ~HasMatchingTaskInWindow(type, n, w, <<>>)
                                  /\ scheduled' = Append(scheduled, ScheduledTask(type, n, w, <<>>, "none"))
  <2>1. PICK n \in RusticNodes : /\ ~HasMatchingTaskInWindow(type, n, w, <<>>)
                                  /\ scheduled' = Append(scheduled, ScheduledTask(type, n, w, <<>>, "none"))
    BY <1>3
  <2> DEFINE row == ScheduledTask(type, n, w, <<>>, "none")
  <2>2. row \in TaskRows /\ row.type = type /\ row.window = w /\ row.params = <<>> /\ row.node = n
    <3>1. n \in NodesOfAll /\ "none" \in Forges
      BY DEF NodesOfAll, Forges
    <3> QED
      BY <1>0, <3>1, RowsAre
  <2> HIDE DEF row
  <2>3. Added({row})
    BY <2>1, <2>2, AppendAdds DEF SchedInv, row
  <2>4. \A k \in TaskIds : ~(scheduled[k].type = type /\ scheduled[k].node = n /\ scheduled[k].window = w)
    BY <2>1 DEF HasMatchingTaskInWindow, SchedInv, TasksFit, Fits, TaskIds, Rustic
  <2>5. Fresh({row})
    BY <2>2, <2>4 DEF Fresh
  <2>6. Fits(row, minute) /\ row.type \in Rustic
    BY <1>0, <2>2 DEF Fits, Rustic
  <2>7. \A k \in TaskIds' : scheduled'[k] = row => scheduled'[k].type = type /\ scheduled'[k].node \in RusticNodes /\ scheduled'[k].window = w
    BY <2>2
  <2>8. \E k \in TaskIds' : scheduled'[k] = row
    BY <2>3 DEF Added
  <2>9. WasScheduled(type, RusticNodes, w)'
    BY <2>7, <2>8 DEF WasScheduled, TaskIds
  <2>10. Maintains({row}, type, w)
    BY <2>3, <2>5, <2>6, <2>9 DEF Maintains
  <2> QED
    BY <2>10
<1> QED
  BY <1>1, <1>2, <1>3 DEF scheduleRusticMaintenance, MaintenanceDue

LEMMA MaintenanceKeeps ==
  ASSUME SchedInv, NEW type \in Rustic, scheduleRusticMaintenance(type)
  PROVE  SchedInv'
<1>0. /\ pass \in PassRows /\ pass.at = type /\ pass.window \in Nat /\ pass.window <= minute /\ minute \in Nat
      /\ minute' = minute /\ schedules' = schedules /\ forge' = forge /\ undisturbed' = undisturbed
      /\ nodeOnline' = nodeOnline /\ userBusy' = userBusy /\ disturbances' = disturbances
  BY PassStages DEF scheduleRusticMaintenance, SchedInv, SchedTypes, Rustic, PassRows
<1>1. PICK new : /\ Added(new) /\ Fresh(new)
                 /\ \A t \in new : Fits(t, minute) /\ t.type \in Rustic
  <2>1. PICK w : w = pass.window
    OBVIOUS
  <2>2. PICK new : Maintains(new, type, w)
    BY <2>1, MaintenanceAdds
  <2> QED
    BY <2>2 DEF Maintains
<1>2. \A t \in new : t.type # "image_check" /\ t.type # "backup"
  BY <1>1 DEF Rustic
<1>3. TasksFit' /\ ScheduledOnce' /\ ChecksCoverAllNodes' /\ FreeInv'
  BY <1>0, <1>1, <1>2, CreatingKeeps
<1>4. \/ pass' = NoPass /\ pass'.at = "idle"
      \/ pass' \in PassRows /\ pass'.at = "rustic_prune" /\ pass'.window = pass.window /\ type = "rustic_forget"
         /\ ~(MaintenanceDue(type, pass.window) /\ ~\E n \in RusticNodes : nodeOnline[n])
  <2>1. CASE pass' = NoPass
    BY <2>1 DEF NoPass
  <2>2. CASE pass' = [pass EXCEPT !.at = "rustic_prune"] /\ type = "rustic_forget"
             /\ ~(MaintenanceDue(type, pass.window) /\ ~\E n \in RusticNodes : nodeOnline[n])
    BY <1>0, <2>2 DEF PassRows, Stages
  <2> QED
    BY <2>1, <2>2 DEF scheduleRusticMaintenance, MaintenanceDue
<1>5. SchedTypes'
  BY <1>0, <1>4 DEF SchedInv, SchedTypes
<1>6. AskedInv'
  BY <1>4 DEF AskedInv, InPass
<1>7. Kept
  BY <1>1 DEF Added
<1>8. InPass({"backup"} \cup Rustic)' => InPass({"backup"} \cup Rustic) /\ pass.window = minute
  BY <1>0, <1>4 DEF InPass, Rustic
<1>9. CheckedInv'
  <2> SUFFICES ASSUME Calm', forge' # "down", ChecksDue',
                      InPass({"backup"} \cup Rustic)' \/ WasScheduled("backup", TargetNodes, minute)'
               PROVE  Checked'
    BY DEF CheckedInv
  <2>1. InPass({"backup"} \cup Rustic) \/ WasScheduled("backup", TargetNodes, minute)
    BY <1>0, <1>1, <1>2, <1>8, WasAdded
  <2>2. Calm /\ forge # "down" /\ ChecksDue
    BY <1>0, DuesStay DEF Calm
  <2>3. Checked
    BY <2>1, <2>2 DEF CheckedInv, SchedInv
  <2> QED
    BY <1>0, <1>7, <2>3, CheckedStays
<1>10. BackedUpInv'
  <2> SUFFICES ASSUME InPass({"backup"} \cup Rustic)', BackupsDue', NEW n \in TargetNodes \cap RusticNodes \cap undisturbed'
               PROVE  BackedUp(n)'
    BY DEF BackedUpInv
  <2>1. BackedUp(n)
    BY <1>0, <1>8, DuesStay DEF BackedUpInv, SchedInv, Rustic
  <2> QED
    BY <1>0, <1>7, <2>1, BackedUpStays
<1>11. ForgottenInv'
  <2> SUFFICES ASSUME InPass({"rustic_prune"})', NEW n \in RusticNodes \cap undisturbed', ForgetDue'
               PROVE  WasScheduled("rustic_forget", RusticNodes, minute)'
    BY DEF ForgottenInv
  <2>1. type = "rustic_forget" /\ pass.window = minute /\ ForgetDue
    BY <1>0, <1>4, DuesStay DEF InPass
  <2>2. nodeOnline[n] /\ MaintenanceDue(type, minute)
    BY <1>0, <2>1 DEF SchedInv, FreeInv, MaintenanceDue, ForgetDue
  <2>3. PICK w : w = pass.window
    OBVIOUS
  <2>4. w = minute /\ w = minute' /\ MaintenanceDue(type, w)
    BY <1>0, <2>1, <2>2, <2>3
  <2>5. \E m \in RusticNodes : nodeOnline[m]
    BY <2>2
  <2>6. \E made : Maintains(made, type, w)
    BY <2>3, MaintenanceAdds
  <2>7. WasScheduled(type, RusticNodes, w)'
    BY <2>4, <2>5, <2>6 DEF Maintains
  <2> QED
    BY <2>1, <2>4, <2>7 DEF WasScheduled
<1> QED
  BY <1>3, <1>5, <1>6, <1>9, <1>10, <1>11 DEF SchedInv

-----------------------------------------------------------------------------

LEMMA SchedInitOK == SchedInit => SchedInv
<1> SUFFICES ASSUME SchedInit PROVE SchedInv
  OBVIOUS
<1>1. scheduled = <<>> /\ scheduled \in Seq(TaskRows) /\ Len(scheduled) = 0 /\ TaskIds = {} /\ pass.at = "idle"
  BY DEF SchedInit, TaskIds, NoPass
<1>2. SchedTypes
  BY DEF SchedInit, SchedTypes, Forges
<1>3. TasksFit /\ ScheduledOnce /\ ChecksCoverAllNodes
  BY <1>1 DEF TasksFit, ScheduledOnce, ChecksCoverAllNodes, TaskIds
<1>4. FreeInv
  BY <1>1 DEF FreeInv, SchedInit, NodesOfAll
<1>5. \A type, nodes, window : ~WasScheduled(type, nodes, window)
  BY <1>1 DEF WasScheduled, TaskIds
<1>6. AskedInv /\ CheckedInv /\ BackedUpInv /\ ForgottenInv
  BY <1>1, <1>5 DEF AskedInv, CheckedInv, BackedUpInv, ForgottenInv, InPass, Rustic
<1> QED
  BY <1>2, <1>3, <1>4, <1>6 DEF SchedInv

LEMMA RestartKeeps ==
  ASSUME SchedInv, RestartScheduler
  PROVE  SchedInv'
<1>1. disturbances' \in Nat
  BY DEF RestartScheduler, Disturb, SchedInv, SchedTypes
<1> QED
  BY <1>1, PassLeaves DEF RestartScheduler

LEMMA SchedStep == SchedInv /\ [SchedNext]_schedVars => SchedInv'
<1> SUFFICES ASSUME SchedInv, [SchedNext]_schedVars PROVE SchedInv'
  OBVIOUS
<1>1. CASE UNCHANGED schedVars
  BY <1>1, StutterKeeps
<1>2. CASE StartPass \/ collectForgeImageCandidates \/ scheduleServiceImageChecks \/ ServicesDone
  BY <1>2, StartPassKeeps, CollectKeeps, ChecksKeep, ServicesDoneKeeps
<1>3. CASE \E n \in TargetNodes : scheduleServiceBackups(n)
  BY <1>3, BackupKeeps
<1>4. CASE \E type \in Rustic : scheduleRusticMaintenance(type)
  BY <1>4, MaintenanceKeeps
<1>5. CASE NextMinute \/ RestartScheduler
  BY <1>5, MinuteKeeps, RestartKeeps
<1>6. CASE \E n \in NodesOfAll : NodeFlips(n)
  BY <1>6, NodeFlipsKeeps
<1>7. CASE \E n \in TargetNodes : UserTaskBegins(n) \/ UserTaskEnds(n)
  BY <1>7, UserTaskKeeps
<1>8. CASE \E k \in 1..Len(scheduled) : ScheduledTaskEnds(k)
  BY <1>8, TaskEndKeeps DEF TaskIds
<1>9. CASE \E f \in {"none", "v1", "down"} : ForgeChanges(f)
  BY <1>9, ForgeChangesKeeps
<1> QED
  BY <1>1, <1>2, <1>3, <1>4, <1>5, <1>6, <1>7, <1>8, <1>9 DEF SchedNext

\* A pass ends only with the maintenance, or with its controller.
LEMMA PassEndsInMaintenance ==
  ASSUME SchedInv, [SchedNext]_schedVars, PassEnds
  PROVE  scheduleRusticMaintenance("rustic_prune")
<1>1. pass.at = "rustic_prune" /\ pass'.at = "idle" /\ disturbances' = disturbances /\ disturbances \in Nat
  BY DEF PassEnds, NoPass, SchedInv, SchedTypes
<1>2. pass' # pass /\ pass # NoPass
  BY <1>1 DEF NoPass
<1>3. ~(StartPass \/ collectForgeImageCandidates \/ scheduleServiceImageChecks \/ ServicesDone)
  BY <1>1, <1>2 DEF StartPass, collectForgeImageCandidates, scheduleServiceImageChecks, ServicesDone
<1>4. ~\E n \in TargetNodes : scheduleServiceBackups(n)
  BY <1>1 DEF scheduleServiceBackups
<1>5. ~(NextMinute \/ RestartScheduler \/ UNCHANGED schedVars)
  BY <1>1, <1>2 DEF NextMinute, RestartScheduler, schedVars, Disturb
<1>6. ~\E n \in NodesOfAll : NodeFlips(n)
  BY <1>2 DEF NodeFlips
<1>7. ~\E n \in TargetNodes : UserTaskBegins(n) \/ UserTaskEnds(n)
  BY <1>2 DEF UserTaskBegins, UserTaskEnds
<1>8. ~\E k \in 1..Len(scheduled) : ScheduledTaskEnds(k)
  BY <1>2 DEF ScheduledTaskEnds
<1>9. ~\E f \in {"none", "v1", "down"} : ForgeChanges(f)
  BY <1>2 DEF ForgeChanges
<1>10. \E type \in Rustic : scheduleRusticMaintenance(type)
  BY <1>3, <1>4, <1>5, <1>6, <1>7, <1>8, <1>9 DEF SchedNext
<1> QED
  BY <1>1, <1>10 DEF scheduleRusticMaintenance

LEMMA EndFindsTheDue ==
  ASSUME SchedInv, SchedInv', [SchedNext]_schedVars, PassEnds, pass.window = minute
  PROVE  PassFindsTheDue'
<1>1. /\ scheduleRusticMaintenance("rustic_prune") /\ "rustic_prune" \in Rustic
      /\ pass.at = "rustic_prune" /\ InPass({"backup"} \cup Rustic) /\ InPass({"rustic_prune"})
  BY PassEndsInMaintenance DEF PassEnds, InPass, Rustic
<1>2. /\ minute' = minute /\ schedules' = schedules /\ forge' = forge /\ undisturbed' = undisturbed
  BY <1>1 DEF scheduleRusticMaintenance
<1>3. PICK w : w = pass.window
  OBVIOUS
<1>4. PICK new : Maintains(new, "rustic_prune", w)
  BY <1>1, <1>3, MaintenanceAdds
<1>5. Kept
  BY <1>4 DEF Maintains, Added
<1>6. ASSUME ChecksDue', TargetNodes \subseteq undisturbed', forge' # "down", NEW n \in TargetNodes
      PROVE  WasScheduled("image_check", {n}, minute)'
  <2>1. Calm /\ ChecksDue /\ forge # "down"
    BY <1>2, <1>6, DuesStay DEF Calm
  <2>2. Checked
    BY <1>1, <2>1 DEF SchedInv, CheckedInv
  <2>3. Checked'
    BY <1>2, <1>5, <2>2, CheckedStays
  <2> QED
    BY <2>3 DEF Checked
<1>7. ASSUME BackupsDue', NEW n \in TargetNodes \cap RusticNodes \cap undisturbed'
      PROVE  BackedUp(n)'
  <2>1. BackedUp(n)
    BY <1>1, <1>2, <1>7, DuesStay DEF SchedInv, BackedUpInv
  <2> QED
    BY <1>2, <1>5, <2>1, BackedUpStays
<1>8. ASSUME RusticNodes \cap undisturbed' # {}, ForgetDue'
      PROVE  WasScheduled("rustic_forget", RusticNodes, minute)'
  <2>1. WasScheduled("rustic_forget", RusticNodes, minute)
    BY <1>1, <1>2, <1>8, DuesStay DEF SchedInv, ForgottenInv
  <2> QED
    BY <1>2, <1>5, <2>1, WasStays
<1>9. ASSUME RusticNodes \cap undisturbed' # {}, PruneDue'
      PROVE  WasScheduled("rustic_prune", RusticNodes, minute)'
  <2>1. \E n \in RusticNodes : nodeOnline[n]
    BY <1>2, <1>9 DEF SchedInv, FreeInv
  <2>2. MaintenanceDue("rustic_prune", w)
    BY <1>2, <1>3, <1>9, DuesStay DEF MaintenanceDue, PruneDue
  <2>3. WasScheduled("rustic_prune", RusticNodes, w)'
    BY <1>4, <2>1, <2>2 DEF Maintains
  <2> QED
    BY <1>2, <1>3, <2>3 DEF WasScheduled
<1> QED
  BY <1>6, <1>7, <1>8, <1>9 DEF PassFindsTheDue, ChecksDue, BackupsDue, ForgetDue, PruneDue, BackedUp

\* For any nodes, images, schedules and numbers of passes and disturbances: however
\* passes repeat, run late or are cut off, nothing is scheduled twice, a check covers
\* all nodes or none, and a pass that ends in its own minute leaves nothing due undone.
THEOREM ScheduleKept == SchedSpec => ScheduleIsKept
<1>1. SchedInv => ScheduledOnce /\ ChecksCoverAllNodes
  BY DEF SchedInv
<1>2. SchedInv /\ SchedInv' /\ [SchedNext]_schedVars
      => [PassEnds /\ pass.window = minute => PassFindsTheDue']_schedVars
  BY EndFindsTheDue
<1> QED
  BY <1>1, <1>2, SchedInitOK, SchedStep, PTL DEF SchedSpec, ScheduleIsKept
=============================================================================
