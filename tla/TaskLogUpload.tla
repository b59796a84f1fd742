--------------------------- MODULE TaskLogUpload ---------------------------
(***************************************************************************)
(* Task logs on their way from an agent to a reader.  The agent's          *)
(* taskLogUploader sends one chunk at a time over a bidirectional stream    *)
(* and waits for its acknowledgement until a deadline; a broken stream is   *)
(* reopened and the chunk is sent again.  The controller appends a chunk   *)
(* whose sequence number is the next one, stores the number, and           *)
(* acknowledges.  TailTaskLogs polls the file and ends when the task has.  *)
(*                                                                         *)
(* A chunk is its position in the agent's output.  A message that was sent  *)
(* may arrive after its stream was given up, because the server handles    *)
(* what it has received; it may also be lost.                              *)
(***************************************************************************)
EXTENDS Naturals, Sequences, SequencesExt

CONSTANTS
  MaxChunks,   \* bound: chunks of the task's output
  MaxBreaks,   \* bound: broken streams
  MaxFaults,   \* bound: failing SQLite writes
  MaxRestores  \* bound: databases restored from an older copy

VARIABLES
  produced,   \* chunks passed to Upload so far
  pending,    \* the entry of uploader.pending, or NoEntry
  nextSeq, lastConfirmed,   \* the uploader's counters
  stream,     \* "closed", "open" or "sent" (waiting for the acknowledgement)
  wire,       \* messages received by no handler yet
  ack,        \* the acknowledgement on the current stream, or NoAck
  result,     \* what Upload returned for each chunk
  log,        \* the chunks in the log file
  stored,     \* tasks.log_confirmed_seq
  cached,     \* taskLogAckState.confirmedBy of the task, or NoAck
  terminal,   \* the task has ended
  tail,       \* the reader
  breaks, faults, restores, abandoned

agentVars == <<produced, pending, nextSeq, lastConfirmed, stream, result, abandoned>>
serverVars == <<log, stored, cached, faults, restores>>
logVars == <<agentVars, serverVars, wire, ack, terminal, tail, breaks>>

ASSUME LogAssumption ==
  /\ MaxChunks \in Nat \ {0}
  /\ {MaxBreaks, MaxFaults, MaxRestores} \subseteq Nat

NoEntry == [seq |-> 0, chunk |-> 0]
NoAck == MaxChunks + 1
Min2(a, b) == IF a < b THEN a ELSE b

LogInit ==
  /\ produced = 0 /\ pending = NoEntry
  /\ nextSeq = 1 /\ lastConfirmed = 0
  /\ stream = "closed" /\ wire = {} /\ ack = NoAck
  /\ result = [c \in 1..MaxChunks |-> "none"]
  /\ log = <<>> /\ stored = 0 /\ cached = NoAck
  /\ terminal = FALSE
  /\ tail = [at |-> "stat", offset |-> 0, size |-> 0, got |-> 0, sent |-> <<>>]
  /\ breaks = 0 /\ faults = 0 /\ restores = 0 /\ abandoned = FALSE

-----------------------------------------------------------------------------
(* The uploader *)

\* Upload appends the chunk with the next number.  The stream of the previous
\* Upload was opened under that call's context, which has been cancelled.
Upload ==
  /\ pending = NoEntry /\ produced < MaxChunks /\ ~terminal
  /\ produced' = produced + 1
  /\ pending' = [seq |-> nextSeq, chunk |-> produced + 1]
  /\ nextSeq' = nextSeq + 1
  /\ stream' = "closed" /\ ack' = NoAck
  /\ UNCHANGED <<lastConfirmed, result, abandoned, serverVars, wire, terminal,
                 tail, breaks>>

\* ensureStream and Send of sendPendingLog.
SendPendingLog ==
  /\ pending # NoEntry /\ stream # "sent"
  /\ stream' = "sent"
  /\ wire' = wire \cup {[seq |-> pending.seq, chunk |-> pending.chunk, live |-> TRUE]}
  /\ UNCHANGED <<produced, pending, nextSeq, lastConfirmed, result, abandoned,
                 serverVars, ack, terminal, tail, breaks>>

Unlive(ms) == {[m EXCEPT !.live = FALSE] : m \in ms}

\* Send or Receive fails: reconnect opens a new stream, what the old one
\* carried may still be handled or be lost.
Reconnect ==
  /\ stream = "sent" /\ breaks < MaxBreaks
  /\ breaks' = breaks + 1
  /\ stream' = "open" /\ ack' = NoAck
  /\ wire' \in {Unlive(wire), {}}
  /\ UNCHANGED <<produced, pending, nextSeq, lastConfirmed, result, abandoned,
                 serverVars, terminal, tail>>

\* Mutant: an acknowledgement below the last one is only waited out.
ApplyAckNoRenumber ==
  /\ stream = "sent" /\ ack # NoAck
  /\ ack' = NoAck /\ stream' = "open"
  /\ IF pending.seq <= ack
     THEN /\ pending' = NoEntry
          /\ result' = [result EXCEPT ![pending.chunk] = "ok"]
          /\ lastConfirmed' = ack
     ELSE UNCHANGED <<pending, result, lastConfirmed>>
  /\ UNCHANGED <<produced, nextSeq, abandoned, serverVars, wire, terminal, tail, breaks>>

\* applyAck: a number below the last one means that the controller has lost
\* its count, and the entry is renumbered; otherwise the entry is dropped if
\* its number is confirmed, and Upload succeeds.
ApplyAck ==
  /\ stream = "sent" /\ ack # NoAck
  /\ ack' = NoAck /\ stream' = "open"
  /\ lastConfirmed' = ack
  /\ IF ack < lastConfirmed
     THEN /\ pending' = [pending EXCEPT !.seq = ack + 1]
          /\ nextSeq' = ack + 2
          /\ UNCHANGED result
     ELSE /\ UNCHANGED nextSeq
          /\ IF pending.seq <= ack
             THEN pending' = NoEntry /\ result' = [result EXCEPT ![pending.chunk] = "ok"]
             ELSE UNCHANGED <<pending, result>>
  /\ UNCHANGED <<produced, abandoned, serverVars, wire, terminal, tail, breaks>>

\* The deadline of Upload passes: abandonPending, and uploadTaskLog goes on
\* with the task.
AbandonPending ==
  /\ pending # NoEntry /\ breaks < MaxBreaks
  /\ breaks' = breaks + 1
  /\ result' = [result EXCEPT ![pending.chunk] = "failed"]
  /\ pending' = NoEntry
  /\ nextSeq' = lastConfirmed + 1
  /\ stream' = "closed" /\ ack' = NoAck /\ abandoned' = TRUE
  /\ wire' \in {Unlive(wire), {}}
  /\ UNCHANGED <<produced, lastConfirmed, serverVars, terminal, tail>>

-----------------------------------------------------------------------------
(* The controller *)

\* TaskLogConfirmedSeq is read once and then cached.
Confirmed == IF cached = NoAck THEN stored ELSE cached

\* SetTaskLogConfirmedSeq only ever raises the number.
Stores(seq) == stored <= seq

\* A repeated number is acknowledged again, a gap is not filled.
Accepts(m) == m.seq = Confirmed + 1

\* applyTaskLogUpload, which holds the lock of the acknowledgement state:
\* append to the file, store the number, remember it.
ApplyTaskLogUpload(m) ==
  /\ m \in wire
  /\ wire' = wire \ {m}
  /\ IF Accepts(m)
     THEN /\ log' = Append(log, m.chunk)
          /\ IF Stores(m.seq)
             THEN stored' = m.seq /\ cached' = m.seq /\ ack' = IF m.live THEN m.seq ELSE ack
             ELSE UNCHANGED <<stored, ack>> /\ cached' = Confirmed
     ELSE /\ UNCHANGED <<log, stored>>
          /\ cached' = Confirmed
          /\ ack' = IF m.live THEN Confirmed ELSE ack
  /\ UNCHANGED <<faults, restores, agentVars, terminal, tail, breaks>>

\* The append succeeds and storing the number fails: the handler returns an
\* error and the stream ends without an acknowledgement.
AppendThenFail(m) ==
  /\ m \in wire /\ Accepts(m) /\ faults < MaxFaults
  /\ faults' = faults + 1
  /\ wire' = wire \ {m}
  /\ log' = Append(log, m.chunk)
  /\ cached' = Confirmed
  /\ stream' = IF m.live THEN "open" ELSE stream
  /\ UNCHANGED <<stored, restores, produced, pending, nextSeq, lastConfirmed,
                 result, abandoned, ack, terminal, tail, breaks>>

\* The controller restarts (all streams end), possibly with an older database.
RestartLogServer(older) ==
  /\ breaks < MaxBreaks /\ breaks' = breaks + 1
  /\ IF older
     THEN restores < MaxRestores /\ restores' = restores + 1 /\ stored' = 0
     ELSE UNCHANGED <<restores, stored>>
  /\ cached' = NoAck
  /\ wire' = {} /\ ack' = NoAck
  /\ stream' = IF stream = "sent" THEN "open" ELSE stream
  /\ UNCHANGED <<log, faults, produced, pending, nextSeq, lastConfirmed, result,
                 abandoned, terminal, tail>>

\* ReportTaskState: the agent reports after its last upload returned, and
\* resetTaskLogAck forgets the cached number.
TaskEnds ==
  /\ ~terminal /\ produced = MaxChunks /\ pending = NoEntry
  /\ terminal' = TRUE
  /\ cached' = NoAck
  /\ UNCHANGED <<agentVars, log, stored, faults, restores, wire, ack, tail, breaks>>

-----------------------------------------------------------------------------
(* The reader: TailTaskLogs and readNewLogContent *)

StatLog ==
  /\ tail.at = "stat"
  /\ tail' = [tail EXCEPT !.at = "read", !.size = Len(log)]
  /\ UNCHANGED <<agentVars, serverVars, wire, ack, terminal, breaks>>

\* All of the file from the offset on is read and sent; the next offset is
\* the size that was taken before.
ReadLog ==
  /\ tail.at = "read"
  /\ tail' = [tail EXCEPT
       !.at = "status",
       !.got = Len(log) - tail.offset,
       !.sent = @ \o SubSeq(log, tail.offset + 1, Len(log)),
       !.offset = tail.size]
  /\ UNCHANGED <<agentVars, serverVars, wire, ack, terminal, breaks>>

\* The status is read after the file: the reader is done when the task has
\* ended and the last read returned nothing.
CheckStatus ==
  /\ tail.at = "status"
  /\ tail' = [tail EXCEPT !.at = IF tail.got = 0 /\ terminal THEN "done" ELSE "stat"]
  /\ UNCHANGED <<agentVars, serverVars, wire, ack, terminal, breaks>>

TailStep == StatLog \/ ReadLog \/ CheckStatus

UploaderStep == Upload \/ SendPendingLog \/ ApplyAck

LogNext ==
  \/ UploaderStep \/ Reconnect \/ AbandonPending
  \/ \E m \in wire : ApplyTaskLogUpload(m) \/ AppendThenFail(m)
  \/ \E older \in BOOLEAN : RestartLogServer(older)
  \/ TaskEnds
  \/ TailStep

LogSpec == LogInit /\ [][LogNext]_logVars

-----------------------------------------------------------------------------
(* Properties *)

LogTypeOK ==
  /\ produced \in 0..MaxChunks
  /\ pending.seq \in 0..MaxChunks /\ pending.chunk \in 0..MaxChunks
  /\ nextSeq \in 1..(MaxChunks + 1)
  /\ lastConfirmed \in 0..MaxChunks
  /\ stream \in {"closed", "open", "sent"}
  /\ log \in Seq(1..MaxChunks)
  /\ stored \in 0..MaxChunks /\ cached \in 0..NoAck
  /\ tail.at \in {"stat", "read", "status", "done"} /\ tail.offset \in 0..Len(log)

\* Chunks are written in order and once, however streams break, uploads are
\* abandoned, the controller restarts and late messages arrive.  A failed
\* SQLite write after the append may repeat a chunk, and a restored database
\* may let a late message in after a newer one.
LogInOrder ==
  faults = 0 /\ restores = 0 =>
    \A i, j \in DOMAIN log : i < j => log[i] < log[j]

\* A chunk for which Upload returned nil is in the log, whatever streams and
\* writes fail, unless an earlier Upload gave up or the database was restored.
ConfirmedIsLogged ==
  ~abandoned /\ restores = 0 => \A c \in 1..MaxChunks : result[c] = "ok" => c \in ToSet(log)

\* The reader skips nothing: what lies before its offset has been sent.
TailSkipsNothing ==
  tail.at # "read" =>
    \A i \in 1..tail.offset : log[i] \in ToSet(tail.sent)

\* The log is what the agent wrote, and its reader sees what the log holds.
LogIsFaithful == LogTypeOK /\ LogInOrder /\ ConfirmedIsLogged /\ TailSkipsNothing

\* Every Upload returns, up to the end of the task, and the reader of an ended
\* task is released.
LogsEnd == produced > 0 ~> (terminal /\ tail.at = "done")

\* Task logs (log_stream.go, task_log_uploader.go): faithful in every state,
\* and both ends come to rest.
LogsAreFaithfulAndEnd == []LogIsFaithful /\ LogsEnd
=============================================================================
