---------------------------- MODULE DockerQueries ----------------------------
(***************************************************************************)
(* Questions of a user to a node's Docker.  A handler of the controller     *)
(* enqueues a query in the dockerQueryBroker and waits for its result; the  *)
(* agent fetches queries by long polling, one at a time, executes them and  *)
(* reports.  The broker's mutex makes each of its operations one step; the  *)
(* steps of callers, polls and the agent interleave between them.           *)
(*                                                                         *)
(* One node: the broker keeps a queue per node and an agent reads its own.  *)
(* Time is kept as the age of each query.  A poll the agent has given up    *)
(* may still be served, and what it fetches is lost.                        *)
(***************************************************************************)
EXTENDS Naturals, Sequences, FiniteSets, SequencesExt

CONSTANTS
  Queries,       \* queries of the run
  QueryKind,     \* the kind of each query
  QueryTimeout,  \* its Timeout, 0 for none
  MaxWait, CleanupGrace, TimeoutMargin,  \* dockerQueryMaxWait, ..., 5 seconds
  MaxLostPolls,  \* bound: polls given up by the agent
  MaxLostReports \* bound: reports that do not arrive

VARIABLES
  caller,      \* the handler of each query
  answer,      \* what it returned
  queryAge,    \* time since Enqueue
  pendingQueue, assignedQueries, storedResults,   \* the broker
  resultSignal,  \* the buffered channel of each result subscriber
  poll,        \* the server's poll handlers: the current one and a late one
  worker,      \* pollAndRunDockerQuery of the agent
  executions,  \* history: how often each query ran
  lostPolls, lostReports

queryVars == <<caller, answer, queryAge, pendingQueue, assignedQueries, storedResults,
               resultSignal, poll, worker, executions, lostPolls, lostReports>>

Kinds == {"list", "inspect", "logs", "exec"}
Codes == {"not_found", "canceled", "internal"}

ASSUME QueryAssumption ==
  /\ QueryKind \in [Queries -> Kinds]
  /\ QueryTimeout \in [Queries -> Nat]
  /\ {MaxWait, CleanupGrace, TimeoutMargin, MaxLostPolls, MaxLostReports} \subseteq Nat
  /\ TimeoutMargin < CleanupGrace /\ 0 < MaxWait

Larger(a, b) == IF a < b THEN b ELSE a

NoField == ""
NoCode == ""

\* The result types of the protocol, by the kind of query, and the field of the
\* controller's payload each one fills.
PayloadField(k) ==
  CASE k = "list" -> "items" [] k = "inspect" -> "raw" [] k = "logs" -> "content" [] k = "exec" -> "exec"

\* applyDockerQueryResult and dockerQueryPayloadJSON, or the error's code: codes
\* the protocol does not know are internal.
ResultOf(q, outcome) ==
  IF outcome = "ok"
  THEN [field |-> PayloadField(QueryKind[q]), code |-> NoCode]
  ELSE [field |-> NoField, code |-> IF outcome = "canceled" THEN "internal" ELSE outcome]

DockerQueryTTL(q) == Larger(MaxWait + CleanupGrace,
                            IF QueryTimeout[q] > 0 THEN QueryTimeout[q] + CleanupGrace ELSE 0)
WaitTimeout(q) == Larger(MaxWait, IF QueryTimeout[q] > 0 THEN QueryTimeout[q] + TimeoutMargin ELSE 0)
IdleWorker == [at |-> "idle", query |-> CHOOSE q \in Queries : TRUE, result |-> [field |-> NoField, code |-> NoCode]]
NoResult == [field |-> NoField, code |-> "none"]
TimedOut == [field |-> NoField, code |-> "deadline"]

QueryInit ==
  /\ caller = [q \in Queries |-> "idle"] /\ answer = [q \in Queries |-> NoResult]
  /\ queryAge = [q \in Queries |-> 0]
  /\ pendingQueue = <<>> /\ assignedQueries = {}
  /\ storedResults = [q \in Queries |-> NoResult]
  /\ resultSignal = [q \in Queries |-> FALSE]
  /\ poll = [h \in {"current", "late"} |-> [at |-> "none", signal |-> FALSE]]
  /\ worker = IdleWorker /\ executions = [q \in Queries |-> 0]
  /\ lostPolls = 0 /\ lostReports = 0

-----------------------------------------------------------------------------
(* The broker *)

\* A queue is filtered in place: each entry that stays moves up to the place
\* that the number of entries kept before it gives.
Filtered(list, keep) ==
  LET kept == {i \in DOMAIN list : list[i] \in keep}
  IN  [n \in 1..Cardinality(kept) |->
         list[CHOOSE i \in kept : Cardinality({j \in kept : j < i}) = n - 1]]

\* sweepExpiredLocked, which every operation but Cancel performs first.
LivePending == Filtered(pendingQueue, {q \in Queries : queryAge[q] < DockerQueryTTL(q)})
LiveAssigned == {q \in assignedQueries : queryAge[q] < DockerQueryTTL(q)}
LiveResults == [q \in Queries |->
  IF queryAge[q] < DockerQueryTTL(q) + CleanupGrace THEN storedResults[q] ELSE NoResult]

Signalled == [h \in DOMAIN poll |-> [poll[h] EXCEPT !.signal = (poll[h].at # "none")]]

\* executeDockerAgentQuery up to WaitResult.
Enqueue(q) ==
  /\ caller[q] = "idle"
  /\ caller' = [caller EXCEPT ![q] = "enqueued"]
  /\ pendingQueue' = Append(LivePending, q)
  /\ assignedQueries' = LiveAssigned /\ storedResults' = LiveResults
  /\ poll' = Signalled
  /\ UNCHANGED <<answer, queryAge, resultSignal, worker, executions, lostPolls, lostReports>>

\* WaitResult subscribes before it looks for a result.
SubscribeResult(q) ==
  /\ caller[q] = "enqueued"
  /\ caller' = [caller EXCEPT ![q] = "look"]
  /\ UNCHANGED <<answer, queryAge, pendingQueue, assignedQueries, storedResults, resultSignal,
                 poll, worker, executions, lostPolls, lostReports>>

PopResult(q) ==
  /\ caller[q] = "look"
  /\ pendingQueue' = LivePending /\ assignedQueries' = LiveAssigned
  /\ storedResults' = [LiveResults EXCEPT ![q] = NoResult]
  /\ IF LiveResults[q] # NoResult
     THEN answer' = [answer EXCEPT ![q] = LiveResults[q]]
          /\ caller' = [caller EXCEPT ![q] = "returned"]
     ELSE caller' = [caller EXCEPT ![q] = "select"] /\ UNCHANGED answer
  /\ UNCHANGED <<queryAge, resultSignal, poll, worker, executions, lostPolls, lostReports>>

\* The caller starts its timer and blocks.
EnterSelect(q) ==
  /\ caller[q] = "select"
  /\ caller' = [caller EXCEPT ![q] = "wait"]
  /\ UNCHANGED <<answer, queryAge, pendingQueue, assignedQueries, storedResults, resultSignal,
                 poll, worker, executions, lostPolls, lostReports>>

WakeCaller(q) ==
  /\ caller[q] = "wait" /\ resultSignal[q]
  /\ resultSignal' = [resultSignal EXCEPT ![q] = FALSE]
  /\ caller' = [caller EXCEPT ![q] = "look"]
  /\ UNCHANGED <<answer, queryAge, pendingQueue, assignedQueries, storedResults, poll, worker,
                 executions, lostPolls, lostReports>>

Cancel(q) ==
  /\ pendingQueue' = Filtered(pendingQueue, Queries \ {q})
  /\ assignedQueries' = assignedQueries \ {q}
  /\ storedResults' = [storedResults EXCEPT ![q] = NoResult]

\* Mutant: WaitResult has no timer, only the caller's context ends the wait.
GiveUpWithoutTimer(q, canceled) ==
  /\ caller[q] = "wait" /\ canceled
  /\ Cancel(q)
  /\ caller' = [caller EXCEPT ![q] = "returned"]
  /\ answer' = [answer EXCEPT ![q] = TimedOut]
  /\ UNCHANGED <<queryAge, resultSignal, poll, worker, executions, lostPolls, lostReports>>

\* The timer of WaitResult, or the end of the caller's context; a select with
\* several ready channels may take either.
GiveUp(q, canceled) ==
  /\ caller[q] = "wait"
  /\ canceled \/ queryAge[q] >= WaitTimeout(q)
  /\ Cancel(q)
  /\ caller' = [caller EXCEPT ![q] = "returned"]
  /\ answer' = [answer EXCEPT ![q] = TimedOut]
  /\ UNCHANGED <<queryAge, resultSignal, poll, worker, executions, lostPolls, lostReports>>

-----------------------------------------------------------------------------
(* Long polling *)

StartPoll ==
  /\ worker.at = "idle" /\ poll["current"].at = "none"
  /\ poll' = [poll EXCEPT !["current"] = [at |-> "pull", signal |-> FALSE]]
  /\ UNCHANGED <<caller, answer, queryAge, pendingQueue, assignedQueries, storedResults,
                 resultSignal, worker, executions, lostPolls, lostReports>>

\* Pull of a poll: the head of the queue is assigned and sent.  The answer of
\* a late poll reaches nobody.
PullNextDockerQuery(h) ==
  /\ poll[h].at = "pull"
  /\ storedResults' = LiveResults
  /\ IF LivePending # <<>>
     THEN /\ pendingQueue' = Tail(LivePending)
          /\ assignedQueries' = LiveAssigned \cup {Head(LivePending)}
          /\ poll' = [poll EXCEPT ![h] = [at |-> "none", signal |-> FALSE]]
          /\ worker' = IF h = "current"
                       THEN [worker EXCEPT !.at = "run", !.query = Head(LivePending)] ELSE worker
     ELSE /\ pendingQueue' = <<>> /\ assignedQueries' = LiveAssigned
          /\ poll' = [poll EXCEPT ![h].at = "wait"]
          /\ UNCHANGED worker
  /\ UNCHANGED <<caller, answer, queryAge, resultSignal, executions, lostPolls, lostReports>>

\* A signal or the retry interval.
PollAgain(h) ==
  /\ poll[h].at = "wait"
  /\ poll' = [poll EXCEPT ![h] = [at |-> "pull", signal |-> FALSE]]
  /\ UNCHANGED <<caller, answer, queryAge, pendingQueue, assignedQueries, storedResults,
                 resultSignal, worker, executions, lostPolls, lostReports>>

\* The poll's deadline passes, or its context ends.
PollEnds(h) ==
  /\ poll[h].at = "wait"
  /\ poll' = [poll EXCEPT ![h] = [at |-> "none", signal |-> FALSE]]
  /\ UNCHANGED <<caller, answer, queryAge, pendingQueue, assignedQueries, storedResults,
                 resultSignal, worker, executions, lostPolls, lostReports>>

\* The agent loses its connection while the server still serves the poll.
LosePoll ==
  /\ poll["current"].at # "none" /\ poll["late"].at = "none" /\ lostPolls < MaxLostPolls
  /\ poll' = [current |-> [at |-> "none", signal |-> FALSE], late |-> poll["current"]]
  /\ lostPolls' = lostPolls + 1
  /\ UNCHANGED <<caller, answer, queryAge, pendingQueue, assignedQueries, storedResults,
                 resultSignal, worker, executions, lostReports>>

-----------------------------------------------------------------------------
(* The agent *)

\* executeDockerQuery under its own deadline.
ExecuteDockerQuery(outcome) ==
  /\ worker.at = "run"
  /\ executions' = [executions EXCEPT ![worker.query] = @ + 1]
  /\ worker' = [worker EXCEPT !.at = "report", !.result = ResultOf(worker.query, outcome)]
  /\ UNCHANGED <<caller, answer, queryAge, pendingQueue, assignedQueries, storedResults,
                 resultSignal, poll, lostPolls, lostReports>>

\* notifyResultLocked fills the channel of a subscriber.
NotifyResult(q) == caller[q] \in {"look", "select", "wait"}

\* StoreResult refuses a query that is not assigned to the node.
ReportDockerQueryResult ==
  /\ worker.at = "report"
  /\ pendingQueue' = LivePending
  /\ LET q == worker.query
         known == q \in LiveAssigned
     IN /\ assignedQueries' = LiveAssigned \ {q}
        /\ storedResults' = IF known THEN [LiveResults EXCEPT ![q] = worker.result] ELSE LiveResults
        /\ resultSignal' = [resultSignal EXCEPT ![q] =
                              @ \/ (known /\ NotifyResult(q))]
  /\ worker' = IdleWorker
  /\ UNCHANGED <<caller, answer, queryAge, poll, executions, lostPolls, lostReports>>

LoseReport ==
  /\ worker.at = "report" /\ lostReports < MaxLostReports
  /\ worker' = IdleWorker /\ lostReports' = lostReports + 1
  /\ UNCHANGED <<caller, answer, queryAge, pendingQueue, assignedQueries, storedResults,
                 resultSignal, poll, executions, lostPolls>>

\* Time passes for the queries somebody waits for (NothingLeftBehind: the
\* broker holds no others); a caller between two calls to the broker, or past
\* its deadline, acts first.
QueryTimePasses ==
  /\ \E q \in Queries : caller[q] = "wait"
  /\ \A q \in Queries : /\ caller[q] \notin {"enqueued", "look", "select"}
                        /\ caller[q] = "wait" => queryAge[q] < WaitTimeout(q)
  /\ queryAge' = [q \in Queries |->
       IF caller[q] = "wait" THEN queryAge[q] + 1 ELSE queryAge[q]]
  /\ UNCHANGED <<caller, answer, pendingQueue, assignedQueries, storedResults, resultSignal,
                 poll, worker, executions, lostPolls, lostReports>>

CallerStep(q) ==
  \/ Enqueue(q) \/ SubscribeResult(q) \/ PopResult(q) \/ EnterSelect(q) \/ WakeCaller(q)
  \/ \E canceled \in BOOLEAN : GiveUp(q, canceled)

QueryNext ==
  \/ \E q \in Queries : CallerStep(q)
  \/ \E h \in DOMAIN poll : PullNextDockerQuery(h) \/ PollAgain(h) \/ PollEnds(h)
  \/ StartPoll \/ LosePoll
  \/ \E outcome \in {"ok"} \cup Codes : ExecuteDockerQuery(outcome)
  \/ ReportDockerQueryResult \/ LoseReport
  \/ QueryTimePasses

QuerySpec == QueryInit /\ [][QueryNext]_queryVars

-----------------------------------------------------------------------------
(* Properties *)

QueryTypeOK ==
  /\ caller \in [Queries -> {"idle", "enqueued", "look", "select", "wait", "returned"}]
  /\ answer \in [Queries -> [field : {NoField, "items", "raw", "content", "exec"},
                             code : {NoCode, "none", "deadline", "not_found", "internal"}]]
  /\ \A q \in Queries : queryAge[q] \in 0..WaitTimeout(q)
  /\ IsInjective(pendingQueue) /\ Range(pendingQueue) \subseteq Queries
  /\ assignedQueries \subseteq Queries
  /\ storedResults \in [Queries -> [field : {NoField, "items", "raw", "content", "exec"},
                                    code : {NoCode, "none"} \cup Codes]]
  /\ worker.at \in {"idle", "run", "report"}
  /\ resultSignal \in [Queries -> BOOLEAN] /\ executions \in [Queries -> 0..1]

\* A handler that has returned, answered, timed out or canceled, leaves nothing
\* of its query in the broker, whatever the agent does with it later.
NothingLeftBehind ==
  \A q \in Queries : caller[q] = "returned" =>
    q \notin Range(pendingQueue) \cup assignedQueries /\ storedResults[q] = NoResult

\* While a handler waits the broker knows its query: the sweep of expired
\* entries never removes what somebody still waits for.
WaitedForIsKnown ==
  \A q \in Queries : caller[q] \in {"enqueued", "look", "select", "wait"} =>
    \/ \E i \in DOMAIN LivePending : LivePending[i] = q
    \/ q \in LiveAssigned \/ LiveResults[q] # NoResult

\* No wake-up is lost: a handler that waits while its result is stored, or a
\* poll that waits while queries are pending, has a signal in its channel.
NoLostWakeup ==
  /\ \A q \in Queries : caller[q] = "wait" /\ storedResults[q] # NoResult => resultSignal[q]
  /\ \A h \in DOMAIN poll : poll[h].at = "wait" /\ pendingQueue # <<>> => poll[h].signal

\* What a handler returns as data is the result of its own query, run exactly
\* once, in the field its decoder reads; an error of the agent stays an error.
AnswerIsOwn ==
  \A q \in Queries : caller[q] = "returned" /\ answer[q].code \notin {"none", "deadline"} =>
    /\ executions[q] = 1
    /\ answer[q].code = NoCode => answer[q].field = PayloadField(QueryKind[q])

\* The broker serves its callers: it keeps what they wait for and nothing
\* else, wakes them and gives each its own answer.
BrokerIsSound ==
  QueryTypeOK /\ NothingLeftBehind /\ WaitedForIsKnown /\ NoLostWakeup /\ AnswerIsOwn

\* Every handler returns, though polls and reports are lost.
CallersReturn == \A q \in Queries : caller[q] = "enqueued" ~> caller[q] = "returned"

\* The query broker (docker_query_broker.go) is sound in every state, and no
\* caller waits for ever.
BrokerServes == []BrokerIsSound /\ CallersReturn
=============================================================================
