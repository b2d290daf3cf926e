----------------------------- MODULE TaskQueue -----------------------------
(***************************************************************************)
(* The agent task queue of the server: the rows of agent_task_queue and    *)
(* every operation of TaskService and of the handlers and sweepers that    *)
(* writes them.                                                            *)
(*                                                                         *)
(* Each step is one SQL statement or one transaction, because that is what *)
(* Postgres makes atomic (READ COMMITTED); a handler that runs several     *)
(* statements is several steps, and the steps of concurrent requests       *)
(* interleave.  Time is not modelled: a sweep may find any row old enough. *)
(*                                                                         *)
(*   task      agent_task_queue, one record per row                        *)
(*   agent     the columns runtime_id, archived_at and status of agent     *)
(*   assignee, status, executed                                            *)
(*             the columns assignee_id, status and first_executed_at of    *)
(*             issue                                                       *)
(*   enq       requests on their way to an INSERT of a queued row          *)
(*   claim     ClaimTaskForRuntime calls in progress                       *)
(*   batch     FailTask and HandleFailedTasks calls in progress            *)
(*   archiving ArchiveAgent calls between their two statements             *)
(*   owed      agents whose status a request in progress has still to      *)
(*             refresh (ReconcileAgentStatus)                              *)
(*   refresh   refresh statements that have looked at the rows and not yet *)
(*             written the agent                                           *)
(*   doubtful  history: agents whose last refresh overlapped another one,  *)
(*             failed, or was not asked for                                *)
(*   delivered rows some claim response has carried to a daemon            *)
(*   crashes   how often the server process has died                       *)
(***************************************************************************)
EXTENDS Naturals, FiniteSets

CONSTANTS
  Agents, Runtimes,
  Issues,        \* issues; a row for one has issue_id set
  Chats,         \* chat sessions; a row for one has chat_session_id set
  QuickCreates,  \* at most one value: all links NULL, a prompt in context
  Runs,          \* autopilot runs; a row for one has autopilot_run_id set
  Orphan,        \* the link of an ended row whose chat session was deleted
  Blank,         \* the link of a retry of such a row: all links NULL
  None,          \* SQL NULL
  Enqueuers,     \* slots for concurrent enqueue requests
  Claimers,      \* slots for concurrent claim requests
  Sweeper,       \* the slot of the sweeper goroutine
  Reporters,     \* slots for concurrent fail requests
  Recoverers,    \* slots for concurrent recover-orphans requests
  Refreshers,    \* slots for concurrent refreshes of an agent's status
  Movable,       \* agents a user may move to another runtime
  Archivable,    \* agents a user may archive
  Revocable,     \* runtimes whose owner may leave the workspace
  SessionAgent,  \* the agent of a chat session
  Priority,      \* priority of the rows of a link
  MaxTasks,      \* bound: rows ever inserted
  MaxAttempts,   \* column max_attempts
  MaxConcurrent, \* column agent.max_concurrent_tasks
  MaxCrashes     \* bound: crashes of the server

TaskIds  == 1 .. MaxTasks
Links    == Issues \cup Chats \cup QuickCreates \cup Runs \cup {Orphan, Blank}
Handlers == {Sweeper} \cup Reporters \cup Recoverers

ASSUME BoundsAssumption ==
  /\ MaxTasks \in Nat /\ MaxAttempts \in Nat \ {0}
  /\ MaxConcurrent \in Nat \ {0} /\ MaxCrashes \in Nat
ASSUME PriorityAssumption == Priority \in [Links -> 0 .. 4]
ASSUME SessionAssumption == SessionAgent \in [Chats -> Agents]
ASSUME NoneAssumption == None \notin Agents \cup Runtimes \cup Links \cup TaskIds
ASSUME LinksAssumption ==
  /\ Issues \cap (Chats \cup QuickCreates \cup Runs \cup {Orphan, Blank}) = {}
  /\ (Chats \cup QuickCreates \cup Runs) \cap {Orphan, Blank} = {} /\ Orphan # Blank
  /\ Chats \cap Runs = {}
ASSUME HandlersAssumption == Sweeper \notin Reporters \cup Recoverers
ASSUME ClaimersAssumption == IsFiniteSet(Claimers)

VARIABLES task, agent, assignee, status, executed,
          enq, claim, batch, archiving, owed, refresh, doubtful, delivered, crashes

rows     == <<task, delivered>>
issues   == <<assignee, status, executed>>
requests == <<enq, claim, batch, archiving>>
refreshes == <<refresh, doubtful>>
vars     == <<rows, agent, issues, requests, owed, refreshes, crashes>>

Pending  == {"queued", "dispatched"}
Active   == {"dispatched", "running"}
Live     == {"queued", "dispatched", "running"}
Ended    == {"completed", "failed", "cancelled"}

(* Failure reasons by what MaybeRetryFailedTask makes of them: "infra" is  *)
(* runtime_offline, runtime_recovery or timeout, "other" any other reason. *)
Reasons == {"none", "infra", "other"}

NoRow == [status |-> "none", agent |-> None, runtime |-> None, link |-> None,
          attempt |-> 0, reason |-> "none", parent |-> None, started |-> FALSE]
RealRow == [status : Live \cup Ended, agent : Agents, runtime : Runtimes, link : Links,
            attempt : 1 .. MaxAttempts, reason : Reasons, parent : TaskIds \cup {None},
            started : BOOLEAN]
Row == {NoRow} \cup RealRow

(* HandleFailedTasks only asks whether an issue is in_progress; "todo"     *)
(* stands for every other status.                                          *)
IssueStatuses == {"todo", "in_progress"}

NoRequest == [pc |-> "idle", agent |-> None, runtime |-> None, link |-> None, wide |-> FALSE]
OpenRequest  == [pc : {"cancel", "check"}, agent : Agents, runtime : {None}, link : Links,
                 wide : BOOLEAN]
ReadyRequest == [pc : {"insert"}, agent : Agents, runtime : Runtimes, link : Links,
                 wide : BOOLEAN]
Requests == {NoRequest} \cup OpenRequest \cup ReadyRequest

NoClaim == [pc |-> "idle", runtime |-> None, cand |-> {}, agent |-> None, snap |-> {}]
LoopClaim  == [pc : {"count"}, runtime : Runtimes, cand : SUBSET TaskIds, agent : {None},
               snap : {{}}]
AgentClaim == [pc : {"snapshot", "update"}, runtime : Runtimes, cand : SUBSET TaskIds,
               agent : Agents, snap : SUBSET TaskIds]
Claims == {NoClaim} \cup LoopClaim \cup AgentClaim

Batches == [kind : {"idle", "report", "sweep"}, pc : {"retry", "check", "active", "reset"},
            rows : SUBSET TaskIds, cur : TaskIds \cup {None},
            retried : SUBSET Issues, processed : SUBSET Issues, agents : SUBSET Agents]
NoBatch == [kind |-> "idle", pc |-> "retry", rows |-> {}, cur |-> None,
            retried |-> {}, processed |-> {}, agents |-> {}]

(* What a refresh in hand will write. *)
NoRefresh == [agent |-> None, status |-> "idle"]
Refreshes == {NoRefresh} \cup [agent : Agents, status : {"idle", "working"}]

TypeOK ==
  /\ task \in [TaskIds -> Row]
  /\ agent \in [Agents -> [runtime : Runtimes, archived : BOOLEAN, status : {"idle", "working"}]]
  /\ assignee \in [Issues -> Agents]
  /\ status \in [Issues -> IssueStatuses]
  /\ executed \subseteq Issues
  /\ enq \in [Enqueuers -> Requests]
  /\ claim \in [Claimers -> Claims]
  /\ batch \in [Handlers -> Batches]
  /\ archiving \subseteq Agents
  /\ owed \subseteq Agents
  /\ refresh \in [Refreshers -> Refreshes]
  /\ doubtful \subseteq Agents
  /\ delivered \subseteq TaskIds
  /\ crashes \in 0 .. MaxCrashes

Init ==
  /\ task = [k \in TaskIds |-> NoRow]
  /\ agent \in [Agents -> [runtime : Runtimes, archived : {FALSE}, status : {"idle"}]]
  /\ assignee \in [Issues -> Agents]
  /\ status = [i \in Issues |-> "todo"]
  /\ executed = {}
  /\ enq = [e \in Enqueuers |-> NoRequest]
  /\ claim = [c \in Claimers |-> NoClaim]
  /\ batch = [h \in Handlers |-> NoBatch]
  /\ archiving = {} /\ owed = {} /\ delivered = {}
  /\ refresh = [f \in Refreshers |-> NoRefresh] /\ doubtful = {}
  /\ crashes = 0

-----------------------------------------------------------------------------
(* Rows *)

In(set) == {k \in TaskIds : task[k].status \in set}

(* A faulty index: queued rows only. *)
ConflictQueuedOnly(a, l) ==
  l \in Issues /\ \E j \in In({"queued"}) : task[j].agent = a /\ task[j].link = l

(* The partial unique index on (issue_id, agent_id) of queued and          *)
(* dispatched rows refuses the insert.                                     *)
Conflict(a, l) ==
  l \in Issues /\ \E j \in In(Pending) : task[j].agent = a /\ task[j].link = l

(* Rows are numbered in the order they are inserted, so the number stands  *)
(* for created_at.                                                         *)
Fresh(k) == task[k].status = "none" /\ \A j \in 1 .. k - 1 : task[j].status # "none"

Full == In({"none"}) = {}

QueuedRow(a, rt, l, attempt, parent) ==
  [status |-> "queued", agent |-> a, runtime |-> rt, link |-> l, attempt |-> attempt,
   reason |-> "none", parent |-> parent, started |-> FALSE]

(* ORDER BY priority DESC, created_at ASC *)
Before(j, k) ==
  \/ Priority[task[j].link] > Priority[task[k].link]
  \/ Priority[task[j].link] = Priority[task[k].link] /\ j < k

HasActive(a) == \E k \in In(Active) : task[k].agent = a

Cancelled(S) ==
  [k \in TaskIds |-> IF k \in S /\ task[k].status \in Live
                     THEN [task[k] EXCEPT !.status = "cancelled"] ELSE task[k]]

Failed(S, reason) ==
  [k \in TaskIds |-> IF k \in S
                     THEN [task[k] EXCEPT !.status = "failed", !.reason = reason] ELSE task[k]]

AgentsOf(S) == {task[k].agent : k \in S}

(* A faulty cancel, whose caller refreshes no agent. *)
CancelRowsUnreconciled(S) == task' = Cancelled(S) /\ owed' = owed

(* A cancel statement over the rows S, and the refreshes its caller owes.  *)
CancelRows(S) ==
  /\ task' = Cancelled(S)
  /\ owed' = owed \cup AgentsOf(S \cap In(Live))

-----------------------------------------------------------------------------
(* Enqueue: a request reads the agent, then inserts a queued row.  Rerun   *)
(* and reassignment first cancel what is live on the issue.                *)

(* EnqueueTaskForIssue for the assignee, EnqueueTaskForMention for any     *)
(* other agent, EnqueueChatTask, EnqueueQuickCreateTask, dispatchRunOnly.  *)
Request(e, a, l) ==
  /\ enq[e].pc = "idle" /\ ~Full /\ l \notin {Orphan, Blank}
  /\ l \in Chats => a = SessionAgent[l]
  /\ l \in Runs => /\ \A k \in TaskIds : task[k].link # l
                   /\ \A f \in Enqueuers : enq[f].link # l
  /\ enq' = [enq EXCEPT ![e] = [NoRequest EXCEPT !.pc = "check", !.agent = a, !.link = l]]
  /\ UNCHANGED <<rows, agent, issues, claim, batch, archiving, owed, refreshes, crashes>>

(* RerunIssue: the assignee is read before anything is cancelled. *)
Rerun(e, i) ==
  /\ enq[e].pc = "idle" /\ ~Full
  /\ enq' = [enq EXCEPT ![e] = [NoRequest EXCEPT !.pc = "cancel", !.agent = assignee[i],
                                                 !.link = i]]
  /\ UNCHANGED <<rows, agent, issues, claim, batch, archiving, owed, refreshes, crashes>>

(* UpdateIssue with another assignee: all tasks of the issue go, not only  *)
(* those of the former assignee.                                           *)
Reassign(e, i, a) ==
  /\ enq[e].pc = "idle" /\ ~Full /\ assignee[i] # a
  /\ assignee' = [assignee EXCEPT ![i] = a]
  /\ enq' = [enq EXCEPT ![e] = [NoRequest EXCEPT !.pc = "cancel", !.agent = a,
                                                 !.link = i, !.wide = TRUE]]
  /\ UNCHANGED <<rows, agent, status, executed, claim, batch, archiving, owed, refreshes, crashes>>

EnqueueCancel(e) ==
  /\ enq[e].pc = "cancel"
  /\ CancelRows({k \in TaskIds : /\ task[k].link = enq[e].link
                                 /\ enq[e].wide \/ task[k].agent = enq[e].agent})
  /\ enq' = [enq EXCEPT ![e].pc = "check"]
  /\ UNCHANGED <<delivered, agent, issues, claim, batch, archiving, refreshes, crashes>>

EnqueueCheck(e) ==
  LET a == enq[e].agent
  IN  /\ enq[e].pc = "check"
      /\ enq' = [enq EXCEPT ![e] = IF agent[a].archived THEN NoRequest
                                   ELSE [@ EXCEPT !.pc = "insert",
                                                  !.runtime = agent[a].runtime]]
      /\ UNCHANGED <<rows, agent, issues, claim, batch, archiving, owed, refreshes, crashes>>

EnqueueInsert(e) ==
  LET r == enq[e]
  IN  /\ r.pc = "insert"
      /\ IF Conflict(r.agent, r.link) \/ Full
         THEN UNCHANGED task
         ELSE \E k \in TaskIds :
                /\ Fresh(k)
                /\ task' = [task EXCEPT ![k] = QueuedRow(r.agent, r.runtime, r.link, 1, None)]
      /\ enq' = [enq EXCEPT ![e] = NoRequest]
      /\ UNCHANGED <<delivered, agent, issues, claim, batch, archiving, owed, refreshes, crashes>>

-----------------------------------------------------------------------------
(* Claim: list the runtime's candidates, then for each of their agents     *)
(* count what it runs and let one UPDATE pick a row.                       *)

(* Two rows are in one lane when ClaimAgentTask serializes them. *)
SameLane(j, k) ==
  /\ task[j].agent = task[k].agent
  /\ \/ task[j].link = task[k].link /\ task[j].link \notin Runs
     \/ {task[j].link, task[k].link} \subseteq QuickCreates \cup {Blank}

(* A faulty claim, without NOT EXISTS. *)
ClaimableInAnyLane(k) == task[k].status = "queued"

Claimable(k) ==
  /\ task[k].status = "queued"
  /\ \A j \in In(Active) : ~SameLane(j, k)

IsFirst(k, S) == k \in S /\ \A j \in S \ {k} : Before(k, j)

(* The loop goes on with the next agent, or ends with an empty response.   *)
NextAgent(c, a) ==
  LET left == {k \in claim[c].cand : task[k].agent # a}
  IN  IF left = {} THEN NoClaim
      ELSE [NoClaim EXCEPT !.pc = "count", !.runtime = claim[c].runtime, !.cand = left]

ClaimList(c, rt) ==
  LET cand == {k \in In({"queued"}) : task[k].runtime = rt}
  IN  /\ claim[c].pc = "idle" /\ cand # {}
      /\ claim' = [claim EXCEPT ![c] = [NoClaim EXCEPT !.pc = "count", !.runtime = rt,
                                                       !.cand = cand]]
      /\ UNCHANGED <<rows, agent, issues, enq, batch, archiving, owed, refreshes, crashes>>

(* A faulty capacity check, blind to rows that are dispatched only. *)
HasCapacityOfRunning(a) ==
  Cardinality({k \in In({"running"}) : task[k].agent = a}) < MaxConcurrent

HasCapacity(a) == Cardinality({k \in In(Active) : task[k].agent = a}) < MaxConcurrent

ClaimCount(c) ==
  /\ claim[c].pc = "count"
  /\ \E f \in TaskIds :
       LET a == task[f].agent
       IN  /\ IsFirst(f, claim[c].cand)
           /\ claim' = [claim EXCEPT ![c] =
                IF HasCapacity(a) THEN [@ EXCEPT !.pc = "snapshot", !.agent = a]
                ELSE NextAgent(c, a)]
  /\ UNCHANGED <<rows, agent, issues, enq, batch, archiving, owed, refreshes, crashes>>

(* ClaimAgentTask takes its snapshot of the table.  NOT EXISTS is judged   *)
(* in the snapshot; only the row to be updated is looked at again.         *)
ClaimSnapshot(c) ==
  LET a == claim[c].agent
  IN  /\ claim[c].pc = "snapshot"
      /\ claim' = [claim EXCEPT ![c].pc = "update",
                                ![c].snap = {k \in TaskIds : task[k].agent = a /\ Claimable(k)}]
      /\ UNCHANGED <<rows, agent, issues, enq, batch, archiving, owed, refreshes, crashes>>

(* FOR UPDATE SKIP LOCKED passes over rows that another transaction has    *)
(* locked or changed since the snapshot; the first one left is dispatched. *)
Hits(c) == {k \in claim[c].snap : task[k].status = "queued"}

(* The row goes into the response when it is a row of the polling runtime. *)
Mine(c, k) == task[k].runtime = claim[c].runtime

ClaimUpdate(c, k) ==
  /\ claim[c].pc = "update" /\ IsFirst(k, Hits(c))
  /\ task' = [task EXCEPT ![k].status = "dispatched"]
  /\ owed' = owed \cup {claim[c].agent}
  /\ claim' = [claim EXCEPT ![c] = IF Mine(c, k) THEN NoClaim ELSE NextAgent(c, claim[c].agent)]
  /\ delivered' = IF Mine(c, k) THEN delivered \cup {k} ELSE delivered
  /\ UNCHANGED <<agent, issues, enq, batch, archiving, refreshes, crashes>>

ClaimNothing(c) ==
  /\ claim[c].pc = "update" /\ Hits(c) = {}
  /\ claim' = [claim EXCEPT ![c] = NextAgent(c, claim[c].agent)]
  /\ UNCHANGED <<rows, agent, issues, enq, batch, archiving, owed, refreshes, crashes>>

-----------------------------------------------------------------------------
(* Reports of the daemon, for tasks it has been handed *)

StartTask(k) ==
  /\ k \in delivered /\ task[k].status = "dispatched"
  /\ task' = [task EXCEPT ![k].status = "running", ![k].started = TRUE]
  /\ UNCHANGED <<delivered, agent, issues, requests, owed, refreshes, crashes>>

(* A report on a row that is not running changes nothing and is answered   *)
(* as a success, so the handler still marks the issue as executed.         *)
CompleteTask(k) ==
  LET running == task[k].status = "running"
  IN  /\ k \in delivered /\ task[k].started
      /\ task' = IF running THEN [task EXCEPT ![k].status = "completed"] ELSE task
      /\ owed' = IF running THEN owed \cup {task[k].agent} ELSE owed
      /\ executed' = executed \cup ({task[k].link} \cap Issues)
      /\ UNCHANGED <<delivered, agent, assignee, status, requests, refreshes, crashes>>

FailTask(h, k, reason) ==
  /\ batch[h].kind = "idle"
  /\ k \in delivered /\ task[k].status \in Active
  /\ task' = Failed({k}, reason)
  /\ batch' = [batch EXCEPT ![h] = [NoBatch EXCEPT !.kind = "report", !.rows = {k}]]
  /\ UNCHANGED <<delivered, agent, issues, enq, claim, archiving, owed, refreshes, crashes>>

(* An agent through the CLI, or a user, writes the issue's status. *)
UpdateIssueStatus(i, s) ==
  /\ status[i] # s
  /\ status' = [status EXCEPT ![i] = s]
  /\ UNCHANGED <<rows, agent, assignee, executed, requests, owed, refreshes, crashes>>
-----------------------------------------------------------------------------
(* Sweeps and orphan recovery fail rows in bulk; the rows returned by the  *)
(* statement are handed to HandleFailedTasks.                              *)

Sweep(h, S, reason) ==
  /\ batch[h].kind = "idle" /\ S # {}
  /\ task' = Failed(S, reason)
  /\ batch' = [batch EXCEPT ![h] = [NoBatch EXCEPT !.kind = "sweep", !.rows = S]]
  /\ UNCHANGED <<delivered, agent, issues, enq, claim, archiving, owed, refreshes, crashes>>

(* A faulty sweep, blind to rows that were never started. *)
SweepRunning(S) == S \subseteq In({"running"}) /\ Sweep(Sweeper, S, "infra")

(* FailStaleTasks: the rows past their dispatch or run timeout. *)
SweepStale(S) == S \subseteq In(Active) /\ Sweep(Sweeper, S, "infra")

(* FailTasksForOfflineRuntimes *)
SweepOffline(off) == Sweep(Sweeper, {k \in In(Active) : task[k].runtime \in off}, "infra")

(* ExpireStaleQueuedTasks; the apply-time check of status is this guard.   *)
SweepQueued(S) == S \subseteq In({"queued"}) /\ Sweep(Sweeper, S, "other")

(* RecoverOrphanedTasksForRuntime, called by a daemon that starts. *)
RecoverOrphans(h, rt) ==
  Sweep(h, {k \in In(Active) : task[k].runtime = rt}, "infra")

(* Faulty budgets: none at all, and one attempt short. *)
RetryableForever(k) ==
  /\ task[k].status = "failed" /\ task[k].reason = "infra"
  /\ task[k].link \in Issues \cup Chats \cup {Orphan}

RetryableOneShort(k) ==
  /\ task[k].status = "failed" /\ task[k].reason = "infra"
  /\ task[k].attempt + 1 < MaxAttempts
  /\ task[k].link \in Issues \cup Chats \cup {Orphan}

(* MaybeRetryFailedTask looks at the row as the statement that failed it   *)
(* has returned it: a row that has lost its session since still has one.   *)
Retryable(k) ==
  /\ task[k].status = "failed" /\ task[k].reason = "infra"
  /\ task[k].attempt < MaxAttempts
  /\ task[k].link \in Issues \cup Chats \cup {Orphan}

(* CreateRetryTask clones the row as it is now, with the agent and runtime *)
(* it was queued for; the unique index may refuse the clone.               *)
RetryLink(p) == IF task[p].link = Orphan THEN Blank ELSE task[p].link

RetryRow(p, k) ==
  /\ Fresh(k)
  /\ task' = [task EXCEPT ![k] = QueuedRow(task[p].agent, task[p].runtime, RetryLink(p),
                                           task[p].attempt + 1, p)]

(* A faulty loop, which comes back to the row. *)
DoneAgain(b) == [b EXCEPT !.pc = "retry", !.cur = None]

(* The row has been dealt with. *)
Done(b) == [b EXCEPT !.pc = "retry", !.rows = @ \ {b.cur}, !.cur = None]

HandleRetry(h, p) ==
  LET retry == Retryable(p) /\ ~Conflict(task[p].agent, RetryLink(p)) /\ ~Full
      l     == task[p].link
      b     == [batch[h] EXCEPT !.cur = p, !.agents = @ \cup {task[p].agent},
                                !.retried = IF retry /\ l \in Issues THEN @ \cup {l} ELSE @]
      checks == b.kind = "sweep" /\ l \in Issues
  IN  /\ batch[h].kind # "idle" /\ batch[h].pc = "retry" /\ p \in batch[h].rows
      /\ IF retry THEN \E k \in TaskIds : RetryRow(p, k) ELSE UNCHANGED task
      /\ batch' = [batch EXCEPT ![h] = IF checks THEN [b EXCEPT !.pc = "check"] ELSE Done(b)]
      /\ UNCHANGED <<delivered, agent, issues, enq, claim, archiving, owed, refreshes, crashes>>

(* A faulty check, which skips the issues it should look at. *)
StuckIfRetried(h) == status[task[batch[h].cur].link] = "in_progress"
                     /\ task[batch[h].cur].link \in batch[h].retried

(* HandleFailedTasks looks at an in_progress issue once per batch and not  *)
(* at all when the batch has retried a task of it.                         *)
Stuck(h) ==
  LET b == batch[h]
      i == task[b.cur].link
  IN  status[i] = "in_progress" /\ i \notin b.processed \cup b.retried

HandleCheck(h) ==
  LET b == batch[h]
  IN  /\ b.kind # "idle" /\ b.pc = "check"
      /\ batch' = [batch EXCEPT ![h] =
           IF Stuck(h) THEN [b EXCEPT !.processed = @ \cup {task[b.cur].link}, !.pc = "active"]
           ELSE Done(b)]
      /\ UNCHANGED <<rows, agent, issues, enq, claim, archiving, owed, refreshes, crashes>>

(* HasActiveTaskForIssue *)
HandleActive(h) ==
  LET b    == batch[h]
      live == \E k \in In(Live) : task[k].link = task[b.cur].link
  IN  /\ b.kind # "idle" /\ b.pc = "active"
      /\ batch' = [batch EXCEPT ![h] = IF live THEN Done(b) ELSE [b EXCEPT !.pc = "reset"]]
      /\ UNCHANGED <<rows, agent, issues, enq, claim, archiving, owed, refreshes, crashes>>

(* The issue goes back to todo whatever its status has become meanwhile.   *)
HandleReset(h) ==
  LET b == batch[h]
  IN  /\ b.kind # "idle" /\ b.pc = "reset"
      /\ status' = [status EXCEPT ![task[b.cur].link] = "todo"]
      /\ batch' = [batch EXCEPT ![h] = Done(b)]
      /\ UNCHANGED <<rows, agent, assignee, executed, enq, claim, archiving, owed, refreshes,
                     crashes>>

HandleDone(h) ==
  /\ batch[h].kind # "idle" /\ batch[h].pc = "retry" /\ batch[h].rows = {}
  /\ owed' = owed \cup batch[h].agents
  /\ batch' = [batch EXCEPT ![h] = NoBatch]
  /\ UNCHANGED <<rows, agent, issues, enq, claim, archiving, refreshes, crashes>>

-----------------------------------------------------------------------------
(* Cancels *)

CancelTask(k) ==
  /\ task[k].status \in Live /\ CancelRows({k})
  /\ UNCHANGED <<delivered, agent, issues, requests, refreshes, crashes>>

(* Issue set to cancelled. *)
CancelTasksForIssue(i) ==
  LET S == {k \in In(Live) : task[k].link = i}
  IN  /\ S # {} /\ CancelRows(S)
      /\ UNCHANGED <<delivered, agent, issues, requests, refreshes, crashes>>

CancelTasksForAgent(a) ==
  LET S == {k \in In(Live) : task[k].agent = a}
  IN  /\ S # {} /\ CancelRows(S)
      /\ UNCHANGED <<delivered, agent, issues, requests, refreshes, crashes>>

(* One transaction: the foreign key sets the link of the session's rows to *)
(* NULL, and an INSERT that waits for the lock fails.  A later session may *)
(* be called s again.                                                      *)
DeleteChatSession(s) ==
  LET S == {k \in TaskIds : task[k].link = s}
  IN  /\ S # {} \/ \E e \in Enqueuers : enq[e].link = s
      /\ task' = [k \in TaskIds |-> IF k \in S THEN [Cancelled(S)[k] EXCEPT !.link = Orphan]
                                    ELSE task[k]]
      /\ owed' = owed \cup AgentsOf(S \cap In(Live))
      /\ enq' = [e \in Enqueuers |-> IF enq[e].link = s THEN NoRequest ELSE enq[e]]
      /\ UNCHANGED <<delivered, agent, issues, claim, batch, archiving, refreshes, crashes>>

(* CancelTasksByTriggerComment: one comment triggers at most one live row  *)
(* per agent it mentions.                                                  *)
DeleteComment(i, S) ==
  /\ S # {} /\ S \subseteq {k \in In(Live) : task[k].link = i}
  /\ \A j, k \in S : j # k => task[j].agent # task[k].agent
  /\ CancelRows(S)
  /\ UNCHANGED <<delivered, agent, issues, requests, refreshes, crashes>>

-----------------------------------------------------------------------------
(* Agents *)

(* Agents that a request in progress has still to refresh: those owed a    *)
(* refresh now, and those whose rows a handler of failures is working on.  *)
Refreshing == owed \cup UNION {batch[h].agents \cup AgentsOf(batch[h].rows) : h \in Handlers}

(* ReconcileAgentStatus: an UPDATE that derives the status from the rows.  *)
(* It judges EXISTS in its snapshot and may have to wait for the lock of   *)
(* the agent's row: an older verdict may be written after a newer one.     *)
InHand(a) == {f \in Refreshers : refresh[f].agent = a}

ReconcileRead(f, a) ==
  /\ refresh[f] = NoRefresh /\ a \in owed
  /\ owed' = owed \ {a}
  /\ refresh' = [refresh EXCEPT ![f] = [agent |-> a,
                    status |-> IF HasActive(a) THEN "working" ELSE "idle"]]
  /\ doubtful' = IF InHand(a) = {} THEN doubtful \ {a} ELSE doubtful \cup {a}
  /\ UNCHANGED <<rows, agent, issues, requests, crashes>>

ReconcileWrite(f) ==
  /\ refresh[f] # NoRefresh
  /\ agent' = [agent EXCEPT ![refresh[f].agent].status = refresh[f].status]
  /\ refresh' = [refresh EXCEPT ![f] = NoRefresh]
  /\ UNCHANGED <<rows, issues, requests, owed, doubtful, crashes>>

(* The statement fails, or its request is given up: nobody tries again.    *)
ReconcileFails(f) ==
  /\ refresh[f] # NoRefresh
  /\ refresh' = [refresh EXCEPT ![f] = NoRefresh]
  /\ doubtful' = doubtful \cup {refresh[f].agent}
  /\ UNCHANGED <<rows, agent, issues, requests, owed, crashes>>

(* UpdateAgent: rows that exist keep the runtime they were queued for.     *)
MoveAgent(a, rt) ==
  /\ a \in Movable /\ agent[a].runtime # rt
  /\ agent' = [agent EXCEPT ![a].runtime = rt]
  /\ UNCHANGED <<rows, issues, requests, owed, refreshes, crashes>>

ArchiveAgent(a) ==
  /\ a \in Archivable /\ ~agent[a].archived
  /\ agent' = [agent EXCEPT ![a].archived = TRUE]
  /\ archiving' = archiving \cup {a}
  /\ UNCHANGED <<rows, issues, enq, claim, batch, owed, refreshes, crashes>>

(* The cancelled rows are only counted for analytics; no refresh follows.  *)
ArchiveCancel(a) ==
  /\ a \in archiving
  /\ archiving' = archiving \ {a}
  /\ task' = Cancelled({k \in TaskIds : task[k].agent = a})
  /\ doubtful' = IF HasActive(a) THEN doubtful \cup {a} ELSE doubtful
  /\ UNCHANGED <<delivered, agent, issues, enq, claim, batch, owed, refresh, crashes>>

RestoreAgent(a) ==
  /\ agent[a].archived
  /\ agent' = [agent EXCEPT ![a].archived = FALSE]
  /\ UNCHANGED <<rows, issues, requests, owed, refreshes, crashes>>

(* revokeAndRemoveMember, one transaction: the agents on the leaving       *)
(* member's runtimes are archived, and rows of those runtimes or of those  *)
(* agents are cancelled.                                                   *)
RevokeMember(rts) ==
  LET gone == {a \in Agents : agent[a].runtime \in rts /\ ~agent[a].archived}
      S    == {k \in In(Live) : task[k].runtime \in rts \/ task[k].agent \in gone}
  IN  /\ rts \subseteq Revocable
      /\ gone # {} \/ S # {}
      /\ agent' = [a \in Agents |-> IF a \in gone THEN [agent[a] EXCEPT !.archived = TRUE]
                                    ELSE agent[a]]
      /\ CancelRows(S)
      /\ UNCHANGED <<delivered, issues, requests, refreshes, crashes>>

(* The server dies: every request in progress ends where it was. *)
Crash ==
  /\ crashes < MaxCrashes
  /\ crashes' = crashes + 1
  /\ enq' = [e \in Enqueuers |-> NoRequest]
  /\ claim' = [c \in Claimers |-> NoClaim]
  /\ batch' = [h \in Handlers |-> NoBatch]
  /\ archiving' = {} /\ owed' = {}
  /\ refresh' = [f \in Refreshers |-> NoRefresh]
  /\ doubtful' = doubtful \cup Refreshing \cup {a \in Agents : InHand(a) # {}}
  /\ UNCHANGED <<rows, agent, issues>>

-----------------------------------------------------------------------------
EnqueueNext ==
  \E e \in Enqueuers :
    \/ \E a \in Agents, l \in Links : Request(e, a, l)
    \/ \E i \in Issues : Rerun(e, i)
    \/ \E i \in Issues, a \in Agents : Reassign(e, i, a)
    \/ EnqueueCancel(e) \/ EnqueueCheck(e) \/ EnqueueInsert(e)

ClaimNext ==
  \E c \in Claimers :
    \/ \E rt \in Runtimes : ClaimList(c, rt)
    \/ ClaimCount(c) \/ ClaimSnapshot(c) \/ ClaimNothing(c)
    \/ \E k \in TaskIds : ClaimUpdate(c, k)

ReportNext ==
  \/ \E k \in TaskIds : StartTask(k) \/ CompleteTask(k)
  \/ \E h \in Reporters, k \in TaskIds, reason \in {"infra", "other"} : FailTask(h, k, reason)
  \/ \E i \in Issues, s \in IssueStatuses : UpdateIssueStatus(i, s)

SweepNext ==
  \/ \E S \in SUBSET In(Active) : SweepStale(S)
  \/ \E off \in SUBSET Runtimes : SweepOffline(off)
  \/ \E S \in SUBSET In({"queued"}) : SweepQueued(S)
  \/ \E h \in Recoverers, rt \in Runtimes : RecoverOrphans(h, rt)

HandleNext ==
  \E h \in Handlers :
    \/ \E p \in TaskIds : HandleRetry(h, p)
    \/ HandleCheck(h) \/ HandleActive(h) \/ HandleReset(h) \/ HandleDone(h)

CancelNext ==
  \/ \E k \in TaskIds : CancelTask(k)
  \/ \E i \in Issues : CancelTasksForIssue(i) \/ \E S \in SUBSET In(Live) : DeleteComment(i, S)
  \/ \E a \in Agents : CancelTasksForAgent(a)
  \/ \E s \in Chats : DeleteChatSession(s)

AgentNext ==
  \/ \E f \in Refreshers, a \in Agents : ReconcileRead(f, a)
  \/ \E f \in Refreshers : ReconcileWrite(f) \/ ReconcileFails(f)
  \/ \E a \in Agents : ArchiveAgent(a) \/ ArchiveCancel(a) \/ RestoreAgent(a)
  \/ \E a \in Agents, rt \in Runtimes : MoveAgent(a, rt)
  \/ \E rts \in SUBSET Runtimes : RevokeMember(rts)

Next ==
  \/ EnqueueNext \/ ClaimNext \/ ReportNext \/ SweepNext
  \/ HandleNext \/ CancelNext \/ AgentNext \/ Crash

Spec == Init /\ [][Next]_vars

(* A request in progress runs to its end, and the sweeper ticks: a row     *)
(* that stays live is past its timeout at some tick.  Nothing is assumed   *)
(* of daemons, agents and users.                                           *)
Fairness ==
  /\ \A e \in Enqueuers :
       WF_vars(EnqueueCancel(e) \/ EnqueueCheck(e) \/ EnqueueInsert(e))
  /\ \A c \in Claimers :
       WF_vars(ClaimCount(c) \/ ClaimSnapshot(c) \/ ClaimNothing(c)
               \/ \E k \in TaskIds : ClaimUpdate(c, k))
  /\ \A h \in Handlers :
       WF_vars((\E p \in TaskIds : HandleRetry(h, p)) \/ HandleCheck(h) \/ HandleActive(h)
               \/ HandleReset(h) \/ HandleDone(h))
  /\ \A a \in Agents : WF_vars(\E f \in Refreshers : ReconcileRead(f, a))
  /\ \A f \in Refreshers : WF_vars(ReconcileWrite(f))
  /\ \A a \in Agents : WF_vars(ArchiveCancel(a))
  /\ \A k \in TaskIds :
       /\ WF_vars(\E S \in SUBSET In(Active) : k \in S /\ SweepStale(S))
       /\ WF_vars(\E S \in SUBSET In({"queued"}) : k \in S /\ SweepQueued(S))

FairSpec == Spec /\ Fairness

-----------------------------------------------------------------------------
(* Properties *)

(* An agent never works on an issue twice at a time, however claims,       *)
(* retries, sweeps, reruns and cancels interleave.  ClaimAgentTask judges  *)
(* NOT EXISTS in a snapshot that may be stale when it updates the row.     *)
IssueSerialized ==
  \A j, k \in In(Active) :
    j # k /\ task[j].link \in Issues
      => ~(task[j].agent = task[k].agent /\ task[j].link = task[k].link)

(* Why IssueSerialized holds.  The unique index keeps a second pending row  *)
(* out of a lane, so the lane of a queued row in a claim's snapshot cannot *)
(* become active behind the snapshot's back: only that row could do it.    *)
PendingUnique ==
  \A j, k \in In(Pending) :
    j # k /\ task[j].link \in Issues
      => ~(task[j].agent = task[k].agent /\ task[j].link = task[k].link)

SnapshotsHold ==
  \A c \in Claimers : claim[c].pc = "update" =>
    \A k \in claim[c].snap :
      /\ task[k].status # "none"
      /\ task[k].status = "queued" /\ task[k].link \in Issues
           => \A j \in In(Active) : ~SameLane(j, k)

IssueInv == PendingUnique /\ IssueSerialized /\ SnapshotsHold

(* Chat sessions and rows without a link are in lanes of the same NOT      *)
(* EXISTS, which no unique index protects: two claims with snapshots older *)
(* than either update both find the lane free.  The damage is bounded by   *)
(* the claims at work at once.  A lane's active rows, and the claims whose *)
(* snapshot still has a queued row of it, are never more than the claims   *)
(* there can be: with one claim at a time the lane is serial, whatever     *)
(* retries, deleted sessions, sweeps and crashes do.                       *)
LaneRows(a, l) ==
  LET Unlinked == QuickCreates \cup {Orphan, Blank}
  IN  {k \in TaskIds : /\ task[k].agent = a
                       /\ task[k].link = l \/ {l, task[k].link} \subseteq Unlinked}

Hopeful(a, l) ==
  {c \in Claimers : claim[c].pc = "update" /\ Hits(c) \cap LaneRows(a, l) # {}}

LanesBounded ==
  \A a \in Agents, l \in Links \ Runs :
    Cardinality(In(Active) \cap LaneRows(a, l)) + Cardinality(Hopeful(a, l))
      <= Cardinality(Claimers)

(* What the comment of ClaimAgentTask says of these lanes, which is true   *)
(* of one claim at a time only.                                            *)
UnindexedSerialized ==
  \A a \in Agents, l \in Links \ (Issues \cup Runs) :
    Cardinality(In(Active) \cap LaneRows(a, l)) <= 1

(* A failed row is retried at most once, and within its budget, although   *)
(* sweeper, orphan recovery and daemon may report the same failure.        *)
RetriedOnce ==
  \A k \in TaskIds : task[k].parent # None =>
    /\ task[task[k].parent].status = "failed"
    /\ task[k].attempt = task[task[k].parent].attempt + 1
    /\ \A j \in TaskIds \ {k} : task[j].parent # task[k].parent

(* The count of an agent's active rows and the update of a claim are two   *)
(* statements, so claims that count at the same time all find the last     *)
(* place free.  How far that goes: the rows an agent runs and the claims   *)
(* that have been let through for it are fewer than max_concurrent_tasks   *)
(* and the claims at work at once, so that it never exceeds its limit by   *)
(* as many rows as there are claims.                                       *)
ActiveOf(a) == {k \in In(Active) : task[k].agent = a}
LetThrough(a) == {c \in Claimers : claim[c].pc \in {"snapshot", "update"} /\ claim[c].agent = a}

CapacityBounded ==
  \A a \in Agents : Cardinality(ActiveOf(a)) + Cardinality(LetThrough(a))
                     < MaxConcurrent + Cardinality(Claimers)

(* What the comment of ClaimTask says, which is true of one claim at a     *)
(* time only: an agent runs at most max_concurrent_tasks.                  *)
CapacityRespected == \A a \in Agents : Cardinality(ActiveOf(a)) <= MaxConcurrent

(* Whoever makes a row active, or ends an active one, has the status of    *)
(* its agent refreshed: once no request in progress has still to do so, an *)
(* agent is shown as working exactly when it has a dispatched or running   *)
(* task.  Excepted are the agents of which the code itself loses sight,    *)
(* until they are refreshed again: two of their refreshes overlapped, one  *)
(* failed, their tasks were cancelled by an archive, which refreshes       *)
(* nothing, or the server died before the refresh.                         *)
StatusTruthful ==
  \A a \in Agents \ (Refreshing \cup doubtful) :
    InHand(a) = {} => (agent[a].status = "working" <=> HasActive(a))

(* Without the exception: what the comment of CancelTasksForIssue says of  *)
(* every path that cancels tasks.                                          *)
StatusSettles ==
  \A a \in Agents \ Refreshing :
    InHand(a) = {} => (agent[a].status = "working" <=> HasActive(a))

(* A dispatched row has been handed to the daemon of its runtime; a row    *)
(* that has not is nobody's work until the sweeper fails it.               *)
DispatchedIsDelivered == In(Active) \subseteq delivered

(* Every queued, dispatched or running row ends, whatever becomes of its   *)
(* daemon, of the response that carried it or of the request that made it. *)
EveryTaskEnds == \A k \in TaskIds : task[k].status \in Live ~> task[k].status \in Ended

(* Once the server has died for the last time: an infrastructure failure   *)
(* with budget left is followed by a new attempt or by a pending row of    *)
(* the same agent and issue that covers it.                                *)
InfraFailureRetried ==
  \A p \in TaskIds :
    /\ crashes = MaxCrashes /\ \E h \in Handlers : p \in batch[h].rows \ {batch[h].cur}
    /\ task[p].reason = "infra" /\ task[p].attempt < MaxAttempts
    /\ task[p].link \in Issues \cup Chats
    ~> \/ \E k \in TaskIds : task[k].parent = p
       \/ \E k \in In(Pending) : task[k].agent = task[p].agent /\ task[k].link = task[p].link
       \/ Full

(* Likewise: after a sweep or an orphan recovery has failed a task of an   *)
(* issue, and while that failure is being handled, the issue does not stay *)
(* in progress with nothing live on it.                                    *)
Deserted(i) == status[i] = "in_progress" /\ ~\E k \in In(Live) : task[k].link = i

Surfaced(h, i) ==
  /\ crashes = MaxCrashes /\ \E k \in batch[h].rows : task[k].link = i
  /\ i \notin batch[h].processed \cup batch[h].retried

SweptIssueReleased ==
  \A i \in Issues, h \in Handlers : batch[h].kind = "sweep" /\ Surfaced(h, i) ~> ~Deserted(i)

(* What the comment of HandleFailedTasks says of all callers that surface  *)
(* a task as failed, the daemon's report among them.                       *)
FailedIssueReleased == \A i \in Issues, h \in Handlers : Surfaced(h, i) ~> ~Deserted(i)

(* The lanes of issues, as the abstract specification sees them. *)
NoLane == <<None, None>>
st   == [k \in TaskIds |-> IF task[k].link \in Issues THEN task[k].status ELSE "none"]
lane == [k \in TaskIds |-> IF task[k].link \in Issues THEN <<task[k].agent, task[k].link>>
                           ELSE NoLane]
Abstract == INSTANCE SerialLanes WITH Rows <- TaskIds, Lanes <- Agents \X Issues

(* The queue implements serial lanes: a step of any operation is one step  *)
(* of the abstract specification or leaves the lanes of issues alone.      *)
ImplementsSerialLanes == Abstract!Spec

=============================================================================
