--------------------------- MODULE TaskQueueTypes ---------------------------
(* Type correctness of TaskQueue and what a step does to its rows, for     *)
(* every value of the constants.                                           *)
EXTENDS TaskQueue, TLAPS

(* The assumptions, for use as facts. *)
LEMMA Links0 == /\ None \notin Agents /\ None \notin Runtimes /\ None \notin Links
                /\ None \notin TaskIds
                /\ \A l \in Issues : l \in Links /\ l # None /\ l \notin Runs
BY NoneAssumption, LinksAssumption DEF Links

-----------------------------------------------------------------------------
(* Type correctness *)

(* What the rows a request holds on to have in common: they were inserted, *)
(* and the rows of a batch have failed.  TypeOK is inductive only with it. *)
RefsOK ==
  /\ \A c \in Claimers : \A k \in claim[c].cand \cup claim[c].snap : task[k].status # "none"
  /\ \A h \in Handlers :
       /\ batch[h].rows \subseteq In({"failed"})
       /\ batch[h].pc # "retry" =>
            batch[h].cur \in batch[h].rows /\ task[batch[h].cur].link \in Issues

TypeInv == TypeOK /\ RefsOK

(* A row that was inserted has its agent, its runtime and its link. *)
LEMMA RowOf ==
  ASSUME TypeOK, NEW k \in TaskIds
  PROVE  /\ task[k] \in Row
         /\ task[k].status \in {"none"} \cup Live \cup Ended
         /\ task[k].status # "none" =>
              /\ task[k] \in RealRow
              /\ task[k].agent \in Agents /\ task[k].runtime \in Runtimes
              /\ task[k].link \in Links /\ task[k].attempt \in 1 .. MaxAttempts
         /\ task[k].status = "none" => task[k] = NoRow
<1>1. task[k] = NoRow \/ task[k] \in RealRow
  BY DEF TypeOK, Row
<1>2. task[k] = NoRow => task[k].status = "none"
  BY DEF NoRow
<1>3. task[k] \in RealRow =>
        /\ task[k].status \in Live \cup Ended
        /\ task[k].agent \in Agents /\ task[k].runtime \in Runtimes
        /\ task[k].link \in Links /\ task[k].attempt \in 1 .. MaxAttempts
  BY DEF RealRow
<1>4. "none" \notin Live \cup Ended
  BY DEF Live, Ended
<1>5. QED
  BY <1>1, <1>2, <1>3, <1>4 DEF Row

LEMMA RowMoved ==
  ASSUME NEW r \in RealRow, NEW s \in Live \cup Ended, NEW reason \in Reasons
  PROVE  /\ [r EXCEPT !.status = s] \in Row
         /\ [r EXCEPT !.status = s, !.reason = reason] \in Row
         /\ [r EXCEPT !.status = s, !.started = TRUE] \in Row
BY DEF Row, RealRow

LEMMA CancelledType ==
  ASSUME TypeOK, NEW S
  PROVE  Cancelled(S) \in [TaskIds -> Row]
<1>1. /\ \A k \in TaskIds : task[k] \in Row
      /\ \A k \in TaskIds : task[k].status \in Live => task[k] \in RealRow
  BY RowOf DEF Live
<1>2. \A k \in TaskIds : task[k].status \in Live => [task[k] EXCEPT !.status = "cancelled"] \in Row
  BY <1>1, RowMoved DEF Live, Ended, Reasons
<1>3. QED
  BY <1>1, <1>2 DEF Cancelled

LEMMA FailedType ==
  ASSUME TypeOK, NEW S, S \subseteq In(Live), NEW reason \in Reasons
  PROVE  Failed(S, reason) \in [TaskIds -> Row]
<1>1. /\ \A k \in TaskIds : task[k] \in Row
      /\ \A k \in S : task[k] \in RealRow
  BY RowOf DEF Live, In
<1>2. \A k \in S : [task[k] EXCEPT !.status = "failed", !.reason = reason] \in Row
  BY <1>1, RowMoved DEF Live, Ended, In
<1>3. QED
  BY <1>1, <1>2 DEF Failed

LEMMA QueuedRowType ==
  ASSUME NEW a \in Agents, NEW rt \in Runtimes, NEW l \in Links,
         NEW n \in 1 .. MaxAttempts, NEW p \in TaskIds \cup {None}
  PROVE  QueuedRow(a, rt, l, n, p) \in Row
BY DEF QueuedRow, Row, RealRow, Live, Reasons

LEMMA AgentsOfLive ==
  ASSUME TypeOK, NEW S, S \subseteq TaskIds, \A k \in S : task[k].status # "none"
  PROVE  AgentsOf(S) \subseteq Agents
BY RowOf DEF AgentsOf

LEMMA CancelTypes ==
  ASSUME TypeOK, NEW S, CancelRows(S)
  PROVE  task' \in [TaskIds -> Row] /\ owed' \subseteq Agents
<1>1. AgentsOf(S \cap In(Live)) \subseteq Agents
  BY AgentsOfLive DEF In, Live
<1>2. QED
  BY <1>1, CancelledType DEF CancelRows, TypeOK

LEMMA NextAgentType ==
  ASSUME TypeOK, NEW c \in Claimers, claim[c].pc # "idle", NEW a
  PROVE  /\ NextAgent(c, a) \in Claims
         /\ NextAgent(c, a).cand \subseteq claim[c].cand
         /\ NextAgent(c, a).snap = {}
         /\ NextAgent(c, a).pc # "update"
<1>1. claim[c] \in Claims
  BY DEF TypeOK
<1>2. claim[c].runtime \in Runtimes /\ claim[c].cand \subseteq TaskIds
  BY <1>1 DEF Claims, NoClaim, LoopClaim, AgentClaim
<1>3. QED
  BY <1>2 DEF NextAgent, Claims, NoClaim, LoopClaim

-----------------------------------------------------------------------------
(* What a step does to the rows.  Every action of the queue inserts one    *)
(* row, moves one row forward, ends some live rows, or writes no row.      *)

(* A row keeps what it is about; one that is not about an issue may lose   *)
(* its link when it ends, or once it has ended.                            *)
SameRow(k) ==
  /\ task'[k].agent = task[k].agent
  /\ \/ task'[k].link = task[k].link
     \/ {task'[k].link, task[k].link} \cap Issues = {} /\ task'[k].status \notin Live
  /\ task'[k].parent = task[k].parent /\ task'[k].attempt = task[k].attempt

(* A row is inserted by an enqueue or as the retry of a failed one. *)
Enqueues(k) ==
  /\ \E e \in Enqueuers : enq[e].pc = "insert" /\ task'[k].link = enq[e].link
  /\ task'[k].parent = None

Retries(p, k) ==
  /\ \E h \in Handlers : HandleRetry(h, p)
  /\ Retryable(p) /\ task'[k].parent = p /\ task'[k].attempt = task[p].attempt + 1
  /\ task'[k].link = RetryLink(p)

Inserted(k) ==
  /\ task[k].status = "none" /\ task'[k].status = "queued"
  /\ ~Conflict(task'[k].agent, task'[k].link)
  /\ task'[k].agent \in Agents /\ task'[k].link \in Links
  /\ Enqueues(k) \/ \E p \in TaskIds : Retries(p, k)
  /\ \A j \in TaskIds \ {k} : task'[j] = task[j]

Advanced(k, from, to) ==
  /\ task[k].status = from /\ task'[k].status = to /\ SameRow(k)
  /\ \A j \in TaskIds \ {k} : task'[j] = task[j]

EndedAs(S, how) ==
  /\ S \subseteq In(Live)
  /\ \A k \in TaskIds :
       /\ task'[k].status = IF k \in S THEN how ELSE task[k].status
       /\ SameRow(k)

RowStep ==
  \/ task' = task
  \/ \E k \in TaskIds : Inserted(k)
  \/ \E c \in Claimers, k \in TaskIds :
       ClaimUpdate(c, k) /\ Advanced(k, "queued", "dispatched")
  \/ \E k \in TaskIds : Advanced(k, "dispatched", "running")
  \/ \E k \in TaskIds : Advanced(k, "running", "completed")
  \/ \E S \in SUBSET TaskIds, how \in {"failed", "cancelled"} : EndedAs(S, how)

LEMMA CancelledRows ==
  ASSUME TypeOK, NEW S, task' = Cancelled(S)
  PROVE  RowStep
<1> DEFINE L == {k \in TaskIds : k \in S /\ task[k].status \in Live}
<1>1. \A k \in TaskIds : task[k].status = "none" \/ task[k] \in RealRow
  BY RowOf
<1>2. \A k \in L : task[k] \in RealRow /\ task'[k] = [task[k] EXCEPT !.status = "cancelled"]
  BY <1>1 DEF Live, Cancelled
<1>3. \A k \in L : task'[k].status = "cancelled" /\ SameRow(k)
  BY <1>2 DEF RealRow, SameRow
<1>4. \A k \in TaskIds \ L : task'[k] = task[k]
  BY DEF Cancelled
<1>5. EndedAs(L, "cancelled")
  <2>1. L \subseteq In(Live)
    BY DEF In
  <2>2. \A k \in TaskIds : task'[k].status = (IF k \in L THEN "cancelled" ELSE task[k].status)
                           /\ SameRow(k)
    BY <1>3, <1>4 DEF SameRow
  <2>3. QED
    BY <2>1, <2>2 DEF EndedAs
<1>6. QED
  BY <1>5 DEF RowStep

LEMMA FailedRows ==
  ASSUME TypeOK, NEW S, S \subseteq In(Live), NEW reason, task' = Failed(S, reason)
  PROVE  RowStep /\ EndedAs(S, "failed")
<1>1. \A k \in S : k \in TaskIds /\ task[k] \in RealRow
  BY RowOf DEF In, Live
<1>2. \A k \in S : task'[k] = [task[k] EXCEPT !.status = "failed", !.reason = reason]
  BY <1>1 DEF Failed
<1>3. \A k \in S : task'[k].status = "failed" /\ SameRow(k)
  BY <1>1, <1>2 DEF RealRow, SameRow
<1>4. \A k \in TaskIds \ S : task'[k] = task[k]
  BY DEF Failed
<1>5. EndedAs(S, "failed")
  <2>1. \A k \in TaskIds : task'[k].status = (IF k \in S THEN "failed" ELSE task[k].status)
                           /\ SameRow(k)
    BY <1>3, <1>4 DEF SameRow
  <2>2. QED
    BY <2>1 DEF EndedAs
<1>6. QED
  BY <1>1, <1>5 DEF RowStep

LEMMA InsertedRow ==
  ASSUME TypeOK, NEW k \in TaskIds, Fresh(k), NEW a \in Agents, NEW l \in Links,
         NEW rt, NEW n, NEW p \in TaskIds \cup {None}, ~Conflict(a, l),
         p # None => /\ \E h \in Handlers : HandleRetry(h, p)
                     /\ Retryable(p) /\ n = task[p].attempt + 1 /\ l = RetryLink(p),
         p = None => \E e \in Enqueuers : enq[e].pc = "insert" /\ l = enq[e].link,
         task' = [task EXCEPT ![k] = QueuedRow(a, rt, l, n, p)]
  PROVE  Inserted(k) /\ RowStep
<1>1. task'[k] = QueuedRow(a, rt, l, n, p) /\ \A j \in TaskIds \ {k} : task'[j] = task[j]
  BY DEF TypeOK
<1>2. Inserted(k)
  BY <1>1 DEF Inserted, Enqueues, Retries, QueuedRow, Fresh
<1>3. QED
  BY <1>2 DEF RowStep

LEMMA EnqueueRows ==
  ASSUME TypeOK, EnqueueNext
  PROVE  RowStep
<1>1. PICK e \in Enqueuers :
        \/ \E a \in Agents, l \in Links : Request(e, a, l)
        \/ \E i \in Issues : Rerun(e, i)
        \/ \E i \in Issues, a \in Agents : Reassign(e, i, a)
        \/ EnqueueCancel(e) \/ EnqueueCheck(e) \/ EnqueueInsert(e)
  BY DEF EnqueueNext
<1>2. CASE EnqueueCancel(e)
  BY <1>2, CancelledRows DEF EnqueueCancel, CancelRows
<1>3. CASE EnqueueInsert(e)
  <2>1. enq[e].agent \in Agents /\ enq[e].link \in Links
    <3>1. enq[e] \in Requests /\ enq[e].pc = "insert"
      BY <1>3 DEF TypeOK, EnqueueInsert
    <3>2. QED
      BY <3>1 DEF Requests, NoRequest, OpenRequest, ReadyRequest
  <2>2. CASE task' = task
    BY <2>2 DEF RowStep
  <2>3. CASE ~(Conflict(enq[e].agent, enq[e].link) \/ Full)
    <3>1. PICK k \in TaskIds :
            /\ Fresh(k)
            /\ task' = [task EXCEPT ![k] = QueuedRow(enq[e].agent, enq[e].runtime,
                                                     enq[e].link, 1, None)]
      BY <1>3, <2>3 DEF EnqueueInsert
    <3>2. \E f \in Enqueuers : enq[f].pc = "insert" /\ enq[e].link = enq[f].link
      BY <1>3 DEF EnqueueInsert
    <3>3. QED
      BY <2>1, <2>3, <3>1, <3>2, InsertedRow
  <2>4. QED
    BY <1>3, <2>2, <2>3 DEF EnqueueInsert
<1>4. CASE task' = task
  BY <1>4 DEF RowStep
<1>5. QED
  BY <1>1, <1>2, <1>3, <1>4 DEF Request, Rerun, Reassign, EnqueueCheck, rows

LEMMA ClaimRows ==
  ASSUME TypeOK, ClaimNext
  PROVE  RowStep
<1>1. PICK c \in Claimers :
        \/ \E rt \in Runtimes : ClaimList(c, rt)
        \/ ClaimCount(c) \/ ClaimSnapshot(c) \/ ClaimNothing(c)
        \/ \E k \in TaskIds : ClaimUpdate(c, k)
  BY DEF ClaimNext
<1>2. ASSUME NEW k \in TaskIds, ClaimUpdate(c, k)
      PROVE  RowStep
  <2>1. task[k].status = "queued" /\ task' = [task EXCEPT ![k].status = "dispatched"]
    BY <1>2 DEF ClaimUpdate, IsFirst, Hits
  <2>2. task[k] \in RealRow /\ task[k] \in Row
    BY <2>1, RowOf
  <2>3. /\ task'[k] = [task[k] EXCEPT !.status = "dispatched"]
        /\ \A j \in TaskIds \ {k} : task'[j] = task[j]
    BY <2>1 DEF TypeOK
  <2>4. Advanced(k, "queued", "dispatched")
    BY <2>1, <2>2, <2>3 DEF Advanced, SameRow, RealRow
  <2>5. QED
    BY <1>2, <2>4 DEF RowStep
<1>3. CASE task' = task
  BY <1>3 DEF RowStep
<1>4. QED
  BY <1>1, <1>2, <1>3 DEF ClaimList, ClaimCount, ClaimSnapshot, ClaimNothing, rows

LEMMA ReportRows ==
  ASSUME TypeOK, ReportNext
  PROVE  RowStep
<1>1. ASSUME NEW k \in TaskIds, StartTask(k)
      PROVE  RowStep
  <2>1. task[k].status = "dispatched" /\ task[k] \in RealRow
    BY <1>1, RowOf DEF StartTask
  <2>2. /\ task'[k] = [task[k] EXCEPT !.status = "running", !.started = TRUE]
        /\ \A j \in TaskIds \ {k} : task'[j] = task[j]
    BY <1>1 DEF StartTask, TypeOK
  <2>3. Advanced(k, "dispatched", "running")
    BY <2>1, <2>2 DEF Advanced, SameRow, RealRow
  <2>4. QED
    BY <2>3 DEF RowStep
<1>2. ASSUME NEW k \in TaskIds, CompleteTask(k)
      PROVE  RowStep
  <2>1. CASE task[k].status = "running"
    <3>1. task[k] \in RealRow
      BY <2>1, RowOf
    <3>2. /\ task'[k] = [task[k] EXCEPT !.status = "completed"]
          /\ \A j \in TaskIds \ {k} : task'[j] = task[j]
      BY <1>2, <2>1 DEF CompleteTask, TypeOK
    <3>3. Advanced(k, "running", "completed")
      BY <2>1, <3>1, <3>2 DEF Advanced, SameRow, RealRow
    <3>4. QED
      BY <3>3 DEF RowStep
  <2>2. CASE task[k].status # "running"
    BY <1>2, <2>2 DEF CompleteTask, RowStep
  <2>3. QED
    BY <2>1, <2>2
<1>3. ASSUME NEW h \in Reporters, NEW k \in TaskIds, NEW reason \in {"infra", "other"},
             FailTask(h, k, reason)
      PROVE  RowStep
  BY <1>3, FailedRows DEF FailTask, In, Active, Live
<1>4. ASSUME NEW i \in Issues, NEW s \in IssueStatuses, UpdateIssueStatus(i, s)
      PROVE  RowStep
  BY <1>4 DEF UpdateIssueStatus, rows, RowStep
<1>5. QED
  BY <1>1, <1>2, <1>3, <1>4 DEF ReportNext

LEMMA SweepRows ==
  ASSUME TypeOK, SweepNext
  PROVE  RowStep
<1>1. \A h, S, reason : S \subseteq In(Live) /\ Sweep(h, S, reason) => RowStep
  BY FailedRows DEF Sweep
<1>2. In(Active) \subseteq In(Live) /\ In({"queued"}) \subseteq In(Live)
  BY DEF In, Active, Live
<1>3. QED
  BY <1>1, <1>2 DEF SweepNext, SweepStale, SweepOffline, SweepQueued, RecoverOrphans

LEMMA HandleRows ==
  ASSUME TypeOK, HandleNext
  PROVE  RowStep
<1>1. PICK h \in Handlers :
        \/ \E p \in TaskIds : HandleRetry(h, p)
        \/ HandleCheck(h) \/ HandleActive(h) \/ HandleReset(h) \/ HandleDone(h)
  BY DEF HandleNext
<1>2. ASSUME NEW p \in TaskIds, HandleRetry(h, p)
      PROVE  RowStep
  <2>1. CASE task' = task
    BY <2>1 DEF RowStep
  <2>2. ASSUME NEW k \in TaskIds, RetryRow(p, k), Retryable(p),
               ~Conflict(task[p].agent, RetryLink(p))
        PROVE  RowStep
    <3>1. task[p].agent \in Agents /\ RetryLink(p) \in Links
      BY <2>2, RowOf DEF Retryable, RetryLink, Links
    <3>2. QED
      BY <1>2, <2>2, <3>1, Links0, InsertedRow DEF RetryRow
  <2>3. QED
    BY <1>2, <2>1, <2>2 DEF HandleRetry
<1>3. CASE task' = task
  BY <1>3 DEF RowStep
<1>4. QED
  BY <1>1, <1>2, <1>3 DEF HandleCheck, HandleActive, HandleReset, HandleDone, rows

(* DeleteChatSession cancels the live rows of the session and unlinks all. *)
LEMMA UnlinkedRows ==
  ASSUME TypeOK, NEW s \in Chats, DeleteChatSession(s)
  PROVE  RowStep
<1> DEFINE S == {k \in TaskIds : task[k].link = s}
           L == {k \in S : task[k].status \in Live}
<1>1. task' = [k \in TaskIds |-> IF k \in S THEN [Cancelled(S)[k] EXCEPT !.link = Orphan]
                                 ELSE task[k]]
  BY DEF DeleteChatSession
<1>2. \A k \in S : task[k] \in RealRow
  BY RowOf, Links0 DEF NoRow, Links
<1>3. s \notin Issues /\ Orphan \notin Issues
  BY LinksAssumption DEF LinksAssumption
<1>4. ASSUME NEW k \in S
      PROVE  /\ task'[k].status = IF k \in L THEN "cancelled" ELSE task[k].status
             /\ SameRow(k)
  <2>1. CASE k \in L
    <3>1. task'[k] = [[task[k] EXCEPT !.status = "cancelled"] EXCEPT !.link = Orphan]
      BY <1>1, <2>1 DEF Cancelled
    <3>2. QED
      BY <1>2, <1>3, <2>1, <3>1 DEF RealRow, SameRow, Live
  <2>2. CASE k \notin L
    <3>1. task'[k] = [task[k] EXCEPT !.link = Orphan]
      BY <1>1, <2>2 DEF Cancelled
    <3>2. QED
      BY <1>2, <1>3, <2>2, <3>1 DEF RealRow, SameRow
  <2>3. QED
    BY <2>1, <2>2
<1>5. \A k \in TaskIds \ S : task'[k] = task[k]
  BY <1>1
<1>6. EndedAs(L, "cancelled")
  <2>1. L \subseteq In(Live)
    BY DEF In
  <2>2. \A k \in TaskIds : /\ task'[k].status = IF k \in L THEN "cancelled" ELSE task[k].status
                           /\ SameRow(k)
    BY <1>4, <1>5 DEF SameRow
  <2>3. QED
    BY <2>1, <2>2 DEF EndedAs
<1>7. QED
  BY <1>6 DEF RowStep

LEMMA CancelAndAgentRows ==
  ASSUME TypeOK, CancelNext \/ AgentNext \/ Crash
  PROVE  RowStep
<1>1. \A S : CancelRows(S) => RowStep
  BY CancelledRows DEF CancelRows
<1>2. CASE CancelNext
  BY <1>1, <1>2, UnlinkedRows
     DEF CancelNext, CancelTask, CancelTasksForIssue, CancelTasksForAgent, DeleteComment
<1>3. ASSUME NEW a \in Agents, ArchiveCancel(a)
      PROVE  RowStep
  BY <1>3, CancelledRows DEF ArchiveCancel
<1>4. ASSUME NEW rts \in SUBSET Runtimes, RevokeMember(rts)
      PROVE  RowStep
  BY <1>1, <1>4 DEF RevokeMember
<1>5. CASE task' = task
  BY <1>5 DEF RowStep
<1>6. QED
  BY <1>2, <1>3, <1>4, <1>5
     DEF AgentNext, Crash, ReconcileRead, ReconcileWrite, ReconcileFails, ArchiveAgent,
         RestoreAgent, MoveAgent, rows

LEMMA RowSteps ==
  ASSUME TypeOK, [Next]_vars
  PROVE  RowStep
<1>1. CASE UNCHANGED vars
  BY <1>1 DEF vars, rows, RowStep
<1>2. CASE Next
  BY <1>2, EnqueueRows, ClaimRows, ReportRows, SweepRows, HandleRows, CancelAndAgentRows
     DEF Next
<1>3. QED
  BY <1>1, <1>2

(* A row that was inserted stays, a row that has failed stays so, and rows *)
(* keep what they are about.                                               *)
Kept ==
  \A k \in TaskIds : task[k].status # "none" =>
    /\ task'[k].status # "none" /\ SameRow(k)
    /\ task[k].status \in Ended => task'[k].status = task[k].status

LEMMA RowsKept ==
  ASSUME RowStep
  PROVE  Kept
<1>1. CASE task' = task
  BY <1>1 DEF Kept, SameRow
<1>2. ASSUME NEW k \in TaskIds, Inserted(k)
      PROVE  Kept
  BY <1>2 DEF Inserted, Kept, SameRow
<1>3. ASSUME NEW k \in TaskIds, NEW from \in Live, NEW to \in Live \cup Ended,
             Advanced(k, from, to)
      PROVE  Kept
  BY <1>3 DEF Advanced, Kept, SameRow, Live, Ended
<1>4. ASSUME NEW S \in SUBSET TaskIds, NEW how \in {"failed", "cancelled"}, EndedAs(S, how)
      PROVE  Kept
  BY <1>4 DEF EndedAs, Kept, In, Live, Ended
<1>5. QED
  BY <1>1, <1>2, <1>3, <1>4 DEF RowStep, Live, Ended

-----------------------------------------------------------------------------
(* TypeInv is inductive: one lemma per group of actions. *)

(* In a claim and a batch that a step leaves alone, the rows stay as they  *)
(* have to be.                                                             *)
LEMMA ClaimRefsKept ==
  ASSUME TypeInv, Kept, NEW c \in Claimers,
         claim'[c].cand \cup claim'[c].snap \subseteq claim[c].cand \cup claim[c].snap
  PROVE  \A k \in claim'[c].cand \cup claim'[c].snap : task'[k].status # "none"
<1>1. claim[c].cand \cup claim[c].snap \subseteq TaskIds
  <2>1. claim[c] \in Claims
    BY DEF TypeInv, TypeOK
  <2>2. QED
    BY <2>1 DEF Claims, NoClaim, LoopClaim, AgentClaim
<1>2. QED
  BY <1>1 DEF TypeInv, RefsOK, Kept

LEMMA BatchRefsKept ==
  ASSUME TypeInv, Kept, NEW h \in Handlers, batch'[h] = batch[h]
  PROVE  /\ batch'[h].rows \subseteq {k \in TaskIds : task'[k].status = "failed"}
         /\ batch'[h].pc # "retry" =>
              batch'[h].cur \in batch'[h].rows /\ task'[batch'[h].cur].link \in Issues
BY DEF TypeInv, RefsOK, Kept, SameRow, In, Ended

LEMMA EnqueueTypes ==
  ASSUME TypeInv, EnqueueNext
  PROVE  TypeInv'
<1>1. PICK e \in Enqueuers :
        \/ \E a \in Agents, l \in Links : Request(e, a, l)
        \/ \E i \in Issues : Rerun(e, i)
        \/ \E i \in Issues, a \in Agents : Reassign(e, i, a)
        \/ EnqueueCancel(e) \/ EnqueueCheck(e) \/ EnqueueInsert(e)
  BY DEF EnqueueNext
<1>2. Kept /\ TypeOK /\ RefsOK /\ enq[e] \in Requests
  BY EnqueueRows, RowsKept DEF TypeInv, TypeOK
<1>3. UNCHANGED <<claim, batch>>
  BY <1>1 DEF Request, Rerun, Reassign, EnqueueCancel, EnqueueCheck, EnqueueInsert, requests
<1>4. RefsOK'
  BY <1>2, <1>3, ClaimRefsKept, BatchRefsKept DEF RefsOK, In
<1>5. ASSUME NEW a \in Agents, NEW l \in Links, Request(e, a, l)
      PROVE  TypeOK'
  <2>1. [NoRequest EXCEPT !.pc = "check", !.agent = a, !.link = l] \in Requests
    BY DEF NoRequest, Requests, OpenRequest
  <2>2. enq' \in [Enqueuers -> Requests]
    BY <1>2, <1>5, <2>1 DEF Request, TypeOK
  <2>3. QED
    BY <1>2, <1>5, <2>2 DEF Request, TypeOK, rows, issues, refreshes
<1>6. ASSUME NEW i \in Issues, Rerun(e, i)
      PROVE  TypeOK'
  <2>1. assignee[i] \in Agents /\ i \in Links
    BY <1>2, Links0 DEF TypeOK
  <2>2. [NoRequest EXCEPT !.pc = "cancel", !.agent = assignee[i], !.link = i] \in Requests
    BY <2>1 DEF NoRequest, Requests, OpenRequest
  <2>3. enq' \in [Enqueuers -> Requests]
    BY <1>2, <1>6, <2>2 DEF Rerun, TypeOK
  <2>4. QED
    BY <1>2, <1>6, <2>3 DEF Rerun, TypeOK, rows, issues, refreshes
<1>7. ASSUME NEW i \in Issues, NEW a \in Agents, Reassign(e, i, a)
      PROVE  TypeOK'
  <2>1. [NoRequest EXCEPT !.pc = "cancel", !.agent = a, !.link = i, !.wide = TRUE] \in Requests
    BY Links0 DEF NoRequest, Requests, OpenRequest
  <2>2. enq' \in [Enqueuers -> Requests] /\ assignee' \in [Issues -> Agents]
    BY <1>2, <1>7, <2>1 DEF Reassign, TypeOK
  <2>3. QED
    BY <1>2, <1>7, <2>2 DEF Reassign, TypeOK, rows, refreshes
<1>8. ASSUME EnqueueCancel(e)
      PROVE  TypeOK'
  <2>1. [enq[e] EXCEPT !.pc = "check"] \in Requests
    <3>1. enq[e] \in OpenRequest
      BY <1>2, <1>8 DEF EnqueueCancel, NoRequest, Requests, ReadyRequest
    <3>2. QED
      BY <3>1 DEF Requests, OpenRequest
  <2>2. enq' \in [Enqueuers -> Requests]
    BY <1>2, <1>8, <2>1 DEF EnqueueCancel, TypeOK
  <2>3. task' \in [TaskIds -> Row] /\ owed' \subseteq Agents
    BY <1>2, <1>8, CancelTypes DEF EnqueueCancel
  <2>4. QED
    BY <1>2, <1>8, <2>2, <2>3 DEF EnqueueCancel, TypeOK, issues, refreshes
<1>9. ASSUME EnqueueCheck(e)
      PROVE  TypeOK'
  <2>1. enq[e] \in OpenRequest
    BY <1>2, <1>9 DEF EnqueueCheck, NoRequest, Requests, ReadyRequest
  <2>2. agent[enq[e].agent].runtime \in Runtimes
    BY <1>2, <2>1 DEF OpenRequest, TypeOK
  <2>3. [enq[e] EXCEPT !.pc = "insert", !.runtime = agent[enq[e].agent].runtime] \in Requests
    BY <2>1, <2>2 DEF OpenRequest, ReadyRequest, Requests
  <2>4. NoRequest \in Requests
    BY DEF Requests
  <2>5. enq' \in [Enqueuers -> Requests]
    BY <1>2, <1>9, <2>3, <2>4 DEF EnqueueCheck, TypeOK
  <2>6. QED
    BY <1>2, <1>9, <2>5 DEF EnqueueCheck, TypeOK, rows, issues, refreshes
<1>10. ASSUME EnqueueInsert(e)
      PROVE  TypeOK'
  <2>1. enq[e].agent \in Agents /\ enq[e].runtime \in Runtimes /\ enq[e].link \in Links
    BY <1>2, <1>10 DEF EnqueueInsert, NoRequest, Requests, OpenRequest, ReadyRequest
  <2>2. QueuedRow(enq[e].agent, enq[e].runtime, enq[e].link, 1, None) \in Row
    BY <2>1, QueuedRowType, BoundsAssumption
  <2>3. enq' \in [Enqueuers -> Requests] /\ task' \in [TaskIds -> Row]
    BY <1>2, <1>10, <2>2 DEF EnqueueInsert, TypeOK, Requests
  <2>4. QED
    BY <1>2, <1>10, <2>3 DEF EnqueueInsert, TypeOK, issues, refreshes
<1>11. QED
  BY <1>1, <1>4, <1>5, <1>6, <1>7, <1>8, <1>9, <1>10 DEF TypeInv

LEMMA ClaimTypes ==
  ASSUME TypeInv, ClaimNext
  PROVE  TypeInv'
<1>1. PICK c \in Claimers :
        \/ \E rt \in Runtimes : ClaimList(c, rt)
        \/ ClaimCount(c) \/ ClaimSnapshot(c) \/ ClaimNothing(c)
        \/ \E k \in TaskIds : ClaimUpdate(c, k)
  BY DEF ClaimNext
<1>2. Kept /\ TypeOK /\ RefsOK /\ claim[c] \in Claims
  BY ClaimRows, RowsKept DEF TypeInv, TypeOK
<1> DEFINE Held(r) == r.cand \cup r.snap
           Fits(r) == r \in Claims /\ \A k \in Held(r) : task[k].status # "none"
(* The other claims and the batches are left alone. *)
<1>3. ASSUME NEW r, Fits(r), claim' = [claim EXCEPT ![c] = r], batch' = batch
      PROVE  RefsOK' /\ claim' \in [Claimers -> Claims]
  <2>1. claim' \in [Claimers -> Claims] /\ claim'[c] = r
    BY <1>2, <1>3 DEF TypeOK
  <2>2. \A d \in Claimers \ {c} : claim'[d] = claim[d]
    BY <1>2, <1>3 DEF TypeOK
  <2>3. \A d \in Claimers : \A k \in claim'[d].cand \cup claim'[d].snap : task'[k].status # "none"
    <3>1. Held(r) \subseteq TaskIds
      BY <1>3 DEF Claims, NoClaim, LoopClaim, AgentClaim
    <3>2. \A k \in Held(r) : task'[k].status # "none"
      BY <1>2, <1>3, <3>1 DEF Kept
    <3>3. QED
      BY <1>2, <2>1, <2>2, <3>2, ClaimRefsKept
  <2>4. QED
    BY <1>2, <1>3, <2>1, <2>3, BatchRefsKept DEF RefsOK, In
<1>4. \A a : claim[c].pc # "idle" => Fits(NextAgent(c, a))
  BY <1>2, NextAgentType DEF RefsOK
<1>5. ASSUME NEW rt \in Runtimes, ClaimList(c, rt)
      PROVE  TypeInv'
  <2> DEFINE r == [NoClaim EXCEPT !.pc = "count", !.runtime = rt,
                                  !.cand = {k \in In({"queued"}) : task[k].runtime = rt}]
  <2>1. Fits(r)
    BY DEF NoClaim, Claims, LoopClaim, In
  <2>2. RefsOK' /\ claim' \in [Claimers -> Claims]
    BY <1>3, <1>5, <2>1 DEF ClaimList
  <2>3. QED
    BY <1>2, <1>5, <2>2 DEF ClaimList, TypeInv, TypeOK, rows, issues, refreshes
<1>6. ASSUME ClaimCount(c)
      PROVE  TypeInv'
  <2>1. PICK f \in TaskIds :
          /\ IsFirst(f, claim[c].cand)
          /\ claim' = [claim EXCEPT ![c] =
               IF HasCapacity(task[f].agent)
               THEN [@ EXCEPT !.pc = "snapshot", !.agent = task[f].agent]
               ELSE NextAgent(c, task[f].agent)]
    BY <1>6 DEF ClaimCount
  <2>2. claim[c].pc = "count" /\ claim[c] \in LoopClaim
    BY <1>2, <1>6 DEF ClaimCount, Claims, NoClaim, AgentClaim
  <2>3. task[f].agent \in Agents
    BY <1>2, <2>1, RowOf DEF RefsOK, IsFirst
  <2>4. Fits([claim[c] EXCEPT !.pc = "snapshot", !.agent = task[f].agent])
    BY <1>2, <2>2, <2>3 DEF Claims, LoopClaim, AgentClaim, RefsOK
  <2>5. RefsOK' /\ claim' \in [Claimers -> Claims]
    BY <1>2, <1>3, <1>4, <1>6, <2>1, <2>2, <2>4 DEF ClaimCount, TypeOK
  <2>6. QED
    BY <1>2, <1>6, <2>5 DEF ClaimCount, TypeInv, TypeOK, rows, issues, refreshes
<1>7. ASSUME ClaimSnapshot(c)
      PROVE  TypeInv'
  <2> DEFINE S == {k \in TaskIds : task[k].agent = claim[c].agent /\ Claimable(k)}
  <2>1. claim[c] \in AgentClaim
    BY <1>2, <1>7 DEF ClaimSnapshot, Claims, NoClaim, LoopClaim
  <2>2. Fits([claim[c] EXCEPT !.pc = "update", !.snap = S])
    BY <1>2, <2>1 DEF Claims, AgentClaim, Claimable, RefsOK
  <2>3. claim' = [claim EXCEPT ![c] = [claim[c] EXCEPT !.pc = "update", !.snap = S]]
    BY <1>2, <1>7 DEF ClaimSnapshot, TypeOK
  <2>4. RefsOK' /\ claim' \in [Claimers -> Claims]
    BY <1>3, <1>7, <2>2, <2>3 DEF ClaimSnapshot
  <2>5. QED
    BY <1>2, <1>7, <2>4 DEF ClaimSnapshot, TypeInv, TypeOK, rows, issues, refreshes
<1>8. ASSUME ClaimNothing(c)
      PROVE  TypeInv'
  <2>1. RefsOK' /\ claim' \in [Claimers -> Claims]
    BY <1>3, <1>4, <1>8 DEF ClaimNothing
  <2>2. QED
    BY <1>2, <1>8, <2>1 DEF ClaimNothing, TypeInv, TypeOK, rows, issues, refreshes
<1>9. ASSUME NEW k \in TaskIds, ClaimUpdate(c, k)
      PROVE  TypeInv'
  <2>1. claim[c] \in AgentClaim
    BY <1>2, <1>9 DEF ClaimUpdate, Claims, NoClaim, LoopClaim
  <2>2. Fits(NoClaim) /\ Fits(NextAgent(c, claim[c].agent))
    BY <1>4, <2>1 DEF NoClaim, Claims, AgentClaim
  <2>3. RefsOK' /\ claim' \in [Claimers -> Claims]
    BY <1>3, <1>9, <2>2 DEF ClaimUpdate
  <2>4. owed' \subseteq Agents /\ delivered' \subseteq TaskIds
    BY <1>2, <1>9, <2>1 DEF ClaimUpdate, AgentClaim, TypeOK
  <2>5. task' \in [TaskIds -> Row]
    <3>1. task[k].status = "queued" /\ task' = [task EXCEPT ![k].status = "dispatched"]
      BY <1>9 DEF ClaimUpdate, IsFirst, Hits
    <3>2. [task[k] EXCEPT !.status = "dispatched"] \in Row
      BY <1>2, <3>1, RowOf, RowMoved DEF Live, Reasons
    <3>3. QED
      BY <1>2, <3>1, <3>2 DEF TypeOK
  <2>6. QED
    BY <1>2, <1>9, <2>3, <2>4, <2>5 DEF ClaimUpdate, TypeInv, TypeOK, issues, refreshes
<1>10. QED
  BY <1>1, <1>5, <1>6, <1>7, <1>8, <1>9

(* A batch that is opened by the statement that failed its rows. *)
LEMMA BatchOpened ==
  ASSUME TypeInv, NEW h \in Handlers, NEW kind \in {"report", "sweep"},
         NEW S \in SUBSET TaskIds, Kept, EndedAs(S, "failed"),
         batch' = [batch EXCEPT ![h] = [NoBatch EXCEPT !.kind = kind, !.rows = S]],
         claim' = claim
  PROVE  RefsOK' /\ batch' \in [Handlers -> Batches]
<1>1. [NoBatch EXCEPT !.kind = kind, !.rows = S] \in Batches
  BY DEF NoBatch, Batches
<1>2. batch' \in [Handlers -> Batches]
  BY <1>1 DEF TypeInv, TypeOK
<1>3. batch'[h].rows = S /\ batch'[h].pc = "retry"
  BY DEF TypeInv, TypeOK, NoBatch
<1>4. \A g \in Handlers \ {h} : batch'[g] = batch[g]
  BY DEF TypeInv, TypeOK
<1>5. S \subseteq {k \in TaskIds : task'[k].status = "failed"}
  BY DEF EndedAs
<1>6. \A c \in Claimers : \A k \in claim'[c].cand \cup claim'[c].snap : task'[k].status # "none"
  BY ClaimRefsKept
<1>7. \A g \in Handlers :
        /\ batch'[g].rows \subseteq {k \in TaskIds : task'[k].status = "failed"}
        /\ batch'[g].pc # "retry" =>
             batch'[g].cur \in batch'[g].rows /\ task'[batch'[g].cur].link \in Issues
  BY <1>3, <1>4, <1>5, BatchRefsKept
<1>8. QED
  BY <1>2, <1>6, <1>7 DEF RefsOK, In

(* Claims and batches that a step leaves alone. *)
LEMMA RefsKept ==
  ASSUME TypeInv, Kept, UNCHANGED <<claim, batch>>
  PROVE  RefsOK'
BY ClaimRefsKept, BatchRefsKept DEF RefsOK, In

LEMMA ReportTypes ==
  ASSUME TypeInv, ReportNext
  PROVE  TypeInv'
<1>1. Kept /\ TypeOK /\ RefsOK
  BY ReportRows, RowsKept DEF TypeInv
<1>2. ASSUME NEW k \in TaskIds, StartTask(k)
      PROVE  TypeInv'
  <2>1. task[k] \in RealRow
    BY <1>1, <1>2, RowOf DEF StartTask
  <2>2. [task[k] EXCEPT !.status = "running", !.started = TRUE] \in Row
    BY <2>1, RowMoved DEF Live, Reasons
  <2>3. task' = [task EXCEPT ![k] = [task[k] EXCEPT !.status = "running", !.started = TRUE]]
    BY <1>1, <1>2 DEF StartTask, TypeOK
  <2>4. task' \in [TaskIds -> Row]
    BY <1>1, <2>2, <2>3 DEF TypeOK
  <2>5. RefsOK'
    BY <1>1, <1>2, RefsKept DEF StartTask, requests
  <2>6. QED
    BY <1>1, <1>2, <2>4, <2>5 DEF StartTask, TypeInv, TypeOK, issues, requests, refreshes
<1>3. ASSUME NEW k \in TaskIds, CompleteTask(k)
      PROVE  TypeInv'
  <2>1. task[k].status = "running" =>
          /\ [task[k] EXCEPT !.status = "completed"] \in Row
          /\ task[k].agent \in Agents
    BY <1>1, RowOf, RowMoved DEF Ended, Reasons
  <2>2. task' \in [TaskIds -> Row]
    BY <1>1, <1>3, <2>1 DEF CompleteTask, TypeOK
  <2>3. owed' \subseteq Agents /\ executed' \subseteq Issues
    BY <1>1, <1>3, <2>1 DEF CompleteTask, TypeOK
  <2>4. RefsOK'
    BY <1>1, <1>3, RefsKept DEF CompleteTask, requests
  <2>5. QED
    BY <1>1, <1>3, <2>2, <2>3, <2>4 DEF CompleteTask, TypeInv, TypeOK, requests, refreshes
<1>4. ASSUME NEW h \in Reporters, NEW k \in TaskIds, NEW reason \in {"infra", "other"},
             FailTask(h, k, reason)
      PROVE  TypeInv'
  <2>1. {k} \subseteq In(Live) /\ reason \in Reasons /\ h \in Handlers
    BY <1>4 DEF FailTask, In, Active, Live, Reasons, Handlers
  <2>2. task' \in [TaskIds -> Row] /\ EndedAs({k}, "failed")
    BY <1>1, <1>4, <2>1, FailedType, FailedRows DEF FailTask
  <2>3. RefsOK' /\ batch' \in [Handlers -> Batches]
    BY <1>1, <1>4, <2>1, <2>2, BatchOpened DEF FailTask
  <2>4. QED
    BY <1>1, <1>4, <2>2, <2>3 DEF FailTask, TypeInv, TypeOK, issues, refreshes
<1>5. ASSUME NEW i \in Issues, NEW s \in IssueStatuses, UpdateIssueStatus(i, s)
      PROVE  TypeInv'
  <2>1. RefsOK'
    BY <1>1, <1>5, RefsKept DEF UpdateIssueStatus, requests
  <2>2. status' \in [Issues -> IssueStatuses]
    BY <1>1, <1>5 DEF UpdateIssueStatus, TypeOK
  <2>3. QED
    BY <1>1, <1>5, <2>1, <2>2 DEF UpdateIssueStatus, TypeInv, TypeOK, rows, requests, refreshes
<1>6. QED
  BY <1>2, <1>3, <1>4, <1>5 DEF ReportNext

LEMMA SweepTypes ==
  ASSUME TypeInv, SweepNext
  PROVE  TypeInv'
<1>1. Kept /\ TypeOK /\ RefsOK
  BY SweepRows, RowsKept DEF TypeInv
<1>2. ASSUME NEW h \in Handlers, NEW S, S \subseteq In(Live), NEW reason \in Reasons,
             Sweep(h, S, reason)
      PROVE  TypeInv'
  <2>1. task' \in [TaskIds -> Row] /\ EndedAs(S, "failed")
    BY <1>1, <1>2, FailedType, FailedRows DEF Sweep
  <2>2. S \in SUBSET TaskIds
    BY <1>2 DEF In
  <2>3. RefsOK' /\ batch' \in [Handlers -> Batches]
    BY <1>1, <1>2, <2>1, <2>2, BatchOpened DEF Sweep
  <2>4. QED
    BY <1>1, <1>2, <2>1, <2>3 DEF Sweep, TypeInv, TypeOK, issues, refreshes
<1>3. In(Active) \subseteq In(Live) /\ In({"queued"}) \subseteq In(Live)
  BY DEF In, Active, Live
<1>4. Sweeper \in Handlers /\ Recoverers \subseteq Handlers /\ {"infra", "other"} \subseteq Reasons
  BY DEF Handlers, Reasons
<1>5. QED
  BY <1>2, <1>3, <1>4 DEF SweepNext, SweepStale, SweepOffline, SweepQueued, RecoverOrphans

(* What RefsOK and TypeOK ask of one batch. *)
GoodBatch(b) ==
  /\ b \in Batches
  /\ b.rows \subseteq In({"failed"})
  /\ b.pc # "retry" => b.cur \in b.rows /\ task[b.cur].link \in Issues

LEMMA BatchMoved ==
  ASSUME TypeInv, Kept, NEW h \in Handlers, NEW b, GoodBatch(b),
         batch' = [batch EXCEPT ![h] = b], claim' = claim
  PROVE  RefsOK' /\ batch' \in [Handlers -> Batches]
<1>1. batch' \in [Handlers -> Batches] /\ batch'[h] = b
  BY DEF TypeInv, TypeOK, GoodBatch
<1>2. \A g \in Handlers \ {h} : batch'[g] = batch[g]
  BY DEF TypeInv, TypeOK
<1>3. /\ b.rows \subseteq {k \in TaskIds : task'[k].status = "failed"}
      /\ b.pc # "retry" => b.cur \in b.rows /\ task'[b.cur].link \in Issues
  BY DEF GoodBatch, Kept, SameRow, In, Ended
<1>4. \A g \in Handlers :
        /\ batch'[g].rows \subseteq {k \in TaskIds : task'[k].status = "failed"}
        /\ batch'[g].pc # "retry" =>
             batch'[g].cur \in batch'[g].rows /\ task'[batch'[g].cur].link \in Issues
  BY <1>1, <1>2, <1>3, BatchRefsKept
<1>5. \A c \in Claimers : \A k \in claim'[c].cand \cup claim'[c].snap : task'[k].status # "none"
  BY ClaimRefsKept
<1>6. QED
  BY <1>1, <1>4, <1>5 DEF RefsOK, In

LEMMA DoneBatch ==
  ASSUME NEW b \in Batches, b.rows \subseteq In({"failed"})
  PROVE  GoodBatch(Done(b))
BY DEF GoodBatch, Done, Batches

LEMMA HandleTypes ==
  ASSUME TypeInv, HandleNext
  PROVE  TypeInv'
<1>1. PICK h \in Handlers :
        \/ \E p \in TaskIds : HandleRetry(h, p)
        \/ HandleCheck(h) \/ HandleActive(h) \/ HandleReset(h) \/ HandleDone(h)
  BY DEF HandleNext
<1>2. Kept /\ TypeOK /\ RefsOK /\ GoodBatch(batch[h]) /\ batch[h] \in Batches
  BY HandleRows, RowsKept DEF TypeInv, TypeOK, RefsOK, GoodBatch
<1>3. GoodBatch(Done(batch[h]))
  BY <1>2, DoneBatch DEF GoodBatch
<1>4. ASSUME NEW p \in TaskIds, HandleRetry(h, p)
      PROVE  TypeInv'
  <2> DEFINE retry == Retryable(p) /\ ~Conflict(task[p].agent, RetryLink(p)) /\ ~Full
             l == task[p].link
             b == [batch[h] EXCEPT !.cur = p, !.agents = @ \cup {task[p].agent},
                                   !.retried = IF retry /\ l \in Issues THEN @ \cup {l} ELSE @]
  <2>1. p \in batch[h].rows /\ task[p].status = "failed"
    BY <1>2, <1>4 DEF HandleRetry, GoodBatch, In
  <2>2. /\ task[p].agent \in Agents /\ task[p].runtime \in Runtimes
        /\ task[p].link \in Links /\ task[p].attempt \in 1 .. MaxAttempts
    BY <1>2, <2>1, RowOf
  <2>3. b \in Batches /\ b.rows = batch[h].rows /\ b.cur = p
    <3> DEFINE R == IF retry /\ l \in Issues THEN batch[h].retried \cup {l} ELSE batch[h].retried
    <3>1. R \in SUBSET Issues
      BY <1>2 DEF Batches
    <3>2. batch[h].agents \cup {task[p].agent} \in SUBSET Agents
      BY <1>2, <2>2 DEF Batches
    <3>3. b = [batch[h] EXCEPT !.cur = p, !.agents = batch[h].agents \cup {task[p].agent},
                               !.retried = R]
      BY <1>2 DEF Batches
    <3> HIDE DEF R, b
    <3>4. QED
      BY <1>2, <3>1, <3>2, <3>3 DEF Batches
  <2>4. batch' = [batch EXCEPT ![h] = IF batch[h].kind = "sweep" /\ l \in Issues
                                      THEN [b EXCEPT !.pc = "check"] ELSE Done(b)]
    BY <1>2, <1>4 DEF HandleRetry, Batches
  <2> HIDE DEF b
  <2>5. l \in Issues => GoodBatch([b EXCEPT !.pc = "check"])
    BY <1>2, <2>1, <2>3 DEF GoodBatch, Batches
  <2>6. GoodBatch(Done(b))
    BY <1>2, <2>3, DoneBatch DEF GoodBatch
  <2>7. RefsOK' /\ batch' \in [Handlers -> Batches]
    <3>1. CASE batch' = [batch EXCEPT ![h] = [b EXCEPT !.pc = "check"]] /\ l \in Issues
      BY <1>2, <1>4, <2>5, <3>1, BatchMoved DEF HandleRetry
    <3>2. CASE batch' = [batch EXCEPT ![h] = Done(b)]
      BY <1>2, <1>4, <2>6, <3>2, BatchMoved DEF HandleRetry
    <3>3. QED
      BY <2>4, <3>1, <3>2
  <2>8. task' \in [TaskIds -> Row]
    <3>1. CASE task' = task
      BY <1>2, <3>1 DEF TypeOK
    <3>2. ASSUME NEW k \in TaskIds, RetryRow(p, k), Retryable(p)
          PROVE  task' \in [TaskIds -> Row]
      <4>1. task[p].attempt + 1 \in 1 .. MaxAttempts
        BY <2>2, <3>2, BoundsAssumption DEF Retryable
      <4>2. QueuedRow(task[p].agent, task[p].runtime, RetryLink(p), task[p].attempt + 1, p) \in Row
        BY <2>2, <4>1, QueuedRowType DEF RetryLink, Links
      <4>3. QED
        BY <1>2, <3>2, <4>2 DEF RetryRow, TypeOK
    <3>3. QED
      BY <1>4, <3>1, <3>2 DEF HandleRetry
  <2>9. QED
    BY <1>2, <1>4, <2>7, <2>8 DEF HandleRetry, TypeInv, TypeOK, issues, refreshes
<1>5. ASSUME HandleCheck(h)
      PROVE  TypeInv'
  <2> DEFINE b == [batch[h] EXCEPT !.processed = @ \cup {task[batch[h].cur].link},
                                   !.pc = "active"]
  <2>1. GoodBatch(b)
    BY <1>2, <1>5 DEF GoodBatch, Batches, HandleCheck
  <2>2. batch' = [batch EXCEPT ![h] = b] \/ batch' = [batch EXCEPT ![h] = Done(batch[h])]
    BY <1>5 DEF HandleCheck
  <2> HIDE DEF b
  <2>3. RefsOK' /\ batch' \in [Handlers -> Batches]
    BY <1>2, <1>3, <1>5, <2>1, <2>2, BatchMoved DEF HandleCheck
  <2>4. QED
    BY <1>2, <1>5, <2>3 DEF HandleCheck, TypeInv, TypeOK, rows, issues, refreshes
<1>6. ASSUME HandleActive(h)
      PROVE  TypeInv'
  <2>1. GoodBatch([batch[h] EXCEPT !.pc = "reset"])
    BY <1>2, <1>6 DEF GoodBatch, Batches, HandleActive
  <2>2. RefsOK' /\ batch' \in [Handlers -> Batches]
    BY <1>2, <1>3, <1>6, <2>1, BatchMoved DEF HandleActive
  <2>3. QED
    BY <1>2, <1>6, <2>2 DEF HandleActive, TypeInv, TypeOK, rows, issues, refreshes
<1>7. ASSUME HandleReset(h)
      PROVE  TypeInv'
  <2>1. RefsOK' /\ batch' \in [Handlers -> Batches]
    BY <1>2, <1>3, <1>7, BatchMoved DEF HandleReset
  <2>2. status' \in [Issues -> IssueStatuses]
    BY <1>2, <1>7 DEF HandleReset, TypeOK, IssueStatuses
  <2>3. QED
    BY <1>2, <1>7, <2>1, <2>2 DEF HandleReset, TypeInv, TypeOK, rows, refreshes
<1>8. ASSUME HandleDone(h)
      PROVE  TypeInv'
  <2>1. GoodBatch(NoBatch)
    BY DEF GoodBatch, NoBatch, Batches
  <2>2. RefsOK' /\ batch' \in [Handlers -> Batches]
    BY <1>2, <1>8, <2>1, BatchMoved DEF HandleDone
  <2>3. owed' \subseteq Agents
    BY <1>2, <1>8 DEF HandleDone, TypeOK, Batches
  <2>4. QED
    BY <1>2, <1>8, <2>2, <2>3 DEF HandleDone, TypeInv, TypeOK, rows, issues, refreshes
<1>9. QED
  BY <1>1, <1>4, <1>5, <1>6, <1>7, <1>8

LEMMA CancelTypesNext ==
  ASSUME TypeInv, CancelNext
  PROVE  TypeInv'
<1>1. Kept /\ TypeOK
  BY CancelAndAgentRows, RowsKept DEF TypeInv
<1>2. ASSUME NEW S, CancelRows(S), UNCHANGED <<delivered, agent, issues, requests, refreshes, crashes>>
      PROVE  TypeInv'
  <2>1. RefsOK'
    BY <1>1, <1>2, RefsKept DEF requests
  <2>2. task' \in [TaskIds -> Row] /\ owed' \subseteq Agents
    BY <1>1, <1>2, CancelTypes
  <2>3. QED
    BY <1>1, <1>2, <2>1, <2>2 DEF TypeInv, TypeOK, issues, requests, refreshes
<1>3. ASSUME NEW s \in Chats, DeleteChatSession(s)
      PROVE  TypeInv'
  <2> DEFINE S == {k \in TaskIds : task[k].link = s}
  <2>1. RefsOK'
    BY <1>1, <1>3, RefsKept DEF DeleteChatSession
  <2>2. task' \in [TaskIds -> Row]
    <3>1. Cancelled(S) \in [TaskIds -> Row]
      BY <1>1, CancelledType
    <3>2. ASSUME NEW k \in S
          PROVE  [Cancelled(S)[k] EXCEPT !.link = Orphan] \in Row
      <4>1. task[k] \in RealRow
        BY <1>1, RowOf, Links0 DEF NoRow, Links
      <4>2. Cancelled(S)[k] \in RealRow
        BY <4>1 DEF Cancelled, RealRow, Live, Ended
      <4>3. QED
        BY <4>2 DEF RealRow, Row, Links
    <3>3. \A k \in TaskIds : task[k] \in Row
      BY <1>1 DEF TypeOK
    <3>4. QED
      BY <1>3, <3>2, <3>3 DEF DeleteChatSession
  <2>3. owed' \subseteq Agents
    <3>1. AgentsOf(S \cap In(Live)) \subseteq Agents
      BY <1>1, AgentsOfLive DEF In, Live
    <3>2. QED
      BY <1>1, <1>3, <3>1 DEF DeleteChatSession, TypeOK
  <2>4. enq' \in [Enqueuers -> Requests]
    BY <1>1, <1>3 DEF DeleteChatSession, TypeOK, Requests
  <2>5. QED
    BY <1>1, <1>3, <2>1, <2>2, <2>3, <2>4 DEF DeleteChatSession, TypeInv, TypeOK, issues,
                                              refreshes
<1>4. QED
  BY <1>2, <1>3
     DEF CancelNext, CancelTask, CancelTasksForIssue, CancelTasksForAgent, DeleteComment

LEMMA AgentTypes ==
  ASSUME TypeInv, AgentNext
  PROVE  TypeInv'
<1>1. Kept /\ TypeOK /\ RefsOK
  BY CancelAndAgentRows, RowsKept DEF TypeInv
<1>2. RefsOK'
  BY <1>1, RefsKept
     DEF AgentNext, ReconcileRead, ReconcileWrite, ReconcileFails, ArchiveAgent, ArchiveCancel,
         RestoreAgent, MoveAgent, RevokeMember, requests
<1>3. ASSUME NEW f \in Refreshers,
             (\E a \in Agents : ReconcileRead(f, a)) \/ ReconcileWrite(f) \/ ReconcileFails(f)
      PROVE  TypeOK'
  <2>1. /\ None \notin Agents /\ NoRefresh \in Refreshes
        /\ refresh[f] # NoRefresh
             => refresh[f].agent \in Agents /\ refresh[f].status \in {"idle", "working"}
    BY <1>1, NoneAssumption DEF NoneAssumption, TypeOK, Refreshes
  <2>2. refresh' \in [Refreshers -> Refreshes]
    <3>1. ASSUME NEW a \in Agents
          PROVE  [agent |-> a, status |-> IF HasActive(a) THEN "working" ELSE "idle"] \in Refreshes
      BY DEF Refreshes
    <3>2. refresh \in [Refreshers -> Refreshes]
      BY <1>1 DEF TypeOK
    <3>3. QED
      BY <1>3, <2>1, <3>1, <3>2 DEF ReconcileRead, ReconcileWrite, ReconcileFails
  <2>3. agent' \in [Agents -> [runtime : Runtimes, archived : BOOLEAN,
                               status : {"idle", "working"}]]
    BY <1>1, <1>3, <2>1 DEF ReconcileRead, ReconcileWrite, ReconcileFails, TypeOK
  <2>4. doubtful' \subseteq Agents /\ owed' \subseteq Agents
    BY <1>1, <1>3, <2>1 DEF ReconcileRead, ReconcileWrite, ReconcileFails, TypeOK
  <2>5. QED
    BY <1>1, <1>3, <2>2, <2>3, <2>4
       DEF ReconcileRead, ReconcileWrite, ReconcileFails, TypeOK, rows, issues, requests
<1>4. ASSUME NEW a \in Agents, ArchiveAgent(a)
      PROVE  TypeOK'
  <2>1. agent' \in [Agents -> [runtime : Runtimes, archived : BOOLEAN,
                               status : {"idle", "working"}]]
    BY <1>1, <1>4 DEF ArchiveAgent, TypeOK
  <2>2. QED
    BY <1>1, <1>4, <2>1 DEF ArchiveAgent, TypeOK, rows, issues, refreshes
<1>5. ASSUME NEW a \in Agents, ArchiveCancel(a)
      PROVE  TypeOK'
  BY <1>1, <1>5, CancelledType DEF ArchiveCancel, TypeOK, issues
<1>6. ASSUME NEW a \in Agents, RestoreAgent(a)
      PROVE  TypeOK'
  <2>1. agent' \in [Agents -> [runtime : Runtimes, archived : BOOLEAN,
                               status : {"idle", "working"}]]
    BY <1>1, <1>6 DEF RestoreAgent, TypeOK
  <2>2. QED
    BY <1>1, <1>6, <2>1 DEF RestoreAgent, TypeOK, rows, issues, requests, refreshes
<1>7. ASSUME NEW a \in Agents, NEW rt \in Runtimes, MoveAgent(a, rt)
      PROVE  TypeOK'
  <2>1. agent' \in [Agents -> [runtime : Runtimes, archived : BOOLEAN,
                               status : {"idle", "working"}]]
    BY <1>1, <1>7 DEF MoveAgent, TypeOK
  <2>2. QED
    BY <1>1, <1>7, <2>1 DEF MoveAgent, TypeOK, rows, issues, requests, refreshes
<1>8. ASSUME NEW rts \in SUBSET Runtimes, RevokeMember(rts)
      PROVE  TypeOK'
  <2>1. agent' \in [Agents -> [runtime : Runtimes, archived : BOOLEAN,
                               status : {"idle", "working"}]]
    <3> DEFINE R == [runtime : Runtimes, archived : BOOLEAN, status : {"idle", "working"}]
    <3>1. agent \in [Agents -> R]
      BY <1>1 DEF TypeOK
    <3>2. \A a \in Agents : [agent[a] EXCEPT !.archived = TRUE] \in R
      BY <3>1
    <3> HIDE DEF R
    <3>3. agent' \in [Agents -> R]
      BY <1>8, <3>1, <3>2 DEF RevokeMember
    <3>4. QED
      BY <3>3 DEF R
  <2>2. task' \in [TaskIds -> Row] /\ owed' \subseteq Agents
    BY <1>1, <1>8, CancelTypes DEF RevokeMember
  <2>3. QED
    BY <1>1, <1>8, <2>1, <2>2 DEF RevokeMember, TypeOK, issues, requests, refreshes
<1>9. QED
  BY <1>2, <1>3, <1>4, <1>5, <1>6, <1>7, <1>8 DEF AgentNext, TypeInv

LEMMA CrashTypes ==
  ASSUME TypeInv, Crash
  PROVE  TypeInv'
<1>1. crashes' \in 0 .. MaxCrashes
  BY BoundsAssumption DEF Crash, TypeInv, TypeOK
<1>2. /\ enq' \in [Enqueuers -> Requests] /\ claim' \in [Claimers -> Claims]
      /\ batch' \in [Handlers -> Batches]
  BY DEF Crash, Requests, Claims, Batches, NoBatch
<1>3. RefsOK'
  BY DEF Crash, RefsOK, NoClaim, NoBatch
<1>4. refresh' \in [Refreshers -> Refreshes] /\ doubtful' \subseteq Agents
  <2>1. Refreshing \subseteq Agents
    <3>1. \A h \in Handlers : \A k \in batch[h].rows : task[k].agent \in Agents
      BY RowOf DEF TypeInv, TypeOK, RefsOK, In
    <3>2. QED
      BY <3>1 DEF Refreshing, AgentsOf, TypeInv, TypeOK, Batches
  <2>2. QED
    BY <2>1 DEF Crash, TypeInv, TypeOK, Refreshes
<1>5. QED
  BY <1>1, <1>2, <1>3, <1>4 DEF Crash, TypeInv, TypeOK, rows, issues

LEMMA InitTypes == Init => TypeInv
<1> SUFFICES ASSUME Init PROVE TypeInv
  OBVIOUS
<1>1. task \in [TaskIds -> Row]
  BY DEF Init, Row
<1>2. agent \in [Agents -> [runtime : Runtimes, archived : BOOLEAN, status : {"idle", "working"}]]
  BY DEF Init
<1>3. status \in [Issues -> IssueStatuses]
  BY DEF Init, IssueStatuses
<1>4. /\ enq \in [Enqueuers -> Requests] /\ claim \in [Claimers -> Claims]
      /\ batch \in [Handlers -> Batches]
  BY DEF Init, Requests, Claims, Batches, NoBatch
<1>5. crashes \in 0 .. MaxCrashes
  BY BoundsAssumption DEF Init
<1>6. RefsOK
  BY DEF Init, RefsOK, NoClaim, NoBatch
<1>7. refresh \in [Refreshers -> Refreshes]
  BY DEF Init, Refreshes
<1>8. QED
  BY <1>1, <1>2, <1>3, <1>4, <1>5, <1>6, <1>7 DEF Init, TypeInv, TypeOK

LEMMA TypeStep == TypeInv /\ [Next]_vars => TypeInv'
<1> SUFFICES ASSUME TypeInv, [Next]_vars PROVE TypeInv'
  OBVIOUS
<1>1. CASE Next
  BY <1>1, EnqueueTypes, ClaimTypes, ReportTypes, SweepTypes, HandleTypes, CancelTypesNext,
     AgentTypes, CrashTypes DEF Next
<1>2. CASE UNCHANGED vars
  BY <1>2 DEF TypeInv, TypeOK, RefsOK, vars, rows, issues, requests, refreshes, In
<1>3. QED
  BY <1>1, <1>2

LEMMA TypeInvariant == Spec => []TypeInv
BY InitTypes, TypeStep, PTL DEF Spec

(* Every variable stays in its type. *)
THEOREM TypeCorrect == Spec => []TypeOK
<1>1. TypeInv => TypeOK
  BY DEF TypeInv
<1>2. QED
  BY <1>1, TypeInvariant, PTL

=============================================================================
