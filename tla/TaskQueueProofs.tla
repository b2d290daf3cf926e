-------------------------- MODULE TaskQueueProofs --------------------------
(* The lanes of issues, with the refinement of SerialLanes; retries: no    *)
(* failure is retried twice; by how much racing claims can exceed an       *)
(* agent's capacity and fill the other lanes; and the status of agents.    *)
(* For every value of the constants.                                       *)
EXTENDS TaskQueueTypes, FiniteSetTheorems

(* A claim is moved by its own statements, or ended by a crash. *)
LEMMA ClaimMoves ==
  ASSUME TypeOK, [Next]_vars, NEW c \in Claimers, claim'[c] # claim[c]
  PROVE  \/ \E rt \in Runtimes : ClaimList(c, rt)
         \/ ClaimCount(c) \/ ClaimSnapshot(c) \/ ClaimNothing(c)
         \/ \E k \in TaskIds : ClaimUpdate(c, k)
         \/ Crash
<1>1. CASE ClaimNext
  <2>1. PICK d \in Claimers :
          \/ \E rt \in Runtimes : ClaimList(d, rt)
          \/ ClaimCount(d) \/ ClaimSnapshot(d) \/ ClaimNothing(d)
          \/ \E k \in TaskIds : ClaimUpdate(d, k)
    BY <1>1 DEF ClaimNext
  <2>2. CASE d # c
    BY <2>1, <2>2 DEF ClaimList, ClaimCount, ClaimSnapshot, ClaimNothing, ClaimUpdate, TypeOK
  <2>3. QED
    BY <2>1, <2>2
<1>2. CASE Crash
  BY <1>2
<1>3. QED
  BY <1>1, <1>2
     DEF Next, vars, requests, EnqueueNext, Request, Rerun, Reassign, EnqueueCancel,
         EnqueueCheck, EnqueueInsert, ReportNext, StartTask, CompleteTask, FailTask,
         UpdateIssueStatus, SweepNext, SweepStale, SweepOffline, SweepQueued, RecoverOrphans,
         Sweep, HandleNext, HandleRetry, HandleCheck, HandleActive, HandleReset, HandleDone,
         CancelNext, CancelTask, CancelTasksForIssue, CancelTasksForAgent, DeleteChatSession,
         DeleteComment, AgentNext, ReconcileRead, ReconcileWrite, ReconcileFails, MoveAgent,
         ArchiveAgent, ArchiveCancel, RestoreAgent, RevokeMember

(* Where each of them leaves it. *)
LEMMA ClaimLeft ==
  ASSUME TypeOK, NEW c \in Claimers
  PROVE  /\ \A rt \in Runtimes : ClaimList(c, rt) => claim'[c].pc = "count"
         /\ ClaimCount(c) => \/ claim'[c].pc \in {"idle", "count"}
                             \/ /\ claim'[c].pc = "snapshot"
                                /\ HasCapacity(claim'[c].agent)
         /\ ClaimNothing(c) => claim'[c].pc \in {"idle", "count"}
         /\ \A k \in TaskIds : ClaimUpdate(c, k) => claim'[c].pc \in {"idle", "count"}
         /\ Crash => claim'[c].pc = "idle"
<1>1. \A a : NextAgent(c, a).pc \in {"idle", "count"}
  BY DEF NextAgent, NoClaim
<1>2. \A rt \in Runtimes : ClaimList(c, rt) => claim'[c].pc = "count"
  BY DEF ClaimList, NoClaim, TypeOK
<1>3. ASSUME ClaimCount(c)
      PROVE  \/ claim'[c].pc \in {"idle", "count"}
             \/ /\ claim'[c].pc = "snapshot"
                /\ HasCapacity(claim'[c].agent)
  <2>1. claim[c] \in Claims
    BY DEF TypeOK
  <2>2. \A a : /\ [claim[c] EXCEPT !.pc = "snapshot", !.agent = a].pc = "snapshot"
               /\ [claim[c] EXCEPT !.pc = "snapshot", !.agent = a].agent = a
    BY <2>1 DEF Claims, NoClaim, LoopClaim, AgentClaim
  <2>3. PICK f \in TaskIds :
          claim' = [claim EXCEPT ![c] =
            IF HasCapacity(task[f].agent)
            THEN [@ EXCEPT !.pc = "snapshot", !.agent = task[f].agent]
            ELSE NextAgent(c, task[f].agent)]
    BY <1>3 DEF ClaimCount
  <2>4. CASE HasCapacity(task[f].agent)
    <3>1. claim'[c] = [claim[c] EXCEPT !.pc = "snapshot", !.agent = task[f].agent]
      BY <2>3, <2>4 DEF TypeOK
    <3>2. claim'[c].agent = task[f].agent /\ claim'[c].pc = "snapshot"
      BY <2>2, <3>1
    <3> QED BY <2>4, <3>2
  <2>5. CASE ~HasCapacity(task[f].agent)
    BY <1>1, <2>3, <2>5 DEF TypeOK
  <2>6. QED
    BY <2>4, <2>5
<1>4. ClaimNothing(c) => claim'[c].pc \in {"idle", "count"}
  BY <1>1 DEF ClaimNothing, TypeOK
<1>5. \A k \in TaskIds : ClaimUpdate(c, k) => claim'[c].pc \in {"idle", "count"}
  BY <1>1 DEF ClaimUpdate, NoClaim, TypeOK
<1>6. Crash => claim'[c].pc = "idle"
  BY DEF Crash, NoClaim
<1>7. QED
  BY <1>2, <1>3, <1>4, <1>5, <1>6

(* The queue does not order the snapshots of claims: a claim that is about *)
(* to update took its snapshot just now, or has had it all along.          *)
LEMMA ClaimSteps ==
  ASSUME TypeOK, [Next]_vars, NEW c \in Claimers, claim'[c].pc = "update"
  PROVE  claim'[c] = claim[c] \/ ClaimSnapshot(c)
BY ClaimMoves, ClaimLeft

-----------------------------------------------------------------------------
(* IssueInv is inductive *)

LEMMA PendingStep ==
  ASSUME TypeOK, IssueInv, RowStep
  PROVE  PendingUnique'
<1>1. CASE task' = task
  BY <1>1 DEF IssueInv, PendingUnique, In
<1>2. ASSUME NEW k \in TaskIds, Inserted(k)
      PROVE  PendingUnique'
  BY <1>2 DEF IssueInv, PendingUnique, Inserted, Conflict, In, Pending
<1>3. ASSUME NEW k \in TaskIds, NEW from, NEW to, to \in Pending => from \in Pending,
             Advanced(k, from, to)
      PROVE  PendingUnique'
  BY <1>3 DEF IssueInv, PendingUnique, Advanced, SameRow, In
<1>4. ASSUME NEW S, NEW how \in {"failed", "cancelled"}, EndedAs(S, how)
      PROVE  PendingUnique'
  BY <1>4 DEF IssueInv, PendingUnique, EndedAs, SameRow, In, Pending
<1>5. QED
  BY <1>1, <1>2, <1>3, <1>4 DEF RowStep, Pending

(* The row a claim dispatches has no active row in its lane. *)
LEMMA DispatchAlone ==
  ASSUME IssueInv, NEW c \in Claimers, NEW k \in TaskIds, ClaimUpdate(c, k),
         task[k].link \in Issues
  PROVE  \A j \in In(Active) : ~SameLane(j, k)
BY DEF IssueInv, SnapshotsHold, ClaimUpdate, IsFirst, Hits

LEMMA SerialStep ==
  ASSUME TypeOK, IssueInv, RowStep
  PROVE  IssueSerialized'
<1>1. CASE task' = task
  BY <1>1 DEF IssueInv, IssueSerialized, In
<1>2. ASSUME NEW k \in TaskIds, Inserted(k)
      PROVE  IssueSerialized'
  BY <1>2 DEF IssueInv, IssueSerialized, Inserted, In, Active
<1>3. ASSUME NEW c \in Claimers, NEW k \in TaskIds,
             ClaimUpdate(c, k), Advanced(k, "queued", "dispatched")
      PROVE  IssueSerialized'
  <2>1. task[k].link \in Issues => \A j \in In(Active) : ~SameLane(j, k)
    BY <1>3, DispatchAlone
  <2>2. QED
    BY <1>3, <2>1, Links0
       DEF IssueInv, IssueSerialized, Advanced, SameRow, SameLane, In, Active
<1>4. ASSUME NEW k \in TaskIds, NEW from, NEW to, to \in Active => from \in Active,
             Advanced(k, from, to)
      PROVE  IssueSerialized'
  BY <1>4 DEF IssueInv, IssueSerialized, Advanced, SameRow, In
<1>5. ASSUME NEW S, NEW how \in {"failed", "cancelled"}, EndedAs(S, how)
      PROVE  IssueSerialized'
  BY <1>5 DEF IssueInv, IssueSerialized, EndedAs, SameRow, In, Active
<1>6. QED
  BY <1>1, <1>2, <1>3, <1>4, <1>5 DEF RowStep, Active

(* A row that becomes active was pending in its lane, so no other row of   *)
(* the lane was queued.                                                    *)
LEMMA SnapshotStep ==
  ASSUME TypeInv, IssueInv, [Next]_vars, RowStep, Kept
  PROVE  SnapshotsHold'
<1> SUFFICES ASSUME NEW c \in Claimers, claim'[c].pc = "update", NEW k \in claim'[c].snap
             PROVE  /\ task'[k].status # "none"
                    /\ task'[k].status = "queued" /\ task'[k].link \in Issues =>
                         \A j \in TaskIds : task'[j].status \in Active =>
                           ~(/\ task'[j].agent = task'[k].agent
                             /\ task'[j].link = task'[k].link)
  BY LinksAssumption DEF LinksAssumption, SnapshotsHold, SameLane, In
<1>1. CASE ClaimSnapshot(c)
  <2>1. task' = task
    BY <1>1 DEF ClaimSnapshot, rows
  <2>2. Claimable(k)
    BY <1>1 DEF ClaimSnapshot, TypeInv, TypeOK
  <2>3. QED
    BY <2>1, <2>2, Links0 DEF Claimable, SameLane, In
<1>2. CASE claim'[c] = claim[c]
  <2>1. /\ k \in TaskIds /\ task[k].status # "none"
        /\ task[k].status = "queued" /\ task[k].link \in Issues
             => \A j \in In(Active) : ~SameLane(j, k)
    <3>1. claim[c] \in Claims
      BY DEF TypeInv, TypeOK
    <3>2. k \in TaskIds
      BY <1>2, <3>1 DEF Claims, NoClaim, LoopClaim, AgentClaim
    <3>3. QED
      BY <1>2, <3>2 DEF IssueInv, SnapshotsHold
  <2>2. task'[k].status # "none" /\ SameRow(k)
    BY <2>1 DEF Kept
  <2>3. CASE task' = task
    BY <2>1, <2>3, Links0 DEF SameLane, In
  <2>4. ASSUME NEW j \in TaskIds, Inserted(j)
        PROVE  /\ task'[k] = task[k]
               /\ \A i \in TaskIds : task'[i].status \in Active => task'[i] = task[i]
    BY <2>1, <2>4 DEF Inserted, Active
  <2>5. ASSUME NEW d \in Claimers, NEW j \in TaskIds, Advanced(j, "queued", "dispatched"),
               task'[k].status = "queued", task'[k].link \in Issues
        PROVE  \A i \in TaskIds : task'[i].status \in Active =>
                 ~(task'[i].agent = task'[k].agent /\ task'[i].link = task'[k].link)
    <3>1. k # j /\ task[k].status = "queued" /\ task'[k] = task[k]
      BY <2>1, <2>5 DEF Advanced
    <3>2. ~(task[j].agent = task[k].agent /\ task[j].link = task[k].link)
      BY <2>1, <2>5, <3>1 DEF IssueInv, PendingUnique, Advanced, In, Pending
    <3>3. \A i \in TaskIds \ {j} : task'[i] = task[i]
      BY <2>5 DEF Advanced
    <3>4. QED
      BY <2>1, <2>5, <3>1, <3>2, <3>3, Links0 DEF Advanced, SameRow, SameLane, In
  <2>6. ASSUME NEW j \in TaskIds, NEW from \in Active, NEW to \in {"running", "completed"},
               Advanced(j, from, to), task'[k].status = "queued"
        PROVE  /\ task'[k] = task[k]
               /\ \A i \in TaskIds : task'[i].status \in Active =>
                    task[i].status \in Active /\ SameRow(i)
    BY <2>1, <2>6 DEF Advanced, SameRow, Active
  <2>7. ASSUME NEW S, NEW how \in {"failed", "cancelled"}, EndedAs(S, how),
               task'[k].status = "queued"
        PROVE  /\ task[k].status = "queued" /\ SameRow(k)
               /\ \A i \in TaskIds : task'[i].status \in Active =>
                    task[i].status \in Active /\ SameRow(i)
    BY <2>1, <2>7 DEF EndedAs, Active
  (* In each other case the rows that are active now were active before. *)
  <2>8. ASSUME task'[k].status = "queued", task'[k].link \in Issues,
               task[k].status = "queued", SameRow(k),
               \A i \in TaskIds : task'[i].status \in Active =>
                 task[i].status \in Active /\ SameRow(i)
        PROVE  \A i \in TaskIds : task'[i].status \in Active =>
                 ~(task'[i].agent = task'[k].agent /\ task'[i].link = task'[k].link)
    <3>1. task[k].link = task'[k].link /\ task[k].agent = task'[k].agent
      BY <2>8 DEF SameRow
    <3>2. \A i \in TaskIds : task[i].status \in Active =>
            ~(task[i].agent = task[k].agent /\ task[i].link = task[k].link)
      BY <2>1, <2>8, <3>1, Links0 DEF SameLane, In
    <3>3. QED
      BY <2>8, <3>1, <3>2 DEF SameRow
  <2>9. QED
    BY <2>1, <2>2, <2>3, <2>4, <2>5, <2>6, <2>7, <2>8 DEF RowStep, SameRow, Active
<1>3. QED
  BY <1>1, <1>2, ClaimSteps DEF TypeInv

LEMMA IssueInvStep == TypeInv /\ IssueInv /\ [Next]_vars => IssueInv'
<1> SUFFICES ASSUME TypeInv, IssueInv, [Next]_vars PROVE IssueInv'
  OBVIOUS
<1>1. RowStep /\ Kept
  BY RowSteps, RowsKept DEF TypeInv
<1>2. QED
  BY <1>1, PendingStep, SerialStep, SnapshotStep DEF IssueInv, TypeInv

LEMMA IssueInvInit == Init => IssueInv
BY DEF Init, IssueInv, PendingUnique, IssueSerialized, SnapshotsHold, In, Pending, Active,
       NoRow, NoClaim

(* The lanes of issues are serial, and the reason why: the unique index    *)
(* and the snapshots of claims together.                                   *)
THEOREM IssueInvariant == Spec => []IssueInv
BY IssueInvInit, IssueInvStep, TypeInvariant, PTL DEF Spec

(* An agent never works on an issue twice at a time, for any number of     *)
(* claimers, enqueuers, sweeps, crashes and rows.                          *)
THEOREM IssuesAreSerialized == Spec => []IssueSerialized
<1>1. IssueInv => IssueSerialized
  BY DEF IssueInv
<1>2. QED
  BY <1>1, IssueInvariant, PTL

-----------------------------------------------------------------------------
(* Refinement: every step of the queue is a step of SerialLanes *)

LEMMA AbstractRows ==
  ASSUME TypeOK
  PROVE  /\ st \in [TaskIds -> {"none"} \cup Live \cup Ended]
         /\ \A k \in TaskIds :
              /\ task[k].link \in Issues =>
                   st[k] = task[k].status /\ lane[k] = <<task[k].agent, task[k].link>>
              /\ task[k].link \notin Issues => st[k] = "none" /\ lane[k] = NoLane
              /\ task[k].status = "none" => st[k] = "none" /\ lane[k] = NoLane
<1>1. \A k \in TaskIds : task[k].status \in {"none"} \cup Live \cup Ended
  BY RowOf
<1>2. \A k \in TaskIds : task[k].status = "none" => task[k].link \notin Issues
  BY RowOf, Links0 DEF NoRow
<1>3. QED
  BY <1>1, <1>2 DEF st, lane

(* The lane of a task is worth what its row says, before and after a step. *)
LEMMA AbstractStep ==
  ASSUME TypeInv, IssueInv, [Next]_vars
  PROVE  [Abstract!Next]_<<st, lane>>
<1> DEFINE Same(k) == st'[k] = st[k] /\ lane'[k] = lane[k]
<1>1. RowStep /\ Kept /\ TypeOK
  BY RowSteps, RowsKept DEF TypeInv
<1>2. \A k \in TaskIds :
        /\ task[k].link \in Issues =>
             st[k] = task[k].status /\ lane[k] = <<task[k].agent, task[k].link>>
        /\ task[k].link \notin Issues => st[k] = "none" /\ lane[k] = NoLane
        /\ task[k].status = "none" => st[k] = "none" /\ lane[k] = NoLane
  BY <1>1, AbstractRows
<1>3. \A k \in TaskIds :
        /\ task'[k].link \in Issues =>
             st'[k] = task'[k].status /\ lane'[k] = <<task'[k].agent, task'[k].link>>
        /\ task'[k].link \notin Issues => st'[k] = "none" /\ lane'[k] = NoLane
  BY DEF st, lane, NoLane
<1>4. \A k \in TaskIds : task'[k] = task[k] => Same(k)
  BY <1>2, <1>3
<1>5. (\A k \in TaskIds : Same(k)) => UNCHANGED <<st, lane>>
  BY DEF st, lane
<1>6. ASSUME NEW k \in TaskIds, NEW s, NEW l, st'[k] = s, lane'[k] = l,
             \A j \in TaskIds \ {k} : Same(j)
      PROVE  st' = [st EXCEPT ![k] = s] /\ lane' = [lane EXCEPT ![k] = l]
  BY <1>6 DEF st, lane
<1>7. ASSUME NEW k \in TaskIds, Inserted(k)
      PROVE  [Abstract!Next]_<<st, lane>>
  <2> DEFINE l == <<task'[k].agent, task'[k].link>>
  <2>1. \A j \in TaskIds \ {k} : Same(j)
    BY <1>4, <1>7 DEF Inserted
  <2>2. st[k] = "none" /\ lane[k] = NoLane
    BY <1>2, <1>7 DEF Inserted
  <2>3. CASE task'[k].link \notin Issues
    BY <1>3, <1>5, <2>1, <2>2, <2>3
  <2>4. CASE task'[k].link \in Issues
    <3>1. st'[k] = "queued" /\ lane'[k] = l /\ l \in Agents \X Issues
      BY <1>3, <1>7, <2>4 DEF Inserted
    <3>2. l # NoLane
      BY <1>7, Links0 DEF Inserted, NoLane
    <3>3. \A j \in TaskIds : ~(lane[j] = l /\ st[j] \in Abstract!Pending)
      BY <1>2, <1>7, <2>4, <3>2 DEF Inserted, Conflict, In, Pending, Abstract!Pending
    <3>4. Abstract!Enqueue(k, l)
      BY <1>6, <2>1, <2>2, <3>1, <3>3 DEF Abstract!Enqueue
    <3>5. QED
      BY <3>1, <3>4 DEF Abstract!Next
  <2>5. QED
    BY <2>3, <2>4
<1>8. ASSUME NEW k \in TaskIds, NEW from \in Live, NEW to, Advanced(k, from, to)
      PROVE  /\ \A j \in TaskIds \ {k} : Same(j)
             /\ task[k].link \notin Issues => UNCHANGED <<st, lane>>
             /\ task[k].link \in Issues =>
                  /\ st[k] = from /\ st' = [st EXCEPT ![k] = to]
                  /\ UNCHANGED lane
  <2>1. \A j \in TaskIds \ {k} : Same(j)
    BY <1>4, <1>8 DEF Advanced
  <2>2. CASE task[k].link \notin Issues
    BY <1>2, <1>3, <1>5, <1>8, <2>1, <2>2 DEF Advanced, SameRow
  <2>3. CASE task[k].link \in Issues
    <3>1. st[k] = from /\ st'[k] = to /\ lane'[k] = lane[k]
      BY <1>2, <1>3, <1>8, <2>3 DEF Advanced, SameRow
    <3>2. st' = [st EXCEPT ![k] = to]
      BY <1>6, <2>1, <3>1
    <3>3. UNCHANGED lane
      BY <2>1, <3>1 DEF lane
    <3>4. QED
      BY <2>1, <2>3, <3>1, <3>2, <3>3
  <2>4. QED
    BY <2>2, <2>3
<1>9. ASSUME NEW c \in Claimers, NEW k \in TaskIds,
             ClaimUpdate(c, k), Advanced(k, "queued", "dispatched")
      PROVE  [Abstract!Next]_<<st, lane>>
  <2>1. CASE task[k].link \in Issues
    <3>1. \A j \in In(Active) : ~SameLane(j, k)
      BY <1>9, <2>1, DispatchAlone
    <3>2. lane[k] # NoLane
      BY <1>1, <1>2, <2>1, Links0 DEF NoLane
    <3>3. \A j \in TaskIds : ~(lane[j] = lane[k] /\ st[j] \in Abstract!Active)
      BY <1>2, <2>1, <3>1, <3>2, Links0 DEF SameLane, In, Active, Abstract!Active
    <3>4. Abstract!Claim(k)
      BY <1>8, <1>9, <2>1, <3>3 DEF Abstract!Claim, Live
    <3>5. QED
      BY <3>4 DEF Abstract!Next
  <2>2. QED
    BY <1>8, <1>9, <2>1 DEF Live
<1>10. ASSUME NEW k \in TaskIds,
              Advanced(k, "dispatched", "running") \/ Advanced(k, "running", "completed")
       PROVE  [Abstract!Next]_<<st, lane>>
  BY <1>8, <1>10 DEF Live, Abstract!Next, Abstract!Start, Abstract!Finish
<1>11. ASSUME NEW S \in SUBSET TaskIds, NEW how \in {"failed", "cancelled"}, EndedAs(S, how)
       PROVE  [Abstract!Next]_<<st, lane>>
  <2> DEFINE T == {k \in S : task[k].link \in Issues}
  <2>1. \A k \in T : st[k] \in Abstract!Live
    BY <1>2, <1>11 DEF EndedAs, In, Live, Abstract!Live
  <2>2. \A k \in TaskIds : st'[k] = (IF k \in T THEN how ELSE st[k]) /\ lane'[k] = lane[k]
    BY <1>2, <1>3, <1>11 DEF EndedAs, SameRow
  <2>3. st' = [k \in TaskIds |-> IF k \in T THEN how ELSE st[k]] /\ lane' = lane
    BY <2>2 DEF st, lane
  <2>4. Abstract!End(T, how)
    BY <2>1, <2>3 DEF Abstract!End
  <2>5. QED
    BY <2>4 DEF Abstract!Next
<1>12. QED
  BY <1>1, <1>4, <1>5, <1>7, <1>9, <1>10, <1>11 DEF RowStep

LEMMA AbstractInit == Init => Abstract!Init
BY Links0 DEF Init, Abstract!Init, st, lane, NoRow

(* The queue implements serial lanes. *)
THEOREM Refinement == Spec => ImplementsSerialLanes
<1>1. TypeInv /\ IssueInv /\ [Next]_vars => [Abstract!Next]_<<st, lane>>
  BY AbstractStep
<1>2. QED
  BY <1>1, AbstractInit, TypeInvariant, IssueInvariant, PTL
     DEF Spec, ImplementsSerialLanes, Abstract!Spec

-----------------------------------------------------------------------------
(* Retries: no failure is retried twice, whoever reports it and however    *)
(* often.                                                                  *)
(* RetriedOnce alone is not inductive.  What makes it so: the statement    *)
(* that fails a row hands it to one batch only, and a batch lets go of a   *)
(* row it has retried.                                                     *)
Untouched(p) == \A k \in TaskIds : task[k].parent # p

BatchesApart ==
  \A g, h \in Handlers : g # h => batch[g].rows \cap batch[h].rows = {}

WaitingUntouched ==
  \A h \in Handlers : \A p \in batch[h].rows :
    (batch[h].pc = "retry" \/ p # batch[h].cur) => Untouched(p)

RetryInv == RetriedOnce /\ BatchesApart /\ WaitingUntouched

(* Without a new retry the parents stay as they are. *)
SameParents ==
  \A k \in TaskIds : /\ task'[k].parent = task[k].parent
                     /\ task[k].parent # None => task'[k].attempt = task[k].attempt

LEMMA NoRetryParents ==
  ASSUME TypeOK, RowStep, ~\E h \in Handlers, p \in TaskIds : HandleRetry(h, p)
  PROVE  SameParents
<1>1. ASSUME NEW k \in TaskIds, Inserted(k)
      PROVE  SameParents
  <2>1. task[k].parent = None /\ task'[k].parent = None
    BY <1>1, RowOf DEF Inserted, Enqueues, Retries, NoRow
  <2>2. QED
    BY <1>1, <2>1 DEF Inserted, SameParents
<1>2. ASSUME NEW k \in TaskIds, NEW from, NEW to, Advanced(k, from, to)
      PROVE  SameParents
  BY <1>2 DEF Advanced, SameRow, SameParents
<1>3. ASSUME NEW S, NEW how, EndedAs(S, how)
      PROVE  SameParents
  BY <1>3 DEF EndedAs, SameRow, SameParents
<1>4. QED
  BY <1>1, <1>2, <1>3 DEF RowStep, SameParents

LEMMA RetriedKept ==
  ASSUME TypeOK, RetriedOnce, Kept, SameParents
  PROVE  /\ RetriedOnce'
         /\ \A p : Untouched(p) => \A k \in TaskIds : task'[k].parent # p
<1>1. \A p : Untouched(p) => \A k \in TaskIds : task'[k].parent # p
  BY DEF SameParents, Untouched
<1>2. ASSUME NEW k \in TaskIds, task'[k].parent # None
      PROVE  /\ task'[task'[k].parent].status = "failed"
             /\ task'[k].attempt = task'[task'[k].parent].attempt + 1
             /\ \A j \in TaskIds \ {k} : task'[j].parent # task'[k].parent
  <2>1. task[k].parent # None /\ task'[k].parent = task[k].parent
        /\ task'[k].attempt = task[k].attempt
    BY <1>2 DEF SameParents
  <2>2. task[k].parent \in TaskIds
    BY <2>1 DEF TypeOK, Row, RealRow, NoRow
  <2>3. task[task[k].parent].status = "failed"
    BY <2>1 DEF RetriedOnce
  <2>4. /\ task'[task[k].parent].status = "failed"
        /\ task'[task[k].parent].attempt = task[task[k].parent].attempt
    BY <2>2, <2>3 DEF Kept, SameRow, Ended
  <2>5. \A j \in TaskIds \ {k} : task'[j].parent # task[k].parent
    BY <2>1 DEF RetriedOnce, SameParents
  <2>6. QED
    BY <2>1, <2>4, <2>5 DEF RetriedOnce
<1>3. QED
  BY <1>1, <1>2 DEF RetriedOnce

(* Batches that only let go of rows, or move on in them. *)
LEMMA BatchesKept ==
  ASSUME TypeInv, RetryInv, Kept, SameParents,
         \A h \in Handlers :
           \/ batch'[h] = batch[h]
           \/ batch'[h].rows = {}
           \/ /\ batch'[h].rows = batch[h].rows /\ batch'[h].cur = batch[h].cur
              /\ batch[h].pc # "retry" /\ batch'[h].pc # "retry"
           \/ /\ batch'[h].rows = batch[h].rows \ {batch[h].cur}
  PROVE  RetryInv'
<1>1. RetriedOnce' /\ \A p : Untouched(p) => \A k \in TaskIds : task'[k].parent # p
  BY RetriedKept DEF TypeInv, RetryInv
<1>2. \A h \in Handlers : batch'[h].rows \subseteq batch[h].rows
  OBVIOUS
<1>3. BatchesApart'
  BY <1>2 DEF RetryInv, BatchesApart
<1>4. WaitingUntouched'
  BY <1>1 DEF RetryInv, WaitingUntouched, Untouched
<1>5. QED
  BY <1>1, <1>3, <1>4 DEF RetryInv

(* A batch is opened with rows that were live, so no other batch has them  *)
(* and nothing has been retried from them.                                 *)
LEMMA BatchAdded ==
  ASSUME TypeInv, RetryInv, Kept, SameParents,
         NEW h \in Handlers, NEW S, S \subseteq In(Live),
         NEW kind, batch' = [batch EXCEPT ![h] = [NoBatch EXCEPT !.kind = kind, !.rows = S]]
  PROVE  RetryInv'
<1>1. RetriedOnce' /\ \A p : Untouched(p) => \A k \in TaskIds : task'[k].parent # p
  BY RetriedKept DEF TypeInv, RetryInv
<1>2. batch'[h].rows = S /\ \A g \in Handlers \ {h} : batch'[g] = batch[g]
  BY DEF TypeInv, TypeOK, NoBatch
<1>3. \A p \in S : Untouched(p)
  <2>1. \A k \in TaskIds : task[k].parent # None => task[task[k].parent].status = "failed"
    BY DEF RetryInv, RetriedOnce
  <2>2. \A p \in S : p \in TaskIds /\ task[p].status # "failed" /\ p # None
    BY Links0 DEF In, Live
  <2>3. QED
    BY <2>1, <2>2 DEF Untouched
<1>4. \A g \in Handlers : batch[g].rows \cap S = {}
  BY DEF TypeInv, RefsOK, In, Live
<1>5. BatchesApart'
  BY <1>2, <1>4 DEF RetryInv, BatchesApart
<1>6. WaitingUntouched'
  BY <1>1, <1>2, <1>3 DEF RetryInv, WaitingUntouched, Untouched
<1>7. QED
  BY <1>1, <1>5, <1>6 DEF RetryInv

(* HandleRetry goes on with the row, or lets go of it. *)
LEMMA RetryBatch ==
  ASSUME TypeInv, NEW h \in Handlers, NEW p \in TaskIds, HandleRetry(h, p)
  PROVE  /\ p \in batch[h].rows /\ batch[h].pc = "retry"
         /\ \A g \in Handlers \ {h} : batch'[g] = batch[g]
         /\ \/ batch'[h].rows = batch[h].rows /\ batch'[h].cur = p /\ batch'[h].pc # "retry"
            \/ batch'[h].rows = batch[h].rows \ {p}
<1> DEFINE retry == Retryable(p) /\ ~Conflict(task[p].agent, RetryLink(p)) /\ ~Full
           l == task[p].link
           b == [batch[h] EXCEPT !.cur = p, !.agents = @ \cup {task[p].agent},
                                 !.retried = IF retry /\ l \in Issues THEN @ \cup {l} ELSE @]
<1>1. batch[h] \in Batches
  BY DEF TypeInv, TypeOK
<1>2. /\ p \in batch[h].rows /\ batch[h].pc = "retry"
      /\ batch' = [batch EXCEPT ![h] = IF b.kind = "sweep" /\ l \in Issues
                                       THEN [b EXCEPT !.pc = "check"] ELSE Done(b)]
  BY DEF HandleRetry
<1>3. b.rows = batch[h].rows /\ b.cur = p
  BY <1>1 DEF Batches
<1>4. [b EXCEPT !.pc = "check"].rows = batch[h].rows /\ [b EXCEPT !.pc = "check"].cur = p
      /\ [b EXCEPT !.pc = "check"].pc = "check"
  BY <1>1, <1>3 DEF Batches
<1>5. Done(b).rows = batch[h].rows \ {p}
  BY <1>1, <1>3 DEF Batches, Done
<1>6. batch'[h] = [b EXCEPT !.pc = "check"] \/ batch'[h] = Done(b)
  BY <1>2 DEF TypeInv, TypeOK
<1>7. \A g \in Handlers \ {h} : batch'[g] = batch[g]
  BY <1>2 DEF TypeInv, TypeOK
<1> HIDE DEF b
<1>8. QED
  BY <1>2, <1>4, <1>5, <1>6, <1>7

LEMMA RetryStep ==
  ASSUME TypeInv, RetryInv, RowStep, Kept,
         NEW h \in Handlers, NEW p \in TaskIds, HandleRetry(h, p)
  PROVE  RetryInv'
<1>1. /\ p \in batch[h].rows /\ batch[h].pc = "retry"
      /\ \A g \in Handlers \ {h} : batch'[g] = batch[g]
      /\ \/ batch'[h].rows = batch[h].rows /\ batch'[h].cur = p /\ batch'[h].pc # "retry"
         \/ batch'[h].rows = batch[h].rows \ {p}
  BY RetryBatch
<1>2. Untouched(p) /\ task[p].status = "failed"
  BY <1>1 DEF RetryInv, WaitingUntouched, TypeInv, RefsOK, In
(* Rows still to be dealt with are other rows. *)
<1>3. BatchesApart'
  <2>1. \A g \in Handlers : batch'[g].rows \subseteq batch[g].rows
    BY <1>1
  <2>2. QED
    BY <2>1 DEF RetryInv, BatchesApart
<1>4. \A g \in Handlers : \A q \in batch'[g].rows :
        (batch'[g].pc = "retry" \/ q # batch'[g].cur) => Untouched(q) /\ q # p
  BY <1>1 DEF RetryInv, WaitingUntouched, BatchesApart
<1>5. CASE task' = task
  <2>1. RetriedOnce'
    BY <1>5 DEF RetryInv, RetriedOnce
  <2>2. WaitingUntouched'
    BY <1>4, <1>5 DEF WaitingUntouched, Untouched
  <2>3. QED
    BY <1>3, <2>1, <2>2 DEF RetryInv
<1>6. CASE task' # task
  <2>1. PICK k \in TaskIds :
          /\ Fresh(k) /\ Retryable(p)
          /\ task' = [task EXCEPT ![k] = QueuedRow(task[p].agent, task[p].runtime,
                                                   RetryLink(p), task[p].attempt + 1, p)]
    BY <1>6 DEF HandleRetry, RetryRow
  <2>2. /\ task'[k].parent = p /\ task'[k].attempt = task[p].attempt + 1
        /\ \A j \in TaskIds \ {k} : task'[j] = task[j]
    BY <2>1 DEF TypeInv, TypeOK, QueuedRow
  <2>3. k # p /\ task[k].status = "none"
    BY <1>2, <2>1 DEF Fresh
  <2>4. \A j \in TaskIds : task[j].parent # None =>
          /\ task[j].parent \in TaskIds \ {k} /\ task[task[j].parent].status = "failed"
          /\ task[j].attempt = task[task[j].parent].attempt + 1
    <3>1. \A j \in TaskIds : task[j].parent \in TaskIds \cup {None}
      BY DEF TypeInv, TypeOK, Row, RealRow, NoRow
    <3>2. QED
      BY <2>3, <3>1 DEF RetryInv, RetriedOnce
  <2>5. RetriedOnce'
    <3>1. ASSUME NEW j \in TaskIds, task'[j].parent # None
          PROVE  /\ task'[task'[j].parent].status = "failed"
                 /\ task'[j].attempt = task'[task'[j].parent].attempt + 1
      BY <1>2, <2>2, <2>3, <2>4, <3>1
    <3>2. ASSUME NEW j \in TaskIds, task'[j].parent # None, NEW i \in TaskIds \ {j}
          PROVE  task'[i].parent # task'[j].parent
      BY <1>2, <2>2, <3>2 DEF RetryInv, RetriedOnce, Untouched
    <3>3. QED
      BY <3>1, <3>2 DEF RetriedOnce
  <2>6. \A q : q # p /\ Untouched(q) => \A j \in TaskIds : task'[j].parent # q
    BY <2>2 DEF Untouched
  <2>7. WaitingUntouched'
    BY <1>4, <2>6 DEF WaitingUntouched, Untouched
  <2>8. QED
    BY <1>3, <2>5, <2>7 DEF RetryInv
<1>7. QED
  BY <1>5, <1>6

(* HandleCheck, HandleActive, HandleReset and HandleDone. *)
LEMMA HandleBatches ==
  ASSUME TypeInv, NEW h \in Handlers,
         HandleCheck(h) \/ HandleActive(h) \/ HandleReset(h) \/ HandleDone(h)
  PROVE  \A g \in Handlers :
           \/ batch'[g] = batch[g]
           \/ batch'[g].rows = {}
           \/ /\ batch'[g].rows = batch[g].rows /\ batch'[g].cur = batch[g].cur
              /\ batch[g].pc # "retry" /\ batch'[g].pc # "retry"
           \/ batch'[g].rows = batch[g].rows \ {batch[g].cur}
<1>1. batch[h] \in Batches
  BY DEF TypeInv, TypeOK
<1>2. Done(batch[h]).rows = batch[h].rows \ {batch[h].cur}
  BY <1>1 DEF Batches, Done
<1>3. \A g \in Handlers \ {h} : batch'[g] = batch[g]
  BY DEF HandleCheck, HandleActive, HandleReset, HandleDone, TypeInv, TypeOK
<1>4. ASSUME HandleCheck(h)
      PROVE  \/ batch'[h] = Done(batch[h])
             \/ /\ batch'[h].rows = batch[h].rows /\ batch'[h].cur = batch[h].cur
                /\ batch[h].pc # "retry" /\ batch'[h].pc # "retry"
  <2> DEFINE b == [batch[h] EXCEPT !.processed = @ \cup {task[batch[h].cur].link},
                                   !.pc = "active"]
  <2>1. b.rows = batch[h].rows /\ b.cur = batch[h].cur /\ b.pc = "active"
    BY <1>1 DEF Batches
  <2>2. batch'[h] = b \/ batch'[h] = Done(batch[h])
    BY <1>4 DEF HandleCheck, TypeInv, TypeOK
  <2> HIDE DEF b
  <2>3. QED
    BY <1>4, <2>1, <2>2 DEF HandleCheck
<1>5. ASSUME HandleActive(h)
      PROVE  \/ batch'[h] = Done(batch[h])
             \/ /\ batch'[h].rows = batch[h].rows /\ batch'[h].cur = batch[h].cur
                /\ batch[h].pc # "retry" /\ batch'[h].pc # "retry"
  <2> DEFINE b == [batch[h] EXCEPT !.pc = "reset"]
  <2>1. b.rows = batch[h].rows /\ b.cur = batch[h].cur /\ b.pc = "reset"
    BY <1>1 DEF Batches
  <2>2. batch'[h] = b \/ batch'[h] = Done(batch[h])
    BY <1>5 DEF HandleActive, TypeInv, TypeOK
  <2> HIDE DEF b
  <2>3. QED
    BY <1>5, <2>1, <2>2 DEF HandleActive
<1>6. HandleReset(h) => batch'[h] = Done(batch[h])
  BY DEF HandleReset, TypeInv, TypeOK
<1>7. HandleDone(h) => batch'[h].rows = {}
  BY DEF HandleDone, NoBatch, TypeInv, TypeOK
<1>8. QED
  BY <1>2, <1>3, <1>4, <1>5, <1>6, <1>7

LEMMA RetryInvStep == TypeInv /\ RetryInv /\ [Next]_vars => RetryInv'
<1> SUFFICES ASSUME TypeInv, RetryInv, [Next]_vars PROVE RetryInv'
  OBVIOUS
<1>1. RowStep /\ Kept /\ TypeOK
  BY RowSteps, RowsKept DEF TypeInv
<1>2. ASSUME NEW h \in Handlers, NEW p \in TaskIds, HandleRetry(h, p)
      PROVE  RetryInv'
  BY <1>1, <1>2, RetryStep
<1>3. CASE ~\E h \in Handlers, p \in TaskIds : HandleRetry(h, p)
  <2>1. SameParents
    BY <1>1, <1>3, NoRetryParents
  <2>2. CASE batch' = batch
    BY <1>1, <2>1, <2>2, BatchesKept
  <2>3. CASE Crash
    BY <1>1, <2>1, <2>3, BatchesKept DEF Crash, NoBatch
  <2>4. ASSUME NEW h \in Handlers,
               HandleCheck(h) \/ HandleActive(h) \/ HandleReset(h) \/ HandleDone(h)
        PROVE  RetryInv'
    BY <1>1, <2>1, <2>4, HandleBatches, BatchesKept
  <2>5. ASSUME NEW h \in Reporters, NEW k \in TaskIds, NEW reason, FailTask(h, k, reason)
        PROVE  RetryInv'
    <3>1. {k} \subseteq In(Live) /\ h \in Handlers
      BY <2>5 DEF FailTask, In, Active, Live, Handlers
    <3>2. QED
      BY <1>1, <2>1, <2>5, <3>1, BatchAdded DEF FailTask
  <2>6. ASSUME NEW h \in Handlers, NEW S, S \subseteq In(Live), NEW reason, Sweep(h, S, reason)
        PROVE  RetryInv'
    BY <1>1, <2>1, <2>6, BatchAdded DEF Sweep
  <2>7. CASE SweepNext
    <3>1. In(Active) \subseteq In(Live) /\ In({"queued"}) \subseteq In(Live)
      BY DEF In, Active, Live
    <3>2. Sweeper \in Handlers /\ Recoverers \subseteq Handlers
      BY DEF Handlers
    <3>3. QED
      BY <2>6, <2>7, <3>1, <3>2
         DEF SweepNext, SweepStale, SweepOffline, SweepQueued, RecoverOrphans
  <2>8. CASE EnqueueNext \/ ClaimNext \/ CancelNext \/ AgentNext
    <3>1. batch' = batch
      BY <2>8 DEF EnqueueNext, Request, Rerun, Reassign, EnqueueCancel, EnqueueCheck,
         EnqueueInsert, ClaimNext, ClaimList, ClaimCount, ClaimSnapshot, ClaimNothing,
         ClaimUpdate, CancelNext, CancelTask, CancelTasksForIssue, CancelTasksForAgent,
         DeleteChatSession, DeleteComment, AgentNext, ReconcileRead, ReconcileWrite,
         ReconcileFails, MoveAgent, ArchiveAgent, ArchiveCancel, RestoreAgent, RevokeMember, requests
    <3>2. QED
      BY <2>2, <3>1
  <2>9. CASE ReportNext
    BY <2>2, <2>5, <2>9 DEF ReportNext, StartTask, CompleteTask, UpdateIssueStatus, requests
  <2>10. QED
    BY <1>3, <2>2, <2>3, <2>4, <2>7, <2>8, <2>9 DEF Next, HandleNext, vars, requests
<1>4. QED
  BY <1>2, <1>3

LEMMA RetryInvInit == Init => RetryInv
BY DEF Init, RetryInv, RetriedOnce, BatchesApart, WaitingUntouched, NoRow, NoBatch

LEMMA RetryInvariant == Spec => []RetryInv
BY RetryInvInit, RetryInvStep, TypeInvariant, PTL DEF Spec

(* A failed task is retried at most once, as its next attempt, although    *)
(* the sweeper, orphan recovery and the daemon may all report the failure. *)
THEOREM NoDoubleRetry == Spec => []RetriedOnce
<1>1. RetryInv => RetriedOnce
  BY DEF RetryInv
<1>2. QED
  BY <1>1, RetryInvariant, PTL

-----------------------------------------------------------------------------
(* Claims that interleave: how far capacity, and the lanes no unique index *)
(* protects, can be overrun.  Only a claim makes a row active.             *)
Dispatches == \E c \in Claimers, k \in TaskIds : ClaimUpdate(c, k)

(* Whatever else happens, the rows that are active now were active before. *)
LEMMA NoneActivated ==
  ASSUME TypeOK, RowStep, ~Dispatches
  PROVE  \A k \in TaskIds : task'[k].status \in Active =>
           /\ task[k].status \in Active
           /\ task'[k].agent = task[k].agent /\ task'[k].link = task[k].link
<1>1. ASSUME NEW k \in TaskIds, Inserted(k), NEW j \in TaskIds, task'[j].status \in Active
      PROVE  task'[j] = task[j]
  BY <1>1 DEF Inserted, Active
<1>2. ASSUME NEW k \in TaskIds, NEW from \in Active, NEW to, Advanced(k, from, to),
             NEW j \in TaskIds, task'[j].status \in Active
      PROVE  /\ task[j].status \in Active
             /\ task'[j].agent = task[j].agent /\ task'[j].link = task[j].link
  BY <1>2 DEF Advanced, SameRow, Active, Live
<1>3. ASSUME NEW S, NEW how \in {"failed", "cancelled"}, EndedAs(S, how),
             NEW j \in TaskIds, task'[j].status \in Active
      PROVE  /\ task[j].status \in Active
             /\ task'[j].agent = task[j].agent /\ task'[j].link = task[j].link
  BY <1>3 DEF EndedAs, SameRow, Active, Live
<1>4. QED
  BY <1>1, <1>2, <1>3 DEF RowStep, Dispatches, Active

(* The snapshot of a claim is of rows of the agent it is about. *)
SnapshotsOwn ==
  \A c \in Claimers : claim[c].pc = "update" =>
    \A k \in claim[c].snap : k \in TaskIds /\ task[k].agent = claim[c].agent

LEMMA OwnStep ==
  ASSUME TypeInv, SnapshotsOwn, [Next]_vars
  PROVE  SnapshotsOwn'
<1>1. RowStep /\ Kept
  BY RowSteps, RowsKept DEF TypeInv
<1> SUFFICES ASSUME NEW c \in Claimers, claim'[c].pc = "update", NEW k \in claim'[c].snap
             PROVE  k \in TaskIds /\ task'[k].agent = claim'[c].agent
  BY DEF SnapshotsOwn
<1>2. CASE claim'[c] = claim[c]
  <2>1. k \in TaskIds /\ task[k].agent = claim[c].agent
    BY <1>2 DEF SnapshotsOwn
  <2>2. task[k].status # "none"
    BY <1>2 DEF TypeInv, RefsOK
  <2> QED BY <1>1, <1>2, <2>1, <2>2 DEF Kept, SameRow
<1>3. CASE ClaimSnapshot(c)
  <2>1. claim[c] \in Claims /\ claim[c].pc = "snapshot"
    BY <1>3 DEF ClaimSnapshot, TypeInv, TypeOK
  <2>2. claim[c] \in AgentClaim
    BY <2>1 DEF Claims, NoClaim, LoopClaim
  <2> DEFINE S == {j \in TaskIds : task[j].agent = claim[c].agent /\ Claimable(j)}
  <2>3. claim'[c] = [claim[c] EXCEPT !.pc = "update", !.snap = S]
    BY <1>3 DEF ClaimSnapshot, TypeInv, TypeOK
  <2>4. claim'[c].snap = S /\ claim'[c].agent = claim[c].agent
    BY <2>2, <2>3 DEF AgentClaim
  <2>5. task' = task
    BY <1>3 DEF ClaimSnapshot, rows
  <2> QED BY <2>4, <2>5
<1> QED BY <1>2, <1>3, ClaimSteps DEF TypeInv

LEMMA ActiveFinite == \A a : IsFiniteSet(ActiveOf(a)) /\ Cardinality(ActiveOf(a)) \in Nat
<1>1. IsFiniteSet(TaskIds)
  BY FS_Interval, BoundsAssumption DEF BoundsAssumption, TaskIds
<1>2. \A a : ActiveOf(a) \subseteq TaskIds
  BY DEF ActiveOf, In
<1> QED BY <1>1, <1>2, FS_Subset, FS_CardinalityType

LEMMA ClaimersFinite ==
  /\ Cardinality(Claimers) \in Nat
  /\ \A C \in SUBSET Claimers : /\ IsFiniteSet(C) /\ Cardinality(C) \in Nat
                                /\ Cardinality(C) <= Cardinality(Claimers)
BY ClaimersAssumption, FS_Subset, FS_CardinalityType DEF ClaimersAssumption

(* What a dispatch does to the rows. *)
LEMMA Dispatched ==
  ASSUME TypeOK, NEW c \in Claimers, NEW k \in TaskIds, ClaimUpdate(c, k)
  PROVE  /\ k \in claim[c].snap /\ task[k].status = "queued" /\ claim[c].pc = "update"
         /\ task'[k].status = "dispatched"
         /\ task'[k].agent = task[k].agent /\ task'[k].link = task[k].link
         /\ \A j \in TaskIds \ {k} : task'[j] = task[j]
         /\ claim'[c].pc \in {"idle", "count"}
         /\ \A d \in Claimers \ {c} : claim'[d] = claim[d]
<1>1. /\ task' = [task EXCEPT ![k].status = "dispatched"]
      /\ task[k].status = "queued" /\ k \in claim[c].snap /\ claim[c].pc = "update"
  BY DEF ClaimUpdate, IsFirst, Hits
<1>2. task[k] \in RealRow
  BY <1>1, RowOf
<1>3. task'[k] = [task[k] EXCEPT !.status = "dispatched"]
      /\ \A j \in TaskIds \ {k} : task'[j] = task[j]
  BY <1>1 DEF TypeOK
<1>4. \A d \in Claimers \ {c} : claim'[d] = claim[d]
  BY DEF ClaimUpdate, TypeOK
<1> QED BY <1>1, <1>2, <1>3, <1>4, ClaimLeft DEF RealRow

CapacityInv == CapacityBounded /\ SnapshotsOwn

(* A claim is let through by a count that has found room, and stays        *)
(* let through until it updates or gives up.                               *)
LEMMA LetThroughStep ==
  ASSUME TypeOK, [Next]_vars, NEW a, NEW c \in LetThrough(a)'
  PROVE  c \in LetThrough(a) \/ (ClaimCount(c) /\ HasCapacity(a))
<1>1. c \in Claimers /\ claim'[c].pc \in {"snapshot", "update"} /\ claim'[c].agent = a
  BY DEF LetThrough
<1>2. CASE claim'[c] = claim[c]
  BY <1>1, <1>2 DEF LetThrough
<1>3. CASE ClaimSnapshot(c)
  <2>1. claim[c] \in Claims /\ claim[c].pc = "snapshot"
    BY <1>1, <1>3 DEF ClaimSnapshot, TypeOK
  <2>2. claim[c] \in AgentClaim
    BY <2>1 DEF Claims, NoClaim, LoopClaim
  <2> DEFINE S == {j \in TaskIds : task[j].agent = claim[c].agent /\ Claimable(j)}
  <2>3. claim'[c] = [claim[c] EXCEPT !.pc = "update", !.snap = S]
    BY <1>1, <1>3 DEF ClaimSnapshot, TypeOK
  <2>4. claim'[c].agent = claim[c].agent
    BY <2>2, <2>3 DEF AgentClaim
  <2> QED BY <1>1, <2>1, <2>4 DEF LetThrough
<1> QED BY <1>1, <1>2, <1>3, ClaimMoves, ClaimLeft

LEMMA CapacityStep ==
  ASSUME TypeInv, CapacityInv, [Next]_vars
  PROVE  CapacityInv'
<1>1. RowStep /\ Kept /\ TypeOK /\ MaxConcurrent \in Nat /\ Cardinality(Claimers) \in Nat
  BY RowSteps, RowsKept, BoundsAssumption, ClaimersFinite DEF TypeInv, BoundsAssumption
<1> SUFFICES ASSUME NEW a \in Agents
             PROVE  Cardinality(ActiveOf(a)') + Cardinality(LetThrough(a)')
                      < MaxConcurrent + Cardinality(Claimers)
  BY OwnStep DEF CapacityInv, CapacityBounded
<1> DEFINE L == LetThrough(a)
           N == Cardinality(Claimers)
<1>2. L \in SUBSET Claimers /\ L' \in SUBSET Claimers
  BY DEF LetThrough
<1>3. /\ IsFiniteSet(ActiveOf(a)) /\ Cardinality(ActiveOf(a)) \in Nat
      /\ Cardinality(L) \in Nat /\ Cardinality(L') \in Nat /\ Cardinality(L') <= N
      /\ IsFiniteSet(L)
  BY <1>2, ActiveFinite, ClaimersFinite
<1>4. Cardinality(ActiveOf(a)) + Cardinality(L) < MaxConcurrent + N
  BY DEF CapacityInv, CapacityBounded
<1>5. ASSUME ~Dispatches
      PROVE  Cardinality(ActiveOf(a)') + Cardinality(L') < MaxConcurrent + N
  <2>1. ActiveOf(a)' \subseteq ActiveOf(a)
    BY <1>1, <1>5, NoneActivated DEF ActiveOf, In
  <2>2. Cardinality(ActiveOf(a)') <= Cardinality(ActiveOf(a)) /\ Cardinality(ActiveOf(a)') \in Nat
    BY <1>3, <2>1, FS_Subset, FS_CardinalityType
  <2>3. CASE L' \subseteq L
    <3>1. Cardinality(L') <= Cardinality(L)
      BY <1>3, <2>3, FS_Subset
    <3> HIDE DEF L
    <3> QED BY <1>1, <1>3, <1>4, <2>2, <3>1
  <2>4. CASE ~(L' \subseteq L)
    <3>1. HasCapacity(a)
      BY <1>1, <2>4, LetThroughStep
    <3>2. Cardinality(ActiveOf(a)) < MaxConcurrent
      BY <3>1 DEF HasCapacity, ActiveOf
    <3> HIDE DEF L
    <3> QED BY <1>1, <1>3, <2>2, <3>2
  <2> QED BY <2>3, <2>4
<1>6. ASSUME NEW c \in Claimers, NEW k \in TaskIds, ClaimUpdate(c, k)
      PROVE  Cardinality(ActiveOf(a)') + Cardinality(L') < MaxConcurrent + N
  <2>1. /\ k \in claim[c].snap /\ task[k].status = "queued" /\ claim[c].pc = "update"
        /\ task'[k].status = "dispatched" /\ task'[k].agent = task[k].agent
        /\ \A j \in TaskIds \ {k} : task'[j] = task[j]
        /\ claim'[c].pc \in {"idle", "count"}
        /\ \A d \in Claimers \ {c} : claim'[d] = claim[d]
    BY <1>1, <1>6, Dispatched
  <2>2. task[k].agent = claim[c].agent
    BY <2>1 DEF CapacityInv, SnapshotsOwn
  <2>3. L' = L \ {c}
    BY <2>1 DEF LetThrough
  <2>4. CASE claim[c].agent = a
    <3>1. ActiveOf(a)' = ActiveOf(a) \cup {k}
      <4>1. ActiveOf(a)' \subseteq ActiveOf(a) \cup {k}
        BY <2>1 DEF ActiveOf, In
      <4>2. ActiveOf(a) \cup {k} \subseteq ActiveOf(a)'
        BY <2>1, <2>2, <2>4 DEF ActiveOf, In, Active
      <4> QED BY <4>1, <4>2
    <3>2. k \notin ActiveOf(a)
      BY <2>1 DEF ActiveOf, In, Active
    <3>3. Cardinality(ActiveOf(a)') = Cardinality(ActiveOf(a)) + 1
      BY <1>3, <3>1, <3>2, FS_AddElement
    <3>4. c \in L
      BY <2>1, <2>4 DEF LetThrough
    <3>5. Cardinality(L') = Cardinality(L) - 1
      BY <1>3, <2>3, <3>4, FS_RemoveElement
    <3> HIDE DEF L
    <3> QED BY <1>1, <1>3, <1>4, <3>3, <3>5
  <2>5. CASE claim[c].agent # a
    <3>1. ActiveOf(a)' = ActiveOf(a)
      BY <2>1, <2>2, <2>5 DEF ActiveOf, In
    <3>2. L' = L
      BY <2>3, <2>5 DEF LetThrough
    <3> QED BY <1>4, <3>1, <3>2
  <2> QED BY <2>4, <2>5
<1> QED BY <1>5, <1>6 DEF Dispatches

LEMMA CapacityInit == Init => CapacityInv
<1> SUFFICES ASSUME Init PROVE CapacityInv
  OBVIOUS
<1>1. \A a : ActiveOf(a) = {} /\ LetThrough(a) = {}
  BY DEF Init, ActiveOf, LetThrough, In, Active, NoRow, NoClaim
<1>2. Cardinality({}) = 0 /\ MaxConcurrent \in Nat \ {0} /\ Cardinality(Claimers) \in Nat
  BY FS_EmptySet, BoundsAssumption, ClaimersFinite DEF BoundsAssumption
<1>3. CapacityBounded
  BY <1>1, <1>2 DEF CapacityBounded
<1>4. SnapshotsOwn
  BY DEF Init, SnapshotsOwn, NoClaim
<1> QED BY <1>3, <1>4 DEF CapacityInv

(* However claims interleave, an agent exceeds max_concurrent_tasks by     *)
(* less than there are claims, and the claims that have counted and not    *)
(* yet updated are within that bound too.  With a single claimer that is   *)
(* max_concurrent_tasks itself.                                            *)
THEOREM CapacityIsBounded == Spec => []CapacityBounded
<1>1. TypeInv /\ CapacityInv /\ [Next]_vars => CapacityInv'
  BY CapacityStep
<1>2. CapacityInv => CapacityBounded
  BY DEF CapacityInv
<1> QED BY <1>1, <1>2, CapacityInit, TypeInvariant, PTL DEF Spec

(* A row that has lost its chat session has ended, so that an active row   *)
(* without a link is in the lane of quick-creates and their like.          *)
OrphansEnded ==
  /\ \A e \in Enqueuers : enq[e].link # Orphan
  /\ \A k \in In(Live) : task[k].link # Orphan

LanesInv == LanesBounded /\ OrphansEnded

LEMMA OrphansStep ==
  ASSUME TypeInv, OrphansEnded, [Next]_vars
  PROVE  OrphansEnded'
<1>1. RowStep /\ Kept /\ TypeOK
  BY RowSteps, RowsKept DEF TypeInv
<1>2. Orphan \notin Issues /\ Orphan # None /\ Orphan # Blank
  BY LinksAssumption, NoneAssumption DEF LinksAssumption, NoneAssumption, Links
<1>3. ASSUME NEW e \in Enqueuers
      PROVE  enq'[e].link # Orphan
  <2>1. enq[e].link # Orphan /\ enq[e] \in Requests /\ NoRequest.link # Orphan
    BY <1>2 DEF OrphansEnded, TypeInv, TypeOK, NoRequest
  <2>2. CASE enq'[e] = enq[e] \/ enq'[e] = NoRequest
    BY <2>1, <2>2
  <2>3. CASE EnqueueNext
    <3>1. PICK f \in Enqueuers :
            \/ \E a \in Agents, l \in Links : Request(f, a, l)
            \/ \E i \in Issues : Rerun(f, i)
            \/ \E i \in Issues, a \in Agents : Reassign(f, i, a)
            \/ EnqueueCancel(f) \/ EnqueueCheck(f) \/ EnqueueInsert(f)
      BY <2>3 DEF EnqueueNext
    <3>2. CASE f # e
      BY <1>1, <2>2, <3>1, <3>2
         DEF Request, Rerun, Reassign, EnqueueCancel, EnqueueCheck, EnqueueInsert, TypeOK
    <3>3. ASSUME NEW a \in Agents, NEW l \in Links, Request(e, a, l)
          PROVE  enq'[e].link # Orphan
      <4>1. enq'[e] = [NoRequest EXCEPT !.pc = "check", !.agent = a, !.link = l] /\ l # Orphan
        BY <1>1, <3>3 DEF Request, TypeOK
      <4> QED BY <4>1 DEF NoRequest
    <3>4. ASSUME NEW i \in Issues, Rerun(e, i)
          PROVE  enq'[e].link # Orphan
      <4>1. enq'[e] = [NoRequest EXCEPT !.pc = "cancel", !.agent = assignee[i], !.link = i]
        BY <1>1, <3>4 DEF Rerun, TypeOK
      <4> QED BY <1>2, <4>1 DEF NoRequest
    <3>5. ASSUME NEW i \in Issues, NEW a \in Agents, Reassign(e, i, a)
          PROVE  enq'[e].link # Orphan
      <4>1. enq'[e] = [NoRequest EXCEPT !.pc = "cancel", !.agent = a, !.link = i, !.wide = TRUE]
        BY <1>1, <3>5 DEF Reassign, TypeOK
      <4> QED BY <1>2, <4>1 DEF NoRequest
    <3>6. CASE EnqueueCancel(e)
      <4>1. enq'[e] = [enq[e] EXCEPT !.pc = "check"]
        BY <1>1, <3>6 DEF EnqueueCancel, TypeOK
      <4> QED BY <2>1, <4>1 DEF Requests, NoRequest, OpenRequest, ReadyRequest
    <3>7. CASE EnqueueCheck(e)
      <4>1. \/ enq'[e] = NoRequest
            \/ enq'[e] = [enq[e] EXCEPT !.pc = "insert", !.runtime = agent[enq[e].agent].runtime]
        BY <1>1, <3>7 DEF EnqueueCheck, TypeOK
      <4>2. [enq[e] EXCEPT !.pc = "insert", !.runtime = agent[enq[e].agent].runtime].link
              = enq[e].link
        BY <2>1 DEF Requests, NoRequest, OpenRequest, ReadyRequest
      <4> QED BY <2>1, <4>1, <4>2
    <3>8. CASE EnqueueInsert(e)
      BY <1>1, <2>2, <3>8 DEF EnqueueInsert, TypeOK
    <3> QED BY <3>1, <3>2, <3>3, <3>4, <3>5, <3>6, <3>7, <3>8
  <2>4. CASE CancelNext
    BY <1>1, <2>2, <2>4 DEF CancelNext, CancelTask, CancelTasksForIssue, CancelTasksForAgent,
                            DeleteComment, DeleteChatSession, requests
  <2>5. CASE ClaimNext \/ ReportNext \/ SweepNext \/ HandleNext \/ AgentNext
    BY <2>2, <2>5
       DEF ClaimNext, ClaimList, ClaimCount, ClaimSnapshot, ClaimNothing, ClaimUpdate,
           ReportNext, StartTask, CompleteTask, FailTask, UpdateIssueStatus, SweepNext,
           SweepStale, SweepOffline, SweepQueued, RecoverOrphans, Sweep, HandleNext,
           HandleRetry, HandleCheck, HandleActive, HandleReset, HandleDone, AgentNext,
           ReconcileRead, ReconcileWrite, ReconcileFails, MoveAgent, ArchiveAgent, ArchiveCancel, RestoreAgent, RevokeMember,
           requests
  <2>6. CASE Crash
    BY <2>2, <2>6 DEF Crash
  <2>7. CASE UNCHANGED vars
    BY <2>2, <2>7 DEF vars, requests
  <2> QED BY <2>3, <2>4, <2>5, <2>6, <2>7 DEF Next
<1>4. ASSUME NEW k \in TaskIds, task'[k].status \in Live
      PROVE  task'[k].link # Orphan
  <2>1. ASSUME NEW i \in TaskIds, Inserted(i)
        PROVE  task'[k].link # Orphan
    <3>1. CASE k # i
      BY <1>4, <2>1, <3>1 DEF Inserted, OrphansEnded, In
    <3>2. CASE k = i /\ Enqueues(i)
      BY <3>2 DEF Enqueues, OrphansEnded
    <3>3. ASSUME k = i, NEW p \in TaskIds, Retries(p, i)
          PROVE  task'[k].link # Orphan
      BY <1>2, <3>3 DEF Retries, RetryLink
    <3> QED BY <2>1, <3>1, <3>2, <3>3 DEF Inserted
  <2>2. ASSUME ~\E i \in TaskIds : Inserted(i)
        PROVE  task[k].status \in Live /\ SameRow(k)
    <3>1. ASSUME NEW j \in TaskIds, NEW from \in Live, NEW to, Advanced(j, from, to)
          PROVE  task[k].status \in Live /\ SameRow(k)
      BY <1>4, <3>1 DEF Advanced, SameRow
    <3>2. ASSUME NEW S, NEW how \in {"failed", "cancelled"}, EndedAs(S, how)
          PROVE  task[k].status \in Live /\ SameRow(k)
      BY <1>4, <3>2 DEF EndedAs, Live
    <3>3. CASE task' = task
      BY <1>4, <3>3 DEF SameRow
    <3> QED BY <1>1, <2>2, <3>1, <3>2, <3>3 DEF RowStep, Live
  <2> QED BY <1>4, <2>1, <2>2 DEF SameRow, OrphansEnded, In
<1> QED BY <1>3, <1>4 DEF OrphansEnded, In

LaneActive(a, l) == In(Active) \cap LaneRows(a, l)

(* The rows of a lane that are live are serialized with each other. *)
LEMMA LaneOfRows ==
  ASSUME OrphansEnded, NEW a, NEW l \in Links \ Runs,
         NEW j \in In(Live) \cap LaneRows(a, l), NEW k \in In(Live) \cap LaneRows(a, l)
  PROVE  SameLane(j, k)
<1>1. task[j].agent = task[k].agent /\ task[j].link # Orphan /\ task[k].link # Orphan
  BY DEF LaneRows, OrphansEnded
<1>2. CASE task[j].link = l /\ task[k].link = l
  BY <1>1, <1>2 DEF SameLane
<1>3. CASE {l, task[j].link, task[k].link} \subseteq QuickCreates \cup {Orphan, Blank}
  BY <1>1, <1>3 DEF SameLane
<1> QED BY <1>2, <1>3 DEF LaneRows

(* A snapshot brings hope for a lane only when nothing in it is active;    *)
(* no other step brings any.                                               *)
LEMMA HopeStep ==
  ASSUME TypeInv, OrphansEnded, [Next]_vars,
         NEW a \in Agents, NEW l \in Links \ Runs, NEW c \in Hopeful(a, l)'
  PROVE  c \in Hopeful(a, l) \/ (task' = task /\ LaneActive(a, l) = {})
<1>1. RowStep /\ Kept /\ TypeOK
  BY RowSteps, RowsKept DEF TypeInv
<1>2. PICK k \in TaskIds : /\ c \in Claimers /\ claim'[c].pc = "update"
                           /\ k \in claim'[c].snap /\ task'[k].status = "queued"
                           /\ k \in LaneRows(a, l)'
  BY DEF Hopeful, Hits, LaneRows
<1>3. CASE ClaimSnapshot(c)
  <2>1. task' = task /\ k \in In(Live) \cap LaneRows(a, l) /\ Claimable(k)
    BY <1>1, <1>2, <1>3 DEF ClaimSnapshot, TypeOK, rows, LaneRows, In, Live
  <2>2. ASSUME NEW j \in LaneActive(a, l)
        PROVE  FALSE
    <3>1. j \in In(Live) \cap LaneRows(a, l)
      BY DEF LaneActive, In, Active, Live
    <3>2. SameLane(j, k)
      BY <2>1, <3>1, LaneOfRows
    <3> QED BY <2>1, <3>2 DEF Claimable, LaneActive
  <2> QED BY <2>1, <2>2
<1>4. CASE claim'[c] = claim[c]
  <2>1. task[k].status # "none"
    BY <1>2, <1>4 DEF TypeInv, RefsOK
  <2>2. SameRow(k) /\ task'[k].link = task[k].link
    BY <1>1, <1>2, <2>1 DEF Kept, SameRow, Live
  <2>3. task[k].status = "queued"
    <3>1. ASSUME NEW i \in TaskIds, Inserted(i)
          PROVE  task[k].status = "queued"
      BY <1>2, <2>1, <3>1 DEF Inserted
    <3>2. ASSUME NEW i \in TaskIds, NEW from, NEW to, to # "queued", Advanced(i, from, to)
          PROVE  task[k].status = "queued"
      BY <1>2, <2>1, <3>2 DEF Advanced
    <3>3. ASSUME NEW S, NEW how \in {"failed", "cancelled"}, EndedAs(S, how)
          PROVE  task[k].status = "queued"
      BY <1>2, <2>1, <3>3 DEF EndedAs
    <3> QED BY <1>1, <1>2, <3>1, <3>2, <3>3 DEF RowStep
  <2>4. k \in Hits(c) \cap LaneRows(a, l)
    BY <1>2, <1>4, <2>2, <2>3 DEF Hits, LaneRows, SameRow
  <2> QED BY <1>2, <1>4, <2>4 DEF Hopeful
<1> QED BY <1>1, <1>2, <1>3, <1>4, ClaimSteps

LEMMA LanesStep ==
  ASSUME TypeInv, LanesInv, [Next]_vars
  PROVE  LanesInv'
<1>1. /\ RowStep /\ Kept /\ TypeOK /\ Cardinality(Claimers) \in Nat
      /\ OrphansEnded /\ OrphansEnded'
  BY RowSteps, RowsKept, OrphansStep, ClaimersFinite DEF TypeInv, LanesInv
<1> SUFFICES ASSUME NEW a \in Agents, NEW l \in Links \ Runs
             PROVE  Cardinality(LaneActive(a, l)') + Cardinality(Hopeful(a, l)')
                      <= Cardinality(Claimers)
  BY <1>1 DEF LanesInv, LanesBounded, LaneActive
<1> DEFINE A == LaneActive(a, l)
           H == Hopeful(a, l)
           N == Cardinality(Claimers)
<1>2. /\ IsFiniteSet(A) /\ Cardinality(A) \in Nat /\ IsFiniteSet(H) /\ Cardinality(H) \in Nat
      /\ Cardinality(H') \in Nat /\ Cardinality(H') <= N
  <2>1. IsFiniteSet(TaskIds)
    BY FS_Interval, BoundsAssumption DEF BoundsAssumption, TaskIds
  <2>2. A \in SUBSET TaskIds /\ H \in SUBSET Claimers /\ H' \in SUBSET Claimers
    BY DEF LaneActive, In, Hopeful
  <2> HIDE DEF A, H
  <2> QED BY <2>1, <2>2, ClaimersFinite, FS_Subset, FS_CardinalityType
<1>3. Cardinality(A) + Cardinality(H) <= N
  BY DEF LanesInv, LanesBounded, LaneActive
<1>4. ASSUME ~Dispatches
      PROVE  Cardinality(A') + Cardinality(H') <= N
  <2>1. A' \subseteq A
    BY <1>1, <1>4, NoneActivated DEF LaneActive, LaneRows, In
  <2>2. Cardinality(A') <= Cardinality(A) /\ Cardinality(A') \in Nat
    BY <1>2, <2>1, FS_Subset, FS_CardinalityType
  <2>3. CASE H' \subseteq H
    <3>1. Cardinality(H') <= Cardinality(H)
      BY <1>2, <2>3, FS_Subset
    <3> HIDE DEF A, H
    <3> QED BY <1>1, <1>2, <1>3, <2>2, <3>1
  <2>4. CASE ~(H' \subseteq H)
    <3>1. A = {}
      BY <1>1, <2>4, HopeStep
    <3>2. Cardinality(A) = 0
      BY <3>1, FS_EmptySet
    <3> HIDE DEF A, H
    <3> QED BY <1>1, <1>2, <2>2, <3>2
  <2> QED BY <2>3, <2>4
<1>5. ASSUME NEW c \in Claimers, NEW k \in TaskIds, ClaimUpdate(c, k)
      PROVE  Cardinality(A') + Cardinality(H') <= N
  <2>1. /\ k \in claim[c].snap /\ task[k].status = "queued" /\ claim[c].pc = "update"
        /\ task'[k].status = "dispatched"
        /\ task'[k].agent = task[k].agent /\ task'[k].link = task[k].link
        /\ \A j \in TaskIds \ {k} : task'[j] = task[j]
        /\ claim'[c].pc \in {"idle", "count"}
    BY <1>1, <1>5, Dispatched
  <2>2. H' \subseteq H \ {c}
    <3>1. task' # task
      BY <2>1
    <3>2. H' \subseteq H
      BY <1>1, <3>1, HopeStep
    <3>3. c \notin H'
      BY <2>1 DEF Hopeful
    <3> HIDE DEF H
    <3> QED BY <3>2, <3>3
  <2>3. LaneRows(a, l)' = LaneRows(a, l)
    BY <2>1 DEF LaneRows
  <2>4. IsFiniteSet(H \ {c}) /\ Cardinality(H') <= Cardinality(H \ {c})
    <3> HIDE DEF H
    <3> QED BY <1>2, <2>2, FS_RemoveElement, FS_Subset
  <2>5. CASE k \in LaneRows(a, l)
    <3>1. A' = A \cup {k} /\ k \notin A
      BY <2>1, <2>3, <2>5 DEF LaneActive, In, Active
    <3>2. Cardinality(A') = Cardinality(A) + 1
      BY <1>2, <3>1, FS_AddElement
    <3>3. c \in H
      BY <2>1, <2>5 DEF Hopeful, Hits
    <3>4. Cardinality(H \ {c}) = Cardinality(H) - 1
      BY <1>2, <3>3, FS_RemoveElement
    <3> HIDE DEF A, H
    <3> QED BY <1>1, <1>2, <1>3, <2>4, <3>2, <3>4
  <2>6. CASE k \notin LaneRows(a, l)
    <3>1. A' = A
      BY <2>1, <2>3, <2>6 DEF LaneActive, In, Active
    <3>2. Cardinality(H') <= Cardinality(H)
      BY <1>2, <2>2, FS_Subset
    <3> HIDE DEF A, H
    <3> QED BY <1>1, <1>2, <1>3, <3>1, <3>2
  <2> QED BY <2>5, <2>6
<1> QED BY <1>4, <1>5 DEF Dispatches

LEMMA LanesInit == Init => LanesInv
<1> SUFFICES ASSUME Init PROVE LanesInv
  OBVIOUS
<1>1. \A a, l : LaneActive(a, l) = {} /\ Hopeful(a, l) = {}
  BY DEF Init, LaneActive, Hopeful, In, Active, NoRow, NoClaim
<1>2. Cardinality({}) = 0 /\ Cardinality(Claimers) \in Nat
  BY FS_EmptySet, ClaimersFinite
<1>3. LanesBounded
  BY <1>1, <1>2 DEF LanesBounded, LaneActive
<1>4. OrphansEnded
  BY NoneAssumption DEF NoneAssumption, Init, OrphansEnded, In, Live, NoRow, NoRequest, Links
<1> QED BY <1>3, <1>4 DEF LanesInv

(* However claims interleave, a lane has at most as many active rows and   *)
(* claims about to make one active as there are claims: two claims with    *)
(* old snapshots can run a chat session twice and not three times, and     *)
(* with a single claimer every lane is serial.                             *)
THEOREM LanesAreBounded == Spec => []LanesBounded
<1>1. TypeInv /\ LanesInv /\ [Next]_vars => LanesInv'
  BY LanesStep
<1>2. LanesInv => LanesBounded
  BY DEF LanesInv
<1> QED BY <1>1, <1>2, LanesInit, TypeInvariant, PTL DEF Spec

-----------------------------------------------------------------------------
(* The status of agents: whoever makes a row active, or ends an active     *)
(* one, owes its agent a refresh until the refresh is made.                *)

(* What the batch of a handler will refresh. *)
DueOf(h) == batch[h].agents \cup AgentsOf(batch[h].rows)

(* A batch that goes on with a row has noted its agent, and a handler that *)
(* is idle keeps nothing.                                                  *)
AgentsNoted ==
  \A h \in Handlers :
    /\ batch[h].kind = "idle" => batch[h] = NoBatch
    /\ batch[h].pc # "retry" => task[batch[h].cur].agent \in batch[h].agents

(* An agent that is owed nothing is shown as its rows say, or will be by   *)
(* the refresh in hand.                                                    *)
Shows(s, a) == s = "working" <=> HasActive(a)

Settled(a) ==
  /\ InHand(a) = {} => Shows(agent[a].status, a)
  /\ \A f \in InHand(a) : Shows(refresh[f].status, a)

(* What an agent is owed it is owed still, unless a refresh has just been  *)
(* begun; and who makes a row active, or ends an active one, owes.         *)
Owes(a) == a \in Refreshing

StatusInv ==
  /\ \A a \in Agents \ doubtful : /\ \A f, g \in InHand(a) : f = g
                                  /\ ~Owes(a) => Settled(a)
  /\ AgentsNoted /\ SnapshotsOwn

(* The rows of a batch keep their agents. *)
LEMMA DueKept ==
  ASSUME TypeInv, Kept, NEW h \in Handlers, NEW S, S \subseteq batch[h].rows
  PROVE  /\ {task'[k].agent : k \in S} = AgentsOf(S)
         /\ \A k \in S : k \in TaskIds /\ task'[k].agent = task[k].agent
<1>1. \A k \in S : k \in TaskIds /\ task'[k].agent = task[k].agent
  BY DEF TypeInv, RefsOK, In, Kept, SameRow
<1> QED BY <1>1 DEF AgentsOf

(* Where a step leaves a batch and what it owes. *)
LEMMA BatchDue ==
  ASSUME TypeInv, AgentsNoted, Kept, NEW h \in Handlers,
         \/ batch'[h] = batch[h]
         \/ batch[h].kind = "idle"
         \/ batch[h].agents \subseteq batch'[h].agents /\ batch'[h].rows = batch[h].rows
         \/ /\ batch[h].agents \subseteq batch'[h].agents
            /\ \E p \in batch[h].rows : /\ batch'[h].rows = batch[h].rows \ {p}
                                        /\ task[p].agent \in batch'[h].agents
         \/ batch[h].rows = {} /\ batch[h].agents \subseteq owed'
  PROVE  DueOf(h) \subseteq owed' \cup DueOf(h)'
<1>1. CASE batch'[h] = batch[h]
  BY <1>1, DueKept DEF DueOf, AgentsOf
<1>2. CASE batch[h].kind = "idle"
  BY <1>2 DEF AgentsNoted, DueOf, NoBatch, AgentsOf
<1>3. CASE batch[h].agents \subseteq batch'[h].agents /\ batch'[h].rows = batch[h].rows
  BY <1>3, DueKept DEF DueOf, AgentsOf
<1>4. ASSUME batch[h].agents \subseteq batch'[h].agents,
             NEW p \in batch[h].rows, batch'[h].rows = batch[h].rows \ {p},
             task[p].agent \in batch'[h].agents
      PROVE  DueOf(h) \subseteq owed' \cup DueOf(h)'
  <2>1. \A k \in batch[h].rows : task'[k].agent = task[k].agent
    BY DEF TypeInv, RefsOK, In, Kept, SameRow
  <2> QED BY <1>4, <2>1 DEF DueOf, AgentsOf
<1>5. CASE batch[h].rows = {} /\ batch[h].agents \subseteq owed'
  BY <1>5 DEF DueOf, AgentsOf
<1> QED BY <1>1, <1>2, <1>3, <1>4, <1>5

LEMMA OwesDef == \A a : Owes(a) <=> a \in owed \/ \E h \in Handlers : a \in DueOf(h)
BY DEF Owes, Refreshing, DueOf

(* The step that a handler makes in its batch. *)
LEMMA HandleDue ==
  ASSUME TypeInv, AgentsNoted, NEW h \in Handlers,
         \/ \E p \in TaskIds : HandleRetry(h, p)
         \/ HandleCheck(h) \/ HandleActive(h) \/ HandleReset(h) \/ HandleDone(h)
  PROVE  /\ AgentsNoted'
         /\ \A g \in Handlers : DueOf(g) \subseteq owed' \cup DueOf(g)'
         /\ owed \subseteq owed'
<1>1. /\ RowStep /\ Kept /\ TypeOK /\ batch[h] \in Batches /\ batch[h].kind # "idle"
      /\ owed \subseteq owed' /\ batch'[h].kind \in {"idle", "report", "sweep"}
  <2>1. HandleNext
    BY DEF HandleNext
  <2>2. RowStep /\ Kept
    BY <2>1, HandleRows, RowsKept DEF TypeInv
  <2>3. TypeOK'
    BY <2>1, HandleTypes DEF TypeInv
  <2>4. batch'[h] \in Batches
    BY <2>3 DEF TypeOK
  <2> QED BY <2>2, <2>4 DEF TypeInv, TypeOK, Batches, HandleRetry, HandleCheck, HandleActive,
                         HandleReset, HandleDone
<1>2. \A g \in Handlers \ {h} : batch'[g] = batch[g]
  BY <1>1 DEF HandleRetry, HandleCheck, HandleActive, HandleReset, HandleDone, TypeOK
<1> DEFINE Noted(b) == /\ b.kind = "idle" => b = NoBatch
                       /\ b.pc # "retry" => task[b.cur].agent \in b.agents
           Goes(b) == \/ batch[h].agents \subseteq b.agents /\ b.rows = batch[h].rows
                      \/ /\ batch[h].agents \subseteq b.agents
                         /\ \E p \in batch[h].rows : /\ b.rows = batch[h].rows \ {p}
                                                     /\ task[p].agent \in b.agents
                      \/ b.rows = {} /\ batch[h].rows = {} /\ batch[h].agents \subseteq owed'
           Well(b) == Noted(b) /\ Goes(b)
(* Letting go of the row the batch is at. *)
<1>3. ASSUME NEW b \in Batches, b.kind # "idle", b.rows = batch[h].rows,
             batch[h].agents \subseteq b.agents, b.cur \in batch[h].rows,
             task[b.cur].agent \in b.agents
      PROVE  Well(Done(b))
  <2>1. /\ Done(b).kind = b.kind /\ Done(b).pc = "retry" /\ Done(b).agents = b.agents
        /\ Done(b).rows = b.rows \ {b.cur}
    BY <1>3 DEF Done, Batches
  <2> QED BY <1>3, <2>1
<1>4. ASSUME batch[h].pc # "retry"
      PROVE  Well(Done(batch[h]))
  <2>1. batch[h].cur \in batch[h].rows /\ task[batch[h].cur].agent \in batch[h].agents
    BY <1>4 DEF AgentsNoted, TypeInv, RefsOK
  <2> QED BY <1>1, <1>3, <2>1
<1>5. Well(batch'[h])
  <2>1. ASSUME NEW p \in TaskIds, HandleRetry(h, p)
        PROVE  Well(batch'[h])
    <3> DEFINE retry == Retryable(p) /\ ~Conflict(task[p].agent, RetryLink(p)) /\ ~Full
               l == task[p].link
               b == [batch[h] EXCEPT !.cur = p, !.agents = @ \cup {task[p].agent},
                       !.retried = IF retry /\ l \in Issues THEN @ \cup {l} ELSE @]
    <3>1. /\ p \in batch[h].rows
          /\ batch' = [batch EXCEPT ![h] = IF b.kind = "sweep" /\ l \in Issues
                                           THEN [b EXCEPT !.pc = "check"] ELSE Done(b)]
      BY <2>1 DEF HandleRetry
    <3>2. /\ b.kind = batch[h].kind /\ b.rows = batch[h].rows /\ b.cur = p
          /\ b.agents = batch[h].agents \cup {task[p].agent}
      BY <1>1 DEF Batches
    <3>3. b \in Batches
      <4>1. task[p].agent \in Agents
        BY <1>1, <3>1, RowOf DEF TypeInv, RefsOK, In
      <4>2. (IF retry /\ l \in Issues THEN batch[h].retried \cup {l} ELSE batch[h].retried)
              \in SUBSET Issues
        BY <1>1 DEF Batches
      <4> HIDE DEF retry, l
      <4> QED BY <1>1, <4>1, <4>2 DEF Batches
    <3>4. batch'[h] = [b EXCEPT !.pc = "check"] \/ batch'[h] = Done(b)
      BY <1>1, <3>1 DEF TypeOK
    <3> HIDE DEF b
    <3>5. Well(Done(b))
      BY <1>1, <1>3, <3>1, <3>2, <3>3
    <3>6. Well([b EXCEPT !.pc = "check"])
      <4>1. /\ [b EXCEPT !.pc = "check"].kind = b.kind /\ [b EXCEPT !.pc = "check"].rows = b.rows
            /\ [b EXCEPT !.pc = "check"].cur = p /\ [b EXCEPT !.pc = "check"].agents = b.agents
        BY <3>2, <3>3 DEF Batches
      <4> QED BY <1>1, <3>2, <4>1
    <3> QED BY <3>4, <3>5, <3>6
  <2>2. ASSUME HandleCheck(h)
        PROVE  Well(batch'[h])
    <3> DEFINE b == [batch[h] EXCEPT !.processed = @ \cup {task[batch[h].cur].link},
                                     !.pc = "active"]
    <3>1. /\ b.kind = batch[h].kind /\ b.rows = batch[h].rows /\ b.cur = batch[h].cur
          /\ b.agents = batch[h].agents
      BY <1>1 DEF Batches
    <3>2. batch[h].pc # "retry" /\ (batch'[h] = b \/ batch'[h] = Done(batch[h]))
      BY <1>1, <2>2 DEF HandleCheck, TypeOK
    <3> HIDE DEF b
    <3>3. Well(b)
      BY <1>1, <3>1, <3>2 DEF AgentsNoted
    <3> QED BY <1>4, <3>2, <3>3
  <2>3. ASSUME HandleActive(h)
        PROVE  Well(batch'[h])
    <3> DEFINE b == [batch[h] EXCEPT !.pc = "reset"]
    <3>1. /\ b.kind = batch[h].kind /\ b.rows = batch[h].rows /\ b.cur = batch[h].cur
          /\ b.agents = batch[h].agents
      BY <1>1 DEF Batches
    <3>2. batch[h].pc # "retry" /\ (batch'[h] = b \/ batch'[h] = Done(batch[h]))
      BY <1>1, <2>3 DEF HandleActive, TypeOK
    <3> HIDE DEF b
    <3>3. Well(b)
      BY <1>1, <3>1, <3>2 DEF AgentsNoted
    <3> QED BY <1>4, <3>2, <3>3
  <2>4. ASSUME HandleReset(h)
        PROVE  Well(batch'[h])
    <3>1. batch[h].pc # "retry" /\ batch'[h] = Done(batch[h])
      BY <1>1, <2>4 DEF HandleReset, TypeOK
    <3> QED BY <1>4, <3>1
  <2>5. ASSUME HandleDone(h)
        PROVE  Well(batch'[h])
    <3>1. batch'[h] = NoBatch /\ batch[h].rows = {} /\ batch[h].agents \subseteq owed'
      BY <1>1, <2>5 DEF HandleDone, TypeOK
    <3> QED BY <3>1 DEF NoBatch
  <2> QED BY <2>1, <2>2, <2>3, <2>4, <2>5
<1>6. \A g \in Handlers : DueOf(g) \subseteq owed' \cup DueOf(g)'
  <2>1. DueOf(h) \subseteq owed' \cup DueOf(h)'
    BY <1>1, <1>5, BatchDue
  <2> QED BY <1>1, <1>2, <2>1, BatchDue
<1>7. AgentsNoted'
  <2>1. ASSUME NEW g \in Handlers, batch'[g].pc # "retry", batch'[g].kind # "idle"
        PROVE  task'[batch'[g].cur].agent \in batch'[g].agents
    <3>1. /\ task[batch'[g].cur].agent \in batch'[g].agents
      BY <1>2, <1>5, <2>1 DEF AgentsNoted
    <3>2. batch'[g].cur \in TaskIds /\ task[batch'[g].cur].status # "none"
      <4>1. TypeInv'
        BY HandleTypes DEF HandleNext
      <4>2. batch'[g].cur \in batch'[g].rows /\ batch'[g].rows \subseteq batch[g].rows
        BY <1>2, <1>5, <2>1, <4>1 DEF TypeInv, RefsOK, NoBatch
      <4> QED BY <4>2 DEF TypeInv, RefsOK, In
    <3> QED BY <1>1, <3>1, <3>2 DEF Kept, SameRow
  <2>2. \A g \in Handlers : batch'[g].kind = "idle" => batch'[g] = NoBatch
    BY <1>2, <1>5 DEF AgentsNoted
  <2>3. \A g \in Handlers :
          batch'[g].pc # "retry" => task'[batch'[g].cur].agent \in batch'[g].agents
    BY <2>1, <2>2 DEF NoBatch
  <2> QED BY <2>2, <2>3 DEF AgentsNoted
<1> QED BY <1>1, <1>6, <1>7

(* The same of the next state. *)
OwesNext(a) ==
  \/ a \in owed'
  \/ \E h \in Handlers : a \in batch'[h].agents \/ \E j \in batch'[h].rows : a = task'[j].agent

LEMMA OwesPrimed == \A a : Owes(a)' <=> OwesNext(a)
BY DEF Owes, Refreshing, AgentsOf, OwesNext

(* Whom a step may leave unsettled. *)
Tells(a) == OwesNext(a) \/ a \in doubtful'

OwesKept == \A a \in Agents : Owes(a) => Tells(a)

RowsTold ==
  \A k \in TaskIds :
    /\ task'[k].status \in Active => task[k].status \in Active \/ Tells(task'[k].agent)
    /\ task[k].status \in Active => task'[k].status \in Active \/ Tells(task[k].agent)

Told == OwesKept /\ RowsTold /\ AgentsNoted'

LEMMA StatusKept ==
  ASSUME TypeInv, StatusInv, Kept, SnapshotsOwn', Told,
         refresh' = refresh, doubtful \subseteq doubtful',
         \A a \in Agents : agent'[a].status = agent[a].status
  PROVE  StatusInv'
<1>1. \A a : InHand(a)' = InHand(a)
  BY DEF InHand
<1> SUFFICES ASSUME NEW a \in Agents, a \notin doubtful', ~Owes(a)'
             PROVE  Settled(a)'
  BY <1>1 DEF StatusInv, Told
<1>2. ~Tells(a) /\ a \notin doubtful
  BY OwesPrimed DEF Tells
<1>3. ~Owes(a)
  BY <1>2 DEF Told, OwesKept
<1>4. Settled(a)
  BY <1>2, <1>3 DEF StatusInv
<1>5. ASSUME NEW k \in TaskIds, task'[k].status \in Active, task'[k].agent = a
      PROVE  task[k].status \in Active /\ task[k].agent = a
  <2>1. task[k].status \in Active
    BY <1>2, <1>5 DEF Told, RowsTold
  <2> QED BY <1>5, <2>1 DEF Kept, SameRow, Active
<1>6. ASSUME NEW k \in TaskIds, task[k].status \in Active, task[k].agent = a
      PROVE  task'[k].status \in Active /\ task'[k].agent = a
  <2>1. task'[k].status \in Active
    BY <1>2, <1>6 DEF Told, RowsTold
  <2> QED BY <1>6, <2>1 DEF Kept, SameRow, Active
<1>7. HasActive(a)' <=> HasActive(a)
  BY <1>5, <1>6 DEF HasActive, In
<1> QED BY <1>1, <1>4, <1>7 DEF Settled, Shows

(* A step that leaves the batches alone keeps what is owed. *)
LEMMA QuietOwes ==
  ASSUME TypeInv, AgentsNoted, Kept, batch' = batch, owed \subseteq owed'
  PROVE  OwesKept /\ AgentsNoted'
<1>1. \A h \in Handlers : \A k \in batch[h].rows :
        k \in TaskIds /\ task[k].status = "failed" /\ task'[k].agent = task[k].agent
  BY DEF TypeInv, RefsOK, In, Kept, SameRow
<1>2. OwesKept
  BY <1>1, OwesDef DEF OwesKept, Tells, OwesNext, DueOf, AgentsOf
<1>3. \A h \in Handlers : batch[h].pc # "retry" => batch[h].cur \in batch[h].rows
  BY DEF TypeInv, RefsOK
<1>4. AgentsNoted'
  BY <1>1, <1>3 DEF AgentsNoted
<1> QED BY <1>2, <1>4

(* A cancel whose caller refreshes the agents of the rows it has ended. *)
LEMMA CancelTold ==
  ASSUME TypeOK, NEW S, CancelRows(S)
  PROVE  RowsTold /\ owed \subseteq owed'
<1>1. task' = Cancelled(S) /\ owed' = owed \cup AgentsOf(S \cap In(Live))
  BY DEF CancelRows
<1>2. \A k \in TaskIds : task'[k].status \in Active => task[k].status \in Active
  <2>1. ASSUME NEW k \in TaskIds, k \in S, task[k].status \in Live
        PROVE  task'[k].status = "cancelled"
    <3>1. task[k] \in RealRow /\ task'[k] = [task[k] EXCEPT !.status = "cancelled"]
      BY <1>1, <2>1, RowOf DEF Cancelled, Live
    <3> QED BY <3>1 DEF RealRow
  <2>2. \A k \in TaskIds : ~(k \in S /\ task[k].status \in Live) => task'[k] = task[k]
    BY <1>1 DEF Cancelled
  <2> QED BY <2>1, <2>2 DEF Active
<1>3. ASSUME NEW k \in TaskIds, task[k].status \in Active, task'[k].status \notin Active
      PROVE  task[k].agent \in owed'
  <2>1. k \in S \cap In(Live)
    BY <1>1, <1>3 DEF Cancelled, In, Active, Live
  <2> QED BY <1>1, <2>1 DEF AgentsOf
<1> QED BY <1>1, <1>2, <1>3 DEF RowsTold, Tells, OwesNext

LEMMA ChatTold ==
  ASSUME TypeOK, NEW s \in Chats, DeleteChatSession(s)
  PROVE  RowsTold /\ owed \subseteq owed'
<1> DEFINE S == {k \in TaskIds : task[k].link = s}
<1>1. /\ task' = [k \in TaskIds |-> IF k \in S THEN [Cancelled(S)[k] EXCEPT !.link = Orphan]
                                    ELSE task[k]]
      /\ owed' = owed \cup AgentsOf(S \cap In(Live))
  BY DEF DeleteChatSession
<1>2. \A k \in S : task[k] \in RealRow
  BY RowOf, Links0 DEF NoRow, Links
<1>3. ASSUME NEW k \in S
      PROVE  task'[k].status = IF task[k].status \in Live THEN "cancelled" ELSE task[k].status
  <2>1. CASE task[k].status \in Live
    <3>1. task'[k] = [[task[k] EXCEPT !.status = "cancelled"] EXCEPT !.link = Orphan]
      BY <1>1, <2>1 DEF Cancelled
    <3> QED BY <1>2, <2>1, <3>1 DEF RealRow
  <2>2. CASE task[k].status \notin Live
    <3>1. task'[k] = [task[k] EXCEPT !.link = Orphan]
      BY <1>1, <2>2 DEF Cancelled
    <3> QED BY <1>2, <2>2, <3>1 DEF RealRow
  <2> QED BY <2>1, <2>2
<1>4. \A k \in TaskIds \ S : task'[k] = task[k]
  BY <1>1
<1>5. \A k \in S : task[k].status \in Live => task[k].agent \in owed'
  BY <1>1 DEF AgentsOf, In
<1> HIDE DEF S
<1>6. \A k \in TaskIds : task'[k].status \in Active => task[k].status \in Active
  BY <1>3, <1>4 DEF Active, Live
<1>7. \A k \in TaskIds :
        task[k].status \in Active => task'[k].status \in Active \/ task[k].agent \in owed'
  BY <1>3, <1>4, <1>5 DEF Active, Live
<1> QED BY <1>1, <1>6, <1>7 DEF RowsTold, Tells, OwesNext

(* Rows that are failed go to a batch, which will see to their agents. *)
LEMMA FailTold ==
  ASSUME TypeInv, AgentsNoted, Kept, NEW h \in Handlers, batch[h].kind = "idle",
         NEW S, S \subseteq In(Live), NEW reason, task' = Failed(S, reason),
         NEW kind \in {"report", "sweep"},
         batch' = [batch EXCEPT ![h] = [NoBatch EXCEPT !.kind = kind, !.rows = S]],
         owed' = owed
  PROVE  OwesKept /\ RowsTold /\ AgentsNoted'
<1>1. /\ batch'[h].rows = S /\ batch'[h].kind = kind /\ batch'[h].pc = "retry"
      /\ \A g \in Handlers \ {h} : batch'[g] = batch[g]
  BY DEF TypeInv, TypeOK, NoBatch
<1>2. EndedAs(S, "failed")
  BY FailedRows DEF TypeInv
<1>3. OwesKept
  <2>1. \A g \in Handlers : DueOf(g) \subseteq owed' \cup DueOf(g)'
    BY <1>1, BatchDue
  <2>2. \A g \in Handlers : \A a : a \in DueOf(g)' => OwesNext(a)
    BY DEF DueOf, AgentsOf, OwesNext
  <2>3. \A a : a \in owed' => OwesNext(a)
    BY DEF OwesNext
  <2> QED BY <2>1, <2>2, <2>3, OwesDef DEF OwesKept, Tells
<1>4. \A k \in TaskIds : task'[k].status \in Active => task[k].status \in Active
  BY <1>2 DEF EndedAs, Active
<1>5. \A k \in TaskIds :
        task[k].status \in Active => task'[k].status \in Active \/ OwesNext(task[k].agent)
  BY <1>1, <1>2 DEF EndedAs, SameRow, OwesNext
<1>6. AgentsNoted'
  <2>1. ASSUME NEW g \in Handlers, g # h, batch[g].pc # "retry"
        PROVE  task'[batch[g].cur].agent = task[batch[g].cur].agent
    BY <2>1 DEF TypeInv, RefsOK, In, Kept, SameRow
  <2> QED BY <1>1, <2>1 DEF AgentsNoted
<1> QED BY <1>3, <1>4, <1>5, <1>6 DEF RowsTold, Tells

LEMMA QuietTold ==
  ASSUME TypeInv, AgentsNoted, Kept, batch' = batch, owed \subseteq owed', RowsTold
  PROVE  Told
BY QuietOwes DEF Told

(* Every step tells, except the refresh that settles. *)
LEMMA EnqueueTold ==
  ASSUME TypeInv, AgentsNoted, Kept, EnqueueNext
  PROVE  Told /\ UNCHANGED <<agent, refreshes>>
<1>1. PICK e \in Enqueuers :
        \/ \E a \in Agents, l \in Links : Request(e, a, l)
        \/ \E i \in Issues : Rerun(e, i)
        \/ \E i \in Issues, a \in Agents : Reassign(e, i, a)
        \/ EnqueueCancel(e) \/ EnqueueCheck(e) \/ EnqueueInsert(e)
  BY DEF EnqueueNext
<1>2. UNCHANGED <<batch, agent, refreshes>>
  BY <1>1 DEF Request, Rerun, Reassign, EnqueueCancel, EnqueueCheck, EnqueueInsert, requests
<1>3. RowsTold /\ owed \subseteq owed'
  <2>1. CASE EnqueueCancel(e)
    BY <2>1, CancelTold DEF EnqueueCancel, TypeInv
  <2>2. CASE EnqueueInsert(e)
    <3>1. CASE task' = task
      BY <2>2, <3>1 DEF EnqueueInsert, RowsTold
    <3>2. ASSUME NEW k \in TaskIds, Fresh(k),
                 task' = [task EXCEPT ![k] = QueuedRow(enq[e].agent, enq[e].runtime,
                                                       enq[e].link, 1, None)]
          PROVE  RowsTold
      <4>1. /\ task[k].status = "none" /\ task'[k].status = "queued"
            /\ \A j \in TaskIds \ {k} : task'[j] = task[j]
        BY <3>2 DEF Fresh, QueuedRow, TypeInv, TypeOK
      <4> QED BY <4>1 DEF RowsTold, Active
    <3> QED BY <2>2, <3>1, <3>2 DEF EnqueueInsert
  <2>3. CASE task' = task /\ owed' = owed
    BY <2>3 DEF RowsTold
  <2> QED BY <1>1, <2>1, <2>2, <2>3 DEF Request, Rerun, Reassign, EnqueueCheck, rows
<1> QED BY <1>2, <1>3, QuietTold

LEMMA ClaimTold ==
  ASSUME TypeInv, AgentsNoted, SnapshotsOwn, Kept, ClaimNext
  PROVE  Told /\ UNCHANGED <<agent, refreshes>>
<1>1. PICK c \in Claimers :
        \/ \E rt \in Runtimes : ClaimList(c, rt)
        \/ ClaimCount(c) \/ ClaimSnapshot(c) \/ ClaimNothing(c)
        \/ \E k \in TaskIds : ClaimUpdate(c, k)
  BY DEF ClaimNext
<1>2. UNCHANGED <<batch, agent, refreshes>>
  BY <1>1 DEF ClaimList, ClaimCount, ClaimSnapshot, ClaimNothing, ClaimUpdate
<1>3. ASSUME NEW k \in TaskIds, ClaimUpdate(c, k)
      PROVE  RowsTold /\ owed \subseteq owed'
  <2>1. /\ task' = [task EXCEPT ![k].status = "dispatched"]
        /\ owed' = owed \cup {claim[c].agent}
        /\ task[k].status = "queued" /\ task[k].agent = claim[c].agent
    BY <1>3 DEF ClaimUpdate, IsFirst, Hits, SnapshotsOwn
  <2>2. task'[k].agent = task[k].agent
    BY <2>1 DEF Kept, SameRow
  <2>3. \A j \in TaskIds \ {k} : task'[j] = task[j]
    BY <2>1 DEF TypeInv, TypeOK
  <2>4. task[k].status \notin Active
    BY <2>1 DEF Active
  <2> QED BY <2>1, <2>2, <2>3, <2>4 DEF RowsTold, Tells, OwesNext
<1>4. ASSUME task' = task, owed' = owed
      PROVE  RowsTold /\ owed \subseteq owed'
  BY <1>4 DEF RowsTold
<1>5. RowsTold /\ owed \subseteq owed'
  BY <1>1, <1>3, <1>4 DEF ClaimList, ClaimCount, ClaimSnapshot, ClaimNothing, rows
<1> QED BY <1>2, <1>5, QuietTold

LEMMA ReportTold ==
  ASSUME TypeInv, AgentsNoted, Kept, ReportNext
  PROVE  Told /\ UNCHANGED <<agent, refreshes>>
<1>1. ASSUME NEW k \in TaskIds, StartTask(k)
      PROVE  RowsTold
  <2>1. task[k].status = "dispatched" /\ \A j \in TaskIds \ {k} : task'[j] = task[j]
    BY <1>1 DEF StartTask, TypeInv, TypeOK
  <2>2. task'[k].status = "running"
    <3>1. task[k] \in RealRow
      BY <2>1, RowOf DEF TypeInv
    <3>2. task'[k] = [task[k] EXCEPT !.status = "running", !.started = TRUE]
      BY <1>1 DEF StartTask, TypeInv, TypeOK
    <3> QED BY <3>1, <3>2 DEF RealRow
  <2> QED BY <2>1, <2>2 DEF RowsTold, Active
<1>2. ASSUME NEW k \in TaskIds, CompleteTask(k)
      PROVE  RowsTold /\ owed \subseteq owed'
  <2>1. CASE task[k].status # "running"
    BY <1>2, <2>1 DEF CompleteTask, RowsTold
  <2>2. CASE task[k].status = "running"
    <3>1. /\ task' = [task EXCEPT ![k].status = "completed"] /\ owed' = owed \cup {task[k].agent}
      BY <1>2, <2>2 DEF CompleteTask
    <3>2. task'[k].status = "completed" /\ \A j \in TaskIds \ {k} : task'[j] = task[j]
      <4>1. task[k] \in RealRow
        BY <2>2, RowOf DEF TypeInv
      <4>2. /\ task'[k] = [task[k] EXCEPT !.status = "completed"]
            /\ \A j \in TaskIds \ {k} : task'[j] = task[j]
        BY <3>1 DEF TypeInv, TypeOK
      <4> QED BY <4>1, <4>2 DEF RealRow
    <3> QED BY <3>1, <3>2 DEF RowsTold, Tells, OwesNext, Active
  <2> QED BY <2>1, <2>2
<1>3. ASSUME NEW h \in Reporters, NEW k \in TaskIds, NEW reason, FailTask(h, k, reason)
      PROVE  Told /\ UNCHANGED <<agent, refreshes>>
  <2>1. h \in Handlers /\ {k} \subseteq In(Live)
    BY <1>3 DEF FailTask, Handlers, In, Active, Live
  <2>2. /\ task' = Failed({k}, reason) /\ batch[h].kind = "idle" /\ owed' = owed
        /\ batch' = [batch EXCEPT ![h] = [NoBatch EXCEPT !.kind = "report", !.rows = {k}]]
    BY <1>3 DEF FailTask
  <2>3. OwesKept /\ RowsTold /\ AgentsNoted'
    BY <2>1, <2>2, FailTold
  <2> QED BY <1>3, <2>3 DEF Told, FailTask
<1>4. ASSUME NEW i \in Issues, NEW s \in IssueStatuses, UpdateIssueStatus(i, s)
      PROVE  Told /\ UNCHANGED <<agent, refreshes>>
  <2>1. task' = task /\ owed' = owed /\ batch' = batch
    BY <1>4 DEF UpdateIssueStatus, rows, requests
  <2> QED BY <1>4, <2>1, QuietTold DEF UpdateIssueStatus, RowsTold, requests
<1>5. ASSUME NEW k \in TaskIds, StartTask(k) \/ CompleteTask(k)
      PROVE  Told /\ UNCHANGED <<agent, refreshes>>
  <2>1. UNCHANGED <<agent, refreshes, batch>>
    BY <1>5 DEF StartTask, CompleteTask, requests
  <2>2. RowsTold /\ owed \subseteq owed'
    BY <1>1, <1>2, <1>5 DEF StartTask
  <2> QED BY <2>1, <2>2, QuietTold
<1> QED BY <1>3, <1>4, <1>5 DEF ReportNext

LEMMA SweepTold ==
  ASSUME TypeInv, AgentsNoted, Kept, SweepNext
  PROVE  Told /\ UNCHANGED <<agent, refreshes>>
<1>1. ASSUME NEW h \in Handlers, NEW S, S \subseteq In(Live), NEW reason, Sweep(h, S, reason)
      PROVE  Told /\ UNCHANGED <<agent, refreshes>>
  <2>1. /\ task' = Failed(S, reason) /\ batch[h].kind = "idle" /\ owed' = owed
        /\ batch' = [batch EXCEPT ![h] = [NoBatch EXCEPT !.kind = "sweep", !.rows = S]]
    BY <1>1 DEF Sweep
  <2>2. OwesKept /\ RowsTold /\ AgentsNoted'
    BY <1>1, <2>1, FailTold
  <2> QED BY <1>1, <2>2 DEF Told, Sweep
<1>2. In(Active) \subseteq In(Live) /\ In({"queued"}) \subseteq In(Live)
  BY DEF In, Active, Live
<1>3. Sweeper \in Handlers /\ Recoverers \subseteq Handlers
  BY DEF Handlers
<1> QED BY <1>1, <1>2, <1>3 DEF SweepNext, SweepStale, SweepOffline, SweepQueued, RecoverOrphans

LEMMA HandleTold ==
  ASSUME TypeInv, AgentsNoted, HandleNext
  PROVE  Told /\ UNCHANGED <<agent, refreshes>>
<1>1. PICK h \in Handlers :
        \/ \E p \in TaskIds : HandleRetry(h, p)
        \/ HandleCheck(h) \/ HandleActive(h) \/ HandleReset(h) \/ HandleDone(h)
  BY DEF HandleNext
<1>2. OwesKept /\ AgentsNoted'
  <2>1. /\ AgentsNoted' /\ owed \subseteq owed'
        /\ \A g \in Handlers : DueOf(g) \subseteq owed' \cup DueOf(g)'
    BY <1>1, HandleDue
  <2>2. \A g \in Handlers : \A a : a \in DueOf(g)' => OwesNext(a)
    BY DEF DueOf, AgentsOf, OwesNext
  <2>3. \A a : a \in owed' => OwesNext(a)
    BY DEF OwesNext
  <2> QED BY <2>1, <2>2, <2>3, OwesDef DEF OwesKept, Tells
<1>3. RowsTold
  <2>1. CASE task' = task
    BY <2>1 DEF RowsTold
  <2>2. ASSUME NEW p \in TaskIds, NEW k \in TaskIds, RetryRow(p, k)
        PROVE  RowsTold
    <3>1. /\ task[k].status = "none" /\ task'[k].status = "queued"
          /\ \A j \in TaskIds \ {k} : task'[j] = task[j]
      BY <2>2 DEF RetryRow, Fresh, QueuedRow, TypeInv, TypeOK
    <3> QED BY <3>1 DEF RowsTold, Active
  <2> QED BY <1>1, <2>1, <2>2
          DEF HandleRetry, HandleCheck, HandleActive, HandleReset, HandleDone, rows
<1>4. UNCHANGED <<agent, refreshes>>
  BY <1>1 DEF HandleRetry, HandleCheck, HandleActive, HandleReset, HandleDone
<1> QED BY <1>2, <1>3, <1>4 DEF Told

LEMMA CancelsTold ==
  ASSUME TypeInv, AgentsNoted, Kept, CancelNext
  PROVE  Told /\ UNCHANGED <<agent, refreshes>>
<1>1. UNCHANGED <<agent, refreshes, batch>>
  BY DEF CancelNext, CancelTask, CancelTasksForIssue, CancelTasksForAgent, DeleteComment,
         DeleteChatSession, requests
<1>2. RowsTold /\ owed \subseteq owed'
  BY CancelTold, ChatTold DEF CancelNext, CancelTask, CancelTasksForIssue, CancelTasksForAgent,
                              DeleteComment, TypeInv
<1> QED BY <1>1, <1>2, QuietTold

(* An archive cancels rows and refreshes nobody: their agent is doubtful.  *)
LEMMA ArchiveTold ==
  ASSUME TypeOK, NEW a \in Agents, ArchiveCancel(a)
  PROVE  RowsTold /\ doubtful \subseteq doubtful'
<1>1. /\ task' = Cancelled({k \in TaskIds : task[k].agent = a})
      /\ doubtful' = IF HasActive(a) THEN doubtful \cup {a} ELSE doubtful
  BY DEF ArchiveCancel
<1>2. \A k \in TaskIds : task'[k].status \in Active => task[k].status \in Active
  <2>1. ASSUME NEW k \in TaskIds, task[k].agent = a, task[k].status \in Live
        PROVE  task'[k].status = "cancelled"
    <3>1. task[k] \in RealRow /\ task'[k] = [task[k] EXCEPT !.status = "cancelled"]
      BY <1>1, <2>1, RowOf DEF Cancelled, Live
    <3> QED BY <3>1 DEF RealRow
  <2>2. \A k \in TaskIds : ~(task[k].agent = a /\ task[k].status \in Live) => task'[k] = task[k]
    BY <1>1 DEF Cancelled
  <2> QED BY <2>1, <2>2 DEF Active
<1>3. ASSUME NEW k \in TaskIds, task[k].status \in Active, task'[k].status \notin Active
      PROVE  task[k].agent \in doubtful'
  <2>1. task[k].agent = a
    BY <1>1, <1>3 DEF Cancelled
  <2>2. HasActive(a)
    BY <1>3, <2>1 DEF HasActive, In
  <2> QED BY <1>1, <2>1, <2>2
<1> QED BY <1>1, <1>2, <1>3 DEF RowsTold, Tells

RefreshSteps == \E f \in Refreshers :
  (\E a \in Agents : ReconcileRead(f, a)) \/ ReconcileWrite(f) \/ ReconcileFails(f)

(* Moves, archives and restores leave the status of an agent alone. *)
LEMMA AgentTold ==
  ASSUME TypeInv, AgentsNoted, Kept, AgentNext, ~RefreshSteps
  PROVE  /\ Told /\ refresh' = refresh /\ doubtful \subseteq doubtful'
         /\ \A a \in Agents : agent'[a].status = agent[a].status
<1>1. agent \in [Agents -> [runtime : Runtimes, archived : BOOLEAN, status : {"idle", "working"}]]
  BY DEF TypeInv, TypeOK
<1>2. ASSUME NEW a \in Agents, NEW rt \in Runtimes,
             RestoreAgent(a) \/ ArchiveAgent(a) \/ MoveAgent(a, rt)
      PROVE  /\ Told /\ refresh' = refresh /\ doubtful \subseteq doubtful'
             /\ \A x \in Agents : agent'[x].status = agent[x].status
  <2>1. task' = task /\ owed' = owed /\ batch' = batch /\ refresh' = refresh /\ doubtful' = doubtful
    BY <1>2 DEF RestoreAgent, ArchiveAgent, MoveAgent, rows, requests, refreshes
  <2>2. \A x \in Agents : \/ agent'[x] = agent[x]
                          \/ agent'[x] = [agent[x] EXCEPT !.archived = FALSE]
                          \/ agent'[x] = [agent[x] EXCEPT !.archived = TRUE]
                          \/ agent'[x] = [agent[x] EXCEPT !.runtime = rt]
    BY <1>1, <1>2 DEF RestoreAgent, ArchiveAgent, MoveAgent
  <2>3. ASSUME NEW x \in Agents PROVE agent'[x].status = agent[x].status
    <3> DEFINE r == agent[x]
    <3>1. r \in [runtime : Runtimes, archived : BOOLEAN, status : {"idle", "working"}]
      BY <1>1
    <3>2. \/ agent'[x] = r \/ agent'[x] = [r EXCEPT !.archived = FALSE]
          \/ agent'[x] = [r EXCEPT !.archived = TRUE] \/ agent'[x] = [r EXCEPT !.runtime = rt]
      BY <2>2
    <3> HIDE DEF r
    <3>3. agent'[x].status = r.status
      BY <3>1, <3>2
    <3> QED BY <3>3 DEF r
  <2>4. Told
    BY <2>1, QuietTold DEF RowsTold
  <2> QED BY <2>1, <2>3, <2>4
<1>3. ASSUME NEW a \in Agents, ArchiveCancel(a)
      PROVE  /\ Told /\ refresh' = refresh /\ doubtful \subseteq doubtful'
             /\ \A x \in Agents : agent'[x].status = agent[x].status
  <2>1. agent' = agent /\ owed' = owed /\ batch' = batch /\ refresh' = refresh
    BY <1>3 DEF ArchiveCancel
  <2>2. RowsTold /\ doubtful \subseteq doubtful'
    BY <1>3, ArchiveTold DEF TypeInv
  <2>3. Told
    BY <2>1, <2>2, QuietTold
  <2> QED BY <2>1, <2>2, <2>3
<1>4. ASSUME NEW rts \in SUBSET Runtimes, RevokeMember(rts)
      PROVE  /\ Told /\ refresh' = refresh /\ doubtful \subseteq doubtful'
             /\ \A x \in Agents : agent'[x].status = agent[x].status
  <2>1. batch' = batch /\ refresh' = refresh /\ doubtful' = doubtful
    BY <1>4 DEF RevokeMember, requests, refreshes
  <2>2. \A x \in Agents : agent'[x] = agent[x] \/ agent'[x] = [agent[x] EXCEPT !.archived = TRUE]
    BY <1>1, <1>4 DEF RevokeMember
  <2>3. RowsTold /\ owed \subseteq owed'
    BY <1>4, CancelTold DEF RevokeMember, TypeInv
  <2>4. \A x \in Agents : agent'[x].status = agent[x].status
    BY <1>1, <2>2
  <2>5. Told
    BY <2>1, <2>3, QuietTold
  <2> QED BY <2>1, <2>4, <2>5
<1>5. \/ \E a \in Agents, rt \in Runtimes : RestoreAgent(a) \/ ArchiveAgent(a) \/ MoveAgent(a, rt)
      \/ \E a \in Agents : ArchiveCancel(a)
      \/ \E rts \in SUBSET Runtimes : RevokeMember(rts)
  <2>1. \A a \in Agents : agent[a].runtime \in Runtimes
    BY <1>1
  <2> QED BY <2>1 DEF AgentNext, RefreshSteps
<1> QED BY <1>2, <1>3, <1>4, <1>5

(* A refresh touches its own agent only. *)
LEMMA RefreshStep ==
  ASSUME TypeInv, StatusInv, SnapshotsOwn', RefreshSteps
  PROVE  StatusInv'
<1>1. PICK f \in Refreshers :
        (\E a \in Agents : ReconcileRead(f, a)) \/ ReconcileWrite(f) \/ ReconcileFails(f)
  BY DEF RefreshSteps
<1>2. /\ task' = task /\ batch' = batch
      /\ \A g \in Refreshers \ {f} : refresh'[g] = refresh[g]
      /\ \A b : HasActive(b)' <=> HasActive(b)
  BY <1>1 DEF ReconcileRead, ReconcileWrite, ReconcileFails, rows, requests, TypeInv, TypeOK,
              HasActive, In
<1>3. None \notin Agents /\ NoRefresh.agent = None
  BY NoneAssumption DEF NoneAssumption, NoRefresh
<1>4. AgentsNoted'
  BY <1>2 DEF StatusInv, AgentsNoted
<1> DEFINE Fine(b) == \/ b \in doubtful'
                      \/ /\ \A g, h \in InHand(b)' : g = h
                         /\ ~Owes(b)' => Settled(b)'
(* The agents that the refresh is not of. *)
<1>5. ASSUME NEW b \in Agents,
             (b \in doubtful') <=> (b \in doubtful), (b \in owed') <=> (b \in owed),
             agent'[b] = agent[b], refresh[f].agent # b, refresh'[f].agent # b
      PROVE  Fine(b)
  <2>1. InHand(b)' = InHand(b) /\ \A g \in InHand(b) : refresh'[g] = refresh[g]
    BY <1>2, <1>5 DEF InHand
  <2>2. Owes(b)' <=> Owes(b)
    BY <1>2, <1>5 DEF Owes, Refreshing, AgentsOf
  <2>3. Settled(b) => Settled(b)'
    BY <1>2, <1>5, <2>1 DEF Settled, Shows
  <2> QED BY <1>5, <2>1, <2>2, <2>3 DEF StatusInv
<1>6. ASSUME NEW a \in Agents, ReconcileRead(f, a)
      PROVE  \A b \in Agents : Fine(b)
  <2>1. /\ refresh[f] = NoRefresh /\ owed' = owed \ {a} /\ agent' = agent
        /\ doubtful' = IF InHand(a) = {} THEN doubtful \ {a} ELSE doubtful \cup {a}
        /\ refresh'[f].agent = a /\ Shows(refresh'[f].status, a)
    BY <1>6 DEF ReconcileRead, TypeInv, TypeOK, Shows
  <2>2. \A b \in Agents \ {a} : Fine(b)
    BY <1>3, <1>5, <2>1
  <2>3. CASE InHand(a) # {}
    BY <2>1, <2>2, <2>3
  <2>4. CASE InHand(a) = {}
    <3>1. \A g \in InHand(a)' : g = f
      BY <1>2, <2>4 DEF InHand
    <3>2. f \in InHand(a)'
      BY <2>1 DEF InHand
    <3>3. Settled(a)'
      BY <1>2, <2>1, <3>1, <3>2 DEF Settled, Shows
    <3> QED BY <2>2, <3>1, <3>3
  <2> QED BY <2>3, <2>4
<1>7. ASSUME ReconcileWrite(f) \/ ReconcileFails(f)
      PROVE  \A b \in Agents : Fine(b)
  <2>0. PICK a \in Agents : refresh[f].agent = a
    BY <1>7 DEF ReconcileWrite, ReconcileFails, TypeInv, TypeOK, Refreshes
  <2>1. /\ refresh'[f] = NoRefresh /\ owed' = owed
        /\ refresh[f].status \in {"idle", "working"}
    BY <1>7, <2>0 DEF ReconcileWrite, ReconcileFails, TypeInv, TypeOK, Refreshes
  <2>2. \/ /\ doubtful' = doubtful
           /\ agent' = [agent EXCEPT ![a].status = refresh[f].status]
        \/ doubtful' = doubtful \cup {a} /\ agent' = agent
    BY <1>7, <2>0 DEF ReconcileWrite, ReconcileFails
  <2>3. agent \in [Agents -> [runtime : Runtimes, archived : BOOLEAN, status : {"idle", "working"}]]
    BY DEF TypeInv, TypeOK
  <2>4. \A b \in Agents \ {a} : Fine(b)
    BY <1>3, <1>5, <2>0, <2>1, <2>2, <2>3
  <2>5. ASSUME a \notin doubtful'
        PROVE  (\A g, h \in InHand(a)' : g = h) /\ (~Owes(a)' => Settled(a)')
    <3>1. a \notin doubtful /\ agent'[a].status = refresh[f].status
      BY <2>1, <2>2, <2>3, <2>5
    <3>2. f \in InHand(a) /\ \A g \in InHand(a) : g = f
      BY <2>0, <2>1, <3>1 DEF InHand, StatusInv
    <3>3. InHand(a)' = {}
      <4>1. ASSUME NEW g \in Refreshers, refresh'[g].agent = a
            PROVE  FALSE
        BY <1>2, <1>3, <2>0, <2>1, <3>2, <4>1 DEF InHand
      <4> QED BY <4>1 DEF InHand
    <3>4. Owes(a)' <=> Owes(a)
      BY <1>2, <2>1 DEF Owes, Refreshing, AgentsOf
    <3> QED BY <1>2, <2>1, <3>1, <3>2, <3>3, <3>4 DEF StatusInv, Settled, Shows
  <2> QED BY <2>4, <2>5
<1> QED BY <1>1, <1>4, <1>6, <1>7 DEF StatusInv

LEMMA CrashStatus ==
  ASSUME TypeInv, StatusInv, Crash, SnapshotsOwn'
  PROVE  StatusInv'
<1>1. /\ task' = task /\ agent' = agent /\ owed' = {}
      /\ \A h \in Handlers : batch'[h] = NoBatch
      /\ \A f \in Refreshers : refresh'[f] = NoRefresh
      /\ doubtful' = doubtful \cup Refreshing \cup {a \in Agents : InHand(a) # {}}
  BY DEF Crash, rows
<1>2. AgentsNoted'
  BY <1>1 DEF AgentsNoted, NoBatch
<1>3. ASSUME NEW a \in Agents, a \notin doubtful'
      PROVE  InHand(a)' = {} /\ Settled(a)'
  <2>1. a \notin doubtful /\ ~Owes(a) /\ InHand(a) = {}
    BY <1>1, <1>3 DEF Owes
  <2>2. Shows(agent[a].status, a)
    BY <2>1 DEF StatusInv, Settled
  <2>3. InHand(a)' = {}
    BY <1>1, NoneAssumption DEF InHand, NoRefresh, NoneAssumption
  <2> QED BY <1>1, <2>2, <2>3 DEF Settled, Shows, HasActive, In
<1> QED BY <1>2, <1>3 DEF StatusInv

LEMMA StatusStep ==
  ASSUME TypeInv, StatusInv, [Next]_vars
  PROVE  StatusInv'
<1>1. Kept /\ SnapshotsOwn' /\ AgentsNoted /\ SnapshotsOwn
  BY RowSteps, RowsKept, OwnStep DEF TypeInv, StatusInv
<1>2. CASE RefreshSteps
  BY <1>1, <1>2, RefreshStep
<1>3. ASSUME Told, refresh' = refresh, doubtful \subseteq doubtful',
             \A a \in Agents : agent'[a].status = agent[a].status
      PROVE  StatusInv'
  BY <1>1, <1>3, StatusKept
<1>4. CASE EnqueueNext \/ ClaimNext \/ ReportNext \/ SweepNext \/ HandleNext \/ CancelNext
  <2>1. Told /\ UNCHANGED <<agent, refreshes>>
    BY <1>1, <1>4, EnqueueTold, ClaimTold, ReportTold, SweepTold, HandleTold, CancelsTold
  <2> QED BY <1>3, <2>1 DEF refreshes
<1>5. CASE AgentNext /\ ~RefreshSteps
  BY <1>1, <1>3, <1>5, AgentTold
<1>6. CASE UNCHANGED vars
  <2>1. Told /\ UNCHANGED <<agent, refreshes>>
    BY <1>1, <1>6, QuietTold DEF RowsTold, vars, rows, requests
  <2> QED BY <1>3, <2>1 DEF refreshes
<1>7. CASE Crash
  BY <1>1, <1>7, CrashStatus
<1> QED BY <1>2, <1>4, <1>5, <1>6, <1>7 DEF Next

LEMMA StatusInit == Init => StatusInv
<1> SUFFICES ASSUME Init PROVE StatusInv
  OBVIOUS
<1>1. \A a : ~HasActive(a)
  BY DEF Init, HasActive, In, Active, NoRow
<1>2. \A a \in Agents : agent[a].status = "idle" /\ InHand(a) = {}
  BY NoneAssumption DEF Init, InHand, NoRefresh, NoneAssumption
<1>3. \A a \in Agents : Settled(a)
  BY <1>1, <1>2 DEF Settled, Shows
<1>4. AgentsNoted /\ SnapshotsOwn
  BY DEF Init, AgentsNoted, SnapshotsOwn, NoBatch, NoClaim
<1> QED BY <1>2, <1>3, <1>4 DEF StatusInv

(* Once nothing is owed to it, an agent is shown as working exactly when   *)
(* it has a dispatched or running task, whatever archives, overlapping     *)
(* refreshes, failures and crashes have been, except while one of these is *)
(* the last that befell its own status.                                    *)
THEOREM StatusIsTruthful == Spec => []StatusTruthful
<1>1. TypeInv /\ StatusInv /\ [Next]_vars => StatusInv'
  BY StatusStep
<1>2. StatusInv => StatusTruthful
  BY DEF StatusInv, StatusTruthful, Settled, Shows, Owes
<1> QED BY <1>1, <1>2, StatusInit, TypeInvariant, PTL DEF Spec

=============================================================================
