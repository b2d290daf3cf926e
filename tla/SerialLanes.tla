---------------------------- MODULE SerialLanes ----------------------------
(***************************************************************************)
(* What the task queue promises for work on issues, stated without claims, *)
(* sweeps, retries or handlers.  A lane is one agent working on one issue. *)
(* In every lane at most one task waits to run, at most one runs, and a    *)
(* task that has ended stays as it ended.                                  *)
(*                                                                         *)
(* This is the promise of the comment on ClaimAgentTask                    *)
(* (server/pkg/db/queries/agent.sql) and of the partial unique index of    *)
(* migration 037.  TaskQueue is shown to implement it.                     *)
(***************************************************************************)

CONSTANTS
  Rows,    \* identities of tasks
  Lanes,   \* (issue, agent) pairs
  NoLane   \* the lane of a task that has not been enqueued

VARIABLES
  st,      \* status of every task
  lane     \* lane of every task

Pending == {"queued", "dispatched"}
Active  == {"dispatched", "running"}
Live    == {"queued", "dispatched", "running"}
Ended   == {"completed", "failed", "cancelled"}

TypeOK ==
  /\ st \in [Rows -> {"none"} \cup Live \cup Ended]
  /\ lane \in [Rows -> Lanes \cup {NoLane}]

Init ==
  /\ st = [k \in Rows |-> "none"]
  /\ lane = [k \in Rows |-> NoLane]

Enqueue(k, l) ==
  /\ st[k] = "none"
  /\ \A j \in Rows : ~(lane[j] = l /\ st[j] \in Pending)
  /\ st' = [st EXCEPT ![k] = "queued"]
  /\ lane' = [lane EXCEPT ![k] = l]

Claim(k) ==
  /\ st[k] = "queued"
  /\ \A j \in Rows : ~(lane[j] = lane[k] /\ st[j] \in Active)
  /\ st' = [st EXCEPT ![k] = "dispatched"]
  /\ UNCHANGED lane

Start(k) ==
  /\ st[k] = "dispatched"
  /\ st' = [st EXCEPT ![k] = "running"]
  /\ UNCHANGED lane

Finish(k) ==
  /\ st[k] = "running"
  /\ st' = [st EXCEPT ![k] = "completed"]
  /\ UNCHANGED lane

(* One statement may end many tasks: a bulk cancel, a sweep. *)
End(S, how) ==
  /\ \A k \in S : st[k] \in Live
  /\ st' = [k \in Rows |-> IF k \in S THEN how ELSE st[k]]
  /\ UNCHANGED lane

Next ==
  \/ \E k \in Rows, l \in Lanes : Enqueue(k, l)
  \/ \E k \in Rows : Claim(k) \/ Start(k) \/ Finish(k)
  \/ \E S \in SUBSET Rows, how \in {"failed", "cancelled"} : End(S, how)

Spec == Init /\ [][Next]_<<st, lane>>

=============================================================================
