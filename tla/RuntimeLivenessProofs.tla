----------------------- MODULE RuntimeLivenessProofs -----------------------
(***************************************************************************)
(* For any number of replicas and any intervals in the order the code      *)
(* asks for (ChainAssumption): last_seen_at of a daemon that keeps beating *)
(* stays below the stale threshold, and no sweep marks it offline.  The    *)
(* bound is carried from step to step by whoever will write last_seen_at   *)
(* next: the last ack, the next HTTP beat, or the flush of a batch.        *)
(* And the end of a silent daemon is noticed in time (DetectedInTime): its *)
(* row stops being written within a batch, then only grows older, its      *)
(* record expires before the row is stale, and a sweep comes once both are *)
(* over.                                                                   *)
(* And a daemon that runs without being seen as live is seen again in time *)
(* (EvidenceReturns): the ticks it has waited are bounded by the age of    *)
(* the last ack and by how far the interval of HTTP beats has run, each    *)
(* outage excusing one gap between beats.                                  *)
(***************************************************************************)
EXTENDS RuntimeLiveness, TLAPS

(* The caps of the history variables are natural numbers. *)
LEMMA Caps == QuietCap \in Nat /\ AdriftCap \in Nat /\ BeatGap \in Nat
<1> USE IntervalsAssumption DEF IntervalsAssumption
<1>1. QuietCap \in Nat /\ BeatGap \in Nat
  BY DEF QuietCap, BeatGap
<1>2. \A m, n \in Nat : m * n \in Nat
  OBVIOUS
<1>3. 2 + MaxOutages \in Nat /\ Freshness + BeatInterval \in Nat
  OBVIOUS
<1>4. (2 + MaxOutages) * (Freshness + BeatInterval) \in Nat
  BY <1>2, <1>3
<1>5. QED
  BY <1>1, <1>4 DEF AdriftCap

(* A timer counted down from its interval lies within it. *)
LEMMA TimerPhase ==
  ASSUME NEW n \in Nat \ {0}, NEW a \in Nat
  PROVE  n - (a % n) \in 0..n
<1>1. a % n \in 0..(n - 1)
  OBVIOUS
<1>2. QED
  BY <1>1

(* Counting up stays within the cap, and adds at most one. *)
LEMMA OlderBound ==
  ASSUME NEW cap \in Nat, NEW age \in 0..cap
  PROVE  /\ Older(age, cap) \in 0..cap
         /\ Older(age, cap) <= age + 1
         /\ Older(age, cap) < cap => Older(age, cap) = age + 1
  BY DEF Older

(* Counting down stays within the interval. *)
LEMMA LessBound ==
  ASSUME NEW cap \in Nat, NEW left \in 0..cap
  PROVE  Less(left) \in 0..cap /\ (left > 0 => Less(left) = left - 1)
  BY DEF Less

-----------------------------------------------------------------------------
(* Types *)

(* The initial state has the types. *)
LEMMA TypesInitial == Init => TypeOK
<1> SUFFICES ASSUME Init PROVE TypeOK
  OBVIOUS
<1> USE IntervalsAssumption DEF IntervalsAssumption, Init
<1>1. RowOK
  BY DEF RowOK
<1>2. PICK age \in [Replicas -> 0..(BatchInterval * SweepInterval - 1)] :
        /\ batchIn = [r \in Replicas |-> BatchInterval - (age[r] % BatchInterval)]
        /\ sweepIn = [r \in Replicas |-> SweepInterval - (age[r] % SweepInterval)]
  OBVIOUS
<1>3. \A r \in Replicas : age[r] \in Nat
  <2>1. \A m, n \in Nat \ {0} : m * n - 1 \in Nat
    OBVIOUS
  <2>2. BatchInterval * SweepInterval - 1 \in Nat
    BY <2>1
  <2>3. 0..(BatchInterval * SweepInterval - 1) \subseteq Nat
    BY <2>2
  <2>4. \A r \in Replicas : age[r] \in 0..(BatchInterval * SweepInterval - 1)
    BY <1>2, Zenon
  <2>5. QED
    BY <2>3, <2>4
<1>4. batchIn \in [Replicas -> 0..BatchInterval]
  <2>1. \A r \in Replicas : BatchInterval - (age[r] % BatchInterval) \in 0..BatchInterval
    BY <1>3, TimerPhase
  <2>2. QED
    BY <1>2, <2>1
<1>5. sweepIn \in [Replicas -> 0..SweepInterval]
  <2>1. \A r \in Replicas : SweepInterval - (age[r] % SweepInterval) \in 0..SweepInterval
    BY <1>3, TimerPhase
  <2>2. QED
    BY <1>2, <2>1
<1>6. ReplicasOK
  BY <1>4, <1>5 DEF ReplicasOK
<1>7. DaemonOK
  BY DEF DaemonOK
<1>8. BeatOK
  BY DEF BeatOK, NoBeat
<1>9. HistoryOK
  BY Caps DEF HistoryOK
<1>10. QED
  BY <1>1, <1>6, <1>7, <1>8, <1>9 DEF TypeOK

(* A request that begins has the types of one. *)
LEMMA Began ==
  ASSUME BeatOK, NEW t \in Transports, NEW r \in Replicas, Begin(t, r)
  PROVE  BeatOK'
<1>1. [NoBeat EXCEPT !.pc = "read", !.at = r] \in
        [pc : {"idle", "read", "record"}, at : Replicas \cup {None},
         status : {"online", "offline"}, due : BOOLEAN]
  BY DEF NoBeat
<1>2. [NoBeat EXCEPT !.pc = "read", !.at = r].at # None
  BY IntervalsAssumption DEF IntervalsAssumption, NoBeat
<1>3. QED
  BY <1>1, <1>2 DEF Begin, BeatOK

(* A request that has been answered, or lost, is none. *)
LEMMA NoBeatOK ==
  /\ NoBeat \in [pc : {"idle", "read", "record"}, at : Replicas \cup {None},
                status : {"online", "offline"}, due : BOOLEAN]
  /\ NoBeat.pc = "idle"
  BY DEF NoBeat

(* An answer keeps the types of what it changes. *)
LEMMA Answered ==
  ASSUME BeatOK, DaemonOK, NEW t \in Transports, Answer(t)
  PROVE  BeatOK' /\ ackAge' \in 0..(Freshness + 1) /\ quiet' = 0
<1> USE IntervalsAssumption DEF IntervalsAssumption
<1>1. BeatOK'
  BY NoBeatOK DEF Answer, BeatOK
<1>2. ackAge' = ackAge \/ ackAge' = 0
  BY DEF Answer
<1>3. QED
  BY <1>1, <1>2 DEF Answer, DaemonOK

(* A written or kept record has the type of one. *)
LEMMA RecordOK ==
  ASSUME RowOK, NEW t \in Transports, NEW write \in BOOLEAN, Record(t, write)
  PROVE  key' \in 0..(LivenessTTL + 1)
  BY IntervalsAssumption DEF IntervalsAssumption, RowOK, Record, Touched

(* What a flush writes has the types. *)
LEMMA TouchBatchOK ==
  ASSUME RowOK, HistoryOK, NEW r \in Replicas, TouchBatch(r)
  PROVE  seen' \in 0..(StaleThreshold + 1) /\ steady' \in BOOLEAN
<1> USE IntervalsAssumption DEF IntervalsAssumption
<1>1. CASE r \in pending /\ row = "online"
  <2>1. seen' = 0 /\ steady' = (daemon = "running")
    BY <1>1 DEF TouchBatch
  <2>2. steady' \in BOOLEAN
    BY <2>1, Zenon
  <2>3. QED
    BY <2>1, <2>2
<1>2. CASE ~(r \in pending /\ row = "online")
  BY <1>2 DEF TouchBatch, RowOK, HistoryOK
<1>3. QED
  BY <1>1, <1>2

(* The end of a process keeps the types of what it changes. *)
LEMMA GoneOK ==
  ASSUME TypeOK, NEW r \in Replicas, Gone(r)
  PROVE  /\ server' \in [Replicas -> {"up", "draining", "drained", "down"}]
         /\ pending' \subseteq Replicas
         /\ sweeper' \in [Replicas -> {"idle", "filter", "mark", "forget"}]
         /\ RowOK' /\ DaemonOK' /\ BeatOK' /\ HistoryOK'
<1> USE IntervalsAssumption DEF IntervalsAssumption, TypeOK
<1>1. BeatOK'
  BY NoBeatOK, Zenon DEF Gone, BeatOK
<1>2. DaemonOK'
  <2>1. CASE ws = r
    BY <2>1 DEF Gone, Detach, DaemonOK
  <2>2. CASE ws # r
    BY <2>2 DEF Gone, link, DaemonOK
  <2>3. QED
    BY <2>1, <2>2
<1>3. RowOK' /\ HistoryOK'
  BY DEF Gone, database, RowOK, HistoryOK
<1>4. QED
  BY <1>1, <1>2, <1>3 DEF Gone, Stage, ReplicasOK

(* Every step keeps the types. *)
LEMMA TypesStep == ASSUME TypeOK, [Next]_vars PROVE TypeOK'
<1> USE IntervalsAssumption, Caps DEF IntervalsAssumption, TypeOK
<1>1. ASSUME HttpTick PROVE TypeOK'
  <2>1. BeatOK'
    <3>1. CASE \E r \in Up : Begin("http", r)
      BY <3>1, Began DEF Up, Transports
    <3>2. CASE beat' = beat
      BY <3>2 DEF BeatOK
    <3>3. QED
      BY <1>1, <3>1, <3>2 DEF HttpTick
  <2>2. QED
    BY <1>1, <2>1 DEF HttpTick, database, process, batches, link, history,
         RowOK, ReplicasOK, DaemonOK, HistoryOK
<1>2. ASSUME WsTick PROVE TypeOK'
  <2>1. BeatOK'
    <3>1. CASE Begin("ws", ws)
      BY <1>2, <3>1, Began DEF WsTick, DaemonOK, Transports
    <3>2. CASE beat' = beat
      BY <3>2 DEF BeatOK
    <3>3. QED
      BY <1>2, <3>1, <3>2 DEF WsTick
  <2>2. QED
    BY <1>2, <2>1 DEF WsTick, database, process, batches, history,
         RowOK, ReplicasOK, DaemonOK, HistoryOK
<1>3. ASSUME WsOpen PROVE TypeOK'
  <2>1. PICK r \in Replicas : ws' = r /\ (Begin("ws", r) \/ beat' = beat)
    BY <1>3 DEF WsOpen, Up
  <2>2. BeatOK'
    <3>1. CASE Begin("ws", r)
      BY <3>1, Began DEF Transports
    <3>2. CASE beat' = beat
      BY <3>2 DEF BeatOK
    <3>3. QED
      BY <2>1, <3>1, <3>2
  <2>3. QED
    BY <1>3, <2>1, <2>2 DEF WsOpen, database, process, batches, history,
         RowOK, ReplicasOK, DaemonOK, HistoryOK
<1>4. ASSUME WsClose PROVE TypeOK'
  BY <1>4 DEF WsClose, Detach, database, process, batches, history,
       RowOK, ReplicasOK, DaemonOK, BeatOK, HistoryOK
<1>5. ASSUME FallSilent PROVE TypeOK'
  BY <1>5 DEF FallSilent, database, process, batches, link,
       RowOK, ReplicasOK, DaemonOK, BeatOK, HistoryOK
<1>6. ASSUME Resume PROVE TypeOK'
  BY <1>6 DEF Resume, database, process, batches, link, history,
       RowOK, ReplicasOK, DaemonOK, BeatOK, HistoryOK
<1>7. ASSUME Deregister PROVE TypeOK'
  <2>1. row' \in {"online", "offline"}
    BY <1>7 DEF Deregister, RowOK
  <2>2. RowOK' /\ ReplicasOK'
    BY <1>7, <2>1 DEF Deregister, process, batches, RowOK, ReplicasOK
  <2>3. DaemonOK'
    BY <1>7 DEF Deregister, Detach, DaemonOK
  <2>4. BeatOK' /\ HistoryOK'
    BY <1>7 DEF Deregister, BeatOK, HistoryOK
  <2>5. QED
    BY <2>2, <2>3, <2>4
<1>8. ASSUME Register PROVE TypeOK'
  <2>1. RowOK' /\ ReplicasOK'
    BY <1>8 DEF Register, MarkOnline, Touch, Touched, process, batches, RowOK, ReplicasOK
  <2>2. DaemonOK' /\ BeatOK' /\ HistoryOK'
    BY <1>8 DEF Register, Detach, DaemonOK, BeatOK, HistoryOK
  <2>3. QED
    BY <2>1, <2>2
<1>9. ASSUME NEW t \in Transports, BeatRead(t) PROVE TypeOK'
  <2>1. PICK due \in BOOLEAN :
          beat' = [beat EXCEPT ![t] =
            [pc |-> "record", at |-> beat[t].at, status |-> row, due |-> due]]
    BY <1>9 DEF BeatRead
  <2>2. row \in {"online", "offline"} /\ beat[t].at # None
    BY <1>9 DEF BeatRead, RowOK, BeatOK
  <2>3. BeatOK'
    BY <2>1, <2>2 DEF BeatOK
  <2>4. QED
    BY <1>9, <2>3 DEF BeatRead, database, process, batches, client, link, history,
         RowOK, ReplicasOK, DaemonOK, HistoryOK
<1>10. ASSUME NEW t \in Transports, BeatQueue(t) PROVE TypeOK'
  <2>1. BeatOK' /\ ackAge' \in 0..(Freshness + 1) /\ quiet' = 0
    BY <1>10, Answered DEF BeatQueue
  <2>2. PICK write \in BOOLEAN :
          /\ Record(t, write)
          /\ pending' = IF write THEN pending \cup {beat[t].at} ELSE pending
          /\ write => beat[t].status = "online"
    BY <1>10 DEF BeatQueue
  <2>3. key' \in 0..(LivenessTTL + 1)
    BY <2>2, RecordOK
  <2>4. beat[t].at \in Replicas
    BY <1>10 DEF BeatQueue, BeatOK
  <2>5. pending' \subseteq Replicas
    BY <2>2, <2>4 DEF ReplicasOK
  <2>6. QED
    BY <1>10, <2>1, <2>3, <2>5 DEF BeatQueue, database, RowOK, ReplicasOK, DaemonOK, HistoryOK
<1>11. ASSUME NEW t \in Transports, BeatMarkOnline(t) PROVE TypeOK'
  <2>1. BeatOK' /\ ackAge' \in 0..(Freshness + 1) /\ quiet' = 0
    BY <1>11, Answered DEF BeatMarkOnline
  <2>2. key' \in 0..(LivenessTTL + 1)
    BY <1>11, RecordOK DEF BeatMarkOnline
  <2>3. RowOK' /\ ReplicasOK'
    BY <1>11, <2>2 DEF BeatMarkOnline, MarkOnline, process, batches, RowOK, ReplicasOK
  <2>4. steady' \in BOOLEAN
    <3>1. steady' = (daemon = "running")
      BY <1>11 DEF BeatMarkOnline
    <3>2. QED
      BY <3>1, Zenon
  <2>5. DaemonOK' /\ HistoryOK'
    BY <1>11, <2>1, <2>4 DEF BeatMarkOnline, DaemonOK, HistoryOK
  <2>6. QED
    BY <2>1, <2>3, <2>5
<1>12. ASSUME NEW r \in Replicas, Flush(r) PROVE TypeOK'
  <2>1. seen' \in 0..(StaleThreshold + 1) /\ steady' \in BOOLEAN
    BY <1>12, TouchBatchOK DEF Flush
  <2>2. QED
    BY <1>12, <2>1 DEF Flush, client, link, RowOK, ReplicasOK, DaemonOK, BeatOK, HistoryOK
<1>13. ASSUME NEW r \in Replicas, SweepSelect(r) PROVE TypeOK'
  BY <1>13 DEF SweepSelect, SweepUnchanged, Stage, database, batches, client, link,
       RowOK, ReplicasOK, DaemonOK, BeatOK, HistoryOK
<1>14. ASSUME NEW r \in Replicas, SweepFilter(r) PROVE TypeOK'
  BY <1>14 DEF SweepFilter, SweepUnchanged, Stage, database, batches, client, link,
       RowOK, ReplicasOK, DaemonOK, BeatOK, HistoryOK
<1>15. ASSUME NEW r \in Replicas, SweepMark(r) PROVE TypeOK'
  <2>1. row' \in {"online", "offline"} /\ sweeper' \in [Replicas -> {"idle", "filter", "mark", "forget"}]
    BY <1>15 DEF SweepMark, Stage, RowOK, ReplicasOK
  <2>2. QED
    BY <1>15, <2>1 DEF SweepMark, SweepUnchanged, batches, client, link,
         RowOK, ReplicasOK, DaemonOK, BeatOK, HistoryOK
<1>16. ASSUME NEW r \in Replicas, SweepForget(r) PROVE TypeOK'
  <2>1. key' \in 0..(LivenessTTL + 1)
    BY <1>16 DEF SweepForget, RowOK
  <2>2. QED
    BY <1>16, <2>1 DEF SweepForget, SweepUnchanged, Stage, database, batches, client, link,
         RowOK, ReplicasOK, DaemonOK, BeatOK, HistoryOK
<1>17. ASSUME NEW r \in Replicas, Crash(r) PROVE TypeOK'
  <2>1. outages' \in 0..MaxOutages
    BY <1>17 DEF Crash, ReplicasOK
  <2>2. Gone(r)
    BY <1>17 DEF Crash
  <2>3. batchIn' = batchIn /\ sweepIn' = sweepIn
    BY <2>2 DEF Gone
  <2>4. QED
    BY <2>1, <2>2, <2>3, GoneOK DEF ReplicasOK
<1>18. ASSUME NEW r \in Replicas, ShutdownBegin(r) PROVE TypeOK'
  BY <1>18 DEF ShutdownBegin, database, batches, client, link, history,
       RowOK, ReplicasOK, DaemonOK, BeatOK, HistoryOK
<1>19. ASSUME NEW r \in Replicas, ShutdownFlush(r) PROVE TypeOK'
  <2>1. seen' \in 0..(StaleThreshold + 1) /\ steady' \in BOOLEAN
    BY <1>19, TouchBatchOK DEF ShutdownFlush
  <2>2. QED
    BY <1>19, <2>1 DEF ShutdownFlush, Stage, client, link,
         RowOK, ReplicasOK, DaemonOK, BeatOK, HistoryOK
<1>20. ASSUME NEW r \in Replicas, ShutdownExit(r) PROVE TypeOK'
  <2>1. outages' \in 0..MaxOutages /\ Gone(r)
    BY <1>20 DEF ShutdownExit, ReplicasOK
  <2>2. batchIn' = batchIn /\ sweepIn' = sweepIn
    BY <2>1 DEF Gone
  <2>3. QED
    BY <2>1, <2>2, GoneOK DEF ReplicasOK
<1>21. ASSUME NEW r \in Replicas, Restart(r) PROVE TypeOK'
  BY <1>21 DEF Restart, database, client, link, history,
       RowOK, ReplicasOK, DaemonOK, BeatOK, HistoryOK
<1>22. ASSUME Tick PROVE TypeOK'
  <2>1. seen' \in 0..(StaleThreshold + 1) /\ key' \in 0..(LivenessTTL + 1)
    <3>1. seen' = Older(seen, StaleThreshold + 1) /\ key' = Less(key)
      BY <1>22 DEF Tick
    <3>2. /\ StaleThreshold + 1 \in Nat /\ seen \in 0..(StaleThreshold + 1)
          /\ LivenessTTL + 1 \in Nat /\ key \in 0..(LivenessTTL + 1)
      BY DEF RowOK
    <3>3. QED
      BY <3>1, <3>2, OlderBound, LessBound
  <2>2. ackAge' \in 0..(Freshness + 1)
    BY <1>22, OlderBound DEF Tick, DaemonOK
  <2>3. httpIn' \in 0..BeatInterval /\ wsIn' \in 0..BeatInterval
    BY <1>22, LessBound DEF Tick, DaemonOK
  <2>4. batchIn' \in [Replicas -> 0..BatchInterval]
    BY <1>22, LessBound DEF Tick, ReplicasOK
  <2>5. sweepIn' \in [Replicas -> 0..SweepInterval]
    BY <1>22, LessBound DEF Tick, ReplicasOK
  <2>6. quiet' \in 0..QuietCap
    <3>1. quiet' = Older(quiet, QuietCap) \/ quiet' = Older(quiet, 1)
      BY <1>22 DEF Tick
    <3>2. quiet \in 0..QuietCap /\ 1 <= QuietCap
      BY DEF HistoryOK, QuietCap
    <3>3. QED
      BY <3>1, <3>2 DEF Older
  <2>7. adrift' \in 0..AdriftCap
    <3>1. adrift \in 0..AdriftCap
      BY DEF HistoryOK
    <3>2. Older(adrift, AdriftCap) \in 0..AdriftCap
      BY <3>1, OlderBound
    <3>3. adrift' = Older(adrift, AdriftCap) \/ adrift' = 0
      BY <1>22 DEF Tick
    <3>4. QED
      BY <3>2, <3>3
  <2>8. QED
    BY <1>22, <2>1, <2>2, <2>3, <2>4, <2>5, <2>6, <2>7
    DEF Tick, RowOK, ReplicasOK, DaemonOK, BeatOK, HistoryOK
<1>23. ASSUME UNCHANGED vars PROVE TypeOK'
  BY <1>23 DEF vars, database, process, batches, client, link, history,
       RowOK, ReplicasOK, DaemonOK, BeatOK, HistoryOK
<1>24. QED
  BY <1>1, <1>2, <1>3, <1>4, <1>5, <1>6, <1>7, <1>8, <1>9, <1>10, <1>11, <1>12, <1>13,
     <1>14, <1>15, <1>16, <1>17, <1>18, <1>19, <1>20, <1>21, <1>22, <1>23
  DEF Next, DaemonNext, BeatNext, ReplicaNext

(* The database, the replicas, the daemon and the requests keep their types. *)
THEOREM LivenessTypeCorrect == Spec => []TypeOK
<1>1. Init => TypeOK
  BY TypesInitial
<1>2. TypeOK /\ [Next]_vars => TypeOK'
  BY TypesStep
<1>3. QED
  BY <1>1, <1>2, PTL DEF Spec

-----------------------------------------------------------------------------
(* The age of last_seen_at *)

(* The numbers that the bounds compare. *)
LEMMA Numbers ==
  ASSUME TypeOK
  PROVE  /\ seen \in Nat /\ ackAge \in Nat
         /\ httpIn \in Nat /\ httpIn <= BeatInterval
         /\ \A r \in Replicas : batchIn[r] \in Nat /\ batchIn[r] <= BatchInterval
         /\ {FlushInterval, Freshness, BeatInterval, BatchInterval, StaleThreshold} \subseteq Nat
<1> USE IntervalsAssumption DEF IntervalsAssumption
<1>1. seen \in Nat /\ ackAge \in Nat /\ httpIn \in Nat /\ httpIn <= BeatInterval
  BY DEF TypeOK, RowOK, DaemonOK
<1>2. \A r \in Replicas : batchIn[r] \in 0..BatchInterval
  BY DEF TypeOK, ReplicasOK
<1>3. QED
  BY <1>1, <1>2

(* A write of last_seen_at restores every bound. *)
LEMMA Written == ASSUME TypeOK', seen' = 0 PROVE Ages'
<1>1. /\ ackAge' \in Nat /\ httpIn' \in Nat /\ httpIn' <= BeatInterval
      /\ \A r \in Replicas : batchIn'[r] \in Nat /\ batchIn'[r] <= BatchInterval
  <2>1. ackAge' \in Nat /\ httpIn' \in Nat /\ httpIn' <= BeatInterval
    BY IntervalsAssumption DEF IntervalsAssumption, TypeOK, DaemonOK
  <2>2. \A r \in Replicas : batchIn'[r] \in 0..BatchInterval
    BY DEF TypeOK, ReplicasOK
  <2>3. QED
    BY <2>1, <2>2, IntervalsAssumption DEF IntervalsAssumption
<1>2. {FlushInterval, Freshness, BeatInterval, BatchInterval} \subseteq Nat
  BY IntervalsAssumption DEF IntervalsAssumption
<1>3. pending' \subseteq Replicas
  BY DEF TypeOK, ReplicasOK
<1>4. QED
  BY <1>1, <1>2, <1>3 DEF Ages, NotDueIsFresh, AckedIsFresh, NextBeatReaches,
    NextFlushReaches, AgeBounded, BeatGap

(* Of an unsteady runtime nothing is claimed but what a beat has read. *)
LEMMA Unsteady ==
  ASSUME steady' = FALSE, NotDueIsFresh' PROVE SteadyRuns' /\ Ages'
  BY DEF SteadyRuns, Ages, AckedIsFresh, NextBeatReaches, NextFlushReaches, AgeBounded

(* A step that leaves the ages, the batch and its timers alone, and opens  *)
(* no request that need not write, keeps the bounds.                       *)
LEMMA Undisturbed ==
  ASSUME Ages, NotDueIsFresh',
         UNCHANGED <<seen, steady, pending, batchIn, httpIn>>,
         ackAge' = ackAge \/ ackAge' = Freshness + 1,
         Settled' => Settled,
         beat'["http"].pc = "idle" => beat["http"].pc = "idle"
  PROVE  Ages'
<1>1. AckedIsFresh'
  BY IntervalsAssumption DEF IntervalsAssumption, Ages, AckedIsFresh
<1>2. NextBeatReaches'
  BY DEF Ages, NextBeatReaches
<1>3. NextFlushReaches'
  BY DEF Ages, NextFlushReaches
<1>4. AgeBounded'
  BY DEF Ages, AgeBounded
<1>5. QED
  BY <1>1, <1>2, <1>3, <1>4 DEF Ages

(* Every step keeps the bounds, and who may still write last_seen_at. *)
LEMMA FreshStep ==
  ASSUME TypeOK, TypeOK', FreshInv, [Next]_vars PROVE FreshInv'
<1> USE DEF FreshInv
<1>1. ASSUME HttpTick PROVE FreshInv'
  <2>1. PICK late \in BOOLEAN :
          /\ Reached(ackAge, Freshness, late)
          /\ IF late /\ Up # {} THEN \E r \in Up : Begin("http", r) ELSE beat' = beat
    BY <1>1 DEF HttpTick
  <2>2. /\ UNCHANGED <<seen, steady, pending, batchIn, server, ackAge, ws, daemon, row>>
        /\ httpIn' = BeatInterval
    BY <1>1 DEF HttpTick, database, process, batches, link, history
  <2>3. Settled' <=> Settled
    BY <2>2 DEF Settled
  <2>4. CASE late /\ Up # {}
    <3>1. PICK r \in Up : Begin("http", r)
      BY <2>1, <2>4
    <3>2. /\ beat' = [beat EXCEPT !["http"] = [NoBeat EXCEPT !.pc = "read", !.at = r]]
          /\ beat'["http"].pc = "read" /\ beat'["http"].at = r
      BY <3>1 DEF Begin, NoBeat, TypeOK, BeatOK, Transports
    <3>3. Attached'
      BY <2>2, <3>2 DEF Attached, Up, Transports, TypeOK, BeatOK
    <3>4. NotDueIsFresh'
      BY <2>2, <3>2 DEF Ages, NotDueIsFresh, Transports, TypeOK, BeatOK
    <3>5. AckedIsFresh' /\ NextBeatReaches' /\ NextFlushReaches' /\ AgeBounded'
      BY <2>2, <2>3, <3>2 DEF Ages, AckedIsFresh, NextBeatReaches, NextFlushReaches, AgeBounded
    <3>6. QED
      BY <2>2, <3>3, <3>4, <3>5 DEF Ages, SteadyRuns
  <2>5. CASE ~(late /\ Up # {})
    <3>1. beat' = beat
      BY <2>1, <2>5
    <3>2. Attached' /\ SteadyRuns' /\ NotDueIsFresh'
      BY <2>2, <3>1 DEF Attached, SteadyRuns, Ages, NotDueIsFresh
    <3>3. AckedIsFresh' /\ NextFlushReaches' /\ AgeBounded'
      BY <2>2, <2>3, <3>1 DEF Ages, AckedIsFresh, NextFlushReaches, AgeBounded
    <3>4. steady /\ Settled => ~late
      BY <2>5 DEF SteadyRuns, Settled, Up
    <3>5. ~late => ackAge <= Freshness
      BY <2>1 DEF Reached
    <3>6. steady /\ Settled /\ pending = {} => seen <= FlushInterval + Freshness
      BY <3>4, <3>5, Numbers DEF Ages, AckedIsFresh
    <3>7. NextBeatReaches'
      BY <2>2, <2>3, <3>6, Numbers DEF Ages, NextBeatReaches, BeatGap
    <3>8. QED
      BY <3>2, <3>3, <3>7 DEF Ages
  <2>6. QED
    BY <2>4, <2>5
<1>2. ASSUME WsTick PROVE FreshInv'
  <2>1. /\ UNCHANGED <<seen, steady, pending, batchIn, server, ackAge, ws, daemon, row, httpIn>>
        /\ ws # None
        /\ Begin("ws", ws) \/ beat' = beat
    BY <1>2 DEF WsTick, database, process, batches, history
  <2>2. \/ beat' = beat
        \/ /\ beat' = [beat EXCEPT !["ws"] = beat'["ws"]]
           /\ beat'["ws"].pc = "read" /\ beat'["ws"].at = ws
    BY <2>1 DEF Begin, NoBeat, TypeOK, BeatOK, Transports
  <2>3. Attached'
    BY <2>1, <2>2 DEF Attached, Transports, TypeOK, BeatOK
  <2>4. NotDueIsFresh' /\ beat'["http"] = beat["http"]
    BY <2>1, <2>2 DEF Ages, NotDueIsFresh, Transports, TypeOK, BeatOK
  <2>5. QED
    BY <2>1, <2>3, <2>4, Undisturbed DEF SteadyRuns, Settled
<1>3. ASSUME WsOpen PROVE FreshInv'
  <2>1. PICK r \in Up : ws' = r /\ (Begin("ws", r) \/ beat' = beat)
    BY <1>3 DEF WsOpen
  <2>2. UNCHANGED <<seen, steady, pending, batchIn, server, ackAge, daemon, row, httpIn>>
    BY <1>3 DEF WsOpen, database, process, batches, history
  <2>3. \/ beat' = beat
        \/ /\ beat' = [beat EXCEPT !["ws"] = beat'["ws"]]
           /\ beat'["ws"].pc = "read" /\ beat'["ws"].at = r
    BY <2>1 DEF Begin, NoBeat, TypeOK, BeatOK, Transports
  <2>4. server[r] = "up"
    BY <2>1 DEF Up
  <2>5. Attached'
    BY <2>1, <2>2, <2>3, <2>4 DEF Attached, Transports, TypeOK, BeatOK
  <2>6. NotDueIsFresh' /\ beat'["http"] = beat["http"]
    BY <2>2, <2>3 DEF Ages, NotDueIsFresh, Transports, TypeOK, BeatOK
  <2>7. QED
    BY <2>2, <2>5, <2>6, Undisturbed DEF SteadyRuns, Settled
<1>4. ASSUME WsClose PROVE FreshInv'
  <2>1. /\ UNCHANGED <<seen, steady, pending, batchIn, server, daemon, row, httpIn, beat>>
        /\ ws' = None /\ ackAge' = Freshness + 1
    BY <1>4 DEF WsClose, Detach, database, process, batches, history
  <2>2. NotDueIsFresh'
    BY <2>1 DEF Ages, NotDueIsFresh
  <2>3. QED
    BY <2>1, <2>2, Undisturbed DEF Attached, SteadyRuns, Settled
<1>5. ASSUME FallSilent \/ Deregister PROVE FreshInv'
  <2>1. /\ UNCHANGED <<seen, pending, server, beat>>
        /\ ws' = ws \/ ws' = None
        /\ steady' = FALSE
    BY <1>5 DEF FallSilent, Deregister, Detach, database, process, batches, link
  <2>2. Attached' /\ NotDueIsFresh'
    BY <2>1 DEF Ages, NotDueIsFresh, Attached
  <2>3. QED
    BY <2>1, <2>2, Unsteady
<1>6. ASSUME Resume PROVE FreshInv'
  <2>1. /\ UNCHANGED <<seen, steady, pending, batchIn, server, ws, ackAge, row, httpIn, beat>>
        /\ daemon # "running"
    BY <1>6 DEF Resume, database, process, batches, link, history
  <2>2. ~steady
    BY <2>1 DEF SteadyRuns
  <2>3. Attached' /\ NotDueIsFresh'
    BY <2>1 DEF Ages, NotDueIsFresh, Attached
  <2>4. QED
    BY <2>1, <2>2, <2>3, Undisturbed DEF SteadyRuns, Settled
<1>7. ASSUME Register PROVE FreshInv'
  <2>1. /\ UNCHANGED <<pending, server, beat>>
        /\ ws' = None /\ seen' = 0 /\ row' = "online" /\ daemon' = "running"
        /\ Up # {}
    BY <1>7 DEF Register, MarkOnline, Detach, process, batches
  <2>2. Attached'
    BY <2>1 DEF Attached
  <2>3. SteadyRuns'
    BY <2>1 DEF SteadyRuns, Up
  <2>4. QED
    BY <2>1, <2>2, <2>3, Written
<1>8. ASSUME NEW t \in Transports, BeatRead(t) PROVE FreshInv'
  <2>1. PICK due \in BOOLEAN :
          /\ NeedsWrite(due)
          /\ beat' = [beat EXCEPT ![t] =
               [pc |-> "record", at |-> beat[t].at, status |-> row, due |-> due]]
    BY <1>8 DEF BeatRead
  <2>2. /\ UNCHANGED <<seen, steady, pending, batchIn, server, daemon, row, httpIn, ws, ackAge>>
        /\ beat[t].pc = "read"
    BY <1>8 DEF BeatRead, database, process, batches, client, link, history
  <2>3. Attached'
    BY <2>1, <2>2 DEF Attached, TypeOK, BeatOK
  <2>4. ~due => seen <= FlushInterval
    BY <2>1 DEF NeedsWrite, Reached
  <2>5. NotDueIsFresh'
    BY <2>1, <2>2, <2>4 DEF Ages, NotDueIsFresh, TypeOK, BeatOK
  <2>6. beat'["http"].pc = "idle" => beat["http"].pc = "idle"
    BY <2>1 DEF TypeOK, BeatOK, Transports
  <2>7. QED
    BY <2>2, <2>3, <2>5, <2>6, Undisturbed DEF SteadyRuns, Settled
<1>9. ASSUME NEW t \in Transports, BeatQueue(t) PROVE FreshInv'
  <2>1. PICK write \in BOOLEAN :
          /\ Record(t, write)
          /\ pending' = IF write THEN pending \cup {beat[t].at} ELSE pending
    BY <1>9 DEF BeatQueue
  <2>2. /\ UNCHANGED <<seen, steady, batchIn, server, daemon, row, httpIn, ws>>
        /\ beat[t].pc = "record"
        /\ beat' = [beat EXCEPT ![t] = NoBeat]
        /\ ackAge' = ackAge \/ ackAge' = 0
    BY <1>9 DEF BeatQueue, Answer, database
  <2>3. Settled' <=> Settled
    BY <2>2 DEF Settled
  <2>4. beat[t].at \in Replicas /\ server[beat[t].at] # "down"
    BY <2>2 DEF Attached, TypeOK, BeatOK
  <2>5. beat'[t].pc = "idle" /\ \A u \in Transports \ {t} : beat'[u] = beat[u]
    BY <2>2, NoBeatOK DEF TypeOK, BeatOK
  <2>6. Attached'
    BY <2>1, <2>2, <2>4, <2>5 DEF Attached
  <2>7. NotDueIsFresh'
    BY <2>2, <2>5 DEF Ages, NotDueIsFresh
  <2>8. SteadyRuns' /\ AgeBounded'
    BY <2>2 DEF SteadyRuns, Ages, AgeBounded
  <2>9. pending' = {} => pending = {} /\ seen <= FlushInterval
    <3>1. pending' = {} => ~write
      BY <2>1
    <3>2. ~write => ~beat[t].due
      BY <2>1 DEF Record
    <3>3. QED
      BY <2>1, <2>2, <3>1, <3>2 DEF Ages, NotDueIsFresh
  <2>10. AckedIsFresh'
    BY <2>2, <2>3, <2>9, Numbers DEF AckedIsFresh
  <2>11. NextBeatReaches'
    BY <2>2, <2>9, Numbers DEF NextBeatReaches, BeatGap
  <2>12. NextFlushReaches'
    <3>1. CASE pending = {}
      <4>1. pending' # {} => beat[t].at \in pending'
        BY <2>1, <3>1
      <4>2. steady /\ Settled => seen <= FlushInterval + BeatGap
        BY <3>1 DEF Ages, NextBeatReaches
      <4>3. steady /\ Settled =>
              seen <= FlushInterval + BeatGap + (BatchInterval - batchIn[beat[t].at])
        BY <4>2, <2>4, Numbers, Caps
      <4>4. QED
        BY <2>2, <2>3, <4>1, <4>3 DEF NextFlushReaches
    <3>2. CASE pending # {}
      <4>1. pending \subseteq pending'
        BY <2>1
      <4>2. QED
        BY <2>2, <2>3, <3>2, <4>1 DEF Ages, NextFlushReaches
    <3>3. QED
      BY <3>1, <3>2
  <2>13. QED
    BY <2>6, <2>7, <2>8, <2>10, <2>11, <2>12 DEF Ages
<1>10. ASSUME NEW t \in Transports, BeatMarkOnline(t) PROVE FreshInv'
  <2>1. /\ UNCHANGED <<pending, server, daemon, ws>>
        /\ beat' = [beat EXCEPT ![t] = NoBeat]
        /\ row' = "online" /\ seen' = 0 /\ steady' = (daemon = "running")
        /\ beat[t].pc = "record"
    BY <1>10 DEF BeatMarkOnline, MarkOnline, Answer, process, batches
  <2>2. beat'[t].pc = "idle" /\ \A u \in Transports \ {t} : beat'[u] = beat[u]
    BY <2>1, NoBeatOK DEF TypeOK, BeatOK
  <2>3. Attached'
    BY <2>1, <2>2 DEF Attached
  <2>4. beat[t].at \in Replicas /\ server[beat[t].at] # "down"
    BY <2>1 DEF Attached, TypeOK, BeatOK
  <2>5. SteadyRuns'
    BY <2>1, <2>4 DEF SteadyRuns
  <2>6. QED
    BY <2>1, <2>3, <2>5, Written
<1>11. ASSUME NEW r \in Replicas, Flush(r) PROVE FreshInv'
  <2>1. /\ UNCHANGED <<server, daemon, row, httpIn, ws, ackAge, beat>>
        /\ Serving(r) /\ TouchBatch(r) /\ pending' = pending \ {r}
        /\ batchIn' = [batchIn EXCEPT ![r] = BatchInterval]
    BY <1>11 DEF Flush, client, link
  <2>2. Attached'
    BY <2>1 DEF Attached
  <2>3. Settled' <=> Settled
    BY <2>1 DEF Settled
  <2>4. CASE r \in pending /\ row = "online"
    <3>1. seen' = 0 /\ steady' = (daemon = "running")
      BY <2>1, <2>4 DEF TouchBatch
    <3>2. SteadyRuns'
      BY <2>1, <2>4, <3>1 DEF SteadyRuns, Serving
    <3>3. QED
      BY <2>2, <3>1, <3>2, Written
  <2>5. CASE ~(r \in pending /\ row = "online")
    <3>1. UNCHANGED <<seen, steady>>
      BY <2>1, <2>5 DEF TouchBatch
    <3>2. SteadyRuns' /\ NotDueIsFresh' /\ AgeBounded'
      BY <2>1, <3>1 DEF SteadyRuns, Ages, NotDueIsFresh, AgeBounded
    <3>3. steady => pending' = pending /\ r \notin pending
      BY <2>1, <2>5 DEF SteadyRuns
    <3>4. AckedIsFresh' /\ NextBeatReaches'
      BY <2>1, <2>3, <3>1, <3>3 DEF Ages, AckedIsFresh, NextBeatReaches
    <3>5. \A q \in pending : q # r => batchIn'[q] = batchIn[q]
      BY <2>1 DEF TypeOK, ReplicasOK
    <3>6. NextFlushReaches'
      BY <2>1, <2>3, <3>1, <3>3, <3>5 DEF Ages, NextFlushReaches
    <3>7. QED
      BY <2>2, <3>2, <3>4, <3>6 DEF Ages
  <2>6. QED
    BY <2>4, <2>5
<1>12. ASSUME NEW r \in Replicas, SweepSelect(r) \/ SweepFilter(r) \/ SweepForget(r)
       PROVE  FreshInv'
  <2>1. UNCHANGED <<seen, steady, pending, batchIn, server, daemon, row, httpIn, ws, ackAge, beat>>
    BY <1>12 DEF SweepSelect, SweepFilter, SweepForget, SweepUnchanged, database, batches,
      client, link
  <2>2. Attached' /\ SteadyRuns' /\ NotDueIsFresh'
    BY <2>1 DEF Attached, SteadyRuns, Ages, NotDueIsFresh
  <2>3. QED
    BY <2>1, <2>2, Undisturbed DEF Settled
<1>13. ASSUME NEW r \in Replicas, SweepMark(r) PROVE FreshInv'
  <2>1. /\ UNCHANGED <<seen, steady, pending, batchIn, server, daemon, httpIn, ws, ackAge, beat>>
        /\ row' = row \/ seen >= StaleThreshold
    BY <1>13 DEF SweepMark, Reached, SweepUnchanged, batches, client, link
  <2>2. steady => seen < StaleThreshold
    BY ChainAssumption, Numbers DEF Ages, AgeBounded, BeatGap
  <2>3. steady => row' = row
    BY <2>1, <2>2, Numbers
  <2>4. Attached' /\ SteadyRuns' /\ NotDueIsFresh'
    BY <2>1, <2>3 DEF Attached, SteadyRuns, Ages, NotDueIsFresh
  <2>5. QED
    BY <2>1, <2>4, Undisturbed DEF Settled
<1>14. ASSUME NEW r \in Replicas, Crash(r) \/ ShutdownExit(r) PROVE FreshInv'
  <2>1. Gone(r)
    BY <1>14 DEF Crash, ShutdownExit
  <2>2. /\ server' = [server EXCEPT ![r] = "down"] /\ pending' = pending \ {r}
        /\ beat' = [t \in Transports |-> IF beat[t].at = r THEN NoBeat ELSE beat[t]]
        /\ ws' = IF ws = r THEN None ELSE ws
        /\ seen' = seen /\ steady' = FALSE
    BY <2>1 DEF Gone, Detach, link, database
  <2>3. Attached'
    <3>1. \A q \in Replicas \ {r} : server'[q] = server[q]
      BY <2>2 DEF TypeOK, ReplicasOK
    <3>2. \A t \in Transports : beat'[t].pc # "idle" =>
            beat[t].pc # "idle" /\ beat'[t].at = beat[t].at /\ beat[t].at # r
      BY <2>2, NoBeatOK
    <3>3. \A t \in Transports : beat'[t].pc # "idle" => beat[t].at \in Replicas \ {r}
      BY <3>2 DEF TypeOK, BeatOK
    <3>4. \A t \in Transports : beat'[t].pc # "idle" => server'[beat'[t].at] # "down"
      BY <3>1, <3>2, <3>3 DEF Attached
    <3>5. \A q \in pending' : server'[q] # "down"
      BY <2>2, <3>1 DEF Attached, TypeOK, ReplicasOK
    <3>6. ws' # None => server'[ws'] # "down"
      BY <2>2, <3>1 DEF Attached, TypeOK, DaemonOK
    <3>7. QED
      BY <3>4, <3>5, <3>6 DEF Attached
  <2>4. NotDueIsFresh'
    BY <2>2, NoBeatOK DEF Ages, NotDueIsFresh
  <2>5. QED
    BY <2>2, <2>3, <2>4, Unsteady
<1>15. ASSUME NEW r \in Replicas, ShutdownBegin(r) PROVE FreshInv'
  <2>1. /\ UNCHANGED <<seen, steady, pending, batchIn, daemon, row, httpIn, ws, ackAge, beat>>
        /\ server' = [server EXCEPT ![r] = "draining"]
    BY <1>15 DEF ShutdownBegin, database, batches, client, link, history
  <2>2. \A q \in Replicas : server'[q] = IF q = r THEN "draining" ELSE server[q]
    BY <2>1 DEF TypeOK, ReplicasOK
  <2>3. ~Settled'
    BY <2>2 DEF Settled
  <2>4. Attached'
    BY <2>1, <2>2 DEF Attached, TypeOK, ReplicasOK, DaemonOK, BeatOK
  <2>5. SteadyRuns' /\ NotDueIsFresh'
    BY <2>1, <2>2 DEF SteadyRuns, Ages, NotDueIsFresh
  <2>6. QED
    BY <2>1, <2>3, <2>4, <2>5, Undisturbed
<1>16. ASSUME NEW r \in Replicas, ShutdownFlush(r) PROVE FreshInv'
  <2>1. /\ UNCHANGED <<daemon, row, ws, beat>>
        /\ server[r] = "draining" /\ TouchBatch(r) /\ pending' = pending \ {r}
        /\ server' = [server EXCEPT ![r] = "drained"]
    BY <1>16 DEF ShutdownFlush, client, link
  <2>2. \A q \in Replicas : server'[q] = IF q = r THEN "drained" ELSE server[q]
    BY <2>1 DEF TypeOK, ReplicasOK
  <2>3. ~Settled'
    BY <2>2 DEF Settled
  <2>4. Attached'
    BY <2>1, <2>2 DEF Attached, TypeOK, ReplicasOK, DaemonOK, BeatOK
  <2>5. CASE r \in pending /\ row = "online"
    <3>1. seen' = 0 /\ steady' = (daemon = "running")
      BY <2>1, <2>5 DEF TouchBatch
    <3>2. server'[r] # "down"
      BY <2>2
    <3>3. SteadyRuns'
      BY <2>1, <2>5, <3>1, <3>2 DEF SteadyRuns
    <3>4. QED
      BY <2>4, <3>1, <3>3, Written
  <2>6. CASE ~(r \in pending /\ row = "online")
    <3>1. UNCHANGED <<seen, steady>>
      BY <2>1, <2>6 DEF TouchBatch
    <3>2. SteadyRuns' /\ NotDueIsFresh' /\ AgeBounded'
      BY <2>1, <2>2, <3>1 DEF SteadyRuns, Ages, NotDueIsFresh, AgeBounded
    <3>3. QED
      BY <2>3, <2>4, <3>2 DEF Ages, AckedIsFresh, NextBeatReaches, NextFlushReaches
  <2>7. QED
    BY <2>5, <2>6
<1>17. ASSUME NEW r \in Replicas, Restart(r) PROVE FreshInv'
  <2>1. /\ UNCHANGED <<seen, steady, pending, daemon, row, httpIn, ws, ackAge, beat>>
        /\ server[r] = "down" /\ server' = [server EXCEPT ![r] = "up"]
        /\ batchIn' = [batchIn EXCEPT ![r] = BatchInterval]
    BY <1>17 DEF Restart, database, client, link, history
  <2>2. \A q \in Replicas : server'[q] = IF q = r THEN "up" ELSE server[q]
    BY <2>1 DEF TypeOK, ReplicasOK
  <2>3. Settled' => Settled
    BY <2>1, <2>2 DEF Settled
  <2>4. Attached'
    BY <2>1, <2>2 DEF Attached, TypeOK, ReplicasOK, DaemonOK, BeatOK
  <2>5. SteadyRuns' /\ NotDueIsFresh' /\ AgeBounded'
    BY <2>1, <2>2 DEF SteadyRuns, Ages, NotDueIsFresh, AgeBounded
  <2>6. AckedIsFresh' /\ NextBeatReaches'
    BY <2>1, <2>3 DEF Ages, AckedIsFresh, NextBeatReaches
  <2>7. \A q \in pending : batchIn'[q] = batchIn[q]
    BY <2>1 DEF Attached, TypeOK, ReplicasOK
  <2>8. NextFlushReaches'
    BY <2>1, <2>3, <2>7 DEF Ages, NextFlushReaches
  <2>9. QED
    BY <2>4, <2>5, <2>6, <2>8 DEF Ages
<1>18. ASSUME Tick PROVE FreshInv'
  <2>1. UNCHANGED <<steady, pending, server, daemon, row, ws, beat>> /\ Calm
    BY <1>18 DEF Tick
  <2>2. seen' \in Nat /\ seen' <= seen + 1
    <3>1. StaleThreshold + 1 \in Nat /\ seen \in 0..(StaleThreshold + 1)
      BY Numbers DEF TypeOK, RowOK
    <3>2. seen' = Older(seen, StaleThreshold + 1)
      BY <1>18 DEF Tick
    <3>3. QED
      BY <3>1, <3>2, OlderBound
  <2>3. ackAge' <= Freshness => ackAge' = ackAge + 1
    BY <1>18, OlderBound, Numbers DEF Tick, TypeOK, DaemonOK
  <2>4. steady => httpIn > 0 /\ httpIn' = httpIn - 1
    BY <1>18, <2>1 DEF Tick, Calm, SteadyRuns, Less
  <2>5. \A r \in pending : batchIn[r] > 0 /\ batchIn'[r] = batchIn[r] - 1
    BY <1>18, <2>1 DEF Tick, Calm, Less, Attached, TypeOK, ReplicasOK
  <2>6. Settled
    BY <2>1 DEF Settled, Calm
  <2>7. Attached' /\ SteadyRuns' /\ NotDueIsFresh'
    BY <2>1 DEF Attached, SteadyRuns, NotDueIsFresh, Calm
  <2>8. AckedIsFresh'
    BY <2>1, <2>2, <2>3, <2>6, Numbers DEF Ages, AckedIsFresh
  <2>9. NextBeatReaches'
    BY <2>1, <2>2, <2>4, <2>6, Numbers DEF Ages, NextBeatReaches, Calm, Transports, BeatGap
  <2>10. NextFlushReaches'
    <3>1. SUFFICES ASSUME steady, pending # {}
                   PROVE  \E r \in pending :
                     seen' <= FlushInterval + BeatGap + (BatchInterval - batchIn'[r])
      BY <2>1 DEF NextFlushReaches
    <3>2. PICK r \in pending :
            seen <= FlushInterval + BeatGap + (BatchInterval - batchIn[r])
      BY <2>6, <3>1 DEF Ages, NextFlushReaches
    <3>3. r \in Replicas
      BY DEF TypeOK, ReplicasOK
    <3>4. QED
      BY <2>2, <2>5, <3>2, <3>3, Numbers, Caps
  <2>11. AgeBounded'
    <3>1. Settled'
      BY <2>1, <2>6 DEF Settled
    <3>2. CASE pending = {}
      BY <2>1, <2>2, <2>9, <3>1, <3>2, Numbers, Caps DEF NextBeatReaches, AgeBounded
    <3>3. CASE pending # {}
      <4>1. steady => \E r \in pending :
              seen' <= FlushInterval + BeatGap + (BatchInterval - batchIn'[r])
        BY <2>1, <2>10, <3>1, <3>3 DEF NextFlushReaches
      <4>2. \A r \in pending : batchIn'[r] \in Nat
        BY <2>5, Numbers DEF TypeOK, ReplicasOK
      <4>3. QED
        BY <2>1, <2>2, <4>1, <4>2, Numbers, Caps DEF AgeBounded
    <3>4. QED
      BY <3>2, <3>3
  <2>12. QED
    BY <2>7, <2>8, <2>9, <2>10, <2>11 DEF Ages
<1>19. ASSUME UNCHANGED vars PROVE FreshInv'
  <2>1. UNCHANGED <<seen, steady, pending, batchIn, server, daemon, row, httpIn, ws, ackAge, beat>>
    BY <1>19 DEF vars, database, process, batches, client, link, history
  <2>2. Attached' /\ SteadyRuns' /\ NotDueIsFresh'
    BY <2>1 DEF Attached, SteadyRuns, Ages, NotDueIsFresh
  <2>3. QED
    BY <2>1, <2>2, Undisturbed DEF Settled
<1>20. QED
  BY <1>1, <1>2, <1>3, <1>4, <1>5, <1>6, <1>7, <1>8, <1>9, <1>10, <1>11, <1>12, <1>13,
     <1>14, <1>15, <1>16, <1>17, <1>18, <1>19
  DEF Next, DaemonNext, BeatNext, ReplicaNext

(* The age of last_seen_at is bounded from the registration on. *)
LEMMA FreshInitial == Init => FreshInv
<1> SUFFICES ASSUME Init PROVE FreshInv
  OBVIOUS
<1>1. TypeOK
  BY TypesInitial
<1>2. /\ row = "online" /\ seen = 0 /\ daemon = "running" /\ pending = {} /\ ws = None
      /\ ackAge = Freshness + 1
      /\ \A t \in Transports : beat[t].pc = "idle"
  BY NoBeatOK DEF Init
<1>3. \E r \in Replicas : server[r] # "down"
  BY IntervalsAssumption DEF IntervalsAssumption, Init
<1>4. QED
  BY <1>1, <1>2, <1>3, Numbers DEF FreshInv, Attached, SteadyRuns, Ages, NotDueIsFresh,
    AckedIsFresh, NextBeatReaches, NextFlushReaches, AgeBounded, BeatGap

(* The invariant that carries the bounds, for every run. *)
THEOREM FreshInvariant == Spec => []FreshInv
<1>1. Init => FreshInv
  BY FreshInitial
<1>2. TypeOK /\ TypeOK' /\ FreshInv /\ [Next]_vars => FreshInv'
  BY FreshStep
<1>3. QED
  BY <1>1, <1>2, LivenessTypeCorrect, PTL DEF Spec

(* recordHeartbeat, the batch and the transports keep last_seen_at of a    *)
(* daemon that keeps beating within the chain of intervals.                *)
THEOREM AgeIsBounded == Spec => []AgeBounded
<1>1. FreshInv => AgeBounded
  BY DEF FreshInv, Ages
<1>2. QED
  BY <1>1, FreshInvariant, PTL

(* No sweep of any replica takes such a runtime offline. *)
THEOREM SteadyStaysOnline == Spec => []SteadyIsOnline
<1>1. FreshInv => SteadyIsOnline
  BY DEF FreshInv, SteadyRuns, SteadyIsOnline
<1>2. QED
  BY <1>1, FreshInvariant, PTL

-----------------------------------------------------------------------------
(* The end of a daemon is noticed                                          *)

(* From here on last_seen_at of a daemon that is silent is stale to every  *)
(* sweep, whatever a batch still wrote, and its record has expired.        *)
Late == StaleThreshold + BatchInterval + 1

ServersUp == outages = 0 => \A r \in Replicas : server[r] = "up"

(* A batch is flushed in time ... *)
BatchSoon == outages = 0 => \A r \in pending : quiet + batchIn[r] <= BatchInterval

(* ... so that last_seen_at of an online row ages with the silence ... *)
RowAges == outages = 0 /\ row = "online" => seen = StaleThreshold + 1 \/ quiet <= seen + BatchInterval

(* ... as does the record, and then the next sweep of any replica takes    *)
(* the runtime: it has begun, or is to begin before its interval is over.  *)
RecordAges == key = 0 \/ key + quiet <= LivenessTTL + 1

SweepComes ==
  outages = 0 /\ row = "online" /\ quiet >= Late => \A r \in Replicas :
    /\ quiet < Late + SweepInterval
    /\ \/ sweeper[r] \in {"filter", "mark"}
       \/ sweeper[r] = "idle" /\ quiet + sweepIn[r] < Late + SweepInterval

DetectInv == ServersUp /\ BatchSoon /\ RowAges /\ RecordAges /\ SweepComes

LEMMA Spans ==
  ASSUME TypeOK
  PROVE  /\ {StaleThreshold, BatchInterval, SweepInterval, LivenessTTL, Late} \subseteq Nat /\ SweepInterval > 0
         /\ seen \in Nat /\ seen <= StaleThreshold + 1 /\ key \in Nat /\ key <= LivenessTTL + 1
         /\ quiet \in Nat /\ outages \in Nat /\ pending \subseteq Replicas
         /\ \A r \in Replicas : /\ batchIn[r] \in Nat /\ batchIn[r] <= BatchInterval
                                /\ sweepIn[r] \in Nat /\ sweepIn[r] <= SweepInterval
         /\ LivenessTTL < StaleThreshold /\ Late = StaleThreshold + BatchInterval + 1
<1>1. {StaleThreshold, BatchInterval, SweepInterval, LivenessTTL} \subseteq Nat /\ SweepInterval > 0
      /\ MaxOutages \in Nat /\ LivenessTTL < StaleThreshold
  BY IntervalsAssumption, RecordAssumption DEF IntervalsAssumption, RecordAssumption
<1>2. seen \in Nat /\ seen <= StaleThreshold + 1 /\ key \in Nat /\ key <= LivenessTTL + 1
  BY <1>1 DEF TypeOK, RowOK
<1>3. /\ outages \in Nat /\ pending \subseteq Replicas
      /\ \A r \in Replicas : batchIn[r] \in 0..BatchInterval /\ sweepIn[r] \in 0..SweepInterval
  BY <1>1 DEF TypeOK, ReplicasOK
<1>4. quiet \in Nat
  BY Caps DEF TypeOK, HistoryOK
<1> QED BY <1>1, <1>2, <1>3, <1>4 DEF Late

(* A beat that is handled restores them all; an outage ends the matter.    *)
LEMMA DetectHeard ==
  ASSUME TypeOK, TypeOK', DetectInv, quiet' = 0, UNCHANGED <<server, outages>>
  PROVE  DetectInv'
<1>1. ServersUp'
  BY DEF DetectInv, ServersUp
<1>2. BatchSoon'
  <2>1. pending' \subseteq Replicas /\ \A r \in Replicas : batchIn'[r] \in 0..BatchInterval
    BY DEF TypeOK, ReplicasOK
  <2> QED BY <2>1, Spans DEF BatchSoon
<1>3. RowAges' /\ RecordAges' /\ SweepComes'
  <2>1. seen' \in 0..(StaleThreshold + 1) /\ key' \in 0..(LivenessTTL + 1)
    BY DEF TypeOK, RowOK
  <2> QED BY <2>1, Spans DEF RowAges, RecordAges, SweepComes
<1> QED BY <1>1, <1>2, <1>3 DEF DetectInv

LEMMA DetectOutage ==
  ASSUME DetectInv, outages' # 0, UNCHANGED <<key, quiet>>
  PROVE  DetectInv'
BY DEF DetectInv, ServersUp, BatchSoon, RowAges, RecordAges, SweepComes

LEMMA DetectAside ==
  ASSUME DetectInv, UNCHANGED <<server, outages, pending, batchIn, sweepIn, sweeper, key, quiet, seen>>,
         row' \in {row, "offline"}
  PROVE  DetectInv'
<1>1. ServersUp' /\ BatchSoon' /\ RecordAges'
  BY DEF DetectInv, ServersUp, BatchSoon, RecordAges
<1>2. RowAges' /\ SweepComes'
  BY DEF DetectInv, RowAges, SweepComes
<1> QED BY <1>1, <1>2 DEF DetectInv

LEMMA DetectFlush ==
  ASSUME TypeOK, DetectInv, NEW r \in Replicas, Flush(r)
  PROVE  DetectInv'
<1>1. /\ batchIn' = [batchIn EXCEPT ![r] = BatchInterval] /\ pending' = pending \ {r} /\ TouchBatch(r)
      /\ UNCHANGED <<row, key, server, outages, sweepIn, sweeper, quiet>>
  BY DEF Flush
<1>2. \A s \in Replicas \ {r} : batchIn'[s] = batchIn[s]
  BY <1>1 DEF TypeOK, ReplicasOK
<1>3. ServersUp' /\ RecordAges' /\ SweepComes'
  BY <1>1 DEF DetectInv, ServersUp, RecordAges, SweepComes
<1>4. BatchSoon'
  BY <1>1, <1>2, Spans DEF DetectInv, BatchSoon
<1>5. RowAges'
  <2>1. CASE r \in pending /\ row = "online"
    <3>1. outages = 0 => quiet + batchIn[r] <= BatchInterval
      BY <2>1 DEF DetectInv, BatchSoon
    <3>2. seen' = 0
      BY <1>1, <2>1 DEF TouchBatch
    <3> QED BY <1>1, <3>1, <3>2, Spans DEF RowAges
  <2>2. CASE ~(r \in pending /\ row = "online")
    BY <1>1, <2>2 DEF TouchBatch, DetectInv, RowAges
  <2> QED BY <2>1, <2>2
<1> QED BY <1>3, <1>4, <1>5 DEF DetectInv

(* Once the row is late, a sweep that begins takes it.                     *)
LEMMA LateIsStale ==
  ASSUME TypeOK, DetectInv, outages = 0, row = "online", quiet >= Late
  PROVE  seen = StaleThreshold + 1 /\ key = 0
<1>1. seen = StaleThreshold + 1 \/ quiet <= seen + BatchInterval
  BY DEF DetectInv, RowAges
<1>2. key = 0 \/ key + quiet <= LivenessTTL + 1
  BY DEF DetectInv, RecordAges
<1> QED BY <1>1, <1>2, Spans

LEMMA DetectSweep ==
  ASSUME TypeOK, DetectInv, NEW r \in Replicas,
         SweepSelect(r) \/ SweepFilter(r) \/ SweepMark(r) \/ SweepForget(r)
  PROVE  DetectInv'
<1>1. UNCHANGED <<seen, server, outages, pending, batchIn, quiet>>
  BY DEF SweepSelect, SweepFilter, SweepMark, SweepForget, SweepUnchanged, database, batches
<1>2. row' \in {row, "offline"} /\ key' \in {key, 0}
  BY DEF SweepSelect, SweepFilter, SweepMark, SweepForget, SweepUnchanged, database
<1>3. ServersUp' /\ BatchSoon' /\ RowAges' /\ RecordAges'
  BY <1>1, <1>2 DEF DetectInv, ServersUp, BatchSoon, RowAges, RecordAges
<1> DEFINE Comes(s, at, n) == \/ at \in {"filter", "mark"}
                              \/ at = "idle" /\ quiet + n < Late + SweepInterval
<1>4. ASSUME outages = 0, row' = "online", quiet >= Late
      PROVE  \A s \in Replicas : quiet < Late + SweepInterval /\ Comes(s, sweeper'[s], sweepIn'[s])
  <2>1. row = "online"
    BY <1>2, <1>4
  <2>2. seen = StaleThreshold + 1 /\ key = 0
    BY <1>4, <2>1, LateIsStale
  <2>3. \A s \in Replicas : quiet < Late + SweepInterval /\ Comes(s, sweeper[s], sweepIn[s])
    BY <1>4, <2>1 DEF DetectInv, SweepComes
  <2>4. \A s \in Replicas \ {r} : sweeper'[s] = sweeper[s] /\ sweepIn'[s] = sweepIn[s]
    BY DEF SweepSelect, SweepFilter, SweepMark, SweepForget, Stage, TypeOK, ReplicasOK
  <2>5. sweeper'[r] \in {"filter", "mark"}
    <3>1. CASE SweepSelect(r)
      <4>1. PICK stale \in BOOLEAN : Reached(seen, StaleThreshold, stale)
                                     /\ Stage(r, IF row = "online" /\ stale THEN "filter" ELSE "idle")
        BY <3>1 DEF SweepSelect
      <4>2. stale = TRUE
        BY <2>2, <4>1, Spans DEF Reached
      <4>3. Stage(r, "filter")
        BY <2>1, <4>1, <4>2
      <4> QED BY <4>3 DEF Stage, TypeOK, ReplicasOK
    <3>2. CASE SweepFilter(r)
      <4>1. PICK recorded \in Recorded, answered \in BOOLEAN :
              Stage(r, IF answered /\ recorded THEN "idle" ELSE "mark")
        BY <3>2 DEF SweepFilter
      <4>2. ~(key = 1) /\ ~(key > 1)
        BY <2>2
      <4>3. recorded \in {key > 1}
        BY <4>1, <4>2, Zenon DEF Recorded
      <4>4. ~recorded
        BY <4>2, <4>3, Zenon
      <4>5. (IF answered /\ recorded THEN "idle" ELSE "mark") = "mark"
        BY <4>4, Zenon
      <4>6. Stage(r, "mark")
        BY <4>1, <4>5, Zenon
      <4> QED BY <4>6 DEF Stage, TypeOK, ReplicasOK
    <3>3. CASE SweepMark(r)
      <4>1. PICK stale \in BOOLEAN :
              /\ Reached(seen, StaleThreshold, stale)
              /\ row = "online" /\ stale => row' = "offline"
        BY <3>3 DEF SweepMark
      <4>2. stale = TRUE
        BY <2>2, <4>1, Spans DEF Reached
      <4> QED BY <1>4, <2>1, <4>1, <4>2
    <3>4. CASE SweepForget(r)
      BY <2>3, <3>4 DEF SweepForget
    <3> QED BY <3>1, <3>2, <3>3, <3>4
  <2> QED BY <2>3, <2>4, <2>5
<1>5. SweepComes'
  BY <1>1, <1>4 DEF SweepComes
<1> QED BY <1>3, <1>5 DEF DetectInv

(* Time passes when nobody is at work. *)
LEMMA DetectTick ==
  ASSUME TypeOK, DetectInv, Tick
  PROVE  DetectInv'
<1>1. /\ Calm /\ UNCHANGED <<row, server, outages, sweeper, pending>>
      /\ seen' = Older(seen, StaleThreshold + 1) /\ key' = Less(key)
      /\ batchIn' = [r \in Replicas |-> Less(batchIn[r])]
      /\ sweepIn' = [r \in Replicas |-> Less(sweepIn[r])]
      /\ quiet' = Older(quiet, IF outages = 0 THEN QuietCap ELSE 1)
  BY DEF Tick
<1>2. quiet' \in Nat /\ quiet' <= quiet + 1
  BY <1>1, Spans, Caps DEF Older
<1>3. key' = 0 \/ key' = key - 1
  BY <1>1, Spans DEF Less
<1>4. seen' = StaleThreshold + 1 \/ seen' = seen + 1
  BY <1>1, Spans DEF Older
<1>5. \A r \in Replicas : sweeper[r] = "idle" /\ (server[r] = "up" => batchIn[r] > 0 /\ sweepIn[r] > 0)
  BY <1>1 DEF Calm
<1>6. outages = 0 => \A r \in Replicas : batchIn'[r] = batchIn[r] - 1 /\ sweepIn'[r] = sweepIn[r] - 1
  BY <1>1, <1>5, Spans DEF DetectInv, ServersUp, Less
<1>7. ServersUp'
  BY <1>1 DEF DetectInv, ServersUp
<1>8. RecordAges'
  <2>1. key' = 0 \/ (key' = key - 1 /\ key # 0)
    BY <1>1, Spans DEF Less
  <2> QED BY <1>2, <2>1, Spans DEF DetectInv, RecordAges
<1>9. BatchSoon'
  BY <1>1, <1>2, <1>6, Spans DEF DetectInv, BatchSoon
<1>10. RowAges'
  <2>1. CASE seen = StaleThreshold + 1
    BY <1>1, <2>1, Spans DEF Older, RowAges
  <2>2. CASE seen # StaleThreshold + 1
    BY <1>1, <1>2, <1>4, <2>2, Spans DEF DetectInv, RowAges
  <2> QED BY <2>1, <2>2
<1>11. SweepComes'
  <2> SUFFICES ASSUME outages = 0, row = "online", quiet' >= Late, NEW r \in Replicas
               PROVE  /\ quiet' < Late + SweepInterval /\ sweeper'[r] = "idle"
                      /\ quiet' + sweepIn'[r] < Late + SweepInterval
    BY <1>1 DEF SweepComes
  <2>1. sweeper'[r] = "idle" /\ sweepIn'[r] = sweepIn[r] - 1 /\ sweepIn[r] > 0
    BY <1>1, <1>5, <1>6 DEF DetectInv, ServersUp
  <2>2. CASE quiet >= Late
    <3>1. quiet + sweepIn[r] < Late + SweepInterval
      BY <1>5, <2>2 DEF DetectInv, SweepComes
    <3> QED BY <1>2, <2>1, <3>1, Spans
  <2>3. CASE ~(quiet >= Late)
    <3>1. quiet' <= Late
      BY <1>2, <2>3, Spans
    <3> QED BY <1>2, <2>1, <3>1, Spans
  <2> QED BY <2>2, <2>3
<1> QED BY <1>7, <1>8, <1>9, <1>10, <1>11 DEF DetectInv

LEMMA DetectStep == ASSUME TypeOK, TypeOK', DetectInv, [Next]_vars PROVE DetectInv'
<1>1. CASE HttpTick \/ WsTick \/ WsOpen \/ WsClose \/ FallSilent \/ Resume \/ Deregister \/ UNCHANGED vars
           \/ \E t \in Transports : BeatRead(t)
  <2>1. UNCHANGED <<server, outages, pending, batchIn, sweepIn, sweeper, key, quiet, seen>> /\ row' \in {row, "offline"}
    BY <1>1 DEF HttpTick, WsTick, WsOpen, WsClose, FallSilent, Resume, Deregister, BeatRead, vars,
                database, process, batches, history
  <2> QED BY <2>1, DetectAside
<1>2. CASE Register \/ \E t \in Transports : BeatQueue(t) \/ BeatMarkOnline(t)
  <2>1. quiet' = 0 /\ UNCHANGED <<server, outages>>
    BY <1>2 DEF Register, BeatQueue, BeatMarkOnline, Answer, process
  <2> QED BY <2>1, DetectHeard
<1>3. ASSUME NEW r \in Replicas, Crash(r) \/ ShutdownBegin(r) \/ ShutdownFlush(r) \/ ShutdownExit(r) \/ Restart(r)
      PROVE  DetectInv'
  <2>1. UNCHANGED <<key, quiet>>
    BY <1>3 DEF Crash, ShutdownBegin, ShutdownFlush, ShutdownExit, Restart, Gone, history
  <2>2. server[r] = "up" => outages' = outages + 1
    BY <1>3 DEF Crash, ShutdownBegin, ShutdownFlush, ShutdownExit, Restart
  <2>3. server[r] # "up" => outages # 0 /\ outages' = outages
    BY <1>3 DEF Crash, ShutdownBegin, ShutdownFlush, ShutdownExit, Restart, DetectInv, ServersUp
  <2>4. outages' # 0
    BY <2>2, <2>3, Spans
  <2> QED BY <2>1, <2>4, DetectOutage
<1> QED BY <1>1, <1>2, <1>3, DetectFlush, DetectSweep, DetectTick DEF Next, DaemonNext, BeatNext, ReplicaNext

LEMMA DetectInitial == Init => DetectInv
<1> SUFFICES ASSUME Init PROVE DetectInv
  OBVIOUS
<1>1. TypeOK
  BY TypesInitial
<1>2. /\ row = "online" /\ seen = 0 /\ key \in {0, LivenessTTL + 1} /\ server = [r \in Replicas |-> "up"]
      /\ outages = 0 /\ pending = {} /\ quiet = 0
  BY DEF Init
<1> QED BY <1>1, <1>2, Spans DEF DetectInv, ServersUp, BatchSoon, RowAges, RecordAges, SweepComes

(* A runtime whose daemon is gone is taken offline within the stale        *)
(* threshold, a wait for the batch that holds its last beat and one for    *)
(* the sweeper, whatever the store does, with any number of replicas: the  *)
(* record is shorter lived than the threshold and keeps it from no sweep.  *)
THEOREM EndIsDetected == Spec => []DetectedInTime
<1>1. Init => DetectInv
  BY DetectInitial
<1>2. TypeOK /\ TypeOK' /\ DetectInv /\ [Next]_vars => DetectInv'
  BY DetectStep
<1>3. TypeOK /\ DetectInv => DetectedInTime
  <2> SUFFICES ASSUME TypeOK, DetectInv, quiet > StaleThreshold + SweepInterval + BatchInterval, outages = 0
               PROVE  row = "offline"
    BY DEF DetectedInTime
  <2>1. quiet >= Late /\ ~(quiet < Late + SweepInterval)
    BY Spans
  <2>2. Replicas # {}
    BY IntervalsAssumption DEF IntervalsAssumption
  <2>3. row # "online"
    BY <2>1, <2>2 DEF DetectInv, SweepComes
  <2> QED BY <2>3 DEF TypeOK, RowOK
<1> QED BY <1>1, <1>2, <1>3, LivenessTypeCorrect, PTL DEF Spec

-----------------------------------------------------------------------------
(* Evidence returns                                                        *)

(* How the intervals of daemon and server follow each other: a batch spans *)
(* a beat at least, an ack is fresh for a batch at least, and a record     *)
(* outlives the tick in which it is written.                               *)
InStep == BeatInterval <= BatchInterval /\ BatchInterval <= Freshness /\ LivenessTTL > 0

(* Every outage may cost a gap between beats. *)
Excess == outages * BeatGap

Served == Up # {} /\ Settled

(* How far the interval to the next HTTP beat has run; a beat that is lost *)
(* for want of a server starts it anew.                                    *)
Run ==
  IF ~Served THEN 0
  ELSE IF beat["http"].pc = "idle" THEN BeatInterval - httpIn ELSE BeatInterval

(* x counts the ticks, c of them excused, that a beat has been waited for: *)
(* an ack keeps HTTP silent while it is fresh, then comes an interval.     *)
Within(x, c, ack, run) == (ack <= Freshness => x <= c + ack) /\ x <= c + Freshness + run

Waits(x, c) == Within(x, c, ackAge, Run)

(* What is known of acks and of requests in progress. *)
AcksAreWs == ws = None => ackAge > Freshness

AckWrites ==
  row = "online" /\ redis # "sound" /\ ackAge <= Freshness
    => ws \in pending \/ seen <= FlushInterval + ackAge

OfflineIsDue ==
  \A t \in Transports : beat[t].pc = "record" /\ beat[t].status = "offline" => beat[t].due

(* Where last_seen_at decides and is stale, a beat of the next interval is *)
(* to be handled, or has been and its batch is to be flushed.              *)
StaleRow ==
  row = "online" /\ redis # "sound" /\ seen >= StaleThreshold =>
    \/ adrift <= Excess
    \/ pending = {} /\ adrift <= Excess + Run
    \/ Served /\ \E r \in pending : adrift <= Excess + BeatInterval + (BatchInterval - batchIn[r])

(* Where the record decides and is lost, the next beat brings it back: the *)
(* first, or that after a late Forget, before last_seen_at can be stale    *)
(* again, even if an outage costs an interval.                             *)
LostRecord ==
  row = "online" /\ redis = "sound" /\ key <= 1 =>
    \/ Waits(adrift, Excess)
    \/ Waits(seen, 0) /\ Waits(adrift, Excess + BeatGap)
    \/ Waits(seen, BeatInterval) /\ Waits(adrift, Excess + BeatInterval)

(* So a sweep finds the row stale within a gap only ... *)
StaleSoon == row = "online" /\ seen >= StaleThreshold => adrift <= Excess + BeatGap

Forgetting ==
  \A r \in Replicas : sweeper[r] = "forget" =>
    adrift <= Excess + BeatGap /\ (row = "online" => seen = 0)

(* ... and the next beat that reads the row puts it online again. *)
TakenOff == row = "offline" /\ daemon # "stopped" => Waits(adrift, Excess + BeatGap)

JustTaken ==
  row = "offline" /\ daemon # "stopped" =>
    \A t \in Transports : beat[t].pc = "record" /\ beat[t].status = "online"
                            => adrift <= Excess + BeatGap

Returns == adrift <= Excess + 2 * BeatGap

Requests == AcksAreWs /\ AckWrites /\ OfflineIsDue
Waiting  == StaleRow /\ LostRecord /\ StaleSoon /\ Forgetting /\ TakenOff /\ JustTaken /\ Returns
EvidenceInv == Requests /\ Waiting

LEMMA Intervals ==
  ASSUME TypeOK
  PROVE  /\ {BeatInterval, Freshness, FlushInterval, BatchInterval, StaleThreshold, LivenessTTL,
             BeatGap, Excess, Run, adrift, seen, key, ackAge, outages, httpIn} \subseteq Nat
         /\ BeatInterval > 0 /\ BeatGap = Freshness + BeatInterval /\ Run <= BeatInterval
         /\ FlushInterval + BeatGap + BatchInterval < StaleThreshold
         /\ ackAge <= Freshness + 1 /\ httpIn <= BeatInterval
         /\ pending \subseteq Replicas
         /\ \A r \in Replicas : batchIn[r] \in Nat /\ batchIn[r] <= BatchInterval
<1>1. /\ {BeatInterval, Freshness, FlushInterval, BatchInterval, StaleThreshold, LivenessTTL, MaxOutages} \subseteq Nat
      /\ BeatInterval > 0 /\ BeatGap = Freshness + BeatInterval
      /\ FlushInterval + BeatGap + BatchInterval < StaleThreshold
  BY IntervalsAssumption, ChainAssumption DEF IntervalsAssumption, ChainAssumption, BeatGap
<1>2. seen \in Nat /\ key \in Nat
  BY <1>1 DEF TypeOK, RowOK
<1>3. /\ ackAge \in Nat /\ ackAge <= Freshness + 1 /\ httpIn \in Nat /\ httpIn <= BeatInterval
  BY <1>1 DEF TypeOK, DaemonOK
<1>4. /\ outages \in Nat /\ pending \subseteq Replicas
      /\ \A r \in Replicas : batchIn[r] \in Nat /\ batchIn[r] <= BatchInterval
  BY <1>1 DEF TypeOK, ReplicasOK
<1>5. adrift \in Nat
  BY Caps DEF TypeOK, HistoryOK
<1>6. Excess \in Nat
  <2>1. \A m, n \in Nat : m * n \in Nat
    OBVIOUS
  <2> QED BY <1>4, <2>1, Caps DEF Excess
<1>7. Run \in Nat /\ Run <= BeatInterval
  BY <1>1, <1>3 DEF Run
<1>8. BeatGap \in Nat
  BY <1>1
<1> QED BY <1>1, <1>2, <1>3, <1>4, <1>5, <1>6, <1>7, <1>8

LEMMA IntervalsNext ==
  ASSUME TypeOK'
  PROVE  /\ {Run', adrift', Excess', seen', key', ackAge', httpIn'} \subseteq Nat
         /\ Run' <= BeatInterval /\ ackAge' <= Freshness + 1 /\ httpIn' <= BeatInterval
         /\ \A r \in Replicas : batchIn'[r] \in Nat /\ batchIn'[r] <= BatchInterval
<1>1. {BeatInterval, Freshness, BatchInterval, StaleThreshold, LivenessTTL} \subseteq Nat
  BY IntervalsAssumption DEF IntervalsAssumption
<1>2. seen' \in Nat /\ key' \in Nat
  BY <1>1 DEF TypeOK, RowOK
<1>3. ackAge' \in Nat /\ ackAge' <= Freshness + 1 /\ httpIn' \in Nat /\ httpIn' <= BeatInterval
  BY <1>1 DEF TypeOK, DaemonOK
<1>4. \A r \in Replicas : batchIn'[r] \in Nat /\ batchIn'[r] <= BatchInterval
  BY <1>1 DEF TypeOK, ReplicasOK
<1>5. adrift' \in Nat
  BY Caps DEF TypeOK, HistoryOK
<1>6. Run' \in Nat /\ Run' <= BeatInterval
  BY <1>1, <1>3 DEF Run
<1>7. Excess' \in Nat
  <2>1. \A m, n \in Nat : m * n \in Nat
    OBVIOUS
  <2>2. outages' \in Nat
    BY IntervalsAssumption DEF IntervalsAssumption, TypeOK, ReplicasOK
  <2> QED BY <2>1, <2>2, Caps DEF Excess, BeatGap
<1> QED BY <1>2, <1>3, <1>4, <1>5, <1>6, <1>7

LEMMA ExcessGrows ==
  ASSUME TypeOK, outages' = outages + 1
  PROVE  Excess' = Excess + BeatGap
<1>1. \A m, n \in Nat : (m + 1) * n = m * n + n
  OBVIOUS
<1> QED BY <1>1, Intervals, Caps DEF Excess, BeatGap

(* What is waited for is waited for still. *)
Onwards == \A x, c \in Nat : Waits(x, c) => Within(x, c, ackAge', Run')

(* The steps that nothing is handled in. *)
Quietly ==
  /\ UNCHANGED <<redis, outages, adrift>> /\ Onwards
  /\ row' \in {row, "offline"} /\ seen' \in {seen, 0}
  /\ daemon' # "stopped" => daemon # "stopped"

LEMMA RunsOn ==
  ASSUME TypeOK, TypeOK', ackAge' \in {ackAge, Freshness + 1}, Run' >= Run
  PROVE  Onwards
<1> SUFFICES ASSUME NEW x \in Nat, NEW c \in Nat, Waits(x, c)
             PROVE  Within(x, c, ackAge', Run')
  BY DEF Onwards
<1>1. {Run, Run', ackAge, Freshness} \subseteq Nat
  BY Intervals, IntervalsNext
<1> QED BY <1>1 DEF Waits, Within

LEMMA QuietlyKept ==
  ASSUME TypeOK, TypeOK', Waiting, Quietly
  PROVE  /\ StaleSoon' /\ Returns'
         /\ key' = key => LostRecord'
         /\ row' = row => TakenOff'
<1>1. Excess' = Excess /\ adrift' = adrift
  BY DEF Quietly, Excess
<1>2. {Run', ackAge', seen, adrift, Excess, BeatGap, BeatInterval, Freshness, StaleThreshold} \subseteq Nat
      /\ StaleThreshold > 0
  BY Intervals, IntervalsNext
<1>3. StaleSoon' /\ Returns'
  BY <1>1, <1>2 DEF Quietly, Waiting, StaleSoon, Returns
<1>4. ASSUME NEW c \in Nat, Waits(adrift, c)
      PROVE  Within(adrift', c, ackAge', Run')
  BY <1>1, <1>2, <1>4 DEF Quietly, Onwards
<1>5. ASSUME NEW c \in Nat, Waits(seen, c)
      PROVE  Within(seen', c, ackAge', Run')
  <2>1. CASE seen' = seen
    BY <1>2, <1>5, <2>1 DEF Quietly, Onwards
  <2>2. CASE seen' = 0
    BY <1>2, <2>2 DEF Within
  <2> QED BY <2>1, <2>2 DEF Quietly
<1>6. {Excess, Excess + BeatGap, Excess + BeatInterval, 0, BeatInterval} \subseteq Nat
  BY <1>2
<1>7. ASSUME key' = key PROVE LostRecord'
  <2> SUFFICES ASSUME row = "online", redis = "sound", key <= 1 PROVE LostRecord'
    BY <1>7 DEF LostRecord, Quietly
  <2>1. \/ Waits(adrift, Excess)
        \/ Waits(seen, 0) /\ Waits(adrift, Excess + BeatGap)
        \/ Waits(seen, BeatInterval) /\ Waits(adrift, Excess + BeatInterval)
    BY DEF Waiting, LostRecord
  <2>2. \/ Within(adrift', Excess', ackAge', Run')
        \/ Within(seen', 0, ackAge', Run') /\ Within(adrift', Excess' + BeatGap, ackAge', Run')
        \/ Within(seen', BeatInterval, ackAge', Run') /\ Within(adrift', Excess' + BeatInterval, ackAge', Run')
    BY <1>1, <1>4, <1>5, <1>6, <2>1
  <2> QED BY <2>2 DEF LostRecord, Waits
<1>8. ASSUME row' = row PROVE TakenOff'
  <2> SUFFICES ASSUME row = "offline", daemon # "stopped" PROVE Within(adrift', Excess' + BeatGap, ackAge', Run')
    BY <1>8 DEF TakenOff, Quietly, Waits
  <2>1. Waits(adrift, Excess + BeatGap)
    BY DEF Waiting, TakenOff
  <2> QED BY <1>1, <1>4, <1>6, <2>1
<1> QED BY <1>3, <1>7, <1>8

LEMMA StaleRowKept ==
  ASSUME TypeOK, TypeOK', Waiting, UNCHANGED <<redis, outages, adrift, pending>>, Served => Served',
         \A r \in pending : batchIn'[r] = batchIn[r],
         row' \in {row, "offline"}, seen' \in {seen, 0},
         pending = {} /\ row = "online" /\ redis # "sound" /\ seen >= StaleThreshold => Run' >= Run
  PROVE  StaleRow'
<1>1. Excess' = Excess
  BY DEF Excess
<1>2. {Run, Run', adrift, Excess, StaleThreshold} \subseteq Nat /\ StaleThreshold > 0
  BY Intervals, IntervalsNext
<1> SUFFICES ASSUME row = "online", redis # "sound", seen >= StaleThreshold
             PROVE  \/ adrift <= Excess
                    \/ pending = {} /\ adrift <= Excess + Run'
                    \/ /\ Served'
                       /\ \E r \in pending : adrift <= Excess + BeatInterval + (BatchInterval - batchIn'[r])
  BY <1>1, <1>2 DEF StaleRow
<1>3. \/ adrift <= Excess
      \/ pending = {} /\ adrift <= Excess + Run
      \/ Served /\ \E r \in pending : adrift <= Excess + BeatInterval + (BatchInterval - batchIn[r])
  BY DEF Waiting, StaleRow
<1>4. CASE pending = {} /\ adrift <= Excess + Run
  BY <1>2, <1>4
<1>5. ASSUME Served, NEW r \in pending, adrift <= Excess + BeatInterval + (BatchInterval - batchIn[r])
      PROVE  Served' /\ adrift <= Excess + BeatInterval + (BatchInterval - batchIn'[r])
  BY <1>5
<1> QED BY <1>3, <1>4, <1>5

-----------------------------------------------------------------------------
(* The daemon goes on, or a beat reads the row. *)
Aside ==
  \/ HttpTick \/ WsTick \/ WsOpen \/ WsClose \/ FallSilent \/ Resume \/ Deregister
  \/ (\E t \in Transports : BeatRead(t)) \/ UNCHANGED vars

LEMMA AsideChanges ==
  ASSUME Aside
  PROVE  /\ UNCHANGED <<redis, key, server, outages, pending, batchIn, sweeper, seen, adrift>>
         /\ ackAge' \in {ackAge, Freshness + 1} /\ row' \in {row, "offline"}
         /\ daemon' # "stopped" => daemon # "stopped" /\ row' = row
<1>1. CASE HttpTick \/ WsTick \/ WsOpen
  BY <1>1 DEF HttpTick, WsTick, WsOpen, database, process, batches, link, history
<1>2. CASE WsClose \/ FallSilent \/ Resume \/ Deregister
  BY <1>2 DEF WsClose, FallSilent, Resume, Deregister, Detach, database, process, batches, link, history
<1>3. CASE (\E t \in Transports : BeatRead(t)) \/ UNCHANGED vars
  BY <1>3 DEF BeatRead, vars, database, process, batches, client, link, history
<1> QED BY <1>1, <1>2, <1>3 DEF Aside

LEMMA Starts ==
  ASSUME TypeOK, HttpTick \/ WsTick \/ WsOpen
  PROVE  \A t \in Transports : beat'[t] = beat[t] \/ beat'[t].pc = "read"
<1>1. beat' = beat \/ \E t \in Transports : \E r : Begin(t, r)
  BY DEF HttpTick, WsTick, WsOpen, Transports
<1>2. ASSUME NEW s \in Transports, NEW r, Begin(s, r)
      PROVE  \A t \in Transports : beat'[t] = beat[t] \/ beat'[t].pc = "read"
  <2>1. beat'[s].pc = "read" /\ \A t \in Transports \ {s} : beat'[t] = beat[t]
    BY <1>2 DEF Begin, TypeOK, BeatOK, NoBeat
  <2> QED BY <2>1
<1> QED BY <1>1, <1>2

LEMMA AsideRequests ==
  ASSUME TypeOK, TypeOK', Requests, Aside
  PROVE  Requests'
<1>1. ackAge \in Nat /\ Freshness \in Nat
  BY Intervals
<1>2. (ws' = ws /\ ackAge' = ackAge) \/ (ws = None /\ ws' # None /\ ackAge' = ackAge) \/ ackAge' = Freshness + 1
  <2>1. CASE HttpTick \/ WsTick \/ FallSilent \/ Resume \/ UNCHANGED vars \/ \E t \in Transports : BeatRead(t)
    BY <2>1 DEF HttpTick, WsTick, FallSilent, Resume, BeatRead, vars, client, link
  <2>2. CASE WsClose \/ Deregister
    BY <2>2 DEF WsClose, Deregister, Detach
  <2>3. CASE WsOpen
    BY <2>3, IntervalsAssumption DEF WsOpen, Up, IntervalsAssumption
  <2> QED BY <2>1, <2>2, <2>3 DEF Aside
<1>3. AcksAreWs'
  BY <1>1, <1>2 DEF Requests, AcksAreWs
<1>4. AckWrites'
  BY <1>1, <1>2, AsideChanges DEF Requests, AcksAreWs, AckWrites
<1>5. \A t \in Transports : \/ beat'[t] = beat[t] \/ beat'[t].pc = "read"
                            \/ beat'[t].status = row /\ (row = "offline" => beat'[t].due)
  <2>1. CASE HttpTick \/ WsTick \/ WsOpen
    BY <2>1, Starts
  <2>2. CASE WsClose \/ FallSilent \/ Resume \/ Deregister \/ UNCHANGED vars
    BY <2>2 DEF WsClose, FallSilent, Resume, Deregister, vars
  <2>3. ASSUME NEW s \in Transports, BeatRead(s)
        PROVE  \A t \in Transports : \/ beat'[t] = beat[t]
                                     \/ beat'[t].status = row /\ (row = "offline" => beat'[t].due)
    <3>1. PICK due \in BOOLEAN :
            /\ NeedsWrite(due)
            /\ beat' = [beat EXCEPT ![s] = [pc |-> "record", at |-> @.at, status |-> row, due |-> due]]
      BY <2>3 DEF BeatRead
    <3>2. beat'[s].status = row /\ beat'[s].due = due /\ \A t \in Transports \ {s} : beat'[t] = beat[t]
      BY <3>1 DEF TypeOK, BeatOK
    <3>3. row = "offline" => due
      BY <3>1 DEF NeedsWrite
    <3>4. row = "offline" => beat'[s].due
      BY <3>2, <3>3, Zenon
    <3>5. beat'[s].status = row /\ (row = "offline" => beat'[s].due)
      BY <3>2, <3>4, Zenon
    <3>6. \A t \in Transports \ {s} : beat'[t] = beat[t]
      BY <3>2, Zenon
    <3> QED BY <3>5, <3>6
  <2> QED BY <2>1, <2>2, <2>3 DEF Aside
<1>6. OfflineIsDue'
  BY <1>5 DEF Requests, OfflineIsDue
<1> QED BY <1>3, <1>4, <1>6 DEF Requests

(* An HTTP tick that is silent since the last ack is fresh leaves what was *)
(* waited for within it.                                                   *)
LEMMA AsideRuns ==
  ASSUME TypeOK, TypeOK', Aside
  PROVE  Run' >= Run \/ (Run' = 0 /\ ackAge' = ackAge /\ ackAge <= Freshness)
<1>1. Served' = Served /\ {Run, Run', BeatInterval, Freshness, ackAge} \subseteq Nat /\ Run <= BeatInterval
  BY AsideChanges, Intervals, IntervalsNext DEF Served, Up, Settled
<1>2. CASE HttpTick
  <2>1. httpIn' = BeatInterval /\ httpIn = 0 /\ ackAge' = ackAge
    BY <1>2 DEF HttpTick, link
  <2>2. PICK late \in BOOLEAN :
          /\ Reached(ackAge, Freshness, late)
          /\ IF late /\ Up # {} THEN \E r \in Up : Begin("http", r) ELSE beat' = beat
    BY <1>2 DEF HttpTick
  <2>3. CASE late /\ Up # {}
    <3>1. beat'["http"].pc = "read"
      BY <2>2, <2>3 DEF Begin, TypeOK, BeatOK, Transports, NoBeat
    <3>2. Run' = IF Served THEN BeatInterval ELSE 0
      BY <1>1, <3>1 DEF Run
    <3> QED BY <1>1, <3>2 DEF Run
  <2>4. CASE Up = {}
    BY <1>1, <2>4 DEF Run, Served
  <2>5. CASE ~late
    <3>1. ackAge <= Freshness
      BY <2>2, <2>5 DEF Reached
    <3>2. beat'["http"].pc = "idle"
      BY <1>2, <2>2, <2>5 DEF HttpTick
    <3>3. Run' = 0
      BY <1>1, <2>1, <3>2 DEF Run
    <3> QED BY <2>1, <3>1, <3>3
  <2> QED BY <2>3, <2>4, <2>5
<1>3. CASE ~HttpTick
  <2>1. httpIn' = httpIn /\ (beat'["http"].pc = "idle" <=> beat["http"].pc = "idle")
    <3>1. CASE WsTick \/ WsOpen
      BY <3>1 DEF WsTick, WsOpen, Begin, TypeOK, BeatOK, Transports
    <3>2. CASE WsClose \/ FallSilent \/ Resume \/ Deregister \/ UNCHANGED vars
      BY <3>2 DEF WsClose, FallSilent, Resume, Deregister, vars, client
    <3>3. CASE \E t \in Transports : BeatRead(t)
      BY <3>3 DEF BeatRead, client, TypeOK, BeatOK, Transports
    <3> QED BY <1>3, <3>1, <3>2, <3>3 DEF Aside
  <2> QED BY <1>1, <2>1 DEF Run
<1> QED BY <1>2, <1>3

LEMMA AsideOnwards ==
  ASSUME TypeOK, TypeOK', Aside
  PROVE  Onwards
<1>1. ackAge' \in {ackAge, Freshness + 1}
  BY AsideChanges
<1>2. CASE Run' >= Run
  BY <1>1, <1>2, RunsOn
<1>3. CASE Run' = 0 /\ ackAge' = ackAge /\ ackAge <= Freshness
  <2> SUFFICES ASSUME NEW x \in Nat, NEW c \in Nat, Waits(x, c)
               PROVE  Within(x, c, ackAge', Run')
    BY DEF Onwards
  <2>1. {ackAge, Freshness} \subseteq Nat
    BY Intervals
  <2> QED BY <1>3, <2>1 DEF Waits, Within
<1> QED BY <1>2, <1>3, AsideRuns

LEMMA EvidenceAside ==
  ASSUME TypeOK, TypeOK', EvidenceInv, Aside
  PROVE  EvidenceInv'
<1>1. Quietly
  BY AsideChanges, AsideOnwards DEF Quietly
<1>2. StaleSoon' /\ Returns' /\ LostRecord'
  BY <1>1, QuietlyKept, AsideChanges DEF EvidenceInv
<1>3. TakenOff'
  <2>1. CASE daemon' = "stopped"
    BY <2>1 DEF TakenOff
  <2>2. CASE daemon' # "stopped"
    BY <1>1, <2>2, QuietlyKept, AsideChanges DEF EvidenceInv
  <2> QED BY <2>1, <2>2
<1>4. StaleRow'
  <2>1. Served => Served'
    BY AsideChanges DEF Served, Up, Settled
  <2>2. ASSUME pending = {}, row = "online", redis # "sound", seen >= StaleThreshold
        PROVE  Run' >= Run
    <3>1. ~(ackAge <= Freshness)
      BY <2>2, Intervals DEF EvidenceInv, Requests, AckWrites
    <3> QED BY <3>1, AsideRuns
  <2> QED BY <2>1, <2>2, StaleRowKept, AsideChanges DEF EvidenceInv
<1>5. Forgetting'
  BY AsideChanges DEF EvidenceInv, Waiting, Forgetting, Excess
<1>6. JustTaken'
  <2>1. \A t \in Transports : \/ beat'[t] = beat[t] \/ beat'[t].pc = "read" \/ beat'[t].status = row
    <3>1. CASE HttpTick \/ WsTick \/ WsOpen
      BY <3>1, Starts
    <3>2. CASE WsClose \/ FallSilent \/ Resume \/ Deregister \/ UNCHANGED vars
      BY <3>2 DEF WsClose, FallSilent, Resume, Deregister, vars
    <3>3. CASE \E t \in Transports : BeatRead(t)
      BY <3>3 DEF BeatRead, TypeOK, BeatOK
    <3> QED BY <3>1, <3>2, <3>3 DEF Aside
  <2> QED BY <2>1, AsideChanges DEF EvidenceInv, Waiting, JustTaken, Excess
<1>7. Requests'
  BY AsideRequests DEF EvidenceInv
<1> QED BY <1>2, <1>3, <1>4, <1>5, <1>6, <1>7 DEF EvidenceInv, Waiting

-----------------------------------------------------------------------------
(* A registration, and a tick in which the runtime is seen as live, start  *)
(* the count anew.                                                         *)
LEMMA Afresh ==
  ASSUME TypeOK', adrift' = 0, seen' = 0 \/ \A r \in Replicas : sweeper'[r] # "forget"
  PROVE  Waiting'
<1>1. {Run', ackAge', Excess', BeatGap, Freshness} \subseteq Nat
  BY IntervalsNext, Caps, IntervalsAssumption DEF IntervalsAssumption
<1>2. Within(adrift', Excess', ackAge', Run') /\ Within(adrift', Excess' + BeatGap, ackAge', Run')
  BY <1>1 DEF Within
<1>3. LostRecord' /\ TakenOff'
  BY <1>2 DEF LostRecord, TakenOff, Waits
<1>4. StaleRow' /\ StaleSoon' /\ Forgetting' /\ JustTaken' /\ Returns'
  BY <1>1 DEF StaleRow, StaleSoon, Forgetting, JustTaken, Returns
<1> QED BY <1>3, <1>4 DEF Waiting

LEMMA EvidenceRegister ==
  ASSUME TypeOK, TypeOK', EvidenceInv, Register
  PROVE  EvidenceInv'
<1>1. /\ adrift' = 0 /\ seen' = 0 /\ ackAge' = Freshness + 1 /\ UNCHANGED <<beat, pending>>
  BY DEF Register, MarkOnline, Detach, process, batches
<1>2. Waiting'
  BY <1>1, Afresh
<1>3. Requests'
  <2>1. Freshness \in Nat
    BY Intervals
  <2>2. AcksAreWs' /\ AckWrites'
    BY <1>1, <2>1 DEF AcksAreWs, AckWrites
  <2>3. OfflineIsDue'
    BY <1>1 DEF EvidenceInv, Requests, OfflineIsDue
  <2> QED BY <2>2, <2>3 DEF Requests
<1> QED BY <1>2, <1>3 DEF EvidenceInv

-----------------------------------------------------------------------------
(* A beat is handled. *)

(* One that was not due has read a fresh row. *)
LEMMA EvidenceQueue ==
  ASSUME InStep, TypeOK, TypeOK', EvidenceInv, NotDueIsFresh, NEW t \in Transports, BeatQueue(t)
  PROVE  EvidenceInv'
<1>1. /\ beat[t].pc = "record" /\ Answer(t)
      /\ UNCHANGED <<row, seen, redis, server, outages, sweeper, batchIn, daemon, httpIn, ws, adrift>>
  BY DEF BeatQueue, database
<1>2. PICK write \in BOOLEAN :
        /\ Record(t, write)
        /\ write => beat[t].status = "online"
        /\ pending' = IF write THEN pending \cup {beat[t].at} ELSE pending
  BY DEF BeatQueue
<1>3. /\ beat[t].at \in Replicas /\ beat[t].due \in BOOLEAN /\ beat[t].status \in {"online", "offline"}
      /\ beat'[t] = NoBeat /\ \A s \in Transports \ {t} : beat'[s] = beat[s]
  BY <1>1 DEF Answer, TypeOK, BeatOK
<1>4. beat[t].due => write
  <2>1. Record(t, write)
    BY <1>2, Zenon
  <2>2. (key' \in Touched /\ write = beat[t].due) \/ write
    BY <2>1, Zenon DEF Record
  <2> QED BY <2>2, Zenon
<1>5. beat[t].status = "online"
  <2>1. beat[t].status = "offline" => beat[t].due
    BY <1>1 DEF EvidenceInv, Requests, OfflineIsDue
  <2>2. write => beat[t].status = "online"
    BY <1>2, Zenon
  <2>3. beat[t].status = "offline" => beat[t].status = "online"
    BY <1>4, <2>1, <2>2, Zenon
  <2> QED BY <1>3, <2>3
<1>6. pending \subseteq pending' /\ (beat[t].at \in pending' \/ seen <= FlushInterval)
  <2>1. CASE write
    BY <1>2, <2>1
  <2>2. CASE ~write
    <3>1. ~beat[t].due
      BY <1>4, <2>2, Zenon
    <3> QED BY <1>1, <1>2, <2>2, <3>1 DEF NotDueIsFresh
  <2> QED BY <2>1, <2>2
<1>7. ackAge' = ackAge \/ (ackAge' = 0 /\ ws = beat[t].at)
  BY <1>1 DEF Answer
<1>8. {Freshness, FlushInterval, ackAge, seen, Excess, Run, Run', adrift, BeatInterval, BatchInterval,
       BeatGap, StaleThreshold} \subseteq Nat
      /\ FlushInterval < StaleThreshold /\ Run <= BeatInterval
  BY Intervals, IntervalsNext
<1>9. Excess' = Excess
  BY <1>1 DEF Excess
<1>10. AcksAreWs'
  BY <1>1, <1>3, <1>7, IntervalsAssumption DEF EvidenceInv, Requests, AcksAreWs, IntervalsAssumption
<1>11. AckWrites'
  BY <1>1, <1>6, <1>7, <1>8 DEF EvidenceInv, Requests, AckWrites
<1>12. OfflineIsDue' /\ JustTaken'
  <2>1. OfflineIsDue'
    BY <1>3 DEF EvidenceInv, Requests, OfflineIsDue, NoBeat
  <2>2. JustTaken'
    BY <1>1, <1>3, <1>9 DEF EvidenceInv, Waiting, JustTaken, NoBeat
  <2> QED BY <2>1, <2>2
<1>13. StaleRow'
  <2> SUFFICES ASSUME row = "online", redis # "sound", seen >= StaleThreshold
               PROVE  StaleRow'
    BY <1>1 DEF StaleRow
  <2>1. beat[t].at \in pending'
    BY <1>6, <1>8
  <2>2. Served' = Served
    BY <1>1 DEF Served, Up, Settled
  <2>3. \/ adrift <= Excess
        \/ pending = {} /\ adrift <= Excess + Run
        \/ Served /\ \E r \in pending : adrift <= Excess + BeatInterval + (BatchInterval - batchIn[r])
    BY DEF EvidenceInv, Waiting, StaleRow
  <2>4. CASE adrift <= Excess
    BY <1>1, <1>9, <2>4 DEF StaleRow
  <2>5. CASE ~(adrift <= Excess) /\ adrift <= Excess + Run
    <3>1. Served
      BY <1>8, <2>5 DEF Run
    <3>2. batchIn[beat[t].at] \in Nat /\ batchIn[beat[t].at] <= BatchInterval
      BY <1>3, Intervals
    <3>3. adrift <= Excess + BeatInterval + (BatchInterval - batchIn[beat[t].at])
      BY <1>8, <2>5, <3>2
    <3> QED BY <1>1, <1>9, <2>1, <2>2, <3>1, <3>3 DEF StaleRow
  <2>6. CASE Served /\ \E r \in pending : adrift <= Excess + BeatInterval + (BatchInterval - batchIn[r])
    BY <1>1, <1>6, <1>9, <2>2, <2>6 DEF StaleRow
  <2> QED BY <2>3, <2>4, <2>5, <2>6
<1>14. LostRecord'
  <2> SUFFICES ASSUME redis = "sound" PROVE key' > 1
    BY <1>1, IntervalsNext DEF LostRecord
  <2>1. Record(t, write)
    BY <1>2, Zenon
  <2>2. key' \in Touched
    BY <2>1, Zenon DEF Record
  <2>3. key' = LivenessTTL + 1
    BY <2>2 DEF Touched
  <2> QED BY <2>3, Intervals DEF InStep
<1>15. TakenOff'
  <2> SUFFICES ASSUME row = "offline", daemon # "stopped"
               PROVE  Within(adrift', Excess' + BeatGap, ackAge', Run')
    BY <1>1 DEF TakenOff, Waits
  <2>1. adrift <= Excess + BeatGap
    BY <1>1, <1>5 DEF EvidenceInv, Waiting, JustTaken
  <2> QED BY <1>1, <1>7, <1>8, <1>9, <2>1 DEF Within
<1>16. StaleSoon' /\ Forgetting' /\ Returns'
  BY <1>1, <1>9 DEF EvidenceInv, Waiting, StaleSoon, Forgetting, Returns
<1> QED BY <1>10, <1>11, <1>12, <1>13, <1>14, <1>15, <1>16 DEF EvidenceInv, Requests, Waiting

LEMMA EvidenceMark ==
  ASSUME InStep, TypeOK, TypeOK', EvidenceInv, NEW t \in Transports, BeatMarkOnline(t)
  PROVE  EvidenceInv'
<1>1. /\ beat[t].pc = "record" /\ Answer(t) /\ row' = "online" /\ seen' = 0
      /\ UNCHANGED <<redis, server, outages, sweeper, pending, batchIn, daemon, ws, adrift>>
  BY DEF BeatMarkOnline, MarkOnline, process, batches
<1>2. /\ beat[t].at \in Replicas
      /\ beat'[t] = NoBeat /\ \A s \in Transports \ {t} : beat'[s] = beat[s]
  BY <1>1 DEF Answer, TypeOK, BeatOK
<1>3. ackAge' = ackAge \/ (ackAge' = 0 /\ ws = beat[t].at)
  BY <1>1 DEF Answer
<1>4. {FlushInterval, ackAge', StaleThreshold, adrift, Excess, BeatGap} \subseteq Nat /\ StaleThreshold > 0
      /\ Excess' = Excess
  BY <1>1, Intervals, IntervalsNext DEF Excess
<1>5. Requests'
  <2>1. AcksAreWs'
    BY <1>1, <1>2, <1>3, IntervalsAssumption DEF EvidenceInv, Requests, AcksAreWs, IntervalsAssumption
  <2>2. AckWrites'
    BY <1>1, <1>4 DEF AckWrites
  <2>3. OfflineIsDue'
    BY <1>2 DEF EvidenceInv, Requests, OfflineIsDue, NoBeat
  <2> QED BY <2>1, <2>2, <2>3 DEF Requests
<1>6. LostRecord'
  <2> SUFFICES ASSUME redis = "sound" PROVE key' > 1
    BY <1>1, IntervalsNext DEF LostRecord
  <2>1. Record(t, TRUE)
    BY DEF BeatMarkOnline
  <2>2. key' = LivenessTTL + 1
    BY <2>1 DEF Record, Touched
  <2> QED BY <2>2, Intervals DEF InStep
<1>7. StaleRow' /\ StaleSoon' /\ TakenOff' /\ JustTaken'
  BY <1>1, <1>4 DEF StaleRow, StaleSoon, TakenOff, JustTaken
<1>8. Forgetting' /\ Returns'
  BY <1>1, <1>4 DEF EvidenceInv, Waiting, Forgetting, Returns
<1> QED BY <1>5, <1>6, <1>7, <1>8 DEF EvidenceInv, Waiting

-----------------------------------------------------------------------------
(* The batch and the sweep. *)
LEMMA EvidenceFlush ==
  ASSUME TypeOK, TypeOK', EvidenceInv, NEW r \in Replicas, Flush(r)
  PROVE  EvidenceInv'
<1>1. /\ batchIn' = [batchIn EXCEPT ![r] = BatchInterval] /\ pending' = pending \ {r} /\ TouchBatch(r)
      /\ UNCHANGED <<row, redis, key, server, outages, sweeper, daemon, httpIn, ws, ackAge, beat, adrift>>
  BY DEF Flush, client, link
<1>2. \A s \in Replicas \ {r} : batchIn'[s] = batchIn[s]
  BY <1>1 DEF TypeOK, ReplicasOK
<1>3. IF r \in pending /\ row = "online" THEN seen' = 0 ELSE seen' = seen
  BY <1>1 DEF TouchBatch
<1>4. Run' = Run /\ (Served' <=> Served) /\ Excess' = Excess /\ Run \in Nat
  BY <1>1, Intervals DEF Run, Served, Up, Settled, Excess
<1>5. Onwards
  BY <1>1, <1>4, RunsOn
<1>6. StaleSoon' /\ Returns' /\ LostRecord' /\ TakenOff'
  BY <1>1, <1>3, <1>5, QuietlyKept DEF Quietly, EvidenceInv
<1>7. StaleRow'
  <2>1. CASE r \in pending /\ row = "online"
    BY <1>3, <2>1, Intervals DEF StaleRow
  <2>2. CASE row # "online"
    BY <1>1, <2>2 DEF StaleRow
  <2>3. CASE r \notin pending
    <3>1. pending' = pending /\ \A s \in pending : batchIn'[s] = batchIn[s]
      BY <1>1, <1>2, <2>3, Intervals
    <3> QED BY <1>1, <1>3, <1>4, <3>1, StaleRowKept DEF EvidenceInv
  <2> QED BY <2>1, <2>2, <2>3
<1>8. Forgetting' /\ JustTaken'
  BY <1>1, <1>3, <1>4 DEF EvidenceInv, Waiting, Forgetting, JustTaken
<1>9. Requests'
  <2>1. AckWrites'
    BY <1>1, <1>3, Intervals DEF EvidenceInv, Requests, AckWrites
  <2> QED BY <1>1, <2>1 DEF EvidenceInv, Requests, AcksAreWs, OfflineIsDue
<1> QED BY <1>6, <1>7, <1>8, <1>9 DEF EvidenceInv, Waiting

LEMMA EvidenceSweep ==
  ASSUME TypeOK, TypeOK', EvidenceInv, NEW r \in Replicas,
         SweepSelect(r) \/ SweepFilter(r) \/ SweepMark(r) \/ SweepForget(r)
  PROVE  EvidenceInv'
<1>1. UNCHANGED <<seen, redis, server, outages, pending, batchIn, daemon, httpIn, ws, ackAge, beat, adrift>>
  BY DEF SweepSelect, SweepFilter, SweepMark, SweepForget, SweepUnchanged, database, batches, client, link
<1>2. /\ \A s \in Replicas \ {r} : sweeper'[s] = sweeper[s]
      /\ row' \in {row, "offline"}
  BY DEF SweepSelect, SweepFilter, SweepMark, SweepForget, SweepUnchanged, Stage, database, TypeOK, ReplicasOK
<1>3. Run' = Run /\ (Served' <=> Served) /\ Excess' = Excess
      /\ {Run, Excess, adrift, BeatGap, Freshness, ackAge} \subseteq Nat
  BY <1>1, Intervals DEF Run, Served, Up, Settled, Excess
<1>4. Quietly
  BY <1>1, <1>2, <1>3, RunsOn DEF Quietly
<1>5. StaleSoon' /\ Returns' /\ StaleRow'
  BY <1>1, <1>2, <1>3, <1>4, QuietlyKept, StaleRowKept DEF EvidenceInv
<1>6. Requests'
  BY <1>1, <1>2 DEF EvidenceInv, Requests, AcksAreWs, AckWrites, OfflineIsDue
<1>7. CASE row' # row
  <2>1. SweepMark(r) /\ row = "online" /\ row' = "offline" /\ seen >= StaleThreshold
    <3>1. SweepMark(r)
      BY <1>7 DEF SweepSelect, SweepFilter, SweepMark, SweepForget, database
    <3>2. PICK stale \in BOOLEAN :
            /\ Reached(seen, StaleThreshold, stale)
            /\ IF row = "online" /\ stale THEN row' = "offline" ELSE row' = row
      BY <3>1 DEF SweepMark
    <3>3. row = "online" /\ row' = "offline" /\ stale
      BY <1>7, <3>2
    <3> QED BY <3>1, <3>2, <3>3 DEF Reached
  <2>2. adrift <= Excess + BeatGap
    BY <2>1 DEF EvidenceInv, Waiting, StaleSoon
  <2>3. TakenOff'
    BY <1>1, <1>3, <2>2 DEF TakenOff, Waits, Within
  <2>4. LostRecord' /\ Forgetting' /\ JustTaken'
    BY <1>1, <1>3, <2>1, <2>2 DEF LostRecord, Forgetting, JustTaken
  <2> QED BY <1>5, <1>6, <2>3, <2>4 DEF EvidenceInv, Waiting
<1>8. CASE row' = row
  <2>1. sweeper'[r] # "forget"
    BY <1>8 DEF SweepSelect, SweepFilter, SweepMark, SweepForget, Stage, TypeOK, ReplicasOK
  <2>2. Forgetting' /\ JustTaken'
    BY <1>1, <1>2, <1>3, <1>8, <2>1 DEF EvidenceInv, Waiting, Forgetting, JustTaken
  <2>3. TakenOff'
    BY <1>4, <1>8, QuietlyKept DEF EvidenceInv
  <2>4. LostRecord'
    <3>1. CASE key' = key
      BY <1>4, <3>1, QuietlyKept DEF EvidenceInv
    <3>2. CASE key' # key
      <4>1. sweeper[r] = "forget"
        BY <3>2 DEF SweepSelect, SweepFilter, SweepMark, SweepForget
      <4>2. adrift <= Excess + BeatGap /\ (row = "online" => seen = 0)
        BY <4>1 DEF EvidenceInv, Waiting, Forgetting
      <4>3. row = "online" => Within(seen', 0, ackAge', Run') /\ Within(adrift', Excess' + BeatGap, ackAge', Run')
        BY <1>1, <1>3, <4>2 DEF Within
      <4> QED BY <1>8, <4>3 DEF LostRecord, Waits
    <3> QED BY <3>1, <3>2
  <2> QED BY <1>5, <1>6, <2>2, <2>3, <2>4 DEF EvidenceInv, Waiting
<1> QED BY <1>7, <1>8

-----------------------------------------------------------------------------
(* Replicas come and go. *)

(* What a replica that goes down takes with it. *)
LEMMA GoingDown ==
  ASSUME TypeOK, NEW r \in Replicas, Crash(r) \/ ShutdownBegin(r) \/ ShutdownFlush(r) \/ ShutdownExit(r)
  PROVE  /\ UNCHANGED <<row, redis, key, daemon, adrift>>
         /\ ackAge' \in {ackAge, Freshness + 1}
         /\ \A s \in Replicas : sweeper'[s] \in {sweeper[s], "idle"}
         /\ \A t \in Transports : beat'[t] \in {beat[t], NoBeat}
         /\ seen' = seen \/ (row = "online" /\ seen' = 0)
         /\ \/ ws' = None /\ ackAge' = Freshness + 1
            \/ /\ ws' = ws /\ ackAge' = ackAge
               /\ ws \in pending => ws \in pending' \/ (row = "online" => seen' = 0)
<1>1. ASSUME Gone(r)
      PROVE  /\ UNCHANGED <<row, seen, redis, key, daemon, adrift>>
             /\ ackAge' \in {ackAge, Freshness + 1}
             /\ \A s \in Replicas : sweeper'[s] \in {sweeper[s], "idle"}
             /\ \A t \in Transports : beat'[t] \in {beat[t], NoBeat}
             /\ \/ ws' = None /\ ackAge' = Freshness + 1
                \/ ws' = ws /\ ackAge' = ackAge /\ (ws \in pending => ws \in pending')
  <2>1. UNCHANGED <<row, seen, redis, key, daemon, adrift>> /\ pending' = pending \ {r} /\ Stage(r, "idle")
        /\ (IF ws = r THEN Detach ELSE UNCHANGED link)
        /\ beat' = [t \in Transports |-> IF beat[t].at = r THEN NoBeat ELSE beat[t]]
    BY <1>1 DEF Gone, database
  <2>2. \A s \in Replicas : sweeper'[s] \in {sweeper[s], "idle"}
    BY <2>1 DEF Stage, TypeOK, ReplicasOK
  <2>3. \A t \in Transports : beat'[t] \in {beat[t], NoBeat}
    BY <2>1
  <2>4. \/ ws' = None /\ ackAge' = Freshness + 1
        \/ ws' = ws /\ ackAge' = ackAge /\ (ws \in pending => ws \in pending')
    BY <2>1 DEF Detach, link
  <2> QED BY <2>1, <2>2, <2>3, <2>4
<1>2. CASE Crash(r) \/ ShutdownExit(r)
  <2>1. Gone(r)
    BY <1>2 DEF Crash, ShutdownExit
  <2> QED BY <1>1, <2>1
<1>3. CASE ShutdownBegin(r)
  BY <1>3 DEF ShutdownBegin, database, batches, client, link, history
<1>4. CASE ShutdownFlush(r)
  <2>1. /\ UNCHANGED <<row, redis, key, daemon, ws, ackAge, beat, adrift>> /\ pending' = pending \ {r}
        /\ TouchBatch(r) /\ Stage(r, "idle")
    BY <1>4 DEF ShutdownFlush, client, link
  <2>2. IF r \in pending /\ row = "online" THEN seen' = 0 ELSE seen' = seen
    BY <2>1 DEF TouchBatch
  <2>3. \A s \in Replicas : sweeper'[s] \in {sweeper[s], "idle"}
    BY <2>1 DEF Stage, TypeOK, ReplicasOK
  <2> QED BY <2>1, <2>2, <2>3
<1> QED BY <1>2, <1>3, <1>4

LEMMA DownRequests ==
  ASSUME TypeOK, TypeOK', EvidenceInv, NEW r \in Replicas,
         Crash(r) \/ ShutdownBegin(r) \/ ShutdownFlush(r) \/ ShutdownExit(r)
  PROVE  Requests'
<1>1. {ackAge, Freshness, FlushInterval} \subseteq Nat
  BY Intervals
<1>2. AcksAreWs' /\ AckWrites'
  BY <1>1, GoingDown DEF EvidenceInv, Requests, AcksAreWs, AckWrites
<1>3. OfflineIsDue'
  BY GoingDown DEF EvidenceInv, Requests, OfflineIsDue, NoBeat
<1> QED BY <1>2, <1>3 DEF Requests

(* An outage excuses a gap. *)
LEMMA EvidenceOutage ==
  ASSUME InStep, TypeOK, TypeOK', EvidenceInv, NEW r \in Replicas, outages' = outages + 1,
         Crash(r) \/ ShutdownBegin(r)
  PROVE  EvidenceInv'
<1>1. Excess' = Excess + BeatGap
  BY ExcessGrows
<1>2. /\ UNCHANGED <<row, seen, redis, key, daemon, adrift>> /\ ackAge' \in {ackAge, Freshness + 1}
      /\ \A s \in Replicas : sweeper'[s] \in {sweeper[s], "idle"}
      /\ \A t \in Transports : beat'[t] \in {beat[t], NoBeat}
  <2>1. seen' = seen
    BY DEF Crash, ShutdownBegin, Gone, database
  <2> QED BY <2>1, GoingDown
<1>3. /\ {BeatInterval, Freshness, BatchInterval, BeatGap, Excess, Run, Run', adrift, seen, ackAge} \subseteq Nat
      /\ BeatGap = Freshness + BeatInterval /\ Run <= BeatInterval
      /\ BeatInterval <= BatchInterval /\ BatchInterval <= Freshness
  BY Intervals, IntervalsNext DEF InStep
<1>4. StaleRow'
  <2> SUFFICES ASSUME row = "online", redis # "sound", seen >= StaleThreshold
               PROVE  adrift <= Excess + BeatGap
    BY <1>1, <1>2 DEF StaleRow
  <2>1. \/ adrift <= Excess
        \/ pending = {} /\ adrift <= Excess + Run
        \/ Served /\ \E s \in pending : adrift <= Excess + BeatInterval + (BatchInterval - batchIn[s])
    BY DEF EvidenceInv, Waiting, StaleRow
  <2>2. ASSUME NEW s \in pending, adrift <= Excess + BeatInterval + (BatchInterval - batchIn[s])
        PROVE  adrift <= Excess + BeatGap
    <3>1. batchIn[s] \in Nat
      BY Intervals
    <3> QED BY <1>3, <2>2, <3>1
  <2> QED BY <1>3, <2>1, <2>2
<1>5. LostRecord'
  <2> SUFFICES ASSUME row = "online", redis = "sound", key <= 1
               PROVE  LostRecord'
    BY <1>2 DEF LostRecord
  <2>1. CASE Waits(adrift, Excess)
    <3>1. Within(adrift', Excess', ackAge', Run')
      BY <1>1, <1>2, <1>3, <2>1 DEF Waits, Within
    <3> QED BY <3>1 DEF LostRecord, Waits
  <2>2. CASE Waits(seen, 0) /\ Waits(adrift, Excess + BeatGap)
    <3>1. Within(seen', BeatInterval, ackAge', Run') /\ Within(adrift', Excess' + BeatInterval, ackAge', Run')
      BY <1>1, <1>2, <1>3, <2>2 DEF Waits, Within
    <3> QED BY <3>1 DEF LostRecord, Waits
  <2>3. CASE Waits(adrift, Excess + BeatInterval)
    <3>1. Within(adrift', Excess', ackAge', Run')
      BY <1>1, <1>2, <1>3, <2>3 DEF Waits, Within
    <3> QED BY <3>1 DEF LostRecord, Waits
  <2> QED BY <2>1, <2>2, <2>3 DEF EvidenceInv, Waiting, LostRecord
<1>6. TakenOff'
  <2>1. adrift <= Excess + 2 * BeatGap
    BY DEF EvidenceInv, Waiting, Returns
  <2>2. Within(adrift', Excess' + BeatGap, ackAge', Run')
    BY <1>1, <1>2, <1>3, <2>1 DEF Within
  <2> QED BY <2>2 DEF TakenOff, Waits
<1>7. StaleSoon' /\ Forgetting' /\ Returns' /\ JustTaken'
  <2>1. StaleSoon' /\ Returns'
    BY <1>1, <1>2, <1>3 DEF EvidenceInv, Waiting, StaleSoon, Returns
  <2>2. Forgetting'
    BY <1>1, <1>2, <1>3 DEF EvidenceInv, Waiting, Forgetting
  <2>3. JustTaken'
    BY <1>1, <1>2, <1>3 DEF EvidenceInv, Waiting, JustTaken, NoBeat
  <2> QED BY <2>1, <2>2, <2>3
<1>8. Requests'
  BY DownRequests
<1> QED BY <1>4, <1>5, <1>6, <1>7, <1>8 DEF EvidenceInv, Waiting

(* A shutdown that has begun goes on. *)
LEMMA EvidenceDown ==
  ASSUME TypeOK, TypeOK', EvidenceInv, NEW r \in Replicas, server[r] \in {"draining", "drained"},
         outages' = outages, Crash(r) \/ ShutdownFlush(r) \/ ShutdownExit(r)
  PROVE  EvidenceInv'
<1>1. ~Served /\ Run = 0 /\ Excess' = Excess
  BY DEF Served, Settled, Run, Excess
<1>2. /\ {Run', Excess, adrift, seen, StaleThreshold} \subseteq Nat /\ StaleThreshold > 0
  BY Intervals, IntervalsNext
<1>3. Quietly
  <2>1. Onwards
    BY <1>1, <1>2, GoingDown, RunsOn
  <2> QED BY <2>1, GoingDown DEF Quietly
<1>4. StaleSoon' /\ Returns' /\ LostRecord' /\ TakenOff'
  BY <1>3, GoingDown, QuietlyKept DEF EvidenceInv
<1>5. StaleRow'
  <2> SUFFICES ASSUME row = "online", redis # "sound", seen >= StaleThreshold
               PROVE  adrift <= Excess
    BY <1>1, <1>2, GoingDown DEF StaleRow
  <2> QED BY <1>1, <1>2 DEF EvidenceInv, Waiting, StaleRow
<1>6. Forgetting' /\ JustTaken'
  <2>1. Forgetting'
    BY <1>1, GoingDown DEF EvidenceInv, Waiting, Forgetting
  <2>2. JustTaken'
    BY <1>1, GoingDown DEF EvidenceInv, Waiting, JustTaken, NoBeat
  <2> QED BY <2>1, <2>2
<1>7. Requests'
  BY DownRequests
<1> QED BY <1>4, <1>5, <1>6, <1>7 DEF EvidenceInv, Waiting

LEMMA EvidenceRestart ==
  ASSUME TypeOK, TypeOK', EvidenceInv, Attached, NEW r \in Replicas, Restart(r)
  PROVE  EvidenceInv'
<1>1. /\ UNCHANGED <<row, seen, redis, key, outages, pending, sweeper, daemon, httpIn, ws, ackAge, beat, adrift>>
      /\ server' = [server EXCEPT ![r] = "up"] /\ server[r] = "down"
      /\ batchIn' = [batchIn EXCEPT ![r] = BatchInterval]
  BY DEF Restart, database, client, link, history
<1>2. server'[r] = "up" /\ \A s \in Replicas \ {r} : server'[s] = server[s] /\ batchIn'[s] = batchIn[s]
  BY <1>1 DEF TypeOK, ReplicasOK
<1>3. Served => Served'
  BY <1>2 DEF Served, Up, Settled
<1>4. \A s \in pending : batchIn'[s] = batchIn[s]
  BY <1>1, <1>2, Intervals DEF Attached
<1>5. Run' >= Run
  <2>1. CASE Served
    BY <1>1, <1>3, <2>1, Intervals DEF Run
  <2>2. CASE ~Served
    BY <2>2, IntervalsNext DEF Run
  <2> QED BY <2>1, <2>2
<1>6. Quietly
  BY <1>1, <1>5, RunsOn DEF Quietly
<1>7. StaleSoon' /\ Returns' /\ LostRecord' /\ TakenOff' /\ StaleRow'
  BY <1>1, <1>3, <1>4, <1>5, <1>6, QuietlyKept, StaleRowKept DEF EvidenceInv
<1>8. Forgetting' /\ JustTaken' /\ Requests'
  BY <1>1 DEF EvidenceInv, Waiting, Requests, Forgetting, JustTaken, AcksAreWs, AckWrites, OfflineIsDue, Excess
<1> QED BY <1>7, <1>8 DEF EvidenceInv, Waiting

-----------------------------------------------------------------------------
(* Time passes. *)
LEMMA EvidenceTick ==
  ASSUME InStep, TypeOK, TypeOK', EvidenceInv, Attached, Tick
  PROVE  EvidenceInv'
<1>1. /\ UNCHANGED <<row, redis, server, outages, sweeper, pending, daemon, ws, beat>> /\ Calm
      /\ seen' = Older(seen, StaleThreshold + 1) /\ key' = Less(key)
      /\ batchIn' = [r \in Replicas |-> Less(batchIn[r])]
      /\ ackAge' = Older(ackAge, Freshness + 1)
      /\ adrift' = IF daemon = "running" /\ Up # {} /\ ~Live THEN Older(adrift, AdriftCap) ELSE 0
      /\ daemon = "running" => httpIn' = Less(httpIn)
  BY DEF Tick
<1>2. /\ {BeatInterval, Freshness, FlushInterval, BatchInterval, StaleThreshold, BeatGap, Excess, Run, adrift,
          seen, key, ackAge, httpIn} \subseteq Nat
      /\ BeatGap = Freshness + BeatInterval /\ Run <= BeatInterval
      /\ FlushInterval + BeatGap + BatchInterval < StaleThreshold /\ StaleThreshold > 0
      /\ ackAge <= Freshness + 1 /\ httpIn <= BeatInterval
      /\ BeatInterval <= BatchInterval /\ BatchInterval <= Freshness
      /\ {Run', Excess', adrift', seen', key', ackAge'} \subseteq Nat
  BY Intervals, IntervalsNext DEF InStep
<1>3. /\ Excess' = Excess /\ (Served' <=> Served) /\ Settled
      /\ \A r \in Replicas : sweeper'[r] = "idle"
      /\ \A t \in Transports : beat'[t].pc = "idle"
  BY <1>1 DEF Excess, Served, Up, Settled, Calm
<1>4. seen' <= seen + 1 /\ (key <= 1 => key' <= 1) /\ (key > 1 => key' >= 1)
  BY <1>1, <1>2 DEF Older, Less
<1>5. ackAge' <= Freshness => ackAge' = ackAge + 1 /\ ackAge <= Freshness
  BY <1>1, <1>2 DEF Older
<1>6. ackAge > Freshness => ackAge' > Freshness
  BY <1>1, <1>2 DEF Older
<1>7. Requests'
  <2>1. AcksAreWs'
    BY <1>1, <1>6 DEF EvidenceInv, Requests, AcksAreWs
  <2>2. AckWrites'
    BY <1>1, <1>2, <1>4, <1>5 DEF EvidenceInv, Requests, AckWrites
  <2>3. OfflineIsDue'
    BY <1>3 DEF OfflineIsDue
  <2> QED BY <2>1, <2>2, <2>3 DEF Requests
<1>8. CASE ~(daemon = "running" /\ Up # {} /\ ~Live)
  <2>1. adrift' = 0
    BY <1>1, <1>8
  <2>2. \A r \in Replicas : sweeper'[r] # "forget"
    BY <1>3
  <2> QED BY <1>7, <2>1, <2>2, Afresh DEF EvidenceInv
<1>9. CASE daemon = "running" /\ Up # {} /\ ~Live
  <2>1. adrift' <= adrift + 1
    BY <1>1, <1>2, <1>9, Caps DEF Older
  <2>2. Served /\ Run' = Run + 1
    <3>1. Served
      BY <1>3, <1>9 DEF Served
    <3>2. httpIn > 0 /\ httpIn' = httpIn - 1 /\ beat["http"].pc = "idle" /\ beat'["http"].pc = "idle"
      BY <1>1, <1>2, <1>9 DEF Calm, Less, Transports
    <3> QED BY <1>2, <1>3, <3>1, <3>2 DEF Run
  <2>3. ASSUME NEW x \in Nat, NEW y \in Nat, NEW c \in Nat, Waits(x, c), y <= x + 1
        PROVE  Within(y, c, ackAge', Run')
    BY <1>2, <1>5, <2>2, <2>3 DEF Waits, Within
  <2>4. StaleRow'
    <3> SUFFICES ASSUME row = "online", redis # "sound"
                 PROVE  StaleRow'
      BY <1>1 DEF StaleRow
    <3>1. seen >= StaleThreshold
      BY <1>2, <1>9 DEF Live
    <3>2. \/ adrift <= Excess
          \/ pending = {} /\ adrift <= Excess + Run
          \/ \E r \in pending : adrift <= Excess + BeatInterval + (BatchInterval - batchIn[r])
      BY <3>1 DEF EvidenceInv, Waiting, StaleRow
    <3>3. \A r \in pending : /\ batchIn[r] \in Nat /\ batchIn[r] <= BatchInterval
                             /\ batchIn[r] > 0 /\ batchIn'[r] = batchIn[r] - 1
      <4> SUFFICES ASSUME NEW r \in pending
                   PROVE  /\ batchIn[r] \in Nat /\ batchIn[r] <= BatchInterval
                          /\ batchIn[r] > 0 /\ batchIn'[r] = batchIn[r] - 1
        OBVIOUS
      <4>1. r \in Replicas /\ batchIn[r] \in Nat /\ batchIn[r] <= BatchInterval
        BY Intervals
      <4>2. server[r] = "up"
        BY <1>1, <4>1 DEF Attached, Calm
      <4>3. batchIn[r] > 0
        BY <1>1, <4>1, <4>2 DEF Calm
      <4> QED BY <1>1, <4>1, <4>3 DEF Less
    <3>4. CASE pending = {}
      <4>1. adrift' <= Excess' + Run'
        BY <1>2, <1>3, <2>1, <2>2, <3>2, <3>4
      <4> QED BY <1>1, <3>4, <4>1 DEF StaleRow
    <3>5. CASE pending # {}
      <4>1. PICK r \in pending : adrift <= Excess + BeatInterval + (BatchInterval - batchIn[r])
        BY <1>2, <3>2, <3>3, <3>5
      <4>2. adrift' <= Excess' + BeatInterval + (BatchInterval - batchIn'[r])
        BY <1>2, <1>3, <2>1, <3>3, <4>1
      <4> QED BY <1>1, <1>3, <2>2, <4>2 DEF StaleRow
    <3> QED BY <3>4, <3>5
  <2>5. LostRecord'
    <3> SUFFICES ASSUME row = "online", redis = "sound"
                 PROVE  LostRecord'
      BY <1>1 DEF LostRecord
    <3>1. key <= 1
      BY <1>2, <1>9 DEF Live
    <3>2. CASE Waits(adrift, Excess)
      <4>1. Within(adrift', Excess', ackAge', Run')
        BY <1>2, <1>3, <2>1, <2>3, <3>2
      <4> QED BY <4>1 DEF LostRecord, Waits
    <3>3. CASE Waits(seen, 0) /\ Waits(adrift, Excess + BeatGap)
      <4>1. Within(seen', 0, ackAge', Run') /\ Within(adrift', Excess' + BeatGap, ackAge', Run')
        BY <1>2, <1>3, <1>4, <2>1, <2>3, <3>3
      <4> QED BY <4>1 DEF LostRecord, Waits
    <3>4. CASE Waits(seen, BeatInterval) /\ Waits(adrift, Excess + BeatInterval)
      <4>1. Within(seen', BeatInterval, ackAge', Run') /\ Within(adrift', Excess' + BeatInterval, ackAge', Run')
        BY <1>2, <1>3, <1>4, <2>1, <2>3, <3>4
      <4> QED BY <4>1 DEF LostRecord, Waits
    <3> QED BY <3>1, <3>2, <3>3, <3>4 DEF EvidenceInv, Waiting, LostRecord
  <2>6. TakenOff'
    <3> SUFFICES ASSUME row = "offline" PROVE Within(adrift', Excess' + BeatGap, ackAge', Run')
      BY <1>1 DEF TakenOff, Waits
    <3>1. Waits(adrift, Excess + BeatGap)
      BY <1>9 DEF EvidenceInv, Waiting, TakenOff
    <3> QED BY <1>2, <1>3, <2>1, <2>3, <3>1
  <2>7. Forgetting' /\ JustTaken'
    BY <1>3 DEF Forgetting, JustTaken
  <2>8. row = "online" /\ redis # "sound" => adrift' <= Excess' + BeatGap
    <3> SUFFICES ASSUME row = "online", redis # "sound" PROVE adrift' <= Excess' + BeatGap
      OBVIOUS
    <3>1. seen' >= StaleThreshold
      BY <1>1, <1>2, <1>9 DEF Live, Older
    <3>2. \/ adrift' <= Excess'
          \/ adrift' <= Excess' + Run'
          \/ \E r \in pending' : adrift' <= Excess' + BeatInterval + (BatchInterval - batchIn'[r])
      BY <1>1, <2>4, <3>1 DEF StaleRow
    <3>3. \A r \in pending' : batchIn'[r] \in Nat
      BY <1>1, Intervals, IntervalsNext
    <3>4. Run' <= BeatInterval
      BY IntervalsNext
    <3> QED BY <1>2, <3>2, <3>3, <3>4
  <2>9. row = "online" /\ redis = "sound" =>
          \/ adrift' <= Excess' + BeatGap
          \/ seen' < StaleThreshold /\ adrift' <= Excess' + 2 * BeatGap
    <3> SUFFICES ASSUME row = "online", redis = "sound"
                 PROVE  \/ adrift' <= Excess' + BeatGap
                        \/ seen' < StaleThreshold /\ adrift' <= Excess' + 2 * BeatGap
      OBVIOUS
    <3>1. key' <= 1
      BY <1>2, <1>4, <1>9 DEF Live
    <3>2. \/ Within(adrift', Excess', ackAge', Run')
          \/ Within(seen', 0, ackAge', Run') /\ Within(adrift', Excess' + BeatGap, ackAge', Run')
          \/ Within(seen', BeatInterval, ackAge', Run') /\ Within(adrift', Excess' + BeatInterval, ackAge', Run')
      BY <1>1, <2>5, <3>1 DEF LostRecord, Waits
    <3>3. Run' <= BeatInterval
      BY IntervalsNext
    <3> QED BY <1>2, <3>2, <3>3 DEF Within
  <2>10. row = "offline" => adrift' <= Excess' + 2 * BeatGap
    <3> SUFFICES ASSUME row = "offline" PROVE adrift' <= Excess' + 2 * BeatGap
      OBVIOUS
    <3>1. Within(adrift', Excess' + BeatGap, ackAge', Run')
      BY <1>1, <1>9, <2>6 DEF TakenOff, Waits
    <3>2. Run' <= BeatInterval
      BY IntervalsNext
    <3> QED BY <1>2, <3>1, <3>2 DEF Within
  <2>11. row \in {"online", "offline"}
    BY DEF TypeOK, RowOK
  <2>12. StaleSoon'
    BY <1>1, <1>2, <2>8, <2>9 DEF StaleSoon
  <2>13. Returns'
    BY <1>2, <2>8, <2>9, <2>10, <2>11 DEF Returns
  <2> QED BY <1>7, <2>4, <2>5, <2>6, <2>7, <2>12, <2>13 DEF EvidenceInv, Waiting
<1> QED BY <1>8, <1>9

-----------------------------------------------------------------------------
LEMMA EvidenceStep ==
  ASSUME InStep, TypeOK, TypeOK', EvidenceInv, FreshInv, [Next]_vars
  PROVE  EvidenceInv'
<1>1. Attached /\ NotDueIsFresh
  BY DEF FreshInv, Ages
<1>2. CASE Aside
  BY <1>2, EvidenceAside
<1>3. CASE Register \/ Tick
  BY <1>1, <1>3, EvidenceRegister, EvidenceTick
<1>4. ASSUME NEW t \in Transports, BeatQueue(t) \/ BeatMarkOnline(t)
      PROVE  EvidenceInv'
  BY <1>1, <1>4, EvidenceQueue, EvidenceMark
<1>5. ASSUME NEW r \in Replicas,
             Flush(r) \/ SweepSelect(r) \/ SweepFilter(r) \/ SweepMark(r) \/ SweepForget(r) \/ Restart(r)
      PROVE  EvidenceInv'
  BY <1>1, <1>5, EvidenceFlush, EvidenceSweep, EvidenceRestart
<1>6. ASSUME NEW r \in Replicas, Crash(r) \/ ShutdownBegin(r) \/ ShutdownFlush(r) \/ ShutdownExit(r)
      PROVE  EvidenceInv'
  <2>1. server[r] \in {"up", "draining", "drained", "down"}
    BY DEF TypeOK, ReplicasOK
  <2>2. CASE server[r] = "up"
    <3>1. outages' = outages + 1 /\ (Crash(r) \/ ShutdownBegin(r))
      BY <1>6, <2>2 DEF Crash, ShutdownBegin, ShutdownFlush, ShutdownExit
    <3> QED BY <3>1, EvidenceOutage
  <2>3. CASE server[r] # "up"
    <3>1. /\ server[r] \in {"draining", "drained"} /\ outages' = outages
          /\ Crash(r) \/ ShutdownFlush(r) \/ ShutdownExit(r)
      BY <1>6, <2>1, <2>3 DEF Crash, ShutdownBegin, ShutdownFlush, ShutdownExit
    <3> QED BY <3>1, EvidenceDown
  <2> QED BY <2>2, <2>3
<1> QED BY <1>2, <1>3, <1>4, <1>5, <1>6 DEF Next, DaemonNext, BeatNext, ReplicaNext, Aside

LEMMA EvidenceInitial == Init => EvidenceInv
<1> SUFFICES ASSUME Init PROVE EvidenceInv
  OBVIOUS
<1>1. TypeOK
  BY TypesInitial
<1>2. /\ row = "online" /\ seen = 0 /\ pending = {} /\ ackAge = Freshness + 1 /\ adrift = 0
      /\ \A t \in Transports : beat[t].pc = "idle"
      /\ \A r \in Replicas : sweeper[r] = "idle"
  BY DEF Init, NoBeat
<1>3. {Run, ackAge, Excess, BeatGap, Freshness, StaleThreshold} \subseteq Nat /\ StaleThreshold > 0
  BY <1>1, Intervals
<1>4. Requests
  BY <1>2, <1>3 DEF Requests, AcksAreWs, AckWrites, OfflineIsDue
<1>5. Waits(adrift, Excess)
  BY <1>2, <1>3 DEF Waits, Within
<1>6. Waiting
  BY <1>2, <1>3, <1>5 DEF Waiting, StaleRow, LostRecord, StaleSoon, Forgetting, TakenOff, JustTaken, Returns
<1> QED BY <1>4, <1>6 DEF EvidenceInv

(* A running daemon whose runtime is not seen as live is seen again within *)
(* two gaps between beats, and one more for each time that a replica goes  *)
(* down, whatever the store does and with any number of replicas, if the   *)
(* intervals of daemon and server follow each other.                       *)
THEOREM EvidenceComesBack ==
  ASSUME InStep
  PROVE  Spec => []EvidenceReturns
<1>1. Init => EvidenceInv
  BY EvidenceInitial
<1>2. TypeOK /\ TypeOK' /\ FreshInv /\ EvidenceInv /\ [Next]_vars => EvidenceInv'
  BY EvidenceStep
<1>3. TypeOK /\ EvidenceInv => EvidenceReturns
  <2> SUFFICES ASSUME TypeOK, EvidenceInv PROVE adrift <= (2 + outages) * BeatGap
    BY DEF EvidenceReturns
  <2>1. \A m, n \in Nat : (2 + m) * n = m * n + 2 * n
    OBVIOUS
  <2>2. (2 + outages) * BeatGap = Excess + 2 * BeatGap
    BY <2>1, Intervals DEF Excess
  <2> QED BY <2>2 DEF EvidenceInv, Waiting, Returns
<1> QED BY <1>1, <1>2, <1>3, LivenessTypeCorrect, FreshInvariant, PTL DEF Spec
=============================================================================
