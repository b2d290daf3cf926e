-------------------------- MODULE RuntimeLiveness --------------------------
(***************************************************************************)
(* How the server knows that a runtime is alive.  The daemon beats over    *)
(* HTTP and over a WebSocket; a beat renews a record in Redis and, when    *)
(* last_seen_at has grown old, asks for a write of it, which a batch in    *)
(* memory delays; a sweeper marks runtimes offline whose last_seen_at is   *)
(* stale and whose record is gone.  One runtime, its daemon, and the       *)
(* replicas of the server.                                                 *)
(*                                                                         *)
(* Time is counted in ticks; a tick passes when nothing is due and no      *)
(* request is in progress, so every request takes less than a tick.  Two   *)
(* events n ticks apart are more than n - 1 and less than n + 1 units of   *)
(* time apart, so a comparison of an age with a limit may go either way    *)
(* when the two are equal (Reached).                                       *)
(*                                                                         *)
(* Steps that nothing can tell apart are one: Touch and Schedule, the two  *)
(* halves of flushOnce, the upsert and the Touch of a registration.        *)
(*                                                                         *)
(* The store may be missing ("none"), may fail at any command ("faulty"),  *)
(* or answer always ("sound"); a faulty store that never answers is as     *)
(* good as none.                                                           *)
(***************************************************************************)
EXTENDS Naturals

CONSTANTS
  Replicas,        \* server processes
  None,            \* no replica
  BeatInterval,    \* daemon: HeartbeatInterval, 15 s
  Freshness,       \* daemon: wsHeartbeatFreshness, 30 s
  FlushInterval,   \* handler: runtimeHeartbeatDBFlushInterval, 60 s
  BatchInterval,   \* handler: DefaultHeartbeatBatchInterval, 30 s
  LivenessTTL,     \* handler: runtimeLivenessTTL, 90 s
  SweepInterval,   \* sweeper: sweepInterval, 30 s
  StaleThreshold,  \* sweeper: staleThresholdSeconds, 150 s
  RedisModes,      \* "none", "sound", "faulty": what the store may be
  MaxOutages       \* bound: how often a replica goes down

ASSUME IntervalsAssumption ==
  /\ {BeatInterval, Freshness, BatchInterval, SweepInterval} \subseteq Nat \ {0}
  /\ {FlushInterval, LivenessTTL, StaleThreshold, MaxOutages} \subseteq Nat
  /\ Replicas # {} /\ None \notin Replicas /\ RedisModes \subseteq {"none", "sound", "faulty"}

(* The chain of runtimeHeartbeatDBFlushInterval and staleThresholdSeconds, *)
(* with the gap that the two transports can leave between beats.           *)
ASSUME ChainAssumption ==
  FlushInterval + Freshness + BeatInterval + BatchInterval < StaleThreshold

(* runtimeLivenessTTL "is intentionally shorter than the sweeper's stale   *)
(* threshold": a record must not keep a runtime whose daemon is gone.      *)
ASSUME RecordAssumption == LivenessTTL < StaleThreshold

VARIABLES
  row, seen,               \* agent_runtime: status, age of last_seen_at
  redis, key,              \* the store's health; life left to its record
  server, outages,         \* replicas; how many went down
  pending,                 \* replicas whose batch has the runtime
  batchIn, sweepIn,        \* ticks to the next flush and sweep of a replica
  sweeper,                 \* stage of sweepStaleRuntimes in a replica
  daemon, httpIn, wsIn,    \* the daemon and its two heartbeat tickers
  ws, ackAge,              \* replica at the WebSocket; age of its last ack
  beat,                    \* heartbeat requests in progress
  steady, quiet, adrift    \* history, see below

database == <<row, seen>>
batches  == <<pending, batchIn>>
link     == <<ws, wsIn, ackAge>>
process  == <<server, outages, sweepIn, sweeper, batches>>
client   == <<daemon, httpIn, link>>
history  == <<steady, quiet, adrift>>
vars     == <<database, redis, key, process, client, beat, history>>

Transports == {"http", "ws"}
NoBeat == [pc |-> "idle", at |-> None, status |-> "online", due |-> FALSE]

(* History.  steady: last_seen_at has been written since the daemon last   *)
(* fell silent or a replica last went down.  quiet: ticks since a beat was *)
(* handled.  adrift: ticks a running daemon has not been seen as live.     *)
QuietCap == StaleThreshold + SweepInterval + BatchInterval + 1
AdriftCap == (2 + MaxOutages) * (Freshness + BeatInterval) + 1

RowOK ==
  /\ row \in {"online", "offline"} /\ seen \in 0..(StaleThreshold + 1)
  /\ redis \in RedisModes /\ key \in 0..(LivenessTTL + 1)
ReplicasOK ==
  /\ server \in [Replicas -> {"up", "draining", "drained", "down"}]
  /\ outages \in 0..MaxOutages
  /\ pending \subseteq Replicas
  /\ batchIn \in [Replicas -> 0..BatchInterval]
  /\ sweepIn \in [Replicas -> 0..SweepInterval]
  /\ sweeper \in [Replicas -> {"idle", "filter", "mark", "forget"}]
DaemonOK ==
  /\ daemon \in {"running", "silent", "stopped"}
  /\ httpIn \in 0..BeatInterval /\ wsIn \in 0..BeatInterval
  /\ ws \in Replicas \cup {None} /\ ackAge \in 0..(Freshness + 1)
BeatOK ==
  /\ beat \in [Transports ->
       [pc : {"idle", "read", "record"}, at : Replicas \cup {None},
        status : {"online", "offline"}, due : BOOLEAN]]
  /\ \A t \in Transports : beat[t].pc # "idle" => beat[t].at # None
HistoryOK == steady \in BOOLEAN /\ quiet \in 0..QuietCap /\ adrift \in 0..AdriftCap

TypeOK == RowOK /\ ReplicasOK /\ DaemonOK /\ BeatOK /\ HistoryOK

(* A runtime that has just registered, in a server that has been running:  *)
(* the tickers of a replica have been started together, age[r] ticks ago.  *)
Init ==
  /\ row = "online" /\ seen = 0
  /\ redis \in RedisModes
  /\ key = IF redis = "none" THEN 0 ELSE LivenessTTL + 1
  /\ server = [r \in Replicas |-> "up"] /\ outages = 0
  /\ pending = {}
  /\ \E age \in [Replicas -> 0..(BatchInterval * SweepInterval - 1)] :
       /\ batchIn = [r \in Replicas |-> BatchInterval - (age[r] % BatchInterval)]
       /\ sweepIn = [r \in Replicas |-> SweepInterval - (age[r] % SweepInterval)]
  /\ sweeper = [r \in Replicas |-> "idle"]
  /\ daemon = "running" /\ httpIn \in 0..BeatInterval
  /\ ws = None /\ wsIn = 0 /\ ackAge = Freshness + 1
  /\ beat = [t \in Transports |-> NoBeat]
  /\ steady = TRUE /\ quiet = 0 /\ adrift = 0

Up == {r \in Replicas : server[r] = "up"}

(* yes may be the outcome of age >= limit, and of age > limit. *)
Reached(age, limit, yes) == IF yes THEN age >= limit ELSE age <= limit

Recorded == IF key = 1 THEN BOOLEAN ELSE {key > 1}

(* MarkAgentRuntimeOnline, and the row that UpsertAgentRuntime writes. *)
MarkOnline == row' = "online" /\ seen' = 0

(* A faulty throttle, at the sweeper's limit instead of its own. *)
NeedsWriteLate(due) ==
  IF redis = "none" \/ row = "offline" THEN due ELSE Reached(seen, StaleThreshold, due)

(* recordHeartbeat: needDBWrite, before it is known whether Touch succeeds. *)
NeedsWrite(due) ==
  IF redis = "none" \/ row = "offline" THEN due ELSE Reached(seen, FlushInterval, due)

(* LivenessStore.Touch: the record afterwards; without success, the old.   *)
Touched == {k \in {LivenessTTL + 1} : redis # "none"}
Touch == Touched \cup {k \in {key} : redis # "sound"}

-----------------------------------------------------------------------------
(* The daemon *)

Begin(t, r) == beat' = [beat EXCEPT ![t] = [NoBeat EXCEPT !.pc = "read", !.at = r]]

(* runHeartbeatTick: no beat while the WebSocket has been acked lately; a  *)
(* beat that finds no server is lost.                                      *)
HttpTick ==
  /\ daemon = "running" /\ httpIn = 0 /\ beat["http"].pc = "idle"
  /\ httpIn' = BeatInterval
  /\ \E late \in BOOLEAN :
       /\ Reached(ackAge, Freshness, late)
       /\ IF late /\ Up # {} THEN \E r \in Up : Begin("http", r) ELSE beat' = beat
  /\ UNCHANGED <<database, redis, key, process, daemon, link, history>>

(* runWSHeartbeatSender: the frame may be dropped or the link be dead. *)
WsTick ==
  /\ daemon = "running" /\ ws # None /\ wsIn = 0 /\ beat["ws"].pc = "idle"
  /\ wsIn' = BeatInterval
  /\ Begin("ws", ws) \/ beat' = beat
  /\ UNCHANGED <<database, redis, key, process, daemon, httpIn, ws, ackAge, history>>

(* The first beat over a new connection is sent at once. *)
WsOpen ==
  /\ daemon = "running" /\ ws = None /\ beat["ws"].pc = "idle"
  /\ wsIn' = BeatInterval
  /\ \E r \in Up : ws' = r /\ (Begin("ws", r) \/ beat' = beat)
  /\ UNCHANGED <<database, redis, key, process, daemon, httpIn, ackAge, history>>

(* clearWSHeartbeatAcks: the next HTTP beat is not suppressed. *)
Detach == ws' = None /\ wsIn' = 0 /\ ackAge' = Freshness + 1

WsClose ==
  /\ ws # None
  /\ Detach
  /\ UNCHANGED <<database, redis, key, process, daemon, httpIn, beat, history>>

(* The machine sleeps or crashes, or the network is gone. *)
FallSilent ==
  /\ daemon = "running"
  /\ daemon' = "silent" /\ steady' = FALSE
  /\ UNCHANGED <<database, redis, key, process, httpIn, link, beat, quiet, adrift>>

Resume ==
  /\ daemon = "silent"
  /\ daemon' = "running"
  /\ UNCHANGED <<database, redis, key, process, httpIn, link, beat, history>>

(* Shutdown of the daemon.  DaemonDeregister may fail to be delivered; it  *)
(* does not Forget.                                                        *)
Deregister ==
  /\ daemon = "running"
  /\ daemon' = "stopped" /\ steady' = FALSE
  /\ Detach
  /\ row' \in {row} \cup {x \in {"offline"} : Up # {}}
  /\ UNCHANGED <<seen, redis, key, process, httpIn, beat, quiet, adrift>>

(* A new daemon process.  DaemonRegister also writes the record. *)
Register ==
  /\ daemon # "running" /\ Up # {}
  /\ daemon' = "running" /\ httpIn' \in 0..BeatInterval
  /\ Detach
  /\ MarkOnline
  /\ key' \in Touch
  /\ steady' = TRUE /\ quiet' = 0 /\ adrift' = 0
  /\ UNCHANGED <<redis, process, beat>>

-----------------------------------------------------------------------------
(* A heartbeat in the server *)

(* GetAgentRuntime, and the decision taken from it. *)
BeatRead(t) ==
  /\ beat[t].pc = "read"
  /\ \E due \in BOOLEAN :
       /\ NeedsWrite(due)
       /\ beat' = [beat EXCEPT ![t] =
            [pc |-> "record", at |-> @.at, status |-> row, due |-> due]]
  /\ UNCHANGED <<database, redis, key, process, client, history>>

(* Touch, and whether to write: when it was due, or Touch has failed. *)
Record(t, write) ==
  \/ key' \in Touched /\ write = beat[t].due
  \/ redis # "sound" /\ key' = key /\ write

(* The answer; that to a WebSocket beat may be dropped. *)
Answer(t) ==
  /\ beat' = [beat EXCEPT ![t] = NoBeat]
  /\ ackAge' \in {ackAge} \cup {a \in {0} : t = "ws" /\ ws = beat[t].at}
  /\ quiet' = 0

(* A faulty scheduler, which queues every beat. *)
BeatQueueAll(t) ==
  /\ beat[t].pc = "record"
  /\ \E write \in BOOLEAN :
       /\ Record(t, write)
       /\ pending' = IF write THEN pending \cup {beat[t].at} ELSE pending
  /\ Answer(t)
  /\ UNCHANGED <<database, redis, server, outages, sweepIn, sweeper, batchIn, daemon,
                 httpIn, ws, wsIn, steady, adrift>>

(* Schedule: the write of a row read as online is left to the batch. *)
BeatQueue(t) ==
  /\ beat[t].pc = "record"
  /\ \E write \in BOOLEAN :
       /\ Record(t, write)
       /\ write => beat[t].status = "online"
       /\ pending' = IF write THEN pending \cup {beat[t].at} ELSE pending
  /\ Answer(t)
  /\ UNCHANGED <<database, redis, server, outages, sweepIn, sweeper, batchIn, daemon,
                 httpIn, ws, wsIn, steady, adrift>>

(* Schedule: a row read as offline is marked online before the answer. *)
BeatMarkOnline(t) ==
  /\ beat[t].pc = "record" /\ beat[t].status = "offline"
  /\ Record(t, TRUE)
  /\ MarkOnline
  /\ steady' = (daemon = "running")
  /\ Answer(t)
  /\ UNCHANGED <<redis, process, daemon, httpIn, ws, wsIn, adrift>>

-----------------------------------------------------------------------------
(* The batch *)

Serving(r) == server[r] \in {"up", "draining"}

(* TouchAgentRuntimesLastSeenBatch, which touches online rows only. *)
TouchBatch(r) ==
  IF r \in pending /\ row = "online"
  THEN seen' = 0 /\ steady' = (daemon = "running")
  ELSE UNCHANGED <<seen, steady>>

(* A faulty flush, which keeps what it has written. *)
FlushKeep(r) ==
  /\ Serving(r) /\ batchIn[r] = 0
  /\ batchIn' = [batchIn EXCEPT ![r] = BatchInterval]
  /\ TouchBatch(r)
  /\ UNCHANGED <<row, redis, key, server, outages, sweepIn, sweeper, pending, client,
                 beat, quiet, adrift>>

(* flushOnce.  A beat that is queued during the update waits for the next. *)
Flush(r) ==
  /\ Serving(r) /\ batchIn[r] = 0
  /\ batchIn' = [batchIn EXCEPT ![r] = BatchInterval]
  /\ TouchBatch(r)
  /\ pending' = pending \ {r}
  /\ UNCHANGED <<row, redis, key, server, outages, sweepIn, sweeper, client, beat,
                 quiet, adrift>>

-----------------------------------------------------------------------------
(* sweepStaleRuntimes *)

Stage(r, pc) == sweeper' = [sweeper EXCEPT ![r] = pc]

SweepUnchanged == UNCHANGED <<redis, server, outages, batches, client, beat, quiet, adrift>>

(* SelectStaleOnlineRuntimes *)
SweepSelect(r) ==
  /\ Serving(r) /\ sweepIn[r] = 0 /\ sweeper[r] = "idle"
  /\ sweepIn' = [sweepIn EXCEPT ![r] = SweepInterval]
  /\ \E stale \in BOOLEAN :
       /\ Reached(seen, StaleThreshold, stale)
       /\ Stage(r, IF row = "online" /\ stale THEN "filter" ELSE "idle")
  /\ SweepUnchanged /\ UNCHANGED <<database, key, steady>>

(* filterStaleRuntimesByLiveness: without an answer from the store every   *)
(* candidate goes.                                                         *)
SweepFilter(r) ==
  /\ sweeper[r] = "filter"
  /\ \E recorded \in Recorded, answered \in BOOLEAN :
       /\ redis = "none" => ~answered
       /\ redis = "sound" => answered
       /\ Stage(r, IF answered /\ recorded THEN "idle" ELSE "mark")
  /\ SweepUnchanged /\ UNCHANGED <<database, key, sweepIn, steady>>

(* A faulty update, without the predicate on last_seen_at. *)
SweepMarkAny(r) ==
  /\ sweeper[r] = "mark"
  /\ row' = "offline"
  /\ Stage(r, IF row = "offline" \/ redis = "none" THEN "idle" ELSE "forget")
  /\ SweepUnchanged /\ UNCHANGED <<seen, key, sweepIn, steady>>

(* MarkRuntimesOfflineByIDs, which judges last_seen_at again. *)
SweepMark(r) ==
  /\ sweeper[r] = "mark"
  /\ \E stale \in BOOLEAN :
       /\ Reached(seen, StaleThreshold, stale)
       /\ IF row = "online" /\ stale
          THEN row' = "offline" /\ Stage(r, IF redis = "none" THEN "idle" ELSE "forget")
          ELSE row' = row /\ Stage(r, "idle")
  /\ SweepUnchanged /\ UNCHANGED <<seen, key, sweepIn, steady>>

(* Forget.  The row may be online again, and its record new. *)
SweepForget(r) ==
  /\ sweeper[r] = "forget"
  /\ key' \in {0} \cup {k \in {key} : redis = "faulty"}
  /\ Stage(r, "idle")
  /\ SweepUnchanged /\ UNCHANGED <<database, sweepIn, steady>>

-----------------------------------------------------------------------------
(* Replicas *)

(* The process ends: its requests, its batch and its connections are gone. *)
Gone(r) ==
  /\ server' = [server EXCEPT ![r] = "down"]
  /\ pending' = pending \ {r}
  /\ Stage(r, "idle")
  /\ beat' = [t \in Transports |-> IF beat[t].at = r THEN NoBeat ELSE beat[t]]
  /\ IF ws = r THEN Detach ELSE UNCHANGED link
  /\ steady' = FALSE
  /\ UNCHANGED <<database, redis, key, batchIn, sweepIn, daemon, httpIn, quiet, adrift>>

Crash(r) ==
  /\ server[r] # "down"
  /\ IF server[r] = "up"
     THEN outages < MaxOutages /\ outages' = outages + 1
     ELSE UNCHANGED outages
  /\ Gone(r)

(* main: srv.Shutdown waits for HTTP requests, not for WebSockets ... *)
ShutdownBegin(r) ==
  /\ server[r] = "up" /\ outages < MaxOutages
  /\ server' = [server EXCEPT ![r] = "draining"] /\ outages' = outages + 1
  /\ UNCHANGED <<database, redis, key, batches, sweepIn, sweeper, client, beat, history>>

(* ... then the sweeper is cancelled and Stop flushes the batch ... *)
ShutdownFlush(r) ==
  /\ server[r] = "draining" /\ beat["http"].at # r
  /\ server' = [server EXCEPT ![r] = "drained"]
  /\ Stage(r, "idle")
  /\ TouchBatch(r)
  /\ pending' = pending \ {r}
  /\ UNCHANGED <<row, redis, key, outages, batchIn, sweepIn, client, beat,
                 quiet, adrift>>

(* ... and the process exits, with what has come in since. *)
ShutdownExit(r) ==
  /\ server[r] = "drained"
  /\ UNCHANGED outages
  /\ Gone(r)

Restart(r) ==
  /\ server[r] = "down"
  /\ server' = [server EXCEPT ![r] = "up"]
  /\ batchIn' = [batchIn EXCEPT ![r] = BatchInterval]
  /\ sweepIn' = [sweepIn EXCEPT ![r] = SweepInterval]
  /\ UNCHANGED <<database, redis, key, outages, pending, sweeper, client,
                 beat, history>>

-----------------------------------------------------------------------------
(* Time *)

(* resolveRuntimeLive, where the outcome is certain. *)
Live ==
  /\ row = "online"
  /\ IF redis = "sound" THEN key > 1 ELSE seen < StaleThreshold

Calm ==
  /\ \A t \in Transports : beat[t].pc = "idle"
  /\ \A r \in Replicas : /\ sweeper[r] = "idle"
                         /\ server[r] \in {"up", "down"}
                         /\ server[r] = "up" => batchIn[r] > 0 /\ sweepIn[r] > 0
  /\ daemon = "running" => httpIn > 0 /\ (ws # None => wsIn > 0)

Older(age, cap) == IF age < cap THEN age + 1 ELSE cap
Less(left) == IF left > 0 THEN left - 1 ELSE 0

Tick ==
  /\ Calm
  /\ seen' = Older(seen, StaleThreshold + 1) /\ key' = Less(key)
  /\ batchIn' = [r \in Replicas |-> Less(batchIn[r])]
  /\ sweepIn' = [r \in Replicas |-> Less(sweepIn[r])]
  /\ IF daemon = "running"
     THEN httpIn' = Less(httpIn) /\ wsIn' = Less(wsIn)
     ELSE UNCHANGED <<httpIn, wsIn>>
  /\ ackAge' = Older(ackAge, Freshness + 1)
  /\ quiet' = Older(quiet, IF outages = 0 THEN QuietCap ELSE 1)
  /\ adrift' = IF daemon = "running" /\ Up # {} /\ ~Live
               THEN Older(adrift, AdriftCap) ELSE 0
  /\ UNCHANGED <<row, redis, server, outages, sweeper, pending, daemon, ws,
                 beat, steady>>

-----------------------------------------------------------------------------
DaemonNext ==
  \/ HttpTick \/ WsTick \/ WsOpen \/ WsClose
  \/ FallSilent \/ Resume \/ Deregister \/ Register

BeatNext == \E t \in Transports :
  BeatRead(t) \/ BeatQueue(t) \/ BeatMarkOnline(t)

ReplicaNext == \E r \in Replicas :
  \/ Flush(r)
  \/ SweepSelect(r) \/ SweepFilter(r) \/ SweepMark(r) \/ SweepForget(r)
  \/ Crash(r) \/ ShutdownBegin(r) \/ ShutdownFlush(r) \/ ShutdownExit(r) \/ Restart(r)

Next == DaemonNext \/ BeatNext \/ ReplicaNext \/ Tick

Spec == Init /\ [][Next]_vars

-----------------------------------------------------------------------------
(* The longest time between beats of a running daemon: the last ack over a *)
(* WebSocket that has gone dead keeps HTTP silent for its freshness, and   *)
(* HTTP then waits for its next tick.                                      *)
BeatGap == Freshness + BeatInterval

(* last_seen_at of a daemon that keeps beating is never older than the     *)
(* throttle, a gap between beats and a wait for the batch (the chain of    *)
(* runtimeHeartbeatDBFlushInterval), whatever Redis does.                  *)
AgeBounded == steady => seen <= FlushInterval + BeatGap + BatchInterval

(* A daemon that keeps beating is never marked offline, whatever Redis     *)
(* does and whichever of its steps a sweep has already taken.              *)
SteadyIsOnline == steady => row = "online"

(* Why: whoever may still write last_seen_at exists, and the bound shrinks *)
(* as the beat, the next HTTP tick, or the flush of the batch comes near.  *)
Settled == \A r \in Replicas : server[r] \in {"up", "down"}

Attached ==
  /\ \A t \in Transports : beat[t].pc # "idle" => server[beat[t].at] # "down"
  /\ \A r \in pending : server[r] # "down"
  /\ ws # None => server[ws] # "down"

SteadyRuns ==
  steady => daemon = "running" /\ row = "online" /\ \E r \in Replicas : server[r] # "down"

NotDueIsFresh ==
  \A t \in Transports : beat[t].pc = "record" /\ ~beat[t].due => seen <= FlushInterval

AckedIsFresh ==
  steady /\ Settled /\ pending = {} /\ ackAge <= Freshness
    => seen <= FlushInterval + ackAge

NextBeatReaches ==
  steady /\ Settled /\ pending = {} =>
    /\ seen <= FlushInterval + BeatGap
    /\ beat["http"].pc = "idle"
         => seen <= FlushInterval + Freshness + (BeatInterval - httpIn)

NextFlushReaches ==
  steady /\ Settled /\ pending # {} => \E r \in pending :
    seen <= FlushInterval + BeatGap + (BatchInterval - batchIn[r])

Ages ==
  /\ NotDueIsFresh /\ AckedIsFresh /\ NextBeatReaches /\ NextFlushReaches
  /\ AgeBounded

FreshInv == Attached /\ SteadyRuns /\ Ages

(* A runtime whose daemon is gone is offline after the stale threshold, a  *)
(* wait for the sweeper, and a wait for the batch that holds its last      *)
(* beat; a record in Redis does not keep it.                               *)
DetectedInTime ==
  quiet > StaleThreshold + SweepInterval + BatchInterval /\ outages = 0
    => row = "offline"

(* A running daemon whose runtime has been taken offline, or has lost its  *)
(* record to a late Forget, is seen as live again within two gaps between  *)
(* beats, and one more for each time that a replica has gone down.         *)
EvidenceReturns == adrift <= (2 + outages) * BeatGap

(* What MarkRuntimesOfflineByIDs says of its second look at last_seen_at:  *)
(* a sweep takes no runtime offline whose heartbeat has just been handled. *)
HeartbeatStopsSweep ==
  [][\A r \in Replicas :
       /\ sweeper[r] = "mark" /\ sweeper'[r] # "mark"
       /\ row = "online" /\ row' = "offline"
       => quiet > 0]_vars
=============================================================================
