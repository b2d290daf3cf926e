# A verification project for the agent server and its clients

This directory holds TLA+ models of the server in `src/server` and of the parts of its
clients in `src/packages` and `src/apps/desktop` that keep state of their own, the
configurations that check them with TLC, and theorems about them that TLAPS checks.

The server assigns issues, chats and scheduled jobs to coding agents; the agents run in
daemons on other machines, which poll the server for work and report what became of it.
On its side everything meets in one table, `agent_task_queue`, which users, daemons and
background sweepers write concurrently. That table, the operations that write it, the
cache in front of it and the heartbeats by which the server knows which daemons are
alive are modelled.

The clients keep copies: of the issue list and of the task a chat waits for, which
answers, events and optimistic writes reach in any order; of what each tab's router
shows; and, in the desktop app, of who is signed in, as files and a daemon process that
must follow. These four are modelled too, each as a module of its own. They do not share
state with each other or with the server's modules except through requests and events,
and each models the part of the server it hears from.

## The system

| Part | State | Operations | Interacts by | What makes it correct |
|---|---|---|---|---|
| Task queue (`internal/service/task.go`, `pkg/db/queries/agent.sql`) | rows of `agent_task_queue`; `agent.status` | enqueue, claim, start, complete, fail, retry, rerun, cancels | SQL statements; bus events; daemon wakeups | one task per agent and issue at a time; every row ends; one retry per failure; an agent's status tells the truth |
| Empty-claim cache (`internal/service/empty_claim_cache.go`) | two Redis keys per runtime | IsEmpty, CurrentVersion, MarkEmpty, Bump | the claim and every enqueue | no verdict hides a row from the claim its wakeup causes |
| Sweeper (`cmd/server/runtime_sweeper.go`) | none of its own | fail rows of offline runtimes, stale rows, queued rows nobody claimed | the queue, once per tick | lost work ends and is retried; issues do not stay in progress |
| Runtime liveness (`handler/heartbeat_scheduler.go`, `handler/runtime_liveness_store.go`, `handler/daemon.go`) | Redis liveness records, `agent_runtime.status` and `last_seen_at`, a batch in memory | register, heartbeat, deregister, mark offline | daemon heartbeats, sweeper | a runtime that beats is not marked offline; one that does not is, in time |
| Daemon (`internal/daemon`; its heartbeats are in RuntimeLiveness) | execution slots, running tasks, runtime ids | poll, run, watch for cancellation, report with retries, recover a removed runtime | HTTP and WebSocket | slots come back; results are reported; cancelled work stops |
| Autopilot (`service/autopilot.go`, `cmd/server/autopilot_*.go`) | `autopilot`, `autopilot_run` | schedule, dispatch, sync with issue or task, pause on failures | scheduler ticks, bus events | one run per trigger; a run ends when its work ends |
| Chat (`handler/chat.go`) | `chat_session`, messages, resume pointer | send, cancel, delete | the queue | one reply at a time; the pointer is that of the last reply |
| Comments (`handler/comment.go`) | `comment` | trigger, coalesce, delete | the queue | no comment for an agent is left unseen |
| Request stores (`handler/runtime_update.go`, `runtime_models.go`, `runtime_local_skills.go`) | requests in memory or Redis | create, pop, report, time out | heartbeats | a request is answered or times out, once |
| Realtime (`internal/realtime`, `internal/daemonws`, `internal/events`) | subscriptions, streams | publish, subscribe, relay | everything | scoped delivery; slow clients are dropped |
| Daemon workspace (`daemon/gc.go`, `daemon/repocache`) | mirrors and worktrees on disk | prepare, collect | daemon | no worktree in use is collected |
| Command runner, workflows, preview registry (`handler/command*.go`, `previewregistry.go`) | runs and leases in memory | admit, run, cancel, expire | UI | limits hold |
| Desktop daemon manager (`apps/desktop/src/main/daemon-manager.ts`) | `config.json` and the user file of the profile, the daemon process, `currentState`, `operationInProgress`, `pendingVersionRestart` | syncToken, clearToken, auto-start, start, stop, restart, version check, poll | IPC calls of the renderer; commands and probes of the daemon | the daemon that runs works for whoever is signed in; files agree; commands exclude each other; a running daemon is shown as running |
| Desktop tabs (`apps/desktop/src/renderer/src/stores/tab-store.ts`, `platform/navigation.tsx`, `hooks/use-tab-*.ts`) | tab groups by workspace; a memory router per tab | open, close, move, select, navigate, switch workspace, validate, restore | effects that copy router state into the store | a navigation lands where it was to lead; groups and routers agree; buttons are honest; the window is not blank |
| Issue list (`packages/core/issues`, `packages/core/realtime`, `packages/core/api/ws-client.ts`) | the query's buckets and its mark, mutations in flight, the socket | fetch, patch by event, optimistic update, rollback, reconnect | HTTP answers and WebSocket events of the server | the list is the server's once all is quiet; what was missed is fetched |
| Chat window (`packages/views/chat`, `packages/core/chat`) | agent and session shown, the shared promise of a session, the pending task of each session | send, upload, stop, choose | HTTP answers and events | one session is created; the pill tells the truth |
| The rest: CRUD on projects, labels, skills, inbox; authentication; storage; metrics; agent backends; CLI; the pages of web and desktop | | | | not modelled, see PROJECT.json |

What is hard here. Nothing in the server holds a lock across two SQL statements: each
handler is a sequence of statements (READ COMMITTED) and any other handler may come
between two of them. The claim judges `NOT EXISTS` in a statement snapshot that may be
stale when it updates the row. The same failure can be reported by the daemon, by two
sweeps and by a restarting daemon. Any request can die halfway. Rows outlive the
agent, the runtime and the chat session they name.

In the clients nothing runs in parallel and everything interleaves: a handler keeps what
it has read across an await, an effect runs only while its component is mounted, an
answer and an event of the same change travel on two connections, and each write of a
cache entry (`setQueryData`) also clears the mark that the entry is to be fetched again.

## Modules

    SerialLanes           what the queue promises for work on issues (abstract)
    TaskQueue             the queue: one action per SQL statement or transaction
      TaskQueueTypes        proofs: types, and what a step can do to rows
      TaskQueueProofs       proofs: serialization and refinement, no double retry;
                            how far capacity and the other lanes can be exceeded,
                            the status of an agent
    MCTaskQueue           small instances of TaskQueue
    EmptyClaim            the empty-claim cache of one runtime
      EmptyClaimProofs      proofs: verdicts are true
    MCEmptyClaim          small instances of EmptyClaim
    RuntimeLiveness       heartbeats, liveness record, batch and sweeper, in time
      RuntimeLivenessProofs proofs: types, the age of last_seen_at, nobody alive is
                            swept, the end of a daemon is noticed, evidence of one
                            that runs returns
    MCRuntimeLiveness     small instances of RuntimeLiveness
    DesktopDaemon         the desktop's handlers, the profile's files, the daemon process
      DesktopDaemonProofs   proofs: types, the guarded calls exclude each other, the
                            daemon and its files follow the user
    MCDesktopDaemon       small instances of DesktopDaemon
    Tabs                  tab store, routers and navigation of the desktop
      TabsProofs            proofs: types, honest buttons, no empty window, ids and
                            routers, navigation lands
    MCTabs                small instances of Tabs
    IssueCache            the issue list between fetches, events and mutations
      IssueCacheProofs      proofs: types, what is to be made up for is not forgotten,
                            the list is the server's
    MCIssueCache          small instances of IssueCache
    ChatWindow            sessions and the pending task of the chat window
      ChatWindowProofs      proofs: types, one creation at a time, nobody is left
                            waiting, the pill tells the truth
    MCChatWindow          small instances of ChatWindow

### TaskQueue

A row is a record of the columns that decide anything: status, agent, runtime, link,
attempt, failure reason, parent, and whether it has ever been started. The four
nullable references `issue_id`, `chat_session_id`, `autopilot_run_id` and the
quick-create context exclude each other and are one field, `link`. `Orphan` is the
link of an ended row whose chat session has been deleted (the foreign key sets it to
NULL), `Blank` the link of a retry of such a row.

A handler is split where the code runs another statement:

| Code | Actions |
|---|---|
| enqueue (`enqueueIssueTask`, `EnqueueTaskForMention`, `EnqueueChatTask`, `EnqueueQuickCreateTask`, `dispatchRunOnly`) | `Request`, `EnqueueCheck` (read the agent), `EnqueueInsert` |
| `RerunIssue`, `UpdateIssue` with another assignee | `Rerun` or `Reassign`, `EnqueueCancel`, then as above |
| `ClaimTaskForRuntime` and `ClaimTask` | `ClaimList`, then for each agent `ClaimCount`, `ClaimSnapshot`, `ClaimUpdate` or `ClaimNothing` |
| `StartTask`, `CompleteTask`, `FailTask` | one transaction each, and for `FailTask` the retry |
| the sweeps and `RecoverOrphanedTasks` | one statement that fails rows, then `HandleFailedTasks` |
| `HandleFailedTasks` | `HandleRetry`, `HandleCheck`, `HandleActive`, `HandleReset` per row, and `HandleDone` |
| `CancelTask`, `CancelTasksForIssue`, `CancelTasksForAgent`, `CancelTasksByTriggerComment`, deletion of a chat session | one action each |
| `ReconcileAgentStatus`, which follows most writes | `ReconcileRead` for an agent in `owed`, then `ReconcileWrite` or `ReconcileFails` |
| `ArchiveAgent` | `ArchiveAgent`, `ArchiveCancel` |
| `RestoreAgent`, `UpdateAgent` (runtime), `revokeAndRemoveMember` | one action each |
| death of the server process | `Crash`: every request in progress is gone |

`ClaimAgentTask` is one statement and two steps, because that is what the isolation
level gives it: `ClaimSnapshot` is the moment of its snapshot, in which `NOT EXISTS`
and the set of candidates are judged; `ClaimUpdate` is the moment it locks a row,
skipping those another transaction has locked or changed (`Hits`).

`owed` stands for the reconcile calls that requests in progress have still to make. A
refresh is one statement and two steps for the same reason: it judges `EXISTS` in its
snapshot and may wait for the lock of the agent's row, so of two that overlap the older
verdict may be written last. `doubtful` is history: the agents whose status the code has
lost sight of, until a refresh that meets no other. An agent becomes doubtful when two of
its refreshes overlap, when one fails (`ReconcileAgentStatus` returns on the error and
nobody tries again), when an archive cancels its running tasks, and when the server dies
before a refresh.

Daemons are not modelled as processes. A daemon is whoever has been handed a row
(`delivered`); it may start, complete or fail the row, in any state of the row, late
or never. That is more than a real daemon does, so safety carries over.

### EmptyClaim

`ClaimTaskForRuntime` asks the cache, samples the version, selects, and writes a
verdict tagged with the sampled version when it has found nothing. An enqueue inserts,
bumps the version and wakes the daemon. Each Redis command and each statement is a
step; a command may fail, a request may be abandoned, an expiring verdict may go at any
time. A claim that has found candidates dispatches one of them or none (`Take`): the agent
may be at capacity, its lane busy, the row claimed one of the runtime the agent had
before, or a statement may fail. `announced` is a history variable: the rows whose Bump has happened.

### RuntimeLiveness

One runtime, its daemon, the replicas of the server, the row in `agent_runtime` and the
record in Redis.

| Code | Actions |
|---|---|
| `runHeartbeatTick` (HTTP, suppressed by recent WebSocket acks) | `HttpTick` |
| `runTaskWakeupConnection`, `runWSHeartbeatSender` | `WsOpen`, `WsTick`, `WsClose` |
| `DaemonHeartbeat`, `HandleDaemonWSHeartbeat`: `GetAgentRuntime` and the decision in `recordHeartbeat` | `BeatRead` |
| `Touch`, then `Schedule`: queue the write of an online row, or mark an offline one online | `BeatQueue`, `BeatMarkOnline` |
| `BatchedHeartbeatScheduler.flushOnce` and its UPDATE | `Flush` |
| `sweepStaleRuntimes`: SELECT, Redis, UPDATE, Forget | `SweepSelect`, `SweepFilter`, `SweepMark`, `SweepForget` |
| `DaemonRegister`, `DaemonDeregister` | `Register`, `Deregister` |
| shutdown in `main`, and death of a replica | `ShutdownBegin`, `ShutdownFlush`, `ShutdownExit`, `Crash`, `Restart` |
| the daemon's machine or network goes and comes back | `FallSilent`, `Resume` |

Time passes in `Tick`, and only when no request is in progress and no timer is due: a
request takes less than a tick, a ticker fires within its tick. In the instance a tick
is 15 seconds. An age counted in ticks is right to less than a tick, so where the code
compares an age with a limit and the two are equal, both outcomes are possible
(`Reached`); the same goes for a record in its last tick (`Recorded`). Pairs of steps
that nothing can tell apart are one step: Touch and Schedule (nothing reads the record
and the batch together), the two halves of a flush (a beat queued during the UPDATE
waits for the next flush either way), the upsert and the Touch of a registration.

`steady`, `quiet` and `adrift` are history. A runtime is steady while its daemon has
been running and no replica has gone since the last write of `last_seen_at`; a daemon
that falls silent, or a replica that dies with its batch, ends it, and the next write
restores it. The counters say for how long no beat has been handled, and for how long a
running daemon has not been live in the sense of `resolveRuntimeLive`.

### DesktopDaemon

Every IPC handler is a thread (`thread[t]`), and a step of it is what it does between two
awaits that another handler, the poll or the daemon can notice.

| Code | Actions |
|---|---|
| `setTargetApiUrl` on mount, login, logout and buttons of the renderer | `SetTarget`, `SignIn`, `SignOut`, `Press` |
| `syncToken` | `ReadConfig`, `ReadUser`, `Mint`, `SaveToken`, `SaveUser`, `SwitchUser` |
| `daemon:auto-start`, `ensureRunningDaemonVersionMatches` | `AutoStart`, `CheckVersion` |
| `clearToken` and the guarded stop of `handleDaemonLogout` | `ClearRead`, `ClearToken`, `ClearUser`, `Guard` |
| `startDaemon`, `stopDaemon`, `restartDaemon` | `StopCall`, `Stop`, `Start`, `Spawn`, `Spawned` |
| `pollOnce` with `fetchHealth` | `PollSend`, `PollAnswer` |
| `before-quit`; the app ends and is launched again | `Quit`, `Relaunch` |
| the daemon binds its port, loads the token, registers, listens (`daemon.Run`) | `Load`, `Listen`, `Die`, `Work` |

A token is known by the user it was minted for. `calm` is history: nothing has failed,
and whenever the user did something no handler was at work and no restart was pending.
`ServesUser` is claimed of such sessions only, because a user who acts while a handler is
at work can defeat it (see below). `PatIsOwners` is claimed of all sessions in which no
two `syncToken` were at work at once and no launch ended between the two files that one
writes; `apart` is that history. Failures, sign-outs in the middle of a sync and launches
that end anywhere else do not end it.

### Tabs

The store's operations are the actions' bodies (`SwitchWorkspace`, `OpenTab`, `AddTab`,
`ValidateWorkspaceSlugs`, `Reset`), and what React does after a store update is part of
the step: `Settled` copies the visible router's path and resets the counters of the tabs
that are unmounted.

| Code | Actions |
|---|---|
| session and workspace list (`App.tsx`, `useLogout`, `WorkspaceRouteLayout`) | `SignIn`, `SignOut`, `List`, `Heal` |
| persistence (`partialize`, `merge`) | `Restart` |
| the navigation adapters, a push of a hidden tab's page among them | `Push`, `Replace`, `PushNewWorkspace`, `PageBack`, `LatePush`, `OpenInNewTab` |
| back and forward buttons | `GoBack`, `GoForward` |
| the tab bar | `NewTab`, `Select`, `Close`, `Move` |
| links and notifications (`multica:navigate`) | `OpenLink` |
| overlays | `OpenOverlay`, `CloseOverlay` |

`asked` (where the last navigation was to lead) and a tab's `late` (its router moved while
nobody listened) are history.

### IssueCache

| Code | Actions |
|---|---|
| handlers of issues at the server: commit, then publish | `Other`, `Publish` |
| `onIssueCreated`, `onIssueUpdated`, `onIssueDeleted` with the cache helpers | `Deliver` |
| `WSClient` | `Connect`, `Drop` |
| `fetchFirstPages`: one request for each status | `Read`, `FetchFirstPages`, `FetchFails` |
| `useCreateIssue`, `useUpdateIssue`, `useDeleteIssue` | `CreateIssue`, `Optimistic`, `Arrive`, `Answer` |
| the page and the workspace come and go, the cache is collected | `Mount`, `Unmount`, `Leave`, `Return`, `Collect` |

The query library (TanStack Query) is a dependency; it is modelled by what the code relies
on. `doubt` is the history of what the code cannot know, whether the list has missed
something: "due" when a fetch is to make up for it, "lost" when nothing will. `Synced` is
about the lists without doubt, `DueIsKept` and `DueIsDone` about those with "due". The
ways to become "lost" are named in the model: a list read column by column while an issue
moves, an event of the time before the first connection, a late event, a mark cleared by
a patch.

### ChatWindow

| Code | Actions |
|---|---|
| `handleSend` | `HandleSend`, `SendArrives`, `SendFails`, `SendAnswered` |
| `handleUploadFile` | `HandleUploadFile` |
| `ensureSession` | `EnsureSession`, `SessionCreated`, `CreateFails` |
| `handleStop` | `HandleStop`, `CancelArrives` |
| `handleSelectAgent`, `handleNewChat`, `handleSelectSession` | the same names |
| the pending-task query | `FetchRead`, `FetchAnswer` |
| the server's `SendChatMessage`, claim, cancellation | `OtherSend`, `Claim`, `OtherCancel` |
| `CompleteTask` and `FailTask`; the sweeps and orphan recovery; the retry | `Finish`, `Sweep`, `Retry` |
| the events of these, as the handlers send them | `Publish` |
| `useRealtimeSync` | `Deliver`: `OnQueued`, `OnMessage`, `OnDispatch`, `OnDone`, `OnSwept`, `OnCancelled` |

A failure that a sweep or an orphan recovery finds is announced by `HandleFailedTasks`,
whose event has no session; the client drops it (`OnSwept`). A retry is announced as
queued, without a message of its own, before the failure of its parent.

`excused` is history: the sessions whose entry no longer has to be right, each for a
reason the action names.

## What is checked

Runs that pass:

| Run | Instance | Shows |
|---|---|---|
| `TQ_lanes` | 2 agents, 1 issue, 2 claims, 2 rows, capacity 2 | `IssueSerialized`: an agent never has two active tasks on one issue. `IssueInv`: why. `LanesBounded`: see below. `ImplementsSerialLanes`: the queue refines `SerialLanes` |
| `TQ_unindexed` | 1 agent, a chat session, 2 claims, 3 rows, capacity 2, sweeper and recovery | `LanesBounded`: a lane has no more active rows than there are claims at work, whether an index protects it or not. `CapacityBounded`: the capacity is exceeded by fewer rows than there are claims. `RetriedOnce`: sweeper and orphan recovery never retry one failure twice |
| `TQ_agents` | 1 agent that may be moved, archived, restored or revoked, 2 runtimes, 2 refreshes at a time, daemon or recovery beside the sweeper, one crash | `StatusTruthful`: when no refresh is outstanding and the last one met no other, an agent is working exactly when it has an active task |
| `TQ_liveness` | 1 agent moved between 2 runtimes, 1 issue, a daemon that reports failures, one crash, 2 rows | `EveryTaskEnds`, `InfraFailureRetried`, and `SweptIssueReleased`: what a sweep has failed releases its issue |
| `EC_cache` | 2 rows, 2 claims | `BelievedIsTrue`: a believed verdict hides no announced row. `CacheInv`: why. `NeverStalled`: a row that stays queued is listed by claims again and again, also one whose Bump was lost |
| `RL_beats` | the code's intervals in ticks of 15 s, 1 replica, one crash or shutdown, a store that is missing, sound or failing | `AgeBounded`, `SteadyIsOnline` and the invariant `FreshInv` that carries them. `DetectedInTime`: a runtime without beats is offline after the threshold, a sweep and a batch. `EvidenceReturns`: one that was taken offline, or lost its record to a late Forget, is live again within two gaps between beats, and one more per outage |
| `DD_session` | 2 users, 1 login chain at a time, 2 acts at any moment, 1 mishap (a command that fails, a daemon that dies, a relaunch) | `ServesUser`: in a calm session the daemon that is up once all is quiet has the token of whoever is signed in. `PatIsOwners`: the sidecar never vouches for another user's token. `UpIsShown`: a daemon that stays up is shown as running in the end. `DeferredRestartHappens`: a version restart put off for running tasks happens once the daemon stays idle |
| `TS_tabs` | 2 workspaces with 2 pages, 3 tabs, 3 router entries, 7 acts | `GroupsSound`, `RoutersOwned`, `NotBlank`, `ButtonsHonest`, `Lands` |
| `IC_list` | 1 issue, 2 columns and the status without one, 1 mutation, 1 write of another, 3 acts, 1 fault | `Synced`, `DueIsKept`, and `DueIsDone` under fairness |
| `CW_chat` | 2 agents, 2 sessions, 2 tasks, a send and an upload, sweeps and retries, 2 acts, 1 failure | `OneCreation`, `PillIsTrue` |

`LanesBounded` and `CapacityBounded` say what is left of two promises that the code does
not keep when claims overlap. Counting and dispatching are two statements, and so are
finding a lane idle and taking it; with one claim at a time the bounds are 1 active row
and `max_concurrent_tasks`, with two they are one more, and the counterexample instances
below reach them.

Two runs find a disagreement between the code and what it says of itself.

* `TQ_fail_report`: a failure that a daemon reports goes through `FailTask`, which retries
  and broadcasts on its own and never resets the issue. When no retry follows the
  issue stays in progress with nothing live on it (`FailedIssueReleased`). The comment at
  `service/task.go:1294-1296` says that all callers, `FailTask` among them, funnel through
  `HandleFailedTasks` so that the same guarantees apply.
* `CW_pill`: a sweep fails a chat task; its event has no session, the client drops it, and
  the pill and the lock of the input stay on a task that has ended (`NoEndedTask`), until
  another event, a message or a Stop writes the entry. The comment at
  `use-realtime-sync.ts:531-534` says that `task:failed` has the entry fetched so that the
  database remains authoritative.

### Counterexample instances

These configurations are kept beside the runs. Each checks one property that a comment of
the repository suggests and that the code does not have; TLC ends with a short trace.

| Configuration | Module and property | What happens |
|---|---|---|
| `TQ_capacity_race.cfg` | `MCTaskQueue`, `CapacityRespected` | two claims count the agent's tasks before either dispatches; `max_concurrent_tasks` is exceeded, which `service/task.go:681` calls atomic |
| `TQ_chat_race.cfg` | `MCTaskQueue`, `UnindexedSerialized` | two claims with snapshots from before both updates dispatch two rows of one chat session (`agent.sql:190`); on issues the unique index prevents exactly this |
| `TQ_wrong_runtime.cfg` | `MCTaskQueue`, `DispatchedIsDelivered` | the agent has moved to another runtime; a claim for its new runtime dispatches a row queued for the old one and hands it to nobody (`agent.sql:412`). Only the dispatch timeout ends it |
| `TQ_status.cfg` | `MCTaskQueue`, `StatusSettles` | archiving an agent cancels its tasks and refreshes nothing; it stays working (`service/task.go:577`) |
| `RL_late_sweep.cfg` | `MCRuntimeLiveness`, `HeartbeatStopsSweep` | a beat is handled between two statements of the sweeper: it renews the record, but `last_seen_at`, which the update re-checks, is left to the batch. The runtime is marked offline with a fresh heartbeat, its tasks are failed and its new record is deleted (`runtime.sql:179`) |
| `DD_inherits.cfg` | `MCDesktopDaemon`, `NeverInherits` | a second user signs in and starts the daemon while her token is still being minted; the daemon loads the first user's token, the health probe of the switch does not find it yet, and it goes on to serve the second user with the first one's credentials (the comment on `syncToken`, `daemon-manager.ts:533`) |
| `TS_leak.cfg` | `MCTabs`, `NoLeak` | the handler of `multica:navigate` opens a path in the group of whichever workspace is active: a notification of workspace A, clicked after a switch to B, opens A's page as a tab of B, which the comments at `tab-store.ts:45` and `desktop-layout.tsx:111` exclude. A restart drops the tab (`merge` keeps only paths of the group's own workspace) |
| `IC_twice.cfg` | `MCIssueCache`, `AddingIsNoOp` | an issue is created and moved; the fetch has it in the second column, and the event of its creation, delivered afterwards, adds it to the first as well (`cache-helpers.ts:39`) |
| `CW_agent.cfg` | `MCChatWindow`, `AgentOfSession` | a message is sent without a session and another agent is chosen while it is created; the session that arrives is shown with the wrong agent (`chat-window.tsx:384`) |

`DD_overlap.cfg` is of another kind: it passes, with 5.5 million states in four minutes. It
is `DD_session` with a third act, in which a button, a sign-out and a sync can meet, and
checks `GuardOwned` besides, which takes three acts to violate and which is proved.

Other disagreements are in the models without an instance of their own:

* an enqueue that has checked its agent inserts a row after the agent was archived, and
  the claim does not look at `archived_at`;
* the issue reset of `HandleFailedTasks` follows its check in another statement;
* a completion that comes after the row was failed or cancelled marks the issue as
  executed (`CompleteTask` updates `executed` in both cases);
* a chat task fails, its session is deleted, and its retry is inserted without any link
  (`RetryLink`);
* the worst age of `last_seen_at` is 135 s and not the 105 s of
  `handler/daemon.go:637-639`, because a WebSocket that has just died keeps HTTP silent
  for its freshness of 30 s; the 150 s threshold still holds, with one tick to spare
  (`AgeBounded`);
* a dead runtime may stay online for 210 s and not the 180 s of
  `runtime_sweeper.go:27-29`, because the batch may write its last beat 30 s late
  (`DetectedInTime`);
* the answer of a send that comes after the task's end puts the task back into the entry,
  and the pill stays until another event of the session or a Stop writes the entry, which
  is never stale by age
  (`SendAnswered`, excused in `PillIsTrue`); a send that fails leaves its seed
  (`SendFails`);
* `task:cancelled` empties the entry although another task of the session may be running
  (`OnCancelled`, excused likewise);
* `task:dispatch` writes the entry as it was, and with that clears the mark that the
  entry of a session out of sight is to be fetched (`OnDispatch`);
* events between the first fetch and the first connection are lost and nothing fetches
  again, because only a client that has connected before does (`Publish` with
  `conn = "off"`);
* the stop of a logout is refused when a button's call is at work, and the daemon goes on
  (`Guard`).

### Bounds

`MaxTasks` bounds the rows ever inserted, `MaxCrashes` the crashes, and the sets of
slots (`Enqueuers`, `Claimers`, `Reporters`, `Recoverers`) the requests that run at the
same time. Sequences of requests are not bounded except by the rows. Two rows are
enough for two rows to collide in a lane; three for a retry to be retried and for a
second retry of one failure. Two claims are enough
for a count or a snapshot to be stale, and two refreshes for one to be overtaken. Runs with `CHECK_DEADLOCK FALSE` have no issue
whose status can change for ever, so they stop when the rows are used up.

`Full`, the case that no row is left, makes an insert fail; in the code an insert can
fail for other reasons (a lost connection), with the same consequences. It is an escape
of `InfraFailureRetried`, which is met with a row to spare when one row has failed.

`RL_beats` uses the intervals of the code divided by 15 s (beat 1, freshness 2, throttle
4, batch 2, record 6, sweep 2, threshold 10), so sums and orders of intervals are those
of production. The tickers of a replica start together, at any distance from the
registration. `MaxOutages` bounds how often a replica goes down. One replica is enough
for every single race of a beat with a flush, a sweep or a shutdown; that two replicas
add nothing to `AgeBounded` and `SteadyIsOnline` is proved. `quiet` is counted up to its
bound only while no replica has gone down.

In the clients' modules `MaxActs` bounds what the user does, and what nobody decides is
not bounded: steps of handlers, polls, effects, events and fetches come in any number and
order. Two acts are a login and a logout, or a login and a button, each at any moment of
the other (`DD_session`); one login chain runs at a time there, so two logins follow each
other and never overlap, which `PatIsOwners` excepts anyway; seven acts are a sign-in, a
list, and five operations on tabs, enough for a switch away and back with a push and a pop
in between (`TS_tabs`); three acts are a mutation with a change of page or workspace and
back (`IC_list`); two are a send with a stop or a choice, or a send beside another tab's
(`CW_chat`), where the server's tasks, sweeps and retries are not acts. `MaxMishaps` and `MaxFaults` bound failures, `MaxCommits` the other
clients' writes. `MaxTabs` and `MaxStack` are room for tabs and router
entries: an operation that would need more is not taken. `MaxTasks` in `ChatWindow` bounds
the rows of the sessions, and `MaxWire` the events published and not yet handled: a
publication waits while two are on the socket, and its event is then `unpublished`, so
no order of events relative to the answers is lost.

`IC_list` has one issue because the cache operations of different issues touch different
entries of the buckets; the fetch, the mark and the snapshot of a mutation, which they
share, are met by one.

Symmetry is declared for claim and enqueue slots in runs without liveness properties;
no definition tells the slots apart. `TS_tabs` declares it for workspaces, which no
definition tells apart either, and has no liveness property.

The clients' runs say `CHECK_DEADLOCK FALSE`: when the user's acts are used up and all is
answered, nothing more happens.

### Fairness

`TaskQueue!FairSpec` assumes that a request that has begun goes on to its next
statement, and that the sweeper, which ticks every 30 seconds, at some tick finds a row
that stays queued, dispatched or running past its timeout
(`runtime_sweeper.go:18-59`). Both are weak fairness: the statements of a request in
progress stay enabled until they are taken, and so does the sweep of a row while the
sweeper's slot is free, which the fairness of `HandleFailedTasks` brings about. Nothing
is assumed of daemons, users or the network, so `EveryTaskEnds` rests on the sweeper
alone. The two steps of a refresh are fair; that one may fail instead is not excluded.
A crash ends requests without completing them; it is bounded, and the two
properties about the handling of failures are claimed from the last crash on, because
a crash between the failing statement and the handler does lose the retry.

`EmptyClaim!FairSpec` assumes strong fairness of the stages by which a claim comes to its
SELECT: a daemon polls again and again, each single poll may be abandoned or answered from
the cache, but not for ever at the same stage. A claim that has its candidates, or a
verdict to write, goes on to its end or is abandoned. Verdicts expire (their TTL is
minutes). Bumps are not assumed to happen, nor that a claim dispatches what it lists:
`NeverStalled` is about the row whose Bump was lost, and says that claims get to see it.

`DesktopDaemon!Fairness` says that every await ends, since commands and probes have
timeouts, that the poll timer runs until the app quits, and that a daemon that has been
started goes on to listen or exits. It is weak fairness of the handlers together, which
is fairness to each because a handler ends after a few steps; the version check, which
the poll may begin again without end, has its own. Nothing is assumed of the user, of
tasks or of the death of a daemon, so both properties carry their conditions: a daemon
that stays up, or one that stays idle.

`IssueCache!Fairness` says that a handler that has committed publishes, that the socket
delivers and is connected again (every 3 seconds, `ws-client.ts`), and that requests are
answered or fail. Whether the list is on screen is up to the user: `DueIsDone` is about
lists that stay mounted. `Tabs` and `ChatWindow` have no liveness property and state no
fairness.

`RuntimeLiveness` needs no fairness: `Tick` is not enabled while a request is in
progress or a timer is due, so what must happen within a time happens before time goes
on, and "in time" is an invariant. That rests on requests and statements that take less
than 15 s and succeed; only Redis may fail.

## What is proved

For all values of the constants, from the named assumptions of the modules
(`BoundsAssumption`, `PriorityAssumption`, `SessionAssumption`, `NoneAssumption`,
`LinksAssumption`, `HandlersAssumption`, `ClaimersAssumption`, `NoVersionAssumption`,
`IntervalsAssumption`, `ChainAssumption`, `RecordAssumption`, `DesktopAssumption`, `TabsAssumption`,
`IssueCacheAssumption`, `ChatAssumption`):

| Theorem | Statement |
|---|---|
| `TaskQueueTypes!TypeCorrect` | `Spec => []TypeOK` |
| `TaskQueueProofs!IssueInvariant` | `Spec => []IssueInv` |
| `TaskQueueProofs!IssuesAreSerialized` | `Spec => []IssueSerialized` |
| `TaskQueueProofs!Refinement` | `Spec => ImplementsSerialLanes` |
| `TaskQueueProofs!NoDoubleRetry` | `Spec => []RetriedOnce` |
| `TaskQueueProofs!CapacityIsBounded` | `Spec => []CapacityBounded` |
| `TaskQueueProofs!LanesAreBounded` | `Spec => []LanesBounded` |
| `TaskQueueProofs!StatusIsTruthful` | `Spec => []StatusTruthful` |
| `EmptyClaimProofs!CacheTypeCorrect` | `Spec => []TypeOK` |
| `EmptyClaimProofs!CacheInvariant` | `Spec => []CacheInv` |
| `EmptyClaimProofs!VerdictsAreTrue` | `Spec => []BelievedIsTrue` |
| `RuntimeLivenessProofs!LivenessTypeCorrect` | `Spec => []TypeOK` |
| `RuntimeLivenessProofs!FreshInvariant` | `Spec => []FreshInv` |
| `RuntimeLivenessProofs!AgeIsBounded` | `Spec => []AgeBounded` |
| `RuntimeLivenessProofs!SteadyStaysOnline` | `Spec => []SteadyIsOnline` |
| `RuntimeLivenessProofs!EndIsDetected` | `Spec => []DetectedInTime` |
| `RuntimeLivenessProofs!EvidenceComesBack` | `Spec => []EvidenceReturns`, if the intervals follow each other (`InStep`) |
| `DesktopDaemonProofs!TypeCorrect` | `Spec => []TypeOK` |
| `DesktopDaemonProofs!GuardIsOwned` | `Spec => []GuardOwned` |
| `DesktopDaemonProofs!DaemonServesUser` | `Spec => []ServesUser` |
| `DesktopDaemonProofs!PatStaysWithOwner` | `Spec => []PatIsOwners` |
| `TabsProofs!TabsTyped` | `Spec => []TypeOK` |
| `TabsProofs!ButtonsAreHonest` | `Spec => []ButtonsHonest` |
| `TabsProofs!WindowIsNotBlank` | `Spec => []NotBlank` |
| `TabsProofs!GroupsAreSound` | `Spec => []GroupsSound` |
| `TabsProofs!RoutersAreOwned` | `Spec => []RoutersOwned` |
| `TabsProofs!NavigationLands` | `Spec => []Lands` |
| `IssueCacheProofs!ListTypes` | `Spec => []TypeOK` |
| `IssueCacheProofs!DueStaysOnTheBooks` | `Spec => []DueIsKept` |
| `IssueCacheProofs!ListIsSynced` | `Spec => []Synced` |
| `ChatWindowProofs!ChatTyped` | `Spec => []TypeOK` |
| `ChatWindowProofs!CreationIsShared` | `Spec => []OneCreation` |
| `ChatWindowProofs!NobodyIsLeftWaiting` | `Spec => [](who waits for a session waits for a call that creates it)` |
| `ChatWindowProofs!PillTellsTheTruth` | `Spec => []PillIsTrue` |

Of the bounds only `MaxTasks`, `MaxCrashes`, `MaxOutages`, `MaxActs`, `MaxMishaps`,
`MaxFaults`, `MaxCommits`, `MaxWire`, `MaxTabs` and `MaxStack` remain, and they are any
natural numbers. One theorem carries a condition: `EvidenceComesBack` asks that a batch
spans a beat, that an ack stays fresh for a batch at least, and that the record has a TTL
at all (`InStep`). The code has 15, 30, 30 and 90 seconds, the freshness being twice the
beat's interval by definition (`internal/daemon/daemon.go:452-457`). With a batch longer
than the freshness, or a TTL of 0, TLC finds the bound of `EvidenceReturns` exceeded.

*Rows.* The queue has some forty actions, and most properties only care what they do to
rows. `RowSteps` (TaskQueueTypes) shows once that every step inserts one row, or moves
one row from a status to the next, or ends some live rows, or leaves the table alone.
The invariant under which this holds, `TypeInv`, adds `RefsOK` to `TypeOK`: batches hold
failed rows, the links of issues are those of rows that exist.

*Serialization.* `IssueSerialized` is not inductive: a claim in progress may be about to
dispatch a row because of a snapshot in which its lane was idle. `SnapshotsHold` says
that for a row that is still queued the snapshot's verdict is still right. It stays
right because another row of the lane could only become active by being claimed, hence
by being queued beside the first, which the unique index excludes (`PendingUnique`).
`IssueInv` is the conjunction of the three. The argument uses the index and fails where
there is none, which is what `TQ_chat_race` shows.

*Refinement.* By `RowSteps` and `IssueInv`, step by step: an insert is `Enqueue` if the
row is for an issue, a status change is `Claim`, `Start` or `Finish`, an ending is
`End`, and a step of rows outside issues, or of no row, leaves the lanes as they are.

*Retries.* `RetryInv` adds to `RetriedOnce` that two batches never hold the same row
(`BatchesApart`: a row enters a batch in the step that fails it, and a failed row stays
failed) and that a row a batch has still to retry has no retry yet
(`WaitingUntouched`).

*Capacity and the other lanes.* Both bounds add to the active rows the claims that may
still make another: those let through by the count (`LetThrough`), and those whose
snapshot has a queued row of the lane (`Hopeful`). A dispatch turns such a claim into an
active row, so the sum does not grow; the only steps that make it grow are a count that
lets a claim through, and a snapshot that finds the lane idle. The count has found fewer
than `max_concurrent_tasks` rows, and beside it at most the other claims were let through:
that is `CapacityBounded`, which is inductive with `SnapshotsOwn` (a claim dispatches for
the agent it has counted for). The snapshot has found no row at all, and beside it there are at most the other claims. Two lanes could still be made
one by a row that changes its link; a link is lost only by a row that has ended
(`OrphansEnded`). A retry without a link is a new queued row and adds to no sum.

*Status.* `StatusTruthful` only speaks of agents to which no refresh is owed, so the proof
is about debts: every statement that makes a row active or ends an active one leaves the
row's agent in `owed`, or in the batch of a handler that refreshes it at its end, and a
debt is only paid by a refresh. While one is in hand and no other has met it, what it will
write is right, or a newer debt stands; when a second one begins, the agent is doubtful
until a refresh begins alone. A batch must therefore note the agent of each row before it
lets go of it (`AgentsNoted`), and a claim must dispatch for the agent it has counted for
(`SnapshotsOwn`). A crash forgets debts and makes the agents doubtful to whom they were.

*Cache.* A verdict about to be written must be harmless if it would be believed
(`MarksAreTrue`): when its tag is the current version, no Bump has come since the
version was sampled, so no row has been announced since, and the rows announced before
had been inserted before the SELECT that found nothing.

*Liveness.* `AgeBounded` says nothing of who will write next, so it is not inductive.
`FreshInv` follows the duty to write: while nothing is queued, the last WebSocket ack
(`AckedIsFresh`) or the next HTTP tick (`NextBeatReaches`) bounds the age, and the beat
that comes then is either not due, hence the age within the throttle (`NotDueIsFresh`), or
queues a write, after which the flush timer of that replica bounds it
(`NextFlushReaches`). Each bound grows by one exactly when its timer has one tick less.
`SteadyRuns` and `Attached` say that the daemon, the row and a replica are there to do
it. With `ChainAssumption`, which is the code's own condition on its constants with the
failover in it, the age stays below the threshold, so `SweepMark` cannot find the row
stale, however long ago its SELECT was taken. The proof is for any number of replicas,
each with its own batch and sweeper.

*End of a daemon.* `DetectInv` follows the evidence as it runs out, in the order in which
it does. No beat is on its way, so what is queued is flushed within a batch
(`BatchSoon`); from then on the row only ages (`RowAges`), and so does the record
(`RecordAges`), which is gone before the row is stale: that is `RecordAssumption`, which
`daemon.go:613-625` asks of its constant ("intentionally shorter than the sweeper's stale
threshold"). A sweep that begins after both comes within its interval (`SweepComes`) and
marks the row, whether or not Redis answers.

*Return of evidence.* `EvidenceReturns` bounds the ticks for which a daemon has run without
being seen as live. The invariant behind it (`EvidenceInv`) compares that count with what
the next beat waits for: the freshness of the last ack, then the interval of HTTP beats
(`Waits`). Each outage may send a beat nowhere and start the interval anew, and excuses one
gap between beats (`Excess`). Evidence is lost in three ways, each with its own conjunct: the
row has gone stale while Redis was of no use (`StaleRow`), the record was deleted by a Forget
that comes late (`LostRecord`, `Forgetting`), or a sweep took the row offline (`TakenOff`).
A sweep, and the Forget that ends it, can only come within the first gap; the next beat is
at most one more gap away and makes the runtime live again.

*Guard.* `GuardOwned` says that the flag is set exactly while one thread carries the mark
`guarded`. It is inductive only with where such a thread can be (`GuardInv`: a guarded
thread is in the steps of stop and start), since a login chain may begin in any thread
that is idle and must not overwrite a guarded one. `TypeCorrect` is proved with it.

*User.* In a session in which nothing has failed and the user waits for the app, the login
chains and the button's calls come one after the other, and at each of their steps the
token file, the user file, the daemon and the user signed in agree as far as the chain
has come (`Orderly`). `CalmInv` says that a calm session is orderly; `ServesUser` is
what it says of a session where all has settled.

*Files.* `PatIsOwners` needs no order of the acts. `FilesInv` follows the one sync that is at
work while sign-outs come and go: the token it has read is one that the sidecar, if it is
there still, vouches for; the token it is about to write is its own user's; and between its
two writes the token is its user's or has been removed. Sign-outs only remove, the token
before the sidecar, and a sync that fails ends before it writes, so that what is left
behind is a pair that agrees or a sidecar that vouches for nothing.

*Buttons.* What the store shows of a tab's history is what the effect had counted, so
`HistoryInv` asks the same honesty of both pairs of counters: the place counted is below
the router's (there are at least as many entries behind as the button says), and no more
entries are counted ahead than there are. A remount that starts the counters from zero
forgets entries and invents none. A step that names a group or a tab that is not there
changes nothing, so the proof needs neither `GroupsSound` nor distinct ids.

*Window.* `NotBlank` is not inductive: `Heal` drops every group that is not on the list,
so one must be on it (`WindowInv`: it was put there when the list came, and a list that
changes or is read again is judged anew), and where no workspace is active there must be
no group left.

*Ids.* `IdsInv`: the ids in use tell tabs apart within a group and among groups, each group
shows one of its own, there is always an id to spare, and the routers that live are those
of the ids in use. Closing, moving, healing and reading back make new lists out of old
ones, and what stays in them stays with its id and its router. The tab that a path finds
is the first of its kind; that there is a first is the well-ordering of the naturals
(`LeastNat`), and so is the k-th of those that are read back (`KthPlace`). `Lands` follows from what a navigation leads to (`Leads`):
the tab it makes, or the first one of that path, is shown when the step is over
(`Reaches`).

*What is due.* `DueIsKept` is not inductive because the fetch in flight carries a doubt of
its own, which becomes the list's when it ends. `FetchDueIsKept` says that such a doubt is
only "due" while the connection is down or a mutation is out; then each action either
leaves one of the four reasons standing or turns "due" into "lost" (`DueInv`). The proof
is for any columns, issues and number of mutations, where the run has one.

*List.* `Synced` speaks of a moment when all is delivered; `ListInv`, which carries it, gives
for every issue and every moment the reason why the list says what it says (`Told`): an
event not yet delivered is to put it right, or it is right, or a mutation that may yet
fail has put it there. A list of which none of this is true has missed something, and
`doubt` says so. The columns of one fetch are read at different times: for its result to be
trusted they must all say what the server says now, or an event of what has changed since
must be on its way (`FetchTold`). `LastSays` and `InOrder` make sure that the last event of
an issue is the one of its last commit, whichever handler publishes first.

*One creation.* `CreationInv`: the call that creates is the one `sessionPromiseRef` names,
and whoever waits, waits for it. The step that settles the promise must therefore release
all who wait and clear the reference at once, which is what the code does in one burst.

*Pill.* `PillInv`: if an entry does not say what the database says of its session, then
something is on its way that will put it right (an event, a fetch, the answer of a send or
of a stop) or one of the named exceptions was met. Among these is the event of a sweep,
which puts nothing right: it excepts an entry that is out of date when it comes, unless a
fetch or the answer of a send is still to write it. Each write of the entry is judged
against the events still on the socket: an answer that is overtaken by the event of the
end is one of the exceptions, and otherwise the newer of the two wins.

Model-checked only: all liveness (`EveryTaskEnds`, `InfraFailureRetried`,
`SweptIssueReleased`, `NeverStalled`, `UpIsShown`, `DeferredRestartHappens`,
`DueIsDone`), which is beyond the prover. Every safety invariant that a passing run checks
is a theorem.

## What is left out

* Time in `TaskQueue` and `EmptyClaim`. A sweep may find any row old enough, at any
  moment.
* In `RuntimeLiveness`: statements of the database that fail (a failed flush drops its
  batch, which alone may cost a runtime its place if Redis fails too), beats that hang
  for longer than a tick, the actions a heartbeat hands out, deletion of runtimes and the
  daemon's recovery from it, the passthrough scheduler of tests.
* Deletion of issues, agents, runtimes and autopilot runs with the cascades of the
  foreign keys; quick-create rows that are linked to the issue they have made; status
  and capacity of an agent written by hand through `UpdateAgent`.
* Issues assigned to people, and the conditions under which the handlers enqueue at all
  (backlog, triggers, mentions): `Request` may come at any time for any agent, a
  superset. An assignment to a person is a `CancelTasksForIssue`.
* What a completion writes besides the row: comments, inbox items, the resume pointer of
  a chat session, usage; broadcasts and analytics.
* The eviction or expiry of a version key in Redis while a verdict is left over.
* The workspace check of the claim handler, which cancels a row it has just dispatched.
* Other hazards of the server that no module reaches yet: a comment coalesced with a task that is dispatched
  meanwhile (`handler/comment.go:420`), the watcher that interrupts a task only when its
  row is cancelled (`daemon/daemon.go:1752`), the daemon's execution slots
  (`daemon/daemon.go:1641`), the window between the task and the status of an autopilot
  run (`service/autopilot.go:217`), the request stores.
* In `DesktopDaemon`: the installation of the CLI, a configuration that cannot be read, a
  second window, the profile's choice by target URL (set once), and the timing of the
  15-second wait of the start command. The user's own daemon on the default profile
  (`byHand`) is there because a stop before the target is set reaches it.
* In `Tabs`: titles, icons and search parameters; pages that push in a loop; what a page
  does when its data is gone.
* In `IssueCache`: pages beyond the first of a status, the detail and child queries, labels
  and the my-issues lists, which are kept in step in the same way; batch mutations.
* In `ChatWindow`: messages and drafts, deletion of a session, a broken socket (for which
  `IssueCache` has the model), the aggregate of pending tasks on the closed button.
* Pages, forms, the editor, the landing site and the documentation site: rendering of data
  that is fetched, without a protocol of their own. The HTTP client and the wrappers of
  `packages/core` around single requests: one request, one answer.

## Plan

1. Done: `SerialLanes`, `TaskQueue`, `EmptyClaim`, `RuntimeLiveness`, `DesktopDaemon`,
   `Tabs`, `IssueCache`, `ChatWindow`, and the proofs above.
2. Two replicas of `RuntimeLiveness` in a run with smaller intervals; its composition with
   `TaskQueue!SweepOffline`; a flush that fails.
3. `Daemon`: poller, slots, task, cancellation watcher, report with retries,
   runtime-gone recovery. Safety: slots are conserved, a task is executed once at a
   time; liveness: a slot comes back. Proof: slot conservation.
4. `Autopilot`: scheduler claim, dispatch, run status against task and issue events,
   failure monitor.
5. `CommentTriggers`: coalescing against the claim; `ChatSession`: the resume pointer.
6. The request stores as one module with an abstract specification (answered or timed
   out, once) that both stores implement.
7. Other queries kept by events in the client (inbox, comments of an issue), the
   realtime relay between server and client, the garbage collector against running tasks.
8. Theorems: the safety of 3; the refinement of 6.
