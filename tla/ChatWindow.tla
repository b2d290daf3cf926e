----------------------------- MODULE ChatWindow -----------------------------
(***************************************************************************)
(* The chat window of one workspace: which agent and session it shows, the *)
(* session it creates the first time a message or a file needs one, and    *)
(* the pending task of each session, the cache entry that shows the pill   *)
(* and locks the input.  The entry is written by the send that seeds it,   *)
(* by the answer of that send, by Stop, by the events of the socket and by *)
(* a fetch; each may come while another is on its way.                     *)
(*                                                                         *)
(* A pending task is the number of its row, in the order of creation.  The *)
(* socket does not break here, and a session is not deleted.  The messages *)
(* are left out.                                                           *)
(***************************************************************************)
EXTENDS Naturals, Sequences, FiniteSets

CONSTANTS
  Agents, Sessions, None,
  First, FirstAgent,        \* a session there is from the start, and its agent
  Senders, Uploaders,       \* calls of handleSend, of handleUploadFile, at a time
  Idle, Optimistic,         \* the entry without a task, and with a temporary id
  Off, Asked,               \* no fetch, and one whose query has not run
  MaxTasks, MaxWire, MaxActs, MaxFaults
                            \* bounds: rows, events on the socket, user's acts, failures

Callers == Senders \cup Uploaders

ASSUME ChatAssumption ==
  /\ First \in Sessions /\ FirstAgent \in Agents
  /\ None \notin Agents \cup Sessions \cup Callers /\ Senders \cap Uploaders = {}
  /\ Cardinality({None, Idle, Optimistic, Off, Asked}) = 5
  /\ {None, Idle, Optimistic, Off, Asked} \cap Nat = {}
  /\ MaxTasks \in Nat /\ MaxWire \in Nat /\ MaxActs \in Nat /\ MaxFaults \in Nat

VARIABLES
  owner,         \* the agent of each session, None before it exists
  tasks,         \* rows of the sessions' tasks, oldest first
  unpublished, wire,      \* events of committed changes; those on the socket
  selected, active,       \* agent and session shown
  creator,       \* sessionPromiseRef: the call that creates a session
  op,            \* calls of handleSend and handleUploadFile
  cancels,       \* cancelTaskById on its way
  pending, isInvalidated, fetch,   \* the pending-task query of each session
  excused,       \* history: sessions whose entry no longer has to be right
  acts, faults

rows  == <<owner, tasks>>
query == <<pending, isInvalidated, fetch>>
shown == <<selected, active>>
vars  == <<rows, unpublished, wire, shown, creator, op, cancels, query, excused, acts, faults>>

NoOp == [pc |-> "idle", agent |-> None, on |-> None, s |-> None, t |-> Idle]

Init ==
  /\ owner = [s \in Sessions |-> IF s = First THEN FirstAgent ELSE None]
  /\ tasks = <<>> /\ unpublished = {} /\ wire = <<>>
  /\ selected = FirstAgent /\ active \in {None, First}
  /\ creator = None /\ op = [c \in Callers |-> NoOp] /\ cancels = {}
  /\ pending = [s \in Sessions |-> None] /\ isInvalidated = [s \in Sessions |-> FALSE]
  /\ fetch = [s \in Sessions |-> IF s = active THEN Asked ELSE Off]
  /\ excused = {} /\ acts = 0 /\ faults = 0

Act   == acts < MaxActs /\ acts' = acts + 1 /\ UNCHANGED faults
Fault == faults < MaxFaults /\ faults' = faults + 1 /\ UNCHANGED acts

LiveIn(s) == {t \in DOMAIN tasks : tasks[t].s = s /\ tasks[t].live}

(* GetPendingChatTask: the most recent task in flight. *)
Newest(s) == IF LiveIn(s) = {} THEN Idle ELSE CHOOSE t \in LiveIn(s) : \A u \in LiveIn(s) : u <= t

-----------------------------------------------------------------------------
(* What the code relies on of the query library.  The active session's     *)
(* query is the one with an observer.                                      *)

SetQueryData(s, value) ==
  /\ pending' = [pending EXCEPT ![s] = value]
  /\ isInvalidated' = [isInvalidated EXCEPT ![s] = FALSE]

(* invalidateQueries after value was written: fetched again when observed, *)
(* and a fetch that has data to fall back on is started over.              *)
SetAndInvalidate(s, value) ==
  /\ pending' = [pending EXCEPT ![s] = value]
  /\ isInvalidated' = [isInvalidated EXCEPT ![s] = TRUE]
  /\ fetch' = IF active = s /\ (value # None \/ fetch[s] = Off)
                THEN [fetch EXCEPT ![s] = Asked] ELSE fetch

Observed(s) ==
  IF s # None /\ fetch[s] = Off /\ (pending[s] = None \/ isInvalidated[s])
    THEN [fetch EXCEPT ![s] = Asked] ELSE fetch

HasRead(s) == fetch[s] \notin {Off, Asked}

FetchRead(s) ==
  /\ fetch[s] = Asked /\ fetch' = [fetch EXCEPT ![s] = Newest(s)]
  /\ UNCHANGED <<rows, unpublished, wire, shown, creator, op, cancels, pending, isInvalidated,
                 excused, acts, faults>>

FetchAnswer(s) ==
  /\ HasRead(s) /\ fetch' = [fetch EXCEPT ![s] = Off]
  /\ SetQueryData(s, fetch[s])
  /\ UNCHANGED <<rows, unpublished, wire, shown, creator, op, cancels, excused, acts, faults>>

-----------------------------------------------------------------------------
(* The server: a handler commits, then publishes.                          *)

Publishes(kind, t) == [kind |-> kind, t |-> t]

(* A queued row; parent is the failed task it retries, or 0. *)
QueuedRow(s, parent) == [s |-> s, live |-> TRUE, begun |-> FALSE, parent |-> parent]

(* SendChatMessage: the row, task:queued, chat:message, and the answer. *)
NewTask(s) ==
  LET t == Len(tasks) + 1 IN
  /\ t <= MaxTasks /\ owner[s] # None
  /\ tasks' = Append(tasks, QueuedRow(s, 0))
  /\ unpublished' = unpublished \cup {Publishes("queued", t), Publishes("message", t)}

(* The same user sends from another tab. *)
OtherSend(s) ==
  /\ Act /\ NewTask(s)
  /\ UNCHANGED <<owner, wire, shown, creator, op, cancels, query, excused>>

EndTask(t, kind) ==
  /\ t \in DOMAIN tasks /\ tasks[t].live
  /\ tasks' = [tasks EXCEPT ![t].live = FALSE]
  /\ unpublished' = unpublished \cup {Publishes(kind, t)}

(* A daemon claims a session's tasks one after the other, and works on the *)
(* one the claim's answer has brought it, after the claim has published.   *)
Claim(t) ==
  /\ tasks[t].live /\ ~tasks[t].begun /\ \A u \in LiveIn(tasks[t].s) : t <= u
  /\ tasks' = [tasks EXCEPT ![t].begun = TRUE]
  /\ unpublished' = unpublished \cup {Publishes("dispatch", t)}
  /\ UNCHANGED <<owner, wire, shown, creator, op, cancels, query, excused, acts, faults>>

(* CompleteTask and FailTask, as the daemon reports. *)
Finish(t) ==
  /\ tasks[t].begun /\ Publishes("dispatch", t) \notin unpublished
  /\ EndTask(t, "done") \/ EndTask(t, "failed")
  /\ UNCHANGED <<owner, wire, shown, creator, op, cancels, query, excused, acts, faults>>

(* A sweep or a recovery fails the row, begun or not (HandleFailedTasks).  *)
Sweep(t) ==
  /\ EndTask(t, "swept")
  /\ UNCHANGED <<owner, wire, shown, creator, op, cancels, query, excused, acts, faults>>

(* MaybeRetryFailedTask, before the failure is published: a task:queued    *)
(* that no chat:message follows.                                           *)
Retry(t) ==
  LET u == Len(tasks) + 1 IN
  /\ u <= MaxTasks /\ \A k \in DOMAIN tasks : tasks[k].parent # t
  /\ \E kind \in {"failed", "swept"} : Publishes(kind, t) \in unpublished
  /\ tasks' = Append(tasks, QueuedRow(tasks[t].s, t))
  /\ unpublished' = unpublished \cup {Publishes("queued", u)}
  /\ UNCHANGED <<owner, wire, shown, creator, op, cancels, query, excused, acts, faults>>

OtherCancel(t) ==
  /\ Act /\ EndTask(t, "cancelled")
  /\ UNCHANGED <<owner, wire, shown, creator, op, cancels, query, excused>>

(* A task:queued comes before the chat:message of its task, and before the *)
(* failure of the task it retries.                                         *)
Publish(e) ==
  /\ e \in unpublished /\ Len(wire) < MaxWire
  /\ e.kind = "message" => Publishes("queued", e.t) \notin unpublished
  /\ e.kind \in {"failed", "swept"} =>
       \A k \in DOMAIN tasks : tasks[k].parent = e.t => Publishes("queued", k) \notin unpublished
  /\ unpublished' = unpublished \ {e} /\ wire' = Append(wire, e)
  /\ UNCHANGED <<rows, shown, creator, op, cancels, query, excused, acts, faults>>

-----------------------------------------------------------------------------
(* use-realtime-sync: task:queued, chat:message, task:dispatch, then       *)
(* chat:done with task:completed, task:failed, and task:cancelled.         *)

Excuse(s, unless) == excused' = IF unless THEN excused ELSE excused \cup {s}

OnQueued(s, t) == SetQueryData(s, t) /\ UNCHANGED <<fetch, excused>>

(* A fetch that has read before, of a session shown no longer, is not      *)
(* started over, and when it ends the mark is gone.                        *)
OnMessage(s) == SetAndInvalidate(s, pending[s]) /\ Excuse(s, active = s \/ ~HasRead(s))

(* The entry is written as it was, which clears a mark that no fetch has   *)
(* answered yet.                                                           *)
OnDispatch(s) ==
  /\ isInvalidated' = [isInvalidated EXCEPT ![s] = @ /\ pending[s] = None]
  /\ Excuse(s, isInvalidated'[s] = isInvalidated[s] \/ fetch[s] # Off \/ pending[s] = Newest(s))
  /\ UNCHANGED <<pending, fetch>>

OnDoneQuietly(s) == SetQueryData(s, Idle) /\ UNCHANGED <<fetch, excused>>
OnDone(s) == SetAndInvalidate(s, Idle) /\ Excuse(s, active = s \/ ~HasRead(s))

(* task:failed without chat_session_id: the handler returns, and what is   *)
(* out of date then stays so, unless a fetch or a send is yet to write it. *)
OnSwept(s) ==
  /\ UNCHANGED query
  /\ Excuse(s, /\ fetch[s] \in {Off, Asked, Newest(s)}
               /\ \/ fetch[s] # Off \/ pending[s] \in {None, Newest(s)}
                  \/ isInvalidated[s] /\ active # s
                  \/ \E c \in Callers : op[c].pc \in {"post", "answer"} /\ op[c].s = s)

(* Nothing is fetched: a fetch that has read the task, and another task of *)
(* the session, are not thought of.                                        *)
OnCancelled(s) ==
  SetQueryData(s, Idle) /\ UNCHANGED fetch /\ Excuse(s, ~HasRead(s) /\ LiveIn(s) = {})

Deliver ==
  LET e == Head(wire)  s == tasks[e.t].s IN
  /\ wire # <<>> /\ wire' = Tail(wire)
  /\ \/ e.kind = "queued" /\ OnQueued(s, e.t)
     \/ e.kind = "message" /\ OnMessage(s)
     \/ e.kind = "dispatch" /\ OnDispatch(s)
     \/ e.kind \in {"done", "failed"} /\ OnDone(s)
     \/ e.kind = "swept" /\ OnSwept(s)
     \/ e.kind = "cancelled" /\ OnCancelled(s)
  /\ UNCHANGED <<rows, unpublished, shown, creator, op, cancels, acts, faults>>

-----------------------------------------------------------------------------
(* handleSend and handleUploadFile, with ensureSession.                    *)

Running == active # None /\ pending[active] \notin {None, Idle}

(* The input waits for uploads; the prompts of an empty chat do not. *)
Empty == active = None \/ \A t \in DOMAIN tasks : tasks[t].s # active
MaySend == ~Running /\ ((\E c \in Uploaders : op[c].pc # "idle") => Empty)

(* The burst of a send that has its session: seed the entry and post. *)
Posting(s) == [NoOp EXCEPT !.pc = "post", !.s = s]

EnsureEach(c) ==
  /\ active = None /\ creator' = c
  /\ op' = [op EXCEPT ![c] = [NoOp EXCEPT !.pc = "create", !.agent = selected]]

EnsureSession(c) ==
  /\ active = None
  /\ \/ /\ creator = None /\ creator' = c
        /\ op' = [op EXCEPT ![c] = [NoOp EXCEPT !.pc = "create", !.agent = selected]]
     \/ /\ creator # None /\ UNCHANGED creator
        /\ op' = [op EXCEPT ![c] = [NoOp EXCEPT !.pc = "wait", !.on = creator]]

HandleSend(c) ==
  /\ Act /\ op[c].pc = "idle" /\ MaySend
  /\ \/ EnsureSession(c) /\ UNCHANGED query
     \/ /\ active # None /\ SetQueryData(active, Optimistic)
        /\ op' = [op EXCEPT ![c] = Posting(active)] /\ UNCHANGED <<creator, fetch>>
  /\ UNCHANGED <<rows, unpublished, wire, shown, cancels, excused>>

HandleUploadFile(c) ==
  /\ Act /\ op[c].pc = "idle" /\ EnsureSession(c)
  /\ UNCHANGED <<rows, unpublished, wire, shown, cancels, query, excused>>

(* The calls that go on when the promise of c settles. *)
Released(c) == {d \in Callers : d = c \/ (op[d].pc = "wait" /\ op[d].on = c)}

(* createSession answers: its session is shown, and the sends go on.  The  *)
(* first render may ask for the entry before or after the seed.            *)
SessionCreated(c, s) ==
  LET sends == Released(c) \cap Senders IN
  /\ op[c].pc = "create" /\ owner[s] = None
  /\ owner' = [owner EXCEPT ![s] = op[c].agent]
  /\ active' = s /\ creator' = None
  /\ op' = [d \in Callers |-> IF d \in sends THEN Posting(s)
                              ELSE IF d \in Released(c) THEN NoOp ELSE op[d]]
  /\ IF sends # {} THEN SetQueryData(s, Optimistic) ELSE UNCHANGED <<pending, isInvalidated>>
  /\ fetch' \in {Observed(s)} \cup (IF sends # {} THEN {fetch} ELSE {})
  /\ UNCHANGED <<tasks, unpublished, wire, selected, cancels, excused, acts, faults>>

CreateFailsAlone(c) ==
  /\ op[c].pc = "create" /\ Fault /\ creator' = None /\ op' = [op EXCEPT ![c] = NoOp]
  /\ UNCHANGED <<rows, unpublished, wire, shown, cancels, query, excused>>

CreateFails(c) ==
  /\ op[c].pc = "create" /\ Fault /\ creator' = None
  /\ op' = [d \in Callers |-> IF d \in Released(c) THEN NoOp ELSE op[d]]
  /\ UNCHANGED <<rows, unpublished, wire, shown, cancels, query, excused>>

SendArrives(c) ==
  /\ op[c].pc = "post" /\ NewTask(op[c].s)
  /\ op' = [op EXCEPT ![c].pc = "answer", ![c].t = Len(tasks) + 1]
  /\ UNCHANGED <<owner, wire, shown, creator, cancels, query, excused, acts, faults>>

(* The await throws, and the seed stays. *)
SendFails(c) ==
  /\ op[c].pc = "post" /\ Fault
  /\ op' = [op EXCEPT ![c] = NoOp] /\ excused' = excused \cup {op[c].s}
  /\ UNCHANGED <<rows, unpublished, wire, shown, creator, cancels, query>>

(* The answer's task replaces the seed, whatever has become of both. *)
SendAnswered(c) ==
  LET s == op[c].s  t == op[c].t IN
  /\ op[c].pc = "answer" /\ \A e \in unpublished : e.t = t => e.kind \notin {"queued", "message"}
  /\ op' = [op EXCEPT ![c] = NoOp] /\ SetQueryData(s, t)
  /\ Excuse(s, t = Newest(s))
  /\ UNCHANGED <<rows, unpublished, wire, shown, creator, cancels, fetch, acts, faults>>

-----------------------------------------------------------------------------
(* The rest of the window.                                                 *)

HandleStop ==
  /\ Act /\ Running /\ SetQueryData(active, Idle)
  /\ cancels' = IF pending[active] = Optimistic THEN cancels ELSE cancels \cup {pending[active]}
  /\ UNCHANGED <<rows, unpublished, wire, shown, creator, op, fetch, excused>>

CancelArrives(t) ==
  /\ t \in cancels /\ cancels' = cancels \ {t}
  /\ \/ EndTask(t, "cancelled") /\ UNCHANGED <<acts, faults, excused>>
     \/ ~tasks[t].live /\ UNCHANGED <<tasks, unpublished, acts, faults, excused>>
     \/ Fault /\ excused' = excused \cup {tasks[t].s} /\ UNCHANGED <<tasks, unpublished>>
  /\ UNCHANGED <<owner, wire, shown, creator, op, query>>

HandleSelectAgent(a) ==
  /\ Act /\ a # selected /\ selected' = a /\ active' = None
  /\ UNCHANGED <<rows, unpublished, wire, creator, op, cancels, query, excused>>

HandleNewChat ==
  /\ Act /\ active # None /\ active' = None
  /\ UNCHANGED <<rows, unpublished, wire, selected, creator, op, cancels, query, excused>>

HandleSelectSession(s) ==
  /\ Act /\ owner[s] # None /\ s # active
  /\ active' = s /\ selected' = owner[s] /\ fetch' = Observed(s)
  /\ UNCHANGED <<rows, unpublished, wire, creator, op, cancels, pending, isInvalidated, excused>>

Next ==
  \/ \E s \in Sessions : FetchRead(s) \/ FetchAnswer(s) \/ OtherSend(s) \/ HandleSelectSession(s)
  \/ \E t \in DOMAIN tasks : Claim(t) \/ Finish(t) \/ Sweep(t) \/ Retry(t)
  \/ \E t \in DOMAIN tasks : OtherCancel(t) \/ CancelArrives(t)
  \/ \E e \in unpublished : Publish(e)
  \/ Deliver
  \/ \E c \in Senders : HandleSend(c) \/ SendArrives(c) \/ SendFails(c) \/ SendAnswered(c)
  \/ \E c \in Uploaders : HandleUploadFile(c)
  \/ \E c \in Callers : CreateFails(c) \/ \E s \in Sessions : SessionCreated(c, s)
  \/ HandleStop \/ HandleNewChat
  \/ \E a \in Agents : HandleSelectAgent(a)

Spec == Init /\ [][Next]_vars

-----------------------------------------------------------------------------
Entries == {Idle} \cup (1..MaxTasks)

(* Every variable has its type; who waits, waits for a call that creates.  *)
TypeOK ==
  /\ owner \in [Sessions -> Agents \cup {None}] /\ Len(tasks) <= MaxTasks
  /\ selected \in Agents /\ active \in {None} \cup {s \in Sessions : owner[s] # None}
  /\ pending \in [Sessions -> Entries \cup {None, Optimistic}]
  /\ \A s \in Sessions : fetch[s] \in {Off, Asked} \cup Entries
  /\ isInvalidated \in [Sessions -> BOOLEAN] /\ excused \subseteq Sessions
  /\ \A c \in Callers : op[c].pc = "wait" => op[op[c].on].pc = "create"

(* A file dropped and a message sent before there is a session share one:  *)
(* never are two created at a time (ensureSession).                        *)
OneCreation ==
  \A c, d \in Callers : op[c].pc = "create" /\ op[d].pc = "create" => c = d /\ creator = c

Settled(s) ==
  /\ fetch[s] = Off /\ \A c \in Callers : op[c].s # s
  /\ \A t \in DOMAIN tasks : tasks[t].s = s =>
       /\ t \notin cancels /\ \A e \in unpublished : e.t # t
       /\ \A k \in DOMAIN wire : wire[k].t # t

(* When nothing is on its way for a session, the pill and the lock of the  *)
(* input say what the database says, whichever of the writes came last.    *)
(* The exceptions are the ones the actions name: a request that failed, an *)
(* answer that its task's end has overtaken, a cancellation that met a     *)
(* fetch or another task, an entry out of date whose mark a dispatch has   *)
(* cleared before the session is shown again, and an entry, or a fetch     *)
(* that has read, out of date when the failure by a sweep is heard of.     *)
PillIsTrue ==
  \A s \in Sessions \ excused :
    Settled(s) /\ pending[s] # None /\ (isInvalidated[s] => active = s) => pending[s] = Newest(s)

(* What use-realtime-sync says of task:failed among the events that have   *)
(* the entry fetched, so that the database remains authoritative: once     *)
(* nothing is on its way, no entry that is not to be fetched again shows a *)
(* task that has ended.                                                    *)
NoEndedTask ==
  \A s \in Sessions :
    Settled(s) /\ pending[s] \in DOMAIN tasks /\ (isInvalidated[s] => active = s)
      => tasks[pending[s]].live

(* What handleSelectSession says: a session is bound to one agent, and the *)
(* agent shown is that of the session shown.                               *)
AgentOfSession == active # None => selected = owner[active]
=============================================================================
