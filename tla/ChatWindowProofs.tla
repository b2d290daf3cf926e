--------------------------- MODULE ChatWindowProofs ---------------------------
(***************************************************************************)
(* Proofs about ChatWindow, for any number of calls, sessions, agents,     *)
(* tasks and failures: sends and uploads that need a session share one,    *)
(* and none of them waits for a creation that is over; every variable      *)
(* keeps its type; and the pill and the lock of the input say what the     *)
(* database says when nothing is on its way.                               *)
(***************************************************************************)
EXTENDS ChatWindow, SequenceTheorems, FiniteSetTheorems, TLAPS

OpPcs == {"idle", "create", "wait", "post", "answer"}

Rows == [s : Sessions, live : BOOLEAN, begun : BOOLEAN, parent : Nat]

(* How a task ends. *)
Ends == {"done", "failed", "swept", "cancelled"}

Calls == [pc : OpPcs, agent : Agents \cup {None}, on : Callers \cup {None},
          s : Sessions \cup {None}, t : Nat \cup {Idle}]

Typed ==
  /\ selected \in Agents /\ active \in Sessions \cup {None}
  /\ tasks \in Seq(Rows)
  /\ owner \in [Sessions -> Agents \cup {None}]
  /\ creator \in Callers \cup {None} /\ op \in [Callers -> Calls]
  /\ \A c \in Callers : op[c].pc = "post" => op[c].s \in Sessions

(* sessionPromiseRef is the call that creates, and nobody waits for a call *)
(* that is not that one.                                                   *)
CreatorCreates == \A c \in Callers : op[c].pc = "create" <=> creator = c
WaitersWait    == \A c \in Callers : op[c].pc = "wait" => op[c].on = creator /\ creator # None

CreationInv == Typed /\ CreatorCreates /\ WaitersWait

-----------------------------------------------------------------------------
LEMMA NoOpTyped == NoOp \in Calls /\ NoOp.pc = "idle"
BY DEF NoOp, Calls, OpPcs

LEMMA PostingTyped == ASSUME NEW s \in Sessions PROVE Posting(s) \in Calls /\ Posting(s).pc = "post" /\ Posting(s).s = s
BY DEF Posting, NoOp, Calls, OpPcs

(* The steps that leave the window's calls alone. *)
LEMMA AsideKeeps ==
  ASSUME CreationInv, UNCHANGED <<creator, op, owner>>, selected' \in Agents,
         active' \in Sessions \cup {None}, tasks' \in Seq(Rows)
  PROVE  CreationInv'
BY DEF CreationInv, Typed, CreatorCreates, WaitersWait

(* A call that neither creates nor waits, and goes on to something else    *)
(* that does neither.                                                      *)
LEMMA PlainMoveKeeps ==
  ASSUME CreationInv, NEW c \in Callers, op[c].pc \notin {"create", "wait"},
         NEW r \in Calls, r.pc \notin {"create", "wait"}, r.pc = "post" => r.s \in Sessions,
         op' = [op EXCEPT ![c] = r], UNCHANGED <<creator, selected, active, owner>>,
         tasks' \in Seq(Rows)
  PROVE  CreationInv'
BY DEF CreationInv, Typed, CreatorCreates, WaitersWait

LEMMA EnsureSessionKeeps ==
  ASSUME CreationInv, ChatAssumption, NEW c \in Callers, op[c].pc = "idle", EnsureSession(c),
         UNCHANGED <<selected, active, tasks, owner>>
  PROVE  CreationInv'
<1>1. None \notin Callers
  BY DEF ChatAssumption
<1>2. CASE creator = None
  <2> DEFINE r == [NoOp EXCEPT !.pc = "create", !.agent = selected]
  <2>1. r \in Calls /\ r.pc = "create"
    BY DEF NoOp, Calls, OpPcs, CreationInv, Typed
  <2>2. op' = [op EXCEPT ![c] = r] /\ creator' = c
    BY <1>2 DEF EnsureSession
  <2> HIDE DEF r
  <2> QED BY <1>1, <1>2, <2>1, <2>2 DEF CreationInv, Typed, CreatorCreates, WaitersWait
<1>3. CASE creator # None
  <2> DEFINE r == [NoOp EXCEPT !.pc = "wait", !.on = creator]
  <2>1. r \in Calls /\ r.pc = "wait" /\ r.on = creator
    BY <1>3 DEF NoOp, Calls, OpPcs, CreationInv, Typed
  <2>2. op' = [op EXCEPT ![c] = r] /\ creator' = creator
    BY <1>3 DEF EnsureSession
  <2> HIDE DEF r
  <2> QED BY <1>1, <1>3, <2>1, <2>2 DEF CreationInv, Typed, CreatorCreates, WaitersWait
<1> QED BY <1>2, <1>3

(* The creation ends: everyone who waits, waits for it, and is released to *)
(* a place that neither creates nor waits.                                 *)
LEMMA ReleaseKeeps ==
  ASSUME CreationInv, ChatAssumption, NEW c \in Callers, op[c].pc = "create", creator' = None,
         op' \in [Callers -> Calls],
         \A d \in Callers : IF d \in Released(c)
                             THEN /\ op'[d].pc \notin {"create", "wait"}
                                  /\ op'[d].pc = "post" => op'[d].s \in Sessions
                             ELSE op'[d] = op[d],
         owner' \in [Sessions -> Agents \cup {None}],
         selected' \in Agents, active' \in Sessions \cup {None}, UNCHANGED tasks
  PROVE  CreationInv'
<1>1. None \notin Callers /\ creator = c
  BY DEF ChatAssumption, CreationInv, CreatorCreates
<1>2. \A d \in Callers : op[d].pc \in {"create", "wait"} => d \in Released(c)
  BY <1>1 DEF CreationInv, CreatorCreates, WaitersWait, Released
<1>3. \A d \in Callers : op'[d].pc \notin {"create", "wait"}
  BY <1>2
<1> QED BY <1>1, <1>3 DEF CreationInv, Typed, CreatorCreates, WaitersWait

LEMMA TasksTyped ==
  ASSUME CreationInv, NEW s \in Sessions,
         \/ NewTask(s)
         \/ \E t \in DOMAIN tasks : Claim(t) \/ Retry(t) \/ \E kind \in Ends : EndTask(t, kind)
  PROVE  tasks' \in Seq(Rows)
<1>1. ASSUME NEW x \in Sessions, NEW p \in Nat, tasks' = Append(tasks, QueuedRow(x, p))
      PROVE  tasks' \in Seq(Rows)
  <2>1. QueuedRow(x, p) \in Rows
    BY DEF Rows, QueuedRow
  <2> QED BY <1>1, <2>1 DEF CreationInv, Typed
<1>2. ASSUME NEW t \in DOMAIN tasks
      PROVE  t \in Nat /\ tasks[t] \in Rows
  <2>1. tasks \in Seq(Rows) /\ t \in 1..Len(tasks)
    BY DEF CreationInv, Typed
  <2> QED BY <2>1, ElementOfSeq
<1>3. CASE NewTask(s)
  BY <1>1, <1>3 DEF NewTask
<1>4. ASSUME NEW t \in DOMAIN tasks, Retry(t) PROVE tasks' \in Seq(Rows)
  <2>1. tasks[t].s \in Sessions /\ t \in Nat
    BY <1>2 DEF Rows
  <2> QED BY <1>1, <1>4, <2>1 DEF Retry
<1>5. ASSUME NEW t \in DOMAIN tasks, Claim(t) \/ \E kind \in Ends : EndTask(t, kind)
      PROVE  tasks' \in Seq(Rows)
  <2>1. tasks \in Seq(Rows) /\ t \in 1..Len(tasks) /\ tasks[t] \in Rows
    BY <1>2 DEF CreationInv, Typed
  <2>2. PICK r \in Rows : tasks' = [tasks EXCEPT ![t] = r]
    <3>1. [tasks[t] EXCEPT !.live = FALSE] \in Rows /\ [tasks[t] EXCEPT !.begun = TRUE] \in Rows
      BY <2>1 DEF Rows
    <3>2. \/ tasks' = [tasks EXCEPT ![t] = [tasks[t] EXCEPT !.live = FALSE]]
          \/ tasks' = [tasks EXCEPT ![t] = [tasks[t] EXCEPT !.begun = TRUE]]
      BY <1>5, <2>1 DEF EndTask, Claim
    <3> QED BY <3>1, <3>2
  <2> QED BY <2>1, <2>2, ExceptSeq
<1> QED BY <1>3, <1>4, <1>5

-----------------------------------------------------------------------------
(* The steps of the server, the query library and the socket. *)
ServerTask(t) ==
  Claim(t) \/ Finish(t) \/ Sweep(t) \/ Retry(t) \/ OtherCancel(t) \/ CancelArrives(t)

LEMMA ServerKeeps ==
  ASSUME CreationInv, NEW s \in Sessions,
         \/ FetchRead(s) \/ FetchAnswer(s) \/ OtherSend(s) \/ Deliver
         \/ \E e \in unpublished : Publish(e)
         \/ \E t \in DOMAIN tasks : ServerTask(t)
  PROVE  CreationInv'
<1>1. UNCHANGED <<creator, op, shown, owner>>
  BY DEF ServerTask, FetchRead, FetchAnswer, OtherSend, Deliver, Publish, Claim, Finish, Sweep, Retry, OtherCancel,
         CancelArrives, rows
<1>2. tasks' \in Seq(Rows)
  <2>1. CASE UNCHANGED tasks
    BY <2>1 DEF CreationInv, Typed
  <2>2. CASE OtherSend(s)
    BY <2>2, TasksTyped DEF OtherSend
  <2>3. ASSUME NEW t \in DOMAIN tasks,
               ServerTask(t),
               ~UNCHANGED tasks
        PROVE  tasks' \in Seq(Rows)
    <3>1. Claim(t) \/ Retry(t) \/ \E kind \in Ends : EndTask(t, kind)
      BY <2>3 DEF ServerTask, Finish, Sweep, OtherCancel, CancelArrives, Ends
    <3> QED BY <3>1, TasksTyped
  <2> QED BY <2>1, <2>2, <2>3 DEF FetchRead, FetchAnswer, Deliver, Publish, rows
<1> QED BY <1>1, <1>2, AsideKeeps DEF shown, CreationInv, Typed

(* The steps of the window that no call is part of. *)
LEMMA WindowKeeps ==
  ASSUME CreationInv, ChatAssumption,
         \/ HandleStop \/ HandleNewChat \/ (\E a \in Agents : HandleSelectAgent(a))
         \/ \E s \in Sessions : HandleSelectSession(s)
  PROVE  CreationInv'
<1>1. UNCHANGED <<creator, op, tasks, owner>>
  BY DEF HandleStop, HandleNewChat, HandleSelectAgent, HandleSelectSession, rows
<1>2. selected' \in Agents /\ active' \in Sessions \cup {None}
  BY DEF HandleStop, HandleNewChat, HandleSelectAgent, HandleSelectSession, shown, CreationInv, Typed
<1> QED BY <1>1, <1>2, AsideKeeps DEF CreationInv, Typed

LEMMA CallKeeps ==
  ASSUME CreationInv, ChatAssumption, NEW c \in Callers,
         \/ HandleSend(c) \/ HandleUploadFile(c) \/ SendArrives(c) \/ SendFails(c)
         \/ SendAnswered(c) \/ CreateFails(c) \/ \E s \in Sessions : SessionCreated(c, s)
  PROVE  CreationInv'
<1>1. CASE HandleSend(c)
  <2>1. op[c].pc = "idle" /\ UNCHANGED <<tasks, selected, active, owner>>
    BY <1>1 DEF HandleSend, rows, shown
  <2>2. CASE EnsureSession(c)
    BY <2>1, <2>2, EnsureSessionKeeps
  <2>3. CASE active # None /\ op' = [op EXCEPT ![c] = Posting(active)] /\ UNCHANGED creator
    <3>1. active \in Sessions /\ tasks' \in Seq(Rows)
      BY <2>1, <2>3 DEF CreationInv, Typed
    <3>2. Posting(active) \in Calls /\ Posting(active).pc = "post" /\ Posting(active).s = active
      BY <3>1, PostingTyped
    <3> QED BY <2>1, <2>3, <3>1, <3>2, PlainMoveKeeps
  <2> QED BY <1>1, <2>2, <2>3 DEF HandleSend
<1>2. CASE HandleUploadFile(c)
  BY <1>2, EnsureSessionKeeps DEF HandleUploadFile, rows, shown
<1>3. CASE SendArrives(c)
  <2> DEFINE r == [op[c] EXCEPT !.pc = "answer", !.t = Len(tasks) + 1]
  <2>1. r \in Calls /\ r.pc = "answer"
    <3>1. op[c] \in Calls /\ Len(tasks) + 1 \in Nat
      BY DEF CreationInv, Typed
    <3> QED BY <3>1 DEF Calls, OpPcs
  <2>3. op' = [op EXCEPT ![c] = r]
    BY <1>3 DEF SendArrives, CreationInv, Typed
  <2>2. tasks' \in Seq(Rows)
    <3>1. PICK s : s = op[c].s /\ NewTask(s)
      BY <1>3 DEF SendArrives
    <3>2. s \in Sessions
      BY <1>3, <3>1 DEF SendArrives, CreationInv, Typed
    <3> QED BY <3>1, <3>2, TasksTyped
  <2> HIDE DEF r
  <2>4. op[c].pc = "post" /\ UNCHANGED <<creator, selected, active, owner>>
    BY <1>3 DEF SendArrives, shown
  <2> QED BY <2>1, <2>2, <2>3, <2>4, PlainMoveKeeps
<1>4. CASE SendFails(c) \/ SendAnswered(c)
  BY <1>4, NoOpTyped, PlainMoveKeeps DEF SendFails, SendAnswered, rows, shown, CreationInv, Typed
<1>5. CASE CreateFails(c)
  <2>1. /\ op' \in [Callers -> Calls]
        /\ \A d \in Callers : IF d \in Released(c)
                               THEN /\ op'[d].pc \notin {"create", "wait"}
                                    /\ op'[d].pc = "post" => op'[d].s \in Sessions
                               ELSE op'[d] = op[d]
    BY <1>5, NoOpTyped DEF CreateFails, CreationInv, Typed
  <2> QED BY <1>5, <2>1, ReleaseKeeps DEF CreateFails, rows, shown, CreationInv, Typed
<1>6. ASSUME NEW s \in Sessions, SessionCreated(c, s) PROVE CreationInv'
  <2>1. /\ op' \in [Callers -> Calls]
        /\ \A d \in Callers : IF d \in Released(c)
                               THEN /\ op'[d].pc \notin {"create", "wait"}
                                    /\ op'[d].pc = "post" => op'[d].s \in Sessions
                               ELSE op'[d] = op[d]
    BY <1>6, NoOpTyped, PostingTyped DEF SessionCreated, CreationInv, Typed
  <2>2. owner' \in [Sessions -> Agents \cup {None}]
    BY <1>6 DEF SessionCreated, CreationInv, Typed, Calls
  <2> QED BY <1>6, <2>1, <2>2, ReleaseKeeps DEF SessionCreated, CreationInv, Typed
<1> QED BY <1>1, <1>2, <1>3, <1>4, <1>5, <1>6

-----------------------------------------------------------------------------
LEMMA InitHolds == ASSUME Init, ChatAssumption PROVE CreationInv
<1>1. Typed
  <2>1. tasks \in Seq(Rows)
    BY DEF Init
  <2> QED BY <2>1, NoOpTyped DEF Init, ChatAssumption, Typed
<1> QED BY <1>1, NoOpTyped DEF Init, ChatAssumption, CreationInv, CreatorCreates, WaitersWait

LEMMA StepKeeps == ASSUME CreationInv, [Next]_vars PROVE CreationInv'
<1>1. CASE UNCHANGED vars
  BY <1>1 DEF vars, rows, shown, CreationInv, Typed, CreatorCreates, WaitersWait
<1>2. CASE Next
  <2>1. CASE \E c \in Callers :
               \/ HandleSend(c) \/ HandleUploadFile(c) \/ SendArrives(c) \/ SendFails(c)
               \/ SendAnswered(c) \/ CreateFails(c) \/ \E s \in Sessions : SessionCreated(c, s)
    BY <2>1, CallKeeps, ChatAssumption
  <2>2. CASE \/ HandleStop \/ HandleNewChat \/ (\E a \in Agents : HandleSelectAgent(a))
             \/ \E s \in Sessions : HandleSelectSession(s)
    BY <2>2, WindowKeeps, ChatAssumption
  <2>3. CASE \/ Deliver \/ (\E e \in unpublished : Publish(e))
             \/ (\E t \in DOMAIN tasks : ServerTask(t))
             \/ \E s \in Sessions : FetchRead(s) \/ FetchAnswer(s) \/ OtherSend(s)
    <3>1. First \in Sessions
      BY ChatAssumption DEF ChatAssumption
    <3> QED BY <2>3, <3>1, ServerKeeps
  <2> QED BY <1>2, <2>1, <2>2, <2>3 DEF Next, Callers, ServerTask
<1> QED BY <1>1, <1>2

(* A file dropped and a message sent before there is a session share one:  *)
(* at no time do two calls create one (ensureSession), for any number of   *)
(* calls, sessions, agents and failures.                                   *)
THEOREM CreationIsShared == Spec => []OneCreation
<1>1. Init => CreationInv
  BY InitHolds, ChatAssumption
<1>2. CreationInv /\ [Next]_vars => CreationInv'
  BY StepKeeps
<1>3. CreationInv => OneCreation
  BY DEF CreationInv, CreatorCreates, OneCreation
<1> QED BY <1>1, <1>2, <1>3, PTL DEF Spec

(* Whoever waits for a session waits for a call that is creating it: a     *)
(* creation that fails or answers leaves nobody behind (ensureSession).    *)
THEOREM NobodyIsLeftWaiting ==
  Spec => [](\A c \in Callers : op[c].pc = "wait" =>
               op[c].on \in Callers /\ op[op[c].on].pc = "create")
<1> DEFINE Waits == \A c \in Callers : op[c].pc = "wait" =>
                      op[c].on \in Callers /\ op[op[c].on].pc = "create"
<1>1. Init => CreationInv
  BY InitHolds, ChatAssumption
<1>2. CreationInv /\ [Next]_vars => CreationInv'
  BY StepKeeps
<1>3. CreationInv => Waits
  BY DEF CreationInv, Typed, CreatorCreates, WaitersWait
<1> QED BY <1>1, <1>2, <1>3, PTL DEF Spec

-----------------------------------------------------------------------------
(* The pill.  What corrects an entry that is out of date is on its way: an *)
(* event that writes it or has it fetched, an answer or a fetch that       *)
(* writes it, or a cancellation that will publish one; or it is the event  *)
(* of a sweep, which leaves the entry right or has it excused.             *)
Kinds  == {"queued", "message", "dispatch", "done", "failed", "swept", "cancelled"}
Events == [kind : Kinds, t : Nat]
Flying == unpublished \cup {wire[k] : k \in DOMAIN wire}

Fixes(e)      == e.kind \in {"message", "done", "failed", "swept", "cancelled"}
Coming(s)     == \E e \in Flying : Fixes(e) /\ tasks[e.t].s = s
Sending(s)    == \E c \in Callers : op[c].pc \in {"post", "answer"} /\ op[c].s = s
Cancelling(s) == \E t \in cancels : tasks[t].s = s /\ tasks[t].live

EntryRight(s) == pending[s] \in {None, Newest(s)} \/ (isInvalidated[s] /\ active # s)

(* A fetch that has read carries what the database says, unless an event   *)
(* is coming that has it started over.                                     *)
FetchTrue(s) == HasRead(s) => fetch[s] = Newest(s) \/ Coming(s)

EntryTrue(s) == Coming(s) \/ Sending(s) \/ Cancelling(s) \/ fetch[s] # Off \/ EntryRight(s)

Truth(s) == s \in excused \/ (FetchTrue(s) /\ EntryTrue(s))

(* What follows the task:queued of a task: its message, and for a retry    *)
(* the failure it retries.                                                 *)
Behind(t, u) == IF u[t].parent = 0 THEN {Publishes("message", t)}
                ELSE {Publishes("failed", u[t].parent), Publishes("swept", u[t].parent)}

(* A task:queued has that behind it; it gives the session an entry before  *)
(* the message comes.                                                      *)
Orderly ==
  /\ \A e \in unpublished :
       /\ e.kind = "queued" => \E f \in Behind(e.t, tasks) : f \in unpublished
       /\ e.kind = "message" => \/ pending[tasks[e.t].s] # None
                                \/ Publishes("queued", e.t) \in Flying
  /\ \A k \in DOMAIN wire :
       /\ wire[k].kind = "queued" =>
            \E f \in Behind(wire[k].t, tasks) : \/ f \in unpublished
                                         \/ \E m \in DOMAIN wire : k < m /\ wire[m] = f
       /\ wire[k].kind = "message" => \/ pending[tasks[wire[k].t].s] # None
                                      \/ \E m \in DOMAIN wire : m < k /\ wire[m] = Publishes("queued", wire[k].t)

(* A retry is of its parent's session. *)
Parents(u) == \A t \in DOMAIN u :
  u[t].parent # 0 => u[t].parent \in DOMAIN u /\ u[u[t].parent].s = u[t].s

RowsTyped ==
  /\ Len(tasks) <= MaxTasks /\ Parents(tasks) /\ excused \subseteq Sessions
  /\ active # None => owner[active] # None

QueryTyped ==
  /\ pending \in [Sessions -> {None, Optimistic, Idle} \cup DOMAIN tasks]
  /\ fetch \in [Sessions -> {Off, Asked, Idle} \cup DOMAIN tasks]
  /\ isInvalidated \in [Sessions -> BOOLEAN]

EventsTyped ==
  /\ unpublished \subseteq Events /\ wire \in Seq(Events)
  /\ \A e \in Flying : e.t \in DOMAIN tasks

CallsTyped ==
  /\ cancels \subseteq DOMAIN tasks
  /\ \A c \in Callers : op[c].pc \in {"post", "answer"} => op[c].s \in Sessions
  /\ \A c \in Callers : op[c].pc = "answer" => op[c].t \in DOMAIN tasks
  /\ \A c \in Callers : op[c].pc = "create" => op[c].agent \in Agents

PillTyped == CreationInv /\ RowsTyped /\ QueryTyped /\ EventsTyped /\ CallsTyped

PillInv == PillTyped /\ Orderly /\ \A s \in Sessions : Truth(s)

-----------------------------------------------------------------------------
(* The marks of an entry are no two alike, and none is a task.             *)
LEMMA OneMore ==
  ASSUME NEW S, IsFiniteSet(S), NEW n \in Nat, Cardinality(S) <= n, NEW x, NEW T, T = S \cup {x}
  PROVE  IsFiniteSet(T) /\ Cardinality(T) <= n + 1
<1>1. Cardinality(S) \in Nat
  BY FS_CardinalityType
<1>2. CASE x \in S
  <2>1. T = S
    BY <1>2
  <2>2. Cardinality(T) = Cardinality(S) /\ IsFiniteSet(T)
    BY <2>1, Zenon
  <2> QED BY <1>1, <2>2
<1>3. CASE x \notin S
  BY <1>1, <1>3, FS_AddElement
<1> QED BY <1>2, <1>3

LEMMA FiveDiffer ==
  ASSUME NEW a, NEW b, NEW c, NEW d, NEW e, Cardinality({a, b, c, d, e}) = 5
  PROVE  a # b
<1> SUFFICES ASSUME a = b PROVE FALSE
  OBVIOUS
<1>1. IsFiniteSet({}) /\ Cardinality({}) <= 0
  BY FS_EmptySet
<1> DEFINE S1 == {} \cup {b}  S2 == S1 \cup {c}  S3 == S2 \cup {d}  S4 == S3 \cup {e}
<1>2. Cardinality(S4) = 5
  <2>1. {a, b, c, d, e} = S4
    OBVIOUS
  <2> QED BY <2>1
<1>3. IsFiniteSet(S1) /\ Cardinality(S1) <= 1
  <2>1. IsFiniteSet(S1) /\ Cardinality(S1) <= 0 + 1
    BY <1>1, OneMore
  <2> QED BY <2>1
<1> HIDE DEF S1
<1>4. IsFiniteSet(S2) /\ Cardinality(S2) <= 2
  <2>1. IsFiniteSet(S2) /\ Cardinality(S2) <= 1 + 1
    BY <1>3, OneMore
  <2> QED BY <2>1
<1> HIDE DEF S2
<1>5. IsFiniteSet(S3) /\ Cardinality(S3) <= 3
  <2>1. IsFiniteSet(S3) /\ Cardinality(S3) <= 2 + 1
    BY <1>4, OneMore
  <2> QED BY <2>1
<1> HIDE DEF S3
<1>6. Cardinality(S4) <= 3 + 1
  BY <1>5, OneMore
<1> HIDE DEF S4
<1> QED BY <1>2, <1>6

LEMMA MarksDiffer ==
  /\ Idle \notin {None, Optimistic, Off, Asked} /\ Off \notin {None, Optimistic, Asked}
  /\ Asked \notin {None, Optimistic} /\ None # Optimistic
  /\ \A n \in Nat : n \notin {None, Idle, Optimistic, Off, Asked}
<1> DEFINE S == {None, Idle, Optimistic, Off, Asked}
<1>1. Cardinality(S) = 5 /\ S \cap Nat = {}
  BY ChatAssumption DEF ChatAssumption
<1>2. /\ S = {Idle, None, Optimistic, Off, Asked} /\ S = {Idle, Optimistic, None, Off, Asked}
      /\ S = {Idle, Off, None, Optimistic, Asked} /\ S = {Idle, Asked, None, Optimistic, Off}
  OBVIOUS
<1>3. /\ S = {Off, None, Idle, Optimistic, Asked} /\ S = {Off, Optimistic, Idle, None, Asked}
      /\ S = {Off, Asked, Idle, None, Optimistic} /\ S = {Asked, None, Idle, Off, Optimistic}
      /\ S = {Asked, Optimistic, Idle, Off, None} /\ S = {None, Optimistic, Idle, Off, Asked}
  OBVIOUS
<1>4. \A n \in Nat : n \notin {None, Idle, Optimistic, Off, Asked}
  BY <1>1
<1>5. \A a, b, c, d, e : S = {a, b, c, d, e} => a # b
  <2>1. \A a, b, c, d, e : Cardinality({a, b, c, d, e}) = 5 => a # b
    BY FiveDiffer
  <2> HIDE DEF S
  <2> QED BY <1>1, <2>1
<1> HIDE DEF S
<1>6. Idle # None /\ Idle # Optimistic
  BY <1>2, <1>5
<1>7. Idle # Off /\ Idle # Asked
  BY <1>2, <1>5
<1>8. Off # None /\ Off # Optimistic /\ Off # Asked
  BY <1>3, <1>5
<1>9. Asked # None /\ Asked # Optimistic
  BY <1>3, <1>5
<1>10. None # Optimistic
  BY <1>3, <1>5
<1> QED BY <1>4, <1>6, <1>7, <1>8, <1>9, <1>10

LEMMA LeastNat ==
  ASSUME NEW T, T \subseteq Nat, T # {}
  PROVE  \E x \in T : \A y \in T : x <= y
<1> DEFINE Below == {0..x : x \in T}
<1>1. Below \subseteq FiniteSubsetsOf(Nat) /\ Below # {}
  <2>1. ASSUME NEW x \in T PROVE 0..x \in FiniteSubsetsOf(Nat)
    <3>1. 0 \in Int /\ x \in Int /\ 0..x \subseteq Nat
      OBVIOUS
    <3>2. IsFiniteSet(0..x)
      BY <3>1, FS_Interval
    <3> QED BY <3>1, <3>2 DEF FiniteSubsetsOf
  <2> QED BY <2>1
<1>2. PICK S \in Below : \A R \in Below : ~(<<R, S>> \in StrictSubsetOrdering(Nat))
  <2> HIDE DEF Below
  <2> QED BY <1>1, FS_StrictSubsetOrderingWellFounded, WFMin
<1>3. PICK x \in T : S = 0..x
  OBVIOUS
<1>4. ASSUME NEW y \in T, y < x PROVE FALSE
  <2>1. 0..y \subseteq 0..x /\ 0..x \subseteq Nat /\ x \in 0..x /\ x \notin 0..y
    BY <1>4
  <2>2. <<0..y, 0..x>> \in StrictSubsetOrdering(Nat)
    BY <2>1 DEF StrictSubsetOrdering
  <2> QED BY <1>2, <1>3, <2>2
<1> QED BY <1>4

(* GetPendingChatTask finds one of the session's tasks, when there is one. *)
LEMMA NewestLives ==
  ASSUME Typed, NEW s
  PROVE  IF LiveIn(s) = {} THEN Newest(s) = Idle ELSE Newest(s) \in LiveIn(s)
<1> DEFINE n == Len(tasks)  L == LiveIn(s)
<1>1. n \in Nat /\ L \subseteq 1..n
  BY DEF Typed, LiveIn
<1>2. CASE L # {}
  <2> DEFINE T == {n - t : t \in L}
  <2> HIDE DEF n, L
  <2>1. T \subseteq Nat /\ T # {}
    BY <1>1, <1>2
  <2>2. PICK x \in T : \A y \in T : x <= y
    <3> HIDE DEF T
    <3> QED BY <2>1, LeastNat
  <2>3. PICK t \in L : x = n - t
    OBVIOUS
  <2>4. ASSUME NEW u \in L PROVE u <= t
    <3>1. n - u \in T
      OBVIOUS
    <3>2. x <= n - u
      BY <2>2, <3>1
    <3> HIDE DEF T
    <3> QED BY <1>1, <2>3, <3>2
  <2>5. \E v \in LiveIn(s) : \A u \in LiveIn(s) : u <= v
    BY <2>4 DEF L
  <2>6. LiveIn(s) # {}
    BY <1>2 DEF L
  <2>7. Newest(s) = CHOOSE v \in LiveIn(s) : \A u \in LiveIn(s) : u <= v
    BY <2>6 DEF Newest
  <2> QED BY <2>5, <2>6, <2>7
<1> QED BY <1>2 DEF Newest

LEMMA NewestIs ==
  ASSUME Typed, NEW s
  PROVE  /\ Newest(s) \in {Idle} \cup DOMAIN tasks
         /\ Newest(s) \notin {None, Optimistic, Off, Asked}
         /\ Newest(s) # Idle => Newest(s) \in LiveIn(s)
<1>1. LiveIn(s) \subseteq DOMAIN tasks /\ DOMAIN tasks \subseteq Nat
  BY DEF LiveIn, Typed
<1>2. Newest(s) = Idle \/ Newest(s) \in LiveIn(s)
  BY NewestLives
<1> QED BY <1>1, <1>2, MarksDiffer

-----------------------------------------------------------------------------
(* The rows.                                                               *)
Grows(s, p, S) ==
  /\ Len(tasks) + 1 <= MaxTasks /\ tasks' = Append(tasks, QueuedRow(s, p))
  /\ unpublished' = unpublished \cup S

LEMMA GrowIs ==
  ASSUME Typed, NEW s \in Sessions, NEW p \in Nat, NEW S, Grows(s, p, S)
  PROVE  LET t == Len(tasks) + 1
         IN  /\ t \in Nat /\ DOMAIN tasks' = DOMAIN tasks \cup {t} /\ DOMAIN tasks \subseteq Nat
             /\ Len(tasks') <= MaxTasks /\ t \notin DOMAIN tasks
             /\ tasks'[t].s = s /\ tasks'[t].parent = p /\ tasks'[t].live
             /\ \A u \in DOMAIN tasks : tasks'[u] = tasks[u]
             /\ unpublished' = unpublished \cup S
<1> DEFINE t == Len(tasks) + 1  r == QueuedRow(s, p)
<1>1. tasks \in Seq(Rows) /\ r \in Rows /\ Len(tasks) \in Nat /\ DOMAIN tasks = 1..Len(tasks)
  BY DEF Typed, Rows, QueuedRow
<1>2. tasks' = Append(tasks, r) /\ t <= MaxTasks /\ unpublished' = unpublished \cup S
  BY DEF Grows
<1>3. /\ Len(tasks') = t /\ DOMAIN tasks' = 1..t /\ tasks'[t] = r
      /\ \A u \in 1..Len(tasks) : tasks'[u] = tasks[u]
  <2>1. tasks' \in Seq(Rows) /\ Len(tasks') = t
    BY <1>1, <1>2, AppendProperties
  <2>2. DOMAIN tasks' = 1..t
    BY <2>1, LenProperties
  <2> QED BY <1>1, <1>2, <2>1, <2>2, AppendProperties
<1>4. 1..t = 1..Len(tasks) \cup {t} /\ t \notin 1..Len(tasks)
  BY <1>1
<1>5. tasks'[t].s = s /\ tasks'[t].parent = p /\ tasks'[t].live
  BY <1>3 DEF QueuedRow
<1> HIDE DEF r
<1> QED BY <1>1, <1>2, <1>3, <1>4, <1>5

LEMMA NewTaskGrows ==
  ASSUME NEW s, NewTask(s)
  PROVE  Grows(s, 0, {Publishes("queued", Len(tasks) + 1), Publishes("message", Len(tasks) + 1)})
BY DEF NewTask, Grows

LEMMA RetryGrows ==
  ASSUME NEW t, Retry(t)
  PROVE  /\ Grows(tasks[t].s, t, {Publishes("queued", Len(tasks) + 1)})
         /\ \E kind \in {"failed", "swept"} : Publishes(kind, t) \in unpublished
BY DEF Retry, Grows

SameSource(u) == tasks'[u].s = tasks[u].s /\ tasks'[u].parent = tasks[u].parent

LEMMA RowIs ==
  ASSUME Typed, NEW t \in DOMAIN tasks,
         Claim(t) \/ \E kind \in Kinds : EndTask(t, kind)
  PROVE  /\ DOMAIN tasks' = DOMAIN tasks /\ Len(tasks') = Len(tasks)
         /\ \A u \in DOMAIN tasks : SameSource(u) /\ (u # t => tasks'[u] = tasks[u])
         /\ Claim(t) => tasks[t].live /\ tasks'[t].live
<1>1. tasks \in Seq(Rows) /\ DOMAIN tasks = 1..Len(tasks) /\ Len(tasks) \in Nat /\ tasks[t] \in Rows
  BY ElementOfSeq DEF Typed
<1>2. PICK r : /\ r \in Rows /\ r.s = tasks[t].s /\ r.parent = tasks[t].parent /\ tasks' = [tasks EXCEPT ![t] = r]
               /\ Claim(t) => tasks[t].live /\ r.live
  <2>1. ASSUME Claim(t) PROVE \E r : /\ r \in Rows /\ r.s = tasks[t].s /\ r.parent = tasks[t].parent
                                     /\ tasks' = [tasks EXCEPT ![t] = r] /\ tasks[t].live /\ r.live
    <3> DEFINE r == [tasks[t] EXCEPT !.begun = TRUE]
    <3>1. r \in Rows /\ r.s = tasks[t].s /\ r.parent = tasks[t].parent
      BY <1>1 DEF Rows
    <3>2. tasks' = [tasks EXCEPT ![t] = r] /\ tasks[t].live
      BY <1>1, <2>1 DEF Claim
    <3>3. r.live
      BY <1>1, <3>2 DEF Rows
    <3> HIDE DEF r
    <3> QED BY <3>1, <3>2, <3>3
  <2>2. ASSUME ~Claim(t) PROVE \E r : /\ r \in Rows /\ r.s = tasks[t].s /\ r.parent = tasks[t].parent
                                      /\ tasks' = [tasks EXCEPT ![t] = r]
    <3> DEFINE r == [tasks[t] EXCEPT !.live = FALSE]
    <3>1. r \in Rows /\ r.s = tasks[t].s /\ r.parent = tasks[t].parent
      BY <1>1 DEF Rows
    <3>2. tasks' = [tasks EXCEPT ![t] = r]
      BY <1>1, <2>2 DEF EndTask
    <3> HIDE DEF r
    <3> QED BY <3>1, <3>2
  <2> QED BY <2>1, <2>2
<1>3. tasks' \in Seq(Rows) /\ Len(tasks') = Len(tasks)
  <2>1. tasks' \in Seq(Rows)
    BY <1>1, <1>2, ExceptSeq
  <2>2. DOMAIN tasks' = DOMAIN tasks
    BY <1>2
  <2> QED BY <1>1, <2>1, <2>2, LenProperties
<1> QED BY <1>1, <1>2, <1>3 DEF SameSource

(* Sessions whose tasks are let be. *)
LEMMA SameNewest ==
  ASSUME NEW s, LiveIn(s)' = LiveIn(s)
  PROVE  Newest(s)' = Newest(s)
BY DEF Newest

LEMMA OthersSame ==
  ASSUME Typed, NEW s,
         \/ \E x \in Sessions \ {s}, p \in Nat : \E S : Grows(x, p, S)
         \/ \E t \in DOMAIN tasks : tasks[t].s # s /\ \E kind \in Kinds : EndTask(t, kind)
         \/ \E t \in DOMAIN tasks : Claim(t)
  PROVE  LiveIn(s)' = LiveIn(s)
<1>1. ASSUME NEW x \in Sessions \ {s}, NEW p \in Nat, NEW S, Grows(x, p, S)
      PROVE  LiveIn(s)' = LiveIn(s)
  <2>1. PICK t : /\ DOMAIN tasks' = DOMAIN tasks \cup {t} /\ tasks'[t].s = x
                 /\ \A u \in DOMAIN tasks : tasks'[u] = tasks[u]
    BY <1>1, GrowIs
  <2> QED BY <2>1 DEF LiveIn
<1>2. ASSUME NEW t \in DOMAIN tasks, tasks[t].s # s, \E kind \in Kinds : EndTask(t, kind)
      PROVE  LiveIn(s)' = LiveIn(s)
  <2>1. /\ DOMAIN tasks' = DOMAIN tasks
        /\ \A u \in DOMAIN tasks : SameSource(u) /\ (u # t => tasks'[u] = tasks[u])
    BY <1>2, RowIs
  <2> QED BY <1>2, <2>1 DEF LiveIn, SameSource
<1>3. ASSUME NEW t \in DOMAIN tasks, Claim(t)
      PROVE  LiveIn(s)' = LiveIn(s)
  <2>1. /\ DOMAIN tasks' = DOMAIN tasks /\ tasks[t].live /\ tasks'[t].live
        /\ \A u \in DOMAIN tasks : SameSource(u) /\ (u # t => tasks'[u] = tasks[u])
    BY <1>3, RowIs
  <2> QED BY <2>1 DEF LiveIn, SameSource
<1> QED BY <1>1, <1>2, <1>3

-----------------------------------------------------------------------------
(* Types.                                                                  *)
LEMMA RowTyped ==
  ASSUME Typed, NEW t \in DOMAIN tasks
  PROVE  tasks[t].s \in Sessions /\ tasks[t].live \in BOOLEAN /\ t \in Nat /\ tasks[t].parent \in Nat
<1>1. tasks \in Seq(Rows) /\ t \in 1..Len(tasks)
  BY DEF Typed
<1>2. tasks[t] \in Rows
  BY <1>1, ElementOfSeq
<1> QED BY <1>1, <1>2 DEF Rows

(* What a step does to the rows and the events.                            *)
LEMMA Forms ==
  ASSUME Typed, CallsTyped, [Next]_vars
  PROVE  \/ UNCHANGED <<tasks, unpublished, wire>>
         \/ \E s \in Sessions : NewTask(s) /\ UNCHANGED wire
         \/ \E t \in DOMAIN tasks :
              (Claim(t) \/ Retry(t) \/ \E kind \in Ends : EndTask(t, kind)) /\ UNCHANGED wire
         \/ \E e \in unpublished : Publish(e)
         \/ Deliver
<1>1. ASSUME NEW c \in Senders, SendArrives(c) PROVE \E s \in Sessions : NewTask(s) /\ UNCHANGED wire
  BY <1>1 DEF SendArrives, CallsTyped, Callers
<1>2. ASSUME NEW t \in DOMAIN tasks, ServerTask(t)
      PROVE  \/ UNCHANGED <<tasks, unpublished, wire>>
             \/ (Claim(t) \/ Retry(t) \/ \E kind \in Ends : EndTask(t, kind)) /\ UNCHANGED wire
  BY <1>2 DEF ServerTask, Claim, Finish, Sweep, Retry, OtherCancel, CancelArrives, Ends
<1>3. ASSUME NEW s \in Sessions, OtherSend(s) PROVE NewTask(s) /\ UNCHANGED wire
  BY <1>3 DEF OtherSend
<1>4. ASSUME \/ \E s \in Sessions : FetchRead(s) \/ FetchAnswer(s) \/ HandleSelectSession(s)
             \/ \E c \in Callers : \/ HandleSend(c) \/ SendFails(c) \/ SendAnswered(c) \/ HandleUploadFile(c)
                                   \/ CreateFails(c) \/ \E s \in Sessions : SessionCreated(c, s)
             \/ HandleStop \/ HandleNewChat \/ (\E a \in Agents : HandleSelectAgent(a)) \/ UNCHANGED vars
      PROVE  UNCHANGED <<tasks, unpublished, wire>>
  BY <1>4 DEF FetchRead, FetchAnswer, HandleSelectSession, HandleSend, SendFails, SendAnswered, HandleUploadFile,
              CreateFails, SessionCreated, HandleStop, HandleNewChat, HandleSelectAgent, vars, rows
<1> QED BY <1>1, <1>2, <1>3, <1>4 DEF Next, Callers, ServerTask

LEMMA TasksGrow ==
  ASSUME Typed, RowsTyped, CallsTyped, [Next]_vars
  PROVE  DOMAIN tasks \subseteq DOMAIN tasks' /\ Len(tasks') <= MaxTasks /\ Parents(tasks')
<1> DEFINE Goal == DOMAIN tasks \subseteq DOMAIN tasks' /\ Len(tasks') <= MaxTasks /\ Parents(tasks')
<1>1. CASE UNCHANGED tasks
  BY <1>1 DEF RowsTyped
<1>2. ASSUME NEW s \in Sessions, NEW p \in Nat, NEW S, Grows(s, p, S),
             p # 0 => p \in DOMAIN tasks /\ tasks[p].s = s
      PROVE  Goal
  BY <1>2, GrowIs DEF RowsTyped, Parents
<1>3. ASSUME NEW t \in DOMAIN tasks, Claim(t) \/ \E kind \in Ends : EndTask(t, kind)
      PROVE  Goal
  <2>1. DOMAIN tasks' = DOMAIN tasks /\ Len(tasks') = Len(tasks) /\ \A u \in DOMAIN tasks : SameSource(u)
    BY <1>3, RowIs DEF Kinds, Ends
  <2> QED BY <2>1 DEF RowsTyped, Parents, SameSource
<1>4. (Deliver \/ \E e \in unpublished : Publish(e)) => UNCHANGED tasks
  BY DEF Deliver, Publish, rows
<1>5. ASSUME NEW s \in Sessions, NewTask(s) PROVE Goal
  BY <1>2, <1>5, NewTaskGrows
<1>6. ASSUME NEW t \in DOMAIN tasks, Retry(t) PROVE Goal
  <2>1. t \in Nat /\ tasks[t].s \in Sessions
    BY RowTyped
  <2> QED BY <1>2, <1>6, <2>1, RetryGrows
<1> HIDE DEF Goal
<1> QED BY <1>1, <1>3, <1>4, <1>5, <1>6, Forms DEF Goal

(* The event delivered, and what is left of the socket.                    *)
LEMMA HeadIs ==
  ASSUME Typed, EventsTyped, wire # <<>>
  PROVE  /\ Head(wire) \in Events /\ Head(wire).t \in DOMAIN tasks /\ tasks[Head(wire).t].s \in Sessions
         /\ Head(wire) = wire[1] /\ 1 \in DOMAIN wire
         /\ Tail(wire) \in Seq(Events)
         /\ \A k \in DOMAIN Tail(wire) : k \in Nat /\ k + 1 \in DOMAIN wire /\ Tail(wire)[k] = wire[k + 1]
         /\ \A k \in DOMAIN wire : k \in Nat /\ k >= 1
         /\ \A k \in DOMAIN wire : k # 1 => k - 1 \in DOMAIN Tail(wire) /\ Tail(wire)[k - 1] = wire[k]
<1>1. wire \in Seq(Events) /\ Len(wire) \in Nat /\ DOMAIN wire = 1..Len(wire) /\ Len(wire) # 0
  BY EmptySeq DEF EventsTyped
<1>2. /\ Head(wire) = wire[1] /\ 1 \in DOMAIN wire /\ Head(wire) \in Events
  <2>1. 1 \in 1..Len(wire)
    BY <1>1
  <2> QED BY <1>1, <2>1, ElementOfSeq, HeadTailProperties
<1>3. Head(wire) \in Flying
  BY <1>2 DEF Flying
<1>4. Head(wire).t \in DOMAIN tasks
  BY <1>3 DEF EventsTyped
<1>5. /\ Tail(wire) \in Seq(Events) /\ Len(Tail(wire)) = Len(wire) - 1
      /\ \A k \in 1..Len(Tail(wire)) : Tail(wire)[k] = wire[k + 1]
  BY <1>1, HeadTailProperties
<1>6. DOMAIN Tail(wire) = 1..(Len(wire) - 1)
  BY <1>5
<1>7. \A k \in DOMAIN Tail(wire) : k \in Nat /\ k + 1 \in DOMAIN wire /\ Tail(wire)[k] = wire[k + 1]
  BY <1>1, <1>5, <1>6
<1>8. \A k \in DOMAIN wire : k # 1 => k - 1 \in DOMAIN Tail(wire) /\ Tail(wire)[k - 1] = wire[k]
  <2> SUFFICES ASSUME NEW k \in DOMAIN wire, k # 1
               PROVE  k - 1 \in DOMAIN Tail(wire) /\ Tail(wire)[k - 1] = wire[k]
    OBVIOUS
  <2>1. k - 1 \in 1..(Len(wire) - 1) /\ (k - 1) + 1 = k
    BY <1>1
  <2> QED BY <2>1, <1>6, <1>7
<1>9. \A k \in DOMAIN wire : k \in Nat /\ k >= 1
  BY <1>1
<1>10. tasks[Head(wire).t].s \in Sessions
  BY <1>4, RowTyped
<1> QED BY <1>2, <1>4, <1>5, <1>7, <1>8, <1>9, <1>10

LEMMA RowsStay ==
  ASSUME PillTyped, ChatAssumption, [Next]_vars, op' \in [Callers -> Calls]
  PROVE  RowsTyped'
<1> USE DEF PillTyped, CreationInv
<1>1. Len(tasks') <= MaxTasks /\ Parents(tasks')
  BY TasksGrow
<1>2. excused' \subseteq Sessions /\ (active' # None => owner'[active'] # None)
  <2> DEFINE Fine == excused' \subseteq Sessions /\ (active' # None => owner'[active'] # None)
  <2> SUFFICES Fine
    OBVIOUS
  <2>1. CASE UNCHANGED <<owner, active, excused>>
    BY <2>1 DEF RowsTyped
  <2>2. ASSUME NEW s \in Sessions, HandleSelectSession(s) PROVE Fine
    BY <2>2 DEF HandleSelectSession, RowsTyped, rows
  <2>3. ASSUME NEW t \in DOMAIN tasks, CancelArrives(t) PROVE Fine
    BY <2>3, RowTyped DEF CancelArrives, RowsTyped, shown
  <2>4. CASE Deliver
    BY <2>4, HeadIs DEF Deliver, OnQueued, OnMessage, OnDispatch, OnDone, OnSwept, OnCancelled, Excuse, RowsTyped,
                     rows, shown
  <2>5. ASSUME NEW c \in Callers, SendFails(c) \/ SendAnswered(c) PROVE Fine
    BY <2>5 DEF SendFails, SendAnswered, Excuse, RowsTyped, CallsTyped, rows, shown
  <2>6. ASSUME NEW c \in Callers, NEW s \in Sessions, SessionCreated(c, s) PROVE Fine
    <3>1. op[c].agent \in Agents /\ owner' = [owner EXCEPT ![s] = op[c].agent] /\ active' = s /\ UNCHANGED excused
      BY <2>6 DEF SessionCreated, CallsTyped
    <3> QED BY <3>1 DEF ChatAssumption, RowsTyped, Typed
  <2>7. ASSUME HandleNewChat \/ \E a \in Agents : HandleSelectAgent(a) PROVE Fine
    BY <2>7 DEF HandleNewChat, HandleSelectAgent, RowsTyped
  <2>8. ASSUME \/ \E s \in Sessions : FetchRead(s) \/ FetchAnswer(s) \/ OtherSend(s)
               \/ \E t \in DOMAIN tasks : Claim(t) \/ Finish(t) \/ Sweep(t) \/ Retry(t) \/ OtherCancel(t)
               \/ \E e \in unpublished : Publish(e)
               \/ \E c \in Callers : HandleSend(c) \/ SendArrives(c) \/ HandleUploadFile(c) \/ CreateFails(c)
               \/ HandleStop \/ UNCHANGED vars
        PROVE  UNCHANGED <<owner, active, excused>>
    BY <2>8 DEF FetchRead, FetchAnswer, OtherSend, Claim, Finish, Sweep, Retry, OtherCancel, Publish, HandleSend, SendArrives,
                HandleUploadFile, CreateFails, HandleStop, vars, rows, shown
  <2> QED BY <2>1, <2>2, <2>3, <2>4, <2>5, <2>6, <2>7, <2>8 DEF Next, Callers
<1> QED BY <1>1, <1>2 DEF RowsTyped

(* What a step writes into the queries: one entry, and one fetch.          *)
Written ==
  \/ UNCHANGED <<pending, isInvalidated>>
  \/ \E s \in Sessions : \E v \in {Optimistic, Idle, pending[s]} \cup DOMAIN tasks, b \in BOOLEAN :
       pending' = [pending EXCEPT ![s] = v] /\ isInvalidated' = [isInvalidated EXCEPT ![s] = b]

Fetched ==
  \/ UNCHANGED fetch
  \/ \E s \in Sessions, v \in {Off, Asked, Idle} \cup DOMAIN tasks : fetch' = [fetch EXCEPT ![s] = v]

LEMMA SetWrites ==
  ASSUME NEW s \in Sessions, NEW v \in {Optimistic, Idle, pending[s]} \cup DOMAIN tasks,
         SetQueryData(s, v) \/ SetAndInvalidate(s, v)
  PROVE  Written
BY DEF SetQueryData, SetAndInvalidate, Written

LEMMA FetchHas ==
  ASSUME PillTyped, NEW s \in Sessions, HasRead(s)
  PROVE  fetch[s] \in {Idle} \cup DOMAIN tasks
BY DEF PillTyped, QueryTyped, HasRead

LEMMA QueryWritten ==
  ASSUME PillTyped, ChatAssumption, [Next]_vars
  PROVE  Written /\ Fetched
<1>1. CASE UNCHANGED query
  BY <1>1 DEF query, Written, Fetched
<1>2. ASSUME NEW s \in Sessions, FetchRead(s) PROVE Written /\ Fetched
  <2>1. Newest(s) \in {Idle} \cup DOMAIN tasks
    BY NewestIs DEF PillTyped, CreationInv
  <2> QED BY <1>2, <2>1 DEF FetchRead, Written, Fetched
<1>3. ASSUME NEW s \in Sessions, FetchAnswer(s) PROVE Written /\ Fetched
  <2>1. fetch[s] \in {Idle} \cup DOMAIN tasks
    BY <1>3, FetchHas DEF FetchAnswer
  <2>2. Written
    BY <1>3, <2>1, SetWrites DEF FetchAnswer
  <2> QED BY <1>3, <2>2 DEF FetchAnswer, Fetched
<1>4. ASSUME NEW s \in Sessions, HandleSelectSession(s) PROVE Written /\ Fetched
  BY <1>4 DEF HandleSelectSession, Observed, Written, Fetched
<1>5. CASE Deliver
  <2> DEFINE e == Head(wire)  s == tasks[e.t].s
  <2>1. e.t \in DOMAIN tasks /\ s \in Sessions
    BY <1>5, HeadIs DEF Deliver, PillTyped, CreationInv
  <2>2. OnQueued(s, e.t) \/ OnMessage(s) \/ OnDispatch(s) \/ OnDone(s) \/ OnSwept(s) \/ OnCancelled(s)
    BY <1>5 DEF Deliver
  <2> HIDE DEF e, s
  <2>3. CASE OnQueued(s, e.t) \/ OnCancelled(s)
    <3>1. Written
      BY <2>1, <2>3, SetWrites DEF OnQueued, OnCancelled
    <3> QED BY <2>3, <3>1 DEF OnQueued, OnCancelled, Fetched
  <2>4. CASE OnMessage(s) \/ OnDone(s)
    <3>1. Written
      BY <2>1, <2>4, SetWrites DEF OnMessage, OnDone
    <3>2. Fetched
      BY <2>1, <2>4 DEF OnMessage, OnDone, SetAndInvalidate, Fetched
    <3> QED BY <3>1, <3>2
  <2>5. CASE OnDispatch(s)
    <3> DEFINE b == isInvalidated[s] /\ pending[s] = None
    <3>1. pending \in [Sessions -> {None, Optimistic, Idle} \cup DOMAIN tasks]
      BY DEF PillTyped, QueryTyped
    <3>2. pending' = [pending EXCEPT ![s] = pending[s]]
      BY <2>5, <3>1 DEF OnDispatch
    <3>3. b \in BOOLEAN /\ isInvalidated' = [isInvalidated EXCEPT ![s] = b]
      BY <2>1, <2>5 DEF OnDispatch, PillTyped, QueryTyped
    <3> HIDE DEF b
    <3>4. Written
      BY <2>1, <3>2, <3>3 DEF Written
    <3> QED BY <2>5, <3>4 DEF OnDispatch, Fetched
  <2>6. CASE OnSwept(s)
    BY <1>1, <2>6 DEF OnSwept
  <2> QED BY <2>2, <2>3, <2>4, <2>5, <2>6
<1>6. ASSUME NEW c \in Senders, HandleSend(c) PROVE Written /\ Fetched
  <2>1. active # None => active \in Sessions
    BY DEF PillTyped, CreationInv, Typed
  <2>2. UNCHANGED query \/ (active \in Sessions /\ SetQueryData(active, Optimistic) /\ UNCHANGED fetch)
    BY <1>6, <2>1 DEF HandleSend
  <2> QED BY <1>1, <2>2, SetWrites DEF Fetched
<1>7. ASSUME NEW c \in Senders, SendAnswered(c) PROVE Written /\ Fetched
  <2>1. op[c].s \in Sessions /\ op[c].t \in DOMAIN tasks
    BY <1>7 DEF SendAnswered, PillTyped, CallsTyped, Callers
  <2>2. Written
    BY <1>7, <2>1, SetWrites DEF SendAnswered
  <2> QED BY <1>7, <2>2 DEF SendAnswered, Fetched
<1>8. ASSUME NEW c \in Callers, NEW s \in Sessions, SessionCreated(c, s) PROVE Written /\ Fetched
  <2>1. Written
    <3>1. SetQueryData(s, Optimistic) \/ UNCHANGED <<pending, isInvalidated>>
      BY <1>8 DEF SessionCreated
    <3> QED BY <3>1, SetWrites DEF Written
  <2>2. fetch' = fetch \/ fetch' = Observed(s)
    BY <1>8 DEF SessionCreated
  <2> QED BY <2>1, <2>2 DEF Observed, Fetched
<1>9. CASE HandleStop
  <2>1. active \in Sessions
    BY <1>9 DEF HandleStop, Running, PillTyped, CreationInv, Typed
  <2>2. Written
    BY <1>9, <2>1, SetWrites DEF HandleStop
  <2> QED BY <1>9, <2>2 DEF HandleStop, Fetched
<1>10. ASSUME \/ \E s \in Sessions : OtherSend(s)
              \/ \E t \in DOMAIN tasks : ServerTask(t)
              \/ \E e \in unpublished : Publish(e)
              \/ \E c \in Callers : SendArrives(c) \/ SendFails(c) \/ HandleUploadFile(c) \/ CreateFails(c)
              \/ HandleNewChat \/ (\E a \in Agents : HandleSelectAgent(a)) \/ UNCHANGED vars
       PROVE  UNCHANGED query
  BY <1>10 DEF OtherSend, ServerTask, Claim, Finish, Sweep, Retry, OtherCancel, CancelArrives, Publish, SendArrives, SendFails,
               HandleUploadFile, CreateFails, HandleNewChat, HandleSelectAgent, vars
<1> QED BY <1>1, <1>2, <1>3, <1>4, <1>5, <1>6, <1>7, <1>8, <1>9, <1>10 DEF Next, Callers, ServerTask

LEMMA QueryStays ==
  ASSUME PillTyped, ChatAssumption, [Next]_vars
  PROVE  QueryTyped' /\ \A s \in Sessions : pending[s] # None => pending'[s] # None
<1>1. DOMAIN tasks \subseteq DOMAIN tasks' /\ DOMAIN tasks \subseteq Nat
  BY TasksGrow DEF PillTyped, CreationInv, Typed
<1>2. /\ pending \in [Sessions -> {None, Optimistic, Idle} \cup DOMAIN tasks]
      /\ fetch \in [Sessions -> {Off, Asked, Idle} \cup DOMAIN tasks]
      /\ isInvalidated \in [Sessions -> BOOLEAN]
  BY DEF PillTyped, QueryTyped
<1>3. /\ pending' \in [Sessions -> {None, Optimistic, Idle} \cup DOMAIN tasks]
      /\ isInvalidated' \in [Sessions -> BOOLEAN]
      /\ \A s \in Sessions : pending[s] # None => pending'[s] # None
  BY QueryWritten, MarksDiffer, <1>1, <1>2 DEF Written
<1>4. fetch' \in [Sessions -> {Off, Asked, Idle} \cup DOMAIN tasks]
  BY QueryWritten, <1>2 DEF Fetched
<1>5. pending' \in [Sessions -> {None, Optimistic, Idle} \cup DOMAIN tasks']
  BY <1>1, <1>3
<1>6. fetch' \in [Sessions -> {Off, Asked, Idle} \cup DOMAIN tasks']
  BY <1>1, <1>4
<1> QED BY <1>3, <1>5, <1>6 DEF QueryTyped

(* What becomes of the events: one is added, published, or delivered.      *)
LEMMA EventsStay ==
  ASSUME PillTyped, [Next]_vars
  PROVE  EventsTyped'
<1>1. DOMAIN tasks \subseteq DOMAIN tasks' /\ DOMAIN tasks \subseteq Nat
  BY TasksGrow DEF PillTyped, CreationInv, Typed
<1>2. unpublished \subseteq Events /\ wire \in Seq(Events) /\ \A e \in Flying : e.t \in DOMAIN tasks
  BY DEF PillTyped, EventsTyped
<1>3. ASSUME NEW S, \A e \in S : e \in Events /\ e.t \in DOMAIN tasks',
             unpublished' = unpublished \cup S, UNCHANGED wire
      PROVE  EventsTyped'
  <2>1. unpublished' \subseteq Events /\ wire' \in Seq(Events)
    BY <1>2, <1>3
  <2>2. \A e \in Flying' : e \in Flying \/ e \in S
    BY <1>3 DEF Flying
  <2> QED BY <1>1, <1>2, <1>3, <2>1, <2>2 DEF EventsTyped
<1>4. CASE UNCHANGED <<unpublished, wire>>
  <2>1. Flying' = Flying
    BY <1>4 DEF Flying
  <2> QED BY <1>1, <1>2, <1>4, <2>1 DEF EventsTyped
<1>5. ASSUME NEW s \in Sessions, NEW p \in Nat, NEW S, Grows(s, p, S), UNCHANGED wire,
             S \subseteq {Publishes("queued", Len(tasks) + 1), Publishes("message", Len(tasks) + 1)}
      PROVE  EventsTyped'
  <2> DEFINE t == Len(tasks) + 1
  <2>1. t \in Nat /\ DOMAIN tasks' = DOMAIN tasks \cup {t} /\ unpublished' = unpublished \cup S
    BY <1>5, GrowIs DEF PillTyped, CreationInv
  <2>2. \A e \in S : e \in Events /\ e.t \in DOMAIN tasks'
    BY <1>5, <2>1 DEF Publishes, Events, Kinds
  <2> QED BY <1>3, <1>5, <2>1, <2>2
<1>9. ASSUME NEW s \in Sessions, NewTask(s), UNCHANGED wire PROVE EventsTyped'
  BY <1>5, <1>9, NewTaskGrows
<1>10. ASSUME NEW t \in DOMAIN tasks, Retry(t), UNCHANGED wire PROVE EventsTyped'
  <2>1. t \in Nat /\ tasks[t].s \in Sessions
    BY RowTyped DEF PillTyped, CreationInv
  <2> QED BY <1>5, <1>10, <2>1, RetryGrows
<1>6. ASSUME NEW t \in DOMAIN tasks, NEW kind \in Kinds, EndTask(t, kind) \/ (Claim(t) /\ kind = "dispatch"),
             UNCHANGED wire
      PROVE  EventsTyped'
  <2> DEFINE S == {Publishes(kind, t)}
  <2>1. unpublished' = unpublished \cup S
    BY <1>6 DEF EndTask, Claim
  <2>2. \A e \in S : e \in Events /\ e.t \in DOMAIN tasks'
    BY <1>1 DEF Publishes, Events
  <2> HIDE DEF S
  <2> QED BY <1>3, <1>6, <2>1, <2>2
<1>7. ASSUME NEW e \in unpublished, Publish(e) PROVE EventsTyped'
  <2>1. e \in Events /\ unpublished' = unpublished \ {e} /\ wire' = Append(wire, e)
    BY <1>2, <1>7 DEF Publish
  <2>2. wire' \in Seq(Events) /\ Len(wire') = Len(wire) + 1 /\ wire'[Len(wire) + 1] = e
        /\ \A k \in 1..Len(wire) : wire'[k] = wire[k]
    BY <1>2, <2>1, AppendProperties
  <2>3. \A g \in Flying' : g \in Flying
    <3>1. DOMAIN wire' = 1..(Len(wire) + 1) /\ DOMAIN wire = 1..Len(wire) /\ Len(wire) \in Nat
      BY <1>2, <2>2
    <3>2. \A k \in DOMAIN wire' : k \in DOMAIN wire \/ k = Len(wire) + 1
      BY <3>1
    <3> QED BY <2>1, <2>2, <3>1, <3>2 DEF Flying
  <2> QED BY <1>1, <1>2, <2>1, <2>2, <2>3 DEF EventsTyped
<1>8. CASE Deliver
  <2>1. wire # <<>> /\ wire' = Tail(wire) /\ UNCHANGED unpublished
    BY <1>8 DEF Deliver
  <2>2. wire' \in Seq(Events) /\ \A k \in DOMAIN wire' : k + 1 \in DOMAIN wire /\ wire'[k] = wire[k + 1]
    BY <2>1, HeadIs DEF PillTyped, CreationInv
  <2>3. \A g \in Flying' : g \in Flying
    BY <2>1, <2>2 DEF Flying
  <2> QED BY <1>1, <1>2, <2>1, <2>2, <2>3 DEF EventsTyped
<1> QED
  <2>1. Ends \subseteq Kinds /\ "dispatch" \in Kinds
    BY DEF Kinds, Ends
  <2> QED BY <1>4, <1>6, <1>7, <1>8, <1>9, <1>10, <2>1, Forms DEF PillTyped, CreationInv

LEMMA CallsStay ==
  ASSUME PillTyped, ChatAssumption, [Next]_vars
  PROVE  CallsTyped'
<1>1. DOMAIN tasks \subseteq DOMAIN tasks' /\ DOMAIN tasks \subseteq Nat
  BY TasksGrow DEF PillTyped, CreationInv, Typed
<1>2. /\ cancels \subseteq DOMAIN tasks /\ op \in [Callers -> Calls]
      /\ \A c \in Callers : op[c].pc \in {"post", "answer"} => op[c].s \in Sessions
      /\ \A c \in Callers : op[c].pc = "answer" => op[c].t \in DOMAIN tasks
      /\ \A c \in Callers : op[c].pc = "create" => op[c].agent \in Agents
      /\ selected \in Agents
  BY DEF PillTyped, CallsTyped, CreationInv, Typed
<1> DEFINE Ok(r) == /\ r.pc \in {"post", "answer"} => r.s \in Sessions
                    /\ r.pc = "answer" => r.t \in DOMAIN tasks'
                    /\ r.pc = "create" => r.agent \in Agents
<1>3. \A c \in Callers : Ok(op[c])
  BY <1>1, <1>2
<1>4. Ok(NoOp) /\ \A s \in Sessions : Ok(Posting(s))
  BY DEF NoOp, Posting
<1>5. ASSUME NEW c \in Callers, NEW r, Ok(r), op' = [op EXCEPT ![c] = r] PROVE \A d \in Callers : Ok(op'[d])
  <2>1. \A d \in Callers : op'[d] = IF d = c THEN r ELSE op[d]
    BY <1>2, <1>5
  <2> HIDE DEF Ok
  <2> QED BY <1>3, <1>5, <2>1
<1>6. ASSUME NEW c \in Callers, EnsureSession(c) PROVE \A d \in Callers : Ok(op'[d])
  <2> DEFINE r1 == [NoOp EXCEPT !.pc = "create", !.agent = selected]
             r2 == [NoOp EXCEPT !.pc = "wait", !.on = creator]
  <2>1. Ok(r1) /\ Ok(r2)
    BY <1>2 DEF NoOp
  <2>2. op' = [op EXCEPT ![c] = r1] \/ op' = [op EXCEPT ![c] = r2]
    BY <1>6 DEF EnsureSession
  <2> HIDE DEF r1, r2, Ok
  <2> QED BY <1>5, <2>1, <2>2
<1>7. \A d \in Callers : Ok(op'[d])
  <2>1. CASE UNCHANGED op
    BY <1>3, <2>1
  <2>2. ASSUME NEW c \in Senders, HandleSend(c) PROVE \A d \in Callers : Ok(op'[d])
    <3>1. c \in Callers /\ (active # None => active \in Sessions)
      BY DEF Callers, PillTyped, CreationInv, Typed
    <3>2. EnsureSession(c) \/ (active \in Sessions /\ op' = [op EXCEPT ![c] = Posting(active)])
      BY <2>2, <3>1 DEF HandleSend
    <3> HIDE DEF Ok
    <3> QED BY <1>4, <1>5, <1>6, <3>1, <3>2
  <2>3. ASSUME NEW c \in Uploaders, HandleUploadFile(c) PROVE \A d \in Callers : Ok(op'[d])
    <3>1. c \in Callers /\ EnsureSession(c)
      BY <2>3 DEF Callers, HandleUploadFile
    <3> HIDE DEF Ok
    <3> QED BY <1>6, <3>1
  <2>4. ASSUME NEW c \in Senders, SendArrives(c) PROVE \A d \in Callers : Ok(op'[d])
    <3> DEFINE r == [op[c] EXCEPT !.pc = "answer", !.t = Len(tasks) + 1]
    <3>1. c \in Callers /\ op[c] \in Calls /\ op[c].s \in Sessions
      BY <1>2, <2>4 DEF Callers, SendArrives
    <3>2. Len(tasks) + 1 \in DOMAIN tasks'
      BY <2>4, <3>1, NewTaskGrows, GrowIs DEF SendArrives, PillTyped, CreationInv
    <3>3. r.pc = "answer" /\ r.s = op[c].s /\ r.t = Len(tasks) + 1
      BY <3>1 DEF Calls
    <3>4. op' = [op EXCEPT ![c] = r]
      BY <2>4, <3>1, <1>2 DEF SendArrives
    <3> HIDE DEF r
    <3>5. Ok(r)
      BY <3>1, <3>2, <3>3
    <3> HIDE DEF Ok
    <3> QED BY <1>5, <3>1, <3>4, <3>5
  <2>5. ASSUME NEW c \in Senders, SendFails(c) \/ SendAnswered(c) PROVE \A d \in Callers : Ok(op'[d])
    <3>1. c \in Callers /\ op' = [op EXCEPT ![c] = NoOp]
      BY <2>5 DEF SendFails, SendAnswered, Callers
    <3> HIDE DEF Ok
    <3> QED BY <1>4, <1>5, <3>1
  <2>6. ASSUME NEW c \in Callers, NEW s \in Sessions, SessionCreated(c, s) PROVE \A d \in Callers : Ok(op'[d])
    <3>1. \A d \in Callers : op'[d] \in {Posting(s), NoOp, op[d]}
      BY <2>6 DEF SessionCreated
    <3> HIDE DEF Ok
    <3> QED BY <1>3, <1>4, <3>1
  <2>7. ASSUME NEW c \in Callers, CreateFails(c) PROVE \A d \in Callers : Ok(op'[d])
    <3>1. \A d \in Callers : op'[d] \in {NoOp, op[d]}
      BY <2>7 DEF CreateFails
    <3> HIDE DEF Ok
    <3> QED BY <1>3, <1>4, <3>1
  <2>8. ASSUME \/ \E s \in Sessions : FetchRead(s) \/ FetchAnswer(s) \/ OtherSend(s) \/ HandleSelectSession(s)
               \/ \E t \in DOMAIN tasks : ServerTask(t)
               \/ \E e \in unpublished : Publish(e)
               \/ Deliver \/ HandleStop \/ HandleNewChat \/ (\E a \in Agents : HandleSelectAgent(a)) \/ UNCHANGED vars
        PROVE  UNCHANGED op
    BY <2>8 DEF FetchRead, FetchAnswer, OtherSend, HandleSelectSession, ServerTask, Claim, Finish, Sweep, Retry, OtherCancel, CancelArrives,
                Publish, Deliver, HandleStop, HandleNewChat, HandleSelectAgent, vars
  <2> HIDE DEF Ok
  <2> QED BY <2>1, <2>2, <2>3, <2>4, <2>5, <2>6, <2>7, <2>8 DEF Next, ServerTask
<1>8. cancels' \subseteq DOMAIN tasks
  <2>1. CASE HandleStop
    <3>1. active \in Sessions /\ pending[active] \notin {None, Idle}
      BY <2>1 DEF HandleStop, Running, PillTyped, CreationInv, Typed
    <3>2. pending[active] # Optimistic => pending[active] \in DOMAIN tasks
      BY <3>1 DEF PillTyped, QueryTyped
    <3> QED BY <1>2, <2>1, <3>2 DEF HandleStop
  <2>2. ASSUME NEW t \in DOMAIN tasks, CancelArrives(t) PROVE cancels' \subseteq DOMAIN tasks
    BY <1>2, <2>2 DEF CancelArrives
  <2>3. ASSUME \/ \E s \in Sessions : FetchRead(s) \/ FetchAnswer(s) \/ OtherSend(s) \/ HandleSelectSession(s)
               \/ \E t \in DOMAIN tasks : Claim(t) \/ Finish(t) \/ Sweep(t) \/ Retry(t) \/ OtherCancel(t)
               \/ \E e \in unpublished : Publish(e)
               \/ \E c \in Callers : \/ HandleSend(c) \/ SendArrives(c) \/ SendFails(c) \/ SendAnswered(c)
                                     \/ HandleUploadFile(c) \/ CreateFails(c) \/ \E s \in Sessions : SessionCreated(c, s)
               \/ Deliver \/ HandleNewChat \/ (\E a \in Agents : HandleSelectAgent(a)) \/ UNCHANGED vars
        PROVE  UNCHANGED cancels
    BY <2>3 DEF FetchRead, FetchAnswer, OtherSend, HandleSelectSession, Claim, Finish, Sweep, Retry, OtherCancel, Publish,
                HandleSend, SendArrives, SendFails, SendAnswered, HandleUploadFile, CreateFails, SessionCreated,
                Deliver, HandleNewChat, HandleSelectAgent, vars
  <2> QED BY <1>2, <2>1, <2>2, <2>3 DEF Next, Callers
<1> QED BY <1>1, <1>7, <1>8 DEF CallsTyped

-----------------------------------------------------------------------------
(* The order of the events.                                                *)
LEMMA NewEvents ==
  ASSUME PillTyped, Orderly, NEW S, \A e \in S : e.kind \notin {"queued", "message"},
         unpublished' = unpublished \cup S \/ UNCHANGED unpublished, UNCHANGED wire,
         \A u \in DOMAIN tasks : SameSource(u),
         \A s \in Sessions : pending[s] # None => pending'[s] # None
  PROVE  Orderly'
<1>1. \A e \in Flying : /\ e.t \in DOMAIN tasks /\ tasks[e.t].s \in Sessions
                        /\ tasks'[e.t].s = tasks[e.t].s /\ Behind(e.t, tasks') = Behind(e.t, tasks)
  BY RowTyped DEF PillTyped, CreationInv, EventsTyped, SameSource, Behind
<1>2. \A k \in DOMAIN wire : wire[k] \in Flying
  BY DEF Flying
<1>3. unpublished \subseteq unpublished' /\ Flying \subseteq Flying'
  BY DEF Flying
<1>4. ASSUME NEW e \in unpublished', e.kind \in {"queued", "message"}
      PROVE  e \in unpublished /\ e \in Flying
  BY <1>4 DEF Flying
<1>5. \A e \in unpublished' : e.kind = "queued" => \E f \in Behind(e.t, tasks') : f \in unpublished'
  BY <1>1, <1>3, <1>4 DEF Orderly
<1>6. ASSUME NEW e \in unpublished', e.kind = "message"
      PROVE  pending'[tasks'[e.t].s] # None \/ Publishes("queued", e.t) \in Flying'
  <2>1. e \in unpublished /\ tasks[e.t].s \in Sessions /\ tasks'[e.t].s = tasks[e.t].s
    BY <1>1, <1>4, <1>6
  <2>2. pending[tasks[e.t].s] # None \/ Publishes("queued", e.t) \in Flying
    BY <1>6, <2>1 DEF Orderly
  <2> QED BY <1>3, <2>1, <2>2
<1>7. ASSUME NEW k \in DOMAIN wire, wire[k].kind = "queued"
      PROVE  \E f \in Behind(wire[k].t, tasks') : f \in unpublished' \/ \E m \in DOMAIN wire : k < m /\ wire[m] = f
  BY <1>1, <1>2, <1>3, <1>7 DEF Orderly
<1>8. ASSUME NEW k \in DOMAIN wire, wire[k].kind = "message"
      PROVE  \/ pending'[tasks'[wire[k].t].s] # None
             \/ \E m \in DOMAIN wire : m < k /\ wire[m] = Publishes("queued", wire[k].t)
  BY <1>1, <1>2, <1>8 DEF Orderly
<1> QED BY <1>5, <1>6, <1>7, <1>8 DEF Orderly

LEMMA GrowOrderly ==
  ASSUME PillTyped, Orderly, NEW s \in Sessions, NEW p \in Nat, NEW S, Grows(s, p, S), UNCHANGED wire,
         NEW q, q = Publishes("queued", Len(tasks) + 1), NEW m, m = Publishes("message", Len(tasks) + 1),
         q \in S, S \subseteq {q, m},
         \E f \in unpublished' : f \in IF p = 0 THEN {m} ELSE {Publishes("failed", p), Publishes("swept", p)},
         \A x \in Sessions : pending[x] # None => pending'[x] # None
  PROVE  Orderly'
<1> DEFINE t == Len(tasks) + 1
<1>1. /\ unpublished' = unpublished \cup S /\ tasks'[t].parent = p
      /\ \A u \in DOMAIN tasks : tasks'[u] = tasks[u]
  BY GrowIs DEF PillTyped, CreationInv
<1>2. q.kind = "queued" /\ q.t = t /\ m.kind = "message" /\ m.t = t
  BY DEF Publishes
<1>3. m = Publishes("message", t) /\ q = Publishes("queued", m.t)
  BY <1>2
<1> HIDE DEF t
<1>4. \A e \in Flying : /\ e.t \in DOMAIN tasks /\ tasks[e.t].s \in Sessions
                        /\ tasks'[e.t].s = tasks[e.t].s /\ Behind(e.t, tasks') = Behind(e.t, tasks)
  BY <1>1, RowTyped DEF PillTyped, CreationInv, EventsTyped, Behind
<1>5. \A k \in DOMAIN wire : wire[k] \in Flying
  BY DEF Flying
<1>6. unpublished \subseteq unpublished' /\ Flying \subseteq Flying' /\ q \in Flying' /\ unpublished \subseteq Flying
  BY <1>1 DEF Flying
<1>7. \A e \in unpublished' : e.kind = "queued" => \E f \in Behind(e.t, tasks') : f \in unpublished'
  <2>1. ASSUME NEW e \in unpublished, e.kind = "queued" PROVE \E f \in Behind(e.t, tasks') : f \in unpublished'
    <3>1. PICK f \in Behind(e.t, tasks) : f \in unpublished
      BY <2>1 DEF Orderly
    <3> QED BY <1>4, <1>6, <3>1
  <2>2. \E f \in Behind(t, tasks') : f \in unpublished'
    BY <1>1, <1>3 DEF Behind
  <2> QED BY <1>1, <1>2, <2>1, <2>2
<1>8. ASSUME NEW e \in unpublished', e.kind = "message"
      PROVE  pending'[tasks'[e.t].s] # None \/ Publishes("queued", e.t) \in Flying'
  <2>1. CASE e \in unpublished
    <3>1. tasks[e.t].s \in Sessions /\ tasks'[e.t].s = tasks[e.t].s
      BY <1>4, <1>6, <2>1
    <3>2. pending[tasks[e.t].s] # None \/ Publishes("queued", e.t) \in Flying
      BY <1>8, <2>1 DEF Orderly
    <3> QED BY <1>6, <3>1, <3>2
  <2> QED BY <1>1, <1>2, <1>3, <1>6, <1>8, <2>1
<1>9. ASSUME NEW k \in DOMAIN wire, wire[k].kind = "queued"
      PROVE  \E f \in Behind(wire[k].t, tasks') : f \in unpublished' \/ \E n \in DOMAIN wire : k < n /\ wire[n] = f
  BY <1>4, <1>5, <1>6, <1>9 DEF Orderly
<1>10. ASSUME NEW k \in DOMAIN wire, wire[k].kind = "message"
      PROVE  \/ pending'[tasks'[wire[k].t].s] # None
             \/ \E n \in DOMAIN wire : n < k /\ wire[n] = Publishes("queued", wire[k].t)
  BY <1>4, <1>5, <1>10 DEF Orderly
<1> QED BY <1>7, <1>8, <1>9, <1>10 DEF Orderly

LEMMA PublishIs ==
  ASSUME EventsTyped, NEW e \in unpublished, Publish(e)
  PROVE  /\ unpublished' = unpublished \ {e} /\ UNCHANGED <<tasks, pending>>
         /\ Len(wire) \in Nat /\ DOMAIN wire = 1..Len(wire) /\ DOMAIN wire' = DOMAIN wire \cup {Len(wire) + 1}
         /\ wire'[Len(wire) + 1] = e /\ \A k \in DOMAIN wire : wire'[k] = wire[k]
         /\ Flying' = Flying
<1>1. wire \in Seq(Events) /\ e \in Events /\ wire' = Append(wire, e) /\ unpublished' = unpublished \ {e}
  BY DEF EventsTyped, Publish
<1>2. wire' \in Seq(Events) /\ Len(wire') = Len(wire) + 1 /\ wire'[Len(wire) + 1] = e
      /\ \A k \in 1..Len(wire) : wire'[k] = wire[k]
  BY <1>1, AppendProperties
<1>3. DOMAIN wire' = 1..(Len(wire) + 1) /\ DOMAIN wire = 1..Len(wire) /\ Len(wire) \in Nat
  BY <1>1, <1>2
<1>4. DOMAIN wire' = DOMAIN wire \cup {Len(wire) + 1}
  BY <1>3
<1>5. \A g \in Flying' : g \in Flying
  BY <1>1, <1>2, <1>3, <1>4 DEF Flying
<1>6. \A g \in Flying : g \in Flying'
  BY <1>1, <1>2, <1>3, <1>4 DEF Flying
<1>7. UNCHANGED <<tasks, pending>>
  BY DEF Publish, rows, query
<1>8. Flying' = Flying
  BY <1>5, <1>6
<1> QED BY <1>1, <1>2, <1>3, <1>4, <1>7, <1>8

LEMMA PublishOrderly ==
  ASSUME PillTyped, Orderly, NEW e \in unpublished, Publish(e)
  PROVE  Orderly'
<1> DEFINE n == Len(wire) + 1
<1>1. /\ unpublished' = unpublished \ {e} /\ UNCHANGED <<tasks, pending>>
      /\ n \in Nat /\ DOMAIN wire = 1..(n - 1) /\ DOMAIN wire' = DOMAIN wire \cup {n}
      /\ wire'[n] = e /\ \A k \in DOMAIN wire : wire'[k] = wire[k]
      /\ Flying' = Flying
  <2>1. /\ unpublished' = unpublished \ {e} /\ UNCHANGED <<tasks, pending>>
        /\ Len(wire) \in Nat /\ DOMAIN wire = 1..Len(wire) /\ DOMAIN wire' = DOMAIN wire \cup {n}
        /\ wire'[n] = e /\ \A k \in DOMAIN wire : wire'[k] = wire[k]
        /\ Flying' = Flying
    BY PublishIs DEF PillTyped
  <2>2. n \in Nat /\ Len(wire) = n - 1
    BY <2>1
  <2> HIDE DEF n
  <2> QED BY <2>1, <2>2
<1>2. \A k \in DOMAIN wire : k < n /\ k # n
  BY <1>1
<1>3. /\ e.kind = "message" => Publishes("queued", e.t) \notin unpublished
      /\ e.kind \in {"failed", "swept"} =>
           \A k \in DOMAIN tasks : tasks[k].parent = e.t => Publishes("queued", k) \notin unpublished
  BY DEF Publish
<1>4. \A g \in unpublished : g = Publishes(g.kind, g.t) /\ g \in Events /\ g.t \in DOMAIN tasks
  BY DEF PillTyped, EventsTyped, Events, Publishes, Flying
<1>5. /\ \A kind, t : Publishes(kind, t).kind = kind /\ Publishes(kind, t).t = t
      /\ \A t : Behind(t, tasks') = Behind(t, tasks)
  BY <1>1 DEF Publishes, Behind
<1>10. ASSUME NEW t, NEW f \in Behind(t, tasks)
       PROVE  \/ f.kind = "message" /\ f.t = t
              \/ f.kind \in {"failed", "swept"} /\ f.t = tasks[t].parent
  BY <1>5 DEF Behind
<1> HIDE DEF n
<1>6. ASSUME NEW g \in unpublished', g.kind = "queued" PROVE \E f \in Behind(g.t, tasks') : f \in unpublished'
  <2>1. PICK f \in Behind(g.t, tasks) : g \in unpublished /\ f \in unpublished
    BY <1>1, <1>6 DEF Orderly
  <2>2. g = Publishes("queued", g.t) /\ g.t \in DOMAIN tasks
    BY <1>4, <1>6, <2>1
  <2>3. e # f
    BY <1>3, <1>10, <2>1, <2>2
  <2> QED BY <1>1, <1>5, <2>1, <2>3
<1>7. ASSUME NEW g \in unpublished', g.kind = "message"
      PROVE  pending'[tasks'[g.t].s] # None \/ Publishes("queued", g.t) \in Flying'
  BY <1>1, <1>7 DEF Orderly
<1>8. ASSUME NEW k \in DOMAIN wire', wire'[k].kind = "queued"
      PROVE  \E f \in Behind(wire'[k].t, tasks') :
               f \in unpublished' \/ \E m \in DOMAIN wire' : k < m /\ wire'[m] = f
  <2>1. CASE k = n
    <3>1. wire'[k] = e /\ e.kind = "queued"
      BY <1>1, <1>8, <2>1
    <3>2. PICK f \in Behind(e.t, tasks) : f \in unpublished
      BY <3>1 DEF Orderly
    <3>3. f # e
      BY <1>10, <3>1, <3>2
    <3> QED BY <1>1, <1>5, <3>1, <3>2, <3>3
  <2>2. CASE k # n
    <3>1. k \in DOMAIN wire /\ wire'[k] = wire[k]
      BY <1>1, <2>2
    <3>2. PICK f \in Behind(wire[k].t, tasks) : f \in unpublished \/ \E m \in DOMAIN wire : k < m /\ wire[m] = f
      BY <1>8, <3>1 DEF Orderly
    <3>6. f \in Behind(wire'[k].t, tasks')
      BY <1>5, <3>1, <3>2
    <3>3. CASE f = e
      <4>1. n \in DOMAIN wire' /\ k < n /\ wire'[n] = f
        BY <1>1, <1>2, <3>1, <3>3
      <4> QED BY <3>6, <4>1
    <3>4. CASE f \in unpublished \ {e}
      BY <1>1, <3>4, <3>6
    <3>5. CASE \E m \in DOMAIN wire : k < m /\ wire[m] = f
      <4>1. PICK m \in DOMAIN wire : k < m /\ wire[m] = f
        BY <3>5
      <4>2. m \in DOMAIN wire' /\ wire'[m] = wire[m]
        BY <1>1
      <4> QED BY <3>6, <4>1, <4>2
    <3> QED BY <3>2, <3>3, <3>4, <3>5
  <2> QED BY <2>1, <2>2
<1>9. ASSUME NEW k \in DOMAIN wire', wire'[k].kind = "message"
      PROVE  \/ pending'[tasks'[wire'[k].t].s] # None
             \/ \E m \in DOMAIN wire' : m < k /\ wire'[m] = Publishes("queued", wire'[k].t)
  <2>1. CASE k = n
    <3>1. wire'[k] = e
      BY <1>1, <2>1
    <3>2. pending[tasks[e.t].s] # None \/ Publishes("queued", e.t) \in Flying
      BY <1>9, <3>1 DEF Orderly
    <3>3. CASE Publishes("queued", e.t) \in Flying
      <4>1. PICK m \in DOMAIN wire : wire[m] = Publishes("queued", e.t)
        BY <1>3, <1>9, <3>1, <3>3 DEF Flying
      <4>2. m \in DOMAIN wire' /\ wire'[m] = wire[m] /\ m < k
        BY <1>1, <1>2, <2>1
      <4> QED BY <3>1, <4>1, <4>2
    <3> QED BY <1>1, <3>1, <3>2, <3>3
  <2>2. CASE k # n
    <3>1. k \in DOMAIN wire /\ wire'[k] = wire[k]
      BY <1>1, <2>2
    <3>2. \/ pending[tasks[wire[k].t].s] # None
          \/ \E m \in DOMAIN wire : m < k /\ wire[m] = Publishes("queued", wire[k].t)
      BY <1>9, <3>1 DEF Orderly
    <3>3. CASE \E m \in DOMAIN wire : m < k /\ wire[m] = Publishes("queued", wire[k].t)
      <4>1. PICK m \in DOMAIN wire : m < k /\ wire[m] = Publishes("queued", wire[k].t)
        BY <3>3
      <4>2. m \in DOMAIN wire' /\ wire'[m] = wire[m]
        BY <1>1
      <4> QED BY <3>1, <4>1, <4>2
    <3> QED BY <1>1, <3>1, <3>2, <3>3
  <2> QED BY <2>1, <2>2
<1> QED BY <1>6, <1>7, <1>8, <1>9 DEF Orderly

(* The event delivered is the first; its task:queued makes the entry that  *)
(* the message behind it asks for.                                         *)
LEMMA DeliverOrderly ==
  ASSUME PillTyped, Orderly, Deliver,
         \A s \in Sessions : pending[s] # None => pending'[s] # None
  PROVE  Orderly'
<1> DEFINE e == Head(wire)
<1>1. /\ wire # <<>> /\ wire' = Tail(wire) /\ UNCHANGED <<tasks, unpublished>>
  BY DEF Deliver, rows
<1>2. /\ e \in Events /\ e.t \in DOMAIN tasks /\ tasks[e.t].s \in Sessions
      /\ e = wire[1] /\ 1 \in DOMAIN wire
      /\ \A k \in DOMAIN wire' : k \in Nat /\ k + 1 \in DOMAIN wire /\ wire'[k] = wire[k + 1]
      /\ \A k \in DOMAIN wire : k \in Nat /\ k >= 1
      /\ \A k \in DOMAIN wire : k # 1 => k - 1 \in DOMAIN wire' /\ wire'[k - 1] = wire[k]
  BY <1>1, HeadIs DEF PillTyped, CreationInv
<1>3. e.kind = "queued" => pending'[tasks[e.t].s] # None
  <2>1. SUFFICES ASSUME e.kind = "queued" PROVE pending'[tasks[e.t].s] # None
    OBVIOUS
  <2>2. OnQueued(tasks[e.t].s, e.t)
    BY <2>1 DEF Deliver
  <2>3. pending'[tasks[e.t].s] = e.t /\ e.t \in Nat
    BY <1>2, <2>2, RowTyped DEF OnQueued, SetQueryData, PillTyped, QueryTyped, CreationInv
  <2> QED BY <2>3, MarksDiffer
<1>4. \A g \in Flying : g.t \in DOMAIN tasks /\ tasks[g.t].s \in Sessions
  BY RowTyped DEF PillTyped, CreationInv, EventsTyped
<1>5. \A k \in DOMAIN wire : wire[k] \in Flying
  BY DEF Flying
<1>6. \A kind, t : Publishes(kind, t).kind = kind /\ Publishes(kind, t).t = t
  BY DEF Publishes
<1>7. \A g \in Flying : g = e \/ g \in Flying'
  <2>1. ASSUME NEW k \in DOMAIN wire PROVE wire[k] = e \/ wire[k] \in Flying'
    <3>1. CASE k # 1
      <4>1. k - 1 \in DOMAIN wire' /\ wire'[k - 1] = wire[k]
        BY <1>2, <3>1
      <4> QED BY <4>1 DEF Flying
    <3> QED BY <1>2, <3>1
  <2> QED BY <1>1, <2>1 DEF Flying
<1> HIDE DEF e
<1>12. \A t : Behind(t, tasks') = Behind(t, tasks)
  BY <1>1 DEF Behind
<1>8. \A g \in unpublished' : g.kind = "queued" => \E f \in Behind(g.t, tasks') : f \in unpublished'
  BY <1>1, <1>12 DEF Orderly
<1>9. ASSUME NEW g \in unpublished', g.kind = "message"
      PROVE  pending'[tasks'[g.t].s] # None \/ Publishes("queued", g.t) \in Flying'
  <2>1. g \in unpublished /\ g \in Flying /\ tasks' = tasks
    BY <1>1 DEF Flying
  <2>2. pending[tasks[g.t].s] # None \/ Publishes("queued", g.t) \in Flying
    BY <1>9, <2>1 DEF Orderly
  <2>3. CASE Publishes("queued", g.t) = e
    <3>1. e.kind = "queued" /\ e.t = g.t
      BY <1>6, <2>3
    <3> QED BY <1>3, <2>1, <3>1
  <2> QED BY <1>4, <1>7, <2>1, <2>2, <2>3
<1>10. ASSUME NEW k \in DOMAIN wire', wire'[k].kind = "queued"
       PROVE  \E f \in Behind(wire'[k].t, tasks') :
                f \in unpublished' \/ \E m \in DOMAIN wire' : k < m /\ wire'[m] = f
  <2>1. k + 1 \in DOMAIN wire /\ wire'[k] = wire[k + 1] /\ k \in Nat
    BY <1>2
  <2>2. PICK f \in Behind(wire[k + 1].t, tasks) :
          f \in unpublished \/ \E m \in DOMAIN wire : k + 1 < m /\ wire[m] = f
    BY <1>10, <2>1 DEF Orderly
  <2>4. f \in Behind(wire'[k].t, tasks')
    BY <1>12, <2>1, <2>2
  <2>3. CASE \E m \in DOMAIN wire : k + 1 < m /\ wire[m] = f
    <3>1. PICK m \in DOMAIN wire : k + 1 < m /\ wire[m] = f
      BY <2>3
    <3>2. m \in Nat /\ m # 1 /\ k < m - 1
      BY <1>2, <2>1, <3>1
    <3>3. m - 1 \in DOMAIN wire' /\ wire'[m - 1] = wire[m]
      BY <1>2, <3>2
    <3> QED BY <2>4, <3>1, <3>2, <3>3
  <2> QED BY <1>1, <2>2, <2>3, <2>4
<1>11. ASSUME NEW k \in DOMAIN wire', wire'[k].kind = "message"
       PROVE  \/ pending'[tasks'[wire'[k].t].s] # None
              \/ \E m \in DOMAIN wire' : m < k /\ wire'[m] = Publishes("queued", wire'[k].t)
  <2>1. k + 1 \in DOMAIN wire /\ wire'[k] = wire[k + 1] /\ k \in Nat /\ tasks' = tasks
    BY <1>1, <1>2
  <2>2. \/ pending[tasks[wire[k + 1].t].s] # None
        \/ \E m \in DOMAIN wire : m < k + 1 /\ wire[m] = Publishes("queued", wire[k + 1].t)
    BY <1>11, <2>1 DEF Orderly
  <2>3. CASE \E m \in DOMAIN wire : m < k + 1 /\ wire[m] = Publishes("queued", wire[k + 1].t)
    <3>1. PICK m \in DOMAIN wire : m < k + 1 /\ wire[m] = Publishes("queued", wire[k + 1].t)
      BY <2>3
    <3>2. CASE m = 1
      <4>1. e = Publishes("queued", wire[k + 1].t)
        BY <1>2, <3>1, <3>2
      <4>2. e.kind = "queued" /\ e.t = wire[k + 1].t
        BY <1>6, <4>1
      <4> QED BY <1>3, <2>1, <4>2
    <3>3. CASE m # 1
      <4>1. m - 1 \in DOMAIN wire' /\ wire'[m - 1] = wire[m] /\ m \in Nat
        BY <1>2, <3>3
      <4>2. m - 1 < k
        BY <2>1, <3>1, <4>1
      <4> QED BY <2>1, <3>1, <4>1, <4>2
    <3> QED BY <3>2, <3>3
  <2> QED BY <1>4, <1>5, <2>1, <2>2, <2>3
<1> QED BY <1>8, <1>9, <1>10, <1>11 DEF Orderly

LEMMA OrderStays ==
  ASSUME PillTyped, ChatAssumption, Orderly, [Next]_vars
  PROVE  Orderly'
<1>1. \A s \in Sessions : pending[s] # None => pending'[s] # None
  BY QueryStays
<1>2. CASE UNCHANGED <<tasks, unpublished, wire>>
  <2>1. \A e \in {} : e.kind \notin {"queued", "message"}
    OBVIOUS
  <2>2. \A u \in DOMAIN tasks : SameSource(u)
    BY <1>2 DEF SameSource
  <2> QED BY <1>1, <1>2, <2>1, <2>2, NewEvents
<1>3. ASSUME NEW t \in DOMAIN tasks, Claim(t) \/ \E kind \in Ends : EndTask(t, kind), UNCHANGED wire
      PROVE  Orderly'
  <2>1. \A u \in DOMAIN tasks : SameSource(u)
    BY <1>3, RowIs DEF Kinds, Ends, PillTyped, CreationInv
  <2>2. PICK kind \in Ends \cup {"dispatch"} : unpublished' = unpublished \cup {Publishes(kind, t)}
    BY <1>3 DEF EndTask, Claim
  <2> DEFINE S == {Publishes(kind, t)}
  <2>3. \A e \in S : e.kind \notin {"queued", "message"}
    BY DEF Publishes, Ends
  <2>4. unpublished' = unpublished \cup S
    BY <2>2
  <2> HIDE DEF S
  <2> QED BY <1>1, <1>3, <2>1, <2>3, <2>4, NewEvents
<1>4. Typed /\ CallsTyped
  BY DEF PillTyped, CreationInv
<1>5. ASSUME NEW s \in Sessions, NewTask(s), UNCHANGED wire PROVE Orderly'
  <2>1. PICK q, m : q = Publishes("queued", Len(tasks) + 1) /\ m = Publishes("message", Len(tasks) + 1)
    OBVIOUS
  <2>2. Grows(s, 0, {q, m}) /\ m \in unpublished'
    BY <1>5, <2>1, NewTaskGrows DEF Grows
  <2> QED BY <1>1, <1>5, <2>1, <2>2, GrowOrderly
<1>6. ASSUME NEW t \in DOMAIN tasks, Retry(t), UNCHANGED wire PROVE Orderly'
  <2>1. PICK q, m : q = Publishes("queued", Len(tasks) + 1) /\ m = Publishes("message", Len(tasks) + 1)
    OBVIOUS
  <2>2. /\ t \in Nat /\ t # 0 /\ tasks[t].s \in Sessions
        /\ Grows(tasks[t].s, t, {q}) /\ unpublished \subseteq unpublished'
    <3>1. t \in 1..Len(tasks)
      BY DEF PillTyped, CreationInv, Typed
    <3> QED BY <1>4, <1>6, <2>1, <3>1, RetryGrows, RowTyped DEF Grows
  <2>3. \E f \in unpublished' : f \in IF t = 0 THEN {m} ELSE {Publishes("failed", t), Publishes("swept", t)}
    BY <1>6, <2>2, RetryGrows
  <2> QED BY <1>1, <1>6, <2>1, <2>2, <2>3, GrowOrderly
<1> QED BY <1>2, <1>3, <1>4, <1>5, <1>6, Forms, PublishOrderly, <1>1, DeliverOrderly

-----------------------------------------------------------------------------
(* A session that a step lets be keeps what is true of its entry.          *)
Calm(x) ==
  /\ pending'[x] = pending[x] /\ fetch'[x] = fetch[x] /\ (isInvalidated[x] => isInvalidated'[x])
  /\ excused \subseteq excused'
  /\ Newest(x)' = Newest(x) /\ (Coming(x) => Coming(x)') /\ (Sending(x) => Sending(x)')
  /\ (Cancelling(x) => Cancelling(x)')
  /\ (active # x => active' # x)

LEMMA CalmKeeps == ASSUME NEW x, Truth(x), Calm(x) PROVE Truth(x)'
<1>1. CASE x \in excused
  BY <1>1 DEF Calm, Truth
<1>2. CASE FetchTrue(x) /\ EntryTrue(x)
  <2>1. HasRead(x)' => HasRead(x)
    BY DEF HasRead, Calm
  <2>2. FetchTrue(x)'
    BY <1>2, <2>1 DEF FetchTrue, Calm
  <2>3. EntryTrue(x)'
    BY <1>2 DEF EntryTrue, EntryRight, Calm
  <2> QED BY <2>2, <2>3 DEF Truth
<1> QED BY <1>1, <1>2 DEF Truth

LEMMA ComingIsTrue == ASSUME NEW x, Coming(x)' PROVE Truth(x)'
BY DEF Truth, FetchTrue, EntryTrue

(* The steps of the window and of the queries. *)
LEMMA QuietIs ==
  ASSUME NEW x, UNCHANGED <<tasks, unpublished, wire>>
  PROVE  /\ Newest(x)' = Newest(x) /\ Coming(x)' = Coming(x) /\ LiveIn(x)' = LiveIn(x)
         /\ (cancels \subseteq cancels' /\ Cancelling(x) => Cancelling(x)')
<1>1. LiveIn(x)' = LiveIn(x)
  BY DEF LiveIn
<1>2. Newest(x)' = Newest(x)
  BY <1>1, SameNewest
<1>3. Flying' = Flying
  BY DEF Flying
<1>4. Coming(x)' = Coming(x)
  BY <1>3 DEF Coming
<1>5. cancels \subseteq cancels' /\ Cancelling(x) => Cancelling(x)'
  BY DEF Cancelling
<1> QED BY <1>1, <1>2, <1>4, <1>5

LEMMA SameSending == ASSUME NEW x, UNCHANGED op PROVE Sending(x)' = Sending(x)
BY DEF Sending

LEMMA SendingMoves ==
  ASSUME PillTyped, NEW c \in Callers, NEW r, op' = [op EXCEPT ![c] = r], NEW x,
         \/ op[c].pc \notin {"post", "answer"} \/ op[c].s # x
         \/ (r.pc \in {"post", "answer"} /\ r.s = op[c].s)
  PROVE  Sending(x) => Sending(x)'
<1>1. \A d \in Callers : op'[d] = IF d = c THEN r ELSE op[d]
  BY DEF PillTyped, CreationInv, Typed
<1> QED BY <1>1 DEF Sending

LEMMA FetchReadTruth ==
  ASSUME PillTyped, NEW s \in Sessions, FetchRead(s), NEW x \in Sessions, Truth(x)
  PROVE  Truth(x)'
<1>1. /\ UNCHANGED <<tasks, unpublished, wire, op, cancels, pending, isInvalidated, excused, active>>
      /\ fetch' = [fetch EXCEPT ![s] = Newest(s)]
  BY DEF FetchRead, rows, shown
<1>2. fetch \in [Sessions -> {Off, Asked, Idle} \cup DOMAIN tasks]
  BY DEF PillTyped, QueryTyped
<1>3. Newest(x)' = Newest(x) /\ Coming(x)' = Coming(x) /\ (Cancelling(x) => Cancelling(x)')
  BY <1>1, QuietIs
<1>4. CASE x = s
  <2>1. fetch'[x] = Newest(x) /\ Newest(x) # Off
    BY <1>1, <1>2, <1>4, NewestIs DEF PillTyped, CreationInv
  <2>2. FetchTrue(x)' /\ EntryTrue(x)'
    BY <1>3, <2>1 DEF FetchTrue, EntryTrue
  <2> QED BY <2>2 DEF Truth
<1>5. CASE x # s
  <2>1. fetch'[x] = fetch[x]
    BY <1>1, <1>2, <1>5
  <2>2. Calm(x)
    BY <1>1, <1>3, <2>1, SameSending DEF Calm
  <2> QED BY <2>2, CalmKeeps
<1> QED BY <1>4, <1>5

LEMMA FetchAnswerTruth ==
  ASSUME PillTyped, NEW s \in Sessions, FetchAnswer(s), NEW x \in Sessions, Truth(x)
  PROVE  Truth(x)'
<1>1. /\ UNCHANGED <<tasks, unpublished, wire, op, cancels, excused, active>>
      /\ HasRead(s) /\ fetch' = [fetch EXCEPT ![s] = Off]
      /\ pending' = [pending EXCEPT ![s] = fetch[s]] /\ isInvalidated' = [isInvalidated EXCEPT ![s] = FALSE]
  BY DEF FetchAnswer, rows, shown, SetQueryData
<1>2. /\ fetch \in [Sessions -> {Off, Asked, Idle} \cup DOMAIN tasks]
      /\ pending \in [Sessions -> {None, Optimistic, Idle} \cup DOMAIN tasks]
      /\ isInvalidated \in [Sessions -> BOOLEAN]
  BY DEF PillTyped, QueryTyped
<1>3. Newest(x)' = Newest(x) /\ Coming(x)' = Coming(x) /\ (Cancelling(x) => Cancelling(x)')
  BY <1>1, QuietIs
<1>4. CASE x = s
  <2>1. fetch'[x] = Off /\ pending'[x] = fetch[x]
    BY <1>1, <1>2, <1>4
  <2>2. FetchTrue(x)'
    BY <2>1 DEF FetchTrue, HasRead
  <2>3. CASE x \in excused
    BY <1>1, <2>3 DEF Truth
  <2>4. CASE x \notin excused
    <3>1. fetch[x] = Newest(x) \/ Coming(x)
      BY <1>1, <1>4, <2>4 DEF Truth, FetchTrue
    <3>2. EntryTrue(x)'
      BY <1>3, <2>1, <3>1 DEF EntryTrue, EntryRight
    <3> QED BY <2>2, <3>2 DEF Truth
  <2> QED BY <2>3, <2>4
<1>5. CASE x # s
  <2>1. fetch'[x] = fetch[x] /\ pending'[x] = pending[x] /\ (isInvalidated[x] => isInvalidated'[x])
    BY <1>1, <1>2, <1>5
  <2>2. Calm(x)
    BY <1>1, <1>3, <2>1, SameSending DEF Calm
  <2> QED BY <2>2, CalmKeeps
<1> QED BY <1>4, <1>5

(* What a query under observation does: data that is missing or marked is  *)
(* fetched.                                                                *)
LEMMA ShownTruth ==
  ASSUME PillTyped, NEW s \in Sessions, Truth(s), fetch' = Observed(s),
         UNCHANGED <<tasks, unpublished, wire, pending, isInvalidated, excused, cancels>>,
         Sending(s) => Sending(s)'
  PROVE  Truth(s)'
<1>1. /\ fetch \in [Sessions -> {Off, Asked, Idle} \cup DOMAIN tasks] /\ s # None
  BY ChatAssumption DEF PillTyped, QueryTyped, ChatAssumption
<1>2. Newest(s)' = Newest(s) /\ Coming(s)' = Coming(s) /\ (Cancelling(s) => Cancelling(s)')
  BY QuietIs
<1>3. CASE s \in excused
  BY <1>3 DEF Truth
<1>4. CASE fetch[s] = Off /\ (pending[s] = None \/ isInvalidated[s])
  <2>1. fetch'[s] = Asked
    BY <1>1, <1>4 DEF Observed
  <2>2. FetchTrue(s)' /\ EntryTrue(s)'
    BY <2>1, MarksDiffer DEF FetchTrue, EntryTrue, HasRead
  <2> QED BY <2>2 DEF Truth
<1>5. CASE s \notin excused /\ ~(fetch[s] = Off /\ (pending[s] = None \/ isInvalidated[s]))
  <2>1. fetch'[s] = fetch[s]
    BY <1>5 DEF Observed
  <2>2. FetchTrue(s) /\ EntryTrue(s)
    BY <1>5 DEF Truth
  <2>3. FetchTrue(s)'
    BY <1>2, <2>1, <2>2 DEF FetchTrue, HasRead
  <2>4. EntryTrue(s)'
    BY <1>2, <1>5, <2>1, <2>2 DEF EntryTrue, EntryRight
  <2> QED BY <2>3, <2>4 DEF Truth
<1> QED BY <1>3, <1>4, <1>5

LEMMA SelectTruth ==
  ASSUME PillTyped, NEW s \in Sessions, HandleSelectSession(s), NEW x \in Sessions, Truth(x)
  PROVE  Truth(x)'
<1>1. /\ UNCHANGED <<tasks, unpublished, wire, op, cancels, pending, isInvalidated, excused>>
      /\ fetch' = Observed(s) /\ active' = s
  BY DEF HandleSelectSession, rows
<1>2. CASE x = s
  BY <1>1, <1>2, ShownTruth, SameSending
<1>3. CASE x # s
  <2>1. fetch'[x] = fetch[x]
    BY <1>1, <1>3 DEF Observed, PillTyped, QueryTyped
  <2>2. Newest(x)' = Newest(x) /\ Coming(x)' = Coming(x) /\ (Cancelling(x) => Cancelling(x)')
    BY <1>1, QuietIs
  <2>3. Calm(x)
    BY <1>1, <1>3, <2>1, <2>2, SameSending DEF Calm
  <2> QED BY <2>3, CalmKeeps
<1> QED BY <1>2, <1>3

LEMMA AwayTruth ==
  ASSUME PillTyped, NEW x \in Sessions, Truth(x), HandleNewChat \/ \E a \in Agents : HandleSelectAgent(a)
  PROVE  Truth(x)'
<1>1. /\ UNCHANGED <<tasks, unpublished, wire, op, cancels, pending, isInvalidated, fetch, excused>>
      /\ active' = None
  BY DEF HandleNewChat, HandleSelectAgent, rows, query
<1>2. x # None
  BY ChatAssumption DEF ChatAssumption
<1>3. Newest(x)' = Newest(x) /\ Coming(x)' = Coming(x) /\ (Cancelling(x) => Cancelling(x)')
  BY <1>1, QuietIs
<1>4. Calm(x)
  BY <1>1, <1>2, <1>3, SameSending DEF Calm
<1> QED BY <1>4, CalmKeeps

(* The calls.                                                              *)
LEMMA SeedTruth ==
  ASSUME PillTyped, NEW c \in Callers, HandleSend(c) \/ HandleUploadFile(c), NEW x \in Sessions, Truth(x)
  PROVE  Truth(x)'
<1>1. /\ UNCHANGED <<tasks, unpublished, wire, cancels, fetch, excused, active>>
      /\ op[c].pc = "idle"
  BY DEF HandleSend, HandleUploadFile, rows, shown, query
<1>2. PICK r : op' = [op EXCEPT ![c] = r]
  BY DEF HandleSend, HandleUploadFile, EnsureSession
<1>3. Sending(x) => Sending(x)'
  BY <1>1, <1>2, SendingMoves
<1>4. Newest(x)' = Newest(x) /\ Coming(x)' = Coming(x) /\ (Cancelling(x) => Cancelling(x)')
  BY <1>1, QuietIs
<1>5. CASE UNCHANGED <<pending, isInvalidated>>
  <2>1. Calm(x)
    BY <1>1, <1>3, <1>4, <1>5 DEF Calm
  <2> QED BY <2>1, CalmKeeps
<1>6. CASE /\ active # None /\ SetQueryData(active, Optimistic)
           /\ op' = [op EXCEPT ![c] = Posting(active)]
  <2>1. CASE x = active
    <3>1. op'[c] = Posting(x)
      BY <1>6, <2>1 DEF PillTyped, CreationInv, Typed
    <3>2. Posting(x).pc = "post" /\ Posting(x).s = x
      BY PostingTyped
    <3>3. Sending(x)'
      BY <3>1, <3>2 DEF Sending
    <3>4. FetchTrue(x) => FetchTrue(x)'
      BY <1>1, <1>4 DEF FetchTrue, HasRead
    <3> QED BY <1>1, <3>3, <3>4 DEF Truth, EntryTrue
  <2>2. CASE x # active
    <3>1. pending'[x] = pending[x] /\ isInvalidated'[x] = isInvalidated[x]
      BY <1>6, <2>2 DEF SetQueryData, PillTyped, QueryTyped
    <3>2. Calm(x)
      BY <1>1, <1>3, <1>4, <3>1 DEF Calm
    <3> QED BY <3>2, CalmKeeps
  <2> QED BY <2>1, <2>2
<1> QED BY <1>5, <1>6 DEF HandleSend, HandleUploadFile, query

(* Who is released neither posts nor awaits an answer. *)
LEMMA ReleasedSendNot ==
  ASSUME NEW c \in Callers, op[c].pc = "create", NEW x,
         \A d \in Callers : d \notin Released(c) => op'[d] = op[d]
  PROVE  Sending(x) => Sending(x)'
BY DEF Sending, Released

LEMMA CreateFailsTruth ==
  ASSUME PillTyped, NEW c \in Callers, CreateFails(c), NEW x \in Sessions, Truth(x)
  PROVE  Truth(x)'
<1>1. /\ UNCHANGED <<tasks, unpublished, wire, cancels, pending, isInvalidated, fetch, excused, active>>
      /\ op[c].pc = "create" /\ \A d \in Callers : d \notin Released(c) => op'[d] = op[d]
  BY DEF CreateFails, rows, shown, query
<1>2. Sending(x) => Sending(x)'
  BY <1>1, ReleasedSendNot
<1>3. Newest(x)' = Newest(x) /\ Coming(x)' = Coming(x) /\ (Cancelling(x) => Cancelling(x)')
  BY <1>1, QuietIs
<1>4. Calm(x)
  BY <1>1, <1>2, <1>3 DEF Calm
<1> QED BY <1>4, CalmKeeps

LEMMA CreatedTruth ==
  ASSUME PillTyped, NEW c \in Callers, NEW s \in Sessions, SessionCreated(c, s), NEW x \in Sessions, Truth(x)
  PROVE  Truth(x)'
<1> DEFINE sends == Released(c) \cap Senders
<1>1. /\ UNCHANGED <<tasks, unpublished, wire, cancels, excused>> /\ active' = s
      /\ op[c].pc = "create"
      /\ \A d \in Callers : d \notin Released(c) => op'[d] = op[d]
      /\ \A d \in sends : d \in Callers /\ op'[d] = Posting(s)
  BY DEF SessionCreated, Released, Callers
<1>2. /\ IF sends # {} THEN SetQueryData(s, Optimistic) ELSE UNCHANGED <<pending, isInvalidated>>
      /\ fetch' = Observed(s) \/ (sends # {} /\ fetch' = fetch)
  BY DEF SessionCreated
<1> HIDE DEF sends
<1>3. Sending(x) => Sending(x)'
  BY <1>1, ReleasedSendNot
<1>4. Newest(x)' = Newest(x) /\ Coming(x)' = Coming(x) /\ (Cancelling(x) => Cancelling(x)')
  BY <1>1, QuietIs
<1>5. /\ fetch \in [Sessions -> {Off, Asked, Idle} \cup DOMAIN tasks]
      /\ pending \in [Sessions -> {None, Optimistic, Idle} \cup DOMAIN tasks]
      /\ isInvalidated \in [Sessions -> BOOLEAN]
  BY DEF PillTyped, QueryTyped
<1>6. CASE x # s
  <2>1. fetch'[x] = fetch[x]
    BY <1>2, <1>5, <1>6 DEF Observed
  <2>2. pending'[x] = pending[x] /\ isInvalidated'[x] = isInvalidated[x]
    BY <1>2, <1>5, <1>6 DEF SetQueryData
  <2>3. Calm(x)
    BY <1>1, <1>3, <1>4, <1>6, <2>1, <2>2 DEF Calm
  <2> QED BY <2>3, CalmKeeps
<1>7. CASE x = s /\ sends # {}
  <2>1. PICK d \in sends : TRUE
    BY <1>7
  <2>2. d \in Callers /\ op'[d].pc = "post" /\ op'[d].s = x
    BY <1>1, <1>7, <2>1, PostingTyped
  <2>3. Sending(x)'
    BY <2>2 DEF Sending
  <2>4. fetch'[x] = Asked \/ fetch'[x] = fetch[x]
    BY <1>2, <1>5, <1>7 DEF Observed
  <2>5. FetchTrue(x) => FetchTrue(x)'
    BY <1>4, <2>4 DEF FetchTrue, HasRead
  <2> QED BY <1>1, <2>3, <2>5 DEF Truth, EntryTrue
<1>8. CASE x = s /\ sends = {}
  BY <1>1, <1>2, <1>3, <1>8, ShownTruth
<1> QED BY <1>6, <1>7, <1>8

LEMMA SendFailsTruth ==
  ASSUME PillTyped, NEW c \in Callers, SendFails(c), NEW x \in Sessions, Truth(x)
  PROVE  Truth(x)'
<1>1. /\ UNCHANGED <<tasks, unpublished, wire, cancels, pending, isInvalidated, fetch, active>>
      /\ op' = [op EXCEPT ![c] = NoOp] /\ excused' = excused \cup {op[c].s}
  BY DEF SendFails, rows, shown, query
<1>2. CASE x = op[c].s
  BY <1>1, <1>2 DEF Truth
<1>3. CASE x # op[c].s
  <2>1. Sending(x) => Sending(x)'
    BY <1>1, <1>3, SendingMoves
  <2>2. Newest(x)' = Newest(x) /\ Coming(x)' = Coming(x) /\ (Cancelling(x) => Cancelling(x)')
    BY <1>1, QuietIs
  <2>3. Calm(x)
    BY <1>1, <2>1, <2>2 DEF Calm
  <2> QED BY <2>3, CalmKeeps
<1> QED BY <1>2, <1>3

(* The answer writes its task: right, unless that is not the newest.       *)
LEMMA AnswerTruth ==
  ASSUME PillTyped, NEW c \in Callers, SendAnswered(c), NEW x \in Sessions, Truth(x)
  PROVE  Truth(x)'
<1> DEFINE s == op[c].s  t == op[c].t
<1>1. /\ UNCHANGED <<tasks, unpublished, wire, cancels, fetch, active>>
      /\ op' = [op EXCEPT ![c] = NoOp] /\ SetQueryData(s, t)
      /\ excused' = IF t = Newest(s) THEN excused ELSE excused \cup {s}
  BY DEF SendAnswered, rows, shown, Excuse
<1>2. Newest(x)' = Newest(x) /\ Coming(x)' = Coming(x) /\ (Cancelling(x) => Cancelling(x)')
  BY <1>1, QuietIs
<1>3. /\ pending \in [Sessions -> {None, Optimistic, Idle} \cup DOMAIN tasks]
      /\ isInvalidated \in [Sessions -> BOOLEAN]
  BY DEF PillTyped, QueryTyped
<1>4. x # s => (Sending(x) => Sending(x)')
  BY <1>1, SendingMoves
<1> HIDE DEF s, t
<1>5. CASE x = s
  <2>1. CASE x \in excused \/ t # Newest(s)
    BY <1>1, <1>5, <2>1 DEF Truth
  <2>2. CASE x \notin excused /\ t = Newest(s)
    <3>1. pending'[x] = Newest(x)
      BY <1>1, <1>3, <1>5, <2>2 DEF SetQueryData
    <3>2. EntryTrue(x)'
      BY <1>2, <3>1 DEF EntryTrue, EntryRight
    <3>3. FetchTrue(x)'
      BY <1>1, <1>2, <2>2 DEF Truth, FetchTrue, HasRead
    <3> QED BY <3>2, <3>3 DEF Truth
  <2> QED BY <2>1, <2>2
<1>6. CASE x # s
  <2>1. pending'[x] = pending[x] /\ isInvalidated'[x] = isInvalidated[x] /\ excused \subseteq excused'
    BY <1>1, <1>3, <1>6 DEF SetQueryData
  <2>2. Calm(x)
    BY <1>1, <1>2, <1>4, <1>6, <2>1 DEF Calm
  <2> QED BY <2>2, CalmKeeps
<1> QED BY <1>5, <1>6

(* Stop writes that there is no task; unless something else is on its way  *)
(* the task shown is the one it cancels.                                   *)
LEMMA StopTruth ==
  ASSUME PillTyped, HandleStop, NEW x \in Sessions, Truth(x)
  PROVE  Truth(x)'
<1>1. /\ UNCHANGED <<tasks, unpublished, wire, op, fetch, excused, active>>
      /\ active \in Sessions /\ pending[active] \notin {None, Idle} /\ SetQueryData(active, Idle)
      /\ cancels' = IF pending[active] = Optimistic THEN cancels ELSE cancels \cup {pending[active]}
  BY DEF HandleStop, Running, rows, shown, PillTyped, CreationInv, Typed
<1>2. cancels \subseteq cancels'
  BY <1>1
<1>3. Newest(x)' = Newest(x) /\ Coming(x)' = Coming(x) /\ LiveIn(x)' = LiveIn(x) /\ (Cancelling(x) => Cancelling(x)')
  BY <1>1, <1>2, QuietIs
<1>4. /\ pending \in [Sessions -> {None, Optimistic, Idle} \cup DOMAIN tasks]
      /\ isInvalidated \in [Sessions -> BOOLEAN]
  BY DEF PillTyped, QueryTyped
<1>5. CASE x = active
  <2>1. CASE x \in excused
    BY <1>1, <2>1 DEF Truth
  <2>2. CASE x \notin excused
    <3>1. FetchTrue(x) /\ EntryTrue(x)
      BY <2>2 DEF Truth
    <3>2. FetchTrue(x)'
      BY <1>1, <1>3, <3>1 DEF FetchTrue, HasRead
    <3>3. CASE EntryRight(x)
      <4>1. pending[x] = Newest(x) /\ Newest(x) # Idle
        BY <1>1, <1>5, <3>3 DEF EntryRight
      <4>2. Newest(x) # Optimistic /\ Newest(x) \in LiveIn(x)
        BY <4>1, NewestIs DEF PillTyped, CreationInv
      <4>3. Newest(x) \in cancels'
        BY <1>1, <1>5, <4>1, <4>2
      <4>4. Newest(x) \in LiveIn(x)'
        BY <1>3, <4>2
      <4>5. Cancelling(x)'
        BY <4>3, <4>4 DEF Cancelling, LiveIn
      <4> QED BY <3>2, <4>5 DEF Truth, EntryTrue
    <3>4. CASE ~EntryRight(x)
      <4>1. Coming(x) \/ Sending(x) \/ Cancelling(x) \/ fetch[x] # Off
        BY <3>1, <3>4 DEF EntryTrue
      <4> QED BY <1>1, <1>3, <3>2, <4>1, SameSending DEF Truth, EntryTrue
    <3> QED BY <3>3, <3>4
  <2> QED BY <2>1, <2>2
<1>6. CASE x # active
  <2>1. pending'[x] = pending[x] /\ isInvalidated'[x] = isInvalidated[x]
    BY <1>1, <1>4, <1>6 DEF SetQueryData
  <2>2. Calm(x)
    BY <1>1, <1>3, <2>1, SameSending DEF Calm
  <2> QED BY <2>2, CalmKeeps
<1> QED BY <1>5, <1>6

(* The server.                                                             *)
LEMMA EventsGrow ==
  ASSUME PillTyped, unpublished \subseteq unpublished', UNCHANGED wire, NEW x,
         \A u \in DOMAIN tasks : tasks'[u].s = tasks[u].s
  PROVE  Coming(x) => Coming(x)'
<1>1. Flying \subseteq Flying' /\ \A e \in Flying : e.t \in DOMAIN tasks
  BY DEF Flying, PillTyped, EventsTyped
<1> QED BY <1>1 DEF Coming

LEMMA GrowTruth ==
  ASSUME PillTyped, NEW s \in Sessions, NEW p \in Nat, NEW S, Grows(s, p, S), NEW x \in Sessions, Truth(x),
         \E f \in unpublished' : Fixes(f) /\ tasks'[f.t].s = s,
         UNCHANGED <<wire, cancels, pending, isInvalidated, fetch, excused, active>>,
         Sending(x) => Sending(x)'
  PROVE  Truth(x)'
<1>1. /\ \A u \in DOMAIN tasks : tasks'[u] = tasks[u]
      /\ unpublished \subseteq unpublished'
  BY GrowIs DEF PillTyped, CreationInv
<1>2. CASE x = s
  <2>1. Coming(x)'
    BY <1>2 DEF Coming, Fixes, Flying
  <2> QED BY <2>1, ComingIsTrue
<1>3. CASE x # s
  <2>1. LiveIn(x)' = LiveIn(x)
    BY <1>3, OthersSame DEF PillTyped, CreationInv
  <2>2. Newest(x)' = Newest(x)
    BY <2>1, SameNewest
  <2>3. Coming(x) => Coming(x)'
    BY <1>1, EventsGrow
  <2>4. Cancelling(x) => Cancelling(x)'
    BY <1>1 DEF Cancelling, PillTyped, CallsTyped
  <2>5. Calm(x)
    BY <2>2, <2>3, <2>4 DEF Calm
  <2> QED BY <2>5, CalmKeeps
<1> QED BY <1>2, <1>3

LEMMA NewTaskTruth ==
  ASSUME PillTyped, NEW s \in Sessions, NewTask(s), NEW x \in Sessions, Truth(x),
         UNCHANGED <<wire, cancels, pending, isInvalidated, fetch, excused, active>>,
         Sending(x) => Sending(x)'
  PROVE  Truth(x)'
<1> DEFINE t == Len(tasks) + 1  m == Publishes("message", t)
<1>1. Grows(s, 0, {Publishes("queued", t), m})
  BY NewTaskGrows
<1>2. tasks'[t].s = s /\ m \in unpublished'
  BY <1>1, GrowIs DEF PillTyped, CreationInv
<1>3. Fixes(m) /\ m.t = t
  BY DEF Publishes, Fixes
<1> HIDE DEF t, m
<1> QED BY <1>1, <1>2, <1>3, GrowTruth

(* A retry is made before its failure is published. *)
LEMMA RetryTruth ==
  ASSUME PillTyped, NEW t \in DOMAIN tasks, Retry(t), NEW x \in Sessions, Truth(x)
  PROVE  Truth(x)'
<1>1. t \in Nat /\ tasks[t].s \in Sessions
  BY RowTyped DEF PillTyped, CreationInv
<1>2. /\ Grows(tasks[t].s, t, {Publishes("queued", Len(tasks) + 1)})
      /\ \E kind \in {"failed", "swept"} : Publishes(kind, t) \in unpublished
  BY RetryGrows
<1>3. tasks'[t] = tasks[t] /\ unpublished \subseteq unpublished'
  BY <1>1, <1>2, GrowIs DEF PillTyped, CreationInv
<1>4. PICK f \in unpublished : f.kind \in {"failed", "swept"} /\ f.t = t
  BY <1>2 DEF Publishes
<1>5. \E g \in unpublished' : Fixes(g) /\ tasks'[g.t].s = tasks[t].s
  BY <1>3, <1>4 DEF Fixes
<1>6. UNCHANGED <<wire, cancels, op, pending, isInvalidated, fetch, excused, active>>
  BY DEF Retry, query, shown
<1> QED BY <1>1, <1>2, <1>5, <1>6, GrowTruth, SameSending

LEMMA EndTaskTruth ==
  ASSUME PillTyped, NEW t \in DOMAIN tasks, NEW kind \in Ends, EndTask(t, kind),
         NEW x \in Sessions, Truth(x), cancels \subseteq cancels' \cup {t},
         UNCHANGED <<wire, op, pending, isInvalidated, fetch, excused, active>>
  PROVE  Truth(x)'
<1> DEFINE e == Publishes(kind, t)
<1>1. /\ (\A u \in DOMAIN tasks : tasks'[u].s = tasks[u].s /\ (u # t => tasks'[u] = tasks[u]))
      /\ unpublished' = unpublished \cup {e}
  BY RowIs DEF Kinds, Ends, SameSource, EndTask, PillTyped, CreationInv
<1>2. e.kind \in Ends /\ e.t = t
  BY DEF Publishes
<1> HIDE DEF e
<1>3. CASE x = tasks[t].s
  <2>1. e \in Flying' /\ Fixes(e) /\ tasks'[e.t].s = x
    BY <1>1, <1>2, <1>3 DEF Flying, Fixes, Ends
  <2>2. Coming(x)'
    BY <2>1 DEF Coming, Fixes
  <2> QED BY <2>2, ComingIsTrue
<1>4. CASE x # tasks[t].s
  <2>1. LiveIn(x)' = LiveIn(x)
    BY <1>4, OthersSame DEF PillTyped, CreationInv, Kinds, Ends
  <2>2. Newest(x)' = Newest(x)
    BY <2>1, SameNewest
  <2>3. Coming(x) => Coming(x)'
    BY <1>1, EventsGrow
  <2>4. Cancelling(x) => Cancelling(x)'
    BY <1>1, <1>4 DEF Cancelling, PillTyped, CallsTyped
  <2>5. Calm(x)
    BY <2>2, <2>3, <2>4, SameSending DEF Calm
  <2> QED BY <2>5, CalmKeeps
<1> QED BY <1>3, <1>4

LEMMA ClaimTruth ==
  ASSUME PillTyped, NEW t \in DOMAIN tasks, Claim(t), NEW x \in Sessions, Truth(x)
  PROVE  Truth(x)'
<1>1. /\ UNCHANGED <<wire, cancels, op, pending, isInvalidated, fetch, excused, active>>
      /\ unpublished \subseteq unpublished'
  BY DEF Claim, query, shown
<1>2. /\ tasks[t].live /\ tasks'[t].live
      /\ \A u \in DOMAIN tasks : tasks'[u].s = tasks[u].s /\ (u # t => tasks'[u] = tasks[u])
  BY RowIs DEF PillTyped, CreationInv, SameSource
<1>3. LiveIn(x)' = LiveIn(x)
  BY OthersSame DEF PillTyped, CreationInv
<1>4. Newest(x)' = Newest(x)
  BY <1>3, SameNewest
<1>5. Coming(x) => Coming(x)'
  BY <1>1, <1>2, EventsGrow
<1>6. Cancelling(x) => Cancelling(x)'
  BY <1>1, <1>2 DEF Cancelling, PillTyped, CallsTyped
<1>7. Calm(x)
  BY <1>1, <1>4, <1>5, <1>6, SameSending DEF Calm
<1> QED BY <1>7, CalmKeeps

LEMMA PublishTruth ==
  ASSUME PillTyped, NEW e \in unpublished, Publish(e), NEW x \in Sessions, Truth(x)
  PROVE  Truth(x)'
<1>1. UNCHANGED <<tasks, cancels, op, pending, isInvalidated, fetch, excused, active>>
  BY DEF Publish, query, shown, rows
<1>2. Flying' = Flying
  BY PublishIs DEF PillTyped
<1>3. Coming(x) => Coming(x)'
  BY <1>1, <1>2 DEF Coming
<1>4. LiveIn(x)' = LiveIn(x) /\ (Cancelling(x) => Cancelling(x)')
  BY <1>1 DEF LiveIn, Cancelling
<1>5. Newest(x)' = Newest(x)
  BY <1>4, SameNewest
<1>6. Calm(x)
  BY <1>1, <1>3, <1>4, <1>5, SameSending DEF Calm
<1> QED BY <1>6, CalmKeeps

LEMMA CancelTruth ==
  ASSUME PillTyped, NEW t \in DOMAIN tasks, CancelArrives(t), NEW x \in Sessions, Truth(x)
  PROVE  Truth(x)'
<1>1. /\ UNCHANGED <<wire, op, pending, isInvalidated, fetch, active>>
      /\ cancels' = cancels \ {t}
  BY DEF CancelArrives, query, shown
<1>2. CASE EndTask(t, "cancelled") /\ UNCHANGED excused
  BY <1>1, <1>2, EndTaskTruth DEF Ends
<1>3. ASSUME UNCHANGED <<tasks, unpublished>>,
             excused \subseteq excused', ~tasks[t].live \/ tasks[t].s # x
      PROVE  Truth(x)'
  <2>1. Newest(x)' = Newest(x) /\ Coming(x)' = Coming(x)
    BY <1>1, <1>3, QuietIs
  <2>2. Cancelling(x) => Cancelling(x)'
    BY <1>1, <1>3 DEF Cancelling
  <2>3. Calm(x)
    BY <1>1, <1>3, <2>1, <2>2, SameSending DEF Calm
  <2> QED BY <2>3, CalmKeeps
<1>4. CASE x \in excused'
  BY <1>4 DEF Truth
<1>5. \/ EndTask(t, "cancelled") /\ UNCHANGED excused
      \/ UNCHANGED <<tasks, unpublished>> /\ excused \subseteq excused' /\ ~tasks[t].live
      \/ UNCHANGED <<tasks, unpublished>> /\ excused' = excused \cup {tasks[t].s}
  BY DEF CancelArrives
<1> QED BY <1>2, <1>3, <1>4, <1>5

(* The events.  A task:queued has its message behind it; the others leave  *)
(* the entry right, have it fetched, or are excused.                       *)
LEMMA DeliverTruth ==
  ASSUME PillTyped, Orderly, Deliver, NEW x \in Sessions, Truth(x)
  PROVE  Truth(x)'
<1> DEFINE e == Head(wire)  s == tasks[e.t].s
<1>1. /\ UNCHANGED <<tasks, unpublished, cancels, op, active>> /\ wire # <<>> /\ wire' = Tail(wire)
      /\ \/ e.kind = "queued" /\ OnQueued(s, e.t)
         \/ e.kind = "message" /\ OnMessage(s)
         \/ e.kind = "dispatch" /\ OnDispatch(s)
         \/ e.kind \in {"done", "failed"} /\ OnDone(s)
         \/ e.kind = "swept" /\ OnSwept(s)
         \/ e.kind = "cancelled" /\ OnCancelled(s)
  BY DEF Deliver, rows, shown
<1>2. /\ e \in Events /\ e.t \in DOMAIN tasks /\ s \in Sessions
      /\ e = wire[1] /\ 1 \in DOMAIN wire
      /\ \A k \in DOMAIN wire : k \in Nat /\ k >= 1
      /\ \A k \in DOMAIN wire : k # 1 => k - 1 \in DOMAIN wire' /\ wire'[k - 1] = wire[k]
  BY <1>1, HeadIs DEF PillTyped, CreationInv
<1>3. \A g \in Flying : g = e \/ g \in Flying'
  <2>1. ASSUME NEW k \in DOMAIN wire PROVE wire[k] = e \/ wire[k] \in Flying'
    <3>1. CASE k # 1
      <4>1. k - 1 \in DOMAIN wire' /\ wire'[k - 1] = wire[k]
        BY <1>2, <3>1
      <4> QED BY <4>1 DEF Flying
    <3> QED BY <1>2, <3>1
  <2> QED BY <1>1, <2>1 DEF Flying
<1>4. LiveIn(x)' = LiveIn(x) /\ (Cancelling(x) => Cancelling(x)')
  BY <1>1 DEF LiveIn, Cancelling
<1>5. Newest(x)' = Newest(x)
  BY <1>4, SameNewest
<1>6. (~Fixes(e) \/ s # x) /\ Coming(x) => Coming(x)'
  BY <1>1, <1>3 DEF Coming
<1>7. /\ fetch \in [Sessions -> {Off, Asked, Idle} \cup DOMAIN tasks]
      /\ pending \in [Sessions -> {None, Optimistic, Idle} \cup DOMAIN tasks]
      /\ isInvalidated \in [Sessions -> BOOLEAN]
  BY DEF PillTyped, QueryTyped
<1>8. x = s /\ e.kind = "queued" => Coming(x)'
  <2> SUFFICES ASSUME x = s, e.kind = "queued" PROVE Coming(x)'
    OBVIOUS
  <2>1. PICK m \in Behind(e.t, tasks) : m \in unpublished \/ \E k \in DOMAIN wire : 1 < k /\ wire[k] = m
    BY <1>2 DEF Orderly
  <2>2. /\ m.kind \in {"message", "failed", "swept"}
        /\ m.t = e.t \/ (m.t = tasks[e.t].parent /\ m.t # 0)
    BY <2>1 DEF Behind, Publishes
  <2>3. tasks[m.t].s = s
    BY <1>2, <2>2 DEF PillTyped, RowsTyped, Parents
  <2>4. m # e
    BY <2>2
  <2>5. m \in Flying'
    BY <1>3, <2>1, <2>4 DEF Flying
  <2>6. Fixes(m) /\ tasks'[m.t].s = x
    BY <1>1, <2>2, <2>3 DEF Fixes
  <2> HIDE DEF e, s
  <2> QED BY <2>5, <2>6 DEF Coming, Fixes
<1>9. e.kind = "message" => pending[s] # None
  BY <1>2 DEF Orderly
<1>10. e.kind \in {"queued", "dispatch"} => ~Fixes(e)
  BY DEF Fixes
<1> HIDE DEF e, s
<1>11. CASE x # s
  <2>1. /\ fetch'[x] = fetch[x] /\ pending'[x] = pending[x] /\ (isInvalidated[x] => isInvalidated'[x])
    BY <1>1, <1>7, <1>11 DEF OnQueued, OnMessage, OnDispatch, OnDone, OnSwept, OnCancelled, SetQueryData, SetAndInvalidate,
                                  query
  <2>2. excused \subseteq excused'
    BY <1>1 DEF OnQueued, OnMessage, OnDispatch, OnDone, OnSwept, OnCancelled, Excuse
  <2>3. Calm(x)
    BY <1>1, <1>4, <1>5, <1>6, <1>11, <2>1, <2>2, SameSending DEF Calm
  <2> QED BY <2>3, CalmKeeps
<1>12. CASE x = s /\ e.kind = "queued"
  BY <1>8, <1>12, ComingIsTrue
<1>13. ASSUME x = s, NEW v, v # None, SetAndInvalidate(s, v), Excuse(s, active = s \/ ~HasRead(s))
       PROVE  Truth(x)'
  <2>1. CASE active = s
    <3>1. fetch'[x] = Asked
      BY <1>7, <1>13, <2>1 DEF SetAndInvalidate
    <3>2. FetchTrue(x)' /\ EntryTrue(x)'
      BY <3>1, MarksDiffer DEF FetchTrue, EntryTrue, HasRead
    <3> QED BY <3>2 DEF Truth
  <2>2. CASE active # s /\ HasRead(s)
    BY <1>13, <2>2 DEF Excuse, Truth
  <2>3. CASE active # s /\ ~HasRead(s)
    <3>1. fetch'[x] = fetch[x] /\ isInvalidated'[x] = TRUE
      BY <1>7, <1>13, <2>3 DEF SetAndInvalidate
    <3>2. FetchTrue(x)'
      BY <1>13, <2>3, <3>1 DEF FetchTrue, HasRead
    <3>3. EntryTrue(x)'
      BY <1>1, <1>13, <2>3, <3>1 DEF EntryTrue, EntryRight
    <3> QED BY <3>2, <3>3 DEF Truth
  <2> QED BY <2>1, <2>2, <2>3
<1>14. CASE x = s /\ e.kind = "message"
  BY <1>1, <1>9, <1>13, <1>14 DEF OnMessage
<1>15. CASE x = s /\ e.kind \in {"done", "failed"}
  BY <1>1, <1>13, <1>15, MarksDiffer DEF OnDone
<1>16. CASE x = s /\ e.kind = "cancelled"
  <2>1. OnCancelled(s)
    BY <1>1, <1>16
  <2>2. CASE ~HasRead(s) /\ LiveIn(s) = {}
    <3>1. pending'[x] = Idle /\ fetch'[x] = fetch[x]
      BY <1>7, <1>16, <2>1 DEF OnCancelled, SetQueryData
    <3>2. Newest(x) = Idle
      BY <1>16, <2>2 DEF Newest
    <3>3. FetchTrue(x)'
      BY <1>16, <2>2, <3>1 DEF FetchTrue, HasRead
    <3>4. EntryTrue(x)'
      BY <1>5, <3>1, <3>2 DEF EntryTrue, EntryRight
    <3> QED BY <3>3, <3>4 DEF Truth
  <2>3. CASE ~(~HasRead(s) /\ LiveIn(s) = {})
    BY <1>16, <2>1, <2>3 DEF OnCancelled, Excuse, Truth
  <2> QED BY <2>2, <2>3
<1>17. CASE x = s /\ e.kind = "dispatch"
  <2>1. OnDispatch(s) /\ (Coming(x) => Coming(x)')
    BY <1>1, <1>6, <1>10, <1>17
  <2>2. UNCHANGED <<pending, fetch>> /\ excused \subseteq excused'
    BY <2>1 DEF OnDispatch, Excuse
  <2>3. CASE x \in excused'
    BY <2>3 DEF Truth
  <2>4. CASE x \notin excused'
    <3>1. isInvalidated'[s] = isInvalidated[s] \/ fetch[s] # Off \/ pending[s] = Newest(s)
      BY <1>17, <2>1, <2>4 DEF OnDispatch, Excuse
    <3>2. CASE isInvalidated'[s] = isInvalidated[s]
      <4>1. Calm(x)
        BY <1>1, <1>4, <1>5, <1>17, <2>1, <2>2, <3>2, SameSending DEF Calm
      <4> QED BY <4>1, CalmKeeps
    <3>3. CASE fetch[s] # Off \/ pending[s] = Newest(s)
      <4>1. FetchTrue(x)
        BY <2>2, <2>4 DEF Truth
      <4>2. FetchTrue(x)'
        BY <1>5, <2>1, <2>2, <4>1 DEF FetchTrue, HasRead
      <4>3. EntryTrue(x)'
        BY <1>5, <1>17, <2>2, <3>3 DEF EntryTrue, EntryRight
      <4> QED BY <4>2, <4>3 DEF Truth
    <3> QED BY <3>1, <3>2, <3>3
  <2> QED BY <2>3, <2>4
<1>18. CASE x = s /\ e.kind = "swept"
  <2>1. OnSwept(s) /\ UNCHANGED query
    BY <1>1, <1>18 DEF OnSwept
  <2>2. CASE x \in excused'
    BY <2>2 DEF Truth
  <2>3. CASE x \notin excused'
    <3>1. /\ fetch[x] \in {Off, Asked, Newest(x)}
          /\ fetch[x] # Off \/ EntryRight(x) \/ Sending(x)
      BY <1>18, <2>1, <2>3 DEF OnSwept, Excuse, EntryRight, Sending
    <3>2. FetchTrue(x)'
      BY <1>5, <2>1, <3>1 DEF FetchTrue, HasRead, query
    <3>3. EntryTrue(x)'
      BY <1>1, <1>5, <2>1, <3>1, SameSending DEF EntryTrue, EntryRight, query
    <3> QED BY <3>2, <3>3 DEF Truth
  <2> QED BY <2>2, <2>3
<1> QED BY <1>1, <1>11, <1>12, <1>14, <1>15, <1>16, <1>17, <1>18

-----------------------------------------------------------------------------
LEMMA TruthStays ==
  ASSUME PillTyped, ChatAssumption, Orderly, [Next]_vars, NEW x \in Sessions, Truth(x)
  PROVE  Truth(x)'
<1>1. CASE UNCHANGED vars
  BY <1>1 DEF vars, rows, shown, query, Truth, FetchTrue, EntryTrue, EntryRight, HasRead, Newest, LiveIn,
              Coming, Flying, Sending, Cancelling
<1>2. ASSUME NEW s \in Sessions, FetchRead(s) \/ FetchAnswer(s) \/ OtherSend(s) \/ HandleSelectSession(s)
      PROVE  Truth(x)'
  <2>1. CASE OtherSend(s)
    <3>1. NewTask(s) /\ UNCHANGED <<wire, cancels, pending, isInvalidated, fetch, excused, active, op>>
      BY <2>1 DEF OtherSend, shown, query
    <3> QED BY <3>1, NewTaskTruth, SameSending
  <2> QED BY <1>2, <2>1, FetchReadTruth, FetchAnswerTruth, SelectTruth
<1>3. ASSUME NEW t \in DOMAIN tasks, ServerTask(t)
      PROVE  Truth(x)'
  <2>1. CASE Finish(t) \/ Sweep(t) \/ OtherCancel(t)
    <3>1. PICK kind \in Ends : EndTask(t, kind)
      BY <2>1 DEF Finish, Sweep, OtherCancel, Ends
    <3>2. UNCHANGED <<wire, op, cancels, pending, isInvalidated, fetch, excused, active>>
      BY <2>1 DEF Finish, Sweep, OtherCancel, shown, query
    <3> QED BY <3>1, <3>2, EndTaskTruth
  <2> QED BY <1>3, <2>1, ClaimTruth, RetryTruth, CancelTruth DEF ServerTask
<1>4. ASSUME NEW c \in Senders, HandleSend(c) \/ SendArrives(c) \/ SendFails(c) \/ SendAnswered(c)
      PROVE  Truth(x)'
  <2>1. c \in Callers
    BY DEF Callers
  <2>2. CASE SendArrives(c)
    <3> DEFINE r == [op[c] EXCEPT !.pc = "answer", !.t = Len(tasks) + 1]
    <3>1. op[c] \in Calls /\ op[c].s \in Sessions
      BY <2>1, <2>2 DEF SendArrives, PillTyped, CreationInv, Typed, CallsTyped
    <3>2. r.pc = "answer" /\ r.s = op[c].s
      BY <3>1 DEF Calls
    <3>3. op' = [op EXCEPT ![c] = r]
      BY <2>1, <2>2 DEF SendArrives, PillTyped, CreationInv, Typed
    <3> HIDE DEF r
    <3>4. Sending(x) => Sending(x)'
      BY <2>1, <3>2, <3>3, SendingMoves
    <3>5. NewTask(op[c].s) /\ UNCHANGED <<wire, cancels, pending, isInvalidated, fetch, excused, active>>
      BY <2>2 DEF SendArrives, shown, query
    <3> QED BY <3>1, <3>4, <3>5, NewTaskTruth
  <2> QED BY <1>4, <2>1, <2>2, SeedTruth, SendFailsTruth, AnswerTruth
<1>5. ASSUME NEW c \in Uploaders, HandleUploadFile(c) PROVE Truth(x)'
  <2>1. c \in Callers
    BY DEF Callers
  <2> QED BY <1>5, <2>1, SeedTruth
<1> QED BY <1>1, <1>2, <1>3, <1>4, <1>5, PublishTruth, DeliverTruth, CreateFailsTruth, CreatedTruth,
           StopTruth, AwayTruth DEF Next, ServerTask

LEMMA InitTrue == ASSUME Init, ChatAssumption PROVE PillInv
<1>1. CreationInv
  BY InitHolds
<1>2. tasks = <<>> /\ unpublished = {} /\ wire = <<>> /\ excused = {} /\ cancels = {} /\ active \in {None, First}
  BY DEF Init
<1>3. Len(tasks) = 0 /\ DOMAIN wire = {} /\ Flying = {}
  BY <1>2 DEF Flying
<1>4. owner[First] # None
  BY DEF Init, ChatAssumption
<1>5. RowsTyped
  BY <1>2, <1>3, <1>4, ChatAssumption DEF RowsTyped, Parents, ChatAssumption
<1>6. /\ pending = [s \in Sessions |-> None] /\ isInvalidated = [s \in Sessions |-> FALSE]
      /\ fetch = [s \in Sessions |-> IF s = active THEN Asked ELSE Off]
  BY DEF Init
<1>7. QueryTyped
  <2>1. pending \in [Sessions -> {None, Optimistic, Idle} \cup DOMAIN tasks]
    BY <1>6
  <2>2. isInvalidated \in [Sessions -> BOOLEAN]
    BY <1>6
  <2>3. fetch \in [Sessions -> {Off, Asked, Idle} \cup DOMAIN tasks]
    BY <1>6
  <2> QED BY <2>1, <2>2, <2>3 DEF QueryTyped
<1>8. EventsTyped
  BY <1>2, <1>3 DEF EventsTyped
<1>9. CallsTyped
  <2>1. \A c \in Callers : op[c].pc = "idle"
    BY DEF Init, NoOp
  <2> QED BY <1>2, <2>1 DEF CallsTyped
<1>10. Orderly
  BY <1>2, <1>3 DEF Orderly
<1>11. ASSUME NEW x \in Sessions PROVE Truth(x)
  <2>1. fetch[x] \in {Off, Asked} /\ pending[x] = None
    BY <1>6
  <2> QED BY <2>1 DEF Truth, FetchTrue, EntryTrue, EntryRight, HasRead
<1> QED BY <1>1, <1>5, <1>7, <1>8, <1>9, <1>10, <1>11 DEF PillInv, PillTyped

LEMMA StepTrue == ASSUME PillInv, ChatAssumption, [Next]_vars PROVE PillInv'
<1>1. PillTyped /\ Orderly /\ CreationInv
  BY DEF PillInv, PillTyped
<1>2. CreationInv'
  BY <1>1, StepKeeps
<1>3. PillTyped'
  BY <1>1, <1>2, RowsStay, QueryStays, EventsStay, CallsStay DEF PillTyped, CreationInv, Typed
<1>4. \A x \in Sessions : Truth(x)'
  BY <1>1, TruthStays DEF PillInv
<1> QED BY <1>1, <1>3, <1>4, OrderStays DEF PillInv

(* Every variable keeps its type, and who waits, waits for a call that     *)
(* creates, for any number of sessions, tasks, calls and failures.         *)
THEOREM ChatTyped == Spec => []TypeOK
<1>1. Init => PillInv
  BY InitTrue, ChatAssumption
<1>2. PillInv /\ [Next]_vars => PillInv'
  BY StepTrue, ChatAssumption
<1>3. PillInv => TypeOK
  <2> SUFFICES ASSUME PillInv PROVE TypeOK
    OBVIOUS
  <2> USE DEF PillInv, PillTyped, CreationInv
  <2>1. tasks \in Seq(Rows) /\ Len(tasks) <= MaxTasks
    BY DEF Typed, RowsTyped
  <2>2. DOMAIN tasks \subseteq 1..MaxTasks
    BY <2>1, ChatAssumption DEF ChatAssumption
  <2>3. pending \in [Sessions -> Entries \cup {None, Optimistic}] /\ isInvalidated \in [Sessions -> BOOLEAN]
    BY <2>2 DEF QueryTyped, Entries
  <2>4. \A s \in Sessions : fetch[s] \in {Off, Asked} \cup Entries
    BY <2>2 DEF QueryTyped, Entries
  <2>5. \A c \in Callers : op[c].pc = "wait" => op[op[c].on].pc = "create"
    BY DEF Typed, WaitersWait, CreatorCreates
  <2>6. active \in {None} \cup {s \in Sessions : owner[s] # None}
    BY DEF Typed, RowsTyped
  <2> QED BY <2>1, <2>3, <2>4, <2>5, <2>6 DEF TypeOK, Typed, RowsTyped
<1> QED BY <1>1, <1>2, <1>3, PTL DEF Spec

(* When nothing is on its way for a session the pill and the lock of the   *)
(* input say what the database says, but for the exceptions the actions    *)
(* name, for any number of tabs' sends, fetches and events on the socket.  *)
THEOREM PillTellsTheTruth == Spec => []PillIsTrue
<1>1. Init => PillInv
  BY InitTrue, ChatAssumption
<1>2. PillInv /\ [Next]_vars => PillInv'
  BY StepTrue, ChatAssumption
<1>3. PillInv => PillIsTrue
  <2> SUFFICES ASSUME PillInv, NEW s \in Sessions \ excused, Settled(s), pending[s] # None,
                      isInvalidated[s] => active = s
               PROVE  pending[s] = Newest(s)
    BY DEF PillIsTrue
  <2>1. EntryTrue(s)
    BY DEF PillInv, Truth
  <2>2. ~Coming(s)
    <3> SUFFICES ASSUME NEW e \in Flying, tasks[e.t].s = s PROVE FALSE
      BY DEF Coming
    <3>1. e.t \in DOMAIN tasks
      BY DEF PillInv, PillTyped, EventsTyped
    <3> QED BY <3>1 DEF Settled, Flying
  <2>3. ~Sending(s) /\ fetch[s] = Off
    BY DEF Settled, Sending
  <2>4. ~Cancelling(s)
    BY DEF Settled, Cancelling, PillInv, PillTyped, CallsTyped
  <2> QED BY <2>1, <2>2, <2>3, <2>4 DEF EntryTrue, EntryRight
<1> QED BY <1>1, <1>2, <1>3, PTL DEF Spec

=============================================================================
