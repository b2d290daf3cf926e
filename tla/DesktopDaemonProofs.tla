------------------------ MODULE DesktopDaemonProofs ------------------------
(***************************************************************************)
(* Proofs about DesktopDaemon: its types; that the calls that go through   *)
(* withGuard exclude each other; and that the files and the daemon end up  *)
(* with whoever is signed in, for any users, any number of login chains,   *)
(* and any number of things done and gone wrong.                           *)
(***************************************************************************)
EXTENDS DesktopDaemon, TLAPS

Daemons == [st : {"down", "boot", "loaded", "up"}, tok : Owners, new : BOOLEAN, busy : BOOLEAN]
Threads == [pc : Pcs, who : Owners, cfg : Owners, prev : Owners, again : BOOLEAN, guarded : BOOLEAN]

(* What TypeOK says of the other variables. *)
Rest ==
  /\ user \in Owners /\ token \in Owners /\ sidecar \in Owners
  /\ byHand \in BOOLEAN /\ targetApiBaseUrl \in BOOLEAN /\ quitting \in BOOLEAN
  /\ currentState \in {"running", "stopped", "starting", "stopping"}
  /\ pendingVersionRestart \in BOOLEAN /\ poll \in {"idle", "up", "down"}
  /\ calm \in BOOLEAN /\ apart \in BOOLEAN /\ acts \in 0..MaxActs /\ mishaps \in 0..MaxMishaps

(* What a guarded call is doing: it is past the guard.  Every handler that *)
(* gives up its record on the way to something else has not come this far. *)
Working == {"stop", "stopping", "start", "spawn", "await"}

GuardInv ==
  /\ thread \in [Handlers -> Threads] /\ operationInProgress \in BOOLEAN
  /\ \A t \in Handlers : thread[t].guarded => thread[t].pc \in Working
  /\ GuardOwned

-----------------------------------------------------------------------------
LEMMA IdleTyped == Idle \in Threads /\ Idle.pc = "idle" /\ Idle.guarded = FALSE
BY DEF Idle, Threads, Pcs, Owners

LEMMA NamedHandlers == {"logout", "button", "version", "switch", "quit"} \subseteq Handlers
BY DEF Handlers

(* A handler's record changes and its mark does not. *)
LEMMA SameMark ==
  ASSUME GuardInv, NEW t \in Handlers, NEW r \in Threads,
         thread' = [thread EXCEPT ![t] = r], UNCHANGED operationInProgress,
         r.guarded = thread[t].guarded, r.guarded => r.pc \in Working
  PROVE  GuardInv'
BY DEF GuardInv, GuardOwned

(* A guarded call begins while none is at work. *)
LEMMA MarkSet ==
  ASSUME GuardInv, NEW t \in Handlers, NEW r \in Threads,
         thread' = [thread EXCEPT ![t] = r], ~operationInProgress, operationInProgress' = TRUE,
         r.guarded = TRUE, r.pc \in Working
  PROVE  GuardInv'
BY DEF GuardInv, GuardOwned

(* A handler ends, and gives back the flag if it was its own. *)
LEMMA EndedKeeps ==
  ASSUME GuardInv, NEW t \in Handlers, Ended(t)
  PROVE  GuardInv'
<1>1. CASE thread[t].guarded
  BY <1>1, IdleTyped DEF GuardInv, GuardOwned, Ended
<1>2. CASE ~thread[t].guarded
  BY <1>2, IdleTyped DEF GuardInv, GuardOwned, Ended
<1> QED BY <1>1, <1>2

(* A step from one place to another, for a place where nobody is guarded   *)
(* or a move among the places of guarded calls.                            *)
LEMMA StepKeeps ==
  ASSUME GuardInv, NEW t \in Handlers, NEW from, NEW to \in Pcs, Step(t, from, to),
         UNCHANGED operationInProgress, from \in Working => to \in Working
  PROVE  GuardInv'
<1> DEFINE r == [thread[t] EXCEPT !.pc = to]
<1>1. r \in Threads /\ r.guarded = thread[t].guarded /\ r.pc = to
  BY DEF GuardInv, Threads
<1>2. thread' = [thread EXCEPT ![t] = r]
  BY DEF Step, GuardInv
<1>3. r.guarded => r.pc \in Working
  BY <1>1 DEF GuardInv, Step
<1> QED BY <1>1, <1>2, <1>3, SameMark

(* Everything that leaves the threads and the flag alone. *)
LEMMA UntouchedKeeps ==
  ASSUME GuardInv, UNCHANGED <<thread, operationInProgress>>
  PROVE  GuardInv'
BY DEF GuardInv, GuardOwned

(* A handler that is idle, or that nobody guards, starts anew. *)
LEMMA BeginKeeps ==
  ASSUME GuardInv, NEW t \in Handlers, ~thread[t].guarded, NEW r \in Threads, ~r.guarded,
         thread' = [thread EXCEPT ![t] = r], UNCHANGED operationInProgress
  PROVE  GuardInv'
<1>1. r.guarded = thread[t].guarded
  BY DEF GuardInv, Threads
<1> QED BY <1>1, SameMark

LEMMA IdleIsFree ==
  ASSUME GuardInv, NEW t \in Handlers, thread[t].pc \notin Working
  PROVE  ~thread[t].guarded
BY DEF GuardInv

-----------------------------------------------------------------------------
LEMMA HandlerStepKeepsGuard ==
  ASSUME GuardInv, TypeOK, NEW t \in Handlers, HandlerStep(t)
  PROVE  GuardInv'
<1> USE DEF Owners
<1>1. CASE ReadConfig(t)
  <2> DEFINE r == [thread[t] EXCEPT !.pc = "readUser", !.cfg = token]
  <2>1. r \in Threads /\ r.guarded = thread[t].guarded /\ thread' = [thread EXCEPT ![t] = r]
    BY <1>1 DEF ReadConfig, GuardInv, Threads, TypeOK, Pcs
  <2>2. ~thread[t].guarded
    BY <1>1 DEF ReadConfig, GuardInv, Working
  <2> QED BY <1>1, <2>1, <2>2, SameMark DEF ReadConfig
<1>2. CASE ReadUser(t)
  <2>1. ~thread[t].guarded
    BY <1>2 DEF ReadUser, GuardInv, Working
  <2>2. PICK pc \in {"saveToken", "mint"} :
          thread' = [thread EXCEPT ![t].pc = pc, ![t].prev = sidecar]
    BY <1>2 DEF ReadUser
  <2> DEFINE r == [thread[t] EXCEPT !.pc = pc, !.prev = sidecar]
  <2>3. r \in Threads /\ r.guarded = thread[t].guarded /\ thread' = [thread EXCEPT ![t] = r]
    BY <2>2 DEF GuardInv, Threads, TypeOK, Pcs
  <2> QED BY <1>2, <2>1, <2>3, SameMark DEF ReadUser
<1>3. CASE Mint(t)
  <2>1. ~thread[t].guarded
    BY <1>3 DEF Mint, GuardInv, Working
  <2>2. CASE Ended(t)
    BY <2>2, EndedKeeps
  <2>3. CASE thread' = [thread EXCEPT ![t].pc = "saveToken", ![t].cfg = thread[t].who]
             /\ UNCHANGED operationInProgress
    <3> DEFINE r == [thread[t] EXCEPT !.pc = "saveToken", !.cfg = thread[t].who]
    <3>1. r \in Threads /\ r.guarded = thread[t].guarded /\ thread' = [thread EXCEPT ![t] = r]
      BY <2>3 DEF GuardInv, Threads, Pcs
    <3> QED BY <2>1, <2>3, <3>1, SameMark
  <2> QED BY <1>3, <2>2, <2>3 DEF Mint
<1>4. CASE SaveToken(t)
  BY <1>4, StepKeeps DEF SaveToken, Pcs, Working
<1>5. CASE SaveUser(t)
  <2>1. ~thread[t].guarded
    BY <1>5 DEF SaveUser, GuardInv, Working
  <2>2. PICK pc \in {"switch", "auto"} : thread' = [thread EXCEPT ![t] = [Idle EXCEPT !.pc = pc]]
    BY <1>5 DEF SaveUser
  <2>3. [Idle EXCEPT !.pc = pc] \in Threads /\ ~[Idle EXCEPT !.pc = pc].guarded
    BY DEF Idle, Threads, Pcs
  <2> QED BY <1>5, <2>1, <2>2, <2>3, BeginKeeps DEF SaveUser
<1>6. CASE SwitchUser(t)
  <2> DEFINE r == [thread[t] EXCEPT !.pc = "auto"]
  <2>1. ~thread[t].guarded /\ r \in Threads /\ ~r.guarded
    BY <1>6 DEF SwitchUser, GuardInv, Working, Threads, Pcs
  <2>2. CASE ~Up
    BY <1>6, <2>1, <2>2, BeginKeeps DEF SwitchUser, GuardInv
  <2>3. CASE Up
    <3> DEFINE n == [Idle EXCEPT !.pc = "stop", !.again = TRUE]
    <3>1. n \in Threads /\ ~n.guarded
      BY DEF Idle, Threads, Pcs
    <3>2. "switch" \in Handlers /\ ~thread["switch"].guarded
      BY <1>6, <2>3, NamedHandlers DEF SwitchUser, GuardInv, Working
    <3>3. thread' = [[thread EXCEPT ![t] = r] EXCEPT !["switch"] = n]
      BY <1>6, <2>3 DEF SwitchUser, GuardInv
    <3> HIDE DEF r, n
    <3>4. operationInProgress' = operationInProgress
      BY <1>6 DEF SwitchUser
    <3> QED BY <2>1, <3>1, <3>2, <3>3, <3>4 DEF GuardInv, GuardOwned
  <2> QED BY <2>2, <2>3
<1>7. CASE AutoStart(t)
  BY <1>7, StepKeeps DEF AutoStart, Pcs, Working
<1>8. CASE CheckVersion(t)
  <2>1. ~thread[t].guarded
    BY <1>8 DEF CheckVersion, GuardInv, Working
  <2>2. CASE VersionAction = "restart"
    <3> DEFINE r == [thread[t] EXCEPT !.pc = "stop", !.again = TRUE]
    <3>1. r \in Threads /\ r.guarded = thread[t].guarded /\ thread' = [thread EXCEPT ![t] = r]
      BY <1>8, <2>2 DEF CheckVersion, GuardInv, Threads, Pcs
    <3> QED BY <1>8, <2>1, <2>2, <3>1, SameMark DEF CheckVersion
  <2>3. CASE VersionAction # "restart"
    BY <1>8, <2>3, EndedKeeps DEF CheckVersion
  <2> QED BY <2>2, <2>3
<1>9. CASE ClearRead(t)
  BY <1>9, StepKeeps DEF ClearRead, Pcs, Working
<1>10. CASE ClearToken(t)
  BY <1>10, StepKeeps DEF ClearToken, Pcs, Working
<1>11. CASE ClearUser(t)
  BY <1>11, StepKeeps DEF ClearUser, Pcs, Working
<1>12. CASE Guard(t)
  <2>1. CASE operationInProgress
    BY <1>12, <2>1, EndedKeeps DEF Guard
  <2>2. CASE ~operationInProgress
    <3> DEFINE r == [thread[t] EXCEPT !.pc = "stop", !.guarded = TRUE]
    <3>1. /\ r \in Threads /\ r.guarded = TRUE /\ r.pc \in Working
          /\ thread' = [thread EXCEPT ![t] = r] /\ operationInProgress' = TRUE
      BY <1>12, <2>2 DEF Guard, GuardInv, Threads, Pcs, Working
    <3> QED BY <2>2, <3>1, MarkSet
  <2> QED BY <2>1, <2>2
<1>13. CASE StopCall(t)
  BY <1>13, StepKeeps DEF StopCall, Pcs, Working
<1>14. CASE Stop(t)
  <2>1. CASE Ended(t)
    BY <2>1, EndedKeeps
  <2>2. CASE thread' = [thread EXCEPT ![t].pc = "start"] /\ UNCHANGED operationInProgress
    BY <1>14, <2>2, StepKeeps DEF Stop, Step, Pcs, Working
  <2> QED BY <1>14, <2>1, <2>2 DEF Stop
<1>15. CASE Start(t)
  <2>1. CASE Up
    BY <1>15, <2>1, EndedKeeps DEF Start
  <2>2. CASE ~Up
    BY <1>15, <2>2, StepKeeps DEF Start, Step, Pcs, Working
  <2> QED BY <2>1, <2>2
<1>16. CASE Spawn(t)
  <2>1. CASE Ended(t)
    BY <2>1, EndedKeeps
  <2>2. CASE thread' = [thread EXCEPT ![t].pc = "await"] /\ UNCHANGED operationInProgress
    BY <1>16, <2>2, StepKeeps DEF Spawn, Step, Pcs, Working
  <2> QED BY <1>16, <2>1, <2>2 DEF Spawn
<1>17. CASE Spawned(t)
  BY <1>17, EndedKeeps DEF Spawned
<1> QED BY <1>1, <1>2, <1>3, <1>4, <1>5, <1>6, <1>7, <1>8, <1>9, <1>10, <1>11, <1>12, <1>13,
           <1>14, <1>15, <1>16, <1>17 DEF HandlerStep

(* The steps that are not a handler's: the user, the poll, the daemon. *)
LEMMA OtherStepKeepsGuard ==
  ASSUME GuardInv, TypeOK, Next, \A t \in Handlers : ~HandlerStep(t)
  PROVE  GuardInv'
<1>1. CASE SetTarget \/ PollSend \/ Load \/ Listen \/ Die \/ Work
  BY <1>1, UntouchedKeeps DEF SetTarget, PollSend, Load, Listen, Die, Work
<1>2. ASSUME NEW t \in Handlers, NEW pc \in Pcs, NEW who \in Owners, Begin(t, pc, who),
             UNCHANGED operationInProgress
      PROVE  GuardInv'
  <2> DEFINE r == [Idle EXCEPT !.pc = pc, !.who = who]
  <2>1. r \in Threads /\ ~r.guarded
    BY DEF Idle, Threads, Owners
  <2>2. ~thread[t].guarded
    BY <1>2, IdleIsFree DEF Begin, Working
  <2> QED BY <1>2, <2>1, <2>2, BeginKeeps DEF Begin
<1>3. ASSUME NEW u \in Users, SignIn(u) PROVE GuardInv'
  <2>1. PICK t \in Logins : Begin(t, "readConfig", u)
    BY <1>3 DEF SignIn
  <2> QED BY <1>2, <1>3, <2>1 DEF SignIn, Handlers, Pcs, Owners
<1>4. CASE SignOut
  BY <1>2, <1>4, NamedHandlers DEF SignOut, Pcs, Owners
<1>5. CASE Quit
  BY <1>2, <1>5, NamedHandlers DEF Quit, Pcs, Owners
<1>6. ASSUME NEW pc \in {"start", "stop"}, NEW again \in BOOLEAN, Press(pc, again)
      PROVE  GuardInv'
  <2> DEFINE r == [Idle EXCEPT !.pc = pc, !.again = again, !.guarded = TRUE]
  <2>1. r \in Threads /\ r.guarded = TRUE /\ r.pc \in Working
    BY DEF Idle, Threads, Owners, Pcs, Working
  <2> QED BY <1>6, <2>1, MarkSet, NamedHandlers DEF Press
<1>7. CASE Relaunch
  BY <1>7, IdleTyped DEF Relaunch, GuardInv, GuardOwned
<1>8. CASE PollAnswer
  <2>1. CASE UNCHANGED thread
    BY <1>8, <2>1, UntouchedKeeps DEF PollAnswer
  <2>2. CASE thread["version"].pc = "idle"
             /\ thread' = [thread EXCEPT !["version"] = [Idle EXCEPT !.pc = "check"]]
    <3> DEFINE r == [Idle EXCEPT !.pc = "check"]
    <3>1. r \in Threads /\ ~r.guarded
      BY DEF Idle, Threads, Owners, Pcs
    <3>2. "version" \in Handlers /\ ~thread["version"].guarded
      BY <2>2, NamedHandlers, IdleIsFree DEF Working
    <3> QED BY <1>8, <2>2, <3>1, <3>2, BeginKeeps DEF PollAnswer
  <2> QED BY <1>8, <2>1, <2>2 DEF PollAnswer
<1> QED BY <1>1, <1>3, <1>4, <1>5, <1>6, <1>7, <1>8 DEF Next

-----------------------------------------------------------------------------
LEMMA InitTyped == ASSUME Init PROVE TypeOK /\ GuardInv
<1>1. NoDaemon \in Daemons
  BY DEF NoDaemon, Daemons, Owners
<1>2. daemon \in Daemons
  <2>1. CASE daemon = NoDaemon
    BY <1>1, <2>1
  <2>2. ASSUME NEW new \in BOOLEAN,
               daemon = [st |-> "up", tok |-> token, new |-> new, busy |-> FALSE]
        PROVE  daemon \in Daemons
    BY <2>2 DEF Init, Daemons
  <2> QED BY <2>1, <2>2 DEF Init
<1>3. thread \in [Handlers -> Threads] /\ \A t \in Handlers : ~thread[t].guarded
  BY IdleTyped DEF Init
<1>4. TypeOK
  <2>1. /\ user = None /\ token \in Owners /\ sidecar = token /\ byHand = TRUE
        /\ targetApiBaseUrl = FALSE /\ quitting = FALSE /\ currentState = "stopped"
        /\ pendingVersionRestart = FALSE /\ poll = "idle" /\ calm = TRUE /\ apart = TRUE /\ acts = 0 /\ mishaps = 0
    BY Zenon DEF Init
  <2>3. Rest
    <3>1. user \in Owners /\ token \in Owners /\ sidecar \in Owners
      BY <2>1 DEF Owners
    <3>2. /\ byHand \in BOOLEAN /\ targetApiBaseUrl \in BOOLEAN /\ quitting \in BOOLEAN
          /\ pendingVersionRestart \in BOOLEAN /\ calm \in BOOLEAN /\ apart \in BOOLEAN
      BY <2>1, Zenon
    <3>3. acts \in 0..MaxActs /\ mishaps \in 0..MaxMishaps
      BY <2>1, DesktopAssumption
    <3> QED BY <2>1, <3>1, <3>2, <3>3 DEF Rest
  <2>2. operationInProgress \in BOOLEAN
    BY DEF Init
  <2> QED BY <1>2, <1>3, <2>2, <2>3 DEF TypeOK, Rest, Daemons, Threads
<1>5. GuardInv
  BY <1>3 DEF Init, GuardInv, GuardOwned
<1> QED BY <1>4, <1>5

(* What each step makes of the daemon. *)
LEMMA DaemonTyped ==
  ASSUME TypeOK, Next PROVE daemon' \in Daemons
<1>1. daemon \in Daemons /\ NoDaemon \in Daemons /\ Booting \in Daemons
  BY DEF TypeOK, NoDaemon, Booting, Daemons, Owners
<1>2. CASE Load
  BY <1>1, <1>2 DEF Load, TypeOK, Daemons, Owners
<1>3. CASE Listen
  BY <1>1, <1>3 DEF Listen, Daemons
<1>4. CASE Die
  BY <1>1, <1>4 DEF Die
<1>5. CASE Work
  BY <1>1, <1>5 DEF Work, Daemons
<1>6. ASSUME NEW t \in Handlers, HandlerStep(t) PROVE daemon' \in Daemons
  <2>1. CASE Stop(t)
    BY <1>1, <2>1 DEF Stop, procs
  <2>2. CASE Spawn(t)
    BY <1>1, <2>2 DEF Spawn
  <2> QED BY <1>1, <1>6, <2>1, <2>2 DEF HandlerStep, ReadConfig, ReadUser, Mint, SaveToken, SaveUser,
             SwitchUser, AutoStart, CheckVersion, ClearRead, ClearToken, ClearUser, Guard, StopCall,
             Start, Spawned, procs
<1> QED BY <1>1, <1>2, <1>3, <1>4, <1>5, <1>6 DEF Next, SetTarget, SignOut, Quit, Relaunch, SignIn,
           Press, PollSend, PollAnswer, procs

(* The bounds, and the variables that only take values written out. *)
LEMMA CountsTyped ==
  ASSUME TypeOK, Act \/ Mishap \/ UNCHANGED counts
  PROVE  acts' \in 0..MaxActs /\ mishaps' \in 0..MaxMishaps
BY DesktopAssumption DEF TypeOK, Act, Mishap, counts

LEMMA RestTyped ==
  ASSUME TypeOK, Next PROVE Rest'
<1> USE DEF TypeOK, Rest, state, app, disk, procs, counts
<1>1. ASSUME NEW t \in Handlers, HandlerStep(t) PROVE Rest'
  <2>1. thread[t].who \in Owners /\ thread[t].cfg \in Owners
    OBVIOUS
  <2>2. ASSUME NoFault \/ Fault
        PROVE  calm' \in BOOLEAN /\ apart' \in BOOLEAN /\ acts' \in 0..MaxActs /\ mishaps' \in 0..MaxMishaps
    BY <2>2, CountsTyped DEF NoFault, Fault
  <2>3. CASE ReadConfig(t)
    BY <2>1, <2>2, <2>3 DEF ReadConfig
  <2>4. CASE ReadUser(t)
    BY <2>1, <2>2, <2>4 DEF ReadUser
  <2>5. CASE Mint(t)
    BY <2>1, <2>2, <2>5 DEF Mint
  <2>6. CASE SaveToken(t)
    BY <2>1, <2>2, <2>6 DEF SaveToken
  <2>7. CASE SaveUser(t)
    BY <2>1, <2>2, <2>7 DEF SaveUser
  <2>8. CASE SwitchUser(t)
    BY <2>1, <2>2, <2>8 DEF SwitchUser
  <2>9. CASE AutoStart(t)
    BY <2>1, <2>2, <2>9 DEF AutoStart
  <2>10. CASE CheckVersion(t)
    BY <2>1, <2>2, <2>10 DEF CheckVersion, VersionAction
  <2>11. CASE ClearRead(t)
    BY <2>1, <2>2, <2>11 DEF ClearRead
  <2>12. CASE ClearToken(t)
    BY <2>1, <2>2, <2>12 DEF ClearToken, Owners
  <2>13. CASE ClearUser(t)
    BY <2>1, <2>2, <2>13 DEF ClearUser, Owners
  <2>14. CASE Guard(t)
    BY <2>1, <2>2, <2>14 DEF Guard
  <2>15. CASE StopCall(t)
    BY <2>1, <2>2, <2>15 DEF StopCall
  <2>16. CASE Stop(t)
    BY <2>1, <2>2, <2>16 DEF Stop
  <2>17. CASE Start(t)
    BY <2>1, <2>2, <2>17 DEF Start
  <2>18. CASE Spawn(t)
    BY <2>1, <2>2, <2>18 DEF Spawn
  <2>19. CASE Spawned(t)
    BY <2>1, <2>2, <2>19 DEF Spawned
  <2> QED BY <1>1, <2>3, <2>4, <2>5, <2>6, <2>7, <2>8, <2>9, <2>10, <2>11, <2>12, <2>13, <2>14, <2>15, <2>16, <2>17, <2>18, <2>19 DEF HandlerStep
<1>2. CASE SetTarget
  BY <1>2, CountsTyped DEF SetTarget, NoFault
<1>3. CASE SignOut
  BY <1>3, CountsTyped DEF SignOut, Owners, Act, Quiet
<1>4. CASE Quit
  BY <1>4, CountsTyped DEF Quit, Act, Quiet
<1>5. CASE Relaunch
  BY <1>5, CountsTyped DEF Relaunch, Mishap, Quiet, Owners
<1>6. CASE PollSend
  BY <1>6, CountsTyped DEF PollSend, NoFault
<1>7. CASE PollAnswer
  BY <1>7, CountsTyped DEF PollAnswer, NoFault
<1>8. CASE Load
  BY <1>8, CountsTyped DEF Load, NoFault
<1>9. CASE Listen
  BY <1>9, CountsTyped DEF Listen, NoFault
<1>10. CASE Die
  BY <1>10, CountsTyped DEF Die, Fault, Mishap
<1>11. CASE Work
  BY <1>11, CountsTyped DEF Work, NoFault
<1>12. ASSUME NEW u \in Users, SignIn(u) PROVE Rest'
  BY <1>12, CountsTyped DEF SignIn, Act, Quiet, Owners
<1>13. ASSUME NEW pc, NEW again, Press(pc, again) PROVE Rest'
  BY <1>13, CountsTyped DEF Press, Act, Quiet
<1> QED BY <1>1, <1>2, <1>3, <1>4, <1>5, <1>6, <1>7, <1>8, <1>9, <1>10, <1>11, <1>12, <1>13 DEF Next

-----------------------------------------------------------------------------
(* The types of the state, whatever is done and whatever goes wrong; with  *)
(* it, what the calls through withGuard rely on.                           *)
LEMMA StepTypedAndGuarded ==
  ASSUME TypeOK, GuardInv, [Next]_vars PROVE TypeOK' /\ GuardInv'
<1>1. CASE UNCHANGED vars
  BY <1>1 DEF vars, TypeOK, GuardInv, GuardOwned, state, app, disk, procs, counts
<1>2. CASE Next
  <2>1. GuardInv'
    BY <1>2, HandlerStepKeepsGuard, OtherStepKeepsGuard
  <2>2. TypeOK'
    BY <1>2, <2>1, DaemonTyped, RestTyped DEF TypeOK, GuardInv, Threads, Daemons, Rest
  <2> QED BY <2>1, <2>2
<1> QED BY <1>1, <1>2

(* The state keeps its types in every behaviour of the app, the daemon and *)
(* the user: what daemon-manager.ts declares of its variables.             *)
THEOREM TypeCorrect == Spec => []TypeOK
<1>1. Init => TypeOK /\ GuardInv
  BY InitTyped
<1>2. TypeOK /\ GuardInv /\ [Next]_vars => (TypeOK /\ GuardInv)'
  BY StepTypedAndGuarded
<1> QED BY <1>1, <1>2, PTL DEF Spec

(* withGuard excludes: of the calls that go through it at most one is at   *)
(* work, and its flag is set exactly as long as one is, for any number of  *)
(* logins, failures and launches.                                          *)
THEOREM GuardIsOwned == Spec => []GuardOwned
<1>1. Init => TypeOK /\ GuardInv
  BY InitTyped
<1>2. TypeOK /\ GuardInv /\ [Next]_vars => (TypeOK /\ GuardInv)'
  BY StepTypedAndGuarded
<1>3. GuardInv => GuardOwned
  BY DEF GuardInv
<1> QED BY <1>1, <1>2, <1>3, PTL DEF Spec

-----------------------------------------------------------------------------
(* What a handler does between the moment a user signs in or out and the   *)
(* moment it has seen to it that the daemon follows.                       *)
LoginPcs == {"readConfig", "readUser", "mint", "saveToken", "saveUser", "switch"}
ClearPcs == {"clearRead", "clearToken", "clearUser", "guard"}
Alone(t) ==
  \/ thread[t].pc \in LoginPcs \cup ClearPcs
  \/ t = "logout" /\ thread[t].pc \in {"stop", "stopping"}
Unsettled == {"readConfig", "readUser", "mint", "saveToken", "saveUser",
              "clearRead", "clearToken", "clearUser"}

LogoutPath ==
  /\ thread["logout"].pc \in ClearPcs \cup {"idle", "stop", "stopping"} /\ ~thread["logout"].again
  /\ \A t \in Handlers : thread[t].pc \in ClearPcs => t = "logout"

Exclusion ==
  \A t \in Handlers : Alone(t) =>
    /\ \A o \in Handlers : o # t => thread[o].pc = "idle"
    /\ daemon.st \in {"down", "up"} /\ ~pendingVersionRestart /\ targetApiBaseUrl

Login(t) ==
  LET r == thread[t] IN
  /\ r.pc = "readConfig" => token = sidecar /\ r.who = user
  /\ r.pc = "readUser"   => token = sidecar /\ r.who = user /\ r.cfg = token
  /\ r.pc = "mint"       => token = sidecar /\ r.who = user /\ r.prev = sidecar
  /\ r.pc = "saveToken"  => token = sidecar /\ r.who = user /\ r.prev = sidecar /\ r.cfg = user
  /\ r.pc = "saveUser"   => token = user /\ r.who = user /\ (Up => daemon.tok = r.prev)
Logout(t) ==
  LET r == thread[t] IN
  /\ r.pc \in {"clearRead", "clearToken", "clearUser"} => user = None
  /\ r.pc = "clearUser" => token = None

Settled ==
  (\A t \in Handlers : thread[t].pc \notin Unsettled)
    => token = sidecar /\ (user # None => token = user)

Replaces(t) ==
  \/ thread[t].pc \in {"saveUser", "switch", "clearUser", "guard"}
  \/ t \in {"logout", "switch"} /\ thread[t].pc \in {"stop", "stopping"}

DaemonFollows ==
  /\ daemon.st \in {"loaded", "up"} => daemon.tok # None
  /\ daemon.st = "loaded" => daemon.tok = token
  /\ Up /\ daemon.tok # token => \E t \in Handlers : Replaces(t)
  /\ thread["switch"].pc # "idle" => targetApiBaseUrl

Orderly == /\ LogoutPath /\ Exclusion /\ (\A t \in Handlers : Login(t) /\ Logout(t)) /\ Settled /\ DaemonFollows
CalmInv == calm => Orderly

-----------------------------------------------------------------------------
(* A handler that works alone goes on to a place where it is still alone,  *)
(* or to one that is nobody's business: the others are idle all along.     *)
LEMMA AloneGoesOn ==
  ASSUME TypeOK, Orderly, NEW t \in Handlers, Alone(t), NEW r \in Threads,
         thread' = [thread EXCEPT ![t] = r],
         IF t = "logout" THEN r.pc \in ClearPcs \cup {"idle", "stop", "stopping"} /\ ~r.again
                         ELSE r.pc \in LoginPcs \cup {"idle", "auto"},
         daemon'.st \in {"down", "up"}, UNCHANGED <<pendingVersionRestart, targetApiBaseUrl>>,
         Login(t)', Logout(t)', Settled', DaemonFollows'
  PROVE  Orderly'
<1>1. \A o \in Handlers : o # t => thread[o].pc = "idle" /\ thread'[o] = thread[o]
  BY DEF Orderly, Exclusion
<1>2. thread'[t] = r
  BY DEF TypeOK
<1>3. LogoutPath'
  BY <1>1, <1>2, NamedHandlers DEF Orderly, LogoutPath, ClearPcs, LoginPcs
<1>4. Exclusion'
  BY <1>1 DEF Orderly, Exclusion, Alone, LoginPcs, ClearPcs
<1>5. ASSUME NEW o \in Handlers PROVE Login(o)' /\ Logout(o)'
  BY <1>1, <1>5 DEF Login, Logout, Up
<1> QED BY <1>3, <1>4, <1>5 DEF Orderly

(* Nobody works alone while a handler is somewhere else. *)
LEMMA NobodyAlone ==
  ASSUME Orderly, NEW t \in Handlers, thread[t].pc # "idle", ~Alone(t)
  PROVE  t # "logout" /\ \A o \in Handlers : ~Alone(o)
BY DEF Orderly, Exclusion, LogoutPath, Alone

(* A step of a handler that neither signs in nor signs out leaves the      *)
(* session as it is; what is left to see is the daemon.                    *)
LEMMA OrdinaryGoesOn ==
  ASSUME TypeOK, Orderly, NEW t \in Handlers, thread[t].pc # "idle", ~Alone(t), NEW r \in Threads,
         thread' = [thread EXCEPT ![t] = r], r.pc \in Working \cup {"idle", "auto", "check"},
         UNCHANGED <<user, token, sidecar>>, DaemonFollows'
  PROVE  Orderly'
<1>1. t # "logout" /\ \A o \in Handlers : ~Alone(o)
  BY NobodyAlone
<1>2. \A o \in Handlers : thread'[o] = IF o = t THEN r ELSE thread[o]
  BY DEF TypeOK
<1>3. \A o \in Handlers : ~Alone(o)'
  BY <1>1, <1>2 DEF Alone, Working, LoginPcs, ClearPcs
<1>4. LogoutPath'
  BY <1>1, <1>2, NamedHandlers DEF Orderly, LogoutPath, ClearPcs, Working
<1>5. \A o \in Handlers : Login(o)' /\ Logout(o)'
  BY <1>3 DEF Alone, LoginPcs, ClearPcs, Login, Logout
<1>6. Settled'
  BY <1>1 DEF Orderly, Settled, Alone, Unsettled, LoginPcs, ClearPcs
<1> QED BY <1>3, <1>4, <1>5, <1>6 DEF Orderly, Exclusion

(* The daemon goes on, or a new one comes up, while no handler's place     *)
(* matters to it.                                                          *)
LEMMA FollowsStill ==
  ASSUME TypeOK, Orderly, NEW t \in Handlers, thread[t].pc # "idle", ~Alone(t), NEW r \in Threads,
         thread' = [thread EXCEPT ![t] = r], UNCHANGED <<token, targetApiBaseUrl>>,
         \/ UNCHANGED daemon
         \/ daemon'.st \in {"down", "boot"},
         t = "switch" /\ Up => ~Replaces(t) \/ Replaces(t)' \/ ~Up'
  PROVE  DaemonFollows'
<1>1. t # "logout" /\ \A o \in Handlers : ~Alone(o)
  BY NobodyAlone
<1>2. \A o \in Handlers : thread'[o] = IF o = t THEN r ELSE thread[o]
  BY DEF TypeOK
<1>3. \A o \in Handlers : Replaces(o) => o = "switch"
  BY <1>1 DEF Replaces, Alone, LoginPcs, ClearPcs
<1>4. "switch" \in Handlers
  BY NamedHandlers
<1>5. thread'["switch"].pc # "idle" => targetApiBaseUrl'
  BY <1>2, <1>4 DEF Orderly, DaemonFollows
<1>6. daemon'.st \in {"loaded", "up"} => daemon'.tok # None
  BY DEF Orderly, DaemonFollows
<1>7. daemon'.st = "loaded" => daemon'.tok = token'
  BY DEF Orderly, DaemonFollows
<1>8. ASSUME Up', daemon'.tok # token' PROVE \E o \in Handlers : Replaces(o)'
  <2>1. Up /\ daemon.tok # token
    BY <1>8 DEF Up
  <2>2. Replaces("switch")
    BY <2>1, <1>3 DEF Orderly, DaemonFollows
  <2>3. CASE t = "switch"
    BY <1>8, <2>1, <2>2, <2>3
  <2>4. CASE t # "switch"
    BY <1>2, <1>4, <2>2, <2>4 DEF Replaces
  <2> QED BY <2>3, <2>4
<1> QED BY <1>5, <1>6, <1>7, <1>8 DEF DaemonFollows

-----------------------------------------------------------------------------
(* The steps of a sign-in, each with what it relies on. *)
LEMMA LoginKeepsOrder ==
  ASSUME TypeOK, Orderly, NEW t \in Handlers, calm',
         ReadConfig(t) \/ ReadUser(t) \/ Mint(t) \/ SaveToken(t) \/ SaveUser(t) \/ SwitchUser(t)
  PROVE  Orderly'
<1> USE DEF disk, state, app, procs, counts
<1>1. /\ Alone(t) /\ t # "logout" /\ thread[t] \in Threads
      /\ \A o \in Handlers : o # t => thread[o].pc = "idle"
      /\ daemon.st \in {"down", "up"} /\ ~pendingVersionRestart /\ targetApiBaseUrl
  <2>1. thread[t].pc \in LoginPcs
    BY DEF ReadConfig, ReadUser, Mint, SaveToken, SaveUser, SwitchUser, Step, LoginPcs
  <2> QED BY <2>1 DEF Orderly, Exclusion, LogoutPath, Alone, LoginPcs, ClearPcs, TypeOK, Threads
<1>2. Login(t) /\ DaemonFollows
  BY DEF Orderly
<1>3. ASSUME NEW r \in Threads, thread' = [thread EXCEPT ![t] = r],
             r.pc \in LoginPcs \cup {"auto"}, UNCHANGED <<daemon, pendingVersionRestart, targetApiBaseUrl>>,
             Login(t)', Settled',
             Up /\ daemon.tok # token' => r.pc \in {"saveUser", "switch"}
      PROVE  Orderly'
  <2>1. thread'[t] = r
    BY <1>3 DEF TypeOK
  <2>2. Logout(t)'
    BY <1>3, <2>1 DEF Logout, LoginPcs
  <2>3. DaemonFollows'
    <3>1. thread'["switch"].pc # "idle" => targetApiBaseUrl'
      BY <1>1, <1>3
    <3>2. Up' /\ daemon'.tok # token' => Replaces(t)'
      BY <1>3, <2>1 DEF Up, Replaces
    <3> QED BY <1>1, <1>2, <1>3, <3>1, <3>2 DEF DaemonFollows, Up
  <2> QED BY <1>1, <1>3, <2>2, <2>3, AloneGoesOn
<1>4. CASE ReadConfig(t)
  <2> DEFINE r == [thread[t] EXCEPT !.pc = "readUser", !.cfg = token]
  <2>1. thread[t].pc = "readConfig"
    BY <1>4 DEF ReadConfig
  <2>2. /\ r \in Threads /\ thread' = [thread EXCEPT ![t] = r]
        /\ r.pc = "readUser" /\ r.cfg = token /\ r.who = thread[t].who
    BY <1>1, <1>4 DEF ReadConfig, TypeOK, Threads, Pcs
  <2> HIDE DEF r
  <2>3. thread'[t] = r /\ UNCHANGED <<user, token, sidecar, daemon, pendingVersionRestart, targetApiBaseUrl>>
    BY <1>4, <2>2 DEF ReadConfig, TypeOK
  <2>4. Login(t)' /\ Settled'
    BY <1>2, <2>1, <2>2, <2>3 DEF Login, Settled, Unsettled
  <2>5. ~(Up /\ daemon.tok # token)
    BY <1>1, <1>2, <2>1 DEF DaemonFollows, Replaces
  <2> QED BY <1>3, <2>2, <2>3, <2>4, <2>5 DEF LoginPcs
<1>5. CASE ReadUser(t)
  <2>1. thread[t].pc = "readUser"
    BY <1>5 DEF ReadUser
  <2>2. PICK pc \in {"saveToken", "mint"} :
          /\ thread' = [thread EXCEPT ![t].pc = pc, ![t].prev = sidecar]
          /\ pc = "saveToken" => sidecar = thread[t].who
    BY <1>5 DEF ReadUser
  <2> DEFINE r == [thread[t] EXCEPT !.pc = pc, !.prev = sidecar]
  <2>3. /\ r \in Threads /\ thread' = [thread EXCEPT ![t] = r]
        /\ r.pc = pc /\ r.cfg = thread[t].cfg /\ r.who = thread[t].who /\ r.prev = sidecar
    BY <1>1, <2>2 DEF TypeOK, Threads, Pcs
  <2> HIDE DEF r
  <2>4. thread'[t] = r /\ UNCHANGED <<user, token, sidecar, daemon, pendingVersionRestart, targetApiBaseUrl>>
    BY <1>5, <2>3 DEF ReadUser, TypeOK
  <2>5. Login(t)' /\ Settled'
    BY <1>2, <2>1, <2>2, <2>3, <2>4 DEF Login, Settled, Unsettled
  <2>6. ~(Up /\ daemon.tok # token)
    BY <1>1, <1>2, <2>1 DEF DaemonFollows, Replaces
  <2> QED BY <1>3, <2>2, <2>3, <2>4, <2>5, <2>6 DEF LoginPcs
<1>6. CASE Mint(t)
  <2> DEFINE r == [thread[t] EXCEPT !.pc = "saveToken", !.cfg = thread[t].who]
  <2>1. thread[t].pc = "mint" /\ thread' = [thread EXCEPT ![t].pc = "saveToken", ![t].cfg = thread[t].who]
    BY <1>6 DEF Mint, Fault
  <2>2. /\ r \in Threads /\ thread' = [thread EXCEPT ![t] = r]
        /\ r.pc = "saveToken" /\ r.cfg = thread[t].who /\ r.who = thread[t].who /\ r.prev = thread[t].prev
    BY <1>1, <2>1 DEF TypeOK, Threads, Pcs
  <2> HIDE DEF r
  <2>3. thread'[t] = r /\ UNCHANGED <<user, token, sidecar, daemon, pendingVersionRestart, targetApiBaseUrl>>
    BY <1>6, <2>2 DEF Mint, TypeOK
  <2>4. Login(t)' /\ Settled'
    BY <1>2, <2>1, <2>2, <2>3 DEF Login, Settled, Unsettled
  <2>5. ~(Up /\ daemon.tok # token)
    BY <1>1, <1>2, <2>1 DEF DaemonFollows, Replaces
  <2> QED BY <1>3, <2>2, <2>3, <2>4, <2>5 DEF LoginPcs
<1>7. CASE SaveToken(t)
  <2> DEFINE r == [thread[t] EXCEPT !.pc = "saveUser"]
  <2>1. thread[t].pc = "saveToken" /\ thread' = [thread EXCEPT ![t].pc = "saveUser"] /\ token' = thread[t].cfg
    BY <1>7 DEF SaveToken, Step
  <2>2. /\ r \in Threads /\ thread' = [thread EXCEPT ![t] = r]
        /\ r.pc = "saveUser" /\ r.who = thread[t].who /\ r.prev = thread[t].prev
    BY <1>1, <2>1 DEF TypeOK, Threads, Pcs
  <2> HIDE DEF r
  <2>3. thread'[t] = r /\ UNCHANGED <<user, sidecar, daemon, pendingVersionRestart, targetApiBaseUrl>>
    BY <1>7, <2>2 DEF SaveToken, TypeOK
  <2>4. ~(Up /\ daemon.tok # token)
    BY <1>1, <1>2, <2>1 DEF DaemonFollows, Replaces
  <2>5. Login(t)' /\ Settled'
    BY <1>2, <2>1, <2>2, <2>3, <2>4 DEF Login, Settled, Unsettled, Up
  <2> QED BY <1>3, <2>2, <2>3, <2>4, <2>5 DEF LoginPcs
<1>8. CASE SaveUser(t)
  <2>1. PICK pc \in {"switch", "auto"} :
          /\ thread' = [thread EXCEPT ![t] = [Idle EXCEPT !.pc = pc]]
          /\ pc = "auto" => thread[t].prev \in {None, thread[t].who}
    BY <1>8 DEF SaveUser
  <2>2. thread[t].pc = "saveUser" /\ sidecar' = thread[t].who
    BY <1>8 DEF SaveUser
  <2> DEFINE r == [Idle EXCEPT !.pc = pc]
  <2>3. r \in Threads /\ thread' = [thread EXCEPT ![t] = r] /\ r.pc = pc
    BY <2>1 DEF Idle, Threads, Pcs, Owners
  <2> HIDE DEF r
  <2>4. thread'[t] = r /\ UNCHANGED <<user, token, daemon, pendingVersionRestart, targetApiBaseUrl>>
    BY <1>8, <2>3 DEF SaveUser, TypeOK
  <2>5. Login(t)' /\ Settled'
    BY <1>2, <2>2, <2>3, <2>4 DEF Login, Settled
  <2>6. Up /\ daemon.tok # token => r.pc = "switch"
    BY <1>2, <2>1, <2>2, <2>3 DEF Login, DaemonFollows, Up
  <2> QED BY <1>3, <2>3, <2>4, <2>5, <2>6 DEF LoginPcs
<1>9. CASE SwitchUser(t)
  <2> DEFINE r == [thread[t] EXCEPT !.pc = "auto"]
  <2>1. thread[t].pc = "switch" /\ UNCHANGED <<user, token, sidecar, daemon, pendingVersionRestart, targetApiBaseUrl>>
    BY <1>9 DEF SwitchUser
  <2>2. r \in Threads /\ r.pc = "auto"
    BY <1>1 DEF Threads, Pcs
  <2>3. \A o \in Handlers : thread[o].pc \notin Unsettled
    BY <1>1, <2>1 DEF Unsettled
  <2>4. token = sidecar /\ (user # None => token = user)
    BY <2>3 DEF Orderly, Settled
  <2>5. Settled'
    BY <2>1, <2>4 DEF Settled
  <2>6. CASE ~Up
    <3>1. thread' = [thread EXCEPT ![t] = r]
      BY <1>9, <2>6 DEF SwitchUser, TypeOK
    <3> HIDE DEF r
    <3>2. thread'[t] = r
      BY <2>2, <3>1 DEF TypeOK
    <3>3. Login(t)'
      BY <2>2, <3>2 DEF Login
    <3> QED BY <1>3, <2>1, <2>2, <2>5, <2>6, <3>1, <3>3 DEF LoginPcs
  <2>7. CASE Up
    <3> DEFINE n == [Idle EXCEPT !.pc = "stop", !.again = TRUE]
    <3>1. n \in Threads /\ n.pc = "stop" /\ t # "switch" /\ "switch" \in Handlers /\ "logout" \in Handlers
      BY <1>9, <2>1, <2>7, NamedHandlers DEF Idle, Threads, Pcs, Owners, SwitchUser
    <3>2. thread' = [[thread EXCEPT ![t] = r] EXCEPT !["switch"] = n]
      BY <1>9, <2>7 DEF SwitchUser, TypeOK
    <3> HIDE DEF r, n
    <3>3. \A o \in Handlers : thread'[o] = IF o = "switch" THEN n ELSE IF o = t THEN r ELSE thread[o]
      BY <2>2, <3>1, <3>2 DEF TypeOK
    <3>4. \A o \in Handlers : thread'[o].pc \in {"idle", "auto", "stop"}
                               /\ (thread'[o].pc = "stop" => o = "switch")
      BY <1>1, <2>2, <3>1, <3>3
    <3>5. LogoutPath'
      BY <1>1, <3>1, <3>3, <3>4 DEF Orderly, LogoutPath, ClearPcs
    <3>6. Exclusion'
      BY <3>4 DEF Exclusion, Alone, LoginPcs, ClearPcs
    <3>7. \A o \in Handlers : Login(o)' /\ Logout(o)'
      BY <3>4 DEF Login, Logout
    <3>8. Replaces("switch")'
      BY <3>1, <3>3 DEF Replaces
    <3>9. DaemonFollows'
      BY <1>1, <1>2, <2>1, <3>1, <3>8 DEF DaemonFollows, Up
    <3> QED BY <2>5, <3>5, <3>6, <3>7, <3>9 DEF Orderly
  <2> QED BY <2>6, <2>7
<1> QED BY <1>4, <1>5, <1>6, <1>7, <1>8, <1>9

(* The steps of a sign-out, up to the daemon's stop. *)
LEMMA LogoutKeepsOrder ==
  ASSUME TypeOK, GuardInv, Orderly, NEW t \in Handlers, calm', Alone(t),
         \/ ClearRead(t) \/ ClearToken(t) \/ ClearUser(t) \/ Guard(t)
         \/ StopCall(t) \/ Stop(t)
  PROVE  Orderly'
<1> USE DEF disk, state, app, procs, counts
<1>1. /\ t = "logout" /\ thread[t] \in Threads /\ ~thread[t].again
      /\ \A o \in Handlers : o # t => thread[o].pc = "idle"
      /\ daemon.st \in {"down", "up"} /\ ~pendingVersionRestart /\ targetApiBaseUrl
  <2>1. t = "logout"
    BY DEF ClearRead, ClearToken, ClearUser, Guard, StopCall, Stop, Step, Alone, LoginPcs, ClearPcs,
           Orderly, LogoutPath
  <2> QED BY <2>1 DEF Orderly, Exclusion, LogoutPath, TypeOK, Threads
<1>2. Logout(t) /\ Settled /\ DaemonFollows
  BY DEF Orderly
<1>3. ASSUME NEW r \in Threads, thread' = [thread EXCEPT ![t] = r], ~r.again,
             r.pc \in {"idle", "clearToken", "clearUser", "guard", "stop", "stopping"},
             daemon'.st \in {"down", "up"}, UNCHANGED <<pendingVersionRestart, targetApiBaseUrl>>,
             Up' => daemon' = daemon, Logout(t)', Settled',
             Up' /\ daemon.tok # token' => r.pc \in {"clearUser", "guard", "stop", "stopping"}
      PROVE  Orderly'
  <2>1. thread'[t] = r
    BY <1>3 DEF TypeOK
  <2>2. Login(t)'
    BY <1>3, <2>1 DEF Login
  <2>3. DaemonFollows'
    <3>1. thread'["switch"].pc # "idle" => targetApiBaseUrl'
      BY <1>1, <1>3
    <3>2. Up' /\ daemon'.tok # token' => Replaces(t)'
      BY <1>1, <1>3, <2>1 DEF Up, Replaces
    <3> QED BY <1>1, <1>2, <1>3, <3>1, <3>2 DEF DaemonFollows, Up
  <2>4. r.pc \in ClearPcs \cup {"idle", "stop", "stopping"}
    BY <1>3 DEF ClearPcs
  <2> QED BY <1>1, <1>3, <2>2, <2>3, <2>4, AloneGoesOn
<1>4. ASSUME NEW from, NEW to \in {"clearToken", "clearUser", "guard", "stopping"}, Step(t, from, to),
             UNCHANGED <<daemon, pendingVersionRestart, targetApiBaseUrl>>, Logout(t)', Settled',
             Up /\ daemon.tok # token' => to \in {"clearUser", "guard", "stopping"}
      PROVE  Orderly'
  <2> DEFINE r == [thread[t] EXCEPT !.pc = to]
  <2>1. /\ r \in Threads /\ thread' = [thread EXCEPT ![t] = r] /\ r.pc = to
        /\ r.again = thread[t].again
    BY <1>1, <1>4 DEF Step, TypeOK, Threads, Pcs
  <2> HIDE DEF r
  <2> QED BY <1>1, <1>3, <1>4, <2>1 DEF Up
<1>5. ASSUME NEW from, NEW to, Step(t, from, to)
      PROVE  thread[t].pc = from /\ thread'[t].pc = to
  BY <1>1, <1>5 DEF Step, TypeOK, Threads
<1>6. ASSUME NEW to \in {"idle", "stop"}, UNCHANGED <<user, token, sidecar>>,
             thread'[t].pc = to, \A o \in Handlers : o # t => thread'[o] = thread[o],
             thread[t].pc \in {"guard", "stop", "stopping"}
      PROVE  Logout(t)' /\ Settled'
  BY <1>1, <1>2, <1>6 DEF Logout, Settled, Unsettled
<1>7. CASE ClearRead(t)
  <2> DEFINE to == IF token = None THEN "clearUser" ELSE "clearToken"
  <2>1. Step(t, "clearRead", to) /\ UNCHANGED <<user, token, sidecar, daemon, pendingVersionRestart, targetApiBaseUrl>>
    BY <1>7 DEF ClearRead
  <2>2. to \in {"clearToken", "clearUser"} /\ (to = "clearUser" => token = None)
    OBVIOUS
  <2> HIDE DEF to
  <2>3. thread[t].pc = "clearRead" /\ thread'[t].pc = to
    BY <1>5, <2>1
  <2>4. Logout(t)' /\ Settled'
    BY <1>2, <2>1, <2>2, <2>3 DEF Logout, Settled, Unsettled
  <2>5. ~(Up /\ daemon.tok # token)
    BY <1>1, <1>2, <2>3 DEF DaemonFollows, Replaces
  <2> QED BY <1>4, <2>1, <2>2, <2>4, <2>5
<1>8. CASE ClearToken(t)
  <2>1. Step(t, "clearToken", "clearUser") /\ token' = None
        /\ UNCHANGED <<user, sidecar, daemon, pendingVersionRestart, targetApiBaseUrl>>
    BY <1>8 DEF ClearToken
  <2>2. thread[t].pc = "clearToken" /\ thread'[t].pc = "clearUser"
    BY <1>5, <2>1
  <2>3. Logout(t)' /\ Settled'
    BY <1>2, <2>1, <2>2 DEF Logout, Settled, Unsettled
  <2> QED BY <1>4, <2>1, <2>3
<1>9. CASE ClearUser(t)
  <2>1. Step(t, "clearUser", "guard") /\ sidecar' = None
        /\ UNCHANGED <<user, token, daemon, pendingVersionRestart, targetApiBaseUrl>>
    BY <1>9 DEF ClearUser
  <2>2. thread[t].pc = "clearUser" /\ thread'[t].pc = "guard"
    BY <1>5, <2>1
  <2>3. Logout(t)' /\ Settled'
    BY <1>2, <2>1, <2>2 DEF Logout, Settled
  <2> QED BY <1>4, <2>1, <2>3
<1>10. CASE Guard(t)
  <2>1. ~operationInProgress
    BY <1>1, <1>10 DEF Guard, GuardInv, GuardOwned, Working
  <2> DEFINE r == [thread[t] EXCEPT !.pc = "stop", !.guarded = TRUE]
  <2>2. r \in Threads /\ thread' = [thread EXCEPT ![t] = r] /\ r.pc = "stop" /\ ~r.again
    <3>1. thread' = [thread EXCEPT ![t].pc = "stop", ![t].guarded = TRUE]
      BY <1>10, <2>1 DEF Guard
    <3> QED BY <1>1, <3>1 DEF TypeOK, Threads, Pcs
  <2> HIDE DEF r
  <2>3. /\ thread[t].pc = "guard" /\ thread'[t] = r
        /\ UNCHANGED <<user, token, sidecar, daemon, pendingVersionRestart, targetApiBaseUrl>>
        /\ \A o \in Handlers : o # t => thread'[o] = thread[o]
    BY <1>10, <2>2 DEF Guard, TypeOK
  <2>4. Logout(t)' /\ Settled'
    BY <1>6, <2>2, <2>3
  <2> QED BY <1>1, <1>3, <2>2, <2>3, <2>4 DEF Up
<1>11. CASE StopCall(t)
  <2>1. /\ Step(t, "stop", "stopping")
        /\ UNCHANGED <<user, token, sidecar, daemon, pendingVersionRestart, targetApiBaseUrl>>
    BY <1>11 DEF StopCall
  <2>2. thread[t].pc = "stop" /\ thread'[t].pc = "stopping"
    BY <1>5, <2>1
  <2>3. Logout(t)' /\ Settled'
    BY <1>1, <1>2, <2>1, <2>2 DEF Logout, Settled, Unsettled
  <2> QED BY <1>4, <2>1, <2>3
<1>12. CASE Stop(t)
  <2>1. /\ thread[t].pc = "stopping" /\ daemon' = (IF Up THEN NoDaemon ELSE daemon)
        /\ thread' = [thread EXCEPT ![t] = Idle]
        /\ UNCHANGED <<user, token, sidecar, pendingVersionRestart, targetApiBaseUrl>>
    BY <1>1, <1>12 DEF Stop, Fault, Ended
  <2>2. Idle \in Threads /\ Idle.pc = "idle" /\ ~Idle.again
    BY IdleTyped DEF Idle
  <2>3. thread'[t].pc = "idle" /\ \A o \in Handlers : o # t => thread'[o] = thread[o]
    BY <2>1, <2>2 DEF TypeOK
  <2>4. Logout(t)' /\ Settled'
    BY <1>6, <2>1, <2>3
  <2>5. daemon'.st = "down"
    BY <1>1, <2>1 DEF Up, NoDaemon
  <2> QED BY <1>3, <2>1, <2>2, <2>4, <2>5 DEF Up
<1> QED BY <1>7, <1>8, <1>9, <1>10, <1>11, <1>12

(* The steps of the auto-start, the version check and the restarts. *)
LEMMA OrdinaryKeepsOrder ==
  ASSUME TypeOK, Orderly, NEW t \in Handlers, calm', ~Alone(t), HandlerStep(t)
  PROVE  Orderly'
<1> USE DEF disk, state, app, procs, counts
<1>1. thread[t] \in Threads /\ Idle \in Threads /\ Idle.pc = "idle"
  BY IdleTyped DEF TypeOK, Threads
<1>2. ASSUME NEW r \in Threads, thread[t].pc # "idle",
             thread' = [thread EXCEPT ![t] = r], r.pc \in Working \cup {"idle", "auto", "check"},
             UNCHANGED <<user, token, sidecar, targetApiBaseUrl>>,
             UNCHANGED daemon \/ daemon'.st \in {"down", "boot"},
             t = "switch" /\ Up => ~Replaces(t) \/ Replaces(t)' \/ ~Up'
      PROVE  Orderly'
  BY <1>2, FollowsStill, OrdinaryGoesOn
<1>3. ASSUME NEW from \in {"auto", "stop", "stopping", "start", "spawn"},
             NEW to \in Working \cup {"check"}, Step(t, from, to),
             UNCHANGED <<user, token, sidecar, targetApiBaseUrl>>,
             UNCHANGED daemon \/ daemon'.st \in {"down", "boot"},
             from = "stop" => to = "stopping", from = "stopping" => t # "switch" \/ ~Up'
      PROVE  Orderly'
  <2> DEFINE r == [thread[t] EXCEPT !.pc = to]
  <2>1. r \in Threads /\ thread' = [thread EXCEPT ![t] = r] /\ r.pc = to /\ thread[t].pc = from
    BY <1>1, <1>3 DEF Step, TypeOK, Threads, Pcs, Working
  <2> HIDE DEF r
  <2>2. thread'[t] = r
    BY <2>1 DEF TypeOK
  <2>3. t = "switch" /\ Up => ~Replaces(t) \/ Replaces(t)' \/ ~Up'
    BY <1>3, <2>1, <2>2 DEF Replaces
  <2> QED BY <1>2, <1>3, <2>1, <2>3
<1>4. ASSUME Ended(t), thread[t].pc \in {"check", "stopping", "start", "spawn", "await"},
             UNCHANGED <<user, token, sidecar, targetApiBaseUrl>>,
             UNCHANGED daemon \/ daemon'.st \in {"down", "boot"},
             thread[t].pc = "stopping" => t # "switch" \/ ~Up'
      PROVE  Orderly'
  <2>1. t = "switch" /\ Up => ~Replaces(t) \/ ~Up'
    BY <1>4 DEF Replaces
  <2> QED BY <1>1, <1>2, <1>4, <2>1 DEF Ended
<1>5. CASE AutoStart(t)
  <2>1. PICK to \in {"check", "start"} : Step(t, "auto", to)
    BY <1>5 DEF AutoStart
  <2> QED BY <1>3, <1>5, <2>1 DEF AutoStart, Working
<1>6. CASE CheckVersion(t)
  <2>1. CASE VersionAction = "restart"
    <3> DEFINE r == [thread[t] EXCEPT !.pc = "stop", !.again = TRUE]
    <3>1. r \in Threads /\ thread' = [thread EXCEPT ![t] = r] /\ r.pc = "stop" /\ thread[t].pc = "check"
      BY <1>1, <1>6, <2>1 DEF CheckVersion, TypeOK, Threads, Pcs
    <3> HIDE DEF r
    <3>2. ~Replaces(t)
      BY <3>1 DEF Replaces
    <3> QED BY <1>2, <1>6, <3>1, <3>2 DEF CheckVersion, Working
  <2>2. CASE VersionAction # "restart"
    BY <1>4, <1>6, <2>2 DEF CheckVersion
  <2> QED BY <2>1, <2>2
<1>7. CASE StopCall(t)
  BY <1>3, <1>7 DEF StopCall, Working
<1>8. CASE Stop(t)
  <2>1. /\ thread[t].pc = "stopping" /\ UNCHANGED <<user, token, sidecar, targetApiBaseUrl>>
        /\ daemon' = daemon \/ daemon'.st \in {"down", "boot"}
    BY <1>8 DEF Stop, NoDaemon
  <2>2. t = "switch" => ~Up'
    <3>1. CASE ~targetApiBaseUrl
      BY <2>1, <3>1 DEF Orderly, DaemonFollows
    <3>2. CASE targetApiBaseUrl
      <4>1. daemon' = (IF Up THEN NoDaemon ELSE daemon)
        BY <1>8, <3>2 DEF Stop, Fault
      <4> QED BY <4>1 DEF Up, NoDaemon
    <3> QED BY <3>1, <3>2
  <2>3. CASE Ended(t)
    BY <1>4, <2>1, <2>2, <2>3
  <2>4. CASE thread' = [thread EXCEPT ![t].pc = "start"]
    BY <1>3, <2>1, <2>2, <2>4 DEF Step, Working
  <2> QED BY <1>8, <2>3, <2>4 DEF Stop
<1>9. CASE Start(t)
  BY <1>3, <1>4, <1>9 DEF Start, Step, Working
<1>10. CASE Spawn(t)
  <2>1. /\ thread[t].pc = "spawn" /\ UNCHANGED <<user, token, sidecar, targetApiBaseUrl>>
        /\ daemon' = daemon \/ daemon'.st \in {"down", "boot"}
    BY <1>10 DEF Spawn, Booting, NoDaemon
  <2>2. CASE Ended(t)
    BY <1>4, <2>1, <2>2
  <2>3. CASE thread' = [thread EXCEPT ![t].pc = "await"]
    BY <1>3, <2>1, <2>3 DEF Step, Working
  <2> QED BY <1>10, <2>2, <2>3 DEF Spawn
<1>11. CASE Spawned(t)
  BY <1>4, <1>11 DEF Spawned
<1> QED BY <1>5, <1>6, <1>7, <1>8, <1>9, <1>10, <1>11 DEF HandlerStep, Alone, LoginPcs, ClearPcs,
           ReadConfig, ReadUser, Mint, SaveToken, SaveUser, SwitchUser, ClearRead, ClearToken, ClearUser,
           Guard, Step

-----------------------------------------------------------------------------
(* What begins while nothing is at work. *)
LEMMA BeginsInOrder ==
  ASSUME TypeOK, Orderly, Quiet, ~pendingVersionRestart, NEW t \in Handlers, NEW r \in Threads,
         thread' = [thread EXCEPT ![t] = r],
         \/ t = "logout" /\ r.pc = "clearRead" /\ user' = None
         \/ t \in Logins /\ r.pc = "readConfig" /\ r.who = user'
         \/ t \notin {"logout", "switch"} /\ r.pc \in {"start", "stop"} /\ UNCHANGED user,
         ~r.again \/ t # "logout", t \in {"button", "quit"} \/ targetApiBaseUrl,
         UNCHANGED <<token, sidecar, daemon, pendingVersionRestart, targetApiBaseUrl>>
  PROVE  Orderly'
<1>1. \A o \in Handlers : thread'[o] = IF o = t THEN r ELSE thread[o]
  BY DEF TypeOK
<1>2. \A o \in Handlers : o # t => thread'[o].pc = "idle"
  BY <1>1 DEF Quiet
<1>3. thread'[t] = r /\ r.pc \in {"clearRead", "readConfig", "start", "stop"}
  BY <1>1
<1>4. token = sidecar /\ (user # None => token = user)
  BY DEF Quiet, Orderly, Settled, Unsettled
<1>5. ~(Up /\ daemon.tok # token)
  BY DEF Quiet, Orderly, DaemonFollows, Replaces
<1>6. LogoutPath'
  <2>1. ASSUME NEW o \in Handlers, thread'[o].pc \in ClearPcs PROVE o = "logout"
    BY <1>2, <1>3, <2>1, DesktopAssumption DEF ClearPcs
  <2>2. thread'["logout"].pc \in ClearPcs \cup {"idle", "stop", "stopping"} /\ ~thread'["logout"].again
    <3>1. CASE t = "logout"
      BY <1>3, <3>1, DesktopAssumption DEF ClearPcs
    <3>2. CASE t # "logout"
      BY <1>1, <3>2, NamedHandlers DEF Orderly, LogoutPath
    <3> QED BY <3>1, <3>2
  <2> QED BY <2>1, <2>2 DEF LogoutPath
<1>7. Exclusion'
  <2>1. ASSUME NEW o \in Handlers, Alone(o)'
        PROVE  o = t
    BY <1>2, <2>1 DEF Alone, LoginPcs, ClearPcs
  <2>2. ASSUME Alone(t)' PROVE targetApiBaseUrl
    <3>1. r.pc \notin {"start", "stop"} \/ t = "logout"
      BY <1>3, <2>2 DEF Alone, LoginPcs, ClearPcs
    <3>2. CASE t \in {"button", "quit"}
      BY <3>1, <3>2, DesktopAssumption
    <3> QED BY <3>2
  <2> QED BY <1>2, <2>1, <2>2 DEF Exclusion, Quiet
<1>8. ASSUME NEW o \in Handlers PROVE Login(o)' /\ Logout(o)'
  <2>1. CASE o # t
    BY <1>2, <2>1 DEF Login, Logout
  <2>2. CASE o = t
    BY <1>3, <1>4, <2>2 DEF Login, Logout
  <2> QED BY <2>1, <2>2
<1>9. Settled'
  <2>1. thread'[t].pc \in {"clearRead", "readConfig"} \/ UNCHANGED user
    BY <1>3
  <2> QED BY <1>4, <2>1 DEF Settled, Unsettled
<1>10. DaemonFollows'
  <2>1. thread'["switch"].pc # "idle" => targetApiBaseUrl
    BY <1>2, NamedHandlers
  <2> QED BY <1>5, <2>1 DEF Orderly, DaemonFollows, Up
<1> QED BY <1>6, <1>7, <1>8, <1>9, <1>10 DEF Orderly

(* What the daemon does by itself. *)
LEMMA DaemonGoesOn ==
  ASSUME TypeOK, Orderly, UNCHANGED <<thread, user, token, sidecar, pendingVersionRestart, targetApiBaseUrl>>,
         daemon.st \in {"down", "up"} => daemon'.st = daemon.st /\ daemon'.tok = daemon.tok,
         DaemonFollows'
  PROVE  Orderly'
<1>1. LogoutPath' /\ Exclusion' /\ Settled'
  BY DEF Orderly, LogoutPath, Exclusion, Settled, Alone
<1>2. ASSUME NEW t \in Handlers PROVE Login(t)' /\ Logout(t)'
  <2>1. Login(t) /\ Logout(t)
    BY DEF Orderly
  <2>2. thread[t].pc = "saveUser" => daemon.st \in {"down", "up"}
    BY DEF Orderly, Exclusion, Alone, LoginPcs
  <2> QED BY <2>1, <2>2 DEF Login, Logout, Up
<1> QED BY <1>1, <1>2 DEF Orderly

(* Everything that is not a handler's step. *)
LEMMA OtherKeepsOrder ==
  ASSUME TypeOK, Orderly, calm', Next, \A t \in Handlers : ~HandlerStep(t)
  PROVE  Orderly'
<1> USE DEF disk, state, app, procs, counts
<1>1. CASE SetTarget
  <2>1. \A t \in Handlers : Login(t)' /\ Logout(t)'
    BY <1>1 DEF SetTarget, Orderly, Login, Logout, Up
  <2> QED BY <1>1, <2>1 DEF SetTarget, Orderly, LogoutPath, Exclusion, Settled, DaemonFollows, Up,
             Alone, Replaces
<1>2. ASSUME NEW t \in Handlers, NEW pc \in Pcs, NEW who \in Owners, Begin(t, pc, who)
      PROVE  \E r \in Threads : /\ thread' = [thread EXCEPT ![t] = r]
                                /\ r.pc = pc /\ r.who = who /\ ~r.again
  <2> DEFINE r == [Idle EXCEPT !.pc = pc, !.who = who]
  <2>1. r \in Threads /\ r.pc = pc /\ r.who = who /\ ~r.again
    BY DEF Idle, Threads, Owners
  <2>2. thread' = [thread EXCEPT ![t] = r]
    BY <1>2 DEF Begin
  <2> QED BY <2>1, <2>2
<1>3. ASSUME Act PROVE Quiet /\ ~pendingVersionRestart
  BY <1>3 DEF Act
<1>4. ASSUME NEW u \in Users, SignIn(u) PROVE Orderly'
  <2>1. PICK t \in Logins : Begin(t, "readConfig", u)
    BY <1>4 DEF SignIn
  <2>2. t \in Handlers /\ t \in Logins /\ t # "logout" /\ u \in Owners /\ "readConfig" \in Pcs
    BY DesktopAssumption DEF Handlers, Owners, Pcs
  <2>3. PICK r \in Threads : /\ thread' = [thread EXCEPT ![t] = r]
                             /\ r.pc = "readConfig" /\ r.who = u /\ ~r.again
    BY <1>2, <2>1, <2>2
  <2> QED BY <1>3, <1>4, <2>2, <2>3, BeginsInOrder DEF SignIn
<1>5. CASE SignOut
  <2>1. "logout" \in Handlers /\ "clearRead" \in Pcs /\ None \in Owners
    BY NamedHandlers DEF Pcs, Owners
  <2>2. PICK r \in Threads : /\ thread' = [thread EXCEPT !["logout"] = r]
                             /\ r.pc = "clearRead" /\ r.who = None /\ ~r.again
    BY <1>2, <1>5, <2>1 DEF SignOut
  <2> QED BY <1>3, <1>5, <2>1, <2>2, BeginsInOrder DEF SignOut
<1>6. CASE Quit
  <2>1. "quit" \in Handlers /\ "stop" \in Pcs /\ None \in Owners
    BY NamedHandlers DEF Pcs, Owners
  <2>2. PICK r \in Threads : /\ thread' = [thread EXCEPT !["quit"] = r]
                             /\ r.pc = "stop" /\ r.who = None /\ ~r.again
    BY <1>2, <1>6, <2>1 DEF Quit
  <2> QED BY <1>3, <1>6, <2>1, <2>2, BeginsInOrder DEF Quit
<1>7. ASSUME NEW pc \in {"start", "stop"}, NEW again \in BOOLEAN, Press(pc, again)
      PROVE  Orderly'
  <2> DEFINE r == [Idle EXCEPT !.pc = pc, !.again = again, !.guarded = TRUE]
  <2>1. r \in Threads /\ r.pc = pc
    BY DEF Idle, Threads, Owners, Pcs
  <2>2. "button" \in Handlers /\ thread' = [thread EXCEPT !["button"] = r]
    BY <1>7, NamedHandlers DEF Press
  <2> HIDE DEF r
  <2> QED BY <1>3, <1>7, <2>1, <2>2, BeginsInOrder DEF Press
<1>8. CASE Relaunch
  <2>1. Quiet /\ thread' = [t \in Handlers |-> Idle] /\ user' = None
        /\ UNCHANGED <<token, sidecar, daemon>>
    BY <1>8 DEF Relaunch
  <2>2. token = sidecar /\ ~(Up /\ daemon.tok # token)
    BY <2>1 DEF Quiet, Orderly, Settled, Unsettled, DaemonFollows, Replaces
  <2>3. \A t \in Handlers : thread'[t].pc = "idle" /\ ~thread'[t].again
    BY <2>1 DEF Idle
  <2>4. LogoutPath' /\ Exclusion'
    BY <2>3, NamedHandlers DEF LogoutPath, Exclusion, Alone, ClearPcs, LoginPcs
  <2>5. \A t \in Handlers : Login(t)' /\ Logout(t)'
    BY <2>3 DEF Login, Logout
  <2>6. DaemonFollows'
    BY <2>1, <2>2, <2>3, NamedHandlers DEF Orderly, DaemonFollows, Up
  <2> QED BY <2>1, <2>2, <2>4, <2>5, <2>6 DEF Orderly, Settled
<1>9. CASE PollSend
  BY <1>9 DEF PollSend, Orderly, LogoutPath, Exclusion, Settled, DaemonFollows, Up, Alone, Replaces,
              Login, Logout
<1>10. CASE PollAnswer
  <2>1. CASE UNCHANGED thread
    BY <1>10, <2>1 DEF PollAnswer, Orderly, LogoutPath, Exclusion, Settled, DaemonFollows, Up, Alone, Replaces,
                       Login, Logout
  <2>2. CASE pendingVersionRestart /\ thread' = [thread EXCEPT !["version"] = [Idle EXCEPT !.pc = "check"]]
    <3> DEFINE r == [Idle EXCEPT !.pc = "check"]
    <3>1. r \in Threads /\ r.pc = "check" /\ "version" \in Handlers /\ thread["version"] \in Threads
      BY NamedHandlers DEF Idle, Threads, Owners, Pcs, TypeOK
    <3>2. thread' = [thread EXCEPT !["version"] = r]
      BY <2>2
    <3> HIDE DEF r
    <3>3. \A o \in Handlers : ~Alone(o)
      BY <2>2 DEF Orderly, Exclusion
    <3>4. \A o \in Handlers : thread'[o] = IF o = "version" THEN r ELSE thread[o]
      BY <3>1, <3>2 DEF TypeOK
    <3>5. UNCHANGED <<user, token, sidecar, daemon, pendingVersionRestart, targetApiBaseUrl>>
      BY <1>10 DEF PollAnswer
    <3>6. LogoutPath'
      BY <3>1, <3>4, NamedHandlers DEF Orderly, LogoutPath, ClearPcs
    <3>7. \A o \in Handlers : ~Alone(o)'
      BY <3>1, <3>3, <3>4 DEF Alone, LoginPcs, ClearPcs
    <3>8. \A o \in Handlers : Login(o)' /\ Logout(o)'
      BY <3>7 DEF Alone, LoginPcs, ClearPcs, Login, Logout
    <3>9. Settled'
      BY <3>3, <3>5 DEF Orderly, Settled, Alone, Unsettled, LoginPcs, ClearPcs
    <3>10. DaemonFollows'
      <4>1. \A o \in Handlers : Replaces(o) => o = "switch"
        BY <3>3 DEF Replaces, Alone, LoginPcs, ClearPcs
      <4>2. Replaces("switch") => Replaces("switch")'
        BY <3>4, NamedHandlers DEF Replaces
      <4>3. thread'["switch"] = thread["switch"] /\ "switch" \in Handlers
        BY <3>4, NamedHandlers
      <4> QED BY <3>5, <4>1, <4>2, <4>3 DEF Orderly, DaemonFollows, Up
    <3> QED BY <3>6, <3>7, <3>8, <3>9, <3>10 DEF Orderly, Exclusion
  <2> QED BY <1>10, <2>1, <2>2 DEF PollAnswer
<1>11. CASE Load
  <2>1. /\ UNCHANGED <<thread, user, token, sidecar, pendingVersionRestart, targetApiBaseUrl>>
        /\ daemon.st = "boot" /\ daemon' = IF token = None THEN NoDaemon ELSE [daemon EXCEPT !.st = "loaded", !.tok = token]
    BY <1>11 DEF Load
  <2>2. IF token = None THEN daemon'.st = "down" ELSE daemon'.st = "loaded" /\ daemon'.tok = token
    BY <2>1 DEF NoDaemon, TypeOK
  <2>3. DaemonFollows'
    BY <2>1, <2>2 DEF DaemonFollows, Orderly, Up
  <2> QED BY <2>1, <2>3, DaemonGoesOn
<1>12. CASE Listen
  <2>1. /\ UNCHANGED <<thread, user, token, sidecar, pendingVersionRestart, targetApiBaseUrl>>
        /\ daemon.st = "loaded" /\ daemon' = [daemon EXCEPT !.st = "up"]
    BY <1>12 DEF Listen
  <2>2. daemon'.st = "up" /\ daemon'.tok = daemon.tok
    BY <2>1 DEF TypeOK
  <2>3. DaemonFollows'
    BY <2>1, <2>2 DEF DaemonFollows, Orderly, Up
  <2> QED BY <2>1, <2>3, DaemonGoesOn
<1>13. CASE Die
  BY <1>13 DEF Die, Fault
<1>14. CASE Work
  <2>1. /\ UNCHANGED <<thread, user, token, sidecar, pendingVersionRestart, targetApiBaseUrl>>
        /\ daemon' = [daemon EXCEPT !.busy = ~@]
    BY <1>14 DEF Work
  <2>2. daemon'.st = daemon.st /\ daemon'.tok = daemon.tok
    BY <2>1 DEF TypeOK
  <2>3. DaemonFollows'
    BY <2>1, <2>2 DEF DaemonFollows, Orderly, Up, Replaces
  <2> QED BY <2>1, <2>2, <2>3, DaemonGoesOn
<1> QED BY <1>1, <1>4, <1>5, <1>6, <1>7, <1>8, <1>9, <1>10, <1>11, <1>12, <1>13, <1>14 DEF Next

-----------------------------------------------------------------------------
(* calm is never regained, and while it lasts the order is kept. *)
LEMMA StepKeepsOrder ==
  ASSUME TypeOK, GuardInv, CalmInv, [Next]_vars PROVE CalmInv'
<1> SUFFICES ASSUME calm' PROVE Orderly'
  BY DEF CalmInv
<1> USE DEF disk, state, app, procs, counts
<1>1. CASE UNCHANGED vars
  BY <1>1 DEF vars, CalmInv, Orderly, LogoutPath, Exclusion, Settled, DaemonFollows, Up, Alone, Replaces,
              Login, Logout
<1>2. CASE Next
  <2>1. calm
    BY <1>2 DEF Next, SetTarget, SignOut, Quit, Relaunch, SignIn, Press, PollSend, PollAnswer, Load, Listen,
           Die, Work, Act, Fault, NoFault, HandlerStep, ReadConfig, ReadUser, Mint, SaveToken, SaveUser,
           SwitchUser, AutoStart, CheckVersion, ClearRead, ClearToken, ClearUser, Guard, StopCall, Stop,
           Start, Spawn, Spawned
  <2>2. Orderly
    BY <2>1 DEF CalmInv
  <2>3. ASSUME NEW t \in Handlers, HandlerStep(t) PROVE Orderly'
    <3>1. CASE ~Alone(t)
      BY <2>2, <2>3, <3>1, OrdinaryKeepsOrder
    <3>2. CASE Alone(t)
      <4>1. ~(AutoStart(t) \/ CheckVersion(t) \/ Start(t) \/ Spawn(t) \/ Spawned(t))
        BY <3>2 DEF Alone, LoginPcs, ClearPcs, AutoStart, CheckVersion, Start, Spawn, Spawned, Step
      <4> QED BY <2>2, <2>3, <3>2, <4>1, LoginKeepsOrder, LogoutKeepsOrder DEF HandlerStep
    <3> QED BY <3>1, <3>2
  <2> QED BY <1>2, <2>2, <2>3, OtherKeepsOrder
<1> QED BY <1>1, <1>2

LEMMA InitOrderly == ASSUME Init PROVE CalmInv
<1>1. \A t \in Handlers : thread[t].pc = "idle" /\ ~thread[t].again
  BY DEF Init, Idle
<1>2. LogoutPath /\ Exclusion
  BY <1>1, NamedHandlers DEF LogoutPath, Exclusion, Alone, ClearPcs, LoginPcs
<1>3. \A t \in Handlers : Login(t) /\ Logout(t)
  BY <1>1 DEF Login, Logout
<1>4. Settled
  BY DEF Init, Settled
<1>5. daemon.st \in {"down", "up"} /\ (Up => daemon.tok = token /\ token # None)
  BY DEF Init, NoDaemon, Up
<1>6. DaemonFollows
  BY <1>1, <1>5, NamedHandlers DEF DaemonFollows, Up
<1> QED BY <1>2, <1>3, <1>4, <1>6 DEF CalmInv, Orderly

(* What holds whenever the app has settled after an orderly session. *)
LEMMA OrderSettles ==
  ASSUME CalmInv, calm, Quiet
  PROVE  token = sidecar /\ (user # None => token = user) /\ (Up => daemon.tok = token)
BY DEF CalmInv, Orderly, Settled, Unsettled, DaemonFollows, Replaces, Quiet

(* In an orderly session the daemon that runs once everything has settled  *)
(* has the credentials of whoever is signed in, although the restart of a  *)
(* user switch, the auto-start and the version check run at a time, for    *)
(* any number of users, sign-ins and launches.                             *)
THEOREM DaemonServesUser == Spec => []ServesUser
<1>1. Init => TypeOK /\ GuardInv /\ CalmInv
  BY InitTyped, InitOrderly
<1>2. TypeOK /\ GuardInv /\ CalmInv /\ [Next]_vars => (TypeOK /\ GuardInv /\ CalmInv)'
  BY StepTypedAndGuarded, StepKeepsOrder
<1>3. CalmInv => ServesUser
  BY OrderSettles DEF ServesUser
<1> QED BY <1>1, <1>2, <1>3, PTL DEF Spec

-----------------------------------------------------------------------------
(* The files.  Of a sync at work the token it has read is one that the     *)
(* sidecar, if it is there still, vouches for, and the one it is about to  *)
(* write is its own user's; sign-outs only ever remove.                    *)
Between == \E t \in Handlers : thread[t].pc = "saveUser"
OneSync == \A t, o \in Handlers : Syncing(t) /\ Syncing(o) => t = o

SyncGoes(t) ==
  LET r == thread[t] IN
  /\ Syncing(t) => r.who \in Users
  /\ r.pc = "readUser"  => r.cfg = None \/ sidecar \in {None, r.cfg}
  /\ r.pc = "saveToken" => r.cfg = r.who
  /\ r.pc = "saveUser"  => token \in {None, r.who}

Vouched  == sidecar # None /\ ~Between => token \in {None, sidecar}
FilesInv == apart => OneSync /\ Vouched /\ \A t \in Handlers : SyncGoes(t)

(* A step that leaves the files alone, and who is syncing where. *)
LEMMA FilesAside ==
  ASSUME FilesInv, apart' => apart, UNCHANGED disk,
         \A t \in Handlers : Syncing(t)' => thread'[t] = thread[t],
         \A t \in Handlers : thread[t].pc = "saveUser" => thread'[t] = thread[t]
  PROVE  FilesInv'
<1> SUFFICES ASSUME apart' PROVE OneSync' /\ Vouched' /\ \A t \in Handlers : SyncGoes(t)'
  BY DEF FilesInv
<1>1. OneSync /\ Vouched /\ \A t \in Handlers : SyncGoes(t)
  BY DEF FilesInv
<1>2. \A t \in Handlers : Syncing(t)' => Syncing(t)
  BY DEF Syncing
<1>3. OneSync'
  BY <1>1, <1>2 DEF OneSync
<1>4. Vouched'
  BY <1>1 DEF Vouched, Between, disk
<1>5. ASSUME NEW t \in Handlers PROVE SyncGoes(t)'
  <2>1. CASE Syncing(t)'
    BY <1>1, <2>1 DEF SyncGoes, Syncing, disk
  <2>2. CASE ~Syncing(t)'
    BY <2>2 DEF SyncGoes, Syncing
  <2> QED BY <2>1, <2>2
<1> QED BY <1>3, <1>4, <1>5

(* A step of the one that syncs: the others sync no more than before. *)
LEMMA SyncMoves ==
  ASSUME TypeOK, FilesInv, apart, UNCHANGED apart, NEW t \in Handlers, Syncing(t), NEW r,
         thread' = [thread EXCEPT ![t] = r], SyncGoes(t)', Vouched'
  PROVE  FilesInv'
<1>1. OneSync /\ \A o \in Handlers : SyncGoes(o)
  BY DEF FilesInv
<1>2. \A o \in Handlers : o # t => ~Syncing(o) /\ thread'[o] = thread[o]
  BY <1>1 DEF OneSync, TypeOK
<1>3. OneSync'
  BY <1>2 DEF OneSync, Syncing
<1>4. \A o \in Handlers : o # t => SyncGoes(o)'
  BY <1>2 DEF SyncGoes, Syncing
<1> QED BY <1>3, <1>4 DEF FilesInv

LEMMA SyncStepsKeepFiles ==
  ASSUME TypeOK, FilesInv, NEW t \in Handlers, apart,
         ReadConfig(t) \/ ReadUser(t) \/ Mint(t) \/ SaveToken(t) \/ SaveUser(t)
  PROVE  FilesInv'
<1> USE DEF disk
<1>1. /\ OneSync /\ Vouched /\ SyncGoes(t) /\ UNCHANGED apart /\ Syncing(t) /\ thread[t].who \in Users
      /\ \A o \in Handlers : o # t => thread[o].pc # "saveUser"
  BY DEF FilesInv, OneSync, SyncGoes, ReadConfig, ReadUser, Mint, SaveToken, SaveUser, Syncing, Step, NoFault, Fault
<1>2. /\ thread \in [Handlers -> Threads] /\ None \notin Users
  BY DesktopAssumption DEF TypeOK, Threads, DesktopAssumption
<1>3. CASE ReadConfig(t)
  <2> DEFINE r == [thread[t] EXCEPT !.pc = "readUser", !.cfg = token]
  <2>1. thread' = [thread EXCEPT ![t] = r] /\ UNCHANGED <<token, sidecar>> /\ thread[t].pc = "readConfig"
    BY <1>2, <1>3 DEF ReadConfig
  <2>2. r.pc = "readUser" /\ r.cfg = token /\ r.who = thread[t].who /\ thread'[t] = r
    BY <1>2, <2>1 DEF Threads
  <2> HIDE DEF r
  <2>3. Vouched' /\ (token = None \/ sidecar \in {None, token})
    BY <1>1, <1>2, <2>1, <2>2 DEF Vouched, Between
  <2>4. SyncGoes(t)'
    BY <1>1, <2>1, <2>2, <2>3 DEF SyncGoes
  <2> QED BY <1>1, <2>1, <2>3, <2>4, SyncMoves
<1>4. CASE ReadUser(t)
  <2>1. PICK pc \in {"saveToken", "mint"} :
          /\ thread' = [thread EXCEPT ![t].pc = pc, ![t].prev = sidecar]
          /\ pc = "saveToken" => sidecar = thread[t].who /\ thread[t].cfg # None
    BY <1>4 DEF ReadUser
  <2> DEFINE r == [thread[t] EXCEPT !.pc = pc, !.prev = sidecar]
  <2>2. thread' = [thread EXCEPT ![t] = r] /\ UNCHANGED <<token, sidecar>> /\ thread[t].pc = "readUser"
    BY <1>2, <1>4, <2>1 DEF ReadUser
  <2>3. r.pc = pc /\ r.cfg = thread[t].cfg /\ r.who = thread[t].who /\ thread'[t] = r
    BY <1>2, <2>2 DEF Threads
  <2> HIDE DEF r
  <2>4. Vouched'
    BY <1>1, <1>2, <2>2, <2>3 DEF Vouched, Between
  <2>5. SyncGoes(t)'
    BY <1>1, <1>2, <2>1, <2>2, <2>3 DEF SyncGoes
  <2> QED BY <1>1, <2>2, <2>4, <2>5, SyncMoves
<1>5. CASE Mint(t)
  <2>1. CASE Ended(t)
    <3>1. thread' = [thread EXCEPT ![t] = Idle] /\ UNCHANGED disk /\ thread[t].pc = "mint"
      BY <1>5, <2>1 DEF Ended, Mint
    <3>2. \A o \in Handlers : thread'[o] = IF o = t THEN Idle ELSE thread[o]
      BY <1>2, <3>1
    <3> QED BY <1>1, <3>1, <3>2, FilesAside, IdleTyped DEF Syncing
  <2>2. CASE thread' = [thread EXCEPT ![t].pc = "saveToken", ![t].cfg = thread[t].who]
    <3> DEFINE r == [thread[t] EXCEPT !.pc = "saveToken", !.cfg = thread[t].who]
    <3>1. thread' = [thread EXCEPT ![t] = r] /\ UNCHANGED <<token, sidecar>> /\ thread[t].pc = "mint"
      BY <1>2, <1>5, <2>2 DEF Mint
    <3>2. r.pc = "saveToken" /\ r.cfg = r.who /\ r.who = thread[t].who /\ thread'[t] = r
      BY <1>2, <3>1 DEF Threads
    <3> HIDE DEF r
    <3>3. Vouched'
      BY <1>1, <1>2, <3>1, <3>2 DEF Vouched, Between
    <3>4. SyncGoes(t)'
      BY <1>1, <3>1, <3>2 DEF SyncGoes
    <3> QED BY <1>1, <3>1, <3>3, <3>4, SyncMoves
  <2> QED BY <1>5, <2>1, <2>2 DEF Mint
<1>6. CASE SaveToken(t)
  <2> DEFINE r == [thread[t] EXCEPT !.pc = "saveUser"]
  <2>1. /\ thread' = [thread EXCEPT ![t] = r] /\ UNCHANGED sidecar /\ token' = thread[t].cfg
        /\ thread[t].pc = "saveToken"
    BY <1>2, <1>6 DEF SaveToken, Step
  <2>2. r.pc = "saveUser" /\ r.cfg = thread[t].cfg /\ r.who = thread[t].who /\ thread'[t] = r
    BY <1>2, <2>1 DEF Threads
  <2> HIDE DEF r
  <2>3. Vouched'
    BY <2>2 DEF Vouched, Between
  <2>4. SyncGoes(t)'
    BY <1>1, <2>1, <2>2 DEF SyncGoes
  <2> QED BY <1>1, <2>1, <2>3, <2>4, SyncMoves
<1>7. CASE SaveUser(t)
  <2>1. PICK pc \in {"switch", "auto"} : thread' = [thread EXCEPT ![t] = [Idle EXCEPT !.pc = pc]]
    BY <1>7 DEF SaveUser
  <2> DEFINE r == [Idle EXCEPT !.pc = pc]
  <2>2. /\ thread' = [thread EXCEPT ![t] = r] /\ UNCHANGED token /\ sidecar' = thread[t].who
        /\ thread[t].pc = "saveUser"
    BY <1>7, <2>1 DEF SaveUser
  <2>3. r.pc = pc /\ thread'[t] = r
    BY <1>2, <2>2 DEF Idle
  <2> HIDE DEF r
  <2>4. Vouched'
    BY <1>1, <2>2 DEF Vouched, SyncGoes
  <2>5. SyncGoes(t)'
    BY <2>3 DEF SyncGoes, Syncing
  <2> QED BY <1>1, <2>2, <2>4, <2>5, SyncMoves
<1> QED BY <1>3, <1>4, <1>5, <1>6, <1>7

(* A sign-out removes the token, then the sidecar, whatever a sync that is *)
(* at work has read or written in between.                                 *)
LEMMA ClearsKeepFiles ==
  ASSUME TypeOK, FilesInv, NEW t \in Handlers, apart, ClearToken(t) \/ ClearUser(t)
  PROVE  FilesInv'
<1>1. /\ OneSync /\ Vouched /\ \A o \in Handlers : SyncGoes(o)
  BY DEF FilesInv
<1>2. PICK pc \in {"clearUser", "guard"} : thread' = [thread EXCEPT ![t].pc = pc]
  BY DEF ClearToken, ClearUser, Step
<1>3. /\ token' \in {None, token} /\ sidecar' \in {None, sidecar} /\ ~Syncing(t)
      /\ sidecar' = sidecar => token' = None \/ UNCHANGED disk
  BY DEF ClearToken, ClearUser, Step, Syncing, disk
<1>4. \A o \in Handlers : thread'[o] = IF o = t THEN [thread[t] EXCEPT !.pc = pc] ELSE thread[o]
  BY <1>2 DEF TypeOK
<1>5. thread'[t].pc = pc
  BY <1>4 DEF TypeOK
<1>6. ~Syncing(t)' /\ \A o \in Handlers : o # t => (Syncing(o)' <=> Syncing(o))
  BY <1>4, <1>5 DEF Syncing
<1>7. OneSync'
  BY <1>1, <1>6 DEF OneSync
<1>8. Between' <=> Between
  BY <1>3, <1>4, <1>5 DEF Between, Syncing
<1>9. Vouched'
  BY <1>1, <1>3, <1>8 DEF Vouched
<1>10. ASSUME NEW o \in Handlers PROVE SyncGoes(o)'
  <2>1. CASE o = t
    BY <1>6, <2>1 DEF SyncGoes, Syncing
  <2>2. CASE o # t
    BY <1>1, <1>3, <1>4, <2>2 DEF SyncGoes, Syncing
  <2> QED BY <2>1, <2>2
<1> QED BY <1>7, <1>9, <1>10 DEF FilesInv

(* The rest of the handlers' steps end, or go on to a place where nothing  *)
(* is synced.                                                              *)
LEMMA HandlersKeepFiles ==
  ASSUME TypeOK, FilesInv, NEW t \in Handlers, HandlerStep(t)
  PROVE  FilesInv'
<1>1. UNCHANGED apart
  BY DEF HandlerStep, ReadConfig, ReadUser, Mint, SaveToken, SaveUser, SwitchUser, AutoStart, CheckVersion,
         ClearRead, ClearToken, ClearUser, Guard, StopCall, Stop, Start, Spawn, Spawned, NoFault, Fault
<1>2. CASE ~apart
  BY <1>1, <1>2 DEF FilesInv
<1>3. CASE apart /\ (ReadConfig(t) \/ ReadUser(t) \/ Mint(t) \/ SaveToken(t) \/ SaveUser(t))
  BY <1>3, SyncStepsKeepFiles
<1>4. CASE apart /\ (ClearToken(t) \/ ClearUser(t))
  BY <1>4, ClearsKeepFiles
<1>5. ASSUME \/ SwitchUser(t) \/ AutoStart(t) \/ CheckVersion(t) \/ ClearRead(t) \/ Guard(t)
             \/ StopCall(t) \/ Stop(t) \/ Start(t) \/ Spawn(t) \/ Spawned(t)
      PROVE  FilesInv'
  <2>1. UNCHANGED disk /\ thread[t].pc # "saveUser"
    BY <1>5 DEF SwitchUser, AutoStart, CheckVersion, ClearRead, Guard, StopCall, Stop, Start, Spawn, Spawned,
                Step, disk
  <2>2. \A o \in Handlers : o # t =>
             thread'[o] = thread[o] \/ (thread'[o].pc = "stop" /\ thread[o].pc = "idle")
    <3>1. CASE SwitchUser(t)
      BY <3>1, NamedHandlers DEF SwitchUser, TypeOK, Idle
    <3>2. CASE ~SwitchUser(t)
      BY <1>5, <3>2 DEF AutoStart, CheckVersion, ClearRead, Guard, StopCall, Stop, Start, Spawn, Spawned,
                  Step, Ended, TypeOK
    <3> QED BY <3>1, <3>2
  <2>3. ~Syncing(t)'
    BY <1>5, NamedHandlers DEF SwitchUser, AutoStart, CheckVersion, ClearRead, Guard, StopCall, Stop, Start,
          Spawn, Spawned, Step, Ended, Syncing, TypeOK, Idle
  <2> QED BY <1>1, <2>1, <2>2, <2>3, FilesAside DEF Syncing
<1> QED BY <1>2, <1>3, <1>4, <1>5 DEF HandlerStep

LEMMA StepKeepsFiles == ASSUME TypeOK, FilesInv, [Next]_vars PROVE FilesInv'
<1> USE DEF disk
<1>1. CASE UNCHANGED vars
  BY <1>1, FilesAside DEF vars
<1>2. ASSUME NEW t \in Handlers, HandlerStep(t) PROVE FilesInv'
  BY <1>2, HandlersKeepFiles
<1>3. CASE SetTarget \/ PollSend \/ Load \/ Listen \/ Die \/ Work
  BY <1>3, FilesAside DEF SetTarget, PollSend, Load, Listen, Die, Work, NoFault, Fault
<1>4. ASSUME NEW t \in Handlers, thread[t].pc = "idle", UNCHANGED disk, UNCHANGED apart,
             thread'[t].pc \in {"clearRead", "start", "stop", "check"},
             \A o \in Handlers : o # t => thread'[o] = thread[o]
      PROVE  FilesInv'
  BY <1>4, FilesAside DEF Syncing
<1>5. ASSUME NEW u \in Users, SignIn(u) PROVE FilesInv'
  <2>1. PICK t \in Handlers : Begin(t, "readConfig", u)
    BY <1>5 DEF SignIn, Handlers
  <2> DEFINE r == [Idle EXCEPT !.pc = "readConfig", !.who = u]
  <2>2. r.pc = "readConfig" /\ r.who = u /\ thread' = [thread EXCEPT ![t] = r] /\ UNCHANGED disk
    BY <1>5, <2>1 DEF SignIn, Begin, Idle
  <2>3. \A o \in Handlers : thread'[o] = IF o = t THEN r ELSE thread[o]
    BY <2>2 DEF TypeOK
  <2> HIDE DEF r
  <2>4. apart' => apart /\ \A o \in Handlers : ~Syncing(o)
    BY <1>5 DEF SignIn
  <2>5. apart' => OneSync' /\ Vouched'
    BY <2>2, <2>3, <2>4 DEF OneSync, Vouched, Between, Syncing, FilesInv
  <2>6. ASSUME apart', NEW o \in Handlers PROVE SyncGoes(o)'
    BY <2>2, <2>3, <2>4, <2>6 DEF SyncGoes, Syncing
  <2> QED BY <2>5, <2>6 DEF FilesInv
<1>6. CASE SignOut
  <2>1. /\ thread["logout"].pc = "idle" /\ UNCHANGED disk /\ UNCHANGED apart
        /\ thread' = [thread EXCEPT !["logout"] = [Idle EXCEPT !.pc = "clearRead", !.who = None]]
    BY <1>6 DEF SignOut, Begin
  <2>2. /\ thread'["logout"].pc = "clearRead"
        /\ \A o \in Handlers : o # "logout" => thread'[o] = thread[o]
    BY <2>1, NamedHandlers DEF TypeOK, Idle
  <2> QED BY <1>4, <2>1, <2>2, NamedHandlers
<1>7. CASE Quit
  <2>1. /\ thread["quit"].pc = "idle" /\ UNCHANGED disk /\ UNCHANGED apart
        /\ thread' = [thread EXCEPT !["quit"] = [Idle EXCEPT !.pc = "stop", !.who = None]]
    BY <1>7 DEF Quit, Begin
  <2>2. /\ thread'["quit"].pc = "stop"
        /\ \A o \in Handlers : o # "quit" => thread'[o] = thread[o]
    BY <2>1, NamedHandlers DEF TypeOK, Idle
  <2> QED BY <1>4, <2>1, <2>2, NamedHandlers
<1>8. ASSUME NEW pc \in {"start", "stop"}, NEW again, Press(pc, again) PROVE FilesInv'
  <2>1. /\ thread["button"].pc = "idle" /\ UNCHANGED disk /\ UNCHANGED apart
        /\ thread' = [thread EXCEPT !["button"] =
                        [Idle EXCEPT !.pc = pc, !.again = again, !.guarded = TRUE]]
    BY <1>8 DEF Press
  <2>2. /\ thread'["button"].pc = pc
        /\ \A o \in Handlers : o # "button" => thread'[o] = thread[o]
    BY <2>1, NamedHandlers DEF TypeOK, Idle
  <2> QED BY <1>4, <2>1, <2>2, NamedHandlers
<1>9. CASE PollAnswer
  <2>1. CASE UNCHANGED thread
    BY <1>9, <2>1, FilesAside DEF PollAnswer, NoFault
  <2>2. CASE thread["version"].pc = "idle"
             /\ thread' = [thread EXCEPT !["version"] = [Idle EXCEPT !.pc = "check"]]
    <3>1. /\ thread'["version"].pc = "check"
          /\ \A o \in Handlers : o # "version" => thread'[o] = thread[o]
      BY <2>2, NamedHandlers DEF TypeOK, Idle
    <3>2. UNCHANGED disk /\ UNCHANGED apart
      BY <1>9 DEF PollAnswer, NoFault
    <3> QED BY <1>4, <2>2, <3>1, <3>2, NamedHandlers
  <2> QED BY <1>9, <2>1, <2>2 DEF PollAnswer
<1>10. CASE Relaunch
  <2>1. /\ \A t \in Handlers : thread'[t] = Idle
        /\ apart' => apart /\ \A t \in Handlers : thread[t].pc # "saveUser"
        /\ UNCHANGED disk
    BY <1>10 DEF Relaunch
  <2>2. \A t \in Handlers : ~Syncing(t)' /\ SyncGoes(t)'
    BY <2>1, IdleTyped DEF Syncing, SyncGoes
  <2>3. apart' => Vouched'
    BY <2>1 DEF FilesInv, Vouched, Between
  <2> QED BY <2>2, <2>3 DEF FilesInv, OneSync
<1> QED BY <1>1, <1>2, <1>3, <1>5, <1>6, <1>7, <1>8, <1>9, <1>10 DEF Next

(* The sidecar never vouches for another user's token, so the next sync    *)
(* that reuses the cached one never hands it to the wrong user, however    *)
(* sign-outs, buttons, failures and launches meet a sync at work.  Left    *)
(* out by apart are two syncs at work at once and a launch that ends       *)
(* between the two writes of one.                                          *)
THEOREM PatStaysWithOwner == Spec => []PatIsOwners
<1>1. Init => TypeOK /\ GuardInv /\ FilesInv
  <2> SUFFICES ASSUME Init PROVE FilesInv
    BY InitTyped
  <2>1. \A t \in Handlers : thread[t].pc = "idle" /\ ~Syncing(t) /\ SyncGoes(t)
    BY IdleTyped DEF Init, Syncing, SyncGoes
  <2> QED BY <2>1 DEF Init, FilesInv, OneSync, Vouched
<1>2. TypeOK /\ GuardInv /\ FilesInv /\ [Next]_vars => (TypeOK /\ GuardInv /\ FilesInv)'
  BY StepTypedAndGuarded, StepKeepsFiles
<1>3. FilesInv => PatIsOwners
  BY DEF FilesInv, Vouched, Between, PatIsOwners
<1> QED BY <1>1, <1>2, <1>3, PTL DEF Spec

=============================================================================
