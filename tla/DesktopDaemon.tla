--------------------------- MODULE DesktopDaemon ---------------------------
(***************************************************************************)
(* How the desktop app keeps one daemon process for whoever is signed in.  *)
(* The main process answers IPC calls with async handlers that interleave  *)
(* at every await; they share the profile's files, the daemon process and  *)
(* a few module variables, and only the calls that go through withGuard    *)
(* exclude each other.  A handler is a thread; a step is what it does      *)
(* between two awaits that others can notice.                              *)
(*                                                                         *)
(* A token is known by the user it was minted for.  The CLI binary is      *)
(* there; the target URL is set once per launch, if the app's              *)
(* configuration can be read at all.                                       *)
(***************************************************************************)
EXTENDS Naturals

CONSTANTS
  Users, None,
  Logins,        \* syncToken-and-autoStart chains that can run at a time
  MaxActs,       \* bound: what the user does
  MaxMishaps     \* bound: failing commands, daemons that die, relaunches

ASSUME DesktopAssumption ==
  /\ None \notin Users
  /\ Logins # {} /\ Logins \cap {"logout", "button", "version", "switch", "quit"} = {}
  /\ MaxActs \in Nat /\ MaxMishaps \in Nat

VARIABLES
  user,                   \* renderer: the user signed in
  token, sidecar,         \* disk: owner of config.json's token; user id file
  daemon,                 \* the process on the profile's health port
  byHand,                 \* the user's own daemon, on the default profile
  targetApiBaseUrl,       \* TRUE once the renderer has set it
  currentState, operationInProgress, pendingVersionRestart,
  thread,                 \* handlers in progress
  poll,                   \* the poll in progress, with the answer it got
  quitting,
  calm, apart,            \* history, see below
  acts, mishaps

disk   == <<token, sidecar>>
procs  == <<daemon, byHand>>
state  == <<currentState, pendingVersionRestart>>
app    == <<targetApiBaseUrl, quitting>>
counts == <<acts, mishaps>>
vars   == <<user, disk, procs, state, operationInProgress, app, thread, poll, calm, apart, counts>>

Handlers == Logins \cup {"logout", "button", "version", "switch", "quit"}

Pcs == {"idle", "readConfig", "readUser", "mint", "saveToken", "saveUser", "switch", "auto",
        "check", "stop", "stopping", "start", "spawn", "await", "clearRead", "clearToken", "clearUser", "guard"}

Idle == [pc |-> "idle", who |-> None, cfg |-> None, prev |-> None,
         again |-> FALSE, guarded |-> FALSE]
NoDaemon == [st |-> "down", tok |-> None, new |-> TRUE, busy |-> FALSE]
Booting  == [NoDaemon EXCEPT !.st = "boot"]

Owners == Users \cup {None}
TypeOK ==
  /\ user \in Owners /\ token \in Owners /\ sidecar \in Owners
  /\ daemon \in [st : {"down", "boot", "loaded", "up"}, tok : Owners, new : BOOLEAN, busy : BOOLEAN]
  /\ byHand \in BOOLEAN /\ targetApiBaseUrl \in BOOLEAN /\ quitting \in BOOLEAN
  /\ currentState \in {"running", "stopped", "starting", "stopping"}
  /\ operationInProgress \in BOOLEAN /\ pendingVersionRestart \in BOOLEAN
  /\ thread \in [Handlers -> [pc : Pcs, who : Owners, cfg : Owners, prev : Owners,
                               again : BOOLEAN, guarded : BOOLEAN]]
  /\ poll \in {"idle", "up", "down"}
  /\ calm \in BOOLEAN /\ apart \in BOOLEAN
  /\ acts \in 0..MaxActs /\ mishaps \in 0..MaxMishaps

(* A first launch, or one after an orderly session of some user, whose     *)
(* daemon may have been left running by an older version of the app.       *)
Init ==
  /\ user = None
  /\ token \in Owners /\ sidecar = token
  /\ daemon \in {NoDaemon} \cup
       {[st |-> "up", tok |-> token, new |-> new, busy |-> FALSE] : new \in BOOLEAN}
  /\ (daemon.st = "up" => token # None)
  /\ byHand = TRUE
  /\ targetApiBaseUrl = FALSE /\ quitting = FALSE
  /\ currentState = "stopped" /\ operationInProgress = FALSE /\ pendingVersionRestart = FALSE
  /\ thread = [t \in Handlers |-> Idle] /\ poll = "idle"
  /\ calm = TRUE /\ apart = TRUE /\ acts = 0 /\ mishaps = 0

Up == daemon.st = "up"

(* No handler runs and no daemon is coming up. *)
Quiet == (\A t \in Handlers : thread[t].pc = "idle") /\ daemon.st \in {"down", "up"}

-----------------------------------------------------------------------------
(* The renderer and the user.  calm is the history of an orderly session:  *)
(* nothing failed, and whenever the user did something no handler was at   *)
(* work and no version restart was waiting to begin on its own.  apart is  *)
(* less: no two syncToken were at work at once, and no launch ended        *)
(* between the two files that one writes.                                  *)

Act ==
  /\ acts < MaxActs /\ acts' = acts + 1 /\ UNCHANGED mishaps
  /\ calm' = (calm /\ Quiet /\ ~pendingVersionRestart)

Mishap == mishaps < MaxMishaps /\ mishaps' = mishaps + 1 /\ UNCHANGED acts

Syncing(t) == thread[t].pc \in {"readConfig", "readUser", "mint", "saveToken", "saveUser"}

Begin(t, pc, who) ==
  /\ thread[t].pc = "idle"
  /\ thread' = [thread EXCEPT ![t] = [Idle EXCEPT !.pc = pc, !.who = who]]

(* The effect on mount; it precedes every other call of the renderer. *)
SetTarget ==
  /\ ~targetApiBaseUrl /\ ~quitting /\ targetApiBaseUrl' = TRUE
  /\ UNCHANGED <<user, disk, procs, state, operationInProgress, quitting, thread, poll>>
  /\ UNCHANGED <<calm, apart, counts>>

(* A login, a restored session or an account switch by deep link (u is not *)
(* the user), or a profile edit, which replaces the user object (u is).    *)
SignIn(u) ==
  /\ Act /\ targetApiBaseUrl /\ ~quitting
  /\ user' = u
  /\ \E t \in Logins : Begin(t, "readConfig", u)
  /\ apart' = (apart /\ \A t \in Handlers : ~Syncing(t))
  /\ UNCHANGED <<disk, procs, state, operationInProgress, app, poll>>

(* Also what the app does at launch when there is no session. *)
SignOut ==
  /\ Act /\ targetApiBaseUrl /\ ~quitting
  /\ user' = None
  /\ Begin("logout", "clearRead", None)
  /\ UNCHANGED <<disk, procs, state, operationInProgress, app, poll, apart>>

(* Start, stop or restart on the runtimes page; a restart also when a user *)
(* creates the first workspace.  A refused call changes nothing here.      *)
Press(pc, again) ==
  /\ Act /\ user # None /\ ~quitting
  /\ thread["button"].pc = "idle" /\ ~operationInProgress
  /\ operationInProgress' = TRUE
  /\ thread' = [thread EXCEPT !["button"] =
                  [Idle EXCEPT !.pc = pc, !.again = again, !.guarded = TRUE]]
  /\ UNCHANGED <<user, disk, procs, state, app, poll, apart>>

(* before-quit with autoStop: preventDefault comes after an await, so the  *)
(* app may end at any moment from here on.                                 *)
Quit ==
  /\ Act /\ ~quitting /\ quitting' = TRUE
  /\ Begin("quit", "stop", None)
  /\ UNCHANGED <<user, disk, procs, state, operationInProgress, targetApiBaseUrl, poll, apart>>

(* The app ends, by a quit or a crash, and is launched again.  Files and   *)
(* daemons survive it.                                                     *)
Relaunch ==
  /\ Mishap /\ calm' = (calm /\ Quiet)
  /\ apart' = (apart /\ \A t \in Handlers : thread[t].pc # "saveUser")
  /\ user' = None /\ targetApiBaseUrl' = FALSE /\ quitting' = FALSE
  /\ currentState' = "stopped" /\ operationInProgress' = FALSE /\ pendingVersionRestart' = FALSE
  /\ thread' = [t \in Handlers |-> Idle] /\ poll' = "idle"
  /\ UNCHANGED <<disk, procs>>

-----------------------------------------------------------------------------
(* Steps of handlers.                                                      *)

Step(t, from, to) == thread[t].pc = from /\ thread' = [thread EXCEPT ![t].pc = to]

Ended(t) ==
  /\ thread' = [thread EXCEPT ![t] = Idle]
  /\ operationInProgress' = (operationInProgress /\ ~thread[t].guarded)

Fault == Mishap /\ calm' = FALSE /\ UNCHANGED apart
NoFault == UNCHANGED <<calm, apart, counts>>

(* syncToken *)
ReadConfig(t) ==
  /\ thread[t].pc = "readConfig"
  /\ thread' = [thread EXCEPT ![t].pc = "readUser", ![t].cfg = token]
  /\ NoFault /\ UNCHANGED <<user, disk, procs, state, operationInProgress, app, poll>>

ReadUserAnyPat(t) ==
  /\ thread[t].pc = "readUser"
  /\ thread' = [thread EXCEPT ![t].pc = IF thread[t].cfg # None THEN "saveToken" ELSE "mint",
                              ![t].prev = sidecar]
  /\ NoFault /\ UNCHANGED <<user, disk, procs, state, operationInProgress, app, poll>>

ReadUser(t) ==
  LET reuse == sidecar = thread[t].who /\ thread[t].cfg # None
  IN /\ thread[t].pc = "readUser"
     /\ thread' = [thread EXCEPT ![t].pc = IF reuse THEN "saveToken" ELSE "mint", ![t].prev = sidecar]
     /\ NoFault /\ UNCHANGED <<user, disk, procs, state, operationInProgress, app, poll>>

Mint(t) ==
  /\ thread[t].pc = "mint"
  /\ \/ /\ NoFault
        /\ thread' = [thread EXCEPT ![t].pc = "saveToken", ![t].cfg = thread[t].who]
        /\ UNCHANGED operationInProgress
     \/ Fault /\ Ended(t)
  /\ UNCHANGED <<user, disk, procs, state, app, poll>>

SaveToken(t) ==
  /\ Step(t, "saveToken", "saveUser")
  /\ token' = thread[t].cfg
  /\ NoFault /\ UNCHANGED <<user, sidecar, procs, state, operationInProgress, app, poll>>

SaveUserOnly(t) ==
  /\ thread[t].pc = "saveUser"
  /\ thread' = [thread EXCEPT ![t] = [Idle EXCEPT !.pc = "auto"]]
  /\ sidecar' = thread[t].who
  /\ NoFault /\ UNCHANGED <<user, token, procs, state, operationInProgress, app, poll>>

SaveUser(t) ==
  LET changed == thread[t].prev \notin {None, thread[t].who}
  IN /\ thread[t].pc = "saveUser"
     /\ thread' = [thread EXCEPT ![t] = [Idle EXCEPT !.pc = IF changed THEN "switch" ELSE "auto"]]
     /\ sidecar' = thread[t].who
     /\ NoFault /\ UNCHANGED <<user, token, procs, state, operationInProgress, app, poll>>

(* "void restartDaemon()": the restart is on its own from here.  Bound: a   *)
(* second one waits for the first.                                         *)
SwitchUser(t) ==
  /\ thread[t].pc = "switch"
  /\ Up => thread["switch"].pc = "idle"
  /\ thread' = IF Up THEN [thread EXCEPT ![t].pc = "auto",
                             !["switch"] = [Idle EXCEPT !.pc = "stop", !.again = TRUE]]
                     ELSE [thread EXCEPT ![t].pc = "auto"]
  /\ NoFault /\ UNCHANGED <<user, disk, procs, state, operationInProgress, app, poll>>

(* daemon:auto-start *)
AutoStart(t) ==
  /\ Step(t, "auto", IF Up THEN "check" ELSE "start")
  /\ NoFault /\ UNCHANGED <<user, disk, procs, state, operationInProgress, app, poll>>

(* ensureRunningDaemonVersionMatches with decideVersionAction. *)
VersionAction == IF ~Up THEN "not_running" ELSE IF daemon.new THEN "ok"
                 ELSE IF daemon.busy THEN "defer" ELSE "restart"

CheckVersion(t) ==
  /\ thread[t].pc = "check"
  /\ pendingVersionRestart' = (VersionAction = "defer")
  /\ IF VersionAction = "restart"
       THEN /\ thread' = [thread EXCEPT ![t].pc = "stop", ![t].again = TRUE]
            /\ UNCHANGED operationInProgress
       ELSE Ended(t)
  /\ NoFault /\ UNCHANGED <<user, disk, procs, currentState, app, poll>>

(* clearToken, then the guarded stop of handleDaemonLogout. *)
ClearRead(t) ==
  /\ Step(t, "clearRead", IF token = None THEN "clearUser" ELSE "clearToken")
  /\ NoFault /\ UNCHANGED <<user, disk, procs, state, operationInProgress, app, poll>>

ClearToken(t) ==
  /\ Step(t, "clearToken", "clearUser") /\ token' = None
  /\ NoFault /\ UNCHANGED <<user, sidecar, procs, state, operationInProgress, app, poll>>

ClearUser(t) ==
  /\ Step(t, "clearUser", "guard") /\ sidecar' = None
  /\ NoFault /\ UNCHANGED <<user, token, procs, state, operationInProgress, app, poll>>

Guard(t) ==
  /\ thread[t].pc = "guard"
  /\ IF operationInProgress
       THEN Ended(t)
       ELSE /\ operationInProgress' = TRUE
            /\ thread' = [thread EXCEPT ![t].pc = "stop", ![t].guarded = TRUE]
  /\ NoFault /\ UNCHANGED <<user, disk, procs, state, app, poll>>

(* stopDaemon: the command asks the daemon on the profile's port to shut   *)
(* down; a daemon that does not listen yet is not found.                   *)
StopCall(t) ==
  /\ Step(t, "stop", "stopping") /\ currentState' = "stopping"
  /\ NoFault
  /\ UNCHANGED <<user, disk, procs, operationInProgress, pendingVersionRestart, app, poll>>

Stop(t) ==
  /\ thread[t].pc = "stopping"
  /\ currentState' = "stopped"
  /\ \/ /\ NoFault
        /\ IF targetApiBaseUrl
             THEN daemon' = (IF Up THEN NoDaemon ELSE daemon) /\ UNCHANGED byHand
             ELSE byHand' = FALSE /\ UNCHANGED daemon
        /\ IF thread[t].again
             THEN thread' = [thread EXCEPT ![t].pc = "start"] /\ UNCHANGED operationInProgress
             ELSE Ended(t)
     \/ Fault /\ Ended(t) /\ UNCHANGED procs
  /\ UNCHANGED <<user, disk, pendingVersionRestart, app, poll>>

(* startDaemon *)
Start(t) ==
  /\ thread[t].pc = "start"
  /\ IF Up THEN Ended(t) /\ UNCHANGED currentState
           ELSE /\ thread' = [thread EXCEPT ![t].pc = "spawn"] /\ currentState' = "starting"
                /\ UNCHANGED operationInProgress
  /\ NoFault /\ UNCHANGED <<user, disk, procs, pendingVersionRestart, app, poll>>

(* The command fails when a daemon listens already; a child that finds the *)
(* port bound by one that is coming up exits.                              *)
Spawn(t) ==
  /\ thread[t].pc = "spawn"
  /\ \/ /\ NoFault /\ Up
        /\ Ended(t) /\ currentState' = "stopped" /\ UNCHANGED daemon
     \/ /\ NoFault /\ ~Up
        /\ daemon' = IF daemon.st = "down" THEN Booting ELSE daemon
        /\ thread' = [thread EXCEPT ![t].pc = "await"]
        /\ UNCHANGED <<currentState, operationInProgress>>
     \/ Fault /\ Ended(t) /\ currentState' = "stopped" /\ UNCHANGED daemon
  /\ UNCHANGED <<user, disk, byHand, pendingVersionRestart, app, poll>>

(* The command has seen the daemon listen, or has waited for 15 seconds. *)
Spawned(t) ==
  /\ thread[t].pc = "await" /\ Ended(t)
  /\ NoFault /\ UNCHANGED <<user, disk, procs, state, app, poll>>

-----------------------------------------------------------------------------
(* pollOnce: fetchHealth looks at currentState when the answer is there.   *)

Listening == IF targetApiBaseUrl THEN Up ELSE byHand

PollSend ==
  /\ poll = "idle" /\ ~quitting
  /\ poll' = IF Listening THEN "up" ELSE "down"
  /\ NoFault /\ UNCHANGED <<user, disk, procs, state, operationInProgress, app, thread>>

PollAnswerStarting ==
  /\ poll # "idle" /\ poll' = "idle"
  /\ currentState' = IF currentState = "starting" THEN "starting"
                     ELSE IF poll = "up" THEN "running" ELSE "stopped"
  /\ NoFault
  /\ UNCHANGED <<user, disk, procs, operationInProgress, pendingVersionRestart, app, thread>>

PollAnswerOnly ==
  /\ poll # "idle" /\ poll' = "idle"
  /\ currentState' = IF poll = "up" THEN "running"
                     ELSE IF currentState = "starting" THEN "starting" ELSE "stopped"
  /\ NoFault
  /\ UNCHANGED <<user, disk, procs, operationInProgress, pendingVersionRestart, app, thread>>

PollAnswer ==
  /\ poll # "idle" /\ poll' = "idle"
  /\ currentState' = IF poll = "up" THEN "running"
                     ELSE IF currentState = "starting" THEN "starting" ELSE "stopped"
  /\ thread' = IF poll = "up" /\ pendingVersionRestart /\ thread["version"].pc = "idle"
               THEN [thread EXCEPT !["version"] = [Idle EXCEPT !.pc = "check"]]
               ELSE thread
  /\ NoFault
  /\ UNCHANGED <<user, disk, procs, operationInProgress, pendingVersionRestart, app>>

-----------------------------------------------------------------------------
(* The daemon: it binds its port, loads the profile's token, registers,    *)
(* and only then listens.                                                  *)

Load ==
  /\ daemon.st = "boot"
  /\ daemon' = IF token = None THEN NoDaemon ELSE [daemon EXCEPT !.st = "loaded", !.tok = token]
  /\ NoFault /\ UNCHANGED <<user, disk, byHand, state, operationInProgress, app, thread, poll>>

Listen ==
  /\ daemon.st = "loaded" /\ daemon' = [daemon EXCEPT !.st = "up"]
  /\ NoFault /\ UNCHANGED <<user, disk, byHand, state, operationInProgress, app, thread, poll>>

Die ==
  /\ daemon.st # "down" /\ daemon' = NoDaemon
  /\ Fault /\ UNCHANGED <<user, disk, byHand, state, operationInProgress, app, thread, poll>>

(* Tasks come and go; only an old daemon's count is ever looked at. *)
Work ==
  /\ Up /\ ~daemon.new /\ daemon' = [daemon EXCEPT !.busy = ~@]
  /\ NoFault /\ UNCHANGED <<user, disk, byHand, state, operationInProgress, app, thread, poll>>

-----------------------------------------------------------------------------
HandlerStep(t) ==
  /\ thread[t].pc # "idle"
  /\ \/ ReadConfig(t) \/ ReadUser(t) \/ Mint(t) \/ SaveToken(t) \/ SaveUser(t) \/ SwitchUser(t)
     \/ AutoStart(t) \/ CheckVersion(t) \/ ClearRead(t) \/ ClearToken(t) \/ ClearUser(t)
     \/ Guard(t) \/ StopCall(t) \/ Stop(t) \/ Start(t) \/ Spawn(t) \/ Spawned(t)

Next ==
  \/ SetTarget \/ SignOut \/ Quit \/ Relaunch
  \/ \E u \in Users : SignIn(u)
  \/ Press("start", FALSE) \/ Press("stop", FALSE) \/ Press("stop", TRUE)
  \/ \E t \in Handlers : HandlerStep(t)
  \/ PollSend \/ PollAnswer \/ Load \/ Listen \/ Die \/ Work

(* Every await ends: commands and probes have timeouts, and the poll timer *)
(* runs until the app quits.  Handlers end after a few steps, so fairness  *)
(* to all of them is fairness to each; only the version check can be begun *)
(* without end.  Nothing is assumed of users and of tasks.                 *)
Fairness ==
  /\ WF_vars(\E t \in Handlers \ {"version"} : HandlerStep(t))
  /\ WF_vars(HandlerStep("version"))
  /\ WF_vars(PollSend \/ PollAnswer)
  /\ WF_vars(Load \/ Listen)

Spec == Init /\ [][Next]_vars /\ Fairness

-----------------------------------------------------------------------------
(* As long as nothing fails and the user waits for the app, the daemon     *)
(* that runs once everything has settled has the credentials of whoever is *)
(* signed in, although the restart of a user switch, the auto-start and    *)
(* the version check run at a time (syncToken, daemon:auto-start).         *)
ServesUser == calm /\ Quiet /\ user # None /\ Up => daemon.tok = user

(* The sidecar never vouches for another user's token, so the next sync    *)
(* that reuses the cached one does not hand it to the wrong user: whatever *)
(* fails, however sign-outs, buttons and launches meet a sync at work, and *)
(* also when a launch is cut short -- except in the middle of its two      *)
(* writes, or after two syncs at once (syncToken, clearToken).             *)
PatIsOwners ==
  apart /\ sidecar # None /\ (\A t \in Handlers : thread[t].pc # "saveUser")
    => token \in {None, sidecar}

(* Of the calls that go through withGuard at most one is at work, and the  *)
(* flag is set exactly as long: neither a button and the stop of a logout  *)
(* run at a time, nor does a call that failed leave the others refused.    *)
GuardOwned ==
  /\ operationInProgress <=> \E t \in Handlers : thread[t].guarded
  /\ \A t, o \in Handlers : thread[t].guarded /\ thread[o].guarded => t = o

(* What the comment on syncToken says: a new session never works with the  *)
(* previous user's credentials.                                            *)
NeverInherits == Quiet /\ user # None /\ Up => daemon.tok = user

(* What the comment on resolveActiveProfile says: the app never touches a  *)
(* profile that is not its own.                                            *)
HandRunUntouched == [][byHand => byHand' ]_vars

(* A daemon that stays up is shown as running in the end, whatever failed  *)
(* before, unless the app is quitting.                                     *)
UpIsShown == <>[](Up /\ Quiet /\ targetApiBaseUrl /\ ~quitting) => <>[](currentState = "running")

(* A version restart that was put off because the daemon was busy happens  *)
(* once it stays idle, unless a command fails or the session ends: in the  *)
(* end the daemon is not an old one (pollOnce).                            *)
DeferredRestartHappens ==
  <>[](~daemon.busy /\ targetApiBaseUrl /\ ~quitting)
    => [](pendingVersionRestart => <>(~Up \/ daemon.new \/ mishaps > 0 \/ user = None))
=============================================================================
