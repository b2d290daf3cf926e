----------------------------- MODULE IssueCache -----------------------------
(***************************************************************************)
(* The issue list of one workspace as a client keeps it: a query fetched   *)
(* once and never stale by age, patched by the events of a WebSocket and   *)
(* by optimistic mutations.  Answers and events travel on different        *)
(* connections, the list is read one status at a time, the socket is only  *)
(* there while its workspace is shown, and a patch of the cache clears the *)
(* mark that the cache is to be fetched again.                             *)
(*                                                                         *)
(* The query library is modelled by what the code relies on: setQueryData  *)
(* clears the invalidated mark, invalidateQueries fetches again when the   *)
(* list is mounted and starts over a fetch that has data to fall back on.  *)
(* An issue is its status; all pages of a status are loaded.               *)
(***************************************************************************)
EXTENDS Naturals, SequencesExt

CONSTANTS
  Issues, None,
  Columns,       \* PAGINATED_STATUSES, the statuses fetched, in their order
  Cancelled,     \* the status that has no column
  Muts,          \* mutations of this client that can run at a time
  MaxCommits, MaxActs, MaxFaults
                 \* bounds: writes at the server; what the user does, the
                 \* mutations among it; failing requests and connections

Listed   == ToSet(Columns)
Statuses == Listed \cup {Cancelled}

ASSUME IssueCacheAssumption ==
  /\ Columns \in Seq(Listed) /\ Cancelled \notin Listed /\ Listed # {}
  /\ Statuses \cap {"none", "gone"} = {} /\ None \notin Muts \cup Statuses
  /\ MaxCommits \in Nat /\ MaxActs \in Nat /\ MaxFaults \in Nat

VARIABLES
  server,      \* status of each issue; "none" before, "gone" after it exists
  clock,       \* writes committed at the server
  unpublished, \* events of handlers that have committed and not yet published
  data, isInvalidated,    \* the query: buckets or None
  fetch,       \* the request in flight
  mounted,     \* a component shows the list
  here,        \* the workspace is the one shown
  conn,        \* the socket: "off" until its client has connected once, "up", "down"
  wire,        \* events on the socket
  mut,         \* mutations in flight
  doubt,       \* history, see below
  newest,      \* history: of the events published, the newest for each issue
  acts, faults

query  == <<data, isInvalidated, fetch>>
socket == <<conn, wire>>
counts == <<acts, faults>>
vars == <<server, clock, unpublished, query, mounted, here, socket, mut, doubt, newest, counts>>

Buckets == [Listed -> [Issues -> 0..2]]   \* copies of an issue in a bucket; 2 is "several"
NoFetch == [on |-> FALSE, read |-> [s \in Listed |-> None], first |-> 0, miss |-> "none"]
NewFetch == [NoFetch EXCEPT !.on = TRUE]
NoMut == [kind |-> "none", i |-> None, s |-> None, prev |-> None, st |-> "idle", ver |-> 0]

ListOf(holds(_, _)) == [s \in Listed |-> [i \in Issues |-> IF holds(s, i) THEN 1 ELSE 0]]
Truth == ListOf(LAMBDA s, i : server[i] = s)

(* A client is opened at its issue list. *)
Init ==
  /\ server \in [Issues -> {"none"} \cup Statuses] /\ clock = 0 /\ unpublished = {}
  /\ data = None /\ isInvalidated = FALSE /\ fetch = NewFetch
  /\ mounted = TRUE /\ here = TRUE /\ conn = "off" /\ wire = <<>>
  /\ mut = [m \in Muts |-> NoMut]
  /\ doubt = "none" /\ newest = [i \in Issues |-> 0]
  /\ acts = 0 /\ faults = 0

-----------------------------------------------------------------------------
(* cache-helpers.  The bucket of a status that has no column is written    *)
(* and never read.  An issue's location is the first column with it.       *)

Location(d, i) ==
  LET k == SelectInSeq(Columns, LAMBDA s : d[s][i] > 0)
  IN  IF k = 0 THEN None ELSE Columns[k]

AddIssueToBuckets(d, i, s) ==
  IF s = Cancelled THEN d ELSE [d EXCEPT ![s][i] = IF @ = 0 THEN 1 ELSE @]

RemoveIssueFromBuckets(d, i) ==
  IF Location(d, i) = None THEN d ELSE [d EXCEPT ![Location(d, i)][i] = 0]

PatchAndKeep(d, i, s) ==
  LET l == Location(d, i) IN
  IF l = None \/ l = s \/ s = Cancelled THEN d ELSE [d EXCEPT ![s][i] = IF @ = 0 THEN 1 ELSE 2]

PatchIssueInBuckets(d, i, s) ==
  LET l == Location(d, i) IN
  IF l = None \/ l = s THEN d
  ELSE [c \in Listed |-> [d[c] EXCEPT ![i] = CASE c = l -> 0
                                               [] c = s -> IF @ = 0 THEN 1 ELSE 2
                                               [] OTHER -> @]]

Patched(d, kind, i, s) ==
  IF d = None THEN None
  ELSE CASE kind = "created" -> AddIssueToBuckets(d, i, s)
         [] kind = "updated" -> PatchIssueInBuckets(d, i, s)
         [] kind = "deleted" -> RemoveIssueFromBuckets(d, i)

-----------------------------------------------------------------------------
(* doubt is the history of the one question the code cannot ask: may the   *)
(* cache have missed something?  "due": it may, and a fetch is to come;    *)
(* "lost": it may, and nothing will fetch it again.                        *)

InFlight == \E m \in Muts : mut[m].st # "idle"

Missing == IF conn = "down" \/ InFlight THEN "due" ELSE "lost"
Worse(a, b) == IF "lost" \in {a, b} THEN "lost" ELSE IF "due" \in {a, b} THEN "due" ELSE "none"

(* An event that a fetch begun before cannot have in all its columns. *)
Overtaken(f, ver) == f.on /\ (\E s \in Listed : f.read[s] # None) /\ ver > f.first

MissIn(f, ver) == IF Overtaken(f, ver) THEN [f EXCEPT !.miss = Worse(@, Missing)] ELSE f

(* What was to be made up for and now will not be. *)
Forgone(f) == [f EXCEPT !.miss = IF @ = "due" THEN "lost" ELSE @]

(* invalidateQueries on the list: a first fetch, and one of a list that is *)
(* no longer mounted, goes on and clears the mark when it ends.            *)
Invalidate(d, f) ==
  /\ isInvalidated' = TRUE
  /\ fetch' = IF mounted /\ (d # None \/ ~f.on) THEN NewFetch ELSE Forgone(f)

-----------------------------------------------------------------------------
(* The server: handlers commit, and publish afterwards.                    *)

Act   == acts < MaxActs /\ acts' = acts + 1 /\ UNCHANGED faults
Fault == faults < MaxFaults /\ faults' = faults + 1

Event(kind, i, s) == [kind |-> kind, i |-> i, s |-> s, ver |-> clock + 1, late |-> FALSE]

Commit(kind, i, s) ==
  /\ clock' = clock + 1
  /\ \/ kind = "created" /\ server[i] = "none" /\ server' = [server EXCEPT ![i] = s]
     \/ kind = "updated" /\ server[i] \in Statuses \ {s} /\ server' = [server EXCEPT ![i] = s]
     \/ kind = "deleted" /\ server[i] = s /\ s \in Statuses /\ server' = [server EXCEPT ![i] = "gone"]
  /\ unpublished' = unpublished \cup {Event(kind, i, s)}

Kinds == {"created", "updated", "deleted"}

Creating(i) == \E m \in Muts : mut[m].kind = "created" /\ mut[m].i = i

Other(kind, i, s) ==
  /\ ~(kind = "created" /\ Creating(i))
  /\ clock < MaxCommits /\ Commit(kind, i, s)
  /\ UNCHANGED <<query, mounted, here, socket, mut, doubt, newest, counts>>

(* Handlers of different requests may publish in either order.  What is    *)
(* published while the client is not connected is not for it.              *)
Publish(e) ==
  /\ e \in unpublished /\ unpublished' = unpublished \ {e}
  /\ newest' = [newest EXCEPT ![e.i] = IF e.ver > @ THEN e.ver ELSE @]
  /\ \/ /\ conn = "up" /\ UNCHANGED <<fetch, doubt>>
        /\ wire' = Append(wire, [e EXCEPT !.late = e.ver < newest[e.i]])
     \/ /\ conn # "up" /\ UNCHANGED wire
        /\ fetch' = MissIn(fetch, e.ver)
        /\ doubt' = IF data = None THEN doubt ELSE Worse(doubt, Missing)
  /\ UNCHANGED <<server, clock, data, isInvalidated, mounted, here, conn, mut, counts>>

-----------------------------------------------------------------------------
(* The socket's events: onIssueCreated, onIssueUpdated, onIssueDeleted.    *)

Applied(e, d) ==
  LET missed == \/ e.late
                \/ e.kind = "updated" /\ e.s \in Listed /\ Location(data, e.i) = None
                \/ e.kind = "created" /\ Location(data, e.i) \notin {None, e.s}
      now == IF d = "due" /\ isInvalidated /\ ~fetch.on /\ ~InFlight THEN "lost" ELSE d
  IN  IF data = None THEN d ELSE IF missed THEN Worse(now, Missing) ELSE now

OnEvent(e) ==
  /\ data' = Patched(data, e.kind, e.i, e.s)
  /\ isInvalidated' = (isInvalidated /\ data = None)
  /\ fetch' = MissIn(fetch, e.ver)
  /\ doubt' = Applied(e, doubt)

Deliver ==
  /\ conn = "up" /\ wire # <<>> /\ wire' = Tail(wire)
  /\ OnEvent(Head(wire))
  /\ UNCHANGED <<server, clock, unpublished, mounted, here, conn, mut, newest, counts>>

(* Bugs this code could have: a reconnect that fetches nothing, and one of *)
(* a client that has been disposed of.                                     *)
ConnectQuietly ==
  /\ here /\ conn # "up" /\ conn' = "up"
  /\ UNCHANGED <<server, clock, unpublished, query, mounted, here, wire, mut, doubt, newest, counts>>

ConnectAnywhere ==
  /\ conn # "up" /\ conn' = "up"
  /\ \/ conn = "down" /\ Invalidate(data, fetch)
     \/ conn = "off" /\ UNCHANGED <<isInvalidated, fetch>>
  /\ UNCHANGED <<server, clock, unpublished, data, mounted, here, wire, mut, doubt, newest, counts>>

(* onAuthenticated; a client that has connected before fetches again. *)
Connect ==
  /\ here /\ conn # "up" /\ conn' = "up"
  /\ \/ conn = "down" /\ Invalidate(data, fetch)
     \/ conn = "off" /\ UNCHANGED <<isInvalidated, fetch>>
  /\ UNCHANGED <<server, clock, unpublished, data, mounted, here, wire, mut, doubt, newest, counts>>

LoseWire(down) ==
  LET lost == wire # <<>>
      how  == IF down \/ InFlight THEN "due" ELSE "lost" IN
  /\ wire' = <<>>
  /\ doubt' = IF lost /\ data # None THEN Worse(doubt, how) ELSE doubt
  /\ fetch' = IF \E k \in DOMAIN wire : Overtaken(fetch, wire[k].ver)
                THEN [fetch EXCEPT !.miss = Worse(@, how)] ELSE fetch

Drop ==
  /\ conn = "up" /\ Fault /\ conn' = "down" /\ LoseWire(TRUE)
  /\ UNCHANGED <<server, clock, unpublished, data, isInvalidated, mounted, here, mut, newest, acts>>

-----------------------------------------------------------------------------
(* The query's fetch (fetchFirstPages): one request for each column.       *)

Read(s) ==
  /\ fetch.on /\ fetch.read[s] = None
  /\ fetch' = [fetch EXCEPT !.read[s] = {i \in Issues : server[i] = s},
                            !.first = IF \A c \in Listed : fetch.read[c] = None THEN clock ELSE @,
                            !.miss = IF Overtaken(fetch, clock) THEN Worse(@, Missing) ELSE @]
  /\ UNCHANGED <<server, clock, unpublished, data, isInvalidated, mounted, here, socket, mut,
                 doubt, newest, counts>>

FetchFirstPages ==
  /\ fetch.on /\ \A s \in Listed : fetch.read[s] # None
  /\ data' = ListOf(LAMBDA s, i : i \in fetch.read[s])
  /\ isInvalidated' = FALSE /\ fetch' = NoFetch /\ doubt' = fetch.miss
  /\ UNCHANGED <<server, clock, unpublished, mounted, here, socket, mut, newest, counts>>

FetchFails ==
  /\ fetch.on /\ Fault /\ fetch' = NoFetch /\ isInvalidated' = TRUE
  /\ doubt' = IF doubt = "due" /\ mounted /\ conn # "down" /\ ~InFlight THEN "lost" ELSE doubt
  /\ UNCHANGED <<server, clock, unpublished, data, mounted, here, socket, mut, newest, acts>>

-----------------------------------------------------------------------------
(* The mutations useCreateIssue, useUpdateIssue and useDeleteIssue.        *)

Started(m, kind, i, s, prev) ==
  /\ Act /\ mut[m].st = "idle" /\ here
  /\ mut' = [mut EXCEPT ![m] = [kind |-> kind, i |-> i, s |-> s, prev |-> prev, st |-> "sent", ver |-> 0]]

CreateIssue(m, i, s) ==
  /\ server[i] = "none" /\ ~Creating(i)
  /\ Started(m, "created", i, s, None)
  /\ UNCHANGED <<server, clock, unpublished, query, mounted, here, socket, doubt, newest>>

(* onMutate: the fetch is cancelled and the cache patched. *)
Optimistic(m, kind, i, s) ==
  /\ server[i] # "none" /\ kind = (IF s = None THEN "deleted" ELSE "updated")
  /\ Started(m, kind, i, s, data)
  /\ data' = Patched(data, kind, i, s)
  /\ isInvalidated' = (isInvalidated /\ data = None)
  /\ fetch' = NoFetch
  /\ UNCHANGED <<server, clock, unpublished, mounted, here, socket, doubt, newest>>

(* The request reaches the server, or fails. *)
Arrive(m) ==
  LET u == mut[m] IN
  /\ u.st = "sent"
  /\ \/ /\ IF u.kind = "deleted" THEN Commit(u.kind, u.i, server[u.i]) ELSE Commit(u.kind, u.i, u.s)
        /\ mut' = [mut EXCEPT ![m].st = "ok", ![m].ver = clock + 1] /\ UNCHANGED faults
     \/ /\ u.kind = "updated" /\ server[u.i] = u.s
        /\ mut' = [mut EXCEPT ![m].st = "ok"]
        /\ UNCHANGED <<server, clock, unpublished, faults>>
     \/ /\ Fault \/ (server[u.i] = "gone" /\ UNCHANGED faults)
        /\ mut' = [mut EXCEPT ![m].st = "failed"] /\ UNCHANGED <<server, clock, unpublished>>
  /\ UNCHANGED <<query, mounted, here, socket, doubt, newest, acts>>

(* onError puts the snapshot back, onSuccess of a creation adds what the   *)
(* answer says, onSettled has the list fetched again.                      *)
Answered(u) ==
  IF u.st = "failed" THEN IF u.prev # None THEN u.prev ELSE data
  ELSE IF u.kind = "created" THEN Patched(data, "created", u.i, u.s) ELSE data

OnSettledQuietly(d) == isInvalidated' = (isInvalidated /\ d = None) /\ UNCHANGED fetch

OnSettled(d) == Invalidate(d, fetch)

Answer(m) ==
  LET u == mut[m]  d == Answered(u) IN
  /\ u.st \in {"ok", "failed"} /\ \A e \in unpublished : e.ver # u.ver
  /\ mut' = [mut EXCEPT ![m] = NoMut]
  /\ data' = d /\ doubt' = IF d # data THEN Worse(doubt, "due") ELSE doubt
  /\ OnSettled(d)
  /\ UNCHANGED <<server, clock, unpublished, mounted, here, socket, newest, counts>>

-----------------------------------------------------------------------------
(* Pages and workspaces come and go.                                       *)

Mount ==
  /\ Act /\ here /\ ~mounted /\ mounted' = TRUE
  /\ fetch' = IF (data = None \/ isInvalidated) /\ ~fetch.on THEN NewFetch ELSE fetch
  /\ UNCHANGED <<server, clock, unpublished, data, isInvalidated, here, socket, mut, doubt, newest>>

Unmount ==
  /\ Act /\ mounted /\ mounted' = FALSE
  /\ UNCHANGED <<server, clock, unpublished, query, here, socket, mut, doubt, newest>>

(* Another workspace is shown: the socket's client goes, and with it the   *)
(* knowledge that it had been connected.                                   *)
Leave ==
  LET how == IF InFlight THEN "due" ELSE "lost" IN
  /\ Act /\ here /\ here' = FALSE /\ mounted' = FALSE /\ conn' = "off" /\ wire' = <<>>
  /\ doubt' = Worse(IF doubt = "due" /\ ~isInvalidated /\ ~fetch.on THEN how ELSE doubt,
                    IF wire # <<>> /\ data # None THEN how ELSE "none")
  /\ fetch' = LET f == IF \E k \in DOMAIN wire : Overtaken(fetch, wire[k].ver)
                         THEN [fetch EXCEPT !.miss = Worse(@, how)] ELSE fetch
              IN  IF InFlight THEN f ELSE Forgone(f)
  /\ UNCHANGED <<server, clock, unpublished, data, isInvalidated, mut, newest>>

Return ==
  /\ Act /\ ~here /\ here' = TRUE
  /\ UNCHANGED <<server, clock, unpublished, query, mounted, socket, mut, doubt, newest>>

(* gcTime after the list was last shown. *)
Collect ==
  /\ Act /\ ~mounted /\ ~fetch.on /\ data # None
  /\ data' = None /\ isInvalidated' = FALSE /\ doubt' = "none"
  /\ UNCHANGED <<server, clock, unpublished, fetch, mounted, here, socket, mut, newest>>

Next ==
  \/ \E kind \in Kinds, i \in Issues, s \in Statuses : Other(kind, i, s)
  \/ \E e \in unpublished : Publish(e)
  \/ Deliver \/ Connect \/ Drop
  \/ \E s \in Listed : Read(s)
  \/ FetchFirstPages \/ FetchFails
  \/ \E m \in Muts :
       \/ \E i \in Issues, s \in Statuses : CreateIssue(m, i, s)
       \/ \E kind \in Kinds, i \in Issues, s \in Statuses \cup {None} : Optimistic(m, kind, i, s)
       \/ Arrive(m) \/ Answer(m)
  \/ Mount \/ Unmount \/ Leave \/ Return \/ Collect

(* What goes on by itself; connections are tried again every 3 seconds. *)
Fairness ==
  /\ WF_vars(\E e \in unpublished : Publish(e)) /\ WF_vars(Deliver) /\ WF_vars(Connect)
  /\ \A s \in Listed : WF_vars(Read(s))
  /\ WF_vars(FetchFirstPages)
  /\ \A m \in Muts : WF_vars(Arrive(m)) /\ WF_vars(Answer(m))

Spec == Init /\ [][Next]_vars /\ Fairness

-----------------------------------------------------------------------------
TypeOK ==
  /\ server \in [Issues -> {"none", "gone"} \cup Statuses] /\ clock \in 0..(MaxCommits + MaxActs)
  /\ data = None \/ data \in Buckets
  /\ isInvalidated \in BOOLEAN /\ mounted \in BOOLEAN /\ here \in BOOLEAN
  /\ (mounted => here) /\ (conn # "off" => here)
  /\ conn \in {"off", "up", "down"} /\ (wire # <<>> => conn = "up")
  /\ doubt \in {"none", "due", "lost"} /\ fetch.miss \in {"none", "due", "lost"}

Quiet == unpublished = {} /\ wire = <<>> /\ ~fetch.on /\ ~InFlight

(* Once all is delivered and answered, the cache is the server's list,     *)
(* unless one of the named ways to miss something was met: a mutation that *)
(* failed, was overtaken or raced another leaves nothing of its own behind,*)
(* and no issue is there twice (mutations.ts, ws-updaters.ts).             *)
Synced == Quiet /\ data # None /\ doubt = "none" => data = Truth

(* What is missed while something is bound to make up for it, an outage of *)
(* the socket or a rolled back mutation, stays on the books: it is marked, *)
(* being fetched, or the reconnect or the mutation's end is still to come. *)
DueIsKept == doubt = "due" => isInvalidated \/ fetch.on \/ conn = "down" \/ InFlight

(* And it is made up for, when the list is on screen.                      *)
DueIsDone == <>[]mounted => []<>(doubt # "due")

(* What the comments say of addIssueToBuckets ("no-op if already present") *)
(* and of the handlers of events ("dedup checks to be idempotent"): a      *)
(* creation heard of an issue that is on the board changes nothing.        *)
AddingIsNoOp ==
  [][Deliver /\ data # None /\ Head(wire).kind = "created" /\ Location(data, Head(wire).i) # None
       => data' = data]_vars
=============================================================================
