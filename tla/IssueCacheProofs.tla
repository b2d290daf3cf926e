--------------------------- MODULE IssueCacheProofs ---------------------------
(***************************************************************************)
(* Proofs about IssueCache: what the issue list is known to have missed    *)
(* stays on the books until it is made up for; once all is delivered and   *)
(* answered, a list that has missed nothing is the server's; and the types *)
(* are what they are said to be.  For any issues, columns, mutations at a  *)
(* time, failures and outages.                                             *)
(*                                                                         *)
(* The second rests on a reason, at every moment and for every issue, why  *)
(* the list says what it says of it: an event not yet delivered is to put  *)
(* it right, or it is right, or a mutation that may yet fail put it there. *)
(* For a fetch the reason is that all its columns were read at one time,   *)
(* or that what has changed since is told by an event to come.             *)
(***************************************************************************)
EXTENDS IssueCache, SequenceTheorems, FiniteSetTheorems, TLAPS

(* The fields the argument looks at. *)
Shapes ==
  /\ DOMAIN mut = Muts /\ mut = [m \in Muts |-> mut[m]]
  /\ \A m \in Muts : {"st", "ver"} \subseteq DOMAIN mut[m]
  /\ {"on", "miss", "read", "first"} \subseteq DOMAIN fetch

(* A fetch that is to be made up for by another has its outage or its      *)
(* mutation still before it.                                               *)
FetchDueIsKept == fetch.miss = "due" => conn = "down" \/ InFlight

DueInv == Shapes /\ DueIsKept /\ FetchDueIsKept

-----------------------------------------------------------------------------
LEMMA WorseDue == ASSUME NEW a, NEW b, Worse(a, b) = "due" PROVE a = "due" \/ b = "due"
BY DEF Worse

LEMMA MissingDue == Missing = "due" => conn = "down" \/ InFlight
BY DEF Missing

LEMMA MissInShape ==
  ASSUME NEW f, {"on", "miss", "read", "first"} \subseteq DOMAIN f, NEW ver
  PROVE  /\ {"on", "miss", "read", "first"} \subseteq DOMAIN MissIn(f, ver)
         /\ MissIn(f, ver).on = f.on
         /\ MissIn(f, ver).miss = "due" => f.miss = "due" \/ conn = "down" \/ InFlight
BY WorseDue, MissingDue DEF MissIn

LEMMA ForgoneShape ==
  ASSUME NEW f, {"on", "miss", "read", "first"} \subseteq DOMAIN f
  PROVE  /\ {"on", "miss", "read", "first"} \subseteq DOMAIN Forgone(f)
         /\ Forgone(f).on = f.on /\ Forgone(f).miss # "due"
BY DEF Forgone

LEMMA NewFetchShape ==
  /\ {"on", "miss", "read", "first"} \subseteq DOMAIN NewFetch
  /\ NewFetch.on = TRUE /\ NewFetch.miss = "none"
  /\ {"on", "miss", "read", "first"} \subseteq DOMAIN NoFetch /\ NoFetch.miss = "none"
BY DEF NewFetch, NoFetch

(* invalidateQueries leaves nothing to be made up for but by the mark. *)
LEMMA InvalidateKeeps ==
  ASSUME Shapes, NEW d, Invalidate(d, fetch)
  PROVE  /\ isInvalidated' = TRUE /\ fetch'.miss # "due"
         /\ {"on", "miss", "read", "first"} \subseteq DOMAIN fetch'
BY NewFetchShape, ForgoneShape DEF Invalidate, Shapes

LEMMA SameMut == ASSUME UNCHANGED mut PROVE InFlight' = InFlight
BY DEF InFlight

(* Steps that leave all that matters alone. *)
LEMMA AsideKeeps ==
  ASSUME DueInv, UNCHANGED <<doubt, isInvalidated, fetch, mut>>, conn' = conn
  PROVE  DueInv'
BY SameMut DEF DueInv, Shapes, DueIsKept, FetchDueIsKept

LEMMA PublishKeeps == ASSUME DueInv, NEW e, Publish(e) PROVE DueInv'
<1>1. InFlight' = InFlight /\ Shapes'
  BY SameMut, MissInShape DEF Publish, DueInv, Shapes
<1>2. FetchDueIsKept'
  BY <1>1, MissInShape DEF Publish, DueInv, FetchDueIsKept, Shapes
<1>3. DueIsKept'
  BY <1>1, MissInShape, WorseDue, MissingDue DEF Publish, DueInv, DueIsKept, Shapes
<1> QED BY <1>1, <1>2, <1>3 DEF DueInv

(* An event clears the mark of a list that is loaded: what was due is then *)
(* being fetched, or a mutation is out, or it is lost.                     *)
LEMMA DeliverKeeps == ASSUME DueInv, Deliver PROVE DueInv'
<1> DEFINE e == Head(wire)
<1>1. /\ isInvalidated' = (isInvalidated /\ data = None)
      /\ fetch' = MissIn(fetch, e.ver) /\ doubt' = Applied(e, doubt)
      /\ UNCHANGED <<mut, conn>>
  BY DEF Deliver, OnEvent
<1> HIDE DEF e
<1>2. InFlight' = InFlight /\ Shapes' /\ FetchDueIsKept'
  BY <1>1, SameMut, MissInShape DEF DueInv, Shapes, FetchDueIsKept
<1>3. fetch'.on = fetch.on
  BY <1>1, MissInShape DEF DueInv, Shapes
<1>4. ASSUME doubt' = "due"
      PROVE  isInvalidated' \/ fetch.on \/ conn = "down" \/ InFlight
  <2>1. CASE data = None
    BY <1>1, <1>4, <2>1 DEF Applied, DueInv, DueIsKept
  <2>2. CASE data # None
    <3> DEFINE now == IF doubt = "due" /\ isInvalidated /\ ~fetch.on /\ ~InFlight THEN "lost" ELSE doubt
    <3>1. doubt' = now \/ doubt' = Worse(now, Missing)
      BY <1>1, <2>2 DEF Applied
    <3>2. now = "due" \/ Missing = "due"
      BY <1>4, <3>1, WorseDue
    <3>3. CASE now = "due"
      BY <3>3 DEF DueInv, DueIsKept
    <3> QED BY <3>2, <3>3, MissingDue
  <2> QED BY <2>1, <2>2
<1> QED BY <1>1, <1>2, <1>3, <1>4 DEF DueInv, DueIsKept

LEMMA ConnectKeeps == ASSUME DueInv, Connect PROVE DueInv'
<1>1. CASE conn = "down" /\ Invalidate(data, fetch)
  BY <1>1, InvalidateKeeps, SameMut DEF Connect, DueInv, Shapes, DueIsKept, FetchDueIsKept
<1>2. CASE conn = "off" /\ UNCHANGED <<isInvalidated, fetch>>
  BY <1>2, SameMut DEF Connect, DueInv, Shapes, DueIsKept, FetchDueIsKept
<1> QED BY <1>1, <1>2 DEF Connect

LEMMA DropKeeps == ASSUME DueInv, Drop PROVE DueInv'
<1>1. conn' = "down" /\ UNCHANGED mut
  BY DEF Drop
<1>2. {"on", "miss", "read", "first"} \subseteq DOMAIN fetch'
  BY DEF Drop, LoseWire, DueInv, Shapes
<1> QED BY <1>1, <1>2 DEF DueInv, Shapes, DueIsKept, FetchDueIsKept

-----------------------------------------------------------------------------
LEMMA FetchKeeps ==
  ASSUME DueInv, FetchFirstPages \/ FetchFails \/ \E s \in Listed : Read(s)
  PROVE  DueInv'
<1>1. InFlight' = InFlight /\ UNCHANGED <<mut, conn>>
  BY SameMut DEF FetchFirstPages, FetchFails, Read, socket
<1>2. CASE FetchFirstPages
  BY <1>1, <1>2, NewFetchShape DEF FetchFirstPages, DueInv, Shapes, DueIsKept, FetchDueIsKept
<1>3. CASE FetchFails
  BY <1>1, <1>3, NewFetchShape DEF FetchFails, DueInv, Shapes, DueIsKept, FetchDueIsKept
<1>4. ASSUME NEW s \in Listed, Read(s) PROVE DueInv'
  <2>1. /\ {"on", "miss", "read", "first"} \subseteq DOMAIN fetch' /\ fetch'.on = fetch.on
        /\ fetch'.miss \in {fetch.miss, Worse(fetch.miss, Missing)}
    BY <1>4 DEF Read, DueInv, Shapes
  <2>2. fetch'.miss = "due" => fetch.miss = "due" \/ conn = "down" \/ InFlight
    BY <2>1, WorseDue, MissingDue
  <2>3. UNCHANGED <<doubt, isInvalidated>>
    BY <1>4 DEF Read
  <2> QED BY <1>1, <2>1, <2>2, <2>3 DEF DueInv, Shapes, DueIsKept, FetchDueIsKept
<1> QED BY <1>2, <1>3, <1>4

LEMMA MutationKeeps ==
  ASSUME DueInv, IssueCacheAssumption, NEW m \in Muts,
         \/ \E i \in Issues, s \in Statuses : CreateIssue(m, i, s)
         \/ \E kind \in Kinds, i \in Issues, s \in Statuses \cup {None} : Optimistic(m, kind, i, s)
         \/ Arrive(m) \/ Answer(m)
  PROVE  DueInv'
<1>1. ASSUME NEW kind, NEW i, NEW s, NEW prev, Started(m, kind, i, s, prev)
      PROVE  InFlight' /\ mut' = [k \in Muts |-> mut'[k]] /\ DOMAIN mut' = Muts
             /\ \A k \in Muts : {"st", "ver"} \subseteq DOMAIN mut'[k]
  BY <1>1 DEF Started, InFlight, DueInv, Shapes
<1>2. ASSUME NEW i \in Issues, NEW s \in Statuses, CreateIssue(m, i, s) PROVE DueInv'
  BY <1>1, <1>2 DEF CreateIssue, query, DueInv, Shapes, DueIsKept, FetchDueIsKept
<1>3. ASSUME NEW kind \in Kinds, NEW i \in Issues, NEW s \in Statuses \cup {None},
             Optimistic(m, kind, i, s)
      PROVE  DueInv'
  BY <1>1, <1>3, NewFetchShape DEF Optimistic, DueInv, Shapes, DueIsKept, FetchDueIsKept
<1>4. CASE Arrive(m)
  <2>1. /\ InFlight' /\ mut' = [k \in Muts |-> mut'[k]] /\ DOMAIN mut' = Muts
        /\ \A k \in Muts : {"st", "ver"} \subseteq DOMAIN mut'[k]
    BY <1>4 DEF Arrive, InFlight, DueInv, Shapes
  <2>2. UNCHANGED <<doubt, isInvalidated, fetch, conn>>
    BY <1>4 DEF Arrive, query, socket
  <2> QED BY <2>1, <2>2 DEF DueInv, Shapes, DueIsKept, FetchDueIsKept
<1>5. CASE Answer(m)
  <2>1. isInvalidated' = TRUE /\ fetch'.miss # "due"
        /\ {"on", "miss", "read", "first"} \subseteq DOMAIN fetch'
    BY <1>5, InvalidateKeeps DEF Answer, OnSettled, DueInv
  <2>2. /\ mut' = [k \in Muts |-> mut'[k]] /\ DOMAIN mut' = Muts
        /\ \A k \in Muts : {"st", "ver"} \subseteq DOMAIN mut'[k]
    BY <1>5 DEF Answer, NoMut, DueInv, Shapes
  <2> QED BY <2>1, <2>2 DEF DueInv, Shapes, DueIsKept, FetchDueIsKept
<1> QED BY <1>2, <1>3, <1>4, <1>5

-----------------------------------------------------------------------------
LEMMA LeaveKeeps == ASSUME DueInv, Leave PROVE DueInv'
<1> DEFINE how == IF InFlight THEN "due" ELSE "lost"
           f == IF \E k \in DOMAIN wire : Overtaken(fetch, wire[k].ver)
                  THEN [fetch EXCEPT !.miss = Worse(@, how)] ELSE fetch
<1>1. /\ fetch' = (IF InFlight THEN f ELSE Forgone(f))
      /\ UNCHANGED <<isInvalidated, mut>> /\ conn' = "off"
  BY DEF Leave
<1>2. {"on", "miss", "read", "first"} \subseteq DOMAIN f /\ f.on = fetch.on
  BY DEF DueInv, Shapes
<1>3. /\ {"on", "miss", "read", "first"} \subseteq DOMAIN fetch' /\ fetch'.on = fetch.on
      /\ fetch'.miss = "due" => InFlight
  <2> HIDE DEF f
  <2> QED BY <1>1, <1>2, ForgoneShape
<1>4. doubt' = "due" => isInvalidated \/ fetch.on \/ InFlight
  <2> DEFINE d == IF doubt = "due" /\ ~isInvalidated /\ ~fetch.on THEN how ELSE doubt
             w == IF wire # <<>> /\ data # None THEN how ELSE "none"
  <2>1. doubt' = Worse(d, w)
    BY DEF Leave
  <2>2. d = "due" => isInvalidated \/ fetch.on \/ InFlight
    OBVIOUS
  <2>3. w = "due" => InFlight
    OBVIOUS
  <2> HIDE DEF d, w
  <2> QED BY <2>1, <2>2, <2>3, WorseDue
<1> QED BY <1>1, <1>3, <1>4, SameMut DEF DueInv, Shapes, DueIsKept, FetchDueIsKept

LEMMA PageKeeps ==
  ASSUME DueInv, Mount \/ Unmount \/ Return \/ Collect
  PROVE  DueInv'
<1>1. CASE Mount
  BY <1>1, NewFetchShape, SameMut DEF Mount, socket, DueInv, Shapes, DueIsKept, FetchDueIsKept
<1>2. CASE Unmount \/ Return
  BY <1>2, AsideKeeps DEF Unmount, Return, query, socket
<1>3. CASE Collect
  BY <1>3, SameMut DEF Collect, socket, DueInv, Shapes, DueIsKept, FetchDueIsKept
<1> QED BY <1>1, <1>2, <1>3

LEMMA InitHolds == Init => DueInv
BY NewFetchShape DEF Init, NoMut, DueInv, Shapes, DueIsKept, FetchDueIsKept

LEMMA StepKeeps == ASSUME DueInv, [Next]_vars PROVE DueInv'
<1>1. CASE UNCHANGED vars
  BY <1>1, AsideKeeps DEF vars, query, socket
<1>2. ASSUME NEW kind \in Kinds, NEW i \in Issues, NEW s \in Statuses, Other(kind, i, s)
      PROVE  DueInv'
  BY <1>2, AsideKeeps DEF Other, query, socket
<1> QED BY <1>1, <1>2, PublishKeeps, DeliverKeeps, ConnectKeeps, DropKeeps, FetchKeeps,
           MutationKeeps, LeaveKeeps, PageKeeps, IssueCacheAssumption DEF Next

(* What an outage of the socket or a rolled back mutation has made the     *)
(* list miss is marked, being fetched, or the reconnect or the mutation's  *)
(* end is still to come: no interleaving of events, fetches, mutations,    *)
(* page changes and workspace switches takes it off the books silently.    *)
THEOREM DueStaysOnTheBooks == Spec => []DueIsKept
<1>1. Init => DueInv
  BY InitHolds
<1>2. DueInv /\ [Next]_vars => DueInv'
  BY StepKeeps
<1>3. DueInv => DueIsKept
  BY DEF DueInv
<1> QED BY <1>1, <1>2, <1>3, PTL DEF Spec

-----------------------------------------------------------------------------
(* The list.  Where an issue is shown, when it is in one column at most.   *)
Shows(d, i, v) == \A s \in Listed : d[s][i] = IF s = v THEN 1 ELSE 0

Flying  == unpublished \cup {wire[k] : k \in DOMAIN wire}
Says(e) == server[e.i] = IF e.kind = "deleted" THEN "gone" ELSE e.s

(* An event is to come that is not older than one published before it.     *)
Pending(i) == \E e \in Flying : e.i = i /\ e.ver >= newest[i]

(* A mutation whose patch changed the list, and which may yet fail.        *)
Hopes(m, i) ==
  /\ mut[m].i = i /\ mut[m].kind \in {"updated", "deleted"} /\ mut[m].st \in {"sent", "failed"}
  /\ mut[m].prev # None /\ ~Shows(mut[m].prev, i, mut[m].s)

(* Why the list says what it says of an issue.                             *)
Told(i) ==
  \/ Pending(i) /\ \E v \in Listed \cup {None} : Shows(data, i, v)
  \/ Shows(data, i, server[i])
  \/ \E m \in Muts : Hopes(m, i) /\ Shows(data, i, mut[m].s)

ListTold == data # None /\ doubt = "none" => \A i \in Issues : Told(i)

(* A fetch that has missed nothing has read its columns at one time; what  *)
(* has changed since is told by an event to come.                          *)
Begun == {s \in Listed : fetch.read[s] # None}

Since(i)    == \E e \in Flying : e.i = i /\ e.ver >= newest[i] /\ e.ver > fetch.first
HasRead(i)  == \A s \in Begun : i \in fetch.read[s] <=> server[i] = s
ReadOnce(i) == \A s, t \in Begun : i \in fetch.read[s] /\ i \in fetch.read[t] => s = t

FetchTold ==
  fetch.on /\ fetch.miss = "none" /\ Begun # {} =>
    fetch.first <= clock /\ \A i \in Issues : (Since(i) \/ HasRead(i)) /\ ReadOnce(i)

(* The last event of an issue says what the server says, and of the events *)
(* on the socket one is the newest published, late, or followed by it.     *)
LastSays ==
  \A e \in Flying :
    e.ver >= newest[e.i] /\ (\A f \in unpublished : f.i = e.i => f.ver <= e.ver) => Says(e)

InOrder ==
  \A k \in DOMAIN wire :
    /\ wire[k].ver <= newest[wire[k].i]
    /\ \/ wire[k].late \/ wire[k].ver = newest[wire[k].i]
       \/ \E m \in DOMAIN wire : k < m /\ wire[m].i = wire[k].i /\ wire[m].ver = newest[wire[k].i]

Events == [kind : Kinds, i : Issues, s : Statuses, ver : Nat, late : BOOLEAN]

EventsTyped ==
  /\ unpublished \subseteq Events /\ wire \in Seq(Events)
  /\ clock \in Nat /\ newest \in [Issues -> 0..clock] /\ \A e \in Flying : e.ver <= clock

Wanted(r) ==
  \/ r.kind = "created" /\ r.i \in Issues /\ r.s \in Statuses /\ r.prev = None
  \/ r.kind = "updated" /\ r.i \in Issues /\ r.s \in Statuses
  \/ r.kind = "deleted" /\ r.i \in Issues /\ r.s = None

Mutations == [kind : Kinds \cup {"none"}, i : Issues \cup {None}, s : Statuses \cup {None},
              prev : Buckets \cup {None}, st : {"idle", "sent", "ok", "failed"}, ver : Nat]

MutsTyped ==
  /\ mut \in [Muts -> Mutations] /\ \A m \in Muts : mut[m].st # "idle" => Wanted(mut[m])

Fetches == [on : BOOLEAN, read : [Listed -> (SUBSET Issues) \cup {None}], first : Nat,
            miss : {"none", "due", "lost"}]

ListTyped ==
  /\ server \in [Issues -> {"none", "gone"} \cup Statuses]
  /\ (data = None \/ data \in Buckets) /\ fetch \in Fetches
  /\ isInvalidated \in BOOLEAN /\ doubt \in {"none", "due", "lost"}

Placed ==
  /\ mounted \in BOOLEAN /\ here \in BOOLEAN /\ (mounted => here) /\ (conn # "off" => here)
  /\ conn \in {"off", "up", "down"} /\ (wire # <<>> => conn = "up")

Typed == EventsTyped /\ MutsTyped /\ ListTyped /\ Placed

ListInv == Typed /\ ListTold /\ FetchTold /\ LastSays /\ InOrder

-----------------------------------------------------------------------------
LEMMA LeastNat ==
  ASSUME NEW T, T \subseteq Nat, T # {}
  PROVE  \E x \in T : \A y \in T : x <= y
<1> DEFINE Below == {0..x : x \in T}
<1>1. Below \subseteq FiniteSubsetsOf(Nat) /\ Below # {}
  <2>1. ASSUME NEW x \in T PROVE 0..x \in FiniteSubsetsOf(Nat)
    <3>1. 0 \in Int /\ x \in Int /\ 0..x \subseteq Nat
      OBVIOUS
    <3>2. IsFiniteSet(0..x)
      BY <3>1, FS_Interval
    <3> QED BY <3>1, <3>2 DEF FiniteSubsetsOf
  <2> QED BY <2>1
<1>2. PICK S \in Below : \A R \in Below : ~(<<R, S>> \in StrictSubsetOrdering(Nat))
  <2> HIDE DEF Below
  <2> QED BY <1>1, FS_StrictSubsetOrderingWellFounded, WFMin
<1>3. PICK x \in T : S = 0..x
  OBVIOUS
<1>4. ASSUME NEW y \in T, y < x PROVE FALSE
  <2>1. 0..y \subseteq 0..x /\ 0..x \subseteq Nat /\ x \in 0..x /\ x \notin 0..y
    BY <1>4
  <2>2. <<0..y, 0..x>> \in StrictSubsetOrdering(Nat)
    BY <2>1 DEF StrictSubsetOrdering
  <2> QED BY <1>2, <1>3, <2>2
<1> QED BY <1>4

(* What the operators of the cache do to an issue shown in one column.     *)
LEMMA LocationIs ==
  ASSUME IssueCacheAssumption, NEW d, NEW i
  PROVE  IF \E s \in Listed : d[s][i] > 0
           THEN Location(d, i) \in Listed /\ d[Location(d, i)][i] > 0
           ELSE Location(d, i) = None
<1> DEFINE I == {k \in 1..Len(Columns) : d[Columns[k]][i] > 0}
<1>1. Columns \in Seq(Listed) /\ Len(Columns) \in Nat /\ DOMAIN Columns = 1..Len(Columns)
  BY DEF IssueCacheAssumption
<1>2. \A s \in Listed : \E k \in 1..Len(Columns) : s = Columns[k]
  BY <1>1 DEF Listed, ToSet
<1>3. \A k \in 1..Len(Columns) : Columns[k] \in Listed
  BY <1>1
<1>4. Location(d, i) = LET k == IF I # {} THEN Min(I) ELSE 0
                       IN  IF k = 0 THEN None ELSE Columns[k]
  BY DEF Location, SelectInSeq
<1>5. CASE I = {}
  BY <1>2, <1>4, <1>5
<1>6. CASE I # {}
  <2>1. \E x \in I : \A y \in I : x <= y
    <3>1. I \subseteq Nat
      OBVIOUS
    <3> HIDE DEF I
    <3> QED BY <1>6, <3>1, LeastNat
  <2>2. Min(I) \in I
    BY <2>1 DEF Min
  <2>3. Location(d, i) = Columns[Min(I)]
    BY <1>4, <1>6, <2>2
  <2> QED BY <1>2, <1>3, <2>2, <2>3
<1> QED BY <1>5, <1>6

LEMMA LocationShows ==
  ASSUME IssueCacheAssumption, NEW d, NEW i, NEW v, Shows(d, i, v)
  PROVE  Location(d, i) = IF v \in Listed THEN v ELSE None
<1>1. \A s \in Listed : d[s][i] > 0 <=> s = v
  BY DEF Shows
<1> QED BY <1>1, LocationIs

LEMMA NoneApart ==
  ASSUME IssueCacheAssumption
  PROVE  None \notin Listed /\ Cancelled \notin Listed /\ "none" \notin Listed /\ "gone" \notin Listed
         /\ None # Cancelled /\ Listed \subseteq Statuses /\ None \notin Statuses
BY DEF IssueCacheAssumption, Statuses

(* Two lists that say the same of an issue.                                *)
Same(d, e, i) == \A s \in Listed : e[s][i] = d[s][i]

LEMMA SameShows ==
  ASSUME NEW d, NEW e, NEW i, Same(d, e, i), NEW v
  PROVE  Shows(e, i, v) <=> Shows(d, i, v)
BY DEF Same, Shows

LEMMA AddIs ==
  ASSUME IssueCacheAssumption, NEW d \in Buckets, NEW i \in Issues, NEW s \in Statuses,
         NEW a, a = AddIssueToBuckets(d, i, s)
  PROVE  /\ a \in Buckets
         /\ \A j \in Issues \ {i} : Same(d, a, j)
         /\ Location(d, i) \in {None, s} /\ (\E v : Shows(d, i, v)) => Shows(a, i, s)
<1>1. CASE s = Cancelled
  <2>1. a = d /\ s \notin Listed
    BY <1>1, NoneApart DEF AddIssueToBuckets
  <2>2. ASSUME Location(d, i) \in {None, s}, NEW v, Shows(d, i, v) PROVE Shows(d, i, s)
    BY <2>1, <2>2, LocationShows, NoneApart DEF Shows
  <2> QED BY <2>1, <2>2 DEF Same
<1>2. CASE s # Cancelled
  <2>1. s \in Listed
    BY <1>2 DEF Statuses
  <2>2. d \in [Listed -> [Issues -> 0..2]]
    BY DEF Buckets
  <2>3. /\ a \in [Listed -> [Issues -> 0..2]]
        /\ \A c \in Listed, j \in Issues :
             a[c][j] = IF c = s /\ j = i THEN IF d[s][i] = 0 THEN 1 ELSE d[s][i] ELSE d[c][j]
    BY <1>2, <2>1, <2>2 DEF AddIssueToBuckets
  <2>4. ASSUME Location(d, i) \in {None, s}, NEW v, Shows(d, i, v) PROVE Shows(a, i, s)
    <3>1. v \in Listed => v = s
      BY <2>4, LocationShows, NoneApart
    <3> QED BY <2>1, <2>3, <2>4, <3>1 DEF Shows
  <2> QED BY <2>3, <2>4 DEF Buckets, Same
<1> QED BY <1>1, <1>2

LEMMA RemoveIs ==
  ASSUME IssueCacheAssumption, NEW d \in Buckets, NEW i \in Issues, NEW a, a = RemoveIssueFromBuckets(d, i)
  PROVE  /\ a \in Buckets
         /\ \A j \in Issues \ {i} : Same(d, a, j)
         /\ (\E v : Shows(d, i, v)) => Shows(a, i, None)
<1> DEFINE l == Location(d, i)
<1>1. CASE l = None
  <2>1. a = d
    BY <1>1 DEF RemoveIssueFromBuckets
  <2>2. ASSUME NEW v, Shows(d, i, v) PROVE Shows(d, i, None)
    BY <1>1, <2>2, LocationShows, NoneApart DEF Shows
  <2> QED BY <2>1, <2>2 DEF Same
<1>2. CASE l # None
  <2>1. l \in Listed
    BY <1>2, LocationIs
  <2>2. d \in [Listed -> [Issues -> 0..2]]
    BY DEF Buckets
  <2>3. a = [d EXCEPT ![l][i] = 0]
    BY <1>2 DEF RemoveIssueFromBuckets
  <2>4. ASSUME NEW v, Shows(d, i, v) PROVE l = v
    BY <1>2, <2>4, LocationShows
  <2> HIDE DEF l
  <2>5. /\ a \in [Listed -> [Issues -> 0..2]]
        /\ \A c \in Listed, j \in Issues : a[c][j] = IF c = l /\ j = i THEN 0 ELSE d[c][j]
    BY <2>1, <2>2, <2>3
  <2>6. ASSUME NEW v, Shows(d, i, v) PROVE Shows(a, i, None)
    <3>1. \A c \in Listed : c # l => d[c][i] = 0
      BY <2>4, <2>6 DEF Shows
    <3>2. \A c \in Listed : a[c][i] = 0 /\ c # None
      BY <2>5, <3>1, NoneApart
    <3> QED BY <3>2 DEF Shows
  <2> QED BY <2>5, <2>6 DEF Buckets, Same, l
<1> QED BY <1>1, <1>2

(* patchIssueInBuckets moves an issue that is there. *)
LEMMA PatchIs ==
  ASSUME IssueCacheAssumption, NEW d \in Buckets, NEW i \in Issues, NEW s, NEW a, a = PatchIssueInBuckets(d, i, s)
  PROVE  /\ a \in Buckets
         /\ \A j \in Issues \ {i} : Same(d, a, j)
         /\ Location(d, i) = None => a = d
         /\ Location(d, i) # None /\ (\E v : Shows(d, i, v)) => Shows(a, i, s)
<1> DEFINE l == Location(d, i)
<1>1. CASE l = None \/ l = s
  <2>1. a = d
    BY <1>1 DEF PatchIssueInBuckets
  <2>2. ASSUME l # None, NEW v, Shows(d, i, v) PROVE Shows(d, i, s)
    BY <1>1, <2>2, LocationShows
  <2> QED BY <2>1, <2>2 DEF Same
<1>2. CASE ~(l = None \/ l = s)
  <2>1. l \in Listed
    BY <1>2, LocationIs
  <2>2. d \in [Listed -> [Issues -> 0..2]]
    BY DEF Buckets
  <2> DEFINE G(c) == CASE c = l -> 0
                       [] c = s -> IF d[c][i] = 0 THEN 1 ELSE 2
                       [] OTHER -> d[c][i]
  <2>3. a = [c \in Listed |-> [d[c] EXCEPT ![i] = G(c)]]
    BY <1>2, Zenon DEF PatchIssueInBuckets
  <2>7. \A c : G(c) = IF c = l THEN 0 ELSE IF c = s THEN IF d[c][i] = 0 THEN 1 ELSE 2 ELSE d[c][i]
    BY <1>2, Zenon
  <2>4. ASSUME NEW v, Shows(d, i, v) PROVE l = v
    BY <1>2, <2>4, LocationShows
  <2> HIDE DEF l, G
  <2>5. /\ a \in [Listed -> [Issues -> 0..2]]
        /\ \A c \in Listed, j \in Issues :
             a[c][j] = IF j # i THEN d[c][j] ELSE IF c = l THEN 0
                       ELSE IF c = s THEN IF d[c][i] = 0 THEN 1 ELSE 2 ELSE d[c][i]
    BY <2>1, <2>2, <2>3, <2>7
  <2>6. ASSUME NEW v, Shows(d, i, v) PROVE Shows(a, i, s)
    BY <1>2, <2>4, <2>5, <2>6 DEF Shows
  <2> QED BY <1>2, <2>5, <2>6 DEF Buckets, Same, l
<1> QED BY <1>1, <1>2

(* Where an event or a mutation puts an issue. *)
Target(kind, s) == IF kind = "deleted" THEN None ELSE s

LEMMA PatchedIs ==
  ASSUME IssueCacheAssumption, NEW d \in Buckets, d # None, NEW kind \in Kinds, NEW i \in Issues,
         NEW s \in Statuses \cup {None}, kind = "created" => s \in Statuses,
         NEW a, a = Patched(d, kind, i, s)
  PROVE  /\ a \in Buckets
         /\ \A j \in Issues \ {i} : Same(d, a, j)
         /\ kind = "created" /\ Location(d, i) \in {None, s} /\ (\E v : Shows(d, i, v)) => Shows(a, i, s)
         /\ kind = "deleted" /\ (\E v : Shows(d, i, v)) => Shows(a, i, None)
         /\ kind = "updated" /\ (\E v : Shows(d, i, v)) => a = d \/ Shows(a, i, s)
         /\ kind = "updated" /\ (s \in Listed => Location(d, i) # None) /\ (\E v : Shows(d, i, v)) => Shows(a, i, s)
<1>1. CASE kind = "created"
  <2>1. a = AddIssueToBuckets(d, i, s) /\ s \in Statuses
    BY <1>1 DEF Patched
  <2> QED BY <1>1, <2>1, AddIs
<1>2. CASE kind = "deleted"
  <2>1. a = RemoveIssueFromBuckets(d, i)
    BY <1>2 DEF Patched
  <2> QED BY <1>2, <2>1, RemoveIs
<1>3. CASE kind = "updated"
  <2>1. a = PatchIssueInBuckets(d, i, s)
    BY <1>3 DEF Patched
  <2>2. ASSUME s \notin Listed, Location(d, i) = None, NEW v, Shows(d, i, v) PROVE Shows(d, i, s)
    BY <2>2, LocationShows, NoneApart DEF Shows
  <2>3. /\ a \in Buckets /\ \A j \in Issues \ {i} : Same(d, a, j)
        /\ Location(d, i) = None => a = d
        /\ Location(d, i) # None /\ (\E v : Shows(d, i, v)) => Shows(a, i, s)
    BY <2>1, PatchIs
  <2>4. (s \in Listed => Location(d, i) # None) /\ (\E v : Shows(d, i, v)) => Shows(a, i, s)
    BY <2>2, <2>3
  <2> QED BY <1>3, <2>3, <2>4
<1> QED BY <1>1, <1>2, <1>3 DEF Kinds

-----------------------------------------------------------------------------
(* What a step does to the server and the events.                          *)
Forms ==
  \/ UNCHANGED <<server, clock, unpublished, wire, newest>>
  \/ \E kind \in Kinds, i \in Issues, s \in Statuses : Commit(kind, i, s) /\ UNCHANGED <<wire, newest>>
  \/ \E e \in unpublished : Publish(e)
  \/ Deliver
  \/ wire' = <<>> /\ UNCHANGED <<server, clock, unpublished, newest>>

LEMMA ArriveForms ==
  ASSUME Typed, NEW m \in Muts, Arrive(m)
  PROVE  \/ UNCHANGED <<server, clock, unpublished, wire, newest>>
         \/ \E kind \in Kinds, s \in Statuses :
              /\ Commit(kind, mut[m].i, s) /\ mut[m].i \in Issues /\ UNCHANGED <<wire, newest>>
<1>1. mut[m].st = "sent" /\ Wanted(mut[m])
  BY DEF Arrive, Typed, MutsTyped
<1>2. UNCHANGED <<wire, newest>>
  BY DEF Arrive, socket
<1>3. CASE mut[m].kind = "deleted" /\ Commit(mut[m].kind, mut[m].i, server[mut[m].i])
  <2>1. server[mut[m].i] \in Statuses
    BY <1>3 DEF Commit
  <2> QED BY <1>1, <1>2, <1>3, <2>1 DEF Wanted, Kinds
<1>4. CASE mut[m].kind # "deleted" /\ Commit(mut[m].kind, mut[m].i, mut[m].s)
  BY <1>1, <1>2, <1>4 DEF Wanted, Kinds
<1>5. CASE UNCHANGED <<server, clock, unpublished>>
  BY <1>2, <1>5
<1> QED BY <1>3, <1>4, <1>5 DEF Arrive

LEMMA StepForms == ASSUME Typed, [Next]_vars PROVE Forms
<1>1. ASSUME NEW m \in Muts, Arrive(m) PROVE Forms
  <2>1. mut[m].i \in Issues \/ UNCHANGED <<server, clock, unpublished, wire, newest>>
    BY <1>1, ArriveForms
  <2> QED BY <1>1, <2>1, ArriveForms DEF Forms
<1>2. ASSUME NEW kind \in Kinds, NEW i \in Issues, NEW s \in Statuses, Other(kind, i, s) PROVE Forms
  BY <1>2 DEF Other, socket, Forms
<1>3. (Deliver \/ \E e \in unpublished : Publish(e)) => Forms
  BY DEF Forms
<1>4. Drop \/ Leave => Forms
  BY DEF Drop, Leave, LoseWire, Forms
<1>5. ASSUME \/ Connect \/ FetchFirstPages \/ FetchFails \/ Mount \/ Unmount \/ Return \/ Collect
             \/ \E s \in Listed : Read(s)
             \/ \E m \in Muts :
                  \/ \E i \in Issues, s \in Statuses : CreateIssue(m, i, s)
                  \/ \E kind \in Kinds, i \in Issues, s \in Statuses \cup {None} : Optimistic(m, kind, i, s)
                  \/ Answer(m)
             \/ UNCHANGED vars
      PROVE  UNCHANGED <<server, clock, unpublished, wire, newest>>
  BY <1>5 DEF Connect, FetchFirstPages, FetchFails, Mount, Unmount, Return, Collect, Read, CreateIssue, Optimistic,
              Answer, vars, socket
<1>6. UNCHANGED <<server, clock, unpublished, wire, newest>> => Forms
  BY DEF Forms
<1> QED BY <1>1, <1>2, <1>3, <1>4, <1>5, <1>6 DEF Next

LEMMA CommitIs ==
  ASSUME Typed, NEW kind \in Kinds, NEW i \in Issues, NEW s \in Statuses, Commit(kind, i, s)
  PROVE  /\ clock' = clock + 1 /\ (\A j \in Issues \ {i} : server'[j] = server[j])
         /\ server' \in [Issues -> {"none", "gone"} \cup Statuses]
         /\ \E e \in Events : /\ e.i = i /\ e.ver = clock + 1 /\ Says(e)'
                              /\ unpublished' = unpublished \cup {e}
<1>1. clock \in Nat /\ server \in [Issues -> {"none", "gone"} \cup Statuses]
  BY DEF Typed, EventsTyped, ListTyped
<1>2. PICK e : e = Event(kind, i, s)
  OBVIOUS
<1>3. e \in Events /\ e.i = i /\ e.ver = clock + 1 /\ e.kind = kind /\ e.s = s
  BY <1>1, <1>2 DEF Event, Events
<1>4. clock' = clock + 1 /\ unpublished' = unpublished \cup {e}
  BY <1>2 DEF Commit
<1>5. server' = [server EXCEPT ![i] = IF kind = "deleted" THEN "gone" ELSE s]
  BY DEF Commit, Kinds
<1>6. Says(e)'
  BY <1>1, <1>3, <1>5 DEF Says
<1>7. (\A j \in Issues \ {i} : server'[j] = server[j]) /\ server' \in [Issues -> {"none", "gone"} \cup Statuses]
  BY <1>1, <1>5
<1> QED BY <1>3, <1>4, <1>6, <1>7

LEMMA PublishIs ==
  ASSUME Typed, NEW e \in unpublished, Publish(e)
  PROVE  /\ e \in Events /\ e \in Flying /\ unpublished' = unpublished \ {e} /\ UNCHANGED <<server, clock>>
         /\ newest' = [newest EXCEPT ![e.i] = IF e.ver > newest[e.i] THEN e.ver ELSE newest[e.i]]
         /\ newest \in [Issues -> Nat]
         /\ Flying' \subseteq Flying \cup {[e EXCEPT !.late = e.ver < newest[e.i]]}
         /\ \/ UNCHANGED wire
            \/ \E r \in Events :
                 /\ r = [e EXCEPT !.late = e.ver < newest[e.i]]
                 /\ r.kind = e.kind /\ r.i = e.i /\ r.s = e.s /\ r.ver = e.ver
                 /\ r.late = (e.ver < newest[e.i])
                 /\ wire' = Append(wire, r) /\ wire' \in Seq(Events) /\ Len(wire) \in Nat
                 /\ DOMAIN wire = 1..Len(wire) /\ DOMAIN wire' = DOMAIN wire \cup {Len(wire) + 1}
                 /\ wire'[Len(wire) + 1] = r /\ \A k \in DOMAIN wire : wire'[k] = wire[k]
                 /\ r \in Flying' /\ \A f \in Flying : f = e \/ f \in Flying'
<1> DEFINE r == [e EXCEPT !.late = e.ver < newest[e.i]]
<1>1. e \in Events /\ wire \in Seq(Events) /\ newest \in [Issues -> 0..clock] /\ clock \in Nat
  BY DEF Typed, EventsTyped
<1>2. /\ unpublished' = unpublished \ {e} /\ UNCHANGED <<server, clock>>
      /\ newest' = [newest EXCEPT ![e.i] = IF e.ver > newest[e.i] THEN e.ver ELSE newest[e.i]]
      /\ UNCHANGED wire \/ wire' = Append(wire, r)
  BY DEF Publish
<1>3. newest \in [Issues -> Nat] /\ newest[e.i] \in Nat
  BY <1>1 DEF Events
<1>4. /\ r \in Events /\ r.kind = e.kind /\ r.i = e.i /\ r.s = e.s /\ r.ver = e.ver
      /\ r.late = (e.ver < newest[e.i])
  <2>1. e \in [kind : Kinds, i : Issues, s : Statuses, ver : Nat, late : BOOLEAN]
    BY <1>1 DEF Events
  <2>2. PICK b \in BOOLEAN : b = (e.ver < newest[e.i])
    <3> DEFINE p == e.ver < newest[e.i]
    <3>1. p \in BOOLEAN
      OBVIOUS
    <3> HIDE DEF p
    <3>2. \E b \in BOOLEAN : b = p
      BY <3>1, Zenon
    <3> QED BY <3>2, Zenon DEF p
  <2>3. r = [e EXCEPT !.late = b]
    BY <2>2
  <2> HIDE DEF r
  <2>4. r \in Events /\ r.late = b
    BY <2>1, <2>3 DEF Events
  <2>5. r.kind = e.kind /\ r.i = e.i /\ r.s = e.s /\ r.ver = e.ver
    BY <2>1, <2>3
  <2> QED BY <2>2, <2>4, <2>5
<1> HIDE DEF r
<1>5. CASE UNCHANGED wire
  <2>1. Flying' \subseteq Flying \cup {r}
    BY <1>2, <1>5 DEF Flying
  <2> QED BY <1>1, <1>2, <1>3, <1>5, <2>1 DEF r, Flying
<1>6. CASE wire' = Append(wire, r)
  <2>1. wire' \in Seq(Events) /\ Len(wire') = Len(wire) + 1 /\ wire'[Len(wire) + 1] = r
        /\ \A k \in 1..Len(wire) : wire'[k] = wire[k]
    BY <1>1, <1>4, <1>6, AppendProperties
  <2>2. DOMAIN wire' = 1..(Len(wire) + 1) /\ DOMAIN wire = 1..Len(wire) /\ Len(wire) \in Nat
    BY <1>1, <2>1
  <2>3. DOMAIN wire' = DOMAIN wire \cup {Len(wire) + 1}
    BY <2>2
  <2>4. Flying' \subseteq Flying \cup {r}
    BY <1>2, <2>1, <2>2, <2>3 DEF Flying
  <2>5. \A f \in Flying : f = e \/ f \in Flying'
    BY <1>2, <2>1, <2>2, <2>3 DEF Flying
  <2>6. r \in Flying'
    BY <2>1, <2>3 DEF Flying
  <2>7. \E q \in Events :
                 /\ q = [e EXCEPT !.late = e.ver < newest[e.i]]
                 /\ q.kind = e.kind /\ q.i = e.i /\ q.s = e.s /\ q.ver = e.ver
                 /\ q.late = (e.ver < newest[e.i])
                 /\ wire' = Append(wire, q) /\ wire' \in Seq(Events) /\ Len(wire) \in Nat
                 /\ DOMAIN wire = 1..Len(wire) /\ DOMAIN wire' = DOMAIN wire \cup {Len(wire) + 1}
                 /\ wire'[Len(wire) + 1] = q /\ \A k \in DOMAIN wire : wire'[k] = wire[k]
                 /\ q \in Flying' /\ \A f \in Flying : f = e \/ f \in Flying'
    <3>1. r = [e EXCEPT !.late = e.ver < newest[e.i]]
      BY DEF r
    <3> WITNESS r \in Events
    <3> QED BY <1>4, <1>6, <2>1, <2>2, <2>3, <2>5, <2>6, <3>1
  <2>8. Flying' \subseteq Flying \cup {[e EXCEPT !.late = e.ver < newest[e.i]]}
    BY <2>4 DEF r
  <2>9. e \in Flying
    BY DEF Flying
  <2> QED BY <1>1, <1>2, <1>3, <2>7, <2>8, <2>9
<1> QED BY <1>2, <1>5, <1>6

LEMMA DeliverIs ==
  ASSUME Typed, Deliver
  PROVE  /\ Head(wire) \in Events /\ Head(wire) \in Flying
         /\ Head(wire) = wire[1] /\ 1 \in DOMAIN wire
         /\ wire' \in Seq(Events) /\ UNCHANGED <<server, clock, unpublished, newest>>
         /\ \A k \in DOMAIN wire' : k \in Nat /\ k + 1 \in DOMAIN wire /\ wire'[k] = wire[k + 1]
         /\ \A k \in DOMAIN wire : k \in Nat /\ k >= 1
         /\ \A k \in DOMAIN wire : k # 1 => k - 1 \in DOMAIN wire' /\ wire'[k - 1] = wire[k]
         /\ Flying' \subseteq Flying /\ \A f \in Flying : f = Head(wire) \/ f \in Flying'
<1>1. wire # <<>> /\ wire' = Tail(wire) /\ UNCHANGED <<server, clock, unpublished, newest>>
  BY DEF Deliver
<1>2. wire \in Seq(Events) /\ Len(wire) \in Nat /\ DOMAIN wire = 1..Len(wire) /\ Len(wire) # 0
  BY <1>1, EmptySeq DEF Typed, EventsTyped
<1>3. Head(wire) = wire[1] /\ 1 \in DOMAIN wire /\ Head(wire) \in Events
  <2>1. 1 \in 1..Len(wire)
    BY <1>2
  <2> QED BY <1>1, <1>2, <2>1, ElementOfSeq, HeadTailProperties
<1>4. Head(wire) \in Flying
  BY <1>3 DEF Flying
<1>5. /\ wire' \in Seq(Events) /\ Len(wire') = Len(wire) - 1
      /\ \A k \in 1..Len(wire') : wire'[k] = wire[k + 1]
  BY <1>1, <1>2, HeadTailProperties
<1>6. DOMAIN wire' = 1..(Len(wire) - 1)
  BY <1>5
<1>7. \A k \in DOMAIN wire' : k \in Nat /\ k + 1 \in DOMAIN wire /\ wire'[k] = wire[k + 1]
  BY <1>2, <1>5, <1>6
<1>8. \A k \in DOMAIN wire : k # 1 => k - 1 \in DOMAIN wire' /\ wire'[k - 1] = wire[k]
  <2> SUFFICES ASSUME NEW k \in DOMAIN wire, k # 1
               PROVE  k - 1 \in DOMAIN wire' /\ wire'[k - 1] = wire[k]
    OBVIOUS
  <2>1. k - 1 \in 1..(Len(wire) - 1) /\ (k - 1) + 1 = k
    BY <1>2
  <2> QED BY <2>1, <1>6, <1>7
<1>9. \A k \in DOMAIN wire : k \in Nat /\ k >= 1
  BY <1>2
<1>10. Flying' \subseteq Flying
  BY <1>1, <1>7 DEF Flying
<1>11. \A f \in Flying : f = Head(wire) \/ f \in Flying'
  <2>1. ASSUME NEW k \in DOMAIN wire PROVE wire[k] = Head(wire) \/ wire[k] \in Flying'
    <3>1. CASE k # 1
      <4>1. k - 1 \in DOMAIN wire' /\ wire'[k - 1] = wire[k]
        BY <1>8, <3>1
      <4> QED BY <4>1 DEF Flying
    <3> QED BY <1>3, <3>1
  <2> QED BY <1>1, <2>1 DEF Flying
<1> QED BY <1>1, <1>3, <1>4, <1>5, <1>7, <1>8, <1>9, <1>10, <1>11

-----------------------------------------------------------------------------
LEMMA EventsStay == ASSUME Typed, Forms PROVE EventsTyped'
<1>1. /\ unpublished \subseteq Events /\ wire \in Seq(Events) /\ clock \in Nat
      /\ newest \in [Issues -> 0..clock] /\ \A e \in Flying : e.ver <= clock
  BY DEF Typed, EventsTyped
<1>2. CASE UNCHANGED <<server, clock, unpublished, wire, newest>>
  BY <1>1, <1>2 DEF EventsTyped, Flying
<1>3. ASSUME NEW kind \in Kinds, NEW i \in Issues, NEW s \in Statuses, Commit(kind, i, s), UNCHANGED <<wire, newest>>
      PROVE  EventsTyped'
  <2>1. PICK e \in Events : e.ver = clock + 1 /\ unpublished' = unpublished \cup {e} /\ clock' = clock + 1
    BY <1>3, CommitIs
  <2>2. 0..clock \subseteq 0..(clock + 1)
    BY <1>1
  <2>3. Flying' = Flying \cup {e}
    BY <1>3, <2>1 DEF Flying
  <2>4. \A f \in Flying' : f.ver <= clock'
    <3>1. \A f \in Flying : f \in Events
      BY <1>1, ElementOfSeq DEF Flying
    <3> QED BY <1>1, <2>1, <2>3, <3>1 DEF Events
  <2>5. newest' \in [Issues -> 0..clock'] /\ clock' \in Nat
    BY <1>1, <1>3, <2>1, <2>2
  <2> QED BY <1>1, <1>3, <2>1, <2>4, <2>5 DEF EventsTyped
<1>4. ASSUME NEW e \in unpublished, Publish(e) PROVE EventsTyped'
  <2>1. /\ e \in Events /\ e \in Flying /\ unpublished' = unpublished \ {e} /\ clock' = clock
        /\ newest' = [newest EXCEPT ![e.i] = IF e.ver > newest[e.i] THEN e.ver ELSE newest[e.i]]
        /\ Flying' \subseteq Flying \cup {[e EXCEPT !.late = e.ver < newest[e.i]]}
        /\ UNCHANGED wire \/ wire' \in Seq(Events)
    BY <1>4, PublishIs
  <2>2. [e EXCEPT !.late = e.ver < newest[e.i]].ver = e.ver
    BY <2>1 DEF Events
  <2>3. \A f \in Flying' : f.ver <= clock'
    BY <1>1, <2>1, <2>2
  <2>4. e.ver \in 0..clock /\ e.i \in Issues
    BY <1>1, <2>1 DEF Events
  <2>5. newest' \in [Issues -> 0..clock']
    BY <1>1, <2>1, <2>4
  <2> QED BY <1>1, <2>1, <2>3, <2>5 DEF EventsTyped
<1>5. CASE Deliver
  BY <1>1, <1>5, DeliverIs DEF EventsTyped
<1>6. CASE wire' = <<>> /\ UNCHANGED <<server, clock, unpublished, newest>>
  <2>1. wire' \in Seq(Events) /\ DOMAIN wire' = {}
    BY <1>6
  <2> QED BY <1>1, <1>6, <2>1 DEF EventsTyped, Flying
<1> QED BY <1>2, <1>3, <1>4, <1>5, <1>6 DEF Forms

LEMMA FlyingTyped == ASSUME Typed PROVE Flying \subseteq Events
BY ElementOfSeq DEF Typed, EventsTyped, Flying

LEMMA LastStays == ASSUME Typed, LastSays, Forms PROVE LastSays'
<1>1. /\ clock \in Nat /\ newest \in [Issues -> 0..clock] /\ \A e \in Flying : e.ver <= clock
      /\ Flying \subseteq Events /\ unpublished \subseteq Flying
  BY FlyingTyped DEF Typed, EventsTyped, Flying
<1>2. ASSUME UNCHANGED <<server, unpublished, newest>>, Flying' \subseteq Flying PROVE LastSays'
  BY <1>2 DEF LastSays, Says
<1>3. ASSUME NEW kind \in Kinds, NEW i \in Issues, NEW s \in Statuses, Commit(kind, i, s), UNCHANGED <<wire, newest>>
      PROVE  LastSays'
  <2>1. PICK e \in Events : /\ e.i = i /\ e.ver = clock + 1 /\ Says(e)'
                            /\ unpublished' = unpublished \cup {e}
                            /\ \A j \in Issues \ {i} : server'[j] = server[j]
    BY <1>3, CommitIs
  <2>2. Flying' = Flying \cup {e}
    BY <1>3, <2>1 DEF Flying
  <2>3. ASSUME NEW g \in Flying, g.ver >= newest[g.i], \A f \in unpublished' : f.i = g.i => f.ver <= g.ver
        PROVE  Says(g)'
    <3>1. CASE g.i = i
      <4>1. e.ver <= g.ver /\ g.ver <= clock /\ e.ver = clock + 1 /\ g.ver \in Nat
        BY <1>1, <2>1, <2>3, <3>1 DEF Events
      <4> QED BY <1>1, <4>1
    <3>2. CASE g.i # i
      <4>1. g.i \in Issues /\ server'[g.i] = server[g.i]
        BY <1>1, <2>1, <3>2 DEF Events
      <4>2. Says(g)
        BY <2>1, <2>3 DEF LastSays
      <4> QED BY <4>1, <4>2 DEF Says
    <3> QED BY <3>1, <3>2
  <2> QED BY <1>3, <2>1, <2>2, <2>3 DEF LastSays
<1>4. ASSUME NEW e \in unpublished, Publish(e) PROVE LastSays'
  <2> DEFINE r == [e EXCEPT !.late = e.ver < newest[e.i]]
  <2>1. /\ e \in Events /\ e \in Flying /\ unpublished' = unpublished \ {e} /\ server' = server
        /\ newest' = [newest EXCEPT ![e.i] = IF e.ver > newest[e.i] THEN e.ver ELSE newest[e.i]]
        /\ Flying' \subseteq Flying \cup {r}
    BY <1>4, PublishIs
  <2>2. r.kind = e.kind /\ r.i = e.i /\ r.s = e.s /\ r.ver = e.ver
    BY <2>1 DEF Events
  <2> HIDE DEF r
  <2>3. /\ e.i \in Issues /\ e.ver \in Nat /\ newest[e.i] \in Nat
        /\ newest'[e.i] >= e.ver /\ newest'[e.i] >= newest[e.i]
        /\ \A j \in Issues \ {e.i} : newest'[j] = newest[j]
    BY <1>1, <2>1 DEF Events
  <2>4. ASSUME NEW g \in Flying', g.ver >= newest'[g.i], \A f \in unpublished' : f.i = g.i => f.ver <= g.ver
        PROVE  Says(g)'
    <3>1. PICK h \in Flying : h.kind = g.kind /\ h.i = g.i /\ h.s = g.s /\ h.ver = g.ver
      BY <2>1, <2>2
    <3>2. h \in Events /\ h.i \in Issues /\ h.ver \in Nat /\ newest[h.i] \in Nat
      BY <1>1, <3>1 DEF Events
    <3>3. h.ver >= newest[h.i]
      <4>1. CASE h.i = e.i
        <5>1. newest'[h.i] \in Nat
          BY <1>1, <2>1, <2>3, <4>1
        <5> QED BY <2>3, <2>4, <3>1, <3>2, <4>1, <5>1
      <4>2. CASE h.i # e.i
        BY <2>3, <2>4, <3>1, <3>2, <4>2
      <4> QED BY <4>1, <4>2
    <3>4. ASSUME NEW f \in unpublished, f.i = h.i PROVE f.ver <= h.ver
      <4>1. CASE f # e
        BY <2>1, <2>4, <3>1, <3>4, <4>1
      <4>2. CASE f = e
        <5>1. newest'[e.i] \in Nat /\ h.ver >= newest'[e.i]
          BY <1>1, <2>1, <2>3, <2>4, <3>1, <3>4, <4>2
        <5> QED BY <2>3, <3>2, <4>2, <5>1
      <4> QED BY <4>1, <4>2
    <3>5. Says(h)
      BY <3>3, <3>4 DEF LastSays
    <3> QED BY <2>1, <3>1, <3>5 DEF Says
  <2> QED BY <2>4 DEF LastSays
<1>5. CASE UNCHANGED <<server, clock, unpublished, wire, newest>>
  BY <1>2, <1>5 DEF Flying
<1>6. CASE Deliver
  BY <1>2, <1>6, DeliverIs
<1>7. CASE wire' = <<>> /\ UNCHANGED <<server, clock, unpublished, newest>>
  <2>1. Flying' \subseteq Flying
    BY <1>7 DEF Flying
  <2> QED BY <1>2, <1>7, <2>1
<1> QED BY <1>3, <1>4, <1>5, <1>6, <1>7 DEF Forms

LEMMA OrderStays == ASSUME Typed, InOrder, Forms PROVE InOrder'
<1>1. /\ clock \in Nat /\ newest \in [Issues -> 0..clock] /\ wire \in Seq(Events)
  BY DEF Typed, EventsTyped
<1>2. ASSUME NEW e \in unpublished, Publish(e) PROVE InOrder'
  <2>1. /\ e \in Events
        /\ newest' = [newest EXCEPT ![e.i] = IF e.ver > newest[e.i] THEN e.ver ELSE newest[e.i]]
    BY <1>2, PublishIs
  <2>2. /\ e.i \in Issues /\ e.ver \in Nat /\ newest[e.i] \in Nat /\ newest'[e.i] \in Nat
        /\ newest'[e.i] = IF e.ver > newest[e.i] THEN e.ver ELSE newest[e.i]
        /\ \A j \in Issues \ {e.i} : newest'[j] = newest[j]
    BY <1>1, <2>1 DEF Events
  <2>3. CASE wire' = wire
    <3>1. conn # "up"
      <4> SUFFICES ASSUME conn = "up" PROVE FALSE
        OBVIOUS
      <4>1. wire' = Append(wire, [e EXCEPT !.late = e.ver < newest[e.i]])
        BY <1>2 DEF Publish
      <4>2. PICK x : wire' = Append(wire, x)
        BY <4>1
      <4> QED BY <1>1, <2>3, <4>2
    <3>2. wire' = <<>>
      BY <2>3, <3>1 DEF Typed, Placed
    <3>3. DOMAIN wire' = {}
      BY <3>2
    <3> QED BY <3>3 DEF InOrder
  <2>4. ASSUME NEW r \in Events, r.i = e.i, r.ver = e.ver, r.late = (e.ver < newest[e.i]), Len(wire) \in Nat,
               DOMAIN wire = 1..Len(wire), DOMAIN wire' = DOMAIN wire \cup {Len(wire) + 1},
               wire'[Len(wire) + 1] = r, \A k \in DOMAIN wire : wire'[k] = wire[k]
        PROVE  InOrder'
    <3>1. PICK n : n = Len(wire) + 1
      OBVIOUS
    <3>2. /\ n \in Nat /\ DOMAIN wire' = DOMAIN wire \cup {n} /\ wire'[n] = r
          /\ \A k \in DOMAIN wire : k \in Nat /\ k < n /\ n # k
      BY <2>4, <3>1
    <3>3. ASSUME NEW k \in DOMAIN wire'
          PROVE  /\ wire'[k].ver <= newest'[wire'[k].i]
                 /\ \/ wire'[k].late \/ wire'[k].ver = newest'[wire'[k].i]
                    \/ \E m \in DOMAIN wire' :
                         k < m /\ wire'[m].i = wire'[k].i /\ wire'[m].ver = newest'[wire'[k].i]
      <4>1. CASE k = n
        <5>1. wire'[k].i = e.i /\ wire'[k].ver = e.ver /\ wire'[k].late = (e.ver < newest[e.i])
          BY <2>4, <3>2, <4>1
        <5>2. e.ver <= newest'[e.i] /\ (e.ver < newest[e.i] \/ e.ver = newest'[e.i])
          BY <2>2
        <5> QED BY <5>1, <5>2
      <4>2. CASE k \in DOMAIN wire
        <5> DEFINE j == wire[k].i
        <5>1. wire'[k] = wire[k] /\ wire[k] \in Events /\ j \in Issues /\ wire[k].ver \in Nat /\ newest[j] \in Nat
          <6>1. wire'[k] = wire[k] /\ wire[k] \in Events
            BY <1>1, <2>4, <4>2, ElementOfSeq
          <6>2. wire[k].i \in Issues /\ wire[k].ver \in Nat
            BY <6>1 DEF Events
          <6>3. newest[wire[k].i] \in Nat
            BY <1>1, <6>2
          <6> QED BY <6>1, <6>2, <6>3
        <5>2. /\ wire[k].ver <= newest[j]
              /\ \/ wire[k].late \/ wire[k].ver = newest[j]
                 \/ \E m \in DOMAIN wire : k < m /\ wire[m].i = j /\ wire[m].ver = newest[j]
          BY <4>2 DEF InOrder
        <5> HIDE DEF j
        <5>3. CASE j # e.i \/ ~(e.ver > newest[e.i])
          <6>1. newest'[j] = newest[j]
            BY <2>2, <5>1, <5>3
          <6>2. \A m \in DOMAIN wire : m \in DOMAIN wire' /\ wire'[m] = wire[m]
            BY <2>4
          <6> QED BY <5>1, <5>2, <6>1, <6>2 DEF j
        <5>4. CASE j = e.i /\ e.ver > newest[e.i]
          <6>1. newest'[j] = e.ver /\ k < n /\ n \in DOMAIN wire' /\ wire'[n].i = j /\ wire'[n].ver = e.ver
            BY <2>2, <2>4, <3>2, <4>2, <5>4
          <6>2. wire[k].ver <= newest'[j]
            BY <2>2, <5>1, <5>2, <5>4, <6>1
          <6> QED BY <5>1, <6>1, <6>2 DEF j
        <5> QED BY <5>3, <5>4
      <4> QED BY <3>2, <4>1, <4>2
    <3> QED BY <3>3 DEF InOrder
  <2> QED BY <1>2, <2>3, <2>4, PublishIs
<1>3. CASE Deliver
  <2>1. /\ UNCHANGED newest
        /\ \A k \in DOMAIN wire' : k \in Nat /\ k + 1 \in DOMAIN wire /\ wire'[k] = wire[k + 1]
        /\ \A k \in DOMAIN wire : k \in Nat /\ k >= 1
        /\ \A k \in DOMAIN wire : k # 1 => k - 1 \in DOMAIN wire' /\ wire'[k - 1] = wire[k]
    BY <1>3, DeliverIs
  <2>2. ASSUME NEW k \in DOMAIN wire'
        PROVE  /\ wire'[k].ver <= newest[wire'[k].i]
               /\ \/ wire'[k].late \/ wire'[k].ver = newest[wire'[k].i]
                  \/ \E m \in DOMAIN wire' :
                       k < m /\ wire'[m].i = wire'[k].i /\ wire'[m].ver = newest[wire'[k].i]
    <3>1. k \in Nat /\ k + 1 \in DOMAIN wire /\ wire'[k] = wire[k + 1]
      BY <2>1
    <3>2. /\ wire'[k].ver <= newest[wire'[k].i]
          /\ \/ wire'[k].late \/ wire'[k].ver = newest[wire'[k].i]
             \/ \E m \in DOMAIN wire : k + 1 < m /\ wire[m].i = wire'[k].i /\ wire[m].ver = newest[wire'[k].i]
      BY <3>1 DEF InOrder
    <3>3. ASSUME NEW m \in DOMAIN wire, k + 1 < m, wire[m].i = wire'[k].i, wire[m].ver = newest[wire'[k].i]
          PROVE  \E n \in DOMAIN wire' :
                   k < n /\ wire'[n].i = wire'[k].i /\ wire'[n].ver = newest[wire'[k].i]
      <4>1. m \in Nat /\ m # 1 /\ k < m - 1
        BY <2>1, <3>1, <3>3
      <4>2. m - 1 \in DOMAIN wire' /\ wire'[m - 1] = wire[m]
        BY <2>1, <4>1
      <4> QED BY <3>3, <4>1, <4>2
    <3> QED BY <3>2, <3>3
  <2> QED BY <2>1, <2>2 DEF InOrder
<1>4. CASE UNCHANGED <<wire, newest>>
  BY <1>4 DEF InOrder
<1>5. CASE wire' = <<>>
  <2>1. DOMAIN wire' = {}
    BY <1>5
  <2> QED BY <2>1 DEF InOrder
<1> QED BY <1>2, <1>3, <1>4, <1>5 DEF Forms

-----------------------------------------------------------------------------
(* Each part of the state keeps its type.                                  *)
LEMMA FetchFields ==
  ASSUME NEW f \in Fetches
  PROVE  /\ f.on \in BOOLEAN /\ f.read \in [Listed -> (SUBSET Issues) \cup {None}] /\ f.first \in Nat
         /\ f.miss \in {"none", "due", "lost"}
         /\ \A w \in {"none", "due", "lost"} :
              /\ [f EXCEPT !.miss = w] \in Fetches /\ [f EXCEPT !.miss = w].miss = w
              /\ [f EXCEPT !.miss = w].read = f.read /\ [f EXCEPT !.miss = w].first = f.first
              /\ [f EXCEPT !.miss = w].on = f.on
BY DEF Fetches

LEMMA WorseIs ==
  ASSUME NEW a \in {"none", "due", "lost"}, NEW b \in {"none", "due", "lost"}
  PROVE  Worse(a, b) \in {"none", "due", "lost"} /\ (Worse(a, b) = "none" <=> a = "none" /\ b = "none")
BY DEF Worse

LEMMA MissingIs == Missing \in {"due", "lost"}
BY DEF Missing

(* Fetches of the same columns, of which the second has missed no less.    *)
SameFetch(f, g) ==
  /\ g \in Fetches /\ g.on = f.on /\ g.read = f.read /\ g.first = f.first
  /\ g.miss = "none" => f.miss = "none"

LEMMA SetMissIs ==
  ASSUME NEW f \in Fetches, NEW w \in {"none", "due", "lost"}, w = "none" => f.miss = "none",
         NEW g, g = [f EXCEPT !.miss = w]
  PROVE  SameFetch(f, g) /\ g.miss = w
<1>1. \A v \in {"none", "due", "lost"} :
              /\ [f EXCEPT !.miss = v] \in Fetches /\ [f EXCEPT !.miss = v].miss = v
              /\ [f EXCEPT !.miss = v].read = f.read /\ [f EXCEPT !.miss = v].first = f.first
              /\ [f EXCEPT !.miss = v].on = f.on
  BY FetchFields
<1> QED BY <1>1 DEF SameFetch

LEMMA MissInIs ==
  ASSUME NEW f \in Fetches, NEW ver, NEW g, g = MissIn(f, ver)
  PROVE  SameFetch(f, g) /\ (Overtaken(f, ver) => g.miss # "none") /\ (~Overtaken(f, ver) => g = f)
<1> DEFINE w == Worse(f.miss, Missing)
<1>1. f.miss \in {"none", "due", "lost"} /\ Missing \in {"none", "due", "lost"} /\ Missing # "none"
  BY FetchFields, MissingIs
<1>2. w \in {"none", "due", "lost"} /\ w # "none"
  BY <1>1, WorseIs
<1>3. g = IF Overtaken(f, ver) THEN [f EXCEPT !.miss = w] ELSE f
  BY DEF MissIn
<1> HIDE DEF w
<1>4. CASE Overtaken(f, ver)
  BY <1>2, <1>3, <1>4, SetMissIs
<1>5. CASE ~Overtaken(f, ver)
  BY <1>3, <1>5 DEF SameFetch
<1> QED BY <1>4, <1>5

LEMMA ForgoneIs ==
  ASSUME NEW f \in Fetches, NEW g, g = Forgone(f) PROVE SameFetch(f, g)
<1>1. f.miss \in {"none", "due", "lost"}
  BY FetchFields
<1> DEFINE w == IF f.miss = "due" THEN "lost" ELSE f.miss
<1>2. g = [f EXCEPT !.miss = w]
  BY DEF Forgone
<1>3. w \in {"none", "due", "lost"} /\ (w = "none" => f.miss = "none")
  BY <1>1
<1> HIDE DEF w
<1> QED BY <1>2, <1>3, SetMissIs

LEMMA NewFetchIs ==
  /\ NoFetch \in Fetches /\ NewFetch \in Fetches /\ NoFetch.on = FALSE
  /\ \A s \in Listed : NewFetch.read[s] = None
BY DEF NoFetch, NewFetch, Fetches

(* What a step other than one of the fetch itself does to the fetch.       *)
Restarted == fetch' = NoFetch \/ fetch' = NewFetch

LEMMA InvalidateFetch ==
  ASSUME Typed, NEW d, Invalidate(d, fetch)
  PROVE  Restarted \/ SameFetch(fetch, fetch')
<1>1. fetch \in Fetches
  BY DEF Typed, ListTyped
<1> QED BY <1>1, ForgoneIs DEF Invalidate, Restarted

LEMMA WireFetch ==
  ASSUME Typed, NEW how \in {"due", "lost"}, NEW g,
         g = IF \E k \in DOMAIN wire : Overtaken(fetch, wire[k].ver)
               THEN [fetch EXCEPT !.miss = Worse(fetch.miss, how)] ELSE fetch
  PROVE  /\ SameFetch(fetch, g)
         /\ (\E k \in DOMAIN wire : Overtaken(fetch, wire[k].ver)) => g.miss # "none"
<1> DEFINE w == Worse(fetch.miss, how)
<1>1. fetch \in Fetches
  BY DEF Typed, ListTyped
<1>2. w \in {"none", "due", "lost"} /\ w # "none"
  <2>1. fetch.miss \in {"none", "due", "lost"} /\ how \in {"none", "due", "lost"} /\ how # "none"
    BY <1>1, FetchFields
  <2> QED BY <2>1, WorseIs
<1> HIDE DEF w
<1>3. CASE \E k \in DOMAIN wire : Overtaken(fetch, wire[k].ver)
  <2>1. g = [fetch EXCEPT !.miss = w]
    BY <1>3 DEF w
  <2> QED BY <1>1, <1>2, <2>1, SetMissIs
<1>4. CASE ~\E k \in DOMAIN wire : Overtaken(fetch, wire[k].ver)
  BY <1>1, <1>4 DEF SameFetch
<1> QED BY <1>3, <1>4

LEMMA ReadIs ==
  ASSUME Typed, NEW s \in Listed, Read(s)
  PROVE  /\ fetch' \in Fetches /\ fetch'.on = fetch.on
         /\ fetch'.read[s] = {i \in Issues : server[i] = s}
         /\ \A c \in Listed \ {s} : fetch'.read[c] = fetch.read[c]
         /\ fetch'.first = IF \A c \in Listed : fetch.read[c] = None THEN clock ELSE fetch.first
         /\ (fetch'.miss = "none" => fetch.miss = "none" /\ ~Overtaken(fetch, clock))
<1> DEFINE R == {i \in Issues : server[i] = s}
           n == IF \A c \in Listed : fetch.read[c] = None THEN clock ELSE fetch.first
           w == IF Overtaken(fetch, clock) THEN Worse(fetch.miss, Missing) ELSE fetch.miss
<1>1. fetch \in Fetches /\ clock \in Nat
  BY DEF Typed, ListTyped, EventsTyped
<1>2. fetch' = [fetch EXCEPT !.read[s] = R, !.first = n, !.miss = w]
  BY DEF Read
<1>3. R \in SUBSET Issues /\ n \in Nat
  BY <1>1, FetchFields
<1>4. w \in {"none", "due", "lost"} /\ (w = "none" => fetch.miss = "none" /\ ~Overtaken(fetch, clock))
  <2>1. fetch.miss \in {"none", "due", "lost"} /\ Missing \in {"none", "due", "lost"} /\ Missing # "none"
    BY <1>1, FetchFields, MissingIs
  <2> QED BY <2>1, WorseIs
<1> HIDE DEF R, n, w
<1>5. /\ fetch'.on = fetch.on /\ fetch'.read = [fetch.read EXCEPT ![s] = R]
      /\ fetch'.first = n /\ fetch'.miss = w
  BY <1>1, <1>2 DEF Fetches
<1>6. fetch.on \in BOOLEAN /\ fetch.read \in [Listed -> (SUBSET Issues) \cup {None}]
  BY <1>1, FetchFields
<1>7. fetch'.read \in [Listed -> (SUBSET Issues) \cup {None}] /\ fetch'.read[s] = R
      /\ \A c \in Listed \ {s} : fetch'.read[c] = fetch.read[c]
  BY <1>3, <1>5, <1>6
<1>8. fetch' \in Fetches
  <2>1. fetch' = [on |-> fetch.on, read |-> fetch'.read, first |-> n, miss |-> w]
    BY <1>1, <1>2 DEF Fetches
  <2> QED BY <1>3, <1>4, <1>6, <1>7, <2>1 DEF Fetches
<1> QED BY <1>4, <1>5, <1>7, <1>8 DEF R, n

-----------------------------------------------------------------------------
(* What a step does to the fetch.                                          *)
FetchForms ==
  \/ Restarted
  \/ SameFetch(fetch, fetch') /\ UNCHANGED <<server, clock, unpublished, wire, newest>>
  \/ /\ UNCHANGED <<fetch, wire, newest>>
     /\ \E kind \in Kinds, i \in Issues, s \in Statuses : Commit(kind, i, s)
  \/ \E e \in unpublished : Publish(e)
  \/ Deliver
  \/ /\ SameFetch(fetch, fetch') /\ wire' = <<>> /\ UNCHANGED <<server, clock, unpublished, newest>>
     /\ (\E k \in DOMAIN wire : Overtaken(fetch, wire[k].ver)) => fetch'.miss # "none"
  \/ (\E s \in Listed : Read(s)) /\ UNCHANGED <<server, clock, unpublished, wire, newest>>

LEMMA FetchSteps == ASSUME Typed, [Next]_vars PROVE FetchForms
<1>1. fetch \in Fetches
  BY DEF Typed, ListTyped
<1>2. UNCHANGED fetch => SameFetch(fetch, fetch')
  BY <1>1 DEF SameFetch
<1>3. CASE UNCHANGED vars
  BY <1>2, <1>3 DEF vars, query, socket, FetchForms
<1>4. ASSUME NEW kind \in Kinds, NEW i \in Issues, NEW s \in Statuses, Other(kind, i, s) PROVE FetchForms
  BY <1>4 DEF Other, query, socket, FetchForms
<1>5. (Deliver \/ \E e \in unpublished : Publish(e)) => FetchForms
  BY DEF FetchForms
<1>6. CASE Connect
  <2>1. Invalidate(data, fetch) \/ UNCHANGED fetch
    BY <1>6 DEF Connect
  <2>2. UNCHANGED <<server, clock, unpublished, wire, newest>>
    BY <1>6 DEF Connect
  <2> QED BY <1>2, <2>1, <2>2, InvalidateFetch DEF FetchForms
<1>7. CASE Drop
  <2> DEFINE how == IF TRUE \/ InFlight THEN "due" ELSE "lost"
  <2>1. /\ fetch' = IF \E k \in DOMAIN wire : Overtaken(fetch, wire[k].ver)
                      THEN [fetch EXCEPT !.miss = Worse(fetch.miss, "due")] ELSE fetch
        /\ wire' = <<>> /\ UNCHANGED <<server, clock, unpublished, newest>>
    BY <1>7 DEF Drop, LoseWire
  <2>2. SameFetch(fetch, fetch') /\ ((\E k \in DOMAIN wire : Overtaken(fetch, wire[k].ver)) => fetch'.miss # "none")
    BY <2>1, WireFetch
  <2> QED BY <2>1, <2>2 DEF FetchForms
<1>8. CASE Leave
  <2> DEFINE how == IF InFlight THEN "due" ELSE "lost"
             f == IF \E k \in DOMAIN wire : Overtaken(fetch, wire[k].ver)
                         THEN [fetch EXCEPT !.miss = Worse(fetch.miss, how)] ELSE fetch
  <2>1. /\ fetch' = (IF InFlight THEN f ELSE Forgone(f))
        /\ wire' = <<>> /\ UNCHANGED <<server, clock, unpublished, newest>>
    BY <1>8 DEF Leave
  <2>2. how \in {"due", "lost"}
    OBVIOUS
  <2> HIDE DEF how
  <2>3. PICK g : g = f
    OBVIOUS
  <2>4. SameFetch(fetch, g) /\ ((\E k \in DOMAIN wire : Overtaken(fetch, wire[k].ver)) => g.miss # "none")
    BY <2>2, <2>3, WireFetch
  <2>5. fetch' = g \/ fetch' = Forgone(g)
    BY <2>1, <2>3
  <2>6. fetch' = g \/ SameFetch(g, fetch')
    BY <2>4, <2>5, ForgoneIs DEF SameFetch
  <2>7. SameFetch(fetch, fetch') /\ (g.miss # "none" => fetch'.miss # "none")
    BY <2>4, <2>6 DEF SameFetch
  <2> QED BY <2>1, <2>4, <2>7 DEF FetchForms
<1>9. CASE \E s \in Listed : Read(s)
  BY <1>9 DEF Read, socket, FetchForms
<1>10. CASE FetchFirstPages \/ FetchFails \/ Mount
  <2>1. Restarted \/ UNCHANGED fetch
    BY <1>10 DEF FetchFirstPages, FetchFails, Mount, Restarted
  <2>2. UNCHANGED <<server, clock, unpublished, wire, newest>>
    BY <1>10 DEF FetchFirstPages, FetchFails, Mount, socket
  <2> QED BY <1>2, <2>1, <2>2 DEF FetchForms
<1>11. CASE Unmount \/ Return \/ Collect
  BY <1>2, <1>11 DEF Unmount, Return, Collect, query, socket, FetchForms
<1>12. ASSUME NEW m \in Muts, NEW i \in Issues, NEW s \in Statuses, CreateIssue(m, i, s) PROVE FetchForms
  BY <1>2, <1>12 DEF CreateIssue, query, socket, FetchForms
<1>13. ASSUME NEW m \in Muts, NEW kind \in Kinds, NEW i \in Issues, NEW s \in Statuses \cup {None}, Optimistic(m, kind, i, s)
       PROVE  FetchForms
  BY <1>13 DEF Optimistic, Restarted, FetchForms
<1>14. ASSUME NEW m \in Muts, Arrive(m) PROVE FetchForms
  <2>1. UNCHANGED fetch
    BY <1>14 DEF Arrive, query
  <2>2. CASE UNCHANGED <<server, clock, unpublished, wire, newest>>
    BY <1>2, <2>1, <2>2 DEF FetchForms
  <2>3. CASE \E kind \in Kinds, s \in Statuses :
               Commit(kind, mut[m].i, s) /\ mut[m].i \in Issues /\ UNCHANGED <<wire, newest>>
    BY <2>1, <2>3 DEF FetchForms
  <2> QED BY <1>14, <2>2, <2>3, ArriveForms
<1>15. ASSUME NEW m \in Muts, Answer(m) PROVE FetchForms
  <2>1. PICK d : Invalidate(d, fetch)
    BY <1>15 DEF Answer, OnSettled
  <2>2. UNCHANGED <<server, clock, unpublished, wire, newest>>
    BY <1>15 DEF Answer, socket
  <2> QED BY <2>1, <2>2, InvalidateFetch DEF FetchForms
<1> QED BY <1>3, <1>4, <1>5, <1>6, <1>7, <1>8, <1>9, <1>10, <1>11, <1>12, <1>13, <1>14, <1>15 DEF Next

LEMMA PublishFetch ==
  ASSUME Typed, NEW e \in unpublished, Publish(e)
  PROVE  \/ UNCHANGED fetch /\ wire' # wire
         \/ UNCHANGED wire /\ fetch' = MissIn(fetch, e.ver)
<1>1. CASE conn = "up"
  <2>1. UNCHANGED fetch /\ wire' = Append(wire, [e EXCEPT !.late = e.ver < newest[e.i]])
    BY <1>1 DEF Publish
  <2>2. PICK x : wire' = Append(wire, x)
    BY <2>1
  <2>3. wire \in Seq(Events)
    BY DEF Typed, EventsTyped
  <2>4. wire' # wire
    BY <2>2, <2>3
  <2> QED BY <2>1, <2>4
<1>2. CASE conn # "up"
  BY <1>2 DEF Publish
<1> QED BY <1>1, <1>2

LEMMA FetchTypes == ASSUME Typed, FetchForms PROVE fetch' \in Fetches
<1>1. fetch \in Fetches
  BY DEF Typed, ListTyped
<1>2. ASSUME NEW e \in unpublished, Publish(e) PROVE fetch' \in Fetches
  BY <1>1, <1>2, PublishFetch, MissInIs DEF SameFetch
<1>3. CASE Deliver
  <2>1. fetch' = MissIn(fetch, Head(wire).ver)
    BY <1>3 DEF Deliver, OnEvent
  <2> QED BY <1>1, <2>1, MissInIs DEF SameFetch
<1>4. CASE Restarted
  BY <1>4, NewFetchIs DEF Restarted
<1> QED BY <1>1, <1>2, <1>3, <1>4, ReadIs DEF FetchForms, SameFetch

(* A fetch that goes on, and the event that was to come still is.          *)
LEMMA FetchGoesOn ==
  ASSUME FetchTold, SameFetch(fetch, fetch'), fetch.first <= clock => fetch'.first <= clock',
         \A i \in Issues : fetch'.miss = "none" /\ Begun # {} /\ fetch.on /\ Since(i) => Since(i)',
         \A i \in Issues : server'[i] = server[i] \/ Since(i)'
  PROVE  FetchTold'
<1>1. /\ fetch'.on = fetch.on /\ fetch'.read = fetch.read /\ fetch'.first = fetch.first
      /\ fetch'.miss = "none" => fetch.miss = "none"
  BY DEF SameFetch
<1>2. Begun' = Begun
  BY <1>1 DEF Begun
<1>3. \A i \in Issues : ReadOnce(i) => ReadOnce(i)'
  BY <1>1, <1>2 DEF ReadOnce
<1>4. ASSUME NEW i \in Issues, fetch'.miss = "none", Begun # {}, fetch.on, Since(i) \/ HasRead(i) PROVE Since(i)' \/ HasRead(i)'
  <2>1. CASE Since(i)
    BY <1>4, <2>1
  <2>2. CASE HasRead(i) /\ server'[i] = server[i]
    BY <1>1, <1>2, <2>2 DEF HasRead
  <2> QED BY <1>4, <2>1, <2>2
<1>5. ASSUME fetch'.on, fetch'.miss = "none", Begun' # {}
      PROVE  fetch'.first <= clock' /\ \A i \in Issues : (Since(i)' \/ HasRead(i)') /\ ReadOnce(i)'
  <2>1. fetch.first <= clock /\ \A i \in Issues : (Since(i) \/ HasRead(i)) /\ ReadOnce(i)
    BY <1>1, <1>2, <1>5 DEF FetchTold
  <2> QED BY <1>1, <1>2, <1>3, <1>4, <1>5, <2>1
<1> QED BY <1>5 DEF FetchTold

LEMMA OvertakenIs == ASSUME NEW ver PROVE Overtaken(fetch, ver) <=> fetch.on /\ Begun # {} /\ ver > fetch.first
BY DEF Overtaken, Begun

LEMMA FetchStays == ASSUME Typed, FetchTold, FetchForms PROVE FetchTold'
<1>1. /\ clock \in Nat /\ newest \in [Issues -> 0..clock] /\ \A e \in Flying : e.ver <= clock
      /\ Flying \subseteq Events /\ unpublished \subseteq Flying /\ fetch \in Fetches /\ fetch.first \in Nat
  BY FlyingTyped, FetchFields DEF Typed, EventsTyped, ListTyped, Flying
<1>2. \A i \in Issues : newest[i] \in Nat /\ newest[i] <= clock
  BY <1>1
<1>3. \A f \in Flying : f.ver \in Nat /\ f.i \in Issues
  BY <1>1 DEF Events
<1>4. CASE Restarted
  <2>1. CASE fetch' = NoFetch
    BY <2>1, NewFetchIs DEF FetchTold
  <2>2. CASE fetch' = NewFetch
    <3>1. Begun' = {}
      BY <2>2, NewFetchIs DEF Begun
    <3> QED BY <3>1 DEF FetchTold
  <2> QED BY <1>4, <2>1, <2>2 DEF Restarted
<1>5. CASE SameFetch(fetch, fetch') /\ UNCHANGED <<server, clock, unpublished, wire, newest>>
  <2>1. \A i \in Issues : Since(i) => Since(i)'
    BY <1>5 DEF Since, Flying, SameFetch
  <2> QED BY <1>5, <2>1, FetchGoesOn DEF SameFetch
<1>6. ASSUME NEW kind \in Kinds, NEW i \in Issues, NEW s \in Statuses, Commit(kind, i, s), UNCHANGED <<fetch, wire, newest>>
      PROVE  FetchTold'
  <2>1. PICK e \in Events : /\ e.i = i /\ e.ver = clock + 1 /\ unpublished' = unpublished \cup {e}
                            /\ clock' = clock + 1 /\ \A j \in Issues \ {i} : server'[j] = server[j]
    BY <1>6, CommitIs
  <2>2. Flying' = Flying \cup {e}
    BY <1>6, <2>1 DEF Flying
  <2>3. \A j \in Issues : Since(j) => Since(j)'
    BY <1>6, <2>2 DEF Since
  <2>4. CASE fetch.first <= clock
    <3>1. e.ver >= newest'[i] /\ e.ver > fetch'.first
      BY <1>1, <1>2, <1>6, <2>1, <2>4
    <3>2. Since(i)'
      BY <2>1, <2>2, <3>1 DEF Since
    <3>3. fetch'.first <= clock'
      BY <1>1, <1>6, <2>1, <2>4
    <3>4. SameFetch(fetch, fetch')
      BY <1>1, <1>6 DEF SameFetch
    <3> QED BY <2>1, <2>3, <3>2, <3>3, <3>4, FetchGoesOn
  <2>5. CASE ~(fetch.first <= clock)
    <3>1. ~(fetch.on /\ fetch.miss = "none" /\ Begun # {})
      BY <2>5 DEF FetchTold
    <3>2. Begun' = Begun
      BY <1>6 DEF Begun
    <3> QED BY <1>6, <3>1, <3>2 DEF FetchTold
  <2> QED BY <2>4, <2>5
<1>7. ASSUME NEW e \in unpublished, Publish(e) PROVE FetchTold'
  <2> DEFINE r == [e EXCEPT !.late = e.ver < newest[e.i]]
  <2>1. /\ e \in Events /\ UNCHANGED <<server, clock>> /\ unpublished' = unpublished \ {e}
        /\ newest' = [newest EXCEPT ![e.i] = IF e.ver > newest[e.i] THEN e.ver ELSE newest[e.i]]
    BY <1>7, PublishIs
  <2>2. /\ e.i \in Issues /\ e.ver \in Nat /\ newest[e.i] \in Nat
        /\ newest'[e.i] = IF e.ver > newest[e.i] THEN e.ver ELSE newest[e.i]
        /\ \A j \in Issues \ {e.i} : newest'[j] = newest[j]
    BY <1>1, <2>1 DEF Events
  <2>3. SameFetch(fetch, fetch')
    <3>1. UNCHANGED fetch => SameFetch(fetch, fetch')
      BY <1>1 DEF SameFetch
    <3> QED BY <1>1, <1>7, <3>1, PublishFetch, MissInIs
  <2>4. ASSUME NEW i \in Issues, NEW f \in Flying, f.i = i, f.ver >= newest[i], f.ver > fetch.first,
               fetch'.miss = "none", Begun # {}, fetch.on
        PROVE  \E g \in Flying' : g.i = i /\ g.ver >= newest'[i] /\ g.ver > fetch.first
    <3>1. CASE wire' # wire
      <4>1. PICK q \in Flying' : q.i = e.i /\ q.ver = e.ver /\ \A g \in Flying : g = e \/ g \in Flying'
        BY <1>7, <3>1, PublishIs
      <4>2. CASE e.i = i /\ e.ver >= f.ver
        <5>1. q.ver >= newest'[i] /\ q.ver > fetch.first
          BY <1>1, <1>3, <2>2, <2>4, <4>1, <4>2
        <5> QED BY <4>1, <4>2, <5>1
      <4>3. CASE ~(e.i = i /\ e.ver >= f.ver)
        <5>1. f # e /\ f \in Flying'
          BY <1>3, <2>2, <2>4, <4>1, <4>3
        <5>2. f.ver >= newest'[i]
          BY <1>2, <1>3, <2>2, <2>4, <4>3
        <5> QED BY <2>4, <5>1, <5>2
      <4> QED BY <4>2, <4>3
    <3>2. CASE wire' = wire
      <4>1. ~Overtaken(fetch, e.ver)
        BY <1>1, <1>7, <2>4, <3>2, PublishFetch, MissInIs
      <4>2. ~(e.ver > fetch.first)
        BY <2>4, <4>1, OvertakenIs
      <4>3. f # e /\ f \in Flying'
        BY <2>1, <2>4, <3>2, <4>2 DEF Flying
      <4>4. f.ver >= newest'[i]
        BY <1>1, <1>2, <1>3, <2>2, <2>4, <4>2
      <4> QED BY <2>4, <4>3, <4>4
    <3> QED BY <3>1, <3>2
  <2>5. \A i \in Issues : fetch'.miss = "none" /\ Begun # {} /\ fetch.on /\ Since(i) => Since(i)'
    BY <2>3, <2>4 DEF Since, SameFetch
  <2> QED BY <2>1, <2>3, <2>5, FetchGoesOn DEF SameFetch
<1>8. CASE Deliver
  <2>1. UNCHANGED <<server, clock, newest>> /\ \A f \in Flying : f = Head(wire) \/ f \in Flying'
    BY <1>8, DeliverIs
  <2>2. fetch' = MissIn(fetch, Head(wire).ver)
    BY <1>8 DEF Deliver, OnEvent
  <2>3. SameFetch(fetch, fetch') /\ (Overtaken(fetch, Head(wire).ver) => fetch'.miss # "none")
    BY <1>1, <2>2, MissInIs
  <2>4. ASSUME NEW i \in Issues, NEW f \in Flying, f.i = i, f.ver >= newest[i], f.ver > fetch.first,
               fetch'.miss = "none", Begun # {}, fetch.on
        PROVE  f \in Flying'
    <3>1. ~(Head(wire).ver > fetch.first)
      BY <2>3, <2>4, OvertakenIs
    <3> QED BY <2>1, <2>4, <3>1
  <2>5. \A i \in Issues : fetch'.miss = "none" /\ Begun # {} /\ fetch.on /\ Since(i) => Since(i)'
    BY <2>1, <2>3, <2>4 DEF Since, SameFetch
  <2> QED BY <2>1, <2>3, <2>5, FetchGoesOn DEF SameFetch
<1>9. CASE /\ SameFetch(fetch, fetch') /\ wire' = <<>> /\ UNCHANGED <<server, clock, unpublished, newest>>
           /\ (\E k \in DOMAIN wire : Overtaken(fetch, wire[k].ver)) => fetch'.miss # "none"
  <2>1. ASSUME NEW i \in Issues, NEW f \in Flying, f.i = i, f.ver >= newest[i], f.ver > fetch.first,
               fetch'.miss = "none", Begun # {}, fetch.on
        PROVE  f \in Flying'
    <3>1. \A k \in DOMAIN wire : ~(wire[k].ver > fetch.first)
      BY <1>9, <2>1, OvertakenIs
    <3> QED BY <1>9, <2>1, <3>1 DEF Flying
  <2>2. \A i \in Issues : fetch'.miss = "none" /\ Begun # {} /\ fetch.on /\ Since(i) => Since(i)'
    BY <1>9, <2>1 DEF Since, SameFetch
  <2> QED BY <1>9, <2>2, FetchGoesOn DEF SameFetch
<1>10. ASSUME NEW s \in Listed, Read(s), UNCHANGED <<server, clock, unpublished, wire, newest>> PROVE FetchTold'
  <2>1. /\ fetch'.read[s] = {i \in Issues : server[i] = s}
        /\ \A c \in Listed \ {s} : fetch'.read[c] = fetch.read[c]
        /\ fetch'.first = IF \A c \in Listed : fetch.read[c] = None THEN clock ELSE fetch.first
        /\ (fetch'.miss = "none" => fetch.miss = "none" /\ ~Overtaken(fetch, clock))
        /\ fetch'.on = fetch.on
    BY <1>10, ReadIs
  <2>2. Begun' \subseteq Begun \cup {s} /\ Begun' \subseteq Listed
    BY <2>1 DEF Begun
  <2>3. ASSUME fetch.on, fetch'.miss = "none"
        PROVE  fetch'.first <= clock /\ \A i \in Issues : \A t \in Begun \ {s} : i \in fetch.read[t] <=> server[i] = t
    <3>1. CASE Begun = {}
      BY <1>1, <2>1, <3>1 DEF Begun
    <3>2. CASE Begun # {}
      <4>1. fetch.first <= clock /\ \A i \in Issues : (Since(i) \/ HasRead(i)) /\ ReadOnce(i)
        BY <2>1, <2>3, <3>2 DEF FetchTold
      <4>2. ~(clock > fetch.first) /\ fetch'.first = fetch.first
        BY <2>1, <2>3, <3>2, OvertakenIs DEF Begun
      <4>3. \A i \in Issues : ~Since(i)
        BY <1>1, <1>3, <4>2 DEF Since
      <4> QED BY <4>1, <4>2, <4>3 DEF HasRead
    <3> QED BY <3>1, <3>2
  <2>4. ASSUME fetch.on, fetch'.miss = "none", NEW i \in Issues, NEW t \in Begun'
        PROVE  i \in fetch'.read[t] <=> server[i] = t
    <3>1. CASE t = s
      BY <2>1, <3>1
    <3>2. CASE t # s
      BY <2>1, <2>2, <2>3, <2>4, <3>2
    <3> QED BY <3>1, <3>2
  <2>5. ASSUME fetch.on, fetch'.miss = "none" PROVE \A i \in Issues : HasRead(i)' /\ ReadOnce(i)'
    <3>1. \A i \in Issues : HasRead(i)'
      BY <1>10, <2>4, <2>5 DEF HasRead
    <3>2. \A i \in Issues : ReadOnce(i)'
      BY <2>4, <2>5 DEF ReadOnce
    <3> QED BY <3>1, <3>2
  <2> QED BY <1>10, <2>1, <2>3, <2>5 DEF FetchTold
<1> QED BY <1>4, <1>5, <1>6, <1>7, <1>8, <1>9, <1>10 DEF FetchForms

LEMMA PatchedTypes ==
  ASSUME IssueCacheAssumption, Typed, NEW kind \in Kinds, NEW i \in Issues, NEW s \in Statuses \cup {None},
         kind = "created" => s \in Statuses, NEW a, a = Patched(data, kind, i, s)
  PROVE  a = None \/ a \in Buckets
<1>1. CASE data = None
  BY <1>1 DEF Patched
<1>2. CASE data # None
  BY <1>2, PatchedIs DEF Typed, ListTyped
<1> QED BY <1>1, <1>2

LEMMA ListOfTypes == ASSUME NEW holds(_, _) PROVE ListOf(holds) \in Buckets
BY DEF ListOf, Buckets

LEMMA AnsweredTypes ==
  ASSUME IssueCacheAssumption, Typed, NEW m \in Muts, mut[m].st \in {"ok", "failed"}
  PROVE  Answered(mut[m]) = None \/ Answered(mut[m]) \in Buckets
<1>1. Wanted(mut[m]) /\ mut[m] \in Mutations /\ (data = None \/ data \in Buckets)
  BY DEF Typed, MutsTyped, ListTyped
<1>2. mut[m].prev = None \/ mut[m].prev \in Buckets
  BY <1>1 DEF Mutations
<1>3. CASE mut[m].kind = "created" /\ Answered(mut[m]) = Patched(data, "created", mut[m].i, mut[m].s)
  <2>1. mut[m].i \in Issues /\ mut[m].s \in Statuses
    BY <1>1, <1>3 DEF Wanted
  <2> QED BY <1>3, <2>1, PatchedTypes DEF Kinds
<1> QED BY <1>1, <1>2, <1>3 DEF Answered

LEMMA DataTypes ==
  ASSUME IssueCacheAssumption, Typed, [Next]_vars
  PROVE  data' = None \/ data' \in Buckets
<1>1. data = None \/ data \in Buckets
  BY DEF Typed, ListTyped
<1>2. ASSUME NEW e \in Events, data' = Patched(data, e.kind, e.i, e.s) PROVE data' = None \/ data' \in Buckets
  <2>1. e.kind \in Kinds /\ e.i \in Issues /\ e.s \in Statuses
    BY DEF Events
  <2> QED BY <1>2, <2>1, PatchedTypes
<1>3. CASE Deliver
  BY <1>2, <1>3, DeliverIs DEF Deliver, OnEvent
<1>4. CASE FetchFirstPages
  BY <1>4, ListOfTypes DEF FetchFirstPages
<1>5. ASSUME NEW m \in Muts, NEW kind \in Kinds, NEW i \in Issues, NEW s \in Statuses \cup {None}, Optimistic(m, kind, i, s)
      PROVE  data' = None \/ data' \in Buckets
  <2>1. data' = Patched(data, kind, i, s) /\ kind # "created"
    BY <1>5 DEF Optimistic
  <2> QED BY <2>1, PatchedTypes
<1>6. ASSUME NEW m \in Muts, Answer(m) PROVE data' = None \/ data' \in Buckets
  BY <1>6, AnsweredTypes DEF Answer
<1>7. CASE Collect
  BY <1>7 DEF Collect
<1>8. ASSUME \/ \E kind \in Kinds, i \in Issues, s \in Statuses : Other(kind, i, s)
             \/ \E e \in unpublished : Publish(e)
             \/ Connect \/ Drop \/ FetchFails \/ Mount \/ Unmount \/ Leave \/ Return \/ UNCHANGED vars
             \/ \E s \in Listed : Read(s)
             \/ \E m \in Muts : Arrive(m) \/ \E i \in Issues, s \in Statuses : CreateIssue(m, i, s)
      PROVE  data' = data
  BY <1>8 DEF Other, Publish, Connect, Drop, FetchFails, Mount, Unmount, Leave, Return, Read, Arrive, CreateIssue, vars, query
<1> QED BY <1>1, <1>3, <1>4, <1>5, <1>6, <1>7, <1>8 DEF Next

LEMMA MarkTypes == ASSUME Typed, [Next]_vars PROVE isInvalidated' \in BOOLEAN
<1>1. isInvalidated \in BOOLEAN
  BY DEF Typed, ListTyped
<1>2. CASE UNCHANGED isInvalidated
  BY <1>1, <1>2
<1>3. CASE isInvalidated' = TRUE \/ isInvalidated' = FALSE
  BY <1>3
<1>4. CASE isInvalidated' = (isInvalidated /\ data = None)
  BY <1>4
<1>5. Connect \/ (\E m \in Muts : Answer(m)) => isInvalidated' = TRUE \/ UNCHANGED isInvalidated
  BY DEF Connect, Answer, OnSettled, Invalidate
<1>6. Deliver \/ (\E m \in Muts, kind \in Kinds, i \in Issues, s \in Statuses \cup {None} : Optimistic(m, kind, i, s))
        => isInvalidated' = (isInvalidated /\ data = None)
  BY DEF Deliver, OnEvent, Optimistic
<1>7. FetchFirstPages \/ FetchFails \/ Collect => isInvalidated' = TRUE \/ isInvalidated' = FALSE
  BY DEF FetchFirstPages, FetchFails, Collect
<1>8. ASSUME \/ \E kind \in Kinds, i \in Issues, s \in Statuses : Other(kind, i, s)
             \/ \E e \in unpublished : Publish(e)
             \/ Drop \/ Mount \/ Unmount \/ Leave \/ Return \/ UNCHANGED vars
             \/ \E s \in Listed : Read(s)
             \/ \E m \in Muts : Arrive(m) \/ \E i \in Issues, s \in Statuses : CreateIssue(m, i, s)
      PROVE  UNCHANGED isInvalidated
  BY <1>8 DEF Other, Publish, Drop, Mount, Unmount, Leave, Return, Read, Arrive, CreateIssue, vars, query
<1> QED BY <1>2, <1>3, <1>4, <1>5, <1>6, <1>7, <1>8 DEF Next

LEMMA PlaceTypes == ASSUME Typed, [Next]_vars PROVE Placed'
<1>1. Placed /\ wire \in Seq(Events)
  BY DEF Typed, EventsTyped
<1>2. ASSUME NEW e \in unpublished, Publish(e) PROVE Placed'
  BY <1>1, <1>2 DEF Placed, Publish
<1>3. Connect \/ Drop \/ Deliver => Placed'
  BY <1>1 DEF Placed, Connect, Drop, LoseWire, Deliver
<1>4. Mount \/ Unmount \/ Leave \/ Return \/ Collect => Placed'
  <2>1. Mount => mounted' = TRUE /\ here /\ UNCHANGED <<here, conn, wire>>
    BY DEF Mount, socket
  <2>2. Unmount => mounted' = FALSE /\ UNCHANGED <<here, conn, wire>>
    BY DEF Unmount, socket
  <2>3. Leave => mounted' = FALSE /\ here' = FALSE /\ conn' = "off" /\ wire' = <<>>
    BY DEF Leave
  <2>4. Return => here' = TRUE /\ UNCHANGED <<mounted, conn, wire>>
    BY DEF Return, socket
  <2>5. Collect => UNCHANGED <<mounted, here, conn, wire>>
    BY DEF Collect, socket
  <2> QED BY <1>1, <2>1, <2>2, <2>3, <2>4, <2>5 DEF Placed
<1>5. ASSUME \/ \E kind \in Kinds, i \in Issues, s \in Statuses : Other(kind, i, s)
             \/ FetchFirstPages \/ FetchFails \/ UNCHANGED vars
             \/ \E s \in Listed : Read(s)
             \/ \E m \in Muts :
                  \/ \E i \in Issues, s \in Statuses : CreateIssue(m, i, s)
                  \/ \E kind \in Kinds, i \in Issues, s \in Statuses \cup {None} : Optimistic(m, kind, i, s)
                  \/ Arrive(m) \/ Answer(m)
      PROVE  Placed'
  <2>1. UNCHANGED <<mounted, here, conn, wire>>
    BY <1>5 DEF Other, FetchFirstPages, FetchFails, Read, Arrive, CreateIssue, Optimistic, Answer, vars, socket
  <2> QED BY <1>1, <2>1 DEF Placed
<1> QED BY <1>2, <1>3, <1>4, <1>5 DEF Next

LEMMA LeaveDoubt ==
  ASSUME Typed, Leave
  PROVE  doubt' \in {"none", "due", "lost"} /\ (doubt' = "none" => doubt = "none" /\ (wire = <<>> \/ data = None))
<1> DEFINE how == IF InFlight THEN "due" ELSE "lost"
           a == IF doubt = "due" /\ ~isInvalidated /\ ~fetch.on THEN how ELSE doubt
           b == IF wire # <<>> /\ data # None THEN how ELSE "none"
<1>1. doubt' = Worse(a, b) /\ doubt \in {"none", "due", "lost"}
  BY DEF Leave, Typed, ListTyped
<1>2. how \in {"due", "lost"}
  OBVIOUS
<1> HIDE DEF how
<1>3. a \in {"none", "due", "lost"} /\ (a = "none" => doubt = "none")
  BY <1>1, <1>2
<1>4. b \in {"none", "due", "lost"} /\ (b = "none" => wire = <<>> \/ data = None)
  BY <1>2
<1> HIDE DEF a, b
<1>5. doubt' \in {"none", "due", "lost"} /\ (doubt' = "none" <=> a = "none" /\ b = "none")
  BY <1>1, <1>3, <1>4, WorseIs
<1> QED BY <1>3, <1>4, <1>5

LEMMA DropDoubt ==
  ASSUME Typed, Drop
  PROVE  doubt' \in {"none", "due", "lost"} /\ (doubt' = "none" => doubt = "none" /\ (wire = <<>> \/ data = None))
<1>1. doubt' = (IF wire # <<>> /\ data # None THEN Worse(doubt, "due") ELSE doubt) /\ doubt \in {"none", "due", "lost"}
  BY DEF Drop, LoseWire, Typed, ListTyped
<1> QED BY <1>1, WorseIs

LEMMA PublishDoubt ==
  ASSUME Typed, NEW e \in unpublished, Publish(e)
  PROVE  /\ doubt' \in {"none", "due", "lost"}
         /\ doubt' = "none" => doubt = "none" /\ (wire' # wire \/ data = None)
<1>1. doubt \in {"none", "due", "lost"} /\ Missing \in {"none", "due", "lost"} /\ Missing # "none"
  BY MissingIs DEF Typed, ListTyped
<1>2. CASE conn = "up"
  <2>1. UNCHANGED doubt /\ wire' = Append(wire, [e EXCEPT !.late = e.ver < newest[e.i]])
    BY <1>2 DEF Publish
  <2>2. PICK x : wire' = Append(wire, x)
    BY <2>1
  <2>3. wire \in Seq(Events)
    BY DEF Typed, EventsTyped
  <2>4. wire' # wire
    BY <2>2, <2>3
  <2> QED BY <1>1, <2>1, <2>4
<1>3. CASE conn # "up"
  <2>1. doubt' = IF data = None THEN doubt ELSE Worse(doubt, Missing)
    BY <1>3 DEF Publish
  <2> QED BY <1>1, <2>1, WorseIs
<1> QED BY <1>2, <1>3

LEMMA DeliverDoubt ==
  ASSUME Typed, Deliver, NEW e, e = Head(wire)
  PROVE  /\ doubt' \in {"none", "due", "lost"}
         /\ doubt' = "none" /\ data # None =>
              /\ doubt = "none" /\ ~e.late
              /\ e.kind = "updated" /\ e.s \in Listed => Location(data, e.i) # None
              /\ e.kind = "created" => Location(data, e.i) \in {None, e.s}
<1> DEFINE missed == \/ e.late
                     \/ e.kind = "updated" /\ e.s \in Listed /\ Location(data, e.i) = None
                     \/ e.kind = "created" /\ Location(data, e.i) \notin {None, e.s}
           now == IF doubt = "due" /\ isInvalidated /\ ~fetch.on /\ ~InFlight THEN "lost" ELSE doubt
<1>1. doubt \in {"none", "due", "lost"} /\ Missing \in {"none", "due", "lost"} /\ Missing # "none"
  BY MissingIs DEF Typed, ListTyped
<1>2. doubt' = IF data = None THEN doubt ELSE IF missed THEN Worse(now, Missing) ELSE now
  BY DEF Deliver, OnEvent, Applied
<1>3. now \in {"none", "due", "lost"} /\ (now = "none" => doubt = "none")
  BY <1>1
<1> HIDE DEF now
<1>4. Worse(now, Missing) \in {"none", "due", "lost"} /\ Worse(now, Missing) # "none"
  BY <1>1, <1>3, WorseIs
<1>5. doubt' \in {"none", "due", "lost"} /\ (doubt' = "none" /\ data # None => doubt = "none" /\ ~missed)
  <2> HIDE DEF missed
  <2> QED BY <1>1, <1>2, <1>3, <1>4
<1> QED BY <1>5

LEMMA AnswerDoubt ==
  ASSUME Typed, NEW m \in Muts, Answer(m)
  PROVE  doubt' \in {"none", "due", "lost"} /\ (doubt' = "none" => doubt = "none" /\ data' = data)
<1>1. doubt' = (IF data' # data THEN Worse(doubt, "due") ELSE doubt) /\ doubt \in {"none", "due", "lost"}
  BY DEF Answer, Typed, ListTyped
<1> QED BY <1>1, WorseIs

LEMMA DoubtTypes == ASSUME Typed, [Next]_vars PROVE doubt' \in {"none", "due", "lost"}
<1>1. doubt \in {"none", "due", "lost"} /\ fetch.miss \in {"none", "due", "lost"}
  BY FetchFields DEF Typed, ListTyped
<1>2. FetchFirstPages \/ FetchFails \/ Collect => doubt' \in {doubt, fetch.miss, "lost", "none"}
  BY DEF FetchFirstPages, FetchFails, Collect
<1>3. ASSUME \/ \E kind \in Kinds, i \in Issues, s \in Statuses : Other(kind, i, s)
             \/ Connect \/ Mount \/ Unmount \/ Return \/ UNCHANGED vars
             \/ \E s \in Listed : Read(s)
             \/ \E m \in Muts :
                  \/ \E i \in Issues, s \in Statuses : CreateIssue(m, i, s)
                  \/ \E kind \in Kinds, i \in Issues, s \in Statuses \cup {None} : Optimistic(m, kind, i, s)
                  \/ Arrive(m)
      PROVE  UNCHANGED doubt
  BY <1>3 DEF Other, Connect, Mount, Unmount, Return, Read, Arrive, CreateIssue, Optimistic, vars
<1> QED BY <1>1, <1>2, <1>3, LeaveDoubt, DropDoubt, PublishDoubt, DeliverDoubt, AnswerDoubt DEF Next

LEMMA MutStays ==
  ASSUME Typed, NEW m \in Muts, NEW r \in Mutations, mut' = [mut EXCEPT ![m] = r], r.st # "idle" => Wanted(r)
  PROVE  MutsTyped'
BY DEF Typed, MutsTyped

(* What an arrival makes of the mutation. *)
LEMMA ArriveIs ==
  ASSUME Typed, NEW m \in Muts, Arrive(m)
  PROVE  \E r \in Mutations :
           /\ mut' = [mut EXCEPT ![m] = r] /\ mut[m].st = "sent" /\ r.st \in {"ok", "failed"}
           /\ r.kind = mut[m].kind /\ r.i = mut[m].i /\ r.s = mut[m].s /\ r.prev = mut[m].prev
           /\ \/ r.st = "failed" /\ UNCHANGED <<server, clock, unpublished>>
              \/ r.st = "ok" /\ r.kind = "updated" /\ server[r.i] = r.s /\ UNCHANGED <<server, clock, unpublished>>
              \/ r.st = "ok" /\ r.kind = "deleted" /\ Commit(r.kind, r.i, server[r.i])
              \/ r.st = "ok" /\ r.kind # "deleted" /\ Commit(r.kind, r.i, r.s)
<1>1. mut \in [Muts -> Mutations] /\ clock \in Nat /\ mut[m].st = "sent"
  BY DEF Typed, MutsTyped, EventsTyped, Arrive
<1>2. PICK u \in Mutations : u = mut[m]
  BY <1>1
<1>4. CASE /\ IF u.kind = "deleted" THEN Commit(u.kind, u.i, server[u.i]) ELSE Commit(u.kind, u.i, u.s)
           /\ mut' = [mut EXCEPT ![m].st = "ok", ![m].ver = clock + 1]
  <2>1. PICK r : r = [u EXCEPT !.st = "ok", !.ver = clock + 1]
    OBVIOUS
  <2>2. r \in Mutations /\ r.st = "ok" /\ r.kind = u.kind /\ r.i = u.i /\ r.s = u.s /\ r.prev = u.prev
    <3>1. clock + 1 \in Nat
      BY <1>1
    <3>2. PICK n \in Nat : n = clock + 1
      BY <3>1
    <3>3. r = [kind |-> u.kind, i |-> u.i, s |-> u.s, prev |-> u.prev, st |-> "ok", ver |-> n]
      BY <2>1, <3>2 DEF Mutations
    <3>4. /\ u.kind \in Kinds \cup {"none"} /\ u.i \in Issues \cup {None} /\ u.s \in Statuses \cup {None}
          /\ u.prev \in Buckets \cup {None}
      BY DEF Mutations
    <3>5. r \in Mutations
      BY <3>3, <3>4 DEF Mutations
    <3> QED BY <3>3, <3>5
  <2>3. mut' = [mut EXCEPT ![m] = r]
    <3>1. r = [[mut[m] EXCEPT !.st = "ok"] EXCEPT !.ver = clock + 1]
      BY <1>1, <1>2, <2>1 DEF Mutations
    <3>2. mut' = [mut EXCEPT ![m] = [[mut[m] EXCEPT !.st = "ok"] EXCEPT !.ver = clock + 1]]
      BY <1>1, <1>4
    <3> QED BY <3>1, <3>2
  <2>6. mut[m].st = "sent" /\ u = mut[m]
    BY <1>1, <1>2
  <2>4. CASE u.kind = "deleted"
    <3>1. Commit(u.kind, u.i, server[u.i])
      BY <1>4, <2>4
    <3>2. Commit(r.kind, r.i, server[r.i])
      BY <2>2, <3>1, Zenon
    <3> QED BY <2>2, <2>3, <2>4, <2>6, <3>2
  <2>5. CASE u.kind # "deleted"
    <3>1. Commit(u.kind, u.i, u.s)
      BY <1>4, <2>5
    <3>2. Commit(r.kind, r.i, r.s)
      BY <2>2, <3>1, Zenon
    <3> QED BY <2>2, <2>3, <2>5, <2>6, <3>2
  <2> QED BY <2>4, <2>5
<1>5. CASE /\ u.kind = "updated" /\ server[u.i] = u.s /\ mut' = [mut EXCEPT ![m].st = "ok"]
           /\ UNCHANGED <<server, clock, unpublished>>
  <2>1. PICK r : r = [u EXCEPT !.st = "ok"]
    OBVIOUS
  <2>2. r \in Mutations /\ r.st = "ok" /\ r.kind = u.kind /\ r.i = u.i /\ r.s = u.s /\ r.prev = u.prev
    BY <1>1, <2>1 DEF Mutations
  <2>3. mut' = [mut EXCEPT ![m] = r]
    BY <1>1, <1>2, <1>5, <2>1
  <2> QED BY <1>1, <1>2, <1>5, <2>2, <2>3
<1>6. CASE mut' = [mut EXCEPT ![m].st = "failed"] /\ UNCHANGED <<server, clock, unpublished>>
  <2>1. PICK r : r = [u EXCEPT !.st = "failed"]
    OBVIOUS
  <2>2. r \in Mutations /\ r.st = "failed" /\ r.kind = u.kind /\ r.i = u.i /\ r.s = u.s /\ r.prev = u.prev
    BY <1>1, <2>1 DEF Mutations
  <2>3. mut' = [mut EXCEPT ![m] = r]
    BY <1>1, <1>2, <1>6, <2>1
  <2> QED BY <1>1, <1>2, <1>6, <2>2, <2>3
<1> QED BY <1>2, <1>4, <1>5, <1>6 DEF Arrive

LEMMA StartedIs ==
  ASSUME Typed, NEW m \in Muts, NEW kind \in Kinds, NEW i \in Issues, NEW s \in Statuses \cup {None},
         NEW prev \in Buckets \cup {None}, Started(m, kind, i, s, prev)
  PROVE  \E r \in Mutations : /\ mut' = [mut EXCEPT ![m] = r] /\ mut[m].st = "idle"
                              /\ r.kind = kind /\ r.i = i /\ r.s = s /\ r.prev = prev /\ r.st = "sent"
<1>1. PICK r : r = [kind |-> kind, i |-> i, s |-> s, prev |-> prev, st |-> "sent", ver |-> 0]
  OBVIOUS
<1>2. r \in Mutations
  BY <1>1 DEF Mutations
<1> QED BY <1>1, <1>2 DEF Started

LEMMA MutTypes == ASSUME IssueCacheAssumption, Typed, [Next]_vars PROVE MutsTyped'
<1>1. MutsTyped /\ data \in Buckets \cup {None}
  BY DEF Typed, ListTyped
<1>2. ASSUME NEW m \in Muts, NEW i \in Issues, NEW s \in Statuses, CreateIssue(m, i, s) PROVE MutsTyped'
  <2>1. PICK r \in Mutations : mut' = [mut EXCEPT ![m] = r] /\ r.kind = "created" /\ r.i = i /\ r.s = s /\ r.prev = None
    BY <1>2, StartedIs DEF CreateIssue, Kinds
  <2> QED BY <2>1, MutStays DEF Wanted
<1>3. ASSUME NEW m \in Muts, NEW kind \in Kinds, NEW i \in Issues, NEW s \in Statuses \cup {None}, Optimistic(m, kind, i, s)
      PROVE  MutsTyped'
  <2>3. data \in Buckets \cup {None} /\ Started(m, kind, i, s, data)
    BY <1>1, <1>3 DEF Optimistic
  <2>1. PICK r \in Mutations : mut' = [mut EXCEPT ![m] = r] /\ r.kind = kind /\ r.i = i /\ r.s = s
    BY <2>3, StartedIs
  <2>4. kind = (IF s = None THEN "deleted" ELSE "updated")
    BY <1>3 DEF Optimistic
  <2>2. (kind = "deleted" /\ s = None) \/ (kind = "updated" /\ s \in Statuses)
    BY <2>4
  <2> QED BY <2>1, <2>2, MutStays DEF Wanted
<1>4. ASSUME NEW m \in Muts, Arrive(m) PROVE MutsTyped'
  <2>1. PICK r \in Mutations : mut' = [mut EXCEPT ![m] = r] /\ mut[m].st = "sent" /\ r.kind = mut[m].kind
                               /\ r.i = mut[m].i /\ r.s = mut[m].s /\ r.prev = mut[m].prev
    BY <1>4, ArriveIs
  <2>2. Wanted(mut[m])
    BY <1>1, <2>1 DEF MutsTyped
  <2> QED BY <2>1, <2>2, MutStays DEF Wanted
<1>5. ASSUME NEW m \in Muts, Answer(m) PROVE MutsTyped'
  <2>1. NoMut \in Mutations /\ NoMut.st = "idle"
    BY DEF NoMut, Mutations
  <2>2. mut' = [mut EXCEPT ![m] = NoMut]
    BY <1>5 DEF Answer
  <2> QED BY <2>1, <2>2, MutStays
<1>6. ASSUME \/ \E kind \in Kinds, i \in Issues, s \in Statuses : Other(kind, i, s)
             \/ \E e \in unpublished : Publish(e)
             \/ Deliver \/ Connect \/ Drop \/ FetchFirstPages \/ FetchFails
             \/ Mount \/ Unmount \/ Leave \/ Return \/ Collect \/ UNCHANGED vars
             \/ \E s \in Listed : Read(s)
      PROVE  UNCHANGED mut
  BY <1>6 DEF Other, Publish, Deliver, Connect, Drop, FetchFirstPages, FetchFails, Mount, Unmount, Leave, Return,
              Collect, Read, vars
<1>7. UNCHANGED mut => MutsTyped'
  BY <1>1 DEF MutsTyped
<1> QED BY <1>2, <1>3, <1>4, <1>5, <1>6, <1>7 DEF Next

LEMMA ServerTypes == ASSUME Typed, Forms PROVE server' \in [Issues -> {"none", "gone"} \cup Statuses]
<1>1. server \in [Issues -> {"none", "gone"} \cup Statuses]
  BY DEF Typed, ListTyped
<1> QED BY <1>1, CommitIs, PublishIs, DeliverIs DEF Forms

LEMMA TypedStays == ASSUME IssueCacheAssumption, Typed, [Next]_vars PROVE Typed'
<1>1. EventsTyped' /\ MutsTyped' /\ Placed'
  BY StepForms, EventsStay, MutTypes, PlaceTypes
<1>2. ListTyped'
  BY StepForms, ServerTypes, DataTypes, FetchSteps, FetchTypes, MarkTypes, DoubtTypes DEF ListTyped
<1> QED BY <1>1, <1>2 DEF Typed

-----------------------------------------------------------------------------
(* What is told of an issue stays so, or something newer is told of it.    *)
LEMMA ShowsNothing ==
  ASSUME NEW d, NEW i, NEW v, v \notin Listed, NEW w, w \notin Listed, Shows(d, i, v)
  PROVE  Shows(d, i, w)
BY DEF Shows

LEMMA ToldShown ==
  ASSUME IssueCacheAssumption, NEW d, NEW i, NEW v, Shows(d, i, v)
  PROVE  \E w \in Listed \cup {None} : Shows(d, i, w)
<1>1. CASE v \in Listed
  BY <1>1
<1>2. CASE v \notin Listed
  BY <1>2, ShowsNothing, NoneApart
<1> QED BY <1>1, <1>2

LEMMA ToldStays ==
  ASSUME NEW i \in Issues, Told(i), Same(data, data', i), server'[i] = server[i], Pending(i) => Pending(i)',
         \A m \in Muts : Hopes(m, i) => Hopes(m, i)' /\ mut'[m].s = mut[m].s
  PROVE  Told(i)'
<1>1. \A v : Shows(data', i, v) <=> Shows(data, i, v)
  BY SameShows
<1>2. CASE Pending(i) /\ \E v \in Listed \cup {None} : Shows(data, i, v)
  <2>1. PICK v \in Listed \cup {None} : Shows(data, i, v)
    BY <1>2
  <2> QED BY <1>1, <1>2, <2>1 DEF Told
<1>3. CASE Shows(data, i, server[i])
  BY <1>1, <1>3 DEF Told
<1>4. CASE \E m \in Muts : Hopes(m, i) /\ Shows(data, i, mut[m].s)
  <2>1. PICK m \in Muts : Hopes(m, i) /\ Shows(data, i, mut[m].s)
    BY <1>4
  <2>2. Hopes(m, i)' /\ Shows(data', i, mut'[m].s)
    BY <1>1, <2>1
  <2> QED BY <2>2 DEF Told
<1> QED BY <1>2, <1>3, <1>4 DEF Told

LEMMA PendingNow ==
  ASSUME IssueCacheAssumption, NEW i \in Issues, Pending(i)', NEW v, Shows(data', i, v)
  PROVE  Told(i)'
<1>1. PICK w \in Listed \cup {None} : Shows(data', i, w)
  BY ToldShown
<1> QED BY <1>1 DEF Told

LEMMA ToldSame ==
  ASSUME ListTold, UNCHANGED <<data, mut, server, newest>>, Flying' = Flying, doubt' = "none" => doubt = "none" \/ data = None
  PROVE  ListTold'
<1>1. ASSUME NEW i \in Issues, Told(i) PROVE Told(i)'
  <2>1. Same(data, data', i)
    BY DEF Same
  <2>2. Pending(i) => Pending(i)'
    BY DEF Pending
  <2>3. \A m \in Muts : Hopes(m, i) => Hopes(m, i)' /\ mut'[m].s = mut[m].s
    BY DEF Hopes
  <2> QED BY <1>1, <2>1, <2>2, <2>3, ToldStays
<1> QED BY <1>1 DEF ListTold

LEMMA SomewhereShown ==
  ASSUME NEW i \in Issues, Told(i) PROVE \E v : Shows(data, i, v)
BY DEF Told

LEMMA CommitTold ==
  ASSUME IssueCacheAssumption, Typed, ListTold, UNCHANGED <<data, doubt, wire, newest>>,
         NEW kind \in Kinds, NEW i \in Issues, NEW s \in Statuses, Commit(kind, i, s),
         \A j \in Issues \ {i} : \A m \in Muts : Hopes(m, j) => Hopes(m, j)' /\ mut'[m].s = mut[m].s
  PROVE  ListTold'
<1>1. PICK e \in Events : /\ e.i = i /\ e.ver = clock + 1 /\ unpublished' = unpublished \cup {e}
                          /\ \A j \in Issues \ {i} : server'[j] = server[j]
  BY CommitIs
<1>2. Flying' = Flying \cup {e}
  BY <1>1 DEF Flying
<1>3. Pending(i)'
  <2>1. clock \in Nat /\ newest \in [Issues -> 0..clock]
    BY DEF Typed, EventsTyped
  <2>2. e.ver >= newest'[i]
    BY <1>1, <2>1
  <2> QED BY <1>1, <1>2, <2>2 DEF Pending
<1>4. ASSUME NEW j \in Issues, Told(j) PROVE Told(j)'
  <2>1. CASE j = i
    <3>1. PICK v : Shows(data, j, v)
      BY <1>4, SomewhereShown
    <3>2. Shows(data', j, v)
      BY <3>1
    <3> QED BY <1>3, <2>1, <3>2, PendingNow
  <2>2. CASE j # i
    <3>1. Same(data, data', j)
      BY DEF Same
    <3>2. Pending(j) => Pending(j)'
      BY <1>2 DEF Pending
    <3>3. server'[j] = server[j]
      BY <1>1, <2>2
    <3> QED BY <1>4, <2>2, <3>1, <3>2, <3>3, ToldStays
  <2> QED BY <2>1, <2>2
<1> QED BY <1>4 DEF ListTold

LEMMA PublishTold ==
  ASSUME Typed, ListTold, NEW e \in unpublished, Publish(e)
  PROVE  ListTold'
<1>1. UNCHANGED <<data, mut, server>> /\ (doubt' = "none" => doubt = "none" /\ (wire' # wire \/ data = None))
  BY PublishDoubt DEF Publish
<1>2. /\ e \in Events
      /\ newest' = [newest EXCEPT ![e.i] = IF e.ver > newest[e.i] THEN e.ver ELSE newest[e.i]]
  BY PublishIs
<1>3. /\ clock \in Nat /\ newest \in [Issues -> 0..clock] /\ Flying \subseteq Events
  BY FlyingTyped DEF Typed, EventsTyped
<1>4. /\ e.i \in Issues /\ e.ver \in Nat /\ newest[e.i] \in Nat
      /\ newest'[e.i] = IF e.ver > newest[e.i] THEN e.ver ELSE newest[e.i]
      /\ \A j \in Issues \ {e.i} : newest'[j] = newest[j]
  BY <1>2, <1>3 DEF Events
<1>5. \A f \in Flying : f.ver \in Nat /\ f.i \in Issues
  BY <1>3 DEF Events
<1>6. ASSUME wire' # wire, NEW i \in Issues, Pending(i) PROVE Pending(i)'
  <2>1. PICK f \in Flying : f.i = i /\ f.ver >= newest[i]
    BY <1>6 DEF Pending
  <2>2. PICK q \in Flying' : q.i = e.i /\ q.ver = e.ver /\ \A g \in Flying : g = e \/ g \in Flying'
    BY <1>6, PublishIs
  <2>3. CASE e.i = i /\ e.ver >= f.ver
    <3>1. q.ver >= newest'[i]
      BY <1>4, <1>5, <2>1, <2>2, <2>3
    <3> QED BY <2>2, <2>3, <3>1 DEF Pending
  <2>4. CASE ~(e.i = i /\ e.ver >= f.ver)
    <3>1. f # e /\ f \in Flying'
      BY <1>4, <1>5, <2>1, <2>2, <2>4
    <3>2. f.ver >= newest'[i]
      <4>1. newest[i] \in Nat
        BY <1>3
      <4> QED BY <1>4, <1>5, <2>1, <2>4, <4>1
    <3> QED BY <2>1, <3>1, <3>2 DEF Pending
  <2> QED BY <2>3, <2>4
<1>7. ASSUME wire' # wire, NEW i \in Issues, Told(i) PROVE Told(i)'
  <2>1. Same(data, data', i) /\ server'[i] = server[i]
    BY <1>1 DEF Same
  <2>2. \A m \in Muts : Hopes(m, i) => Hopes(m, i)' /\ mut'[m].s = mut[m].s
    BY <1>1 DEF Hopes
  <2> QED BY <1>6, <1>7, <2>1, <2>2, ToldStays
<1> QED BY <1>1, <1>7 DEF ListTold

LEMMA DeliverTold ==
  ASSUME IssueCacheAssumption, Typed, ListTold, LastSays, InOrder, Deliver
  PROVE  ListTold'
<1>1. PICK e \in Events : e = Head(wire)
  BY DeliverIs
<1>2. /\ e \in Flying /\ e = wire[1] /\ 1 \in DOMAIN wire
      /\ UNCHANGED <<server, clock, unpublished, newest>>
      /\ \A k \in DOMAIN wire : k # 1 => k - 1 \in DOMAIN wire' /\ wire'[k - 1] = wire[k]
      /\ \A f \in Flying : f = e \/ f \in Flying'
  BY <1>1, DeliverIs
<1>3. data' = Patched(data, e.kind, e.i, e.s) /\ UNCHANGED mut
  BY <1>1 DEF Deliver, OnEvent
<1>4. e.kind \in Kinds /\ e.i \in Issues /\ e.s \in Statuses /\ e.ver \in Nat
  BY DEF Events
<1> SUFFICES ASSUME data' # None, doubt' = "none" PROVE \A i \in Issues : Told(i)'
  BY DEF ListTold
<1>5. data # None /\ data \in Buckets
  BY <1>3 DEF Patched, Typed, ListTyped
<1>6. /\ doubt = "none" /\ ~e.late
      /\ e.kind = "updated" /\ e.s \in Listed => Location(data, e.i) # None
      /\ e.kind = "created" => Location(data, e.i) \in {None, e.s}
  BY <1>1, <1>5, DeliverDoubt
<1>7. \A i \in Issues : Told(i)
  BY <1>5, <1>6 DEF ListTold
<1>8. PICK v : Shows(data, e.i, v)
  BY <1>4, <1>7, SomewhereShown
<1>9. /\ \A j \in Issues \ {e.i} : Same(data, data', j)
      /\ e.kind = "created" => Shows(data', e.i, e.s)
      /\ e.kind = "deleted" => Shows(data', e.i, None)
      /\ e.kind = "updated" => Shows(data', e.i, e.s)
  BY <1>3, <1>4, <1>5, <1>6, <1>8, PatchedIs
<1>10. Shows(data', e.i, Target(e.kind, e.s))
  BY <1>4, <1>9 DEF Target, Kinds
<1>11. ASSUME NEW j \in Issues \ {e.i} PROVE Told(j)'
  <2>1. Pending(j) => Pending(j)'
    BY <1>2 DEF Pending
  <2>2. \A m \in Muts : Hopes(m, j) => Hopes(m, j)' /\ mut'[m].s = mut[m].s
    BY <1>3 DEF Hopes
  <2> QED BY <1>2, <1>7, <1>9, <2>1, <2>2, ToldStays
<1>12. Told(e.i)'
  <2>1. CASE \E f \in Flying' : f.i = e.i /\ f.ver >= newest'[e.i]
    <3>1. Pending(e.i)'
      BY <2>1 DEF Pending
    <3> QED BY <1>4, <1>10, <3>1, PendingNow
  <2>2. CASE ~\E f \in Flying' : f.i = e.i /\ f.ver >= newest'[e.i]
    <3>1. \A f \in Flying' : f.i = e.i => ~(f.ver >= newest[e.i])
      BY <1>2, <2>2
    <3>2. newest[e.i] \in Nat
      BY <1>4 DEF Typed, EventsTyped
    <3>3. e.ver = newest[e.i]
      <4>1. \/ e.ver = newest[e.i]
            \/ \E m \in DOMAIN wire : 1 < m /\ wire[m].i = e.i /\ wire[m].ver = newest[e.i]
        BY <1>2, <1>6 DEF InOrder
      <4>2. ASSUME NEW m \in DOMAIN wire, 1 < m, wire[m].i = e.i, wire[m].ver = newest[e.i] PROVE FALSE
        <5>1. m \in Nat /\ m # 1
          BY <4>2, DeliverIs
        <5>2. wire[m] \in Flying'
          BY <1>2, <5>1 DEF Flying
        <5>3. ~(newest[e.i] >= newest[e.i])
          BY <3>1, <4>2, <5>2
        <5> QED BY <3>2, <5>3
      <4> QED BY <4>1, <4>2
    <3>4. ASSUME NEW f \in unpublished, f.i = e.i PROVE f.ver <= e.ver
      <4>1. f \in Flying' /\ f \in Flying
        BY <1>2 DEF Flying
      <4>2. f.ver \in Nat
        BY <4>1, FlyingTyped DEF Events
      <4>3. ~(f.ver >= newest[e.i])
        BY <3>1, <3>4, <4>1
      <4> QED BY <3>2, <3>3, <4>2, <4>3
    <3>5. Says(e)
      <4>1. e.ver >= newest[e.i]
        BY <3>2, <3>3
      <4> QED BY <1>2, <3>4, <4>1 DEF LastSays
    <3>6. Shows(data', e.i, server'[e.i])
      <4>1. CASE e.kind = "deleted"
        BY <1>2, <1>9, <3>5, <4>1, ShowsNothing, NoneApart DEF Says
      <4>2. CASE e.kind # "deleted"
        BY <1>2, <1>4, <1>9, <3>5, <4>2 DEF Says, Kinds
      <4> QED BY <4>1, <4>2
    <3> QED BY <3>6 DEF Told
  <2> QED BY <2>1, <2>2
<1> QED BY <1>11, <1>12

(* A fetch that has missed nothing shows every issue where it was found.   *)
LEMMA FetchedTold ==
  ASSUME IssueCacheAssumption, Typed, FetchTold, FetchFirstPages
  PROVE  ListTold'
<1>1. /\ fetch.on /\ data' = ListOf(LAMBDA s, i : i \in fetch.read[s]) /\ doubt' = fetch.miss
      /\ UNCHANGED <<server, unpublished, wire, newest>> /\ \A s \in Listed : fetch.read[s] # None
  BY DEF FetchFirstPages, socket
<1> SUFFICES ASSUME fetch.miss = "none", NEW i \in Issues PROVE Told(i)'
  BY <1>1 DEF ListTold
<1>2. Begun = Listed /\ Begun # {}
  BY <1>1 DEF Begun, IssueCacheAssumption
<1>3. (Since(i) \/ HasRead(i)) /\ ReadOnce(i)
  BY <1>1, <1>2 DEF FetchTold
<1>4. \A s \in Listed : data'[s][i] = IF i \in fetch.read[s] THEN 1 ELSE 0
  BY <1>1 DEF ListOf
<1>5. \E v : Shows(data', i, v)
  <2>1. CASE \E s \in Listed : i \in fetch.read[s]
    <3>1. PICK v \in Listed : i \in fetch.read[v]
      BY <2>1
    <3>2. \A s \in Listed : i \in fetch.read[s] <=> s = v
      BY <1>2, <1>3, <3>1 DEF ReadOnce
    <3>3. Shows(data', i, v)
      BY <1>4, <3>2 DEF Shows
    <3> QED BY <3>3
  <2>2. CASE ~\E s \in Listed : i \in fetch.read[s]
    <3>1. Shows(data', i, None)
      BY <1>4, <2>2, NoneApart DEF Shows
    <3> QED BY <3>1
  <2> QED BY <2>1, <2>2
<1>6. CASE Since(i)
  <2>1. Pending(i)'
    BY <1>1, <1>6 DEF Since, Pending, Flying
  <2> QED BY <1>5, <2>1, PendingNow
<1>7. CASE HasRead(i)
  <2>1. Shows(data', i, server'[i])
    BY <1>1, <1>2, <1>4, <1>7 DEF HasRead, Shows
  <2> QED BY <2>1 DEF Told
<1> QED BY <1>3, <1>6, <1>7

LEMMA StartTold ==
  ASSUME Typed, ListTold, NEW m \in Muts, NEW i \in Issues, NEW s \in Statuses, CreateIssue(m, i, s)
  PROVE  ListTold'
<1>1. UNCHANGED <<data, server, unpublished, wire, newest, doubt>> /\ Started(m, "created", i, s, None)
  BY DEF CreateIssue, query, socket
<1>2. PICK r \in Mutations : mut' = [mut EXCEPT ![m] = r] /\ mut[m].st = "idle"
  BY <1>1, StartedIs DEF Kinds
<1>3. \A k \in Muts \ {m} : mut'[k] = mut[k]
  BY <1>2 DEF Typed, MutsTyped
<1>4. ASSUME NEW j \in Issues, Told(j) PROVE Told(j)'
  <2>1. Same(data, data', j) /\ (Pending(j) => Pending(j)')
    BY <1>1 DEF Same, Pending, Flying
  <2>2. \A k \in Muts : Hopes(k, j) => Hopes(k, j)' /\ mut'[k].s = mut[k].s
    BY <1>2, <1>3 DEF Hopes
  <2> QED BY <1>1, <1>4, <2>1, <2>2, ToldStays
<1> QED BY <1>1, <1>4 DEF ListTold

LEMMA OptimisticTold ==
  ASSUME IssueCacheAssumption, Typed, ListTold, NEW m \in Muts, NEW kind \in Kinds, NEW i \in Issues,
         NEW s \in Statuses \cup {None}, Optimistic(m, kind, i, s)
  PROVE  ListTold'
<1>1. /\ UNCHANGED <<server, unpublished, wire, newest, doubt>> /\ Started(m, kind, i, s, data)
      /\ data' = Patched(data, kind, i, s)
  BY DEF Optimistic, socket
<1>2. kind = (IF s = None THEN "deleted" ELSE "updated")
  BY DEF Optimistic
<1>3. (kind = "deleted" /\ s = None) \/ (kind = "updated" /\ s \in Statuses)
  BY <1>2
<1> SUFFICES ASSUME data' # None, doubt' = "none" PROVE \A j \in Issues : Told(j)'
  BY DEF ListTold
<1>4. data # None /\ data \in Buckets /\ doubt = "none"
  BY <1>1 DEF Patched, Typed, ListTyped
<1>5. \A j \in Issues : Told(j)
  BY <1>4 DEF ListTold
<1>6. PICK r \in Mutations : /\ mut' = [mut EXCEPT ![m] = r] /\ mut[m].st = "idle"
                             /\ r.kind = kind /\ r.i = i /\ r.s = s /\ r.prev = data /\ r.st = "sent"
  BY <1>1, <1>4, StartedIs
<1>7. mut'[m] = r /\ \A k \in Muts \ {m} : mut'[k] = mut[k]
  BY <1>6 DEF Typed, MutsTyped
<1>8. PICK v : Shows(data, i, v)
  BY <1>5, SomewhereShown
<1>9. /\ \A j \in Issues \ {i} : Same(data, data', j)
      /\ kind = "deleted" => Shows(data', i, None)
      /\ kind = "updated" => data' = data \/ Shows(data', i, s)
  <2>1. kind = "created" => s \in Statuses
    BY <1>3
  <2> QED BY <1>1, <1>4, <1>8, <2>1, PatchedIs
<1>10. data' = data \/ Shows(data', i, s)
  BY <1>3, <1>9
<1>11. ASSUME NEW j \in Issues, Same(data, data', j) PROVE Told(j)'
  <2>1. Pending(j) => Pending(j)'
    BY <1>1 DEF Pending, Flying
  <2>2. \A k \in Muts : Hopes(k, j) => Hopes(k, j)' /\ mut'[k].s = mut[k].s
    BY <1>6, <1>7 DEF Hopes
  <2> QED BY <1>1, <1>5, <1>11, <2>1, <2>2, ToldStays
<1>12. CASE data' = data
  BY <1>11, <1>12 DEF Same
<1>13. CASE Shows(data', i, s)
  <2>1. Told(i)'
    <3>1. CASE Shows(data, i, s)
      <4>1. Same(data, data', i)
        BY <1>13, <3>1 DEF Same, Shows
      <4> QED BY <1>11, <4>1
    <3>2. CASE ~Shows(data, i, s)
      <4>1. Hopes(m, i)' /\ mut'[m].s = s
        BY <1>3, <1>4, <1>6, <1>7, <3>2 DEF Hopes
      <4>2. Shows(data', i, mut'[m].s)
        BY <1>13, <4>1
      <4> QED BY <4>1, <4>2 DEF Told
    <3> QED BY <3>1, <3>2
  <2> QED BY <1>9, <1>11, <2>1
<1> QED BY <1>10, <1>12, <1>13

LEMMA ArriveTold ==
  ASSUME IssueCacheAssumption, Typed, ListTold, NEW m \in Muts, Arrive(m)
  PROVE  ListTold'
<1>1. UNCHANGED <<data, doubt, wire, newest>>
  BY DEF Arrive, query, socket
<1>2. PICK r \in Mutations :
           /\ mut' = [mut EXCEPT ![m] = r] /\ mut[m].st = "sent" /\ r.st \in {"ok", "failed"}
           /\ r.kind = mut[m].kind /\ r.i = mut[m].i /\ r.s = mut[m].s /\ r.prev = mut[m].prev
           /\ \/ r.st = "failed" /\ UNCHANGED <<server, clock, unpublished>>
              \/ r.st = "ok" /\ r.kind = "updated" /\ server[r.i] = r.s /\ UNCHANGED <<server, clock, unpublished>>
              \/ r.st = "ok" /\ r.kind = "deleted" /\ Commit(r.kind, r.i, server[r.i])
              \/ r.st = "ok" /\ r.kind # "deleted" /\ Commit(r.kind, r.i, r.s)
  BY ArriveIs
<1>3. mut'[m] = r /\ \A k \in Muts \ {m} : mut'[k] = mut[k]
  BY <1>2 DEF Typed, MutsTyped
<1>4. Wanted(mut[m])
  BY <1>2 DEF Typed, MutsTyped
<1>5. r.i \in Issues /\ r.kind \in Kinds /\ (r.kind # "deleted" => r.s \in Statuses)
  BY <1>2, <1>4 DEF Wanted, Kinds
<1>6. \A j \in Issues : \A k \in Muts \ {m} : Hopes(k, j) => Hopes(k, j)' /\ mut'[k].s = mut[k].s
  BY <1>3 DEF Hopes
<1>7. \A j \in Issues \ {r.i} : ~Hopes(m, j)
  BY <1>2 DEF Hopes
<1>8. \A j \in Issues : Same(data, data', j)
  BY <1>1 DEF Same
<1>9. CASE r.st = "failed" /\ UNCHANGED <<server, clock, unpublished>>
  <2>1. ASSUME NEW j \in Issues, Told(j) PROVE Told(j)'
    <3>1. Hopes(m, j) => Hopes(m, j)' /\ mut'[m].s = mut[m].s
      BY <1>2, <1>3, <1>9 DEF Hopes
    <3>2. \A k \in Muts : Hopes(k, j) => Hopes(k, j)' /\ mut'[k].s = mut[k].s
      BY <1>6, <3>1
    <3>3. Pending(j) => Pending(j)'
      BY <1>1, <1>9 DEF Pending, Flying
    <3> QED BY <1>8, <1>9, <2>1, <3>2, <3>3, ToldStays
  <2> QED BY <1>1, <2>1 DEF ListTold
<1>10. CASE server[r.i] = r.s /\ UNCHANGED <<server, clock, unpublished>>
  <2>1. ASSUME NEW j \in Issues, Told(j) PROVE Told(j)'
    <3>1. CASE Hopes(m, j) /\ Shows(data, j, mut[m].s)
      <4>1. j = r.i
        BY <1>7, <3>1
      <4>2. Shows(data', j, server'[j])
        BY <1>1, <1>2, <1>10, <3>1, <4>1
      <4> QED BY <4>2 DEF Told
    <3>2. CASE Shows(data, j, server[j])
      <4>1. Shows(data', j, server'[j])
        BY <1>1, <1>10, <3>2
      <4> QED BY <4>1 DEF Told
    <3>3. CASE Pending(j) /\ \E v \in Listed \cup {None} : Shows(data, j, v)
      <4>1. Pending(j)' /\ \E v \in Listed \cup {None} : Shows(data', j, v)
        BY <1>1, <1>10, <3>3 DEF Pending, Flying
      <4> QED BY <4>1 DEF Told
    <3>4. CASE \E k \in Muts \ {m} : Hopes(k, j) /\ Shows(data, j, mut[k].s)
      <4>1. PICK k \in Muts \ {m} : Hopes(k, j) /\ Shows(data, j, mut[k].s)
        BY <3>4
      <4>2. Hopes(k, j)' /\ Shows(data', j, mut'[k].s)
        BY <1>1, <1>6, <4>1
      <4> QED BY <4>2 DEF Told
    <3> QED BY <2>1, <3>1, <3>2, <3>3, <3>4 DEF Told
  <2> QED BY <1>1, <2>1 DEF ListTold
<1>11. ASSUME NEW s \in Statuses, Commit(r.kind, r.i, s) PROVE ListTold'
  BY <1>1, <1>5, <1>6, <1>7, <1>11, CommitTold
<1>12. ASSUME Commit(r.kind, r.i, server[r.i]), r.kind = "deleted" PROVE server[r.i] \in Statuses
  BY <1>12 DEF Commit
<1> QED BY <1>2, <1>5, <1>9, <1>10, <1>11, <1>12

(* A mutation that put the list back where it was had changed nothing.     *)
LEMMA AnswerTold ==
  ASSUME IssueCacheAssumption, Typed, ListTold, NEW m \in Muts, Answer(m)
  PROVE  ListTold'
<1>1. /\ UNCHANGED <<server, unpublished, wire, newest>> /\ mut' = [mut EXCEPT ![m] = NoMut]
      /\ data' = Answered(mut[m]) /\ mut[m].st \in {"ok", "failed"}
      /\ doubt' = "none" => doubt = "none" /\ data' = data
  BY AnswerDoubt DEF Answer, socket
<1> SUFFICES ASSUME data' # None, doubt' = "none" PROVE \A j \in Issues : Told(j)'
  BY DEF ListTold
<1>2. data' = data /\ doubt = "none" /\ \A j \in Issues : Told(j)
  BY <1>1 DEF ListTold
<1>3. \A k \in Muts \ {m} : mut'[k] = mut[k]
  BY <1>1 DEF Typed, MutsTyped
<1>4. \A j \in Issues : ~(Hopes(m, j) /\ Shows(data, j, mut[m].s))
  <2>1. mut[m].st = "failed" /\ mut[m].prev # None => data = mut[m].prev
    BY <1>1, <1>2 DEF Answered
  <2> QED BY <1>1, <2>1 DEF Hopes
<1>5. ASSUME NEW j \in Issues PROVE Told(j)'
  <2>1. CASE Shows(data, j, server[j])
    <3>1. Shows(data', j, server'[j])
      BY <1>1, <1>2, <2>1
    <3> QED BY <3>1 DEF Told
  <2>2. CASE Pending(j) /\ \E v \in Listed \cup {None} : Shows(data, j, v)
    <3>1. Pending(j)' /\ \E v \in Listed \cup {None} : Shows(data', j, v)
      BY <1>1, <1>2, <2>2 DEF Pending, Flying
    <3> QED BY <3>1 DEF Told
  <2>3. CASE \E k \in Muts : Hopes(k, j) /\ Shows(data, j, mut[k].s)
    <3>1. PICK k \in Muts \ {m} : Hopes(k, j) /\ Shows(data, j, mut[k].s)
      BY <1>4, <2>3
    <3>2. Hopes(k, j)' /\ Shows(data', j, mut'[k].s)
      BY <1>2, <1>3, <3>1 DEF Hopes
    <3> QED BY <3>2 DEF Told
  <2> QED BY <1>2, <2>1, <2>2, <2>3 DEF Told
<1> QED BY <1>5

-----------------------------------------------------------------------------
LEMMA ListStays ==
  ASSUME IssueCacheAssumption, Typed, ListTold, FetchTold, LastSays, InOrder, [Next]_vars
  PROVE  ListTold'
<1>1. ASSUME NEW kind \in Kinds, NEW i \in Issues, NEW s \in Statuses, Other(kind, i, s) PROVE ListTold'
  <2>1. UNCHANGED <<data, doubt, wire, newest, mut>> /\ Commit(kind, i, s)
    BY <1>1 DEF Other, query, socket
  <2>2. \A j \in Issues \ {i} : \A m \in Muts : Hopes(m, j) => Hopes(m, j)' /\ mut'[m].s = mut[m].s
    BY <2>1 DEF Hopes
  <2> QED BY <2>1, <2>2, CommitTold
<1>2. CASE Drop \/ Leave
  <2>1. UNCHANGED <<data, mut, server, unpublished, newest>> /\ wire' = <<>>
    BY <1>2 DEF Drop, Leave, LoseWire
  <2>2. doubt' = "none" => doubt = "none" /\ (wire = <<>> \/ data = None)
    BY <1>2, DropDoubt, LeaveDoubt
  <2>3. CASE doubt' = "none" /\ data # None
    <3>1. Flying' = Flying
      BY <2>1, <2>2, <2>3 DEF Flying
    <3> QED BY <2>1, <2>2, <3>1, ToldSame
  <2>4. CASE ~(doubt' = "none" /\ data # None)
    BY <2>1, <2>4 DEF ListTold
  <2> QED BY <2>3, <2>4
<1>3. CASE FetchFails
  <2>1. UNCHANGED <<data, mut, server, unpublished, wire, newest>> /\ (doubt' = "none" => doubt = "none")
    BY <1>3 DEF FetchFails, socket
  <2>2. Flying' = Flying
    BY <2>1 DEF Flying
  <2> QED BY <2>1, <2>2, ToldSame
<1>4. ASSUME \/ Connect \/ Mount \/ Unmount \/ Return \/ UNCHANGED vars
             \/ \E s \in Listed : Read(s)
      PROVE  ListTold'
  <2>1. UNCHANGED <<data, mut, server, unpublished, wire, newest, doubt>>
    BY <1>4 DEF Connect, Mount, Unmount, Return, Read, vars, query, socket
  <2>2. Flying' = Flying
    BY <2>1 DEF Flying
  <2> QED BY <2>1, <2>2, ToldSame
<1>5. CASE Collect
  BY <1>5 DEF Collect, ListTold
<1> QED BY <1>1, <1>2, <1>3, <1>4, <1>5, PublishTold, DeliverTold, FetchedTold, StartTold, OptimisticTold,
           ArriveTold, AnswerTold DEF Next

LEMMA ListInvInit == ASSUME IssueCacheAssumption, Init PROVE ListInv
<1>1. /\ server \in [Issues -> {"none"} \cup Statuses] /\ clock = 0 /\ unpublished = {}
      /\ data = None /\ isInvalidated = FALSE /\ fetch = NewFetch
      /\ mounted = TRUE /\ here = TRUE /\ conn = "off" /\ wire = <<>>
      /\ mut = [m \in Muts |-> NoMut] /\ doubt = "none" /\ newest = [i \in Issues |-> 0]
  BY DEF Init
<1>2. Flying = {} /\ wire \in Seq(Events) /\ DOMAIN wire = {}
  BY <1>1 DEF Flying
<1>3. EventsTyped
  <2>1. newest \in [Issues -> 0..clock]
    BY <1>1
  <2> QED BY <1>1, <1>2, <2>1 DEF EventsTyped
<1>4. MutsTyped
  <2>1. NoMut \in Mutations /\ NoMut.st = "idle"
    BY DEF NoMut, Mutations
  <2> QED BY <1>1, <2>1 DEF MutsTyped
<1>5. ListTyped
  BY <1>1, NewFetchIs DEF ListTyped
<1>6. Placed
  BY <1>1 DEF Placed
<1>7. FetchTold
  BY <1>1, NewFetchIs DEF FetchTold, Begun
<1>8. ListTold /\ LastSays /\ InOrder
  BY <1>1, <1>2 DEF ListTold, LastSays, InOrder
<1> QED BY <1>3, <1>4, <1>5, <1>6, <1>7, <1>8 DEF ListInv, Typed

LEMMA ListInvStep == ASSUME IssueCacheAssumption, ListInv, [Next]_vars PROVE ListInv'
BY TypedStays, ListStays, FetchSteps, FetchStays, StepForms, LastStays, OrderStays DEF ListInv

LEMMA QuietSynced == ASSUME ListInv PROVE Synced
<1> SUFFICES ASSUME Quiet, data # None, doubt = "none" PROVE data = Truth
  BY DEF Synced
<1>1. unpublished = {} /\ DOMAIN wire = {} /\ \A m \in Muts : mut[m].st = "idle"
  <2>1. unpublished = {} /\ wire = <<>> /\ \A m \in Muts : mut[m].st = "idle"
    BY DEF Quiet, InFlight
  <2> QED BY <2>1
<1>2. Flying = {}
  BY <1>1 DEF Flying
<1>3. ASSUME NEW i \in Issues PROVE Shows(data, i, server[i])
  <2>1. Told(i)
    BY DEF ListInv, ListTold
  <2> QED BY <1>1, <1>2, <2>1 DEF Told, Pending, Hopes
<1>4. data \in [Listed -> [Issues -> 0..2]]
  BY DEF ListInv, Typed, ListTyped, Buckets
<1>5. \A s \in Listed, i \in Issues : data[s][i] = IF server[i] = s THEN 1 ELSE 0
  BY <1>3 DEF Shows
<1>6. \A s \in Listed : data[s] = [i \in Issues |-> IF server[i] = s THEN 1 ELSE 0]
  BY <1>4, <1>5
<1>7. data = [s \in Listed |-> [i \in Issues |-> IF server[i] = s THEN 1 ELSE 0]]
  BY <1>4, <1>6
<1> QED BY <1>7 DEF Truth, ListOf

(* Once all is delivered and answered, the list is the server's list,      *)
(* unless one of the named ways to miss something was met: whatever is     *)
(* created, moved and deleted by whom, in whatever order handlers publish, *)
(* fetches read their columns and mutations are answered.                  *)
THEOREM ListIsSynced == Spec => []Synced
<1>1. Init => ListInv
  BY ListInvInit, IssueCacheAssumption
<1>2. ListInv /\ [Next]_vars => ListInv'
  BY ListInvStep, IssueCacheAssumption
<1>3. ListInv => Synced
  BY QuietSynced
<1> QED BY <1>1, <1>2, <1>3, PTL DEF Spec

-----------------------------------------------------------------------------
(* The server's clock stays in its bounds: a mutation pays for its write   *)
(* when it is sent.                                                        *)
Sent == {m \in Muts : mut[m].st = "sent"}

ClockInv ==
  /\ acts \in 0..MaxActs /\ IsFiniteSet(Sent)
  /\ Cardinality(Sent) <= acts /\ clock + Cardinality(Sent) <= MaxCommits + acts

LEMMA ClockSums ==
  ASSUME NEW a \in Nat, NEW b \in Nat, NEW c \in Nat, NEW d \in Nat, NEW n \in Nat, NEW k \in Nat, NEW most \in Nat,
         n <= a, c + n <= most + a,
         \/ b \in {a, a + 1} /\ d = c /\ k = n
         \/ b = a + 1 /\ d = c /\ k = n + 1
         \/ b = a /\ d \in {c, c + 1} /\ k = n - 1
         \/ b = a /\ c < most /\ d = c + 1 /\ k = n
  PROVE  k <= b /\ d + k <= most + b
OBVIOUS

LEMMA ClockHolds ==
  ASSUME IssueCacheAssumption, Typed, ClockInv, IsFiniteSet(Sent'), acts' \in 0..MaxActs, clock' \in Nat,
         \/ acts' \in {acts, acts + 1} /\ clock' = clock /\ Cardinality(Sent') = Cardinality(Sent)
         \/ acts' = acts + 1 /\ clock' = clock /\ Cardinality(Sent') = Cardinality(Sent) + 1
         \/ acts' = acts /\ clock' \in {clock, clock + 1} /\ Cardinality(Sent') = Cardinality(Sent) - 1
         \/ acts' = acts /\ clock < MaxCommits /\ clock' = clock + 1 /\ Cardinality(Sent') = Cardinality(Sent)
  PROVE  ClockInv'
<1>1. Cardinality(Sent) \in Nat /\ Cardinality(Sent') \in Nat
  BY FS_CardinalityType DEF ClockInv
<1>2. PICK n \in Nat, k \in Nat : n = Cardinality(Sent) /\ k = Cardinality(Sent')
  BY <1>1
<1>3. acts \in Nat /\ MaxCommits \in Nat /\ clock \in Nat /\ MaxActs \in Nat
  BY DEF ClockInv, IssueCacheAssumption, Typed, EventsTyped
<1>4. n <= acts /\ clock + n <= MaxCommits + acts
  BY <1>2 DEF ClockInv
<1>6. \/ acts' \in {acts, acts + 1} /\ clock' = clock /\ k = n
      \/ acts' = acts + 1 /\ clock' = clock /\ k = n + 1
      \/ acts' = acts /\ clock' \in {clock, clock + 1} /\ k = n - 1
      \/ acts' = acts /\ clock < MaxCommits /\ clock' = clock + 1 /\ k = n
  BY <1>2
<1>7. acts' \in Nat
  BY <1>3
<1>5. k <= acts' /\ clock' + k <= MaxCommits + acts'
  <2>1. PICK a \in Nat, b \in Nat, c \in Nat, d \in Nat, most \in Nat :
          a = acts /\ b = acts' /\ c = clock /\ d = clock' /\ most = MaxCommits
    BY <1>3, <1>7
  <2>2. n <= a /\ c + n <= most + a
    BY <1>4, <2>1
  <2>3. \/ b \in {a, a + 1} /\ d = c /\ k = n
        \/ b = a + 1 /\ d = c /\ k = n + 1
        \/ b = a /\ d \in {c, c + 1} /\ k = n - 1
        \/ b = a /\ c < most /\ d = c + 1 /\ k = n
    BY <1>6, <2>1
  <2>4. k <= b /\ d + k <= most + b
    BY <2>2, <2>3, ClockSums
  <2> QED BY <2>1, <2>4
<1> QED BY <1>2, <1>5 DEF ClockInv

LEMMA ClockStep == ASSUME IssueCacheAssumption, Typed, ClockInv, [Next]_vars PROVE ClockInv'
<1>1. /\ acts \in 0..MaxActs /\ MaxActs \in Nat /\ IsFiniteSet(Sent) /\ clock \in Nat
      /\ mut \in [Muts -> Mutations]
  BY DEF ClockInv, IssueCacheAssumption, Typed, EventsTyped, MutsTyped
<1>2. clock' \in Nat
  BY TypedStays DEF Typed, EventsTyped
<1>3. Act => acts' = acts + 1 /\ acts' \in 0..MaxActs
  BY <1>1 DEF Act
<1>4. UNCHANGED mut => Sent' = Sent
  BY DEF Sent
<1>5. ASSUME NEW m \in Muts, NEW r, mut' = [mut EXCEPT ![m] = r]
      PROVE  Sent' = IF r.st = "sent" THEN Sent \cup {m} ELSE Sent \ {m}
  <2>1. mut'[m] = r /\ \A k \in Muts \ {m} : mut'[k] = mut[k]
    BY <1>1, <1>5
  <2> QED BY <2>1 DEF Sent
<1>6. ASSUME NEW m \in Muts
      PROVE  /\ IsFiniteSet(Sent \cup {m}) /\ (m \notin Sent => Cardinality(Sent \cup {m}) = Cardinality(Sent) + 1)
             /\ IsFiniteSet(Sent \ {m}) /\ (m \in Sent => Cardinality(Sent \ {m}) = Cardinality(Sent) - 1)
  BY <1>1, FS_AddElement, FS_RemoveElement
<1>7. ASSUME NEW m \in Muts, NEW kind, NEW i, NEW s, NEW prev, Started(m, kind, i, s, prev), UNCHANGED clock
      PROVE  ClockInv'
  <2>1. PICK r : /\ r.st = "sent" /\ mut' = [mut EXCEPT ![m] = r] /\ mut[m].st = "idle"
    BY <1>7 DEF Started
  <2>2. Sent' = Sent \cup {m} /\ m \notin Sent /\ acts' = acts + 1 /\ acts' \in 0..MaxActs
    BY <1>3, <1>5, <1>7, <2>1 DEF Sent, Started
  <2> QED BY <1>1, <1>2, <1>6, <1>7, <2>2, ClockHolds
<1>8. ASSUME NEW m \in Muts, Arrive(m) PROVE ClockInv'
  <2>1. PICK r \in Mutations : /\ mut' = [mut EXCEPT ![m] = r] /\ mut[m].st = "sent" /\ r.st \in {"ok", "failed"}
    BY <1>8, ArriveIs
  <2>2. Sent' = Sent \ {m} /\ m \in Sent /\ acts' = acts
    BY <1>5, <1>8, <2>1 DEF Sent, Arrive
  <2>3. clock' = clock \/ clock' = clock + 1
    BY <1>8 DEF Arrive, Commit
  <2> QED BY <1>1, <1>2, <1>6, <2>2, <2>3, ClockHolds
<1>9. ASSUME NEW m \in Muts, Answer(m) PROVE ClockInv'
  <2>1. mut' = [mut EXCEPT ![m] = NoMut] /\ mut[m].st \in {"ok", "failed"} /\ NoMut.st = "idle" /\ UNCHANGED <<clock, acts>>
    BY <1>9 DEF Answer, NoMut, counts
  <2>2. Sent' = Sent \ {m} /\ m \notin Sent
    BY <1>5, <2>1 DEF Sent
  <2>3. Sent' = Sent
    BY <2>2
  <2> QED BY <1>1, <1>2, <2>1, <2>3, ClockHolds
<1>10. ASSUME NEW kind \in Kinds, NEW i \in Issues, NEW s \in Statuses, Other(kind, i, s) PROVE ClockInv'
  <2>1. clock < MaxCommits /\ clock' = clock + 1 /\ UNCHANGED <<acts, mut>>
    BY <1>10 DEF Other, Commit, counts
  <2> QED BY <1>1, <1>2, <1>4, <2>1, ClockHolds
<1>11. CASE Mount \/ Unmount \/ Leave \/ Return \/ Collect
  <2>1. UNCHANGED <<clock, mut>> /\ Act
    BY <1>11 DEF Mount, Unmount, Leave, Return, Collect
  <2> QED BY <1>1, <1>2, <1>3, <1>4, <2>1, ClockHolds
<1>12. ASSUME \/ \E e \in unpublished : Publish(e)
              \/ Deliver \/ Connect \/ Drop \/ FetchFirstPages \/ FetchFails \/ UNCHANGED vars
              \/ \E s \in Listed : Read(s)
       PROVE  ClockInv'
  <2>1. UNCHANGED <<clock, mut, acts>>
    BY <1>12 DEF Publish, Deliver, Connect, Drop, FetchFirstPages, FetchFails, Read, vars, counts
  <2> QED BY <1>1, <1>2, <1>4, <2>1, ClockHolds
<1>13. ASSUME NEW m \in Muts, NEW i \in Issues, NEW s \in Statuses, CreateIssue(m, i, s) PROVE ClockInv'
  BY <1>7, <1>13 DEF CreateIssue
<1>14. ASSUME NEW m \in Muts, NEW kind \in Kinds, NEW i \in Issues, NEW s \in Statuses \cup {None}, Optimistic(m, kind, i, s)
       PROVE  ClockInv'
  BY <1>7, <1>14 DEF Optimistic
<1> QED BY <1>8, <1>9, <1>10, <1>11, <1>12, <1>13, <1>14 DEF Next

LEMMA ClockInit == ASSUME IssueCacheAssumption, Init PROVE ClockInv
<1>1. NoMut.st = "idle" /\ mut = [m \in Muts |-> NoMut] /\ clock = 0 /\ acts = 0
  BY DEF Init, NoMut
<1>2. Sent = {}
  BY <1>1 DEF Sent
<1>3. IsFiniteSet(Sent) /\ Cardinality(Sent) = 0
  BY <1>2, FS_EmptySet
<1> QED BY <1>1, <1>3 DEF ClockInv, IssueCacheAssumption

LEMMA ClockTyped == ASSUME IssueCacheAssumption, ListInv, ClockInv PROVE TypeOK
<1>1. clock \in 0..(MaxCommits + MaxActs)
  <2>1. PICK n \in Nat : n = Cardinality(Sent)
    BY FS_CardinalityType DEF ClockInv
  <2>2. clock \in Nat /\ acts \in 0..MaxActs /\ MaxCommits \in Nat /\ MaxActs \in Nat /\ clock + n <= MaxCommits + acts
    BY <2>1 DEF ClockInv, ListInv, Typed, EventsTyped, IssueCacheAssumption
  <2> QED BY <2>2
<1>2. fetch.miss \in {"none", "due", "lost"}
  BY FetchFields DEF ListInv, Typed, ListTyped
<1> QED BY <1>1, <1>2 DEF TypeOK, ListInv, Typed, ListTyped, Placed

(* The types, of which a list that shows an issue in a column is one: no   *)
(* patch counts an issue's copies beyond several, the socket holds events  *)
(* only while it is up and is there only for the workspace on screen, and  *)
(* the server is written no more often than it was asked to.               *)
THEOREM ListTypes == Spec => []TypeOK
<1>1. Init => ListInv /\ ClockInv
  BY ListInvInit, ClockInit, IssueCacheAssumption
<1>2. ListInv /\ ClockInv /\ [Next]_vars => (ListInv /\ ClockInv)'
  BY ListInvStep, ClockStep, IssueCacheAssumption DEF ListInv
<1>3. ListInv /\ ClockInv => TypeOK
  BY ClockTyped, IssueCacheAssumption
<1> QED BY <1>1, <1>2, <1>3, PTL DEF Spec

=============================================================================
