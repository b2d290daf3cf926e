----------------------------- MODULE EmptyClaim -----------------------------
(***************************************************************************)
(* The cache that lets an idle runtime poll without touching Postgres:     *)
(* EmptyClaimCache, as ClaimTaskForRuntime and notifyTaskAvailable use it, *)
(* for one runtime.  Each step is one Redis command or one SQL statement.  *)
(*                                                                         *)
(*   row        the rows of agent_task_queue of this runtime               *)
(*   announced  rows whose enqueue has bumped the version                  *)
(*   version    the counter mul:claim:runtime:version, 0 when missing      *)
(*   verdict    the version in mul:claim:runtime:empty, None when missing  *)
(*   pending    enqueues between INSERT and Bump                           *)
(*   claim      ClaimTaskForRuntime calls in progress                      *)
(*                                                                         *)
(* Redis may fail at any command.  The version key is taken to live: its   *)
(* TTL of a day is renewed at every claim that reaches the database, the   *)
(* verdict's is three minutes.                                             *)
(***************************************************************************)
EXTENDS Naturals

CONSTANTS
  Rows,      \* rows that will ever be enqueued for the runtime
  Claimers,  \* slots for concurrent claims of the runtime
  None       \* a key that is not there

ASSUME NoVersionAssumption == None \notin Nat

VARIABLES row, announced, version, verdict, pending, claim

queue == <<row, announced, pending>>
vars  == <<queue, version, verdict, claim>>

Idle == [pc |-> "idle", seen |-> 0, listed |-> {}]
Claims == [pc : {"idle", "version", "select", "take", "mark"}, seen : Nat,
           listed : SUBSET Rows]

TypeOK ==
  /\ row \in [Rows -> {"none", "queued", "taken"}]
  /\ announced \subseteq Rows /\ pending \subseteq Rows
  /\ version \in Nat /\ verdict \in Nat \cup {None}
  /\ claim \in [Claimers -> Claims]

Init ==
  /\ row = [k \in Rows |-> "none"]
  /\ announced = {} /\ pending = {}
  /\ version = 0 /\ verdict = None
  /\ claim = [c \in Claimers |-> Idle]

Queued == {k \in Rows : row[k] = "queued"}

(* IsEmpty: one MGET of both keys, so the two are of one moment. *)
IsEmpty == verdict = version

(* A faulty order: the version is read when the verdict is written. *)
MarkTagLate(c) == IF claim[c].pc = "mark" THEN version ELSE claim[c].seen

MarkTag(c) == claim[c].seen

-----------------------------------------------------------------------------
(* Enqueue: INSERT, then Bump, then the wakeup *)

Insert(k) ==
  /\ row[k] = "none"
  /\ row' = [row EXCEPT ![k] = "queued"]
  /\ pending' = pending \cup {k}
  /\ UNCHANGED <<announced, version, verdict, claim>>

(* A faulty announcement, which wakes the daemon and bumps nothing. *)
BumpNothing(k) ==
  /\ k \in pending
  /\ announced' = announced \cup {k}
  /\ pending' = pending \ {k}
  /\ UNCHANGED <<row, version, verdict, claim>>

Bump(k) ==
  /\ k \in pending
  /\ version' = version + 1
  /\ announced' = announced \cup {k}
  /\ pending' = pending \ {k}
  /\ UNCHANGED <<row, verdict, claim>>

(* Redis fails, or the server dies before the Bump; the enqueue stands. *)
BumpLost(k) ==
  /\ k \in pending
  /\ pending' = pending \ {k}
  /\ UNCHANGED <<row, announced, version, verdict, claim>>

(* A queued row leaves the queue by a cancel or a sweep. *)
Withdraw(k) ==
  /\ row[k] = "queued"
  /\ row' = [row EXCEPT ![k] = "taken"]
  /\ UNCHANGED <<announced, pending, version, verdict, claim>>

-----------------------------------------------------------------------------
(* Claim: IsEmpty, CurrentVersion, SELECT, then a claim or MarkEmpty *)

(* A poll answered by the cache changes nothing and is not a step. *)
Poll(c) ==
  /\ claim[c].pc = "idle" /\ ~IsEmpty
  /\ claim' = [claim EXCEPT ![c].pc = "version"]
  /\ UNCHANGED <<queue, version, verdict>>

(* Redis fails to tell, and the claim goes on without the cache. *)
PollBlind(c) ==
  /\ claim[c].pc = "idle" /\ IsEmpty
  /\ claim' = [claim EXCEPT ![c].pc = "version"]
  /\ UNCHANGED <<queue, version, verdict>>

(* The version, or 0 when Redis fails. *)
CurrentVersion(c, v) ==
  /\ claim[c].pc = "version" /\ v \in {version, 0}
  /\ claim' = [claim EXCEPT ![c].pc = "select", ![c].seen = v]
  /\ UNCHANGED <<queue, version, verdict>>

(* ListQueuedClaimCandidatesByRuntime: every queued row of the runtime.    *)
Select(c) ==
  /\ claim[c].pc = "select"
  /\ claim' = [claim EXCEPT ![c].pc = IF Queued = {} THEN "mark" ELSE "take",
                            ![c].listed = Queued]
  /\ UNCHANGED <<queue, version, verdict>>

(* The agents of the rows listed are tried in turn.  A row is dispatched,  *)
(* or none is: the agents are at capacity, their lanes are busy, what was  *)
(* claimed is a row of a former runtime, or a statement fails.             *)
Take(c) ==
  /\ claim[c].pc = "take"
  /\ \/ \E k \in Queued : row' = [row EXCEPT ![k] = "taken"]
     \/ UNCHANGED row
  /\ claim' = [claim EXCEPT ![c] = Idle]
  /\ UNCHANGED <<announced, pending, version, verdict>>

(* The verdict is written, or the write fails. *)
MarkEmpty(c) ==
  /\ claim[c].pc = "mark"
  /\ verdict' \in {MarkTag(c), verdict}
  /\ claim' = [claim EXCEPT ![c] = Idle]
  /\ UNCHANGED <<queue, version>>

(* The server dies, or the client has gone away: the claim ends where it is. *)
Abandon(c) ==
  /\ claim[c].pc # "idle"
  /\ claim' = [claim EXCEPT ![c] = Idle]
  /\ UNCHANGED <<queue, version, verdict>>

(* A faulty verdict, which is written without a TTL. *)
ExpireNever == FALSE /\ UNCHANGED vars

(* The TTL of the verdict. *)
Expire ==
  /\ verdict # None
  /\ verdict' = None
  /\ UNCHANGED <<queue, version, claim>>

-----------------------------------------------------------------------------
Next ==
  \/ \E k \in Rows : Insert(k) \/ Bump(k) \/ BumpLost(k) \/ Withdraw(k)
  \/ \E c \in Claimers :
       \/ Poll(c) \/ PollBlind(c) \/ Select(c) \/ Take(c) \/ MarkEmpty(c) \/ Abandon(c)
       \/ \E v \in {version, 0} : CurrentVersion(c, v)
  \/ Expire

Spec == Init /\ [][Next]_vars

(* A daemon polls again and again and its client does not give up on every *)
(* claim: a stage that claims keep reaching is now and then completed.     *)
(* Keys expire.  Nothing is assumed of Bump, nor that a claim dispatches.  *)
Fairness ==
  /\ \A c \in Claimers :
       /\ SF_vars(Poll(c)) /\ SF_vars(Select(c))
       /\ SF_vars(\E v \in {version, 0} : CurrentVersion(c, v))
       /\ WF_vars(Take(c)) /\ WF_vars(MarkEmpty(c))
  /\ WF_vars(Expire)

FairSpec == Spec /\ Fairness

-----------------------------------------------------------------------------
(* Properties *)

(* A verdict that is believed is true of every row whose enqueue has       *)
(* bumped the version, so the claim that follows the row's wakeup is never *)
(* answered from the cache; only a row whose Bump is still to come, or was *)
(* lost, can be hidden.                                                    *)
BelievedIsTrue == IsEmpty => Queued \cap announced = {}

(* Why: a verdict on its way into the cache that would be believed there   *)
(* is true in the same sense, no tag is ahead of the version, and what is  *)
(* announced has been inserted before.                                     *)
MarksAreTrue ==
  \A c \in Claimers :
    claim[c].pc = "mark" /\ claim[c].seen = version => Queued \cap announced = {}

TagsBehind ==
  /\ verdict # None => verdict <= version
  /\ \A c \in Claimers : claim[c].seen <= version

RowsFirst == \A k \in announced \cup pending : row[k] # "none"

CacheInv == BelievedIsTrue /\ MarksAreTrue /\ TagsBehind /\ RowsFirst

(* A row is before a claim that has listed it. *)
Listed(k) == \E c \in Claimers : claim[c].pc = "take" /\ k \in claim[c].listed

(* The cache never stalls a row: as long as it is queued, claims list it   *)
(* again and again, even when its Bump was lost: the verdict that hides it *)
(* expires, and no claim that sees the row writes another.  Whether such a *)
(* claim can dispatch the row is not the cache's affair.                   *)
NeverStalled == \A k \in Rows : row[k] = "queued" ~> row[k] # "queued" \/ Listed(k)

=============================================================================
