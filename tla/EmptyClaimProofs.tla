-------------------------- MODULE EmptyClaimProofs --------------------------
(***************************************************************************)
(* For any number of rows and of concurrent claims: a verdict the cache    *)
(* lets a claim believe hides no row whose enqueue has bumped the version. *)
(* Tags are never ahead of the version, so a Bump makes every tag stale,   *)
(* those of the claims still on their way to MarkEmpty included.           *)
(***************************************************************************)
EXTENDS EmptyClaim, TLAPS

(* The initial state: nothing is cached and nothing is queued. *)
LEMMA CacheInitial == Init => TypeOK /\ CacheInv
  BY NoVersionAssumption
  DEF NoVersionAssumption, Init, TypeOK, CacheInv, BelievedIsTrue, MarksAreTrue,
      TagsBehind, RowsFirst, Claims, Idle, Queued, IsEmpty

(* Every step keeps the types. *)
LEMMA CacheTypes == ASSUME TypeOK, [Next]_vars PROVE TypeOK'
<1> USE NoVersionAssumption DEF NoVersionAssumption, TypeOK, Claims, Idle, queue
<1>1. ASSUME NEW k \in Rows, Insert(k) PROVE TypeOK'
  BY <1>1 DEF Insert
<1>2. ASSUME NEW k \in Rows, Bump(k) PROVE TypeOK'
  BY <1>2 DEF Bump
<1>3. ASSUME NEW k \in Rows, BumpLost(k) PROVE TypeOK'
  BY <1>3 DEF BumpLost
<1>4. ASSUME NEW k \in Rows, Withdraw(k) PROVE TypeOK'
  BY <1>4 DEF Withdraw
<1>5. ASSUME NEW c \in Claimers, Poll(c) PROVE TypeOK'
  BY <1>5 DEF Poll
<1>6. ASSUME NEW c \in Claimers, PollBlind(c) PROVE TypeOK'
  BY <1>6 DEF PollBlind
<1>7. ASSUME NEW c \in Claimers, NEW v \in {version, 0}, CurrentVersion(c, v)
      PROVE TypeOK'
  <2>1. v \in Nat
    BY <1>7
  <2>2. claim' = [claim EXCEPT ![c] = [[claim[c] EXCEPT !.pc = "select"] EXCEPT !.seen = v]]
    BY <1>7 DEF CurrentVersion
  <2> QED BY <1>7, <2>1, <2>2 DEF CurrentVersion
<1>8. ASSUME NEW c \in Claimers, Select(c) PROVE TypeOK'
  BY <1>8 DEF Select, Queued
<1>9. ASSUME NEW c \in Claimers, Take(c) PROVE TypeOK'
  BY <1>9 DEF Take
<1>10. ASSUME NEW c \in Claimers, MarkEmpty(c) PROVE TypeOK'
  BY <1>10 DEF MarkEmpty, MarkTag
<1>11. ASSUME NEW c \in Claimers, Abandon(c) PROVE TypeOK'
  BY <1>11 DEF Abandon
<1>12. ASSUME Expire PROVE TypeOK'
  BY <1>12 DEF Expire
<1>13. ASSUME UNCHANGED vars PROVE TypeOK'
  BY <1>13 DEF vars
<1>14. QED
  BY <1>1, <1>2, <1>3, <1>4, <1>5, <1>6, <1>7, <1>8, <1>9, <1>10, <1>11, <1>12, <1>13
  DEF Next

(* Every step keeps the invariant of the cache. *)
LEMMA CacheStep == ASSUME TypeOK, CacheInv, [Next]_vars PROVE CacheInv'
<1> USE NoVersionAssumption DEF NoVersionAssumption, TypeOK, Claims, Idle, queue,
      CacheInv, BelievedIsTrue, MarksAreTrue, TagsBehind, RowsFirst, Queued, IsEmpty
<1>1. ASSUME NEW k \in Rows, Insert(k) PROVE CacheInv'
  BY <1>1 DEF Insert
<1>2. ASSUME NEW k \in Rows, Bump(k) PROVE CacheInv'
  BY <1>2 DEF Bump
<1>3. ASSUME NEW k \in Rows, BumpLost(k) PROVE CacheInv'
  BY <1>3 DEF BumpLost
<1>4. ASSUME NEW k \in Rows, Withdraw(k) PROVE CacheInv'
  BY <1>4 DEF Withdraw
<1>5. ASSUME NEW c \in Claimers, Poll(c) PROVE CacheInv'
  BY <1>5 DEF Poll
<1>6. ASSUME NEW c \in Claimers, PollBlind(c) PROVE CacheInv'
  BY <1>6 DEF PollBlind
<1>7. ASSUME NEW c \in Claimers, NEW v \in {version, 0}, CurrentVersion(c, v)
      PROVE CacheInv'
  BY <1>7 DEF CurrentVersion
<1>8. ASSUME NEW c \in Claimers, Select(c) PROVE CacheInv'
  BY <1>8 DEF Select
<1>9. ASSUME NEW c \in Claimers, Take(c) PROVE CacheInv'
  BY <1>9 DEF Take
<1>10. ASSUME NEW c \in Claimers, MarkEmpty(c) PROVE CacheInv'
  BY <1>10 DEF MarkEmpty, MarkTag
<1>11. ASSUME NEW c \in Claimers, Abandon(c) PROVE CacheInv'
  BY <1>11 DEF Abandon
<1>12. ASSUME Expire PROVE CacheInv'
  BY <1>12 DEF Expire
<1>13. ASSUME UNCHANGED vars PROVE CacheInv'
  BY <1>13 DEF vars
<1>14. QED
  BY <1>1, <1>2, <1>3, <1>4, <1>5, <1>6, <1>7, <1>8, <1>9, <1>10, <1>11, <1>12, <1>13
  DEF Next

(* The state of the cache and of the claims keeps its type. *)
THEOREM CacheTypeCorrect == Spec => []TypeOK
<1>1. Init => TypeOK
  BY CacheInitial
<1>2. TypeOK /\ [Next]_vars => TypeOK'
  BY CacheTypes
<1>3. QED
  BY <1>1, <1>2, PTL DEF Spec

(* The whole invariant, the verdicts on their way into the cache included. *)
THEOREM CacheInvariant == Spec => []CacheInv
<1>1. Init => CacheInv
  BY CacheInitial
<1>2. TypeOK /\ CacheInv /\ [Next]_vars => CacheInv'
  BY CacheStep
<1>3. QED
  BY <1>1, <1>2, CacheTypeCorrect, PTL DEF Spec

(* What IsEmpty promises: a believed verdict hides no announced row, so    *)
(* the claim that follows a wakeup reaches the database.                   *)
THEOREM VerdictsAreTrue == Spec => []BelievedIsTrue
<1>1. CacheInv => BelievedIsTrue
  BY DEF CacheInv
<1>2. QED
  BY <1>1, CacheInvariant, PTL

=============================================================================
