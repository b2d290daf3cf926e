------------------------------ MODULE TabsProofs ------------------------------
(***************************************************************************)
(* Proofs about Tabs, for any workspaces, pages and numbers of tabs,       *)
(* entries and acts: a user with a workspace never faces an empty window,  *)
(* the buttons offer no move that the router cannot make, tabs have ids    *)
(* and routers of their own, and a navigation ends where it was to lead.   *)
(***************************************************************************)
EXTENDS Tabs, SequenceTheorems, FiniteSetTheorems, TLAPS

(* The buttons.  What the store shows is what the effect counted, so both  *)
(* must be honest about the router for the next step to leave them so; and *)
(* the effect's place must be one of the entries it knows of.              *)
Honest(index, length, t) == index < t.at /\ length - index <= Len(t.stack) - t.at + 1

IsSeq(s) == Len(s) \in Nat /\ s = [i \in 1..Len(s) |-> s[i]]

(* Where a router can be. *)
Where == Paths \cup {Root}

Counted(t) ==
  /\ DOMAIN t = {"id", "path", "stack", "at", "historyIndex", "historyLength",
                 "indexRef", "lengthRef", "late"}
  /\ IsSeq(t.stack) /\ t.at \in 1..Len(t.stack)
  /\ \A k \in 1..Len(t.stack) : t.stack[k] \in Where
  /\ t.indexRef \in Nat /\ t.lengthRef \in Nat /\ t.indexRef < t.lengthRef
  /\ t.late \in BOOLEAN
  /\ ~t.late => Honest(t.indexRef, t.lengthRef, t)

SoundTab(t) ==
  /\ Counted(t)
  /\ t.historyIndex \in Nat /\ t.historyLength \in Nat /\ t.historyIndex < t.historyLength
  /\ t.path \in Where
  /\ ~t.late => Honest(t.historyIndex, t.historyLength, t) /\ t.path = Here(t)

SoundTabs(s) == IsSeq(s) /\ \A i \in DOMAIN s : SoundTab(s[i])

SoundGroups(gs) ==
  \A w \in DOMAIN gs : DOMAIN gs[w] = {"tabs", "activeTabId"} /\ SoundTabs(gs[w].tabs)

HistoryInv == SoundGroups(byWorkspace)

-----------------------------------------------------------------------------
(* Sequences.                                                              *)

LEMMA SeqOfTabs ==
  ASSUME NEW s, SoundTabs(s)
  PROVE  /\ s \in Seq(ToSet(s)) /\ \A t \in ToSet(s) : SoundTab(t)
         /\ DOMAIN s = 1..Len(s)
<1>1. DOMAIN s = 1..Len(s) /\ Len(s) \in Nat
  BY DEF SoundTabs, IsSeq
<1>2. s \in [1..Len(s) -> ToSet(s)]
  BY <1>1 DEF SoundTabs, IsSeq, ToSet
<1> QED BY <1>1, <1>2, SeqDef DEF SoundTabs, ToSet

LEMMA TabsOfSeq ==
  ASSUME NEW S, \A t \in S : SoundTab(t), NEW s \in Seq(S)
  PROVE  SoundTabs(s)
BY LenProperties, ElementOfSeq DEF SoundTabs, IsSeq

LEMMA OneTab == ASSUME NEW t, SoundTab(t) PROVE SoundTabs(<<t>>)
<1>1. <<t>> \in Seq({t})
  OBVIOUS
<1> QED BY <1>1, TabsOfSeq

LEMMA AddedTab ==
  ASSUME NEW s, SoundTabs(s), NEW t, SoundTab(t)
  PROVE  SoundTabs(Append(s, t))
<1> DEFINE S == ToSet(s) \cup {t}
<1>1. s \in Seq(S) /\ \A u \in S : SoundTab(u)
  BY SeqOfTabs, SeqMonotonic
<1>2. Append(s, t) \in Seq(S)
  BY <1>1
<1> QED BY <1>1, <1>2, TabsOfSeq

LEMMA RemovedTab ==
  ASSUME NEW s, SoundTabs(s), NEW i \in 1..Len(s)
  PROVE  SoundTabs(RemoveAt(s, i)) /\ RemoveAt(s, i) \in Seq(ToSet(s))
<1> DEFINE S == ToSet(s)  left == SubSeq(s, 1, i - 1)  right == SubSeq(s, i + 1, Len(s))
<1>1. s \in Seq(S) /\ (\A u \in S : SoundTab(u)) /\ Len(s) \in Nat
  BY SeqOfTabs DEF SoundTabs, IsSeq
<1>2. \A j \in 1..Len(s) : s[j] \in S
  BY <1>1, ElementOfSeq
<1>3. left \in Seq(S) /\ right \in Seq(S)
  BY <1>1, <1>2, SubSeqProperties
<1>4. left \o right \in Seq(S)
  BY <1>3, ConcatProperties
<1> QED BY <1>1, <1>4, TabsOfSeq DEF RemoveAt

LEMMA MovedTab ==
  ASSUME NEW s, SoundTabs(s), NEW i \in 1..Len(s), NEW j \in 1..Len(s)
  PROVE  SoundTabs(InsertAt(RemoveAt(s, i), j, s[i]))
<1> DEFINE S == ToSet(s)  r == RemoveAt(s, i)
           left == SubSeq(r, 1, j - 1)  right == SubSeq(r, j, Len(r))
<1>1. s \in Seq(S) /\ (\A u \in S : SoundTab(u)) /\ s[i] \in S
  BY SeqOfTabs, ElementOfSeq
<1>2. r \in Seq(S) /\ Len(s) \in Nat
  BY RemovedTab DEF SoundTabs, IsSeq
<1>3. Len(r) = Len(s) - 1
  <2>1. \A k \in 1..Len(s) : s[k] \in S
    BY <1>1, ElementOfSeq
  <2> DEFINE a == SubSeq(s, 1, i - 1)  b == SubSeq(s, i + 1, Len(s))
  <2>2. a \in Seq(S) /\ Len(a) = i - 1
    BY <1>2, <2>1, SubSeqProperties
  <2>3. b \in Seq(S) /\ Len(b) = Len(s) - i
    BY <1>2, <2>1, SubSeqProperties
  <2>4. r = a \o b
    BY DEF RemoveAt
  <2> HIDE DEF a, b, r, S
  <2>5. Len(a \o b) = Len(a) + Len(b)
    BY <2>2, <2>3, ConcatProperties
  <2> QED BY <1>2, <2>2, <2>3, <2>4, <2>5
<1>4. \A k \in 1..Len(r) : r[k] \in S
  BY <1>2, ElementOfSeq
<1>5. left \in Seq(S) /\ right \in Seq(S)
  BY <1>2, <1>3, <1>4, SubSeqProperties
<1>6. (left \o <<s[i]>>) \o right \in Seq(S)
  BY <1>1, <1>5, ConcatProperties
<1> QED BY <1>1, <1>6, TabsOfSeq DEF InsertAt

LEMMA ReplacedTab ==
  ASSUME NEW s, SoundTabs(s), NEW i, NEW t, i \in DOMAIN s => SoundTab(t)
  PROVE  SoundTabs([s EXCEPT ![i] = t])
<1> DEFINE r == [s EXCEPT ![i] = t]
<1>1. DOMAIN r = 1..Len(s) /\ Len(s) \in Nat /\ DOMAIN s = 1..Len(s)
  BY DEF SoundTabs, IsSeq
<1>2. \A k \in DOMAIN s : r[k] = IF k = i THEN t ELSE s[k]
  OBVIOUS
<1>3. \A k \in DOMAIN r : SoundTab(r[k])
  BY <1>1, <1>2 DEF SoundTabs
<1>4. r \in Seq(ToSet(r))
  <2>1. r \in [1..Len(s) -> ToSet(r)]
    BY <1>1 DEF ToSet
  <2> QED BY <1>1, <2>1, SeqDef
<1> HIDE DEF r
<1>5. \A u \in ToSet(r) : SoundTab(u)
  BY <1>3 DEF ToSet
<1> QED BY <1>4, <1>5, TabsOfSeq DEF r

LEMMA LeastNat ==
  ASSUME NEW T, T \subseteq Nat, T # {}
  PROVE  \E x \in T : \A y \in T : x <= y
<1> DEFINE Below == {0..x : x \in T}
<1>1. Below \subseteq FiniteSubsetsOf(Nat) /\ Below # {}
  <2>1. ASSUME NEW x \in T PROVE 0..x \in FiniteSubsetsOf(Nat)
    <3>1. 0 \in Int /\ x \in Int /\ 0..x \subseteq Nat
      OBVIOUS
    <3>2. IsFiniteSet(0..x)
      BY <3>1, FS_Interval
    <3> QED BY <3>1, <3>2 DEF FiniteSubsetsOf
  <2> QED BY <2>1
<1>2. PICK S \in Below : \A R \in Below : ~(<<R, S>> \in StrictSubsetOrdering(Nat))
  <2> HIDE DEF Below
  <2> QED BY <1>1, FS_StrictSubsetOrderingWellFounded, WFMin
<1>3. PICK x \in T : S = 0..x
  OBVIOUS
<1>4. ASSUME NEW y \in T, y < x PROVE FALSE
  <2>1. 0..y \subseteq 0..x /\ 0..x \subseteq Nat /\ x \in 0..x /\ x \notin 0..y
    BY <1>4
  <2>2. <<0..y, 0..x>> \in StrictSubsetOrdering(Nat)
    BY <2>1 DEF StrictSubsetOrdering
  <2> QED BY <1>2, <1>3, <2>2
<1> QED BY <1>4

(* The k-th of some places of a sequence, counted from its beginning.      *)
LEMMA KthPlace ==
  ASSUME NEW n \in Nat, NEW kept, kept \subseteq 1..n, NEW k \in 1..Cardinality(kept)
  PROVE  \E i \in kept : Cardinality(kept \cap 1..i) = k
<1> DEFINE c(i) == Cardinality(kept \cap 1..i)
           T == {i \in Nat : c(i) >= k}
<1>1. IsFiniteSet(kept) /\ Cardinality(kept) \in Nat
  <2>1. IsFiniteSet(1..n)
    BY FS_Interval
  <2> QED BY <2>1, FS_Subset, FS_CardinalityType
<1>2. \A i \in Nat : IsFiniteSet(kept \cap 1..i) /\ c(i) \in Nat
  BY <1>1, FS_Intersection, FS_CardinalityType
<1>3. n \in T
  <2>1. kept \cap 1..n = kept
    OBVIOUS
  <2> QED BY <1>1, <2>1
<1>4. PICK i \in T : \A j \in T : i <= j
  <2>1. T \subseteq Nat /\ T # {}
    BY <1>3
  <2> HIDE DEF T
  <2> QED BY <2>1, LeastNat
<1>5. c(0) = 0
  <2>1. kept \cap 1..0 = {}
    OBVIOUS
  <2> QED BY <2>1, FS_EmptySet
<1>6. i \in Nat /\ i # 0 /\ c(i) >= k
  BY <1>4, <1>5
<1>7. i - 1 \in Nat /\ c(i - 1) < k
  <2>1. i - 1 \in Nat /\ i - 1 \notin T
    BY <1>4, <1>6
  <2> QED BY <1>1, <1>2, <2>1
<1>8. CASE i \in kept
  <2>1. kept \cap 1..i = (kept \cap 1..(i - 1)) \cup {i} /\ i \notin kept \cap 1..(i - 1)
    BY <1>6, <1>8
  <2>2. c(i) = c(i - 1) + 1
    BY <1>2, <1>7, <2>1, FS_AddElement
  <2>3. c(i - 1) \in Nat /\ c(i) \in Nat
    BY <1>2, <1>6, <1>7
  <2> HIDE DEF c
  <2>4. c(i) = k
    BY <1>6, <1>7, <2>2, <2>3
  <2> QED BY <1>8, <2>4 DEF c
<1>9. CASE i \notin kept
  <2>1. kept \cap 1..i = kept \cap 1..(i - 1)
    BY <1>6, <1>9
  <2> QED BY <1>1, <1>2, <1>6, <1>7, <2>1
<1> QED BY <1>8, <1>9

-----------------------------------------------------------------------------
(* Tabs and routers.                                                       *)

LEMMA PathsAreSomewhere ==
  /\ Paths \subseteq Where /\ Root \in Where
  /\ \A w \in Slugs : Default(w) \in Paths
BY TabsAssumption DEF Where, Paths, Default

LEMMA NewTabSound == ASSUME NEW id, NEW p \in Where PROVE SoundTab(Tab(id, p))
BY DEF Tab, SoundTab, Counted, Honest, IsSeq, Here

LEMMA SettledTabSound ==
  ASSUME NEW t, SoundTab(t), NEW mounted, NEW visible
  PROVE  SoundTab(SettledTab(t, mounted, visible))
<1>1. SoundTab([t EXCEPT !.indexRef = 0, !.lengthRef = 1])
  BY DEF SoundTab, Counted, Honest, IsSeq, Here
<1>2. SoundTab([t EXCEPT !.path = Here(t)])
  BY DEF SoundTab, Counted, Honest, Here
<1> QED BY <1>1, <1>2 DEF SettledTab

LEMMA HeardSound == ASSUME NEW t, Counted(t) PROVE SoundTab(Heard(t))
BY DEF Heard, SoundTab, Counted, Honest, Here

LEMMA PushedSound ==
  ASSUME NEW t, SoundTab(t), NEW p \in Where
  PROVE  /\ Len(Pushed(t, p).stack) = t.at + 1 /\ Pushed(t, p).at = t.at + 1
         /\ IsSeq(Pushed(t, p).stack) /\ Here(Pushed(t, p)) = p
         /\ \A k \in 1..(t.at + 1) : Pushed(t, p).stack[k] \in Where
         /\ DOMAIN Pushed(t, p) = DOMAIN t
         /\ Pushed(t, p).late = t.late
         /\ \A f \in {"historyIndex", "historyLength", "indexRef", "lengthRef", "path", "id"} :
              Pushed(t, p)[f] = t[f]
<1> DEFINE a == SubSeq(t.stack, 1, t.at)
<1>1. IsSeq(t.stack) /\ t.at \in 1..Len(t.stack)
  BY DEF SoundTab, Counted
<1>2. \A k \in 1..t.at : t.stack[k] \in Where
  BY <1>1 DEF IsSeq, SoundTab, Counted
<1>3. a \in Seq(Where) /\ Len(a) = t.at
  BY <1>1, <1>2, SubSeqProperties DEF IsSeq
<1>4. /\ Append(a, p) \in Seq(Where) /\ Len(Append(a, p)) = t.at + 1
      /\ Append(a, p)[t.at + 1] = p
      /\ \A k \in 1..(t.at + 1) : Append(a, p)[k] \in Where
  BY <1>3, AppendProperties, ElementOfSeq
<1>5. IsSeq(Append(a, p))
  BY <1>4, LenProperties DEF IsSeq
<1>6. Pushed(t, p).stack = Append(a, p) /\ Pushed(t, p).at = t.at + 1
  BY DEF Pushed, SoundTab, Counted
<1>7. /\ DOMAIN Pushed(t, p) = DOMAIN t /\ Pushed(t, p).late = t.late
      /\ \A f \in {"historyIndex", "historyLength", "indexRef", "lengthRef", "path", "id"} :
           Pushed(t, p)[f] = t[f]
  BY DEF Pushed
<1> QED BY <1>4, <1>5, <1>6, <1>7 DEF Here

LEMMA AfterPushSound ==
  ASSUME NEW t, SoundTab(t), NEW p \in Where
  PROVE  SoundTab(AfterPush(t, p))
<1> DEFINE u == Pushed(t, p)  v == [u EXCEPT !.indexRef = @ + 1, !.lengthRef = t.indexRef + 2]
<1>1. /\ DOMAIN u = {"id", "path", "stack", "at", "historyIndex", "historyLength",
                     "indexRef", "lengthRef", "late"}
      /\ u.late = t.late /\ u.indexRef = t.indexRef /\ IsSeq(u.stack)
      /\ Len(u.stack) = t.at + 1 /\ u.at = t.at + 1
      /\ \A k \in 1..(t.at + 1) : u.stack[k] \in Where
  BY PushedSound DEF SoundTab, Counted
<1>2. t.at \in Nat /\ t.indexRef \in Nat /\ t.late \in BOOLEAN /\ (~t.late => t.indexRef < t.at)
  BY DEF SoundTab, Counted, Honest, IsSeq
<1> HIDE DEF u
<1>3. Counted(v)
  BY <1>1, <1>2 DEF Counted, Honest, IsSeq
<1> QED BY <1>3, HeardSound DEF AfterPush, u

LEMMA LatePushSound ==
  ASSUME NEW t, SoundTab(t), NEW p \in Where
  PROVE  SoundTab([Pushed(t, p) EXCEPT !.late = TRUE])
<1> DEFINE u == Pushed(t, p)
<1>1. /\ DOMAIN u = {"id", "path", "stack", "at", "historyIndex", "historyLength",
                     "indexRef", "lengthRef", "late"}
      /\ u.indexRef = t.indexRef /\ u.lengthRef = t.lengthRef
      /\ u.historyIndex = t.historyIndex /\ u.historyLength = t.historyLength
      /\ IsSeq(u.stack) /\ Len(u.stack) = t.at + 1 /\ u.at = t.at + 1
      /\ u.path = t.path /\ \A k \in 1..(t.at + 1) : u.stack[k] \in Where
  BY PushedSound DEF SoundTab, Counted
<1>2. t.at \in Nat
  BY DEF SoundTab, Counted, IsSeq
<1>3. /\ t.indexRef \in Nat /\ t.lengthRef \in Nat /\ t.indexRef < t.lengthRef
      /\ t.historyIndex \in Nat /\ t.historyLength \in Nat /\ t.historyIndex < t.historyLength
      /\ t.path \in Where
  BY DEF SoundTab, Counted
<1> HIDE DEF u
<1>4. SoundTab([u EXCEPT !.late = TRUE])
  BY <1>1, <1>2, <1>3 DEF SoundTab, Counted
<1> QED BY <1>4 DEF u

LEMMA AfterReplaceSound ==
  ASSUME NEW t, SoundTab(t), NEW p \in Where
  PROVE  SoundTab(AfterReplace(t, p))
<1> DEFINE r == [t.stack EXCEPT ![t.at] = p]  v == [t EXCEPT !.stack[t.at] = p]
<1>1. IsSeq(r) /\ Len(r) = Len(t.stack) /\ \A k \in 1..Len(t.stack) : r[k] \in Where
  BY DEF SoundTab, Counted, IsSeq
<1>2. v.stack = r /\ DOMAIN v = DOMAIN t
      /\ \A f \in DOMAIN t \ {"stack"} : v[f] = t[f]
  BY DEF SoundTab, Counted
<1> HIDE DEF r, v
<1>3. Counted(v)
  BY <1>1, <1>2 DEF SoundTab, Counted, Honest
<1> QED BY <1>3, HeardSound DEF AfterReplace, v

LEMMA AfterPopSound ==
  ASSUME NEW t, SoundTab(t), NEW forward \in BOOLEAN
  PROVE  SoundTab(AfterPop(t, forward))
<1>1. Counted([t EXCEPT !.at = IF @ < Len(t.stack) THEN @ + 1 ELSE @,
                        !.indexRef = IF @ + 1 < t.lengthRef THEN @ + 1 ELSE t.lengthRef - 1])
  <2> DEFINE a == IF t.at < Len(t.stack) THEN t.at + 1 ELSE t.at
             i == IF t.indexRef + 1 < t.lengthRef THEN t.indexRef + 1 ELSE t.lengthRef - 1
             v == [t EXCEPT !.at = a, !.indexRef = i]
  <2>1. /\ t.at \in 1..Len(t.stack) /\ Len(t.stack) \in Nat
        /\ t.indexRef \in Nat /\ t.lengthRef \in Nat /\ t.indexRef < t.lengthRef
    BY DEF SoundTab, Counted, IsSeq
  <2>2. a \in 1..Len(t.stack) /\ i \in Nat /\ i < t.lengthRef
    BY <2>1
  <2>3. ~t.late => i < a /\ t.lengthRef - i <= Len(t.stack) - a + 1
    BY <2>1 DEF SoundTab, Counted, Honest
  <2> HIDE DEF a, i
  <2>4. Counted(v)
    BY <2>2, <2>3 DEF SoundTab, Counted, Honest
  <2> QED BY <2>4 DEF a, i
<1>2. Counted([t EXCEPT !.at = IF @ > 1 THEN @ - 1 ELSE @,
                        !.indexRef = IF @ > 0 THEN @ - 1 ELSE @])
  BY DEF SoundTab, Counted, Honest, IsSeq
<1> QED BY <1>1, <1>2, HeardSound DEF AfterPop

-----------------------------------------------------------------------------
(* What a step of the store does: which workspace is active then, which    *)
(* groups there are, and that sound tabs stay sound.                       *)
Becomes(a, D) ==
  activeWorkspaceSlug' = a /\ Groups' = D /\ (HistoryInv => HistoryInv')

LEMMA StoreBecomes ==
  ASSUME NEW a, NEW gs, Store(a, gs), HistoryInv => SoundGroups(gs)
  PROVE  Becomes(a, DOMAIN gs)
<1>1. byWorkspace' = Settled(a, gs) /\ activeWorkspaceSlug' = a
  BY DEF Store
<1>2. Groups' = DOMAIN gs
  BY <1>1 DEF Settled, Groups
<1>3. ASSUME SoundGroups(gs), NEW w \in DOMAIN gs
      PROVE  /\ DOMAIN Settled(a, gs)[w] = {"tabs", "activeTabId"}
             /\ SoundTabs(Settled(a, gs)[w].tabs)
  <2> DEFINE old == gs[w].tabs
             new == [i \in DOMAIN old |->
                       SettledTab(old[i], w = a, old[i].id = gs[w].activeTabId)]
  <2>1. DOMAIN gs[w] = {"tabs", "activeTabId"} /\ SoundTabs(old)
    BY <1>3 DEF SoundGroups
  <2>2. Settled(a, gs)[w] = [gs[w] EXCEPT !.tabs = new]
    BY <1>3 DEF Settled
  <2>3. Settled(a, gs)[w].tabs = new /\ DOMAIN Settled(a, gs)[w] = {"tabs", "activeTabId"}
    BY <2>1, <2>2
  <2>4. \A i \in DOMAIN old : SoundTab(new[i])
    BY <2>1, SettledTabSound DEF SoundTabs
  <2>5. DOMAIN old = 1..Len(old) /\ Len(old) \in Nat
    BY <2>1 DEF SoundTabs, IsSeq
  <2>6. new \in Seq(ToSet(new))
    <3>1. new \in [1..Len(old) -> ToSet(new)]
      BY <2>5 DEF ToSet
    <3> QED BY <2>5, <3>1, SeqDef
  <2>7. \A t \in ToSet(new) : SoundTab(t)
    BY <2>4 DEF ToSet
  <2> HIDE DEF new
  <2>8. SoundTabs(new)
    BY <2>6, <2>7, TabsOfSeq
  <2> QED BY <2>3, <2>8
<1>4. DOMAIN Settled(a, gs) = DOMAIN gs
  BY DEF Settled
<1>5. HistoryInv => SoundGroups(Settled(a, gs))
  BY <1>3, <1>4 DEF SoundGroups
<1> QED BY <1>1, <1>2, <1>5 DEF Becomes, HistoryInv, SoundGroups

(* The forms the store's updates take.                                     *)
LEMMA ShowSound ==
  ASSUME NEW gs, SoundGroups(gs), NEW w, NEW id
  PROVE  SoundGroups([gs EXCEPT ![w].activeTabId = id])
BY DEF SoundGroups

LEMMA GroupSound ==
  ASSUME NEW gs, SoundGroups(gs), NEW w, NEW s, SoundTabs(s), NEW id
  PROVE  /\ SoundGroups([gs EXCEPT ![w] = [tabs |-> s, activeTabId |-> id]])
         /\ SoundGroups(With(gs, w, [tabs |-> s, activeTabId |-> id]))
BY DEF SoundGroups, With

LEMMA PutSound ==
  ASSUME HistoryInv, NEW w, NEW i, NEW t,
         w \in Groups /\ i \in DOMAIN byWorkspace[w].tabs => SoundTab(t)
  PROVE  SoundGroups(Put(w, i, t))
<1> DEFINE new == [byWorkspace[w].tabs EXCEPT ![i] = t]
<1>1. w \in Groups => SoundTabs(new)
  BY ReplacedTab DEF HistoryInv, SoundGroups, Groups
<1>2. DOMAIN Put(w, i, t) = Groups
  BY DEF Put, Groups
<1>3. \A x \in Groups : Put(w, i, t)[x] = IF x = w THEN [byWorkspace[w] EXCEPT !.tabs = new]
                                                  ELSE byWorkspace[x]
  BY DEF Put, Groups
<1> HIDE DEF new
<1> QED BY <1>1, <1>2, <1>3 DEF HistoryInv, SoundGroups, Groups

LEMMA KeptSound ==
  ASSUME HistoryInv, NEW D
  PROVE  SoundGroups([w \in Groups \cap D |-> byWorkspace[w]])
BY DEF HistoryInv, SoundGroups, Groups

LEMMA EmptySound == SoundGroups(<<>>) /\ DOMAIN <<>> = {}
BY DEF SoundGroups

-----------------------------------------------------------------------------
(* The operations.                                                         *)

LEMMA SwitchBecomes ==
  ASSUME NEW w, NEW p \in Where, SwitchWorkspace(w, p)
  PROVE  Becomes(w, Groups \cup {w})
<1> DEFINE t == Tab(Fresh(byWorkspace), p)  g == byWorkspace[w]
           first == With(byWorkspace, w, [tabs |-> <<t>>, activeTabId |-> t.id])
           found == [byWorkspace EXCEPT ![w].activeTabId = g.tabs[Match(g, p)].id]
           added == [byWorkspace EXCEPT ![w] = [tabs |-> Append(g.tabs, t), activeTabId |-> t.id]]
<1>1. SoundTab(t)
  BY NewTabSound
<1> HIDE DEF t
<1>2. CASE w \notin Groups
  <2>1. Store(w, first)
    BY <1>2 DEF SwitchWorkspace, t
  <2>2. DOMAIN first = Groups \cup {w}
    BY DEF With, Groups
  <2>3. HistoryInv => SoundGroups(first)
    BY <1>1, OneTab, GroupSound DEF HistoryInv
  <2> HIDE DEF first
  <2> QED BY <2>1, <2>2, <2>3, StoreBecomes
<1>3. CASE w \in Groups
  <2>1. Store(w, found) \/ Store(w, added)
    BY <1>3 DEF SwitchWorkspace, t
  <2>2. DOMAIN found = Groups \cup {w} /\ DOMAIN added = Groups \cup {w}
    BY <1>3 DEF Groups
  <2>3. HistoryInv => SoundGroups(found)
    BY ShowSound DEF HistoryInv
  <2>4. HistoryInv => SoundTabs(g.tabs)
    BY <1>3 DEF HistoryInv, SoundGroups, Groups
  <2>5. HistoryInv => SoundGroups(added)
    BY <1>1, <2>4, AddedTab, GroupSound DEF HistoryInv
  <2> HIDE DEF found, added
  <2> QED BY <2>1, <2>2, <2>3, <2>5, StoreBecomes
<1> QED BY <1>2, <1>3

(* A group that is not there cannot be changed: nothing is asked of it.    *)
LEMMA AddTabBecomes ==
  ASSUME NEW p \in Where, AddTab(p)
  PROVE  Becomes(activeWorkspaceSlug, Groups)
<1> DEFINE w == activeWorkspaceSlug  t == Tab(Fresh(byWorkspace), p)
           added == [byWorkspace EXCEPT ![w] =
                       [tabs |-> Append(byWorkspace[w].tabs, t), activeTabId |-> t.id]]
<1>1. SoundTab(t)
  BY NewTabSound
<1>2. Store(w, added)
  BY DEF AddTab
<1>3. DOMAIN added = Groups
  BY DEF Groups
<1> HIDE DEF t
<1>4. HistoryInv => SoundGroups(added)
  <2>1. CASE w \in Groups
    <3>1. HistoryInv => SoundTabs(byWorkspace[w].tabs)
      BY <2>1 DEF HistoryInv, SoundGroups, Groups
    <3> QED BY <1>1, <3>1, AddedTab, GroupSound DEF HistoryInv
  <2>2. CASE w \notin Groups
    BY <2>2 DEF HistoryInv, SoundGroups, Groups
  <2> QED BY <2>1, <2>2
<1> HIDE DEF added, w
<1>5. Becomes(w, Groups)
  BY <1>2, <1>3, <1>4, StoreBecomes
<1> QED BY <1>5 DEF w

LEMMA OpenTabBecomes ==
  ASSUME NEW p \in Where, OpenTab(p)
  PROVE  Becomes(activeWorkspaceSlug, Groups)
<1> DEFINE w == activeWorkspaceSlug  g == byWorkspace[w]
           found == [byWorkspace EXCEPT ![w].activeTabId = g.tabs[Match(g, p)].id]
<1>1. Store(w, found) \/ AddTab(p)
  BY DEF OpenTab
<1>2. DOMAIN found = Groups
  BY DEF Groups
<1>3. HistoryInv => SoundGroups(found)
  BY ShowSound DEF HistoryInv
<1> HIDE DEF found
<1> QED BY <1>1, <1>2, <1>3, StoreBecomes, AddTabBecomes

LEMMA ValidateBecomes ==
  ASSUME NEW valid, ValidateWorkspaceSlugs(valid)
  PROVE  \E a : /\ Becomes(a, Groups \cap valid)
                /\ \/ a = activeWorkspaceSlug /\ a \in valid \cup {None}
                   \/ a \in Groups \cap valid
                   \/ a = None /\ Groups \cap valid = {}
<1> DEFINE kept == [w \in Groups \cap valid |-> byWorkspace[w]]
<1>1. DOMAIN kept = Groups \cap valid /\ (HistoryInv => SoundGroups(kept))
  BY KeptSound
<1>2. PICK a : /\ Store(a, kept)
               /\ \/ a = activeWorkspaceSlug /\ a \in valid \cup {None}
                  \/ a \in DOMAIN kept
                  \/ a = None /\ kept = <<>>
  BY DEF ValidateWorkspaceSlugs
<1>3. kept = <<>> => Groups \cap valid = {}
  BY <1>1, EmptySound
<1> HIDE DEF kept
<1>4. Becomes(a, Groups \cap valid)
  BY <1>1, <1>2, StoreBecomes
<1> QED BY <1>1, <1>2, <1>3, <1>4

LEMMA ResetBecomes == Reset => Becomes(None, {})
BY StoreBecomes, EmptySound DEF Reset

(* What the active tab's router does.                                      *)
LEMMA RouterBecomes ==
  ASSUME NEW t, SoundTab(ActiveTab) => SoundTab(t), SetActiveRouter(t)
  PROVE  Becomes(activeWorkspaceSlug, Groups)
<1> DEFINE w == activeWorkspaceSlug  i == At(byWorkspace[w], byWorkspace[w].activeTabId)
<1>1. ActiveTab = byWorkspace[w].tabs[i]
  BY DEF ActiveTab, Shown
<1>2. Store(w, Put(w, i, t))
  BY DEF SetActiveRouter
<1> HIDE DEF w, i
<1>3. ASSUME HistoryInv, w \in Groups, i \in DOMAIN byWorkspace[w].tabs
      PROVE  SoundTab(t)
  BY <1>1, <1>3 DEF HistoryInv, SoundGroups, SoundTabs, Groups
<1>4. HistoryInv => SoundGroups(Put(w, i, t))
  BY <1>3, PutSound
<1>5. DOMAIN Put(w, i, t) = Groups
  BY DEF Put, Groups
<1>6. Becomes(w, Groups)
  BY <1>2, <1>4, <1>5, StoreBecomes
<1> QED BY <1>6 DEF w

LEMMA LatePushBecomes ==
  ASSUME NEW w \in Groups, NEW i \in DOMAIN byWorkspace[w].tabs, NEW p \in Where, LatePush(w, i, p)
  PROVE  Becomes(w, Groups)
<1>1. CASE SwitchWorkspace(w, p)
  BY <1>1, SwitchBecomes
<1>2. CASE Store(w, Put(w, i, [Pushed(byWorkspace[w].tabs[i], p) EXCEPT !.late = TRUE]))
  <2> DEFINE t == [Pushed(byWorkspace[w].tabs[i], p) EXCEPT !.late = TRUE]
  <2>1. HistoryInv => SoundTab(byWorkspace[w].tabs[i])
    BY DEF HistoryInv, SoundGroups, SoundTabs, Groups
  <2>2. HistoryInv => SoundTab(t)
    BY <2>1, LatePushSound
  <2>3. Store(w, Put(w, i, t))
    BY <1>2
  <2> HIDE DEF t
  <2>4. DOMAIN Put(w, i, t) = Groups /\ (HistoryInv => SoundGroups(Put(w, i, t)))
    BY <2>2, PutSound DEF Put, Groups
  <2> QED BY <2>3, <2>4, StoreBecomes
<1> QED BY <1>1, <1>2 DEF LatePush

LEMMA CloseBecomes ==
  ASSUME activeWorkspaceSlug \in Slugs, NEW i, Close(i)
  PROVE  Becomes(activeWorkspaceSlug, Groups)
<1> DEFINE w == activeWorkspaceSlug  g == byWorkspace[w]  s == g.tabs
           fresh == Tab(CHOOSE n \in 0..MaxTabs : n \notin Ids(byWorkspace), Default(w))
           next == IF g.activeTabId = s[i].id THEN Neighbour(g, i) ELSE g.activeTabId
           renewed == [byWorkspace EXCEPT ![w] = [tabs |-> <<fresh>>, activeTabId |-> fresh.id]]
           rest == [byWorkspace EXCEPT ![w] = [tabs |-> RemoveAt(s, i), activeTabId |-> next]]
<1>1. i \in DOMAIN s /\ (Store(w, renewed) \/ Store(w, rest))
  BY DEF Close
<1>2. SoundTabs(<<fresh>>)
  <2>1. Default(w) \in Where
    BY PathsAreSomewhere
  <2> HIDE DEF w
  <2> QED BY <2>1, NewTabSound, OneTab
<1> HIDE DEF fresh, next
<1>3. HistoryInv => SoundGroups(renewed)
  BY <1>2, GroupSound DEF HistoryInv
<1>4. HistoryInv => SoundGroups(rest)
  <2>1. CASE w \in Groups
    <3>1. HistoryInv => SoundTabs(s)
      BY <2>1 DEF HistoryInv, SoundGroups, Groups
    <3>2. HistoryInv => SoundTabs(RemoveAt(s, i))
      BY <1>1, <3>1, SeqOfTabs, RemovedTab
    <3> QED BY <3>2, GroupSound DEF HistoryInv
  <2>2. CASE w \notin Groups
    BY <2>2 DEF HistoryInv, SoundGroups, Groups
  <2> QED BY <2>1, <2>2
<1>5. DOMAIN renewed = Groups /\ DOMAIN rest = Groups
  BY DEF Groups
<1> HIDE DEF renewed, rest, w
<1>6. Becomes(w, Groups)
  BY <1>1, <1>3, <1>4, <1>5, StoreBecomes
<1> QED BY <1>6 DEF w

LEMMA MoveBecomes ==
  ASSUME NEW i, NEW j, Move(i, j)
  PROVE  Becomes(activeWorkspaceSlug, Groups)
<1> DEFINE w == activeWorkspaceSlug  s == byWorkspace[w].tabs
           moved == InsertAt(RemoveAt(s, i), j, s[i])
           gs == [byWorkspace EXCEPT ![w].tabs = moved]
<1>1. Store(w, gs) /\ {i, j} \subseteq DOMAIN s
  BY DEF Move
<1>2. ASSUME HistoryInv, w \in Groups PROVE SoundTabs(moved)
  <2>1. SoundTabs(s)
    BY <1>2 DEF HistoryInv, SoundGroups, Groups
  <2>2. i \in 1..Len(s) /\ j \in 1..Len(s)
    BY <1>1, <2>1, SeqOfTabs
  <2> QED BY <2>1, <2>2, MovedTab
<1> HIDE DEF moved
<1>3. DOMAIN gs = Groups /\ (HistoryInv => SoundGroups(gs))
  BY <1>2 DEF HistoryInv, SoundGroups, Groups
<1> HIDE DEF gs, w
<1>4. Becomes(w, Groups)
  BY <1>1, <1>3, StoreBecomes
<1> QED BY <1>4 DEF w

LEMMA SelectBecomes ==
  ASSUME NEW i, Select(i)
  PROVE  Becomes(activeWorkspaceSlug, Groups)
<1> DEFINE w == activeWorkspaceSlug
           gs == [byWorkspace EXCEPT ![w].activeTabId = byWorkspace[w].tabs[i].id]
<1>1. Store(w, gs)
  BY DEF Select
<1>2. DOMAIN gs = Groups /\ (HistoryInv => SoundGroups(gs))
  BY ShowSound DEF HistoryInv, Groups
<1> HIDE DEF gs, w
<1>3. Becomes(w, Groups)
  BY <1>1, <1>2, StoreBecomes
<1> QED BY <1>3 DEF w

LEMMA ChooseFirstBecomes ==
  ASSUME NEW valid \in SUBSET Slugs, ChooseFirst(valid)
  PROVE  \E w \in valid : Becomes(w, {w})
<1>1. PICK w \in valid :
        LET t == Tab(Fresh(<<>>), Default(w)) IN
          Store(w, With(<<>>, w, [tabs |-> <<t>>, activeTabId |-> t.id]))
  BY DEF ChooseFirst
<1> DEFINE t == Tab(Fresh(<<>>), Default(w))
           gs == With(<<>>, w, [tabs |-> <<t>>, activeTabId |-> t.id])
<1>2. SoundTabs(<<t>>)
  BY PathsAreSomewhere, NewTabSound, OneTab
<1> HIDE DEF t
<1>3. DOMAIN gs = {w} /\ SoundGroups(gs)
  <2>1. DOMAIN gs = {w}
    BY EmptySound DEF With
  <2>2. SoundGroups(gs)
    BY <1>2, EmptySound, GroupSound
  <2> QED BY <2>1, <2>2
<1>4. Store(w, gs)
  BY <1>1 DEF t
<1> HIDE DEF gs
<1> QED BY <1>3, <1>4, StoreBecomes

(* A group that is read back has a tab for each that is kept, with its id  *)
(* and its path, in their order.                                           *)
LEMMA ReopenedTabs ==
  ASSUME HistoryInv, NEW w \in Groups
  PROVE  \E n \in Nat : \E f :
           /\ Reopened(w) = [k \in 1..n |-> Tab(byWorkspace[w].tabs[f[k]].id, byWorkspace[w].tabs[f[k]].path)]
           /\ f \in [1..n -> DOMAIN byWorkspace[w].tabs]
           /\ \A k, m \in 1..n : f[k] = f[m] => k = m
<1> DEFINE s == byWorkspace[w].tabs  kept == {i \in DOMAIN s : s[i].path.ws = w}
           place(k) == CHOOSE i \in kept : Cardinality(kept \cap 1..i) = k
           n == Cardinality(kept)
           f == [k \in 1..n |-> place(k)]
<1>1. DOMAIN s = 1..Len(s) /\ Len(s) \in Nat
  BY DEF HistoryInv, SoundGroups, SoundTabs, IsSeq, Groups
<1>2. kept \subseteq 1..Len(s)
  BY <1>1
<1>3. n \in Nat
  <2>1. IsFiniteSet(1..Len(s))
    BY <1>1, FS_Interval
  <2> QED BY <1>2, <2>1, FS_Subset, FS_CardinalityType
<1>4. Reopened(w) = [k \in 1..n |-> Tab(s[place(k)].id, s[place(k)].path)]
  BY DEF Reopened
<1> HIDE DEF kept
<1>5. \A k \in 1..n : place(k) \in kept /\ Cardinality(kept \cap 1..place(k)) = k
  BY <1>1, <1>2, KthPlace
<1> HIDE DEF n, place
<1>6. \A k \in 1..n : f[k] = place(k)
  OBVIOUS
<1>7. f \in [1..n -> DOMAIN s]
  BY <1>1, <1>2, <1>5
<1>8. \A k, m \in 1..n : f[k] = f[m] => k = m
  BY <1>5, <1>6
<1>9. Reopened(w) = [k \in 1..n |-> Tab(s[f[k]].id, s[f[k]].path)]
  BY <1>4, <1>6
<1> HIDE DEF f
<1> QED BY <1>3, <1>7, <1>8, <1>9

(* All of its routers are new. *)
LEMMA ReopenedSound ==
  ASSUME HistoryInv, NEW w \in Groups
  PROVE  SoundTabs(Reopened(w))
<1> DEFINE s == byWorkspace[w].tabs
<1>1. \A i \in DOMAIN s : s[i].path \in Where
  BY DEF HistoryInv, SoundGroups, SoundTabs, SoundTab, Groups
<1>2. PICK n, f :
        /\ n \in Nat
        /\ Reopened(w) = [k \in 1..n |-> Tab(s[f[k]].id, s[f[k]].path)]
        /\ f \in [1..n -> DOMAIN s]
  BY ReopenedTabs
<1> DEFINE r == Reopened(w)
<1>3. \A k \in 1..n : SoundTab(r[k])
  BY <1>1, <1>2, NewTabSound
<1>4. r \in Seq(ToSet(r))
  <2>1. n \in Nat /\ DOMAIN r = 1..n /\ r = [k \in 1..n |-> r[k]]
    BY <1>2
  <2> HIDE DEF r
  <2>2. r \in [1..n -> ToSet(r)]
    BY <2>1 DEF ToSet
  <2> QED BY <2>1, <2>2, SeqDef
<1>5. \A t \in ToSet(r) : SoundTab(t)
  BY <1>2, <1>3 DEF ToSet
<1> HIDE DEF r
<1>6. SoundTabs(r)
  BY <1>4, <1>5, TabsOfSeq
<1> QED BY <1>6 DEF r

LEMMA RestartBecomes ==
  ASSUME Restart
  PROVE  \E a, D : /\ Becomes(a, D) /\ D \subseteq Groups
                   /\ \/ a \in D
                      \/ a = None /\ D = {}
<1> DEFINE gs == [w \in {x \in Groups : Reopened(x) # <<>>} |->
                    [tabs |-> Reopened(w),
                     activeTabId |-> IF \E t \in ToSet(Reopened(w)) : t.id = byWorkspace[w].activeTabId
                                       THEN byWorkspace[w].activeTabId ELSE Reopened(w)[1].id]]
<1>1. PICK a : /\ Store(a, gs)
               /\ \/ a \in DOMAIN gs
                  \/ a = None /\ gs = <<>>
  BY DEF Restart
<1>2. DOMAIN gs \subseteq Groups
  OBVIOUS
<1>3. HistoryInv => SoundGroups(gs)
  BY ReopenedSound DEF SoundGroups
<1> HIDE DEF gs
<1>4. gs = <<>> => DOMAIN gs = {}
  BY EmptySound
<1>5. Becomes(a, DOMAIN gs)
  BY <1>1, <1>3, StoreBecomes
<1> QED BY <1>1, <1>2, <1>4, <1>5

-----------------------------------------------------------------------------
(* Every step, as far as groups and the list of workspaces go.             *)
Stays == UNCHANGED <<activeWorkspaceSlug, byWorkspace, fetched, list>>

Turns ==
  /\ UNCHANGED <<fetched, list>>
  /\ \/ Becomes(activeWorkspaceSlug, Groups)
     \/ \E a \in Slugs \cup Groups : Becomes(a, Groups \cup {a})

Validates(valid) ==
  \E a : /\ Becomes(a, Groups \cap valid)
         /\ \/ a = activeWorkspaceSlug /\ a \in valid \cup {None}
            \/ a \in Groups \cap valid
            \/ a = None /\ Groups \cap valid = {}

Leaves == list' = {} /\ Becomes(None, {})

Lists ==
  \E valid \in SUBSET Slugs :
    /\ list' = valid
    /\ \/ \E w \in valid : Becomes(w, {w})
       \/ Groups \cap valid # {} /\ Validates(valid)
       \/ valid = {} /\ Validates(valid)

Heals ==
  /\ UNCHANGED <<fetched, list>> /\ activeWorkspaceSlug # None /\ fetched /\ Validates(list)

Restarts ==
  /\ ~fetched' /\ UNCHANGED list
  /\ \E a, D : /\ Becomes(a, D) /\ D \subseteq Groups
               /\ \/ a \in D
                  \/ a = None /\ D = {}

LEMMA NavigationSteps ==
  ASSUME NEW p \in Paths, Push(p) \/ Replace(p) \/ OpenInNewTab(p) \/ OpenLink(p)
  PROVE  Turns
<1>1. p.ws \in Slugs /\ p \in Where
  BY PathsAreSomewhere DEF Paths
<1>2. SoundTab(ActiveTab) => SoundTab(AfterPush(ActiveTab, p)) /\ SoundTab(AfterReplace(ActiveTab, p))
  BY <1>1, AfterPushSound, AfterReplaceSound
<1>3. CASE Push(p)
  <2>1. SwitchWorkspace(p.ws, p) \/ SetActiveRouter(AfterPush(ActiveTab, p))
    BY <1>3 DEF Push
  <2>2. UNCHANGED <<fetched, list>>
    BY <1>3 DEF Push, session
  <2> QED BY <1>1, <1>2, <2>1, <2>2, SwitchBecomes, RouterBecomes DEF Turns
<1>4. CASE Replace(p)
  BY <1>2, <1>4, RouterBecomes DEF Replace, Turns, session
<1>5. CASE OpenInNewTab(p)
  <2>1. SwitchWorkspace(p.ws, p) \/ OpenTab(p)
    BY <1>5 DEF OpenInNewTab
  <2>2. UNCHANGED <<fetched, list>>
    BY <1>5 DEF OpenInNewTab, session
  <2> QED BY <1>1, <2>1, <2>2, SwitchBecomes, OpenTabBecomes DEF Turns
<1>6. CASE OpenLink(p)
  BY <1>1, <1>6, OpenTabBecomes DEF OpenLink, Turns, session
<1> QED BY <1>3, <1>4, <1>5, <1>6

LEMMA HistorySteps ==
  ASSUME PushNewWorkspace \/ GoBack \/ GoForward \/ PageBack
  PROVE  Turns
<1>1. UNCHANGED <<fetched, list>>
  BY DEF PushNewWorkspace, GoBack, GoForward, PageBack, session
<1>2. PICK t \in {AfterReplace(ActiveTab, Root), AfterPop(ActiveTab, TRUE), AfterPop(ActiveTab, FALSE)} :
        SetActiveRouter(t)
  BY DEF PushNewWorkspace, GoBack, GoForward, PageBack
<1>3. SoundTab(ActiveTab) => SoundTab(t)
  BY <1>2, PathsAreSomewhere, AfterReplaceSound, AfterPopSound
<1> QED BY <1>1, <1>2, <1>3, RouterBecomes DEF Turns

LEMMA SessionSteps ==
  ASSUME NEW valid \in SUBSET Slugs, SignOut \/ List(valid) \/ Heal \/ Restart
  PROVE  Leaves \/ Lists \/ Heals \/ Restarts
<1>1. CASE SignOut
  BY <1>1, ResetBecomes DEF SignOut, Leaves
<1>2. CASE List(valid)
  <2>1. /\ list' = valid
        /\ \/ ChooseFirst(valid)
           \/ Groups \cap valid # {} /\ ValidateWorkspaceSlugs(valid)
           \/ valid = {} /\ ValidateWorkspaceSlugs(valid)
    BY <1>2 DEF List
  <2>2. ChooseFirst(valid) => \E w \in valid : Becomes(w, {w})
    BY ChooseFirstBecomes
  <2>3. ValidateWorkspaceSlugs(valid) => Validates(valid)
    BY ValidateBecomes DEF Validates
  <2> QED BY <2>1, <2>2, <2>3 DEF Lists
<1>3. CASE Heal
  BY <1>3, ValidateBecomes DEF Heal, Heals, Validates, session
<1>4. CASE Restart
  <2>1. ~fetched' /\ UNCHANGED list
    BY <1>4 DEF Restart
  <2> QED BY <1>4, <2>1, RestartBecomes DEF Restarts
<1> QED BY <1>1, <1>2, <1>3, <1>4

LEMMA Steps ==
  ASSUME activeWorkspaceSlug \in Slugs \cup {None}, [Next]_vars
  PROVE  Stays \/ Turns \/ Leaves \/ Lists \/ Heals \/ Restarts
<1>1. CASE UNCHANGED vars
  BY <1>1 DEF vars, session, Stays
<1>2. CASE SignIn \/ OpenOverlay \/ CloseOverlay
  BY <1>2 DEF SignIn, OpenOverlay, CloseOverlay, session, Stays
<1>3. ASSUME NEW valid \in SUBSET Slugs, SignOut \/ List(valid) \/ Heal \/ Restart
      PROVE  Leaves \/ Lists \/ Heals \/ Restarts
  BY <1>3, SessionSteps
<1>4. ASSUME NEW p \in Paths, Push(p) \/ Replace(p) \/ OpenInNewTab(p) \/ OpenLink(p)
      PROVE  Turns
  BY <1>4, NavigationSteps
<1>5. CASE PushNewWorkspace \/ GoBack \/ GoForward \/ PageBack
  BY <1>5, HistorySteps
<1>6. ASSUME NEW w \in Groups, NEW i \in DOMAIN byWorkspace[w].tabs, NEW p \in Paths, LatePush(w, i, p)
      PROVE  Turns
  <2>1. Becomes(w, Groups) /\ Groups = Groups \cup {w}
    BY <1>6, LatePushBecomes, PathsAreSomewhere
  <2>2. UNCHANGED <<fetched, list>>
    BY <1>6 DEF LatePush, session
  <2> QED BY <2>1, <2>2 DEF Turns
<1>7. CASE NewTab
  <2>1. Default(activeWorkspaceSlug) \in Where
    BY <1>7, PathsAreSomewhere DEF NewTab, SomeTab
  <2> QED BY <1>7, <2>1, AddTabBecomes DEF NewTab, Turns, session
<1>8. ASSUME NEW i \in Places, Select(i) \/ Close(i) \/ \E j \in Places : Move(i, j)
      PROVE  Turns
  <2>1. Close(i) => activeWorkspaceSlug \in Slugs
    BY DEF Close, SomeTab
  <2>3. Becomes(activeWorkspaceSlug, Groups)
    BY <1>8, <2>1, SelectBecomes, CloseBecomes, MoveBecomes
  <2>2. UNCHANGED <<fetched, list>>
    BY <1>8 DEF Select, Close, Move, session
  <2> QED BY <2>2, <2>3 DEF Turns
<1>9. CASE Next
  <2>1. \/ SignIn \/ OpenOverlay \/ CloseOverlay
        \/ \E valid \in SUBSET Slugs : SignOut \/ List(valid) \/ Heal \/ Restart
        \/ \E p \in Paths : Push(p) \/ Replace(p) \/ OpenInNewTab(p) \/ OpenLink(p)
        \/ PushNewWorkspace \/ GoBack \/ GoForward \/ PageBack
        \/ \E w \in Groups : \E i \in DOMAIN byWorkspace[w].tabs, p \in Paths : LatePush(w, i, p)
        \/ NewTab \/ \E i \in Places : Select(i) \/ Close(i) \/ \E j \in Places : Move(i, j)
    BY <1>9 DEF Next
  <2> QED BY <2>1, <1>2, <1>3, <1>4, <1>5, <1>6, <1>7, <1>8
<1> QED BY <1>1, <1>9

-----------------------------------------------------------------------------
(* NotBlank is not inductive: the layout of a stale tab drops every group  *)
(* that is not on the list, so some group has to be on it; and without an  *)
(* active workspace there must be no group that is kept but not shown.     *)
WindowInv ==
  /\ activeWorkspaceSlug \in Slugs \cup {None} /\ Groups \subseteq Slugs /\ list \subseteq Slugs
  /\ activeWorkspaceSlug = None => Groups = {}
  /\ fetched /\ list # {} => Groups \cap list # {}

LEMMA WindowInvStep == TabsAssumption /\ WindowInv /\ [Next]_vars => WindowInv'
<1> SUFFICES ASSUME TabsAssumption, WindowInv, [Next]_vars PROVE WindowInv'
  OBVIOUS
<1>1. None \notin Slugs
  BY DEF TabsAssumption
<1>2. CASE Stays
  BY <1>2 DEF Stays, WindowInv, Groups
<1>3. CASE Turns
  BY <1>1, <1>3 DEF Turns, Becomes, WindowInv
<1>4. CASE Leaves
  BY <1>4 DEF Leaves, Becomes, WindowInv
<1>5. CASE Lists
  <2>1. PICK valid \in SUBSET Slugs :
          /\ list' = valid
          /\ \/ \E w \in valid : Becomes(w, {w})
             \/ Groups \cap valid # {} /\ Validates(valid)
             \/ valid = {} /\ Validates(valid)
    BY <1>5 DEF Lists
  <2>2. CASE \E w \in valid : Becomes(w, {w})
    BY <1>1, <2>1, <2>2 DEF Becomes, WindowInv
  <2>3. CASE Validates(valid)
    BY <1>1, <2>1, <2>3 DEF Validates, Becomes, WindowInv
  <2> QED BY <2>1, <2>2, <2>3
<1>6. CASE Heals
  BY <1>1, <1>6 DEF Heals, Validates, Becomes, WindowInv
<1>7. CASE Restarts
  BY <1>1, <1>7 DEF Restarts, Becomes, WindowInv
<1> QED BY <1>2, <1>3, <1>4, <1>5, <1>6, <1>7, Steps DEF WindowInv

LEMMA WindowInvariant == Spec => []WindowInv
<1>1. Init => WindowInv
  BY EmptySound DEF Init, WindowInv, Groups
<1> QED BY <1>1, WindowInvStep, TabsAssumption, PTL DEF Spec

(* A user with a workspace never faces an empty window, whatever tabs and  *)
(* workspaces they opened, left, lost or read back.                        *)
THEOREM WindowIsNotBlank == Spec => []NotBlank
<1>1. WindowInv => NotBlank
  BY DEF WindowInv, NotBlank
<1> QED BY <1>1, WindowInvariant, PTL

-----------------------------------------------------------------------------
(* What the store shows of a tab's history is honest about its router.     *)
LEMMA HistoryInvStep == WindowInv /\ HistoryInv /\ [Next]_vars => HistoryInv'
<1> SUFFICES ASSUME WindowInv, HistoryInv, [Next]_vars PROVE HistoryInv'
  OBVIOUS
<1>1. CASE Stays
  BY <1>1 DEF Stays, HistoryInv, SoundGroups
<1>2. ASSUME NEW a, NEW D, Becomes(a, D) PROVE HistoryInv'
  BY <1>2 DEF Becomes
<1>3. CASE Turns \/ Leaves \/ Lists \/ Heals \/ Restarts
  BY <1>2, <1>3 DEF Turns, Leaves, Lists, Heals, Restarts, Validates
<1> QED BY <1>1, <1>3, Steps DEF WindowInv

LEMMA HistoryInvariant == Spec => []HistoryInv
<1>1. Init => HistoryInv
  BY EmptySound DEF Init, HistoryInv
<1> QED BY <1>1, HistoryInvStep, WindowInvariant, PTL DEF Spec

(* Back and forward never offer a move that the tab's router cannot make,  *)
(* for any numbers of workspaces, tabs and entries, however the effect     *)
(* that counts them is unmounted and mounted again.                        *)
THEOREM ButtonsAreHonest == Spec => []ButtonsHonest
<1>1. HistoryInv => ButtonsHonest
  BY DEF HistoryInv, SoundGroups, SoundTabs, SoundTab, Honest, ButtonsHonest, ToSet, Groups
<1> QED BY <1>1, HistoryInvariant, PTL

-----------------------------------------------------------------------------
(* Whose tab is whose.  Ids tell tabs apart, in a group and among groups;  *)
(* there is always one that is not in use; and what is shown is there.     *)
Fits(S) == S \subseteq 0..MaxTabs /\ Cardinality(S) <= MaxTabs

SoundIdsOf(g) ==
  /\ \A i, j \in DOMAIN g.tabs : g.tabs[i].id = g.tabs[j].id => i = j
  /\ g.activeTabId \in IdsOf(g)

SoundIds(gs) ==
  /\ \A w \in DOMAIN gs : SoundIdsOf(gs[w])
  /\ \A w, x \in DOMAIN gs : w # x => IdsOf(gs[w]) \cap IdsOf(gs[x]) = {}
  /\ Fits(Ids(gs))

IdsInv ==
  /\ activeWorkspaceSlug # None => activeWorkspaceSlug \in Groups
  /\ SoundIds(byWorkspace)
  /\ alive = Ids(byWorkspace)

(* What a step of the store comes to. *)
Leads(a, gs) ==
  /\ Store(a, gs) /\ SoundIds(gs) /\ alive' = Ids(gs)
  /\ a # None => a \in DOMAIN gs

(* The tab that a shows is where it was to lead, or has been elsewhere     *)
(* while nobody listened.                                                  *)
Reaches(a, gs, p) ==
  /\ a \in DOMAIN gs
  /\ \E i \in DOMAIN gs[a].tabs : /\ gs[a].activeTabId = gs[a].tabs[i].id
                                  /\ gs[a].tabs[i].late \/ Here(gs[a].tabs[i]) = p

LEMMA FitsFinite ==
  ASSUME NEW S, Fits(S)
  PROVE  IsFiniteSet(S) /\ Cardinality(S) \in Nat
<1>1. IsFiniteSet(0..MaxTabs)
  BY TabsAssumption, FS_Interval
<1> QED BY <1>1, FS_Subset, FS_CardinalityType DEF Fits

LEMMA FitsSubset ==
  ASSUME NEW S, Fits(S), NEW T, T \subseteq S
  PROVE  Fits(T)
<1>1. IsFiniteSet(T) /\ Cardinality(T) <= Cardinality(S)
  BY FitsFinite, FS_Subset
<1>2. Cardinality(T) \in Nat /\ Cardinality(S) \in Nat /\ MaxTabs \in Nat
  BY <1>1, FitsFinite, FS_CardinalityType, TabsAssumption
<1> QED BY <1>1, <1>2 DEF Fits

(* There is an id to give to a new tab. *)
LEMMA FreshId ==
  ASSUME NEW S, Fits(S), NEW n, n = CHOOSE m \in 0..MaxTabs : m \notin S
  PROVE  /\ n \in 0..MaxTabs /\ n \notin S
         /\ Cardinality(S) < MaxTabs => Fits(S \cup {n})
         /\ \A gone \in S : Fits((S \ {gone}) \cup {n})
<1>1. IsFiniteSet(S) /\ Cardinality(S) \in Nat /\ MaxTabs \in Nat
  BY FitsFinite, TabsAssumption
<1>2. \E m \in 0..MaxTabs : m \notin S
  <2>1. Cardinality(0..MaxTabs) = MaxTabs + 1
    BY <1>1, FS_Interval
  <2>2. S # 0..MaxTabs
    BY <1>1, <2>1 DEF Fits
  <2> QED BY <2>2 DEF Fits
<1>3. n \in 0..MaxTabs /\ n \notin S
  BY <1>2
<1>4. Cardinality(S) < MaxTabs => Fits(S \cup {n})
  <2>1. Cardinality(S \cup {n}) = Cardinality(S) + 1
    BY <1>1, <1>3, FS_AddElement
  <2>2. S \cup {n} \subseteq 0..MaxTabs
    BY <1>3 DEF Fits
  <2> QED BY <1>1, <2>1, <2>2 DEF Fits
<1>5. ASSUME NEW gone \in S PROVE Fits((S \ {gone}) \cup {n})
  <2> DEFINE R == S \ {gone}
  <2>1. IsFiniteSet(R) /\ Cardinality(R) = Cardinality(S) - 1 /\ n \notin R
    BY <1>1, <1>3, FS_RemoveElement
  <2>2. Cardinality(R \cup {n}) = Cardinality(R) + 1
    BY <2>1, FS_AddElement
  <2>3. R \cup {n} \subseteq 0..MaxTabs
    BY <1>3 DEF Fits
  <2> QED BY <1>1, <2>1, <2>2, <2>3 DEF Fits
<1> QED BY <1>3, <1>4, <1>5

LEMMA FreshTab ==
  ASSUME NEW gs, SoundIds(gs)
  PROVE  /\ Fresh(gs) \in 0..MaxTabs /\ Fresh(gs) \notin Ids(gs)
         /\ Cardinality(Ids(gs)) < MaxTabs => Fits(Ids(gs) \cup {Fresh(gs)})
<1>1. Fits(Ids(gs))
  BY DEF SoundIds
<1> QED BY <1>1, FreshId DEF Fresh

LEMMA NoIds == Ids(<<>>) = {} /\ SoundIds(<<>>)
<1>1. Ids(<<>>) = {}
  BY EmptySound DEF Ids
<1>2. Fits({})
  BY FS_EmptySet, TabsAssumption DEF Fits
<1> QED BY <1>1, <1>2, EmptySound DEF SoundIds

(* One group changes or is added, and its ids are no others' ids. *)
OldIds(gs, w) == IF w \in DOMAIN gs THEN IdsOf(gs[w]) ELSE {}

NoOthers(gs, w, g) == \A id \in IdsOf(g) : id \in Ids(gs) => id \in OldIds(gs, w)

LEMMA ChangedIds ==
  ASSUME NEW gs, SoundIds(gs), NEW w, NEW g, SoundIdsOf(g), NoOthers(gs, w, g),
         Fits((Ids(gs) \ OldIds(gs, w)) \cup IdsOf(g))
  PROVE  /\ SoundIds(With(gs, w, g))
         /\ Ids(With(gs, w, g)) = (Ids(gs) \ OldIds(gs, w)) \cup IdsOf(g)
<1> DEFINE new == With(gs, w, g)  old == OldIds(gs, w)
<1>0. /\ old = IF w \in DOMAIN gs THEN IdsOf(gs[w]) ELSE {}
      /\ IdsOf(g) \cap (Ids(gs) \ old) = {}
  BY DEF OldIds, NoOthers
<1>1. DOMAIN new = DOMAIN gs \cup {w} /\ new[w] = g /\ \A x \in DOMAIN gs \ {w} : new[x] = gs[x]
  BY DEF With
<1> HIDE DEF new, old
<1>2. \A x \in DOMAIN gs \ {w} : IdsOf(gs[x]) \subseteq Ids(gs) \ old
  BY <1>0 DEF SoundIds, Ids
<1>3. \A id \in Ids(gs) \ old : \E x \in DOMAIN gs \ {w} : id \in IdsOf(gs[x])
  BY <1>0 DEF Ids
<1>4. Ids(new) = (Ids(gs) \ old) \cup IdsOf(g)
  <2>1. ASSUME NEW id \in Ids(new) PROVE id \in (Ids(gs) \ old) \cup IdsOf(g)
    <3>1. PICK x \in DOMAIN new : id \in IdsOf(new[x])
      BY DEF Ids
    <3> QED BY <1>1, <1>2, <3>1
  <2>2. ASSUME NEW id \in (Ids(gs) \ old) \cup IdsOf(g) PROVE id \in Ids(new)
    <3>1. \E x \in DOMAIN new : id \in IdsOf(new[x])
      BY <1>1, <1>3, <2>2
    <3> QED BY <3>1 DEF Ids
  <2> QED BY <2>1, <2>2
<1>5. ASSUME NEW x \in DOMAIN new, NEW y \in DOMAIN new, x # y
      PROVE  IdsOf(new[x]) \cap IdsOf(new[y]) = {}
  BY <1>0, <1>1, <1>2, <1>5 DEF SoundIds
<1>6. \A x \in DOMAIN new : SoundIdsOf(new[x])
  BY <1>1 DEF SoundIds
<1>7. SoundIds(new)
  <2>1. Fits(Ids(new))
    BY <1>4 DEF old
  <2> QED BY <1>5, <1>6, <2>1 DEF SoundIds
<1> QED BY <1>1, <1>4, <1>7 DEF new, old

LEMMA ExceptIsWith ==
  ASSUME NEW gs, NEW w \in DOMAIN gs, NEW g
  PROVE  [gs EXCEPT ![w] = g] = With(gs, w, g)
BY DEF With

(* Fewer groups. *)
LEMMA KeptIds ==
  ASSUME SoundIds(byWorkspace), NEW D
  PROVE  LET kept == [w \in Groups \cap D |-> byWorkspace[w]]
             gone == [w \in Groups \ D |-> byWorkspace[w]]
         IN  SoundIds(kept) /\ Ids(kept) = Ids(byWorkspace) \ Ids(gone)
<1> DEFINE kept == [w \in Groups \cap D |-> byWorkspace[w]]
           gone == [w \in Groups \ D |-> byWorkspace[w]]
<1>1. DOMAIN kept = Groups \cap D /\ \A w \in Groups \cap D : kept[w] = byWorkspace[w]
  OBVIOUS
<1>2. DOMAIN gone = Groups \ D /\ \A w \in Groups \ D : gone[w] = byWorkspace[w]
  OBVIOUS
<1> HIDE DEF kept, gone
<1>3. \A id : id \in Ids(kept) <=> \E w \in Groups \cap D : id \in IdsOf(byWorkspace[w])
  BY <1>1 DEF Ids
<1>4. \A id : id \in Ids(gone) <=> \E w \in Groups \ D : id \in IdsOf(byWorkspace[w])
  BY <1>2 DEF Ids
<1>5. \A id : id \in Ids(byWorkspace) <=> \E w \in Groups : id \in IdsOf(byWorkspace[w])
  BY DEF Ids, Groups
<1>6. \A w, x \in Groups : w # x => IdsOf(byWorkspace[w]) \cap IdsOf(byWorkspace[x]) = {}
  BY DEF SoundIds, Groups
<1>7. Ids(kept) = Ids(byWorkspace) \ Ids(gone)
  BY <1>3, <1>4, <1>5, <1>6
<1>8. Fits(Ids(kept))
  BY <1>7, FitsSubset DEF SoundIds
<1>9. SoundIds(kept)
  BY <1>1, <1>8 DEF SoundIds, Groups
<1> QED BY <1>7, <1>9 DEF kept, gone

-----------------------------------------------------------------------------
(* The ids of a group whose tabs or whose choice changes.                  *)

LEMMA HasId == ASSUME NEW id, NEW p PROVE Tab(id, p).id = id /\ Here(Tab(id, p)) = p
BY DEF Tab, Here

LEMMA IdsOfOne ==
  ASSUME NEW t
  PROVE  LET g == [tabs |-> <<t>>, activeTabId |-> t.id]
         IN  IdsOf(g) = {t.id} /\ SoundIdsOf(g) /\ DOMAIN g.tabs = {1} /\ g.tabs[1] = t
BY DEF IdsOf, SoundIdsOf

LEMMA IdsOfAdded ==
  ASSUME NEW g, SoundTabs(g.tabs), SoundIdsOf(g), NEW t, t.id \notin IdsOf(g)
  PROVE  LET h == [tabs |-> Append(g.tabs, t), activeTabId |-> t.id]
         IN  /\ IdsOf(h) = IdsOf(g) \cup {t.id} /\ SoundIdsOf(h)
             /\ \E i \in DOMAIN h.tabs : h.tabs[i] = t
<1> DEFINE s == g.tabs  r == Append(s, t)  h == [tabs |-> r, activeTabId |-> t.id]
<1>1. DOMAIN s = 1..Len(s) /\ Len(s) \in Nat /\ s \in Seq(ToSet(s) \cup {t})
  BY SeqOfTabs, SeqMonotonic DEF SoundTabs, IsSeq
<1>2. /\ DOMAIN r = 1..(Len(s) + 1) /\ r[Len(s) + 1] = t
      /\ \A k \in 1..Len(s) : r[k] = s[k]
  BY <1>1, AppendProperties
<1>3. h.tabs = r /\ h.activeTabId = t.id
  OBVIOUS
<1> HIDE DEF s, r, h
<1>4. IdsOf(g) = {s[k].id : k \in DOMAIN s} /\ IdsOf(h) = {r[k].id : k \in DOMAIN r}
  BY <1>3 DEF IdsOf, s
<1>5. IdsOf(h) = IdsOf(g) \cup {t.id}
  <2>1. \A k \in DOMAIN r : r[k].id \in IdsOf(g) \cup {t.id}
    BY <1>1, <1>2, <1>4
  <2>2. \A k \in DOMAIN s : k \in DOMAIN r /\ r[k].id = s[k].id
    BY <1>1, <1>2
  <2>3. Len(s) + 1 \in DOMAIN r /\ r[Len(s) + 1].id = t.id
    BY <1>1, <1>2
  <2> QED BY <1>4, <2>1, <2>2, <2>3
<1>6. SoundIdsOf(h)
  <2>1. \A j, k \in DOMAIN s : s[j].id = s[k].id => j = k
    BY DEF SoundIdsOf, s
  <2>2. \A k \in DOMAIN s : s[k].id # t.id
    BY <1>4
  <2>3. \A j, k \in DOMAIN r : r[j].id = r[k].id => j = k
    BY <1>1, <1>2, <2>1, <2>2
  <2> QED BY <1>3, <1>5, <2>3 DEF SoundIdsOf
<1>7. \E i \in DOMAIN r : r[i] = t
  BY <1>1, <1>2
<1> QED BY <1>3, <1>5, <1>6, <1>7 DEF h, r, s

LEMMA IdsOfShown ==
  ASSUME NEW g, SoundIdsOf(g), DOMAIN g = {"tabs", "activeTabId"}, NEW i \in DOMAIN g.tabs
  PROVE  LET h == [g EXCEPT !.activeTabId = g.tabs[i].id]
         IN  /\ h.tabs = g.tabs /\ h.activeTabId = g.tabs[i].id
             /\ IdsOf(h) = IdsOf(g) /\ SoundIdsOf(h)
BY DEF IdsOf, SoundIdsOf

LEMMA IdsOfPut ==
  ASSUME NEW g, SoundIdsOf(g), DOMAIN g = {"tabs", "activeTabId"}, NEW i \in DOMAIN g.tabs,
         NEW t, t.id = g.tabs[i].id
  PROVE  LET h == [g EXCEPT !.tabs = [g.tabs EXCEPT ![i] = t]]
         IN  /\ h.tabs = [g.tabs EXCEPT ![i] = t] /\ h.activeTabId = g.activeTabId
             /\ IdsOf(h) = IdsOf(g) /\ SoundIdsOf(h)
<1> DEFINE s == g.tabs  r == [s EXCEPT ![i] = t]  h == [g EXCEPT !.tabs = r]
<1>1. h.tabs = r /\ h.activeTabId = g.activeTabId
  OBVIOUS
<1>2. DOMAIN r = DOMAIN s /\ \A k \in DOMAIN s : r[k].id = s[k].id
  OBVIOUS
<1> HIDE DEF r, h
<1>3. IdsOf(h) = IdsOf(g)
  BY <1>1, <1>2 DEF IdsOf, s
<1>4. SoundIdsOf(h)
  BY <1>1, <1>2, <1>3 DEF SoundIdsOf, s
<1> QED BY <1>1, <1>3, <1>4 DEF h, r, s

LEMMA ConcatElements ==
  ASSUME NEW S, NEW a \in Seq(S), NEW b \in Seq(S)
  PROVE  /\ Len(a \o b) = Len(a) + Len(b) /\ DOMAIN (a \o b) = 1..(Len(a) + Len(b))
         /\ \A k \in 1..(Len(a) + Len(b)) :
              (a \o b)[k] = IF k <= Len(a) THEN a[k] ELSE b[k - Len(a)]
<1>1. a \o b \in Seq(S) /\ Len(a \o b) = Len(a) + Len(b)
  BY ConcatProperties
<1>2. DOMAIN (a \o b) = 1..(Len(a) + Len(b))
  BY <1>1, LenProperties
<1> QED BY <1>1, <1>2, ConcatProperties

LEMMA FirstOf ==
  ASSUME NEW S, NEW s, NEW n \in Nat, \A k \in 1..n : s[k] \in S
  PROVE  SubSeq(s, 1, n) \in Seq(S) /\ Len(SubSeq(s, 1, n)) = n /\ \A k \in 1..n : SubSeq(s, 1, n)[k] = s[k]
<1>1. /\ SubSeq(s, 1, n) \in Seq(S)
      /\ Len(SubSeq(s, 1, n)) = IF 1 <= n THEN n - 1 + 1 ELSE 0
      /\ \A k \in 1..(n - 1 + 1) : SubSeq(s, 1, n)[k] = s[1 + k - 1]
  BY SubSeqProperties
<1> QED BY <1>1

LEMMA LastOf ==
  ASSUME NEW S, NEW s, NEW n \in Nat, NEW m \in 1..(n + 1), \A k \in m..n : s[k] \in S
  PROVE  /\ SubSeq(s, m, n) \in Seq(S) /\ Len(SubSeq(s, m, n)) = n - m + 1
         /\ \A k \in 1..(n - m + 1) : SubSeq(s, m, n)[k] = s[m + k - 1]
<1>1. /\ SubSeq(s, m, n) \in Seq(S)
      /\ Len(SubSeq(s, m, n)) = IF m <= n THEN n - m + 1 ELSE 0
      /\ \A k \in 1..(n - m + 1) : SubSeq(s, m, n)[k] = s[m + k - 1]
  BY SubSeqProperties
<1> QED BY <1>1

(* Where the elements are once one is taken out, or put in. *)
LEMMA Removed ==
  ASSUME NEW s, IsSeq(s), NEW i \in 1..Len(s)
  PROVE  /\ DOMAIN RemoveAt(s, i) = 1..(Len(s) - 1) /\ Len(RemoveAt(s, i)) = Len(s) - 1
         /\ \A k \in 1..(Len(s) - 1) : RemoveAt(s, i)[k] = IF k < i THEN s[k] ELSE s[k + 1]
<1> DEFINE n == Len(s)  S == {s[k] : k \in 1..n}  a == SubSeq(s, 1, i - 1)  b == SubSeq(s, i + 1, n)
<1>1. n \in Nat /\ i \in 1..n /\ \A k \in 1..n : s[k] \in S
  BY DEF IsSeq
<1>2. RemoveAt(s, i) = a \o b
  BY DEF RemoveAt
<1> HIDE DEF n, S
<1>3. i - 1 \in Nat /\ (\A k \in 1..(i - 1) : s[k] \in S) /\ i + 1 \in 1..(n + 1) /\ \A k \in (i + 1)..n : s[k] \in S
  BY <1>1
<1>4. a \in Seq(S) /\ Len(a) = i - 1 /\ \A k \in 1..(i - 1) : a[k] = s[k]
  BY <1>3, FirstOf
<1>5. b \in Seq(S) /\ Len(b) = n - i /\ \A k \in 1..(n - i) : b[k] = s[i + k]
  <2>1. b \in Seq(S) /\ Len(b) = n - (i + 1) + 1 /\ \A k \in 1..(n - (i + 1) + 1) : b[k] = s[(i + 1) + k - 1]
    BY <1>1, <1>3, LastOf
  <2> QED BY <1>1, <2>1
<1> HIDE DEF a, b
<1> DEFINE la == Len(a)  lb == Len(b)
<1>6. Len(a \o b) = la + lb /\ DOMAIN (a \o b) = 1..(la + lb)
      /\ \A k \in 1..(la + lb) : (a \o b)[k] = IF k <= la THEN a[k] ELSE b[k - la]
  BY <1>4, <1>5, ConcatElements
<1>7. la = i - 1 /\ lb = n - i /\ la + lb = n - 1
  BY <1>1, <1>4, <1>5
<1> HIDE DEF la, lb
<1>8. \A k \in 1..(n - 1) : (a \o b)[k] = IF k < i THEN s[k] ELSE s[k + 1]
  BY <1>1, <1>4, <1>5, <1>6, <1>7
<1> QED BY <1>2, <1>6, <1>7, <1>8 DEF n

LEMMA Inserted ==
  ASSUME NEW s, IsSeq(s), NEW j \in 1..(Len(s) + 1), NEW e
  PROVE  /\ DOMAIN InsertAt(s, j, e) = 1..(Len(s) + 1) /\ Len(InsertAt(s, j, e)) = Len(s) + 1
         /\ \A k \in 1..(Len(s) + 1) :
              InsertAt(s, j, e)[k] = IF k < j THEN s[k] ELSE IF k = j THEN e ELSE s[k - 1]
<1> DEFINE n == Len(s)  S == {s[k] : k \in 1..n} \cup {e}
           a == SubSeq(s, 1, j - 1)  b == SubSeq(s, j, n)  c == a \o <<e>>
<1>1. n \in Nat /\ j \in 1..(n + 1) /\ (\A k \in 1..n : s[k] \in S) /\ e \in S
  BY DEF IsSeq
<1>2. InsertAt(s, j, e) = c \o b
  BY DEF InsertAt
<1> HIDE DEF n, S
<1>3. j - 1 \in Nat /\ (\A k \in 1..(j - 1) : s[k] \in S) /\ \A k \in j..n : s[k] \in S
  BY <1>1
<1>4. a \in Seq(S) /\ Len(a) = j - 1 /\ \A k \in 1..(j - 1) : a[k] = s[k]
  BY <1>3, FirstOf
<1>5. b \in Seq(S) /\ Len(b) = n - j + 1 /\ \A k \in 1..(n - j + 1) : b[k] = s[j + k - 1]
  BY <1>1, <1>3, LastOf
<1> HIDE DEF a, b
<1>6. c \in Seq(S) /\ Len(c) = j /\ (\A k \in 1..(j - 1) : c[k] = s[k]) /\ c[j] = e
  <2>1. <<e>> \in Seq(S) /\ Len(<<e>>) = 1 /\ <<e>>[1] = e
    BY <1>1
  <2> DEFINE u == <<e>>
  <2>2. /\ a \o u \in Seq(S) /\ Len(a \o u) = Len(a) + Len(u)
        /\ \A k \in 1..(Len(a) + Len(u)) : (a \o u)[k] = IF k <= Len(a) THEN a[k] ELSE u[k - Len(a)]
    BY <1>4, <2>1, ConcatProperties
  <2>3. c = a \o u /\ Len(u) = 1 /\ u[1] = e
    BY <2>1
  <2> HIDE DEF u, c
  <2>4. Len(c) = j /\ \A k \in 1..j : c[k] = IF k <= j - 1 THEN a[k] ELSE u[k - (j - 1)]
    BY <1>1, <1>4, <2>2, <2>3
  <2>5. (\A k \in 1..(j - 1) : k \in 1..j /\ k <= j - 1) /\ j \in 1..j /\ ~(j <= j - 1) /\ j - (j - 1) = 1
    BY <1>1
  <2>6. c[j] = u[1]
    BY <2>4, <2>5
  <2> QED BY <1>4, <2>2, <2>3, <2>4, <2>5, <2>6
<1> HIDE DEF c
<1> DEFINE lb == Len(b)  lc == Len(c)
<1>7. /\ Len(c \o b) = lc + lb /\ DOMAIN (c \o b) = 1..(lc + lb)
      /\ \A k \in 1..(lc + lb) : (c \o b)[k] = IF k <= lc THEN c[k] ELSE b[k - lc]
  BY <1>5, <1>6, ConcatElements
<1>8. lb = n - j + 1 /\ lc = j /\ lc + lb = n + 1
  BY <1>1, <1>5, <1>6
<1> HIDE DEF lb, lc
<1>9. ASSUME NEW k \in 1..(n + 1)
      PROVE  (c \o b)[k] = IF k < j THEN s[k] ELSE IF k = j THEN e ELSE s[k - 1]
  <2>1. (c \o b)[k] = IF k <= j THEN c[k] ELSE b[k - j]
    BY <1>7, <1>8
  <2>2. CASE k < j
    <3>1. k <= j /\ k # j /\ k \in 1..(j - 1)
      BY <1>1, <2>2
    <3> QED BY <1>4, <1>6, <2>1, <2>2, <3>1
  <2>3. CASE k = j
    <3>1. k <= j /\ ~(k < j)
      BY <1>1, <2>3
    <3> QED BY <1>6, <2>1, <2>3, <3>1
  <2>4. CASE k > j
    <3>1. ~(k <= j) /\ ~(k < j) /\ k # j /\ k - j \in 1..(n - j + 1) /\ j + (k - j) - 1 = k - 1
      BY <1>1, <2>4
    <3>2. b[k - j] = s[j + (k - j) - 1]
      BY <1>5, <3>1
    <3> QED BY <2>1, <3>1, <3>2
  <2>5. k < j \/ k = j \/ k > j
    BY <1>1
  <2> QED BY <2>2, <2>3, <2>4, <2>5
<1> QED BY <1>2, <1>7, <1>8, <1>9 DEF n

LEMMA IdsOfRemoved ==
  ASSUME NEW g, SoundTabs(g.tabs), SoundIdsOf(g), NEW i \in DOMAIN g.tabs, Len(g.tabs) > 1
  PROVE  LET gone == g.tabs[i].id
             h == [tabs |-> RemoveAt(g.tabs, i),
                   activeTabId |-> IF g.activeTabId = gone THEN Neighbour(g, i) ELSE g.activeTabId]
         IN  IdsOf(h) = IdsOf(g) \ {gone} /\ SoundIdsOf(h)
<1> DEFINE s == g.tabs  r == RemoveAt(s, i)  gone == s[i].id
           a == IF g.activeTabId = gone THEN Neighbour(g, i) ELSE g.activeTabId
           h == [tabs |-> r, activeTabId |-> a]
<1>1. DOMAIN s = 1..Len(s) /\ Len(s) \in Nat /\ i \in 1..Len(s)
  BY DEF SoundTabs, IsSeq
<1>2. DOMAIN r = 1..(Len(s) - 1) /\ \A k \in 1..(Len(s) - 1) : r[k] = IF k < i THEN s[k] ELSE s[k + 1]
  BY <1>1, Removed DEF SoundTabs
<1>3. h.tabs = r /\ h.activeTabId = a
  OBVIOUS
<1>4. a = IF g.activeTabId = gone THEN r[IF i < Len(s) THEN i ELSE i - 1].id ELSE g.activeTabId
  BY DEF Neighbour
<1>5. IdsOf(g) = {s[k].id : k \in DOMAIN s} /\ \A j, k \in DOMAIN s : s[j].id = s[k].id => j = k
  BY DEF IdsOf, SoundIdsOf
<1>6. g.activeTabId \in IdsOf(g)
  BY DEF SoundIdsOf
<1> HIDE DEF s, r, h, a
<1>7. IdsOf(h) = {r[k].id : k \in DOMAIN r}
  BY <1>3 DEF IdsOf
<1>8. IdsOf(h) = IdsOf(g) \ {gone}
  <2>1. \A k \in DOMAIN r : r[k].id \in IdsOf(g) \ {gone}
    <3>1. ASSUME NEW k \in DOMAIN r
          PROVE  \E m \in DOMAIN s : m # i /\ r[k] = s[m]
      <4>1. CASE k < i
        BY <1>1, <1>2, <4>1
      <4>2. CASE ~(k < i)
        BY <1>1, <1>2, <4>2
      <4> QED BY <4>1, <4>2
    <3> QED BY <1>1, <1>5, <3>1
  <2>2. ASSUME NEW m \in DOMAIN s, m # i PROVE \E k \in DOMAIN r : r[k] = s[m]
    <3>1. CASE m < i
      BY <1>1, <1>2, <3>1
    <3>2. CASE m > i
      <4>1. m - 1 \in DOMAIN r /\ ~(m - 1 < i) /\ (m - 1) + 1 = m
        BY <1>1, <1>2, <3>2
      <4> QED BY <1>2, <4>1
    <3> QED BY <1>1, <2>2, <3>1, <3>2
  <2> QED BY <1>5, <1>7, <2>1, <2>2
<1>9. SoundIdsOf(h)
  <2>1. \A j, k \in DOMAIN r : r[j].id = r[k].id => j = k
    <3> DEFINE q(k) == IF k < i THEN k ELSE k + 1
    <3>1. \A k \in DOMAIN r : q(k) \in DOMAIN s /\ r[k] = s[q(k)]
      BY <1>1, <1>2
    <3>2. \A j, k \in DOMAIN r : q(j) = q(k) => j = k
      BY <1>1, <1>2
    <3> HIDE DEF q
    <3> QED BY <1>5, <3>1, <3>2
  <2>2. a \in IdsOf(h)
    <3>1. CASE g.activeTabId = gone
      <4>1. (IF i < Len(s) THEN i ELSE i - 1) \in DOMAIN r
        BY <1>1, <1>2 DEF s
      <4> QED BY <1>4, <1>7, <3>1, <4>1
    <3>2. CASE g.activeTabId # gone
      BY <1>4, <1>6, <1>8, <3>2
    <3> QED BY <3>1, <3>2
  <2> QED BY <1>3, <2>1, <2>2 DEF SoundIdsOf
<1> QED BY <1>8, <1>9 DEF h, a, r, s

LEMMA IdsOfMoved ==
  ASSUME NEW g, SoundTabs(g.tabs), SoundIdsOf(g), DOMAIN g = {"tabs", "activeTabId"},
         NEW i \in DOMAIN g.tabs, NEW j \in DOMAIN g.tabs
  PROVE  LET h == [g EXCEPT !.tabs = InsertAt(RemoveAt(g.tabs, i), j, g.tabs[i])]
         IN  IdsOf(h) = IdsOf(g) /\ SoundIdsOf(h)
<1> DEFINE s == g.tabs  r == RemoveAt(s, i)  m == InsertAt(r, j, s[i])
           h == [g EXCEPT !.tabs = m]  n == Len(s)
<1>1. DOMAIN s = 1..n /\ n \in Nat /\ i \in 1..n /\ j \in 1..n
  BY DEF SoundTabs, IsSeq
<1>2. /\ DOMAIN r = 1..(n - 1) /\ Len(r) = n - 1
      /\ \A k \in 1..(n - 1) : r[k] = IF k < i THEN s[k] ELSE s[k + 1]
  BY <1>1, Removed DEF SoundTabs
<1>3. IsSeq(r)
  <2>1. SoundTabs(s)
    OBVIOUS
  <2>2. r \in Seq(ToSet(s))
    BY <1>1, <2>1, RemovedTab
  <2> HIDE DEF r
  <2> QED BY <2>2, LenProperties DEF IsSeq
<1>4. h.tabs = m /\ h.activeTabId = g.activeTabId
  OBVIOUS
<1>5. IdsOf(g) = {s[k].id : k \in DOMAIN s} /\ \A k, l \in DOMAIN s : s[k].id = s[l].id => k = l
  BY DEF IdsOf, SoundIdsOf
<1>6. g.activeTabId \in IdsOf(g)
  BY DEF SoundIdsOf
<1> HIDE DEF r, n
<1>7. /\ DOMAIN m = 1..n
      /\ \A k \in 1..n : m[k] = IF k < j THEN r[k] ELSE IF k = j THEN s[i] ELSE r[k - 1]
  <2>1. j \in 1..(Len(r) + 1) /\ Len(r) + 1 = n /\ DOMAIN r = 1..Len(r)
    BY <1>1, <1>2
  <2>2. /\ DOMAIN InsertAt(r, j, s[i]) = 1..(Len(r) + 1)
        /\ \A k \in 1..(Len(r) + 1) :
             InsertAt(r, j, s[i])[k] = IF k < j THEN r[k] ELSE IF k = j THEN s[i] ELSE r[k - 1]
    BY <1>3, <2>1, Inserted
  <2> QED BY <2>1, <2>2
<1> HIDE DEF s, m, h
(* The place a tab comes from. *)
<1> DEFINE q(k) == IF k < i THEN k ELSE k + 1
           f == [k \in 1..n |-> IF k < j THEN q(k) ELSE IF k = j THEN i ELSE q(k - 1)]
<1>8. \A k \in 1..n : f[k] \in 1..n /\ m[k] = s[f[k]]
  BY <1>1, <1>2, <1>7
<1>9. \A k, l \in 1..n : f[k] = f[l] => k = l
  BY <1>1
<1>10. \A l \in 1..n : \E k \in 1..n : f[k] = l
  <2> DEFINE p(l) == IF l < i THEN l ELSE l - 1
  <2>1. ASSUME NEW l \in 1..n, l # i PROVE p(l) \in 1..(n - 1) /\ q(p(l)) = l
    BY <1>1, <2>1
  <2>2. ASSUME NEW l \in 1..n PROVE \E k \in 1..n : f[k] = l
    <3>1. CASE l = i
      BY <1>1, <3>1
    <3>2. CASE l # i /\ p(l) < j
      BY <1>1, <2>1, <3>2
    <3>3. CASE l # i /\ ~(p(l) < j)
      <4>1. p(l) + 1 \in 1..n /\ ~(p(l) + 1 < j) /\ p(l) + 1 # j /\ (p(l) + 1) - 1 = p(l)
        BY <1>1, <2>1, <3>3
      <4>2. f[p(l) + 1] = l
        BY <2>1, <3>3, <4>1
      <4> QED BY <4>1, <4>2
    <3> QED BY <3>1, <3>2, <3>3
  <2> QED BY <2>2
<1> HIDE DEF f
<1>11. IdsOf(h) = {m[k].id : k \in 1..n}
  BY <1>4, <1>7 DEF IdsOf
<1>12. IdsOf(h) = IdsOf(g)
  <2>1. \A k \in 1..n : m[k].id \in IdsOf(g)
    BY <1>1, <1>5, <1>8
  <2>2. ASSUME NEW l \in 1..n PROVE s[l].id \in IdsOf(h)
    <3>1. PICK k \in 1..n : f[k] = l
      BY <1>10
    <3> QED BY <1>8, <1>11, <3>1
  <2>3. IdsOf(h) \subseteq IdsOf(g)
    BY <1>11, <2>1
  <2>4. IdsOf(g) \subseteq IdsOf(h)
    <3>1. \A l \in DOMAIN s : s[l].id \in IdsOf(h)
      BY <1>1, <2>2
    <3> QED BY <1>5, <3>1
  <2> QED BY <2>3, <2>4
<1>13. SoundIdsOf(h)
  BY <1>1, <1>4, <1>5, <1>6, <1>7, <1>8, <1>9, <1>12 DEF SoundIdsOf
<1> QED BY <1>12, <1>13 DEF h, m, r, s

-----------------------------------------------------------------------------
(* The operations, each with the groups it leaves in the store.            *)

LEMMA MatchFinds ==
  ASSUME NEW g, SoundTabs(g.tabs), NEW p, Match(g, p) # 0
  PROVE  Match(g, p) \in DOMAIN g.tabs /\ g.tabs[Match(g, p)].path = p
<1> DEFINE I == {i \in 1..Len(g.tabs) : g.tabs[i].path = p}
<1>1. Match(g, p) = IF I # {} THEN Min(I) ELSE 0
  BY DEF Match, SelectInSeq
<1>2. Len(g.tabs) \in Nat /\ DOMAIN g.tabs = 1..Len(g.tabs)
  BY DEF SoundTabs, IsSeq
<1>3. I \subseteq Nat /\ I # {}
  BY <1>1, <1>2
<1>4. \E x \in I : \A y \in I : x <= y
  <2> HIDE DEF I
  <2> QED BY <1>3, LeastNat
<1>5. Min(I) \in I
  BY <1>4 DEF Min
<1> QED BY <1>1, <1>2, <1>3, <1>5

LEMMA ShownAt ==
  ASSUME NEW g, SoundIdsOf(g)
  PROVE  /\ \A i \in DOMAIN g.tabs : g.tabs[i].id = g.activeTabId => At(g, g.activeTabId) = i
         /\ At(g, g.activeTabId) \in DOMAIN g.tabs
         /\ g.tabs[At(g, g.activeTabId)].id = g.activeTabId
<1>1. PICK i \in DOMAIN g.tabs : g.tabs[i].id = g.activeTabId
  BY DEF SoundIdsOf, IdsOf
<1>2. At(g, g.activeTabId) \in DOMAIN g.tabs /\ g.tabs[At(g, g.activeTabId)].id = g.activeTabId
  BY <1>1 DEF At
<1> QED BY <1>2 DEF SoundIdsOf

(* What the invariants say of a group. *)
LEMMA OfGroup ==
  ASSUME HistoryInv, IdsInv, NEW w \in Groups
  PROVE  /\ DOMAIN byWorkspace[w] = {"tabs", "activeTabId"} /\ SoundTabs(byWorkspace[w].tabs)
         /\ SoundIdsOf(byWorkspace[w]) /\ IdsOf(byWorkspace[w]) \subseteq Ids(byWorkspace)
         /\ \A i \in DOMAIN byWorkspace[w].tabs : SoundTab(byWorkspace[w].tabs[i])
BY DEF HistoryInv, SoundGroups, SoundTabs, IdsInv, SoundIds, Ids, Groups

LEMMA SameIds ==
  ASSUME HistoryInv, IdsInv, NEW w \in Groups, NEW g, SoundIdsOf(g), IdsOf(g) = IdsOf(byWorkspace[w])
  PROVE  LET gs == With(byWorkspace, w, g)
         IN  SoundIds(gs) /\ Ids(gs) = alive /\ DOMAIN gs = Groups /\ gs[w] = g
<1>1. SoundIds(byWorkspace) /\ w \in DOMAIN byWorkspace /\ alive = Ids(byWorkspace)
  BY DEF IdsInv, Groups
<1>2. IdsOf(g) \subseteq Ids(byWorkspace)
  BY OfGroup
<1>3. (Ids(byWorkspace) \ IdsOf(g)) \cup IdsOf(g) = Ids(byWorkspace)
  BY <1>2
<1> DEFINE old == OldIds(byWorkspace, w)
<1>5. IdsOf(g) = old
  BY <1>1 DEF OldIds
<1> HIDE DEF old
<1>4. NoOthers(byWorkspace, w, g)
  BY <1>5 DEF NoOthers, old
<1>6. (Ids(byWorkspace) \ old) \cup IdsOf(g) = Ids(byWorkspace)
  BY <1>3, <1>5
<1>7. Fits((Ids(byWorkspace) \ old) \cup IdsOf(g))
  BY <1>1, <1>6 DEF SoundIds
<1>8. /\ SoundIds(With(byWorkspace, w, g)) /\ Ids(With(byWorkspace, w, g)) = (Ids(byWorkspace) \ old) \cup IdsOf(g)
  BY <1>1, <1>4, <1>7, ChangedIds DEF old
<1>9. DOMAIN With(byWorkspace, w, g) = Groups /\ With(byWorkspace, w, g)[w] = g
  BY <1>1 DEF With, Groups
<1> QED BY <1>1, <1>6, <1>8, <1>9

LEMMA OneMoreId ==
  ASSUME HistoryInv, IdsInv, Room, NEW w, NEW g, SoundIdsOf(g),
         IdsOf(g) = (IF w \in Groups THEN IdsOf(byWorkspace[w]) ELSE {}) \cup {Fresh(byWorkspace)}
  PROVE  LET gs == With(byWorkspace, w, g)
         IN  /\ SoundIds(gs) /\ Ids(gs) = alive \cup {Fresh(byWorkspace)}
             /\ DOMAIN gs = Groups \cup {w} /\ gs[w] = g
<1> DEFINE n == Fresh(byWorkspace)  old == OldIds(byWorkspace, w)
<1>1. SoundIds(byWorkspace) /\ alive = Ids(byWorkspace) /\ Groups = DOMAIN byWorkspace
  BY DEF IdsInv, Groups
<1>2. n \notin Ids(byWorkspace) /\ Fits(Ids(byWorkspace) \cup {n})
  BY <1>1, FreshTab DEF Room
<1>3. old \subseteq Ids(byWorkspace)
  BY <1>1, OfGroup DEF OldIds
<1> HIDE DEF n
<1>4. IdsOf(g) = old \cup {n}
  BY <1>1 DEF n, OldIds
<1> HIDE DEF old
<1>5. NoOthers(byWorkspace, w, g)
  BY <1>2, <1>4 DEF NoOthers, old
<1>6. (Ids(byWorkspace) \ old) \cup IdsOf(g) = Ids(byWorkspace) \cup {n}
  BY <1>3, <1>4
<1>7. /\ SoundIds(With(byWorkspace, w, g)) /\ Ids(With(byWorkspace, w, g)) = (Ids(byWorkspace) \ old) \cup IdsOf(g)
  <2>2. Fits((Ids(byWorkspace) \ old) \cup IdsOf(g))
    BY <1>2, <1>6
  <2> QED BY <1>1, <1>5, <2>2, ChangedIds DEF old
<1>8. DOMAIN With(byWorkspace, w, g) = Groups \cup {w} /\ With(byWorkspace, w, g)[w] = g
  BY <1>1 DEF With
<1> QED BY <1>1, <1>6, <1>7, <1>8 DEF n

(* A tab is added to a group and shown. *)
LEMMA AddedLeads ==
  ASSUME HistoryInv, IdsInv, Room, NEW w \in Groups, NEW p \in Where,
         alive' = alive \cup {Fresh(byWorkspace)},
         LET t == Tab(Fresh(byWorkspace), p) IN
           Store(w, [byWorkspace EXCEPT ![w] =
                      [tabs |-> Append(byWorkspace[w].tabs, t), activeTabId |-> t.id]])
  PROVE  \E gs : Leads(w, gs) /\ Reaches(w, gs, p)
<1> DEFINE t == Tab(Fresh(byWorkspace), p)  g == byWorkspace[w]
           h == [tabs |-> Append(g.tabs, t), activeTabId |-> t.id]
           gs == [byWorkspace EXCEPT ![w] = h]
<1>1. Store(w, gs)
  OBVIOUS
<1>2. SoundTabs(g.tabs) /\ SoundIdsOf(g) /\ IdsOf(g) \subseteq Ids(byWorkspace)
  BY OfGroup
<1>3. t.id = Fresh(byWorkspace) /\ Here(t) = p /\ Fresh(byWorkspace) \notin Ids(byWorkspace)
  BY HasId, FreshTab DEF IdsInv
<1> HIDE DEF t
<1>4. /\ IdsOf(h) = IdsOf(g) \cup {t.id} /\ SoundIdsOf(h)
      /\ \E i \in DOMAIN h.tabs : h.tabs[i] = t
  BY <1>2, <1>3, IdsOfAdded
<1>5. h.activeTabId = t.id
  OBVIOUS
<1> HIDE DEF h
<1>6. gs = With(byWorkspace, w, h)
  BY ExceptIsWith DEF Groups
<1> HIDE DEF gs
<1>7. SoundIds(gs) /\ Ids(gs) = alive' /\ w \in DOMAIN gs /\ gs[w] = h
  <2>1. IdsOf(h) = (IF w \in Groups THEN IdsOf(byWorkspace[w]) ELSE {}) \cup {Fresh(byWorkspace)}
    BY <1>3, <1>4
  <2>2. LET hs == With(byWorkspace, w, h)
        IN  /\ SoundIds(hs) /\ Ids(hs) = alive \cup {Fresh(byWorkspace)}
            /\ DOMAIN hs = Groups \cup {w} /\ hs[w] = h
    BY <1>4, <2>1, OneMoreId
  <2> QED BY <1>6, <2>2
<1>8. Leads(w, gs) /\ Reaches(w, gs, p)
  BY <1>1, <1>3, <1>4, <1>5, <1>7 DEF Leads, Reaches
<1> QED BY <1>8

(* A tab that is there is shown. *)
LEMMA ShownLeads ==
  ASSUME HistoryInv, IdsInv, UNCHANGED alive, NEW w \in Groups, NEW i \in DOMAIN byWorkspace[w].tabs,
         Store(w, [byWorkspace EXCEPT ![w].activeTabId = byWorkspace[w].tabs[i].id])
  PROVE  \E gs : Leads(w, gs) /\ Reaches(w, gs, byWorkspace[w].tabs[i].path)
<1> DEFINE g == byWorkspace[w]  h == [g EXCEPT !.activeTabId = g.tabs[i].id]
           gs == [byWorkspace EXCEPT ![w] = h]
<1>1. Store(w, gs)
  OBVIOUS
<1>2. DOMAIN g = {"tabs", "activeTabId"} /\ SoundIdsOf(g) /\ SoundTab(g.tabs[i])
  BY OfGroup
<1>3. h.tabs = g.tabs /\ h.activeTabId = g.tabs[i].id /\ IdsOf(h) = IdsOf(g) /\ SoundIdsOf(h)
  BY <1>2, IdsOfShown
<1> HIDE DEF h
<1>4. gs = With(byWorkspace, w, h)
  BY ExceptIsWith DEF Groups
<1> HIDE DEF gs
<1>5. SoundIds(gs) /\ Ids(gs) = alive' /\ w \in DOMAIN gs /\ gs[w] = h
  <2>1. LET hs == With(byWorkspace, w, h)
        IN  SoundIds(hs) /\ Ids(hs) = alive /\ DOMAIN hs = Groups /\ hs[w] = h
    BY <1>3, SameIds
  <2> QED BY <1>4, <2>1
<1>6. g.tabs[i].late \/ Here(g.tabs[i]) = g.tabs[i].path
  BY <1>2 DEF SoundTab
<1>7. Leads(w, gs) /\ Reaches(w, gs, g.tabs[i].path)
  BY <1>1, <1>3, <1>5, <1>6 DEF Leads, Reaches
<1> QED BY <1>7

(* A tab is put in the place of one with its id. *)
LEMMA PutLeads ==
  ASSUME HistoryInv, IdsInv, UNCHANGED alive, NEW w \in Groups, NEW i \in DOMAIN byWorkspace[w].tabs,
         NEW t, t.id = byWorkspace[w].tabs[i].id, Store(w, Put(w, i, t))
  PROVE  \E gs : /\ Leads(w, gs)
                 /\ \A p : byWorkspace[w].tabs[i].id = byWorkspace[w].activeTabId /\ Here(t) = p
                             => Reaches(w, gs, p)
<1> DEFINE g == byWorkspace[w]  h == [g EXCEPT !.tabs = [g.tabs EXCEPT ![i] = t]]
           gs == [byWorkspace EXCEPT ![w] = h]
<1>1. Store(w, gs)
  BY DEF Put
<1>2. DOMAIN g = {"tabs", "activeTabId"} /\ SoundIdsOf(g)
  BY OfGroup
<1>3. /\ h.tabs = [g.tabs EXCEPT ![i] = t] /\ h.activeTabId = g.activeTabId
      /\ IdsOf(h) = IdsOf(g) /\ SoundIdsOf(h)
  BY <1>2, IdsOfPut
<1> HIDE DEF h
<1>4. gs = With(byWorkspace, w, h)
  BY ExceptIsWith DEF Groups
<1> HIDE DEF gs
<1>5. SoundIds(gs) /\ Ids(gs) = alive' /\ w \in DOMAIN gs /\ gs[w] = h
  <2>1. LET hs == With(byWorkspace, w, h)
        IN  SoundIds(hs) /\ Ids(hs) = alive /\ DOMAIN hs = Groups /\ hs[w] = h
    BY <1>3, SameIds
  <2> QED BY <1>4, <2>1
<1>6. i \in DOMAIN h.tabs /\ h.tabs[i] = t
  BY <1>3
<1>7. Leads(w, gs)
  BY <1>1, <1>5 DEF Leads
<1>8. ASSUME NEW p, g.tabs[i].id = g.activeTabId, Here(t) = p PROVE Reaches(w, gs, p)
  BY <1>3, <1>5, <1>6, <1>8 DEF Reaches
<1> QED BY <1>7, <1>8

LEMMA SwitchLeads ==
  ASSUME HistoryInv, IdsInv, NEW w, NEW p \in Where, SwitchWorkspace(w, p)
  PROVE  \E gs : Leads(w, gs) /\ Reaches(w, gs, p)
<1>1. CASE w \notin Groups
  <2> DEFINE t == Tab(Fresh(byWorkspace), p)  g == [tabs |-> <<t>>, activeTabId |-> t.id]
             gs == With(byWorkspace, w, g)
  <2>1. Room /\ alive' = alive \cup {t.id} /\ Store(w, gs)
    BY <1>1 DEF SwitchWorkspace
  <2>2. t.id = Fresh(byWorkspace) /\ Here(t) = p
    BY HasId
  <2> HIDE DEF t
  <2>3. IdsOf(g) = {t.id} /\ SoundIdsOf(g) /\ DOMAIN g.tabs = {1} /\ g.tabs[1] = t
    BY IdsOfOne
  <2>4. g.activeTabId = t.id
    OBVIOUS
  <2> HIDE DEF g
  <2>5. SoundIds(gs) /\ Ids(gs) = alive' /\ w \in DOMAIN gs /\ gs[w] = g
    <3>1. IdsOf(g) = (IF w \in Groups THEN IdsOf(byWorkspace[w]) ELSE {}) \cup {Fresh(byWorkspace)}
      BY <1>1, <2>2, <2>3
    <3>2. /\ SoundIds(gs) /\ Ids(gs) = alive \cup {Fresh(byWorkspace)}
          /\ DOMAIN gs = Groups \cup {w} /\ gs[w] = g
      BY <2>1, <2>3, <3>1, OneMoreId
    <3> QED BY <2>1, <2>2, <3>2
  <2> HIDE DEF gs
  <2>6. Leads(w, gs) /\ Reaches(w, gs, p)
    BY <2>1, <2>2, <2>3, <2>4, <2>5 DEF Leads, Reaches
  <2> QED BY <2>6
<1>2. CASE w \in Groups
  <2> DEFINE i == Match(byWorkspace[w], p)  t == Tab(Fresh(byWorkspace), p)
  <2>1. CASE /\ i # 0 /\ UNCHANGED alive
             /\ Store(w, [byWorkspace EXCEPT ![w].activeTabId = byWorkspace[w].tabs[i].id])
    <3>1. i \in DOMAIN byWorkspace[w].tabs /\ byWorkspace[w].tabs[i].path = p
      BY <1>2, <2>1, OfGroup, MatchFinds
    <3> HIDE DEF i
    <3> QED BY <1>2, <2>1, <3>1, ShownLeads
  <2>2. CASE /\ Room /\ alive' = alive \cup {t.id}
             /\ Store(w, [byWorkspace EXCEPT ![w] =
                           [tabs |-> Append(byWorkspace[w].tabs, t), activeTabId |-> t.id]])
    <3>1. t.id = Fresh(byWorkspace)
      BY HasId
    <3> QED BY <1>2, <2>2, <3>1, AddedLeads
  <2> QED BY <1>2, <2>1, <2>2 DEF SwitchWorkspace
<1> QED BY <1>1, <1>2

LEMMA AddTabLeads ==
  ASSUME HistoryInv, IdsInv, activeWorkspaceSlug # None, NEW p \in Where, AddTab(p)
  PROVE  \E gs : Leads(activeWorkspaceSlug, gs) /\ Reaches(activeWorkspaceSlug, gs, p)
<1> DEFINE w == activeWorkspaceSlug  t == Tab(Fresh(byWorkspace), p)
<1>1. w \in Groups
  BY DEF IdsInv
<1>2. Room /\ alive' = alive \cup {Fresh(byWorkspace)}
  BY HasId DEF AddTab
<1>3. Store(w, [byWorkspace EXCEPT ![w] =
                  [tabs |-> Append(byWorkspace[w].tabs, t), activeTabId |-> t.id]])
  BY DEF AddTab
<1> HIDE DEF w
<1>4. \E gs : Leads(w, gs) /\ Reaches(w, gs, p)
  BY <1>1, <1>2, <1>3, AddedLeads
<1> QED BY <1>4 DEF w

LEMMA OpenTabLeads ==
  ASSUME HistoryInv, IdsInv, activeWorkspaceSlug # None, NEW p \in Where, OpenTab(p)
  PROVE  \E gs : Leads(activeWorkspaceSlug, gs) /\ Reaches(activeWorkspaceSlug, gs, p)
<1> DEFINE w == activeWorkspaceSlug  i == Match(byWorkspace[w], p)
<1>1. w \in Groups
  BY DEF IdsInv
<1>2. CASE i # 0 /\ UNCHANGED alive
           /\ Store(w, [byWorkspace EXCEPT ![w].activeTabId = byWorkspace[w].tabs[i].id])
  <2>1. i \in DOMAIN byWorkspace[w].tabs /\ byWorkspace[w].tabs[i].path = p
    BY <1>1, <1>2, OfGroup, MatchFinds
  <2> HIDE DEF w, i
  <2>2. \E gs : Leads(w, gs) /\ Reaches(w, gs, p)
    BY <1>1, <1>2, <2>1, ShownLeads
  <2> QED BY <2>2 DEF w
<1>3. CASE AddTab(p)
  BY <1>3, AddTabLeads
<1> QED BY <1>2, <1>3 DEF OpenTab

(* The router of the active tab. *)
LEMMA RouterLeads ==
  ASSUME HistoryInv, IdsInv, activeWorkspaceSlug # None, NEW t,
         SoundTab(ActiveTab) => t.id = ActiveTab.id, SetActiveRouter(t)
  PROVE  \E gs : Leads(activeWorkspaceSlug, gs) /\ Reaches(activeWorkspaceSlug, gs, Here(t))
<1> DEFINE w == activeWorkspaceSlug  i == At(byWorkspace[w], byWorkspace[w].activeTabId)
<1>1. w \in Groups
  BY DEF IdsInv
<1>2. i \in DOMAIN byWorkspace[w].tabs /\ byWorkspace[w].tabs[i].id = byWorkspace[w].activeTabId
  BY <1>1, OfGroup, ShownAt
<1>3. ActiveTab = byWorkspace[w].tabs[i]
  BY DEF ActiveTab, Shown
<1>4. t.id = byWorkspace[w].tabs[i].id
  BY <1>1, <1>2, <1>3, OfGroup
<1>5. Store(w, Put(w, i, t)) /\ UNCHANGED alive
  BY DEF SetActiveRouter
<1> HIDE DEF w, i
<1>6. \E gs : Leads(w, gs) /\ Reaches(w, gs, Here(t))
  BY <1>1, <1>2, <1>4, <1>5, PutLeads
<1> QED BY <1>6 DEF w

LEMMA SameTab ==
  ASSUME NEW t, SoundTab(t), NEW p \in Where, NEW forward \in BOOLEAN
  PROVE  /\ AfterPush(t, p).id = t.id /\ Here(AfterPush(t, p)) = p
         /\ AfterReplace(t, p).id = t.id /\ Here(AfterReplace(t, p)) = p
         /\ AfterPop(t, forward).id = t.id
<1>1. {"id", "path", "stack", "at"} \subseteq DOMAIN t /\ t.at \in 1..Len(t.stack) /\ IsSeq(t.stack)
  BY DEF SoundTab, Counted
<1>2. AfterReplace(t, p).id = t.id /\ Here(AfterReplace(t, p)) = p
  BY <1>1 DEF AfterReplace, Heard, Here, IsSeq
<1>3. AfterPop(t, forward).id = t.id
  BY <1>1 DEF AfterPop, Heard
<1>4. AfterPush(t, p).id = t.id /\ Here(AfterPush(t, p)) = p
  <2> DEFINE u == Pushed(t, p)
  <2>1. u.id = t.id /\ Here(u) = p /\ DOMAIN u = DOMAIN t
    BY PushedSound
  <2> HIDE DEF u
  <2>2. /\ Heard([u EXCEPT !.indexRef = @ + 1, !.lengthRef = t.indexRef + 2]).id = u.id
        /\ Here(Heard([u EXCEPT !.indexRef = @ + 1, !.lengthRef = t.indexRef + 2])) = Here(u)
    BY <1>1, <2>1 DEF Heard, Here
  <2> QED BY <2>1, <2>2 DEF AfterPush, u
<1> QED BY <1>2, <1>3, <1>4
LEMMA ValidateLeads ==
  ASSUME IdsInv, NEW valid, ValidateWorkspaceSlugs(valid)
  PROVE  \E a, gs : Leads(a, gs)
<1> DEFINE kept == [w \in Groups \cap valid |-> byWorkspace[w]]
           gone == [w \in Groups \ valid |-> byWorkspace[w]]
<1>1. PICK a : /\ Store(a, kept)
               /\ \/ a = activeWorkspaceSlug /\ a \in valid \cup {None}
                  \/ a \in DOMAIN kept
                  \/ a = None
  BY DEF ValidateWorkspaceSlugs
<1>2. alive' = alive \ Ids(gone)
  BY DEF ValidateWorkspaceSlugs, Disposed, Groups
<1>3. SoundIds(kept) /\ Ids(kept) = Ids(byWorkspace) \ Ids(gone)
  BY KeptIds DEF IdsInv
<1>4. a # None => a \in DOMAIN kept
  BY <1>1 DEF IdsInv
<1>5. alive = Ids(byWorkspace)
  BY DEF IdsInv
<1> HIDE DEF kept, gone
<1>6. Leads(a, kept)
  BY <1>1, <1>2, <1>3, <1>4, <1>5 DEF Leads
<1> QED BY <1>6

LEMMA ResetLeads ==
  ASSUME IdsInv, Reset
  PROVE  \E a, gs : Leads(a, gs)
<1> DEFINE gone == [w \in DOMAIN byWorkspace \ {} |-> byWorkspace[w]]
<1>1. Store(None, <<>>) /\ alive' = Ids(byWorkspace) \ Ids(gone)
  BY DEF Reset, Disposed, IdsInv
<1>2. Ids(gone) = Ids(byWorkspace)
  BY DEF Ids
<1> HIDE DEF gone
<1>3. alive' = {}
  BY <1>1, <1>2
<1>4. Leads(None, <<>>)
  BY <1>1, <1>3, NoIds DEF Leads
<1> QED BY <1>4

LEMMA ChooseFirstLeads ==
  ASSUME NEW valid, ChooseFirst(valid)
  PROVE  \E a, gs : Leads(a, gs)
<1>1. PICK w \in valid :
        LET t == Tab(Fresh(<<>>), Default(w)) IN
          Store(w, With(<<>>, w, [tabs |-> <<t>>, activeTabId |-> t.id])) /\ alive' = {t.id}
  BY DEF ChooseFirst
<1> DEFINE t == Tab(Fresh(<<>>), Default(w))  g == [tabs |-> <<t>>, activeTabId |-> t.id]
           gs == With(<<>>, w, g)
<1>2. Store(w, gs) /\ alive' = {t.id}
  BY <1>1
<1>3. t.id = Fresh(<<>>)
  BY HasId
<1>4. Fits({t.id})
  <2>1. Fits({}) /\ Cardinality({}) < MaxTabs
    BY NoIds, FS_EmptySet, TabsAssumption DEF SoundIds
  <2>2. Fits({} \cup {Fresh(<<>>)})
    BY <2>1, NoIds, FreshTab
  <2> QED BY <1>3, <2>2
<1> HIDE DEF t
<1>5. IdsOf(g) = {t.id} /\ SoundIdsOf(g)
  BY IdsOfOne
<1> HIDE DEF g
<1>6. SoundIds(gs) /\ Ids(gs) = {t.id}
  <2>1. NoOthers(<<>>, w, g)
    BY NoIds DEF NoOthers
  <2>2. (Ids(<<>>) \ OldIds(<<>>, w)) \cup IdsOf(g) = {t.id}
    BY <1>5, NoIds
  <2>3. SoundIds(gs) /\ Ids(gs) = (Ids(<<>>) \ OldIds(<<>>, w)) \cup IdsOf(g)
    BY <1>4, <1>5, <2>1, <2>2, NoIds, ChangedIds
  <2> QED BY <2>2, <2>3
<1>7. w \in DOMAIN gs
  BY DEF With
<1> HIDE DEF gs
<1>8. Leads(w, gs)
  BY <1>2, <1>6, <1>7 DEF Leads
<1> QED BY <1>8

(* Groups that have lost tabs, or were lost. *)
LEMMA FewerIds ==
  ASSUME SoundIds(byWorkspace), NEW gs, DOMAIN gs \subseteq Groups,
         \A w \in DOMAIN gs : SoundIdsOf(gs[w]) /\ IdsOf(gs[w]) \subseteq IdsOf(byWorkspace[w])
  PROVE  SoundIds(gs)
<1>1. \A w \in Groups : IdsOf(byWorkspace[w]) \subseteq Ids(byWorkspace)
  BY DEF Ids, Groups
<1>2. ASSUME NEW id \in Ids(gs) PROVE id \in Ids(byWorkspace)
  <2>1. PICK w \in DOMAIN gs : id \in IdsOf(gs[w])
    BY DEF Ids
  <2> QED BY <1>1, <2>1
<1>3. Fits(Ids(gs))
  <2>1. Ids(gs) \subseteq Ids(byWorkspace) /\ Fits(Ids(byWorkspace))
    BY <1>2 DEF SoundIds
  <2> QED BY <2>1, FitsSubset
<1>4. ASSUME NEW w \in DOMAIN gs, NEW x \in DOMAIN gs, w # x
      PROVE  IdsOf(gs[w]) \cap IdsOf(gs[x]) = {}
  <2>1. IdsOf(byWorkspace[w]) \cap IdsOf(byWorkspace[x]) = {}
    BY <1>4 DEF SoundIds, Groups
  <2> QED BY <2>1
<1> QED BY <1>3, <1>4 DEF SoundIds

LEMMA ReopenedIds ==
  ASSUME HistoryInv, IdsInv, NEW w \in Groups, Reopened(w) # <<>>, NEW a,
         a = IF \E t \in ToSet(Reopened(w)) : t.id = byWorkspace[w].activeTabId
               THEN byWorkspace[w].activeTabId ELSE Reopened(w)[1].id
  PROVE  LET g == [tabs |-> Reopened(w), activeTabId |-> a]
         IN  SoundIdsOf(g) /\ IdsOf(g) \subseteq IdsOf(byWorkspace[w])
<1> DEFINE s == byWorkspace[w].tabs  r == Reopened(w)  g == [tabs |-> r, activeTabId |-> a]
<1>1. PICK n, f :
        /\ n \in Nat
        /\ r = [k \in 1..n |-> Tab(s[f[k]].id, s[f[k]].path)]
        /\ f \in [1..n -> DOMAIN s]
        /\ \A k, m \in 1..n : f[k] = f[m] => k = m
  BY ReopenedTabs
<1>2. \A k \in 1..n : r[k].id = s[f[k]].id /\ f[k] \in DOMAIN s
  BY <1>1, HasId
<1>3. DOMAIN r = 1..n
  BY <1>1
<1>4. IdsOf(byWorkspace[w]) = {s[k].id : k \in DOMAIN s} /\ \A j, k \in DOMAIN s : s[j].id = s[k].id => j = k
  BY OfGroup DEF IdsOf, SoundIdsOf
<1>5. n # 0
  <2>1. SoundTabs(r) /\ r # <<>>
    BY ReopenedSound
  <2> HIDE DEF r
  <2>2. Len(r) # 0
    <3>1. CASE Len(r) = 0
      <4>1. r = [i \in 1..0 |-> r[i]]
        BY <2>1, <3>1 DEF SoundTabs, IsSeq
      <4> QED BY <2>1, <4>1
    <3> QED BY <3>1
  <2>3. 1 \in DOMAIN r
    BY <2>1, <2>2 DEF SoundTabs, IsSeq
  <2> QED BY <1>3, <2>3
<1>6. g.tabs = r /\ g.activeTabId = a
  OBVIOUS
<1>7. a = IF \E t \in ToSet(r) : t.id = byWorkspace[w].activeTabId
            THEN byWorkspace[w].activeTabId ELSE r[1].id
  OBVIOUS
<1> HIDE DEF r, g, s
<1>8. IdsOf(g) = {r[k].id : k \in 1..n}
  BY <1>3, <1>6 DEF IdsOf
<1>9. IdsOf(g) \subseteq IdsOf(byWorkspace[w])
  BY <1>2, <1>4, <1>8
<1>10. a \in IdsOf(g)
  <2>1. CASE \E t \in ToSet(r) : t.id = byWorkspace[w].activeTabId
    <3>1. PICK t \in ToSet(r) : t.id = byWorkspace[w].activeTabId
      BY <2>1
    <3>2. \E k \in 1..n : r[k] = t
      BY <1>3, <3>1 DEF ToSet
    <3>3. a = t.id
      BY <1>7, <3>1
    <3> QED BY <1>8, <3>2, <3>3
  <2>2. CASE ~\E t \in ToSet(r) : t.id = byWorkspace[w].activeTabId
    <3>1. 1 \in 1..n
      BY <1>1, <1>5
    <3>2. a = r[1].id
      BY <1>7, <2>2
    <3> QED BY <1>8, <3>1, <3>2
  <2> QED BY <2>1, <2>2
<1>11. \A j, k \in 1..n : r[j].id = r[k].id => j = k
  <2>1. ASSUME NEW j \in 1..n, NEW k \in 1..n, r[j].id = r[k].id PROVE j = k
    <3>1. f[j] = f[k]
      BY <1>2, <1>4, <2>1
    <3> QED BY <1>1, <3>1
  <2> QED BY <2>1
<1>12. SoundIdsOf(g)
  BY <1>3, <1>6, <1>10, <1>11 DEF SoundIdsOf
<1> QED BY <1>9, <1>12 DEF g, r

LEMMA RestartLeads ==
  ASSUME HistoryInv, IdsInv, Restart
  PROVE  \E a, gs : Leads(a, gs)
<1> DEFINE shown(w) == IF \E t \in ToSet(Reopened(w)) : t.id = byWorkspace[w].activeTabId
                         THEN byWorkspace[w].activeTabId ELSE Reopened(w)[1].id
           gs == [w \in {x \in Groups : Reopened(x) # <<>>} |->
                    [tabs |-> Reopened(w), activeTabId |-> shown(w)]]
<1>1. alive' = Ids(gs)
  BY DEF Restart
<1>2. PICK a : Store(a, gs) /\ (a \in DOMAIN gs \/ a = None)
  BY DEF Restart
<1>3. DOMAIN gs = {x \in Groups : Reopened(x) # <<>>}
  OBVIOUS
<1>4. \A w \in DOMAIN gs : gs[w] = [tabs |-> Reopened(w), activeTabId |-> shown(w)]
  OBVIOUS
<1> HIDE DEF gs
<1>5. ASSUME NEW w \in DOMAIN gs
      PROVE  SoundIdsOf(gs[w]) /\ IdsOf(gs[w]) \subseteq IdsOf(byWorkspace[w])
  <2> DEFINE sh == shown(w)  g == [tabs |-> Reopened(w), activeTabId |-> sh]
  <2>1. w \in Groups /\ Reopened(w) # <<>>
    BY <1>3
  <2>2. sh = IF \E t \in ToSet(Reopened(w)) : t.id = byWorkspace[w].activeTabId
               THEN byWorkspace[w].activeTabId ELSE Reopened(w)[1].id
    OBVIOUS
  <2>3. gs[w] = g
    BY <1>4
  <2> HIDE DEF sh
  <2>4. SoundIdsOf(g) /\ IdsOf(g) \subseteq IdsOf(byWorkspace[w])
    BY <2>1, <2>2, ReopenedIds
  <2> QED BY <2>3, <2>4
<1>6. SoundIds(gs)
  BY <1>3, <1>5, FewerIds DEF IdsInv
<1>7. Leads(a, gs)
  BY <1>1, <1>2, <1>6 DEF Leads
<1> QED BY <1>7

LEMMA CloseLeads ==
  ASSUME HistoryInv, IdsInv, NEW i, Close(i)
  PROVE  \E a, gs : Leads(a, gs)
<1> DEFINE w == activeWorkspaceSlug  g == byWorkspace[w]  gone == g.tabs[i].id
           n == CHOOSE m \in 0..MaxTabs : m \notin Ids(byWorkspace)
           fresh == Tab(n, Default(w))
           left == [tabs |-> RemoveAt(g.tabs, i),
                    activeTabId |-> IF g.activeTabId = gone THEN Neighbour(g, i) ELSE g.activeTabId]
           renewed == [tabs |-> <<fresh>>, activeTabId |-> fresh.id]
<1>1. w \in Groups /\ i \in DOMAIN g.tabs
  BY DEF Close, SomeTab, IdsInv
<1>2. SoundTabs(g.tabs) /\ SoundIdsOf(g) /\ SoundIds(byWorkspace) /\ alive = Ids(byWorkspace)
  BY <1>1, OfGroup DEF IdsInv
<1>3. gone \in IdsOf(g) /\ IdsOf(g) \subseteq Ids(byWorkspace)
  BY <1>1, OfGroup DEF IdsOf
<1>4. OldIds(byWorkspace, w) = IdsOf(g)
  BY <1>1 DEF OldIds, Groups
<1>5. CASE /\ Len(g.tabs) = 1 /\ alive' = (alive \ {gone}) \cup {fresh.id}
           /\ Store(w, [byWorkspace EXCEPT ![w] = renewed])
  <2> DEFINE gs == With(byWorkspace, w, renewed)
  <2>1. Store(w, gs)
    BY <1>1, <1>5, ExceptIsWith DEF Groups
  <2>2. fresh.id = n
    BY HasId
  <2>3. n \notin Ids(byWorkspace) /\ Fits((Ids(byWorkspace) \ {gone}) \cup {n})
    BY <1>2, <1>3, FreshId DEF SoundIds
  <2> HIDE DEF n, fresh
  <2>4. IdsOf(renewed) = {n} /\ SoundIdsOf(renewed)
    BY <2>2, IdsOfOne
  <2>5. IdsOf(g) = {gone}
    <3>1. DOMAIN g.tabs = {1} /\ i = 1
      BY <1>1, <1>2, <1>5 DEF SoundTabs, IsSeq
    <3> QED BY <3>1 DEF IdsOf
  <2> HIDE DEF renewed, gone, w
  <2>6. NoOthers(byWorkspace, w, renewed)
    BY <2>3, <2>4 DEF NoOthers
  <2>7. Fits((Ids(byWorkspace) \ OldIds(byWorkspace, w)) \cup IdsOf(renewed))
    BY <1>4, <2>3, <2>4, <2>5
  <2>8. SoundIds(gs) /\ Ids(gs) = (Ids(byWorkspace) \ OldIds(byWorkspace, w)) \cup IdsOf(renewed)
    BY <1>2, <2>4, <2>6, <2>7, ChangedIds
  <2>9. alive' = Ids(gs)
    BY <1>2, <1>4, <1>5, <2>2, <2>4, <2>5, <2>8
  <2>10. w \in DOMAIN gs
    BY DEF With
  <2> HIDE DEF gs
  <2>11. Leads(w, gs)
    BY <2>1, <2>8, <2>9, <2>10 DEF Leads
  <2> QED BY <2>11
<1>6. CASE /\ Len(g.tabs) > 1 /\ alive' = alive \ {gone}
           /\ Store(w, [byWorkspace EXCEPT ![w] = left])
  <2> DEFINE gs == With(byWorkspace, w, left)
  <2>1. Store(w, gs)
    BY <1>1, <1>6, ExceptIsWith DEF Groups
  <2>2. IdsOf(left) = IdsOf(g) \ {gone} /\ SoundIdsOf(left)
    BY <1>1, <1>2, <1>6, IdsOfRemoved
  <2> HIDE DEF left, gone, w
  <2>3. (Ids(byWorkspace) \ OldIds(byWorkspace, w)) \cup IdsOf(left) = Ids(byWorkspace) \ {gone}
    BY <1>3, <1>4, <2>2
  <2>4. NoOthers(byWorkspace, w, left)
    BY <1>4, <2>2 DEF NoOthers
  <2>5. Fits((Ids(byWorkspace) \ OldIds(byWorkspace, w)) \cup IdsOf(left))
    <3>1. Fits(Ids(byWorkspace)) /\ Ids(byWorkspace) \ {gone} \subseteq Ids(byWorkspace)
      BY <1>2 DEF SoundIds
    <3> QED BY <2>3, <3>1, FitsSubset
  <2>6. SoundIds(gs) /\ Ids(gs) = (Ids(byWorkspace) \ OldIds(byWorkspace, w)) \cup IdsOf(left)
    BY <1>2, <2>2, <2>4, <2>5, ChangedIds
  <2>7. w \in DOMAIN gs
    BY DEF With
  <2> HIDE DEF gs
  <2>8. Leads(w, gs)
    BY <1>2, <1>6, <2>1, <2>3, <2>6, <2>7 DEF Leads
  <2> QED BY <2>8
<1> QED BY <1>5, <1>6 DEF Close

LEMMA MoveLeads ==
  ASSUME HistoryInv, IdsInv, NEW i, NEW j, Move(i, j)
  PROVE  \E a, gs : Leads(a, gs)
<1> DEFINE w == activeWorkspaceSlug  g == byWorkspace[w]
           h == [g EXCEPT !.tabs = InsertAt(RemoveAt(g.tabs, i), j, g.tabs[i])]
           gs == [byWorkspace EXCEPT ![w] = h]
<1>1. w \in Groups /\ i \in DOMAIN g.tabs /\ j \in DOMAIN g.tabs
  BY DEF Move, SomeTab, IdsInv
<1>2. Store(w, gs) /\ UNCHANGED alive
  BY DEF Move
<1>3. DOMAIN g = {"tabs", "activeTabId"} /\ SoundTabs(g.tabs) /\ SoundIdsOf(g)
  BY <1>1, OfGroup
<1>4. IdsOf(h) = IdsOf(g) /\ SoundIdsOf(h)
  BY <1>1, <1>3, IdsOfMoved
<1> HIDE DEF h
<1>5. gs = With(byWorkspace, w, h)
  BY <1>1, ExceptIsWith DEF Groups
<1> HIDE DEF gs, w
<1>6. LET hs == With(byWorkspace, w, h)
      IN  SoundIds(hs) /\ Ids(hs) = alive /\ DOMAIN hs = Groups /\ hs[w] = h
  BY <1>1, <1>4, SameIds
<1>7. Leads(w, gs)
  BY <1>1, <1>2, <1>5, <1>6 DEF Leads
<1> QED BY <1>7

LEMMA SelectLeads ==
  ASSUME HistoryInv, IdsInv, NEW i, Select(i)
  PROVE  \E a, gs : Leads(a, gs)
<1> DEFINE w == activeWorkspaceSlug
<1>1. /\ w \in Groups /\ i \in DOMAIN byWorkspace[w].tabs /\ UNCHANGED alive
      /\ Store(w, [byWorkspace EXCEPT ![w].activeTabId = byWorkspace[w].tabs[i].id])
  BY DEF Select, SomeTab, IdsInv
<1> HIDE DEF w
<1> QED BY <1>1, ShownLeads

LEMMA LatePushLeads ==
  ASSUME HistoryInv, IdsInv, NEW w \in Groups, NEW i \in DOMAIN byWorkspace[w].tabs,
         NEW p \in Where, LatePush(w, i, p)
  PROVE  \E a, gs : Leads(a, gs) /\ (asked' = None \/ Reaches(a, gs, asked'))
<1>1. CASE SwitchWorkspace(w, p) /\ asked' = p
  BY <1>1, SwitchLeads
<1>2. CASE /\ Store(w, Put(w, i, [Pushed(byWorkspace[w].tabs[i], p) EXCEPT !.late = TRUE]))
           /\ UNCHANGED alive /\ asked' = None
  <2> DEFINE u == Pushed(byWorkspace[w].tabs[i], p)  t == [u EXCEPT !.late = TRUE]
  <2>1. SoundTab(byWorkspace[w].tabs[i])
    BY OfGroup
  <2>2. DOMAIN u = DOMAIN byWorkspace[w].tabs[i] /\ u.id = byWorkspace[w].tabs[i].id
    BY <2>1, PushedSound
  <2>3. "id" \in DOMAIN byWorkspace[w].tabs[i]
    BY <2>1 DEF SoundTab, Counted
  <2> HIDE DEF u
  <2>4. t.id = byWorkspace[w].tabs[i].id
    BY <2>2, <2>3
  <2>5. Store(w, Put(w, i, t)) /\ UNCHANGED alive
    BY <1>2 DEF u
  <2> HIDE DEF t
  <2>6. \E gs : Leads(w, gs)
    BY <2>4, <2>5, PutLeads
  <2> QED BY <1>2, <2>6
<1> QED BY <1>1, <1>2 DEF LatePush

-----------------------------------------------------------------------------
(* Every step, as far as whose tab is whose goes.                          *)
Led == \E a, gs : Leads(a, gs) /\ (asked' = None \/ Reaches(a, gs, asked'))

Rests ==
  /\ UNCHANGED <<activeWorkspaceSlug, byWorkspace, alive>>
  /\ asked' = asked \/ asked' = None

LEMMA ActiveTabSound ==
  ASSUME HistoryInv, IdsInv, activeWorkspaceSlug # None
  PROVE  SoundTab(ActiveTab)
<1> DEFINE g == byWorkspace[activeWorkspaceSlug]  i == At(g, g.activeTabId)
<1>1. activeWorkspaceSlug \in Groups
  BY DEF IdsInv
<1>2. i \in DOMAIN g.tabs
  BY <1>1, OfGroup, ShownAt
<1>3. ActiveTab = g.tabs[i]
  BY DEF ActiveTab, Shown
<1> HIDE DEF i
<1> QED BY <1>1, <1>2, <1>3, OfGroup

LEMMA NavigationLeads ==
  ASSUME HistoryInv, IdsInv, NEW p \in Paths, Push(p) \/ Replace(p) \/ OpenInNewTab(p) \/ OpenLink(p)
  PROVE  Led
<1> DEFINE w == activeWorkspaceSlug
<1>1. p \in Where /\ p.ws # None
  BY PathsAreSomewhere, TabsAssumption DEF Paths
<1>2. asked' = p
  BY DEF Push, Replace, OpenInNewTab, OpenLink
<1>3. \/ SwitchWorkspace(p.ws, p)
      \/ w # None /\ OpenTab(p)
      \/ w # None /\ SetActiveRouter(AfterPush(ActiveTab, p))
      \/ w # None /\ SetActiveRouter(AfterReplace(ActiveTab, p))
  BY <1>1 DEF Push, Replace, OpenInNewTab, OpenLink, SomeTab
<1>4. CASE SwitchWorkspace(p.ws, p)
  BY <1>1, <1>2, <1>4, SwitchLeads DEF Led
<1>5. CASE w # None /\ OpenTab(p)
  BY <1>1, <1>2, <1>5, OpenTabLeads DEF Led
<1>6. SoundTab(ActiveTab)
      => /\ AfterPush(ActiveTab, p).id = ActiveTab.id /\ AfterReplace(ActiveTab, p).id = ActiveTab.id
         /\ Here(AfterPush(ActiveTab, p)) = p /\ Here(AfterReplace(ActiveTab, p)) = p
  BY <1>1, SameTab
<1>7. w # None => SoundTab(ActiveTab)
  BY ActiveTabSound
<1>8. ASSUME w # None, NEW t \in {AfterPush(ActiveTab, p), AfterReplace(ActiveTab, p)}, SetActiveRouter(t)
      PROVE  Led
  <2>1. t.id = ActiveTab.id /\ Here(t) = p
    BY <1>6, <1>7, <1>8
  <2>2. \E gs : Leads(w, gs) /\ Reaches(w, gs, Here(t))
    BY <1>8, <2>1, RouterLeads
  <2> QED BY <1>2, <2>1, <2>2 DEF Led
<1> QED BY <1>3, <1>4, <1>5, <1>8

LEMMA HistoryLeads ==
  ASSUME HistoryInv, IdsInv, PushNewWorkspace \/ GoBack \/ GoForward \/ PageBack
  PROVE  Led
<1>1. asked' = None /\ activeWorkspaceSlug # None
  BY DEF PushNewWorkspace, GoBack, GoForward, PageBack, SomeTab
<1>2. PICK t \in {AfterReplace(ActiveTab, Root), AfterPop(ActiveTab, TRUE), AfterPop(ActiveTab, FALSE)} :
        SetActiveRouter(t)
  BY DEF PushNewWorkspace, GoBack, GoForward, PageBack
<1>3. SoundTab(ActiveTab) => t.id = ActiveTab.id
  BY <1>2, PathsAreSomewhere, SameTab
<1>4. \E gs : Leads(activeWorkspaceSlug, gs)
  BY <1>1, <1>2, <1>3, RouterLeads
<1> QED BY <1>1, <1>4 DEF Led

LEMMA SessionLeads ==
  ASSUME HistoryInv, IdsInv, NEW valid \in SUBSET Slugs, SignOut \/ List(valid) \/ Heal \/ Restart
  PROVE  Led
<1>1. asked' = None
  BY DEF SignOut, List, Heal, Restart
<1>2. Reset \/ ChooseFirst(valid) \/ ValidateWorkspaceSlugs(valid) \/ ValidateWorkspaceSlugs(list) \/ Restart
  BY DEF SignOut, List, Heal
<1>3. \E a, gs : Leads(a, gs)
  BY <1>2, ResetLeads, ChooseFirstLeads, ValidateLeads, RestartLeads
<1> QED BY <1>1, <1>3 DEF Led

LEMMA StepsLead ==
  ASSUME WindowInv, HistoryInv, IdsInv, [Next]_vars
  PROVE  Rests \/ Led
<1>1. CASE UNCHANGED vars
  BY <1>1 DEF vars, session, Rests
<1>2. CASE SignIn \/ OpenOverlay \/ CloseOverlay
  BY <1>2 DEF SignIn, OpenOverlay, CloseOverlay, session, Rests
<1>3. ASSUME NEW valid \in SUBSET Slugs, SignOut \/ List(valid) \/ Heal \/ Restart
      PROVE  Led
  BY <1>3, SessionLeads
<1>4. ASSUME NEW p \in Paths, Push(p) \/ Replace(p) \/ OpenInNewTab(p) \/ OpenLink(p)
      PROVE  Led
  BY <1>4, NavigationLeads
<1>5. CASE PushNewWorkspace \/ GoBack \/ GoForward \/ PageBack
  BY <1>5, HistoryLeads
<1>6. ASSUME NEW w \in Groups, NEW i \in DOMAIN byWorkspace[w].tabs, NEW p \in Paths, LatePush(w, i, p)
      PROVE  Led
  BY <1>6, PathsAreSomewhere, LatePushLeads DEF Led
<1>7. CASE NewTab
  <2>1. activeWorkspaceSlug \in Slugs /\ activeWorkspaceSlug # None
    BY <1>7 DEF NewTab, SomeTab, WindowInv
  <2>2. Default(activeWorkspaceSlug) \in Where
    BY <2>1, PathsAreSomewhere
  <2>3. AddTab(Default(activeWorkspaceSlug)) /\ asked' = Default(activeWorkspaceSlug)
    BY <1>7 DEF NewTab
  <2> QED BY <2>1, <2>2, <2>3, AddTabLeads DEF Led
<1>8. ASSUME NEW i \in Places, Select(i) \/ Close(i) \/ \E j \in Places : Move(i, j)
      PROVE  Led
  <2>1. asked' = None
    BY <1>8 DEF Select, Close, Move
  <2>2. \E a, gs : Leads(a, gs)
    BY <1>8, SelectLeads, CloseLeads, MoveLeads
  <2> QED BY <2>1, <2>2 DEF Led
<1>9. CASE Next
  <2>1. \/ SignIn \/ OpenOverlay \/ CloseOverlay
        \/ \E valid \in SUBSET Slugs : SignOut \/ List(valid) \/ Heal \/ Restart
        \/ \E p \in Paths : Push(p) \/ Replace(p) \/ OpenInNewTab(p) \/ OpenLink(p)
        \/ PushNewWorkspace \/ GoBack \/ GoForward \/ PageBack
        \/ \E w \in Groups : \E i \in DOMAIN byWorkspace[w].tabs, p \in Paths : LatePush(w, i, p)
        \/ NewTab \/ \E i \in Places : Select(i) \/ Close(i) \/ \E j \in Places : Move(i, j)
    BY <1>9 DEF Next
  <2> QED BY <2>1, <1>2, <1>3, <1>4, <1>5, <1>6, <1>7, <1>8
<1> QED BY <1>1, <1>9

-----------------------------------------------------------------------------
(* What the effects of the tabs leave alone.                               *)
Keeps(t, u) == u.id = t.id /\ u.late = t.late /\ Here(u) = Here(t)

LEMMA SettledTabKeeps ==
  ASSUME NEW t, NEW mounted, NEW visible,
         {"id", "late", "stack", "at"} \subseteq DOMAIN SettledTab(t, mounted, visible)
  PROVE  Keeps(t, SettledTab(t, mounted, visible))
<1>1. DOMAIN SettledTab(t, mounted, visible) = DOMAIN t
  BY DEF SettledTab
<1> QED BY <1>1 DEF Keeps, SettledTab, Here

LEMMA SettledKeeps ==
  ASSUME NEW a, NEW gs, Store(a, gs), HistoryInv', NEW w \in DOMAIN gs
  PROVE  /\ w \in Groups' /\ byWorkspace'[w].activeTabId = gs[w].activeTabId
         /\ DOMAIN byWorkspace'[w].tabs = DOMAIN gs[w].tabs
         /\ \A i \in DOMAIN gs[w].tabs : Keeps(gs[w].tabs[i], byWorkspace'[w].tabs[i])
<1> DEFINE new == [i \in DOMAIN gs[w].tabs |->
                     SettledTab(gs[w].tabs[i], w = a, gs[w].tabs[i].id = gs[w].activeTabId)]
           h == byWorkspace'[w]
<1>1. w \in Groups' /\ h = [gs[w] EXCEPT !.tabs = new]
  BY DEF Store, Settled, Groups
<1>2. DOMAIN h = {"tabs", "activeTabId"} /\ \A i \in DOMAIN h.tabs : SoundTab(h.tabs[i])
  BY <1>1 DEF HistoryInv, SoundGroups, SoundTabs, Groups
<1>3. h.tabs = new /\ h.activeTabId = gs[w].activeTabId
  BY <1>1, <1>2
<1> HIDE DEF h
<1>4. DOMAIN h.tabs = DOMAIN gs[w].tabs
  BY <1>3
<1>5. ASSUME NEW i \in DOMAIN gs[w].tabs PROVE Keeps(gs[w].tabs[i], h.tabs[i])
  <2>1. h.tabs[i] = SettledTab(gs[w].tabs[i], w = a, gs[w].tabs[i].id = gs[w].activeTabId)
    BY <1>3
  <2>2. {"id", "late", "stack", "at"} \subseteq DOMAIN h.tabs[i]
    BY <1>2, <1>4 DEF SoundTab, Counted
  <2> QED BY <2>1, <2>2, SettledTabKeeps
<1> QED BY <1>1, <1>3, <1>4, <1>5 DEF h

LEMMA SettledIds ==
  ASSUME NEW a, NEW gs, Store(a, gs), HistoryInv', SoundIds(gs)
  PROVE  SoundIds(byWorkspace)' /\ Ids(byWorkspace)' = Ids(gs)
<1> DEFINE new == byWorkspace'
<1>1. DOMAIN new = DOMAIN gs
  BY DEF Store, Settled
<1>2. \A w \in DOMAIN gs :
        /\ new[w].activeTabId = gs[w].activeTabId /\ DOMAIN new[w].tabs = DOMAIN gs[w].tabs
        /\ \A i \in DOMAIN gs[w].tabs : new[w].tabs[i].id = gs[w].tabs[i].id
  BY SettledKeeps DEF Keeps
<1> HIDE DEF new
<1>3. \A w \in DOMAIN gs : IdsOf(new[w]) = IdsOf(gs[w])
  BY <1>2 DEF IdsOf
<1>4. \A w \in DOMAIN gs : SoundIdsOf(new[w])
  BY <1>2, <1>3 DEF SoundIdsOf, SoundIds
<1>5. Ids(new) = Ids(gs)
  BY <1>1, <1>3 DEF Ids
<1>6. SoundIds(new)
  BY <1>1, <1>3, <1>4, <1>5 DEF SoundIds
<1> QED BY <1>5, <1>6 DEF new

(* What is led to is where the window is. *)
LEMMA ReachedIsShown ==
  ASSUME NEW a, NEW gs, Store(a, gs), HistoryInv', IdsInv', NEW p, Reaches(a, gs, p)
  PROVE  ActiveTab'.late \/ Here(ActiveTab)' = p
<1>1. PICK i \in DOMAIN gs[a].tabs : /\ gs[a].activeTabId = gs[a].tabs[i].id
                                     /\ gs[a].tabs[i].late \/ Here(gs[a].tabs[i]) = p
  BY DEF Reaches
<1> DEFINE h == byWorkspace'[a]
<1>2. /\ a \in Groups' /\ h.activeTabId = gs[a].activeTabId /\ i \in DOMAIN h.tabs
      /\ Keeps(gs[a].tabs[i], h.tabs[i])
  BY SettledKeeps DEF Reaches
<1>3. SoundIdsOf(h)
  BY <1>2 DEF IdsInv, SoundIds, Groups
<1>4. h.tabs[i].id = h.activeTabId
  BY <1>1, <1>2 DEF Keeps
<1>5. ActiveTab' = h.tabs[At(h, h.activeTabId)]
  BY DEF Store, ActiveTab, Shown
<1>6. At(h, h.activeTabId) = i
  BY <1>2, <1>3, <1>4, ShownAt
<1>7. ActiveTab' = h.tabs[i] /\ Here(ActiveTab)' = Here(h.tabs[i])
  BY <1>5, <1>6 DEF Here
<1>8. gs[a].tabs[i].late \/ Here(gs[a].tabs[i]) = p
  BY <1>1
<1> QED BY <1>2, <1>7, <1>8 DEF Keeps

(* Ids are sound after every step, and the window is where it was led. *)
LEMMA IdsInvStep == WindowInv /\ HistoryInv /\ HistoryInv' /\ IdsInv /\ [Next]_vars => IdsInv'
<1> SUFFICES ASSUME WindowInv, HistoryInv, HistoryInv', IdsInv, [Next]_vars PROVE IdsInv'
  OBVIOUS
<1>1. CASE Rests
  BY <1>1 DEF Rests, IdsInv, SoundIds, Groups
<1>2. CASE Led
  <2>1. PICK a, gs : Leads(a, gs)
    BY <1>2 DEF Led
  <2>2. SoundIds(byWorkspace)' /\ Ids(byWorkspace)' = Ids(gs)
    BY <2>1, SettledIds DEF Leads
  <2>3. activeWorkspaceSlug' # None => activeWorkspaceSlug' \in Groups'
    BY <2>1 DEF Leads, Store, Settled, Groups
  <2> QED BY <2>1, <2>2, <2>3 DEF Leads, IdsInv
<1> QED BY <1>1, <1>2, StepsLead

LEMMA IdsInvariant == Spec => []IdsInv
<1>1. Init => IdsInv
  BY NoIds DEF Init, IdsInv
<1> QED BY <1>1, IdsInvStep, WindowInvariant, HistoryInvariant, PTL DEF Spec

(* A group always has a tab and shows one of its own, no two tabs share an *)
(* id, whatever their workspaces, and the active workspace has a group.    *)
THEOREM GroupsAreSound == Spec => []GroupsSound
<1>1. IdsInv => GroupsSound
  <2> SUFFICES ASSUME IdsInv PROVE GroupsSound
    OBVIOUS
  <2>1. \A w \in Groups : SoundIdsOf(byWorkspace[w])
    BY DEF IdsInv, SoundIds, Groups
  <2>2. ASSUME NEW w \in Groups, NEW x \in Groups,
               NEW i \in DOMAIN byWorkspace[w].tabs, NEW j \in DOMAIN byWorkspace[x].tabs,
               byWorkspace[w].tabs[i].id = byWorkspace[x].tabs[j].id
        PROVE  w = x /\ i = j
    <3>1. CASE w = x
      BY <2>1, <2>2, <3>1 DEF SoundIdsOf
    <3>2. CASE w # x
      <4>1. byWorkspace[w].tabs[i].id \in IdsOf(byWorkspace[w]) \cap IdsOf(byWorkspace[x])
        BY <2>2 DEF IdsOf
      <4>2. IdsOf(byWorkspace[w]) \cap IdsOf(byWorkspace[x]) = {}
        BY <3>2 DEF IdsInv, SoundIds, Groups
      <4> QED BY <4>1, <4>2
    <3> QED BY <3>1, <3>2
  <2>3. \A w \in Groups : byWorkspace[w].activeTabId \in IdsOf(byWorkspace[w])
    BY <2>1 DEF SoundIdsOf
  <2> QED BY <2>2, <2>3 DEF GroupsSound, IdsInv
<1> QED BY <1>1, IdsInvariant, PTL

(* No router outlives its tab, and none is disposed under a tab that       *)
(* stays, for any number of workspaces and tabs.                           *)
THEOREM RoutersAreOwned == Spec => []RoutersOwned
<1>1. IdsInv => RoutersOwned
  BY DEF IdsInv, RoutersOwned
<1> QED BY <1>1, IdsInvariant, PTL

(* A navigation ends where it was to lead, unless the tab it finds by its  *)
(* path has been elsewhere while nobody listened.                          *)
LEMMA LandsStep ==
  WindowInv /\ HistoryInv /\ HistoryInv' /\ IdsInv /\ IdsInv' /\ Lands /\ [Next]_vars => Lands'
<1> SUFFICES ASSUME WindowInv, HistoryInv, HistoryInv', IdsInv, IdsInv', Lands, [Next]_vars,
                    asked' # None
             PROVE  ActiveTab'.late \/ Here(ActiveTab)' = asked'
  BY DEF Lands
<1>1. CASE Rests
  <2>1. ActiveTab' = ActiveTab /\ Here(ActiveTab)' = Here(ActiveTab) /\ asked' = asked
    BY <1>1 DEF Rests, ActiveTab, Shown, At, Here
  <2> QED BY <2>1 DEF Lands
<1>2. CASE Led
  <2>1. PICK a, gs : Leads(a, gs) /\ Reaches(a, gs, asked')
    BY <1>2 DEF Led
  <2> QED BY <2>1, ReachedIsShown DEF Leads
<1> QED BY <1>1, <1>2, StepsLead

(* A navigation a page asks for ends where it was to lead, whether it made *)
(* a tab, found one by the path the store has for it, or changed the       *)
(* workspace, for any numbers of workspaces and tabs.                      *)
THEOREM NavigationLands == Spec => []Lands
<1>1. Init => Lands
  BY DEF Init, Lands
<1> QED BY <1>1, LandsStep, IdsInvariant, WindowInvariant, HistoryInvariant, PTL DEF Spec

-----------------------------------------------------------------------------
(* The rest of the state.                                                  *)
SessionInv ==
  /\ user \in BOOLEAN /\ fetched \in BOOLEAN /\ overlay \in BOOLEAN
  /\ asked \in Paths \cup {None} /\ acts \in 0..MaxActs

LEMMA SessionInvStep == WindowInv /\ SessionInv /\ [Next]_vars => SessionInv'
<1> SUFFICES ASSUME WindowInv, SessionInv, [Next]_vars PROVE SessionInv'
  OBVIOUS
<1>1. acts' \in 0..MaxActs
  <2>1. Act \/ UNCHANGED acts
    BY DEF Next, vars, SignIn, SignOut, List, Heal, Restart, Push, Replace, OpenInNewTab, OpenLink,
           PushNewWorkspace, OpenOverlay, CloseOverlay, LatePush, GoBack, GoForward, PageBack,
           NewTab, Select, Close, Move
  <2> QED BY <2>1, TabsAssumption DEF Act, SessionInv
<1>2. asked' \in Paths \cup {None}
  BY PathsAreSomewhere
     DEF Next, vars, SignIn, SignOut, List, Heal, Restart, Push, Replace, OpenInNewTab, OpenLink,
         PushNewWorkspace, OpenOverlay, CloseOverlay, LatePush, GoBack, GoForward, PageBack,
         NewTab, Select, Close, Move, SomeTab, WindowInv, SessionInv
<1>3. user' \in BOOLEAN /\ fetched' \in BOOLEAN /\ overlay' \in BOOLEAN
  BY DEF Next, vars, session, SignIn, SignOut, List, Heal, Restart, Push, Replace, OpenInNewTab, OpenLink,
         PushNewWorkspace, OpenOverlay, CloseOverlay, LatePush, GoBack, GoForward, PageBack,
         NewTab, Select, Close, Move, SessionInv
<1> QED BY <1>1, <1>2, <1>3 DEF SessionInv

LEMMA SessionInvariant == Spec => []SessionInv
<1>1. Init => SessionInv
  <2>1. Init => acts \in 0..MaxActs
    BY TabsAssumption DEF Init
  <2>2. Init => asked \in Paths \cup {None}
    BY DEF Init
  <2>3. Init => user \in BOOLEAN /\ fetched \in BOOLEAN /\ overlay \in BOOLEAN
    BY DEF Init
  <2> QED BY <2>1, <2>2, <2>3 DEF SessionInv
<1> QED BY <1>1, SessionInvStep, WindowInvariant, PTL DEF Spec

(* Every tab's paths are paths, its router is at one of its entries, and   *)
(* both of its counts are within their lengths.                            *)
THEOREM TabsTyped == Spec => []TypeOK
<1>1. WindowInv /\ HistoryInv /\ SessionInv => TypeOK
  <2> SUFFICES ASSUME WindowInv, HistoryInv, SessionInv PROVE TypeOK
    OBVIOUS
  <2>1. ASSUME NEW w \in Groups, NEW i \in DOMAIN byWorkspace[w].tabs, NEW t, t = byWorkspace[w].tabs[i]
        PROVE  /\ {t.path} \cup ToSet(t.stack) \subseteq Paths \cup {Root}
               /\ t.at \in DOMAIN t.stack
               /\ t.indexRef < t.lengthRef /\ t.historyIndex < t.historyLength
    <3>1. SoundTab(t)
      BY <2>1 DEF HistoryInv, SoundGroups, SoundTabs, Groups
    <3>2. DOMAIN t.stack = 1..Len(t.stack)
      BY <3>1 DEF SoundTab, Counted, IsSeq
    <3> QED BY <3>1, <3>2 DEF SoundTab, Counted, ToSet, Where
  <2> QED BY <2>1 DEF TypeOK, WindowInv, SessionInv
<1> QED BY <1>1, WindowInvariant, HistoryInvariant, SessionInvariant, PTL
=============================================================================
