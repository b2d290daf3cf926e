-------------------------------- MODULE Tabs --------------------------------
(***************************************************************************)
(* The desktop app's tabs: a store of tab groups, one per workspace, and   *)
(* one memory router per tab.  The store keeps a copy of what each router  *)
(* shows and of how far it can go back and forward, and the copy is        *)
(* written by an effect that is mounted only while the tab is visible.     *)
(* Navigation decides by the copies; the routers decide what is on screen. *)
(*                                                                         *)
(* A path is a workspace and a page.  What React does after a store update *)
(* (mounting, unmounting, running the effects) is part of the step.        *)
(***************************************************************************)
EXTENDS Naturals, FiniteSets, SequencesExt

CONSTANTS
  Slugs, Pages, None,
  Issues,          \* the page a workspace opens with
  MaxTabs, MaxStack, MaxActs   \* bounds: tabs, router entries, user's acts

ASSUME TabsAssumption ==
  /\ None \notin Slugs /\ Issues \in Pages
  /\ MaxTabs \in Nat \ {0} /\ MaxStack \in Nat \ {0} /\ MaxActs \in Nat

VARIABLES
  user,       \* somebody is signed in
  fetched,    \* their list of workspaces has arrived
  list,       \* the slugs on it
  activeWorkspaceSlug, byWorkspace,
  overlay,    \* a window overlay covers the tabs
  alive,      \* ids of the tabs whose routers are not disposed
  asked,      \* history: where the last navigation was to lead
  acts

session == <<user, fetched, list>>
vars == <<session, activeWorkspaceSlug, byWorkspace, overlay, alive, asked, acts>>

Paths == [ws : Slugs, page : Pages]
Root  == [ws |-> None, page |-> None]
Default(w) == [ws |-> w, page |-> Issues]

(* historyIndex and historyLength are the store's; indexRef and lengthRef  *)
(* the effect's; stack and at the router's entries and its place in them.  *)
(* late is a history: the router moved while nobody listened.              *)
Tab(id, p) == [id |-> id, path |-> p, stack |-> <<p>>, at |-> 1,
               historyIndex |-> 0, historyLength |-> 1, indexRef |-> 0, lengthRef |-> 1,
               late |-> FALSE]

Here(t) == t.stack[t.at]

Groups == DOMAIN byWorkspace
IdsOf(g) == {g.tabs[i].id : i \in DOMAIN g.tabs}
Ids(gs) == UNION {IdsOf(gs[w]) : w \in DOMAIN gs}
Fresh(gs) == CHOOSE n \in 0..MaxTabs : n \notin Ids(gs)
Room == Cardinality(Ids(byWorkspace)) < MaxTabs
At(g, id) == CHOOSE i \in DOMAIN g.tabs : g.tabs[i].id = id
Shown(gs, w) == gs[w].tabs[At(gs[w], gs[w].activeTabId)]
ActiveTab == Shown(byWorkspace, activeWorkspaceSlug)

TypeOK ==
  /\ user \in BOOLEAN /\ fetched \in BOOLEAN /\ list \subseteq Slugs
  /\ activeWorkspaceSlug \in Slugs \cup {None}
  /\ Groups \subseteq Slugs
  /\ \A w \in Groups : \A i \in DOMAIN byWorkspace[w].tabs :
       LET t == byWorkspace[w].tabs[i] IN
         /\ {t.path} \cup ToSet(t.stack) \subseteq Paths \cup {Root}
         /\ t.at \in DOMAIN t.stack
         /\ t.indexRef < t.lengthRef /\ t.historyIndex < t.historyLength
  /\ overlay \in BOOLEAN /\ asked \in Paths \cup {None} /\ acts \in 0..MaxActs

Init ==
  /\ user = FALSE /\ fetched = FALSE /\ list = {}
  /\ activeWorkspaceSlug = None /\ byWorkspace = <<>>
  /\ overlay = FALSE /\ alive = {} /\ asked = None /\ acts = 0

-----------------------------------------------------------------------------
(* The store's operations, on the pair of its fields.                      *)

(* What the effects of the tabs leave behind: the visible tab's path is    *)
(* its router's; the tabs of the other workspaces are unmounted.           *)
SettledTab(t, mounted, visible) ==
  IF ~mounted THEN [t EXCEPT !.indexRef = 0, !.lengthRef = 1]
  ELSE IF visible THEN [t EXCEPT !.path = Here(t)] ELSE t

Settled(a, gs) ==
  [w \in DOMAIN gs |->
    [gs[w] EXCEPT !.tabs = [i \in DOMAIN @ |->
       SettledTab(gs[w].tabs[i], w = a, gs[w].tabs[i].id = gs[w].activeTabId)]]]

Store(a, gs) == activeWorkspaceSlug' = a /\ byWorkspace' = Settled(a, gs)

With(gs, w, g) == [x \in DOMAIN gs \cup {w} |-> IF x = w THEN g ELSE gs[x]]

(* Same path, same tab: the store compares with the copy it has. *)
Match(g, p) == SelectInSeq(g.tabs, LAMBDA t : t.path = p)

(* a slip: a group that exists is restored as it was left *)
SwitchRestores(w, p) ==
  IF w \notin Groups
    THEN LET t == Tab(Fresh(byWorkspace), p) IN
         /\ Room /\ alive' = alive \cup {t.id}
         /\ Store(w, With(byWorkspace, w, [tabs |-> <<t>>, activeTabId |-> t.id]))
    ELSE UNCHANGED alive /\ Store(w, byWorkspace)

SwitchWorkspace(w, p) ==
  IF w \notin Groups
    THEN LET t == Tab(Fresh(byWorkspace), p) IN
         /\ Room /\ alive' = alive \cup {t.id}
         /\ Store(w, With(byWorkspace, w, [tabs |-> <<t>>, activeTabId |-> t.id]))
    ELSE LET g == byWorkspace[w]  i == Match(g, p)  t == Tab(Fresh(byWorkspace), p) IN
         \/ /\ i # 0 /\ UNCHANGED alive
            /\ Store(w, [byWorkspace EXCEPT ![w].activeTabId = g.tabs[i].id])
         \/ /\ i = 0 /\ Room /\ alive' = alive \cup {t.id}
            /\ Store(w, [byWorkspace EXCEPT ![w] =
                           [tabs |-> Append(g.tabs, t), activeTabId |-> t.id]])

(* addTab and openTab, followed by setActiveTab as all their callers do. *)
AddTab(p) ==
  LET t == Tab(Fresh(byWorkspace), p) IN
    /\ Room /\ alive' = alive \cup {t.id}
    /\ Store(activeWorkspaceSlug, [byWorkspace EXCEPT ![activeWorkspaceSlug] =
               [tabs |-> Append(@.tabs, t), activeTabId |-> t.id]])

OpenTab(p) ==
  LET g == byWorkspace[activeWorkspaceSlug]  i == Match(g, p) IN
    \/ /\ i # 0 /\ UNCHANGED alive
       /\ Store(activeWorkspaceSlug,
                [byWorkspace EXCEPT ![activeWorkspaceSlug].activeTabId = g.tabs[i].id])
    \/ i = 0 /\ AddTab(p)

Disposed(gs, keep) == alive' = alive \ Ids([w \in DOMAIN gs \ keep |-> gs[w]])

(* a slip: a dropped workspace leaves none active *)
ValidateOnly(valid) ==
  /\ Disposed(byWorkspace, valid)
  /\ Store(IF activeWorkspaceSlug \in valid THEN activeWorkspaceSlug ELSE None,
           [w \in Groups \cap valid |-> byWorkspace[w]])

ValidateWorkspaceSlugs(valid) ==
  LET kept == [w \in Groups \cap valid |-> byWorkspace[w]] IN
    /\ Disposed(byWorkspace, valid)
    /\ \/ activeWorkspaceSlug \in valid \cup {None} /\ Store(activeWorkspaceSlug, kept)
       \/ /\ activeWorkspaceSlug \notin valid \cup {None}
          /\ \/ \E w \in DOMAIN kept : Store(w, kept)
             \/ kept = <<>> /\ Store(None, kept)

(* a slip: the store is emptied, the routers are forgotten *)
ResetOnly == UNCHANGED alive /\ Store(None, <<>>)

Reset == Disposed(byWorkspace, {}) /\ Store(None, <<>>)

-----------------------------------------------------------------------------
(* The session and the list of workspaces.                                 *)

Act == acts < MaxActs /\ acts' = acts + 1

SignIn ==
  /\ Act /\ ~user /\ user' = TRUE
  /\ UNCHANGED <<fetched, list, activeWorkspaceSlug, byWorkspace, overlay, alive, asked>>

(* useLogout and the callback it ends in. *)
SignOut ==
  /\ Act /\ user /\ user' = FALSE /\ fetched' = FALSE /\ list' = {}
  /\ Reset /\ overlay' = FALSE /\ asked' = None

(* The list arrives or changes: groups of other workspaces are dropped, a  *)
(* workspace is chosen if none is active, and a user without any gets the  *)
(* overlay.                                                                *)
ChooseFirst(valid) ==
  \E w \in valid :
    LET t == Tab(Fresh(<<>>), Default(w)) IN
      /\ Store(w, With(<<>>, w, [tabs |-> <<t>>, activeTabId |-> t.id])) /\ alive' = {t.id}

List(valid) ==
  /\ Act /\ user /\ (fetched => valid # list)
  /\ fetched' = TRUE /\ list' = valid /\ asked' = None
  /\ \/ Groups \cap valid = {} /\ valid # {} /\ ChooseFirst(valid)
     \/ (Groups \cap valid # {} \/ valid = {}) /\ ValidateWorkspaceSlugs(valid)
  /\ overlay' = (overlay \/ valid = {})
  /\ UNCHANGED user

(* The layout of a visible tab whose workspace is not on the list. *)
Heal ==
  /\ user /\ fetched /\ activeWorkspaceSlug # None
  /\ Here(ActiveTab).ws \notin list \cup {None}
  /\ ValidateWorkspaceSlugs(list) /\ asked' = None
  /\ UNCHANGED <<session, overlay, acts>>

(* What comes back of a group: the tabs whose path is one of its           *)
(* workspace, in their order, with new routers.                            *)
Reopened(w) ==
  LET kept == {i \in DOMAIN byWorkspace[w].tabs : byWorkspace[w].tabs[i].path.ws = w}
      old(k) == byWorkspace[w].tabs[CHOOSE i \in kept : Cardinality(kept \cap 1..i) = k]
  IN  [k \in 1..Cardinality(kept) |-> Tab(old(k).id, old(k).path)]

(* The app is quit and started again with what was persisted. *)
Restart ==
  LET gs == [w \in {x \in Groups : Reopened(x) # <<>>} |->
               [tabs |-> Reopened(w),
                activeTabId |-> IF \E t \in ToSet(Reopened(w)) : t.id = byWorkspace[w].activeTabId
                                  THEN byWorkspace[w].activeTabId ELSE Reopened(w)[1].id]]
  IN /\ Act /\ user /\ fetched' = FALSE /\ overlay' = FALSE /\ asked' = None
     /\ alive' = Ids(gs)
     /\ \/ activeWorkspaceSlug \in DOMAIN gs /\ Store(activeWorkspaceSlug, gs)
        \/ activeWorkspaceSlug \notin DOMAIN gs /\ \E w \in DOMAIN gs : Store(w, gs)
        \/ gs = <<>> /\ Store(None, gs)
     /\ UNCHANGED <<user, list>>

-----------------------------------------------------------------------------
(* The routers.  A visible router's move is heard by its effect.           *)

Pushed(t, p) == [t EXCEPT !.stack = Append(SubSeq(@, 1, t.at), p), !.at = @ + 1]

Heard(t) == [t EXCEPT !.path = Here(t),
                      !.historyIndex = t.indexRef, !.historyLength = t.lengthRef]

AfterPush(t, p) == Heard([Pushed(t, p) EXCEPT !.indexRef = @ + 1, !.lengthRef = t.indexRef + 2])

(* a slip: every navigation counts as one more entry *)
AfterReplaceCounted(t, p) ==
  Heard([t EXCEPT !.stack[t.at] = p, !.indexRef = @ + 1, !.lengthRef = t.indexRef + 2])

AfterReplace(t, p) == Heard([t EXCEPT !.stack[t.at] = p])

(* a slip: forward counts on past the length that is known *)
AfterPopCounting(t, forward) ==
  Heard(IF forward
    THEN [t EXCEPT !.at = IF @ < Len(t.stack) THEN @ + 1 ELSE @, !.indexRef = @ + 1]
    ELSE [t EXCEPT !.at = IF @ > 1 THEN @ - 1 ELSE @,
                   !.indexRef = IF @ > 0 THEN @ - 1 ELSE @])

AfterPop(t, forward) ==
  Heard(IF forward
    THEN [t EXCEPT !.at = IF @ < Len(t.stack) THEN @ + 1 ELSE @,
                   !.indexRef = IF @ + 1 < t.lengthRef THEN @ + 1 ELSE t.lengthRef - 1]
    ELSE [t EXCEPT !.at = IF @ > 1 THEN @ - 1 ELSE @,
                   !.indexRef = IF @ > 0 THEN @ - 1 ELSE @])

Put(w, i, t) == [byWorkspace EXCEPT ![w].tabs[i] = t]

SetActiveRouter(t) ==
  /\ Store(activeWorkspaceSlug,
           Put(activeWorkspaceSlug,
               At(byWorkspace[activeWorkspaceSlug], byWorkspace[activeWorkspaceSlug].activeTabId), t))
  /\ UNCHANGED alive

SomeTab == user /\ activeWorkspaceSlug # None

(* push of the adapters, from what is on screen. *)
Push(p) ==
  /\ Act /\ user /\ overlay' = FALSE /\ asked' = p
  /\ \/ p.ws # activeWorkspaceSlug /\ SwitchWorkspace(p.ws, p)
     \/ /\ p.ws = activeWorkspaceSlug /\ ActiveTab.at < MaxStack
        /\ SetActiveRouter(AfterPush(ActiveTab, p))
  /\ UNCHANGED session

Replace(p) ==
  /\ Act /\ SomeTab /\ p.ws = activeWorkspaceSlug
  /\ overlay' = FALSE /\ asked' = p
  /\ SetActiveRouter(AfterReplace(ActiveTab, p))
  /\ UNCHANGED session

(* push to /workspaces/new, after the last workspace is left or deleted; *)
(* the call that deletes it may still fail.                              *)
PushNewWorkspace ==
  /\ Act /\ SomeTab /\ fetched /\ list \subseteq {activeWorkspaceSlug}
  /\ overlay' = TRUE /\ asked' = None
  /\ SetActiveRouter(AfterReplace(ActiveTab, Root))
  /\ UNCHANGED session

(* An invitation link opens the overlay over anything; it can be closed    *)
(* only by a user who has a workspace.                                     *)
OpenOverlay ==
  /\ Act /\ user /\ ~overlay /\ overlay' = TRUE /\ asked' = None
  /\ UNCHANGED <<session, activeWorkspaceSlug, byWorkspace, alive>>

CloseOverlay ==
  /\ Act /\ overlay /\ list # {} /\ overlay' = FALSE /\ asked' = None
  /\ UNCHANGED <<session, activeWorkspaceSlug, byWorkspace, alive>>

(* A page of a tab out of sight finishes what it awaited and pushes. *)
LatePush(w, i, p) ==
  LET t == byWorkspace[w].tabs[i] IN
  /\ Act /\ user /\ p.ws = w
  /\ w # activeWorkspaceSlug \/ t.id # byWorkspace[w].activeTabId
  /\ overlay' = FALSE
  /\ \/ w # activeWorkspaceSlug /\ SwitchWorkspace(w, p) /\ asked' = p
     \/ /\ w = activeWorkspaceSlug /\ t.at < MaxStack
        /\ Store(w, Put(w, i, [Pushed(t, p) EXCEPT !.late = TRUE]))
        /\ UNCHANGED alive /\ asked' = None
  /\ UNCHANGED session

(* The buttons, which tell the effect their direction, and a page's back. *)
GoBack ==
  /\ Act /\ SomeTab /\ ActiveTab.historyIndex > 0
  /\ SetActiveRouter(AfterPop(ActiveTab, FALSE)) /\ asked' = None
  /\ UNCHANGED <<session, overlay>>

GoForward ==
  /\ Act /\ SomeTab /\ ActiveTab.historyIndex + 1 < ActiveTab.historyLength
  /\ SetActiveRouter(AfterPop(ActiveTab, TRUE)) /\ asked' = None
  /\ UNCHANGED <<session, overlay>>

PageBack ==
  /\ Act /\ SomeTab /\ SetActiveRouter(AfterPop(ActiveTab, FALSE)) /\ asked' = None
  /\ UNCHANGED <<session, overlay>>

-----------------------------------------------------------------------------
(* The tab bar, links and notifications.                                   *)

NewTab ==
  /\ Act /\ SomeTab /\ AddTab(Default(activeWorkspaceSlug))
  /\ asked' = Default(activeWorkspaceSlug) /\ UNCHANGED <<session, overlay>>

OpenInNewTab(p) ==
  /\ Act /\ user /\ asked' = p
  /\ \/ p.ws # activeWorkspaceSlug /\ SwitchWorkspace(p.ws, p)
     \/ p.ws = activeWorkspaceSlug /\ OpenTab(p)
  /\ UNCHANGED <<session, overlay>>

(* multica:navigate: a link in a text, or the click on a notification of   *)
(* whichever workspace; the tab is opened in the active one.               *)
OpenLink(p) ==
  /\ Act /\ SomeTab /\ OpenTab(p) /\ asked' = p
  /\ UNCHANGED <<session, overlay>>

Select(i) ==
  /\ Act /\ SomeTab
  /\ LET g == byWorkspace[activeWorkspaceSlug] IN
       /\ i \in DOMAIN g.tabs /\ g.tabs[i].id # g.activeTabId
       /\ Store(activeWorkspaceSlug,
                [byWorkspace EXCEPT ![activeWorkspaceSlug].activeTabId = g.tabs[i].id])
  /\ asked' = None /\ UNCHANGED <<session, overlay, alive>>

(* The tab that takes the place of a closed one is its right neighbour, or *)
(* the new last one; a group is never left without a tab.                  *)
(* a slip: the group keeps pointing at the tab that was closed *)
NeighbourSelf(g, i) == g.tabs[i].id

Neighbour(g, i) == RemoveAt(g.tabs, i)[IF i < Len(g.tabs) THEN i ELSE i - 1].id

Close(i) ==
  /\ Act /\ SomeTab
  /\ LET w == activeWorkspaceSlug  g == byWorkspace[w]  gone == g.tabs[i].id IN
     LET fresh == Tab(CHOOSE n \in 0..MaxTabs : n \notin Ids(byWorkspace), Default(w)) IN
       /\ i \in DOMAIN g.tabs
       /\ \/ /\ Len(g.tabs) = 1 /\ alive' = (alive \ {gone}) \cup {fresh.id}
             /\ Store(w, [byWorkspace EXCEPT ![w] = [tabs |-> <<fresh>>, activeTabId |-> fresh.id]])
          \/ /\ Len(g.tabs) > 1 /\ alive' = alive \ {gone}
             /\ Store(w, [byWorkspace EXCEPT ![w] =
                  [tabs |-> RemoveAt(g.tabs, i),
                   activeTabId |-> IF g.activeTabId = gone THEN Neighbour(g, i) ELSE g.activeTabId]])
  /\ asked' = None /\ UNCHANGED <<session, overlay>>

Move(i, j) ==
  /\ Act /\ SomeTab /\ i # j
  /\ {i, j} \subseteq DOMAIN byWorkspace[activeWorkspaceSlug].tabs
  /\ Store(activeWorkspaceSlug, [byWorkspace EXCEPT ![activeWorkspaceSlug].tabs =
                                   InsertAt(RemoveAt(@, i), j, @[i])])
  /\ asked' = None /\ UNCHANGED <<session, overlay, alive>>

Places == 1..MaxTabs

Next ==
  \/ SignIn \/ SignOut \/ \E valid \in SUBSET Slugs : List(valid)
  \/ Heal \/ Restart
  \/ \E p \in Paths : Push(p) \/ Replace(p) \/ OpenInNewTab(p) \/ OpenLink(p)
  \/ PushNewWorkspace \/ OpenOverlay \/ CloseOverlay
  \/ \E w \in Groups : \E i \in DOMAIN byWorkspace[w].tabs, p \in Paths : LatePush(w, i, p)
  \/ GoBack \/ GoForward \/ PageBack
  \/ NewTab \/ \E i \in Places : Select(i) \/ Close(i) \/ \E j \in Places : Move(i, j)

Spec == Init /\ [][Next]_vars

-----------------------------------------------------------------------------

(* Every group has a tab and shows one of its own, no two tabs of any      *)
(* workspaces share an id, and the active workspace has a group, however   *)
(* tabs are closed, moved, dropped with a workspace or read back.          *)
GroupsSound ==
  /\ activeWorkspaceSlug # None => activeWorkspaceSlug \in Groups
  /\ \A w \in Groups : byWorkspace[w].activeTabId \in IdsOf(byWorkspace[w])
  /\ \A w, x \in Groups :
       \A i \in DOMAIN byWorkspace[w].tabs, j \in DOMAIN byWorkspace[x].tabs :
         byWorkspace[w].tabs[i].id = byWorkspace[x].tabs[j].id => w = x /\ i = j

(* The routers that live are those of the tabs there are: none leaks when  *)
(* its tab goes and none is disposed under a tab that stays.               *)
RoutersOwned == alive = Ids(byWorkspace)

(* A user with a workspace never faces an empty window: some workspace is  *)
(* active, although the list, the layout of a stale tab and the restart    *)
(* each drop groups (App's layout effect, the heal of the route layout).   *)
NotBlank == user /\ fetched /\ list # {} => activeWorkspaceSlug # None

(* The buttons never offer a move the router cannot make, although the     *)
(* effect that counts is remounted from zero and the store keeps its older *)
(* count; a router that moved out of sight is another matter.              *)
ButtonsHonest ==
  \A w \in Groups : \A t \in ToSet(byWorkspace[w].tabs) :
    ~t.late => /\ t.historyIndex < t.at
               /\ t.historyLength - t.historyIndex <= Len(t.stack) - t.at + 1

(* A navigation ends where it was to lead, whether it made a tab, found    *)
(* one by the path the store has for it, or changed the workspace.         *)
Lands == asked # None => ActiveTab.late \/ Here(ActiveTab) = asked

(* What the comment on byWorkspace says: no tab of one workspace is ever   *)
(* in another one's group.                                                 *)
NoLeak ==
  \A w \in Groups : \A t \in ToSet(byWorkspace[w].tabs) : Here(t).ws \in {w, None}
=============================================================================
