---------------------------- MODULE MuxActorProofs ----------------------------
(***************************************************************************)
(* The lease, the revisions of tabs, the layouts with their terminals, and  *)
(* the sizes, for every set of clients and workspaces, and every command.  *)
(***************************************************************************)
EXTENDS MuxActor, OperatorProofs

IsOp(op) == op.kind = "swap" => op.delta \in Int

\* Rearrange of state.rs, on any tree and whatever the operation: it leaves a tree of the same panes,
\* each of them once.
THEOREM SoundRearranged ==
  ASSUME NEW t, Sound(t), NEW pane \in Panes(t), NEW op, IsOp(op)
  PROVE  Holds(Rearranged(t, pane, op), Labels(t))
<1>1. CASE IsSingleLeaf(t)
  BY <1>1, SoundSame DEF Rearranged
<1>2. CASE ~IsSingleLeaf(t) /\ op.kind = "swap"
  <2>1. op.delta \in Int
    BY <1>2 DEF IsOp
  <2>2. Holds(SwapWith(t, pane, op.delta), Labels(t))
    BY <2>1, SoundSwap DEF Holds
  <2> QED BY <1>2, <2>2 DEF Rearranged
<1>3. CASE ~IsSingleLeaf(t) /\ op.kind = "rotate"
  <2>1. Holds(Rotate(t, op.up), Labels(t))
    BY SoundRotate DEF Holds
  <2> QED BY <1>3, <2>1 DEF Rearranged
<1>4. CASE ~IsSingleLeaf(t) /\ op.kind = "spread"
  BY <1>4, SoundSpread DEF Rearranged
<1>5. CASE ~IsSingleLeaf(t) /\ op.kind \notin {"swap", "rotate", "spread"}
  BY <1>5, SoundPreset DEF Rearranged
<1> QED BY <1>1, <1>2, <1>3, <1>4, <1>5

\* Labels that no state has handed out twice.
LEMMA FreshLabels ==
  ASSUME NEW s, s.nextPane \in Nat, s.nextTerm \in Nat
  PROVE  /\ \A k : IsLeaf(Fresh(s, k)) /\ Fresh(s, k).pane = s.nextPane + k
                   /\ Fresh(s, k).terminal = s.nextTerm + k
         /\ \A j, k \in Int : Fresh(s, j) = Fresh(s, k) => j = k
<1>1. \A k : IsLeaf(Fresh(s, k)) /\ Fresh(s, k).pane = s.nextPane + k
             /\ Fresh(s, k).terminal = s.nextTerm + k
  BY DEF Fresh, IsLeaf
<1>2. ASSUME NEW j \in Int, NEW k \in Int, Fresh(s, j) = Fresh(s, k) PROVE j = k
  <2>1. s.nextPane + j = s.nextPane + k
    BY <1>1, <1>2
  <2> QED BY <2>1
<1> QED BY <1>1, <1>2

\* The labels of a restored layout are the next ones in depth first order.
LEMMA SoundRestored ==
  ASSUME NEW s, s.nextPane \in Nat, s.nextTerm \in Nat, NEW t, IsTree(t), Ruled(t), NEW before \in Nat
  PROVE  Holds(RestoredTree(s, t, before), {Fresh(s, k) : k \in before .. before + Count(t) - 1})
<1> DEFINE u == RestoredTree(s, t, before)
<1>1. u = [p \in DOMAIN t |-> IF IsLeaf(t[p]) THEN Fresh(s, before + Rank(t, p) - 1)
                              ELSE [t[p] EXCEPT !.ratio = Clamped(@)]]
  BY DEF RestoredTree
<1> HIDE DEF u
<1>2. u = [p \in DOMAIN t |-> u[p]]
  BY <1>1
<1>3. ASSUME NEW p \in LeafPaths(t) PROVE u[p] = Fresh(s, before + Rank(t, p) - 1)
  BY <1>1 DEF LeafPaths
<1>4. ASSUME NEW p \in BranchPaths(t) PROVE u[p] \in Rule
  <2>1. p \in DOMAIN t /\ ~IsLeaf(t[p]) /\ t[p] \in Rule
    BY TreePaths DEF Ruled
  <2>2. t[p].ratio \in Int
    BY <2>1, RuleIsNoLeaf
  <2>3. u[p] = [t[p] EXCEPT !.ratio = Clamped(t[p].ratio)]
    BY <1>1, <2>1
  <2> QED BY <2>1, <2>2, <2>3, ClampedInt, RuleIsNoLeaf
<1>5. ASSUME NEW p \in DOMAIN t PROVE IsLeaf(u[p]) <=> IsLeaf(t[p])
  <2>1. CASE p \in LeafPaths(t)
    BY <1>3, <2>1, FreshLabels DEF LeafPaths
  <2>2. CASE p \in BranchPaths(t)
    BY <1>4, <2>2, RuleIsNoLeaf, TreePaths
  <2> QED BY <2>1, <2>2 DEF BranchPaths
<1>6. IsTree(u) /\ LeafPaths(u) = LeafPaths(t) /\ BranchPaths(u) = BranchPaths(t)
  BY <1>2, <1>5, SameTree
<1>7. Ranked(t)
  BY RankedTree
<1>8. /\ \A p \in LeafPaths(t) : Rank(t, p) \in 1 .. Count(t)
      /\ \A p, q \in LeafPaths(t) : Rank(t, p) = Rank(t, q) => p = q
      /\ \A i \in 1 .. Count(t) : \E p \in LeafPaths(t) : Rank(t, p) = i
      /\ Count(t) \in Nat
  BY <1>7 DEF Ranked
<1>9. ASSUME NEW p \in LeafPaths(t), NEW q \in LeafPaths(t), u[p] = u[q] PROVE p = q
  <2>1. before + Rank(t, p) - 1 \in Int /\ before + Rank(t, q) - 1 \in Int
        /\ Rank(t, p) \in Int /\ Rank(t, q) \in Int
    BY <1>8
  <2>2. before + Rank(t, p) - 1 = before + Rank(t, q) - 1
    BY <1>3, <1>9, <2>1, FreshLabels
  <2>3. Rank(t, p) = Rank(t, q)
    BY <2>1, <2>2
  <2> QED BY <1>8, <2>3
<1>10. Labels(u) = {Fresh(s, k) : k \in before .. before + Count(t) - 1}
  <2>1. ASSUME NEW p \in LeafPaths(t) PROVE before + Rank(t, p) - 1 \in before .. before + Count(t) - 1
    BY <1>8
  <2>2. ASSUME NEW k \in before .. before + Count(t) - 1 PROVE \E p \in LeafPaths(t) : u[p] = Fresh(s, k)
    <3>1. k - before + 1 \in 1 .. Count(t)
      BY <1>8
    <3>2. PICK p \in LeafPaths(t) : Rank(t, p) = k - before + 1
      BY <1>8, <3>1
    <3>3. before + Rank(t, p) - 1 = k
      BY <1>8, <3>2
    <3> QED BY <1>3, <3>3
  <2> QED BY <1>3, <1>6, <2>1, <2>2 DEF Labels
<1>11. OneEach(u) /\ Ruled(u)
  BY <1>4, <1>6, <1>9 DEF OneEach, Ruled
<1>12. Holds(u, {Fresh(s, k) : k \in before .. before + Count(t) - 1})
  BY <1>6, <1>10, <1>11 DEF Sound, Holds
<1> QED BY <1>12 DEF u
-------------------------------------------------------------------------------
\* A state and its parts have the fields MuxState gives them.
Shaped(s) ==
  /\ DOMAIN s = {"order", "workspaces", "terminals", "clients", "nextPane", "nextTerm", "nextTab"}
  /\ \A w \in DOMAIN s.workspaces :
       DOMAIN s.workspaces[w] = {"tabs", "active", "controller", "viewport", "rev"}
  /\ \A c \in DOMAIN s.clients :
       s.clients[c] = [workspace |-> s.clients[c].workspace, role |-> s.clients[c].role]

\* t has the workspaces, controllers and clients of s, and no viewport that is neither one of s nor a
\* client's.
Same(s, t) ==
  /\ Shaped(t)
  /\ DOMAIN t.workspaces = DOMAIN s.workspaces
  /\ \A w \in DOMAIN s.workspaces : t.workspaces[w].controller = s.workspaces[w].controller
  /\ \A w \in DOMAIN s.workspaces :
       t.workspaces[w].viewport = s.workspaces[w].viewport \/ t.workspaces[w].viewport \in Viewports
  /\ t.clients = s.clients

\* G1 of a state, with what it rests on: nobody is attached to a workspace that is gone.
Leases(s) ==
  /\ Shaped(s)
  /\ NoOne \notin DOMAIN s.clients
  /\ \A c \in DOMAIN s.clients : s.clients[c].workspace \in DOMAIN s.workspaces
  /\ \A w \in DOMAIN s.workspaces, c \in DOMAIN s.clients :
       (s.clients[c].workspace = w /\ s.clients[c].role = "controller")
         <=> s.workspaces[w].controller = c
  /\ \A w \in DOMAIN s.workspaces :
       s.workspaces[w].controller # NoOne => s.workspaces[w].controller \in DOMAIN s.clients
-----------------------------------------------------------------------------
LEMMA SameRefl == ASSUME NEW s, Shaped(s) PROVE Same(s, s)
BY DEF Same

LEMMA SameTrans == ASSUME NEW s, NEW t, NEW u, Same(s, t), Same(t, u) PROVE Same(s, u)
BY DEF Same

LEMMA SameLeases == ASSUME NEW s, NEW t, Leases(s), Same(s, t) PROVE Leases(t)
BY DEF Same, Leases

LEMMA TouchedSame ==
  ASSUME NEW s, Shaped(s), NEW w \in DOMAIN s.workspaces PROVE Same(s, Touched(s, w))
BY DEF Shaped, Same, Touched

LEMMA WithTabSame ==
  ASSUME NEW s, Shaped(s), NEW w \in DOMAIN s.workspaces, NEW i, NEW t
  PROVE  Same(s, WithTab(s, w, i, t))
BY DEF Shaped, Same, WithTab

LEMMA WithTabsSame ==
  ASSUME NEW s, Shaped(s), NEW w \in DOMAIN s.workspaces, NEW tabs, NEW active
  PROVE  Same(s, WithTabs(s, w, tabs, active))
BY DEF Shaped, Same, WithTabs

LEMMA WithViewportSame ==
  ASSUME NEW s, Shaped(s), NEW w \in DOMAIN s.workspaces, NEW viewport \in Viewports
  PROVE  Same(s, WithViewport(s, w, viewport))
BY DEF Shaped, Same, WithViewport

LEMMA CountersSame ==
  ASSUME NEW s, Shaped(s), NEW p, NEW q, NEW m
  PROVE  Same(s, [s EXCEPT !.nextPane = p, !.nextTerm = q, !.terminals = m])
BY DEF Shaped, Same

LEMMA MintedSame ==
  ASSUME NEW s, Shaped(s), NEW n, NEW size PROVE Same(s, Minted(s, n, size))
BY CountersSame, Zenon DEF Minted

LEMMA WithoutTerminalsSame ==
  ASSUME NEW s, Shaped(s), NEW gone PROVE Same(s, WithoutTerminals(s, gone))
BY DEF Shaped, Same, WithoutTerminals

LEMMA ReflowedSame ==
  ASSUME NEW s, NEW t, NEW w, Same(s, t) PROVE Same(s, Reflowed(t, w).state)
BY DEF Shaped, Same, Reflowed, Sized

LEMMA ShownSame ==
  ASSUME NEW s, NEW t, NEW w, NEW id, Same(s, t) PROVE Same(s, Shown(t, w, id).state)
BY ReflowedSame DEF Shown, Quietly

\* Two or three of the changes above, one after the other.
LEMMA TabThenTouched ==
  ASSUME NEW s, NEW u, Same(s, u), NEW w \in DOMAIN s.workspaces, NEW i, NEW t
  PROVE  /\ Same(s, WithTab(u, w, i, t))
         /\ Same(s, Touched(u, w))
         /\ Same(s, WithTab(Touched(u, w), w, i, t))
         /\ Same(s, Touched(WithTab(u, w, i, t), w))
<1>1. /\ Shaped(u)
      /\ w \in DOMAIN u.workspaces
  BY DEF Same
<1>2. /\ Same(u, WithTab(u, w, i, t))
      /\ Same(u, Touched(u, w))
  BY <1>1, WithTabSame, TouchedSame
<1> DEFINE touched == Touched(u, w)
           edited == WithTab(u, w, i, t)
<1> HIDE DEF touched, edited
<1>3. /\ Shaped(touched) /\ w \in DOMAIN touched.workspaces
      /\ Shaped(edited) /\ w \in DOMAIN edited.workspaces
  BY <1>1, <1>2 DEF Same, touched, edited
<1>4. Same(touched, WithTab(touched, w, i, t)) /\ Same(edited, Touched(edited, w))
  BY <1>3, WithTabSame, TouchedSame, Zenon
<1> QED BY <1>2, <1>4, SameTrans DEF touched, edited

-----------------------------------------------------------------------------
\* What each command that is not about attachment keeps.
LEMMA FocusPaneSame ==
  ASSUME NEW s, Leases(s), NEW c, NEW pane, FocusPane(s, c, pane).ok
  PROVE  Same(s, FocusPane(s, c, pane).state)
<1> DEFINE w == s.clients[c].workspace
           i == TabIndex(s, w, s.workspaces[w].active)
           t == s.workspaces[w].tabs[i]
           focused == WithTab(s, w, i, Focused(t, pane))
<1>1. Controls(s, c)
  BY Zenon DEF FocusPane, Refused
<1>2. /\ Shaped(s)
      /\ Same(s, s)
      /\ w \in DOMAIN s.workspaces
  BY <1>1, SameRefl DEF Controls, Leases
<1>3. /\ Same(s, focused)
      /\ Same(s, Touched(focused, w))
  BY <1>2, TabThenTouched, Zenon
<1>4. Same(s, Reflowed(Touched(focused, w), w).state)
  BY <1>3, ReflowedSame, Zenon
<1>5. FocusPane(s, c, pane).state \in {Quietly(focused).state, Reflowed(Touched(focused, w), w).state}
  BY <1>1, Zenon DEF FocusPane, Refused
<1> QED BY <1>3, <1>4, <1>5, Zenon DEF Quietly

LEMMA FocusPaneInSame ==
  ASSUME NEW s, Leases(s), NEW o, NEW w, NEW pane, FocusPaneIn(s, o, w, pane).ok
  PROVE  Same(s, FocusPaneIn(s, o, w, pane).state)
<1> DEFINE i == TabOfPane(s, w, pane)
           t == s.workspaces[w].tabs[i]
           focused == WithTab(s, w, i, Focused(t, pane))
<1>1. Authorized(s, o, w)
  BY DEF FocusPaneIn, Refused
<1>2. /\ Shaped(s)
      /\ Same(s, s)
      /\ w \in DOMAIN s.workspaces
  BY <1>1, SameRefl DEF Authorized, Leases
<1>3. /\ Same(s, focused)
      /\ Same(s, Touched(focused, w))
  BY <1>2, TabThenTouched
<1>4. Same(s, Reflowed(Touched(focused, w), w).state)
  BY <1>3, ReflowedSame
<1>5. FocusPaneIn(s, o, w, pane).state
        \in {Quietly(s).state, Quietly(focused).state, Reflowed(Touched(focused, w), w).state}
  BY <1>1 DEF FocusPaneIn, Refused
<1> QED BY <1>2, <1>3, <1>4, <1>5 DEF Quietly

LEMMA ToggleZoomSame ==
  ASSUME NEW s, Leases(s), NEW o, NEW w, ToggleZoom(s, o, w).ok
  PROVE  Same(s, ToggleZoom(s, o, w).state)
<1> DEFINE i == TabIndex(s, w, s.workspaces[w].active)
           t == s.workspaces[w].tabs[i]
           zoomed == [t EXCEPT !.zoomed = IF @ = NoOne THEN t.focused ELSE NoOne, !.rev = Later(@)]
<1>1. Authorized(s, o, w)
  BY DEF ToggleZoom, Refused
<1>2. /\ Shaped(s)
      /\ Same(s, s)
      /\ w \in DOMAIN s.workspaces
  BY <1>1, SameRefl DEF Authorized, Leases
<1>3. Same(s, WithTab(Touched(s, w), w, i, zoomed))
  BY <1>2, TabThenTouched, Zenon
<1>4. Same(s, Reflowed(WithTab(Touched(s, w), w, i, zoomed), w).state)
  BY <1>3, ReflowedSame, Zenon
<1> HIDE DEF i, t
<1>5. ToggleZoom(s, o, w).state = Reflowed(WithTab(Touched(s, w), w, i, zoomed), w).state
  BY <1>1 DEF ToggleZoom, Refused, i, t
<1> QED BY <1>4, <1>5

LEMMA SplitPaneSame ==
  ASSUME NEW s, Leases(s), NEW o, NEW w, NEW pane, NEW dir, NEW ifRev,
         SplitPane(s, o, w, pane, dir, ifRev).ok
  PROVE  Same(s, SplitPane(s, o, w, pane, dir, ifRev).state)
<1> DEFINE i == TabOfPane(s, w, pane)
           t == s.workspaces[w].tabs[i]
           minted == Minted(s, 1, [cols |-> 1, rows |-> 1])
           tab == Relaid(t, SplitLeaf(t.layout, pane, dir, Fresh(s, 0)))
<1>1. Authorized(s, o, w)
  BY DEF SplitPane, Refused
<1>2. /\ Shaped(s)
      /\ Same(s, s)
      /\ w \in DOMAIN s.workspaces
  BY <1>1, SameRefl DEF Authorized, Leases
<1>3. Same(s, minted)
  BY <1>2, MintedSame
<1>4. Same(s, Touched(WithTab(minted, w, i, tab), w))
  BY <1>2, <1>3, TabThenTouched
<1>5. Same(s, Shown(Touched(WithTab(minted, w, i, tab), w), w, t.id).state)
  BY <1>4, ShownSame
<1> HIDE DEF i, t, minted, tab
<1>6. SplitPane(s, o, w, pane, dir, ifRev).state
        = Shown(Touched(WithTab(minted, w, i, tab), w), w, t.id).state
  BY <1>1 DEF SplitPane, Refused, i, t, minted, tab
<1> QED BY <1>5, <1>6

LEMMA ClosePaneSame ==
  ASSUME NEW s, Leases(s), NEW o, NEW w, NEW pane, NEW ifRev,
         ClosePane(s, o, w, pane, ifRev).ok
  PROVE  Same(s, ClosePane(s, o, w, pane, ifRev).state)
<1> DEFINE i == TabOfPane(s, w, pane)
           t == s.workspaces[w].tabs[i]
           closed == WithTab(s, w, i, Relaid(t, RemoveLeaf(t.layout, pane)))
           gone == {TerminalOf(t.layout, pane)}
<1>1. Authorized(s, o, w)
  BY DEF ClosePane, Refused
<1>2. /\ Shaped(s)
      /\ Same(s, s)
      /\ w \in DOMAIN s.workspaces
  BY <1>1, SameRefl DEF Authorized, Leases
<1>3. Same(s, Touched(closed, w))
  BY <1>2, TabThenTouched
<1>4. Same(s, WithoutTerminals(Touched(closed, w), gone))
  <2>1. Shaped(Touched(closed, w))
    BY <1>3, Zenon DEF Same
  <2> QED BY <1>3, <2>1, WithoutTerminalsSame, SameTrans, Zenon
<1>5. Same(s, Shown(WithoutTerminals(Touched(closed, w), gone), w, t.id).state)
  BY <1>4, ShownSame
<1> HIDE DEF i, t, closed, gone
<1>6. ClosePane(s, o, w, pane, ifRev).state
        = Shown(WithoutTerminals(Touched(closed, w), gone), w, t.id).state
  BY <1>1 DEF ClosePane, Refused, i, t, closed, gone
<1> QED BY <1>5, <1>6

LEMMA RedividedSame ==
  ASSUME NEW s, Leases(s), NEW w \in DOMAIN s.workspaces, NEW i, NEW layout
  PROVE  Same(s, Redivided(s, w, i, layout).state)
<1> DEFINE t == s.workspaces[w].tabs[i]
           tab == [t EXCEPT !.layout = layout, !.rev = Later(@)]
<1>1. /\ Same(s, s)
      /\ Same(s, WithTab(Touched(s, w), w, i, tab))
  BY SameRefl, TabThenTouched DEF Leases
<1>2. Same(s, Shown(WithTab(Touched(s, w), w, i, tab), w, t.id).state)
  BY <1>1, ShownSame
<1> HIDE DEF t
<1>3. Redivided(s, w, i, layout).state
        \in {s, Shown(WithTab(Touched(s, w), w, i, tab), w, t.id).state}
  BY DEF Redivided, Quietly, t
<1> QED BY <1>1, <1>2, <1>3

LEMMA ResizePaneSame ==
  ASSUME NEW s, Leases(s), NEW o, NEW w, NEW pane, NEW axis, NEW grow,
         ResizePane(s, o, w, pane, axis, grow).ok
  PROVE  Same(s, ResizePane(s, o, w, pane, axis, grow).state)
<1>1. Authorized(s, o, w)
  BY DEF ResizePane, Refused
<1>2. /\ Shaped(s)
      /\ Same(s, s)
      /\ w \in DOMAIN s.workspaces
  BY <1>1, SameRefl DEF Authorized, Leases
<1> QED BY <1>1, <1>2, RedividedSame DEF ResizePane, Refused

LEMMA SetSplitRatioSame ==
  ASSUME NEW s, Leases(s), NEW o, NEW w, NEW path, NEW ratio,
         SetSplitRatio(s, o, w, path, ratio).ok
  PROVE  Same(s, SetSplitRatio(s, o, w, path, ratio).state)
<1>1. Authorized(s, o, w)
  BY DEF SetSplitRatio, Refused
<1>2. /\ Shaped(s)
      /\ Same(s, s)
      /\ w \in DOMAIN s.workspaces
  BY <1>1, SameRefl DEF Authorized, Leases
<1> QED BY <1>1, <1>2, RedividedSame DEF SetSplitRatio, Refused

LEMMA RearrangeSame ==
  ASSUME NEW s, Leases(s), NEW o, NEW w, NEW pane, NEW op, Rearrange(s, o, w, pane, op).ok
  PROVE  Same(s, Rearrange(s, o, w, pane, op).state)
<1> DEFINE i == TabOfPane(s, w, pane)
           t == s.workspaces[w].tabs[i]
           tab == Relaid(t, Rearranged(t.layout, pane, op))
<1>1. Authorized(s, o, w)
  BY DEF Rearrange, Refused
<1>2. /\ Shaped(s)
      /\ Same(s, s)
      /\ w \in DOMAIN s.workspaces
  BY <1>1, SameRefl DEF Authorized, Leases
<1>3. Same(s, WithTab(Touched(s, w), w, i, tab))
  BY <1>2, TabThenTouched
<1>4. Same(s, Shown(WithTab(Touched(s, w), w, i, tab), w, t.id).state)
  BY <1>3, ShownSame
<1> HIDE DEF i, t, tab
<1>5. Rearrange(s, o, w, pane, op).state
        \in {s, Shown(WithTab(Touched(s, w), w, i, tab), w, t.id).state}
  BY <1>1 DEF Rearrange, Refused, Quietly, i, t, tab
<1> QED BY <1>2, <1>4, <1>5

\* The commands on tabs end in a reflow of the workspace with its new tabs.
LEMMA TabsReflowedSame ==
  ASSUME NEW s, NEW u, Same(s, u), NEW w \in DOMAIN s.workspaces, NEW tabs, NEW active
  PROVE  /\ Same(s, WithTabs(u, w, tabs, active))
         /\ Same(s, Reflowed(WithTabs(u, w, tabs, active), w).state)
<1>1. Same(u, WithTabs(u, w, tabs, active))
  BY WithTabsSame DEF Same
<1> QED BY <1>1, SameTrans, ReflowedSame

LEMMA CountedSame ==
  ASSUME NEW s, NEW u, Same(s, u), NEW n PROVE Same(s, [u EXCEPT !.nextTab = n])
BY DEF Shaped, Same

LEMMA NumberedSame ==
  ASSUME NEW s, NEW u, Same(s, u) PROVE Same(s, Numbered(u))
BY CountedSame, Zenon DEF Numbered

LEMMA NewTabSame ==
  ASSUME NEW s, Leases(s), NEW o, NEW w, NEW activate, NewTab(s, o, w, activate).ok
  PROVE  Same(s, NewTab(s, o, w, activate).state)
<1> DEFINE id == <<w, s.nextTab>>
           minted == Numbered(Minted(s, 1, s.workspaces[w].viewport))
           tabs == Append(s.workspaces[w].tabs, NewTabRecord(id, Leaf(Fresh(s, 0))))
           active == IF activate THEN id ELSE s.workspaces[w].active
<1>1. Authorized(s, o, w)
  BY DEF NewTab, Refused
<1>2. /\ Shaped(s)
      /\ Same(s, s)
      /\ w \in DOMAIN s.workspaces
  BY <1>1, SameRefl DEF Authorized, Leases
<1>3. Same(s, minted)
  BY <1>2, MintedSame, NumberedSame
<1> HIDE DEF id, minted, tabs, active
<1>4. Same(s, Reflowed(WithTabs(minted, w, tabs, active), w).state)
  BY <1>2, <1>3, TabsReflowedSame
<1>5. NewTab(s, o, w, activate).state = Reflowed(WithTabs(minted, w, tabs, active), w).state
  BY <1>1 DEF NewTab, Refused, id, minted, tabs, active
<1> QED BY <1>4, <1>5

LEMMA SelectTabSame ==
  ASSUME NEW s, Leases(s), NEW o, NEW w, NEW id, SelectTab(s, o, w, id).ok
  PROVE  Same(s, SelectTab(s, o, w, id).state)
<1>1. Authorized(s, o, w)
  BY DEF SelectTab, Refused
<1>2. /\ Shaped(s)
      /\ Same(s, s)
      /\ w \in DOMAIN s.workspaces
  BY <1>1, SameRefl DEF Authorized, Leases
<1>3. Same(s, Reflowed(WithTabs(s, w, s.workspaces[w].tabs, id), w).state)
  BY <1>2, TabsReflowedSame
<1>4. SelectTab(s, o, w, id).state
        \in {s, Reflowed(WithTabs(s, w, s.workspaces[w].tabs, id), w).state}
  BY <1>1 DEF SelectTab, Refused, Quietly
<1> QED BY <1>2, <1>3, <1>4

LEMMA CloseTabSame ==
  ASSUME NEW s, Leases(s), NEW o, NEW w, NEW id, CloseTab(s, o, w, id).ok
  PROVE  Same(s, CloseTab(s, o, w, id).state)
<1> DEFINE i == TabIndex(s, w, id)
           tabs == s.workspaces[w].tabs
           left == RemoveAt(tabs, i)
           next == left[IF i > Len(left) THEN Len(left) ELSE i].id
           active == IF s.workspaces[w].active = id THEN next ELSE s.workspaces[w].active
           dropped == WithoutTerminals(s, Terminals(tabs[i].layout))
<1>1. Authorized(s, o, w)
  BY DEF CloseTab, Refused
<1>2. /\ Shaped(s)
      /\ Same(s, s)
      /\ w \in DOMAIN s.workspaces
  BY <1>1, SameRefl DEF Authorized, Leases
<1>3. Same(s, dropped)
  BY <1>2, WithoutTerminalsSame
<1> HIDE DEF i, tabs, left, next, active, dropped
<1>4. Same(s, Reflowed(WithTabs(dropped, w, left, active), w).state)
  BY <1>2, <1>3, TabsReflowedSame, SMTT(30)
<1>5. CloseTab(s, o, w, id).state = Reflowed(WithTabs(dropped, w, left, active), w).state
  BY <1>1 DEF CloseTab, Refused, i, tabs, left, next, active, dropped
<1> QED BY <1>4, <1>5

LEMMA BreakPaneSame ==
  ASSUME NEW s, Leases(s), NEW o, NEW w, NEW pane, BreakPane(s, o, w, pane).ok
  PROVE  Same(s, BreakPane(s, o, w, pane).state)
<1> DEFINE i == TabOfPane(s, w, pane)
           t == s.workspaces[w].tabs[i]
           id == <<w, s.nextTab>>
           alone == NewTabRecord(id, Leaf(t.layout[PathOf(t.layout, pane)]))
           source == [s.workspaces[w].tabs EXCEPT ![i] = Relaid(t, RemoveLeaf(t.layout, pane))]
           tabs == InsertAt(source, i + 1, alone)
<1>1. Authorized(s, o, w)
  BY DEF BreakPane, Refused
<1>2. /\ Shaped(s)
      /\ Same(s, s)
      /\ w \in DOMAIN s.workspaces
  BY <1>1, SameRefl DEF Authorized, Leases
<1>3. Same(s, Numbered(s))
  BY <1>2, NumberedSame
<1> HIDE DEF i, t, id, alone, source, tabs
<1>4. Same(s, Reflowed(WithTabs(Numbered(s), w, tabs, id), w).state)
  BY <1>2, <1>3, TabsReflowedSame, SMTT(30)
<1>5. BreakPane(s, o, w, pane).state = Reflowed(WithTabs(Numbered(s), w, tabs, id), w).state
  BY <1>1 DEF BreakPane, Refused, i, t, id, alone, source, tabs
<1> QED BY <1>4, <1>5

LEMMA MoveTabSame ==
  ASSUME NEW s, Leases(s), NEW o, NEW w, NEW id, NEW to, MoveTab(s, o, w, id, to).ok
  PROVE  Same(s, MoveTab(s, o, w, id, to).state)
<1> DEFINE i == TabIndex(s, w, id)
           tabs == s.workspaces[w].tabs
           j == IF to > Len(tabs) THEN Len(tabs) ELSE to
           moved == InsertAt(RemoveAt(tabs, i), j, tabs[i])
<1>1. Authorized(s, o, w)
  BY DEF MoveTab, Refused
<1>2. /\ Shaped(s)
      /\ Same(s, s)
      /\ w \in DOMAIN s.workspaces
  BY <1>1, SameRefl DEF Authorized, Leases
<1> HIDE DEF i, tabs, j, moved
<1>3. Same(s, WithTabs(s, w, moved, s.workspaces[w].active))
  BY <1>2, TabsReflowedSame
<1>4. MoveTab(s, o, w, id, to).state \in {s, WithTabs(s, w, moved, s.workspaces[w].active)}
  BY <1>1 DEF MoveTab, Refused, Quietly, i, tabs, j, moved
<1> QED BY <1>2, <1>3, <1>4

-----------------------------------------------------------------------------
\* The lease: what a client that leaves, moves or takes over does to G1.
LEMMA ReleasedFacts ==
  ASSUME NEW s, Leases(s), NEW c
  PROVE  LET r == Released(s, c)
         IN /\ Shaped(r)
            /\ DOMAIN r.workspaces = DOMAIN s.workspaces
            /\ r.clients = s.clients
            /\ \A w \in DOMAIN s.workspaces :
                 r.workspaces[w].controller = IF s.workspaces[w].controller = c THEN NoOne
                                              ELSE s.workspaces[w].controller
<1>1. CASE ~HoldsLease(s, c)
  <2>1. ASSUME NEW w \in DOMAIN s.workspaces PROVE s.workspaces[w].controller # c \/ c = NoOne
    BY <1>1 DEF HoldsLease, Leases
  <2> QED BY <1>1, <2>1 DEF Released, Leases
<1>2. CASE HoldsLease(s, c)
  <2> DEFINE v == s.clients[c].workspace
             held == s.workspaces[v]
             r == [s EXCEPT !.workspaces[v] = [held EXCEPT !.controller = NoOne, !.rev = Later(held.rev)]]
  <2>1. /\ c \in DOMAIN s.clients
        /\ v \in DOMAIN s.workspaces
        /\ s.workspaces[v].controller = c
    BY <1>2 DEF HoldsLease, Leases
  <2>2. Released(s, c) = r
    BY <1>2 DEF Released
  <2>3. /\ Shaped(r)
        /\ DOMAIN r.workspaces = DOMAIN s.workspaces
        /\ r.clients = s.clients
        /\ r.workspaces[v].controller = NoOne
        /\ \A w \in DOMAIN s.workspaces : w # v => r.workspaces[w].controller = s.workspaces[w].controller
    <3>1. /\ r.workspaces = [s.workspaces EXCEPT ![v] = [held EXCEPT !.controller = NoOne, !.rev = Later(held.rev)]]
          /\ r.clients = s.clients
          /\ DOMAIN r = DOMAIN s
      BY DEF Shaped, Leases
    <3> HIDE DEF r, v
    <3>2. /\ DOMAIN r.workspaces = DOMAIN s.workspaces
          /\ r.workspaces[v].controller = NoOne
          /\ DOMAIN r.workspaces[v] = DOMAIN s.workspaces[v]
          /\ \A w \in DOMAIN s.workspaces : w # v => r.workspaces[w] = s.workspaces[w]
      BY <2>1, <3>1 DEF Shaped, Leases
    <3> QED BY <2>1, <3>1, <3>2 DEF Shaped, Leases
  <2>4. ASSUME NEW w \in DOMAIN s.workspaces, w # v PROVE s.workspaces[w].controller # c
    BY <2>1, <2>4 DEF Leases
  <2> QED BY <2>1, <2>2, <2>3, <2>4
<1> QED BY <1>1, <1>2

LEMMA RegisteredFacts ==
  ASSUME NEW s, Shaped(s), NEW c, NEW w, NEW role
  PROVE  LET r == Registered(s, c, w, role)
         IN /\ Shaped(r)
            /\ r.workspaces = s.workspaces
            /\ DOMAIN r.clients = DOMAIN s.clients \cup {c}
            /\ r.clients[c].workspace = w
            /\ r.clients[c].role = role
            /\ \A d \in DOMAIN s.clients \ {c} : r.clients[d] = s.clients[d]
<1> DEFINE new == Put(s.clients, c, [workspace |-> w, role |-> role])
<1>1. /\ DOMAIN new = DOMAIN s.clients \cup {c}
      /\ new[c] = [workspace |-> w, role |-> role]
      /\ \A d \in DOMAIN s.clients \ {c} : new[d] = s.clients[d]
  BY DEF Put
<1> HIDE DEF new
<1>2. LET r == [s EXCEPT !.clients = new]
      IN /\ Shaped(r)
         /\ r.workspaces = s.workspaces
         /\ r.clients = new
  BY <1>1 DEF Shaped
<1>3. Registered(s, c, w, role) = [s EXCEPT !.clients = new]
  BY DEF Registered, new
<1> QED BY <1>1, <1>2, <1>3

LEMMA ObserverLeases ==
  ASSUME NEW s, Leases(s), NEW c, c # NoOne, NEW w \in DOMAIN s.workspaces
  PROVE  /\ Leases(Registered(Released(s, c), c, w, "observer"))
         /\ DOMAIN Registered(Released(s, c), c, w, "observer").clients = DOMAIN s.clients \cup {c}
<1> DEFINE r == Released(s, c)
           u == Registered(r, c, w, "observer")
<1>1. /\ Shaped(r)
      /\ DOMAIN r.workspaces = DOMAIN s.workspaces
      /\ r.clients = s.clients
      /\ \A v \in DOMAIN s.workspaces :
           r.workspaces[v].controller = IF s.workspaces[v].controller = c THEN NoOne
                                        ELSE s.workspaces[v].controller
  BY ReleasedFacts
<1> HIDE DEF r
<1>2. /\ Shaped(u)
      /\ u.workspaces = r.workspaces
      /\ DOMAIN u.clients = DOMAIN r.clients \cup {c}
      /\ u.clients[c].workspace = w
      /\ u.clients[c].role = "observer"
      /\ \A d \in DOMAIN r.clients \ {c} : u.clients[d] = r.clients[d]
  BY <1>1, RegisteredFacts
<1> HIDE DEF u
<1>3. /\ NoOne \notin DOMAIN u.clients
      /\ \A d \in DOMAIN u.clients : u.clients[d].workspace \in DOMAIN u.workspaces
  BY <1>1, <1>2 DEF Leases
<1>4. \A v \in DOMAIN u.workspaces, d \in DOMAIN u.clients :
        (u.clients[d].workspace = v /\ u.clients[d].role = "controller")
          <=> u.workspaces[v].controller = d
  BY <1>1, <1>2 DEF Leases
<1>5. \A v \in DOMAIN u.workspaces :
        u.workspaces[v].controller # NoOne => u.workspaces[v].controller \in DOMAIN u.clients
  BY <1>1, <1>2 DEF Leases
<1>6. Leases(u)
  BY <1>2, <1>3, <1>4, <1>5 DEF Leases
<1> QED BY <1>1, <1>2, <1>6 DEF r, u

LEMMA Demotion ==
  ASSUME NEW x, x = [workspace |-> x.workspace, role |-> x.role]
  PROVE  [x EXCEPT !.role = "observer"] = [workspace |-> x.workspace, role |-> "observer"]
OBVIOUS

\* c has no lease when it is granted one: Attach releases what it held before.
LEMMA GrantedLeases ==
  ASSUME NEW s, Leases(s), NEW c, c # NoOne, NEW w \in DOMAIN s.workspaces, NEW viewport \in Viewports
  PROVE  /\ Leases(Granted(Released(s, c), c, w, viewport))
         /\ DOMAIN Granted(Released(s, c), c, w, viewport).clients = DOMAIN s.clients \cup {c}
<1> DEFINE r == Released(s, c)
           holder == r.workspaces[w].controller
           demoted == IF holder \in DOMAIN r.clients
                      THEN [r EXCEPT !.clients[holder] = [@ EXCEPT !.role = "observer"]] ELSE r
           viewed == WithViewport(demoted, w, viewport)
           taken == [viewed EXCEPT !.workspaces[w] = [@ EXCEPT !.controller = c]]
           u == Registered(taken, c, w, "controller")
<1>1. /\ Shaped(r)
      /\ DOMAIN r.workspaces = DOMAIN s.workspaces
      /\ r.clients = s.clients
      /\ \A v \in DOMAIN s.workspaces :
           r.workspaces[v].controller = IF s.workspaces[v].controller = c THEN NoOne
                                        ELSE s.workspaces[v].controller
  BY ReleasedFacts
<1> HIDE DEF r
<1>2. /\ Shaped(demoted)
      /\ demoted.workspaces = r.workspaces
      /\ DOMAIN demoted.clients = DOMAIN r.clients
      /\ \A d \in DOMAIN r.clients :
           /\ demoted.clients[d].workspace = r.clients[d].workspace
           /\ demoted.clients[d].role = IF d = holder THEN "observer" ELSE r.clients[d].role
  <2>1. CASE holder \notin DOMAIN r.clients
    BY <1>1, <2>1, SMTT(30)
  <2>2. CASE holder \in DOMAIN r.clients
    <3> DEFINE kept == [r.clients[holder] EXCEPT !.role = "observer"]
    <3>1. kept = [workspace |-> r.clients[holder].workspace, role |-> "observer"]
      <4>1. r.clients[holder] = [workspace |-> r.clients[holder].workspace, role |-> r.clients[holder].role]
        BY <1>1, <2>2 DEF Shaped
      <4> QED BY <4>1, Demotion
    <3> HIDE DEF kept
    <3>2. /\ DOMAIN demoted = DOMAIN r
          /\ demoted.workspaces = r.workspaces
          /\ demoted.clients = [r.clients EXCEPT ![holder] = kept]
      BY <1>1, <2>2 DEF Shaped, kept
    <3> QED BY <1>1, <2>2, <3>1, <3>2 DEF Shaped
  <2> QED BY <2>1, <2>2
<1> HIDE DEF demoted
<1>3. /\ Shaped(viewed)
      /\ DOMAIN viewed.workspaces = DOMAIN r.workspaces
      /\ \A v \in DOMAIN r.workspaces : viewed.workspaces[v].controller = r.workspaces[v].controller
      /\ viewed.clients = demoted.clients
  BY <1>1, <1>2, WithViewportSame DEF Same
<1> HIDE DEF viewed
<1>4. /\ Shaped(taken)
      /\ DOMAIN taken.workspaces = DOMAIN r.workspaces
      /\ taken.workspaces[w].controller = c
      /\ \A v \in DOMAIN r.workspaces : v # w => taken.workspaces[v].controller = r.workspaces[v].controller
      /\ taken.clients = demoted.clients
  BY <1>1, <1>3 DEF Shaped
<1> HIDE DEF taken
<1>5. /\ Shaped(u)
      /\ u.workspaces = taken.workspaces
      /\ DOMAIN u.clients = DOMAIN taken.clients \cup {c}
      /\ u.clients[c].workspace = w
      /\ u.clients[c].role = "controller"
      /\ \A d \in DOMAIN taken.clients \ {c} : u.clients[d] = taken.clients[d]
  BY <1>4, RegisteredFacts
<1> HIDE DEF u, holder
<1>6. ASSUME NEW v \in DOMAIN u.workspaces, NEW d \in DOMAIN u.clients
      PROVE  (u.clients[d].workspace = v /\ u.clients[d].role = "controller")
               <=> u.workspaces[v].controller = d
  <2>1. CASE d = c
    <3>1. v # w => u.workspaces[v].controller # c
      BY <1>1, <1>4, <1>5
    <3> QED BY <1>4, <1>5, <2>1, <3>1
  <2>2. CASE d # c
    <3>1. /\ d \in DOMAIN s.clients
          /\ u.clients[d].workspace = s.clients[d].workspace
          /\ u.clients[d].role = IF d = holder THEN "observer" ELSE s.clients[d].role
      BY <1>1, <1>2, <1>4, <1>5, <2>2
    <3>2. d # NoOne /\ v \in DOMAIN s.workspaces
      BY <1>1, <1>4, <1>5, <3>1 DEF Leases
    <3>3. CASE v = w
      <4>1. s.workspaces[w].controller = d => d = holder
        BY <1>1, <2>2 DEF holder
      <4> QED BY <1>4, <1>5, <2>2, <3>1, <3>2, <3>3, <4>1 DEF Leases
    <3>4. CASE v # w
      <4>1. u.workspaces[v].controller = d <=> s.workspaces[v].controller = d
        BY <1>1, <1>4, <1>5, <2>2, <3>2, <3>4
      <4>2. d = holder => s.workspaces[w].controller = d
        BY <1>1, <3>2 DEF holder
      <4> QED BY <3>1, <3>2, <3>4, <4>1, <4>2 DEF Leases
    <3> QED BY <3>3, <3>4
  <2> QED BY <2>1, <2>2
<1>7. Leases(u)
  BY <1>1, <1>2, <1>4, <1>5, <1>6 DEF Leases
<1>8. DOMAIN u.clients = DOMAIN s.clients \cup {c}
  BY <1>1, <1>2, <1>4, <1>5
<1> QED BY <1>7, <1>8, Zenon DEF Granted, r, holder, demoted, viewed, taken, u

LEMMA AttachLeases ==
  ASSUME NEW s, Leases(s), NEW c, c # NoOne, NEW w, NEW role, NEW takeover, NEW viewport \in Viewports,
         Attach(s, c, w, role, takeover, viewport).ok
  PROVE  /\ Leases(Attach(s, c, w, role, takeover, viewport).state)
         /\ DOMAIN Attach(s, c, w, role, takeover, viewport).state.clients \subseteq DOMAIN s.clients \cup {c}
<1>1. w \in DOMAIN s.workspaces
  BY DEF Attach, Refused
<1>2. /\ Leases(Registered(Released(s, c), c, w, "observer"))
      /\ DOMAIN Registered(Released(s, c), c, w, "observer").clients = DOMAIN s.clients \cup {c}
  BY <1>1, ObserverLeases
<1>3. /\ Leases(Reflowed(WithViewport(s, w, viewport), w).state)
      /\ Reflowed(WithViewport(s, w, viewport), w).state.clients = s.clients
  <2>1. Same(s, Reflowed(WithViewport(s, w, viewport), w).state)
    BY <1>1, WithViewportSame, ReflowedSame DEF Leases
  <2> QED BY <2>1, SameLeases DEF Same
<1>4. /\ Leases(Reflowed(Granted(Released(s, c), c, w, viewport), w).state)
      /\ DOMAIN Reflowed(Granted(Released(s, c), c, w, viewport), w).state.clients = DOMAIN s.clients \cup {c}
  <2> DEFINE u == Granted(Released(s, c), c, w, viewport)
  <2>1. Leases(u) /\ DOMAIN u.clients = DOMAIN s.clients \cup {c}
    BY <1>1, GrantedLeases
  <2> HIDE DEF u
  <2>2. Same(u, Reflowed(u, w).state)
    BY <2>1, SameRefl, ReflowedSame DEF Leases
  <2>3. Leases(Reflowed(u, w).state) /\ Reflowed(u, w).state.clients = u.clients
    BY <2>1, <2>2, SameLeases DEF Same
  <2> QED BY <2>1, <2>3 DEF u
<1>5. Attach(s, c, w, role, takeover, viewport).state
        \in {Registered(Released(s, c), c, w, "observer"),
             Reflowed(WithViewport(s, w, viewport), w).state,
             Reflowed(Granted(Released(s, c), c, w, viewport), w).state}
  BY <1>1 DEF Attach, Refused, Quietly
<1> QED BY <1>2, <1>3, <1>4, <1>5

LEMMA DetachLeases ==
  ASSUME NEW s, Leases(s), NEW c, Detach(s, c).ok
  PROVE  /\ Leases(Detach(s, c).state)
         /\ DOMAIN Detach(s, c).state.clients \subseteq DOMAIN s.clients
<1> DEFINE r == Released(s, c)
           left == [d \in DOMAIN s.clients \ {c} |-> s.clients[d]]
           u == [r EXCEPT !.clients = left]
<1>1. /\ Shaped(r)
      /\ DOMAIN r.workspaces = DOMAIN s.workspaces
      /\ r.clients = s.clients
      /\ \A v \in DOMAIN s.workspaces :
           r.workspaces[v].controller = IF s.workspaces[v].controller = c THEN NoOne
                                        ELSE s.workspaces[v].controller
  BY ReleasedFacts
<1>2. /\ DOMAIN left = DOMAIN s.clients \ {c}
      /\ \A d \in DOMAIN left : left[d] = s.clients[d]
  OBVIOUS
<1> HIDE DEF r, left
<1>3. /\ Shaped(u)
      /\ u.workspaces = r.workspaces
      /\ u.clients = left
  BY <1>1, <1>2 DEF Shaped
<1> HIDE DEF u
<1>4. Leases(u)
  BY <1>1, <1>2, <1>3 DEF Leases
<1>5. Detach(s, c).state = u
  BY DEF Detach, Refused, Quietly, u, r, left
<1> QED BY <1>2, <1>3, <1>4, <1>5

LEMMA ResizeViewportSame ==
  ASSUME NEW s, Leases(s), NEW c, NEW viewport \in Viewports, ResizeViewport(s, c, viewport).ok
  PROVE  Same(s, ResizeViewport(s, c, viewport).state)
<1> DEFINE w == s.clients[c].workspace
<1>1. w \in DOMAIN s.workspaces
  BY DEF ResizeViewport, Refused, Controls, Leases
<1>2. Same(s, Reflowed(WithViewport(s, w, viewport), w).state)
  BY <1>1, WithViewportSame, ReflowedSame DEF Leases
<1>3. ResizeViewport(s, c, viewport).state = Reflowed(WithViewport(s, w, viewport), w).state
  BY DEF ResizeViewport, Refused
<1> QED BY <1>2, <1>3

LEMMA RemoveWorkspaceLeases ==
  ASSUME NEW s, Leases(s), NEW w, RemoveWorkspace(s, w).ok
  PROVE  /\ Leases(RemoveWorkspace(s, w).state)
         /\ DOMAIN RemoveWorkspace(s, w).state.clients \subseteq DOMAIN s.clients
<1> DEFINE dropped == WithoutTerminals(s, TerminalsOf(s, w))
           order == Picked(dropped.order, {i \in DOMAIN dropped.order : dropped.order[i] # w})
           others == [v \in DOMAIN s.workspaces \ {w} |-> s.workspaces[v]]
           clients == [c \in ClientsElsewhere(s, w) |-> s.clients[c]]
           u == [dropped EXCEPT !.order = order, !.workspaces = others, !.clients = clients]
<1>1. /\ DOMAIN others = DOMAIN s.workspaces \ {w}
      /\ \A v \in DOMAIN others : others[v] = s.workspaces[v]
  OBVIOUS
<1>2. /\ DOMAIN clients = {c \in DOMAIN s.clients : s.clients[c].workspace # w}
      /\ \A c \in DOMAIN clients : clients[c] = s.clients[c]
  BY DEF ClientsElsewhere
<1>3. Shaped(dropped)
  BY WithoutTerminalsSame DEF Leases, Same
<1> HIDE DEF order, others, clients, dropped
<1>4. /\ DOMAIN u = DOMAIN dropped
      /\ u.workspaces = others
      /\ u.clients = clients
  BY <1>3 DEF Shaped
<1> HIDE DEF u
<1>5. Shaped(u)
  <2>1. \A v \in DOMAIN u.workspaces :
          DOMAIN u.workspaces[v] = {"tabs", "active", "controller", "viewport", "rev"}
    <3>1. \A v \in DOMAIN s.workspaces :
            DOMAIN s.workspaces[v] = {"tabs", "active", "controller", "viewport", "rev"}
      BY DEF Shaped, Leases
    <3> QED BY <1>1, <1>4, <3>1
  <2>2. \A c \in DOMAIN u.clients :
          u.clients[c] = [workspace |-> u.clients[c].workspace, role |-> u.clients[c].role]
    <3>1. \A c \in DOMAIN s.clients :
            s.clients[c] = [workspace |-> s.clients[c].workspace, role |-> s.clients[c].role]
      BY DEF Shaped, Leases
    <3>2. DOMAIN clients \subseteq DOMAIN s.clients
      BY <1>2
    <3> QED BY <1>2, <1>4, <3>1, <3>2
  <2> QED BY <1>3, <1>4, <2>1, <2>2 DEF Shaped
<1>6. Leases(u)
  BY <1>1, <1>2, <1>4, <1>5 DEF Leases
<1>7. RemoveWorkspace(s, w).state = u
  BY DEF RemoveWorkspace, Refused, Quietly, u, order, others, clients, dropped
<1> QED BY <1>2, <1>4, <1>6, <1>7

LEMMA NewWorkspaceLeases ==
  ASSUME NEW s, Leases(s), NEW w, w \notin DOMAIN s.workspaces, NEW tabs, NEW active, NEW viewport
  PROVE  /\ Leases(NewWorkspace(s, w, tabs, active, viewport))
         /\ NewWorkspace(s, w, tabs, active, viewport).clients = s.clients
<1> DEFINE new == [tabs |-> tabs, active |-> active, controller |-> NoOne, viewport |-> viewport, rev |-> 0]
           all == Put(s.workspaces, w, new)
           order == Append(s.order, w)
           u == [s EXCEPT !.order = order, !.workspaces = all]
<1>1. /\ DOMAIN all = DOMAIN s.workspaces \cup {w}
      /\ all[w] = new
      /\ \A v \in DOMAIN s.workspaces : all[v] = s.workspaces[v]
  BY DEF Put
<1> HIDE DEF all, order
<1>2. /\ DOMAIN u = DOMAIN s
      /\ u.workspaces = all
      /\ u.clients = s.clients
  BY DEF Leases, Shaped
<1> HIDE DEF u
<1>3. Shaped(u)
  BY <1>1, <1>2 DEF Shaped, Leases
<1>4. Leases(u)
  BY <1>1, <1>2, <1>3 DEF Leases
<1> QED BY <1>2, <1>4, Zenon DEF NewWorkspace, u, all, order, new

LEMMA RestoredLeases ==
  ASSUME NEW s, Leases(s), NEW w, w \notin DOMAIN s.workspaces, NEW saved, NEW viewport
  PROVE  /\ Leases(InstallRestoredSession(s, w, saved, viewport))
         /\ Leases(CreateWorkspace(s, w, viewport))
         /\ InstallRestoredSession(s, w, saved, viewport).clients = s.clients
         /\ CreateWorkspace(s, w, viewport).clients = s.clients
<1> DEFINE n == Len(saved)
           claimed == NumbersClaimed(s, n)
<1>1. Same(s, claimed)
  BY DEF NumbersClaimed, Leases, Same, Shaped
<1> HIDE DEF claimed
<1>2. \A k, size : Same(s, Minted(claimed, k, size)) /\ Same(s, Minted(s, k, size))
  BY <1>1, MintedSame, SameTrans DEF Same, Leases
<1>3. \A k, size : /\ Leases(Minted(claimed, k, size)) /\ w \notin DOMAIN Minted(claimed, k, size).workspaces
                   /\ Leases(Minted(s, k, size)) /\ w \notin DOMAIN Minted(s, k, size).workspaces
  BY <1>2, SameLeases DEF Same
<1>4. \A k, size, tabs, active :
        /\ Leases(NewWorkspace(Minted(claimed, k, size), w, tabs, active, viewport))
        /\ Leases(NewWorkspace(Minted(s, k, size), w, tabs, active, viewport))
        /\ NewWorkspace(Minted(claimed, k, size), w, tabs, active, viewport).clients = s.clients
        /\ NewWorkspace(Minted(s, k, size), w, tabs, active, viewport).clients = s.clients
  BY <1>2, <1>3, NewWorkspaceLeases DEF Same
<1> QED BY <1>4, Zenon DEF InstallRestoredSession, CreateWorkspace, claimed, n

-----------------------------------------------------------------------------
\* The invariant of the actor.  The attached clients are clients.
IInv == Leases(mux) /\ DOMAIN mux.clients \subseteq Clients

\* The lease part of the invariant is G1.
LEMMA LeasesGiveG1 == IInv => G1
<1> SUFFICES ASSUME IInv, NEW w \in Open
             PROVE  {c \in DOMAIN mux.clients : mux.clients[c] = [workspace |-> w, role |-> "controller"]}
                      = {mux.workspaces[w].controller} \ {NoOne}
  BY DEF G1
<1>1. ASSUME NEW c \in DOMAIN mux.clients
      PROVE  mux.clients[c] = [workspace |-> w, role |-> "controller"]
               <=> mux.workspaces[w].controller = c
  BY DEF IInv, Leases, Shaped, Open
<1> QED BY <1>1 DEF IInv, Leases, Open

LEMMA SameIInv == ASSUME IInv, NEW t, Same(mux, t), mux' = t PROVE IInv'
BY SameLeases DEF IInv, Same

LEMMA InitIInv == Init => IInv
<1> SUFFICES ASSUME Init PROVE IInv
  OBVIOUS
<1>1. Leases(NewState) /\ Home \notin DOMAIN NewState.workspaces /\ DOMAIN NewState.clients = {}
  BY DEF NewState, Leases, Shaped
<1>2. PICK viewport : \/ mux = CreateWorkspace(NewState, Home, viewport)
                      \/ \E saved : mux = InstallRestoredSession(NewState, Home, saved, viewport)
  BY DEF Init
<1>3. Leases(mux) /\ mux.clients = NewState.clients
  BY <1>1, <1>2, RestoredLeases
<1> QED BY <1>1, <1>3 DEF IInv

LEMMA NextIInv == ASSUME IInv, [Next]_vars PROVE IInv'
<1> USE DEF Apply
<1>0. ASSUME UNCHANGED vars PROVE IInv'
  BY <1>0 DEF vars, IInv
<1>1. ASSUME DoCreateWorkspace PROVE IInv'
  <2>1. PICK w \in Workspaces \ Open, viewport \in Viewports : mux' = CreateWorkspace(mux, w, viewport)
    BY <1>1 DEF DoCreateWorkspace
  <2> QED BY <2>1, RestoredLeases DEF IInv, Open
<1>2. ASSUME DoRemoveWorkspace PROVE IInv'
  <2>1. PICK w \in Open : Apply(RemoveWorkspace(mux, w))
    BY <1>2 DEF DoRemoveWorkspace
  <2> QED BY <2>1, RemoveWorkspaceLeases DEF IInv
<1>3. ASSUME DoAttach PROVE IInv'
  <2>1. PICK c \in Clients, w \in Workspaces, role \in {"controller", "observer"},
            takeover \in BOOLEAN, viewport \in Viewports :
          Apply(Attach(mux, c, w, role, takeover, viewport))
    BY <1>3 DEF DoAttach
  <2>2. c # NoOne
    BY OriginAssumption
  <2>3. /\ Leases(mux')
        /\ DOMAIN mux'.clients \subseteq DOMAIN mux.clients \cup {c}
    BY <2>1, <2>2, AttachLeases DEF IInv
  <2> QED BY <2>3 DEF IInv
<1>4. ASSUME DoDetach PROVE IInv'
  <2>1. PICK c \in Clients : Apply(Detach(mux, c))
    BY <1>4 DEF DoDetach
  <2> QED BY <2>1, DetachLeases DEF IInv
<1>5. ASSUME DoResize PROVE IInv'
  <2>1. PICK c \in Clients, viewport \in Viewports : Apply(ResizeViewport(mux, c, viewport))
    BY <1>5 DEF DoResize
  <2> QED BY <2>1, ResizeViewportSame, SameIInv DEF IInv
<1>6. ASSUME DoFocus PROVE IInv'
  BY <1>6, FocusPaneSame, FocusPaneInSame, SameIInv DEF DoFocus, IInv
<1>7. ASSUME DoZoom PROVE IInv'
  BY <1>7, ToggleZoomSame, SameIInv DEF DoZoom, IInv
<1>8. ASSUME DoSplit PROVE IInv'
  BY <1>8, SplitPaneSame, SameIInv DEF DoSplit, IInv
<1>9. ASSUME DoClose PROVE IInv'
  BY <1>9, ClosePaneSame, SameIInv DEF DoClose, IInv
<1>10. ASSUME DoResizePane PROVE IInv'
  BY <1>10, ResizePaneSame, SameIInv DEF DoResizePane, IInv
<1>11. ASSUME DoDrag PROVE IInv'
  BY <1>11, SetSplitRatioSame, SameIInv DEF DoDrag, IInv
<1>12. ASSUME DoRearrange PROVE IInv'
  BY <1>12, RearrangeSame, SameIInv DEF DoRearrange, IInv
<1>13. ASSUME DoNewTab PROVE IInv'
  BY <1>13, NewTabSame, SameIInv DEF DoNewTab, IInv
<1>14. ASSUME DoSelectTab PROVE IInv'
  BY <1>14, SelectTabSame, SameIInv DEF DoSelectTab, IInv
<1>15. ASSUME DoCloseTab PROVE IInv'
  BY <1>15, CloseTabSame, SameIInv DEF DoCloseTab, IInv
<1>16. ASSUME DoBreakPane PROVE IInv'
  BY <1>16, BreakPaneSame, SameIInv DEF DoBreakPane, IInv
<1>17. ASSUME DoMoveTab PROVE IInv'
  BY <1>17, MoveTabSame, SameIInv DEF DoMoveTab, IInv
<1> QED BY <1>0, <1>1, <1>2, <1>3, <1>4, <1>5, <1>6, <1>7, <1>8, <1>9, <1>10, <1>11, <1>12, <1>13, <1>14, <1>15, <1>16, <1>17 DEF Next

\* G1, whatever the clients, the workspaces, their layouts and the commands.
THEOREM OneController == Spec => []G1
<1>1. IInv /\ [Next]_vars => IInv'
  BY NextIInv
<1> QED BY InitIInv, <1>1, LeasesGiveG1, PTL DEF Spec
-----------------------------------------------------------------------------
(* The tabs of the workspaces *)

\* A tab of w: its number was taken from the counter, which is n now.
IsTab(w, n, t) ==
  /\ DOMAIN t = {"id", "layout", "focused", "zoomed", "rev"}
  /\ t.rev \in Nat
  /\ \E k \in Nat : k < n /\ t.id = <<w, k>>

\* The tabs of w: a sequence, no two of them with the same number.
IsTabs(w, n, tabs) ==
  /\ tabs \in Seq({tabs[i] : i \in DOMAIN tabs})
  /\ \A i \in DOMAIN tabs : IsTab(w, n, tabs[i])
  /\ \A i, j \in DOMAIN tabs : tabs[i].id = tabs[j].id => i = j

\* A state whose tabs can be told apart by their identifiers.
Numbers(s) ==
  /\ s.nextTab \in Nat \ {0}
  /\ \A w \in DOMAIN s.workspaces : IsTabs(w, s.nextTab, s.workspaces[w].tabs)

\* Each tab was there before, as it is or with a lower revision, or it is new.
Follow(w, n, old, new) ==
  \A j \in DOMAIN new :
    \/ \E i \in DOMAIN old : /\ old[i].id = new[j].id
                             /\ new[j] = old[i] \/ new[j].rev > old[i].rev
    \/ new[j].id = <<w, n>>

Revised(s, t) ==
  /\ Numbers(t)
  /\ \A w \in DOMAIN s.workspaces \cap DOMAIN t.workspaces :
       Follow(w, s.nextTab, s.workspaces[w].tabs, t.workspaces[w].tabs)

\* The counter went on or did not, and the workspaces other than w have their tabs.
Edits(s, t, w, tabs) ==
  /\ Shaped(t)
  /\ DOMAIN t.workspaces = DOMAIN s.workspaces
  /\ t.workspaces[w].tabs = tabs
  /\ \A v \in DOMAIN s.workspaces \ {w} : t.workspaces[v].tabs = s.workspaces[v].tabs
  /\ t.nextTab \in Nat /\ t.nextTab >= s.nextTab

Keeps(s, t) ==
  /\ Shaped(t)
  /\ DOMAIN t.workspaces = DOMAIN s.workspaces
  /\ \A v \in DOMAIN s.workspaces : t.workspaces[v].tabs = s.workspaces[v].tabs
  /\ t.nextTab \in Nat /\ t.nextTab >= s.nextTab

LEMMA MoreNumbers ==
  ASSUME NEW w, NEW n \in Nat, NEW m \in Nat, n <= m, NEW tabs, IsTabs(w, n, tabs)
  PROVE  IsTabs(w, m, tabs)
<1>1. ASSUME NEW i \in DOMAIN tabs PROVE IsTab(w, m, tabs[i])
  BY <1>1 DEF IsTabs, IsTab
<1> QED BY <1>1 DEF IsTabs

LEMMA KeepsRevised ==
  ASSUME NEW s, Numbers(s), NEW t, Keeps(s, t)
  PROVE  Revised(s, t)
<1>1. ASSUME NEW w \in DOMAIN t.workspaces
      PROVE  IsTabs(w, t.nextTab, t.workspaces[w].tabs)
  BY MoreNumbers DEF Keeps, Numbers
<1>2. Numbers(t)
  BY <1>1 DEF Keeps, Numbers
<1> QED BY <1>2 DEF Revised, Follow, Keeps

LEMMA EditsRevised ==
  ASSUME NEW s, Numbers(s), NEW w \in DOMAIN s.workspaces, NEW tabs, NEW t, Edits(s, t, w, tabs),
         IsTabs(w, t.nextTab, tabs), Follow(w, s.nextTab, s.workspaces[w].tabs, tabs)
  PROVE  Revised(s, t)
<1>1. ASSUME NEW v \in DOMAIN t.workspaces
      PROVE  IsTabs(v, t.nextTab, t.workspaces[v].tabs)
  BY MoreNumbers DEF Edits, Numbers
<1>2. Numbers(t)
  BY <1>1 DEF Edits, Numbers
<1>3. ASSUME NEW v \in DOMAIN s.workspaces, v # w
      PROVE  Follow(v, s.nextTab, s.workspaces[v].tabs, t.workspaces[v].tabs)
  BY <1>3 DEF Follow, Edits
<1> QED BY <1>2, <1>3 DEF Revised, Edits

\* One change after another.
LEMMA KeepsTrans ==
  ASSUME NEW s, NEW t, NEW u, s.nextTab \in Nat, Keeps(s, t), Keeps(t, u)
  PROVE  Keeps(s, u)
BY DEF Keeps

LEMMA KeepsThenEdits ==
  ASSUME NEW s, NEW t, NEW u, s.nextTab \in Nat, NEW w \in DOMAIN s.workspaces, NEW tabs,
         Keeps(s, t), Edits(t, u, w, tabs)
  PROVE  Edits(s, u, w, tabs)
BY DEF Keeps, Edits

LEMMA EditsThenKeeps ==
  ASSUME NEW s, NEW t, NEW u, s.nextTab \in Nat, NEW w \in DOMAIN s.workspaces, NEW tabs,
         Edits(s, t, w, tabs), Keeps(t, u)
  PROVE  Edits(s, u, w, tabs)
BY DEF Keeps, Edits

LEMMA KeepsItself ==
  ASSUME NEW s, Shaped(s), s.nextTab \in Nat PROVE Keeps(s, s)
BY DEF Keeps

LEMMA TouchedKeeps ==
  ASSUME NEW s, Shaped(s), s.nextTab \in Nat, NEW w \in DOMAIN s.workspaces
  PROVE  Keeps(s, Touched(s, w))
BY DEF Shaped, Keeps, Touched

LEMMA WithViewportKeeps ==
  ASSUME NEW s, Shaped(s), s.nextTab \in Nat, NEW w \in DOMAIN s.workspaces, NEW viewport
  PROVE  Keeps(s, WithViewport(s, w, viewport))
BY DEF Shaped, Keeps, WithViewport

LEMMA MintedKeeps ==
  ASSUME NEW s, Shaped(s), s.nextTab \in Nat, NEW n, NEW size
  PROVE  Keeps(s, Minted(s, n, size))
<1>1. ASSUME NEW p, NEW q, NEW m
      PROVE  Keeps(s, [s EXCEPT !.nextPane = p, !.nextTerm = q, !.terminals = m])
  BY DEF Shaped, Keeps
<1> QED BY <1>1, Zenon DEF Minted

LEMMA NumberedKeeps ==
  ASSUME NEW s, Shaped(s), s.nextTab \in Nat
  PROVE  Keeps(s, Numbered(s)) /\ Numbered(s).nextTab = s.nextTab + 1
BY DEF Shaped, Keeps, Numbered

LEMMA WithoutTerminalsKeeps ==
  ASSUME NEW s, Shaped(s), s.nextTab \in Nat, NEW gone
  PROVE  Keeps(s, WithoutTerminals(s, gone))
BY DEF Shaped, Keeps, WithoutTerminals

LEMMA ReflowedKeeps ==
  ASSUME NEW s, Shaped(s), s.nextTab \in Nat, NEW w, NEW id
  PROVE  Keeps(s, Reflowed(s, w).state) /\ Keeps(s, Shown(s, w, id).state)
<1>1. Keeps(s, Reflowed(s, w).state)
  BY DEF Shaped, Keeps, Reflowed, Sized
<1>2. Keeps(s, Quietly(s).state)
  BY DEF Keeps, Quietly
<1> QED BY <1>1, <1>2 DEF Shown

LEMMA ReleasedKeeps ==
  ASSUME NEW s, Leases(s), s.nextTab \in Nat, NEW c
  PROVE  Keeps(s, Released(s, c))
BY DEF Leases, Shaped, Keeps, Released, HoldsLease

LEMMA WithTabEdits ==
  ASSUME NEW s, Shaped(s), s.nextTab \in Nat, NEW w \in DOMAIN s.workspaces, NEW i, NEW t
  PROVE  Edits(s, WithTab(s, w, i, t), w, [s.workspaces[w].tabs EXCEPT ![i] = t])
<1>1. Shaped(WithTab(s, w, i, t))
  BY WithTabSame DEF Same
<1>2. /\ WithTab(s, w, i, t).nextTab = s.nextTab
      /\ DOMAIN WithTab(s, w, i, t).workspaces = DOMAIN s.workspaces
      /\ \A v \in DOMAIN s.workspaces \ {w} : WithTab(s, w, i, t).workspaces[v].tabs = s.workspaces[v].tabs
      /\ WithTab(s, w, i, t).workspaces[w].tabs = [s.workspaces[w].tabs EXCEPT ![i] = t]
  BY DEF Shaped, WithTab
<1> QED BY <1>1, <1>2 DEF Edits

LEMMA WithTabsEdits ==
  ASSUME NEW s, Shaped(s), s.nextTab \in Nat, NEW w \in DOMAIN s.workspaces, NEW tabs, NEW active
  PROVE  Edits(s, WithTabs(s, w, tabs, active), w, tabs)
<1>1. Shaped(WithTabs(s, w, tabs, active))
  BY WithTabsSame DEF Same
<1>2. /\ WithTabs(s, w, tabs, active).nextTab = s.nextTab
      /\ DOMAIN WithTabs(s, w, tabs, active).workspaces = DOMAIN s.workspaces
      /\ \A v \in DOMAIN s.workspaces \ {w} : WithTabs(s, w, tabs, active).workspaces[v].tabs = s.workspaces[v].tabs
      /\ WithTabs(s, w, tabs, active).workspaces[w].tabs = tabs
  BY DEF Shaped, WithTabs
<1> QED BY <1>1, <1>2 DEF Edits

\* A sequence is one over its own elements.
LEMMA OwnElements ==
  ASSUME NEW S, NEW s \in Seq(S)
  PROVE  s \in Seq({s[k] : k \in DOMAIN s})
<1> DEFINE T == {s[k] : k \in DOMAIN s}
<1>1. s = [k \in 1 .. Len(s) |-> s[k]] /\ Len(s) \in Nat /\ DOMAIN s = 1 .. Len(s)
  OBVIOUS
<1>2. \A k \in 1 .. Len(s) : s[k] \in T
  BY <1>1
<1> HIDE DEF T
<1>3. s \in Seq(T)
  BY <1>1, <1>2
<1> QED BY <1>3 DEF T

\* Every tab of new is one of old, but not the i-th; or one of old or t.
Without(new, old, i) == \A k \in DOMAIN new : \E m \in DOMAIN old \ {i} : new[k] = old[m]
With(new, old, t) == \A k \in DOMAIN new : new[k] = t \/ \E m \in DOMAIN old : new[k] = old[m]
Elements(seq) == {seq[k] : k \in DOMAIN seq}
Joined(new, old, t) == Elements(new) = Elements(old) \cup {t}

\* A sequence of tabs with one replaced, added or removed.
LEMMA EditedTab ==
  ASSUME NEW w, NEW n \in Nat, NEW tabs, IsTabs(w, n, tabs), NEW i, NEW t,
         i \in DOMAIN tabs => /\ DOMAIN t = {"id", "layout", "focused", "zoomed", "rev"}
                              /\ t.id = tabs[i].id /\ t.rev = Later(tabs[i].rev)
  PROVE  /\ IsTabs(w, n, [tabs EXCEPT ![i] = t])
         /\ Follow(w, n, tabs, [tabs EXCEPT ![i] = t])
<1> DEFINE new == [tabs EXCEPT ![i] = t]
<1>1. tabs \in Seq({tabs[k] : k \in DOMAIN tabs})
  BY DEF IsTabs
<1>2. Len(tabs) \in Nat /\ DOMAIN tabs = 1 .. Len(tabs)
  BY <1>1
<1>3. DOMAIN new = DOMAIN tabs /\ \A k \in DOMAIN new : new[k] = IF k = i THEN t ELSE tabs[k]
  OBVIOUS
<1>4. new \in Seq({new[k] : k \in DOMAIN new})
  <2> DEFINE S == {tabs[k] : k \in DOMAIN tabs} \cup {t}
  <2>1. tabs \in Seq(S) /\ t \in S
    BY <1>1
  <2> HIDE DEF S
  <2>2. new \in Seq(S)
    <3>1. CASE i \in DOMAIN tabs
      BY <1>2, <2>1, <3>1
    <3>2. CASE i \notin DOMAIN tabs
      <4>1. tabs = [k \in 1 .. Len(tabs) |-> tabs[k]] /\ new = [k \in 1 .. Len(tabs) |-> new[k]]
        <5>1. tabs = [k \in 1 .. Len(tabs) |-> tabs[k]]
          BY <1>1
        <5>2. new = [k \in 1 .. Len(tabs) |-> new[k]]
          BY <1>2
        <5> QED BY <5>1, <5>2
      <4>2. \A k \in DOMAIN tabs : new[k] = tabs[k]
        BY <1>3, <3>2
      <4>3. new = tabs
        BY <1>2, <4>1, <4>2
      <4> QED BY <2>1, <4>3
    <3> QED BY <3>1, <3>2
  <2> HIDE DEF new
  <2> QED BY <2>2, OwnElements
<1>5. \A k \in DOMAIN tabs : tabs[k].rev \in Nat
  BY DEF IsTabs, IsTab
<1> HIDE DEF new
<1>6. ASSUME NEW k \in DOMAIN new
      PROVE  new[k].id = tabs[k].id /\ (new[k] = tabs[k] \/ new[k].rev > tabs[k].rev) /\ IsTab(w, n, new[k])
  <2>1. k \in DOMAIN tabs /\ IsTab(w, n, tabs[k])
    BY <1>3, <1>6 DEF IsTabs
  <2>2. CASE k # i
    BY <1>3, <1>6, <2>1, <2>2
  <2>3. CASE k = i
    <3>1. new[k] = t /\ t.id = tabs[k].id /\ t.rev = tabs[k].rev + 1
      BY <1>3, <1>6, <2>1, <2>3 DEF Later
    <3>2. t.rev \in Nat /\ t.rev > tabs[k].rev
      BY <1>5, <2>1, <3>1
    <3>3. IsTab(w, n, t)
      BY <2>1, <2>3, <3>1, <3>2 DEF IsTab
    <3> QED BY <3>1, <3>2, <3>3
  <2> QED BY <2>2, <2>3
<1>7. \A k, m \in DOMAIN new : new[k].id = new[m].id => k = m
  BY <1>3, <1>6 DEF IsTabs
<1>8. IsTabs(w, n, new) /\ Follow(w, n, tabs, new)
  BY <1>3, <1>4, <1>6, <1>7 DEF IsTabs, Follow
<1> QED BY <1>8 DEF new

LEMMA RemovedTab ==
  ASSUME NEW w, NEW n \in Nat, NEW tabs, IsTabs(w, n, tabs), NEW i \in DOMAIN tabs
  PROVE  /\ IsTabs(w, n, RemoveAt(tabs, i))
         /\ Len(RemoveAt(tabs, i)) = Len(tabs) - 1 /\ Len(tabs) \in Nat
         /\ Without(RemoveAt(tabs, i), tabs, i)
         /\ Elements(RemoveAt(tabs, i)) = Elements(tabs) \ {tabs[i]}
<1> DEFINE S == {tabs[k] : k \in DOMAIN tabs}
           left == RemoveAt(tabs, i)
<1>1. tabs \in Seq(S)
  BY DEF IsTabs
<1>2. Len(tabs) \in Nat /\ DOMAIN tabs = 1 .. Len(tabs) /\ \A k \in 1 .. Len(tabs) : tabs[k] \in S
  BY <1>1
<1>3. i \in 1 .. Len(tabs)
  BY <1>2
<1> HIDE DEF S
<1>4. /\ SubSeq(tabs, 1, i - 1) \in Seq(S) /\ Len(SubSeq(tabs, 1, i - 1)) = i - 1
      /\ \A k \in 1 .. i - 1 : SubSeq(tabs, 1, i - 1)[k] = tabs[k]
  BY <1>2, <1>3, SubSeqProperties
<1>5. /\ SubSeq(tabs, i + 1, Len(tabs)) \in Seq(S)
      /\ Len(SubSeq(tabs, i + 1, Len(tabs))) = Len(tabs) - i
      /\ \A k \in 1 .. Len(tabs) - i : SubSeq(tabs, i + 1, Len(tabs))[k] = tabs[i + k]
  BY <1>2, <1>3, SubSeqProperties
<1>6. /\ left \in Seq(S) /\ Len(left) = Len(tabs) - 1
      /\ \A k \in 1 .. Len(tabs) - 1 : left[k] = IF k < i THEN tabs[k] ELSE tabs[k + 1]
  <2>1. /\ left \in Seq(S) /\ Len(left) = (i - 1) + (Len(tabs) - i)
        /\ \A k \in 1 .. (i - 1) + (Len(tabs) - i) :
             left[k] = IF k <= i - 1 THEN SubSeq(tabs, 1, i - 1)[k]
                       ELSE SubSeq(tabs, i + 1, Len(tabs))[k - (i - 1)]
    <3> DEFINE front == SubSeq(tabs, 1, i - 1)
               back == SubSeq(tabs, i + 1, Len(tabs))
    <3>1. left = front \o back
      BY DEF RemoveAt
    <3>2. front \in Seq(S) /\ Len(front) = i - 1 /\ back \in Seq(S) /\ Len(back) = Len(tabs) - i
      BY <1>4, <1>5
    <3> HIDE DEF front, back, left
    <3>3. /\ front \o back \in Seq(S) /\ Len(front \o back) = Len(front) + Len(back)
          /\ \A k \in 1 .. Len(front) + Len(back) :
               (front \o back)[k] = IF k <= Len(front) THEN front[k] ELSE back[k - Len(front)]
      BY <3>2, ConcatProperties
    <3>4. /\ left \in Seq(S) /\ Len(left) = (i - 1) + (Len(tabs) - i)
          /\ \A k \in 1 .. (i - 1) + (Len(tabs) - i) :
               left[k] = IF k <= i - 1 THEN front[k] ELSE back[k - (i - 1)]
      BY <3>1, <3>2, <3>3
    <3> QED BY <3>4 DEF front, back
  <2>2. ASSUME NEW k \in 1 .. Len(tabs) - 1
        PROVE  left[k] = IF k < i THEN tabs[k] ELSE tabs[k + 1]
    <3>1. k \in 1 .. (i - 1) + (Len(tabs) - i)
      BY <1>2, <1>3
    <3>2. CASE k < i
      BY <1>2, <1>3, <1>4, <2>1, <3>1, <3>2
    <3>3. CASE ~(k < i)
      <4>1. k - (i - 1) \in 1 .. Len(tabs) - i /\ i + (k - (i - 1)) = k + 1
        BY <1>2, <1>3, <3>3
      <4>2. left[k] = SubSeq(tabs, i + 1, Len(tabs))[k - (i - 1)]
        BY <1>2, <1>3, <2>1, <3>1, <3>3
      <4>3. SubSeq(tabs, i + 1, Len(tabs))[k - (i - 1)] = tabs[i + (k - (i - 1))]
        BY <1>5, <4>1
      <4> QED BY <3>3, <4>1, <4>2, <4>3
    <3> QED BY <3>2, <3>3
  <2> QED BY <2>1, <2>2, <1>2, <1>3
<1> HIDE DEF left
<1>7. DOMAIN left = 1 .. Len(tabs) - 1 /\ left \in Seq({left[k] : k \in DOMAIN left})
  <2>1. DOMAIN left = 1 .. Len(tabs) - 1
    BY <1>2, <1>3, <1>6
  <2> QED BY <1>6, <2>1, OwnElements
<1>8. ASSUME NEW k \in DOMAIN left
      PROVE  \E m \in DOMAIN tabs \ {i} : left[k] = tabs[m] /\ m = IF k < i THEN k ELSE k + 1
  BY <1>2, <1>3, <1>6, <1>7
<1>9. \A k, m \in DOMAIN left : left[k].id = left[m].id => k = m
  <2>1. \A a, b \in DOMAIN tabs : tabs[a].id = tabs[b].id => a = b
    BY DEF IsTabs
  <2> SUFFICES ASSUME NEW k \in DOMAIN left, NEW m \in DOMAIN left, left[k].id = left[m].id
               PROVE  k = m
    OBVIOUS
  <2>2. PICK a \in DOMAIN tabs \ {i} : left[k] = tabs[a] /\ a = IF k < i THEN k ELSE k + 1
    BY <1>8
  <2>3. PICK b \in DOMAIN tabs \ {i} : left[m] = tabs[b] /\ b = IF m < i THEN m ELSE m + 1
    BY <1>8
  <2>4. a = b
    BY <2>1, <2>2, <2>3
  <2> QED BY <1>2, <1>3, <1>7, <2>2, <2>3, <2>4, SMTT(30)
<1>10. \A k \in DOMAIN left : IsTab(w, n, left[k])
  BY <1>8 DEF IsTabs
<1>11. IsTabs(w, n, left)
  BY <1>7, <1>9, <1>10 DEF IsTabs
<1>12. Without(left, tabs, i)
  BY <1>8 DEF Without
<1>13. ASSUME NEW m \in DOMAIN tabs \ {i} PROVE \E k \in DOMAIN left : left[k] = tabs[m]
  <2>1. CASE m < i
    <3>1. m \in 1 .. Len(tabs) - 1
      BY <1>2, <1>3, <2>1
    <3>2. left[m] = tabs[m]
      BY <1>6, <2>1, <3>1
    <3> QED BY <1>7, <3>1, <3>2
  <2>2. CASE ~(m < i)
    <3>1. m - 1 \in 1 .. Len(tabs) - 1 /\ ~(m - 1 < i) /\ (m - 1) + 1 = m
      BY <1>2, <1>3, <2>2
    <3>2. left[m - 1] = tabs[m]
      BY <1>6, <3>1
    <3> QED BY <1>7, <3>1, <3>2
  <2> QED BY <2>1, <2>2
<1>14. Elements(left) = Elements(tabs) \ {tabs[i]}
  <2>1. ASSUME NEW k \in DOMAIN left PROVE left[k] \in Elements(tabs) \ {tabs[i]}
    <3>1. PICK m \in DOMAIN tabs \ {i} : left[k] = tabs[m]
      BY <1>8
    <3>2. tabs[m] # tabs[i]
      BY DEF IsTabs
    <3> QED BY <3>1, <3>2 DEF Elements
  <2>2. ASSUME NEW x \in Elements(tabs) \ {tabs[i]} PROVE x \in Elements(left)
    <3>1. PICK m \in DOMAIN tabs : x = tabs[m]
      BY DEF Elements
    <3> QED BY <1>13, <2>2, <3>1 DEF Elements
  <2> QED BY <2>1, <2>2 DEF Elements
<1> QED BY <1>2, <1>6, <1>11, <1>12, <1>14 DEF left

LEMMA InsertedTab ==
  ASSUME NEW w, NEW n \in Nat, NEW tabs, IsTabs(w, n, tabs), NEW i \in 1 .. Len(tabs) + 1,
         NEW t, IsTab(w, n, t), \A k \in DOMAIN tabs : tabs[k].id # t.id
  PROVE  /\ IsTabs(w, n, InsertAt(tabs, i, t))
         /\ With(InsertAt(tabs, i, t), tabs, t)
         /\ Joined(InsertAt(tabs, i, t), tabs, t)
<1> DEFINE S == {tabs[k] : k \in DOMAIN tabs} \cup {t}
           new == InsertAt(tabs, i, t)
           front == SubSeq(tabs, 1, i - 1)
           back == SubSeq(tabs, i, Len(tabs))
<1>1. tabs \in Seq({tabs[k] : k \in DOMAIN tabs})
  BY DEF IsTabs
<1>2. Len(tabs) \in Nat /\ DOMAIN tabs = 1 .. Len(tabs)
  BY <1>1
<1>3. \A k \in 1 .. Len(tabs) : tabs[k] \in S
  BY <1>2
<1>4. t \in S
  OBVIOUS
<1> HIDE DEF S
<1>5. front \in Seq(S) /\ Len(front) = i - 1 /\ \A k \in 1 .. i - 1 : front[k] = tabs[k]
  BY <1>2, <1>3, SubSeqProperties
<1>6. /\ back \in Seq(S) /\ Len(back) = Len(tabs) - i + 1
      /\ \A k \in 1 .. Len(tabs) - i + 1 : back[k] = tabs[i + k - 1]
  BY <1>2, <1>3, SubSeqProperties
<1> HIDE DEF front, back
<1>7. <<t>> \in Seq(S) /\ Len(<<t>>) = 1 /\ <<t>>[1] = t
  BY <1>4
<1>8. /\ front \o <<t>> \in Seq(S) /\ Len(front \o <<t>>) = i
      /\ \A k \in 1 .. i : (front \o <<t>>)[k] = IF k <= i - 1 THEN tabs[k] ELSE t
  <2>1. /\ front \o <<t>> \in Seq(S) /\ Len(front \o <<t>>) = (i - 1) + 1
        /\ \A k \in 1 .. (i - 1) + 1 :
             (front \o <<t>>)[k] = IF k <= i - 1 THEN front[k] ELSE <<t>>[k - (i - 1)]
    BY <1>5, <1>7, ConcatProperties
  <2>2. ASSUME NEW k \in 1 .. i PROVE (front \o <<t>>)[k] = IF k <= i - 1 THEN tabs[k] ELSE t
    <3>1. CASE k <= i - 1
      BY <1>2, <1>5, <2>1, <3>1
    <3>2. CASE ~(k <= i - 1)
      <4>1. k \in 1 .. (i - 1) + 1 /\ k - (i - 1) = 1
        BY <1>2, <3>2
      <4> QED BY <1>7, <2>1, <3>2, <4>1
    <3> QED BY <3>1, <3>2
  <2> QED BY <1>2, <2>1, <2>2
<1>9. /\ new \in Seq(S) /\ Len(new) = Len(tabs) + 1
      /\ \A k \in 1 .. Len(tabs) + 1 :
           new[k] = IF k < i THEN tabs[k] ELSE IF k = i THEN t ELSE tabs[k - 1]
  <2>1. /\ new \in Seq(S) /\ Len(new) = i + (Len(tabs) - i + 1)
        /\ \A k \in 1 .. i + (Len(tabs) - i + 1) :
             new[k] = IF k <= i THEN (front \o <<t>>)[k] ELSE back[k - i]
    <3>1. new = (front \o <<t>>) \o back
      BY DEF new, InsertAt, front, back
    <3> HIDE DEF new
    <3>2. front \o <<t>> \in Seq(S) /\ back \in Seq(S)
      BY <1>6, <1>8
    <3> DEFINE both == front \o <<t>>
    <3> HIDE DEF both
    <3>3. /\ both \o back \in Seq(S) /\ Len(both \o back) = Len(both) + Len(back)
          /\ \A k \in 1 .. Len(both) + Len(back) :
               (both \o back)[k] = IF k <= Len(both) THEN both[k] ELSE back[k - Len(both)]
      BY <3>2, ConcatProperties DEF both
    <3> QED BY <1>6, <1>8, <3>1, <3>3 DEF both
  <2>2. ASSUME NEW k \in 1 .. Len(tabs) + 1
        PROVE  new[k] = IF k < i THEN tabs[k] ELSE IF k = i THEN t ELSE tabs[k - 1]
    <3>1. k \in 1 .. i + (Len(tabs) - i + 1)
      BY <1>2
    <3>2. CASE k <= i
      BY <1>2, <1>8, <2>1, <3>1, <3>2
    <3>3. CASE ~(k <= i)
      <4>1. k - i \in 1 .. Len(tabs) - i + 1 /\ i + (k - i) - 1 = k - 1
        BY <1>2, <3>3
      <4>2. new[k] = back[k - i]
        BY <2>1, <3>1, <3>3
      <4>3. back[k - i] = tabs[i + (k - i) - 1]
        BY <1>6, <4>1
      <4> QED BY <1>2, <3>3, <4>1, <4>2, <4>3
    <3> QED BY <3>2, <3>3
  <2> QED BY <1>2, <2>1, <2>2
<1> HIDE DEF new
<1>10. DOMAIN new = 1 .. Len(tabs) + 1 /\ new \in Seq({new[k] : k \in DOMAIN new})
  <2>1. DOMAIN new = 1 .. Len(tabs) + 1
    BY <1>2, <1>9
  <2> QED BY <1>9, <2>1, OwnElements
<1>11. ASSUME NEW k \in DOMAIN new
       PROVE  new[k] = t \/ \E m \in DOMAIN tabs : new[k] = tabs[m]
  <2>1. k < i => k \in DOMAIN tabs
    BY <1>2, <1>10, <1>11
  <2>2. k > i => k - 1 \in DOMAIN tabs
    BY <1>2, <1>10, <1>11
  <2> QED BY <1>2, <1>9, <1>10, <1>11, <2>1, <2>2
<1>12. \A k, m \in DOMAIN new : new[k].id = new[m].id => k = m
  <2>1. \A a, b \in DOMAIN tabs : tabs[a].id = tabs[b].id => a = b
    BY DEF IsTabs
  <2>2. ASSUME NEW k \in DOMAIN new, k # i
        PROVE  \E a \in DOMAIN tabs : new[k] = tabs[a] /\ a = IF k < i THEN k ELSE k - 1
    BY <1>2, <1>9, <1>10, <2>2
  <2>3. \A k \in DOMAIN new : k = i => new[k] = t
    BY <1>9, <1>10
  <2> SUFFICES ASSUME NEW k \in DOMAIN new, NEW m \in DOMAIN new, new[k].id = new[m].id
               PROVE  k = m
    OBVIOUS
  <2>4. CASE k = i \/ m = i
    BY <2>2, <2>3, <2>4
  <2>5. CASE k # i /\ m # i
    <3>1. PICK a \in DOMAIN tabs : new[k] = tabs[a] /\ a = IF k < i THEN k ELSE k - 1
      BY <2>2, <2>5
    <3>2. PICK b \in DOMAIN tabs : new[m] = tabs[b] /\ b = IF m < i THEN m ELSE m - 1
      BY <2>2, <2>5
    <3>3. a = b
      BY <2>1, <3>1, <3>2
    <3> QED BY <1>2, <1>10, <2>5, <3>1, <3>2, <3>3, SMTT(30)
  <2> QED BY <2>4, <2>5
<1>13. \A k \in DOMAIN new : IsTab(w, n, new[k])
  BY <1>11 DEF IsTabs
<1>14. IsTabs(w, n, new)
  BY <1>10, <1>12, <1>13 DEF IsTabs
<1>15. With(new, tabs, t)
  BY <1>11 DEF With
<1>16. ASSUME NEW m \in DOMAIN tabs PROVE \E k \in DOMAIN new : new[k] = tabs[m]
  <2>1. CASE m < i
    <3>1. m \in 1 .. Len(tabs) + 1
      BY <1>2
    <3>2. new[m] = tabs[m]
      BY <1>9, <2>1, <3>1
    <3> QED BY <1>10, <3>1, <3>2
  <2>2. CASE ~(m < i)
    <3>1. m + 1 \in 1 .. Len(tabs) + 1 /\ ~(m + 1 < i) /\ m + 1 # i /\ (m + 1) - 1 = m
      BY <1>2, <2>2
    <3>2. new[m + 1] = tabs[m]
      BY <1>9, <3>1
    <3> QED BY <1>10, <3>1, <3>2
  <2> QED BY <2>1, <2>2
<1>17. Elements(new) = Elements(tabs) \cup {t}
  <2>1. i \in DOMAIN new /\ new[i] = t
    BY <1>2, <1>9, <1>10
  <2>2. ASSUME NEW x \in Elements(tabs) \cup {t} PROVE x \in Elements(new)
    BY <1>16, <2>1 DEF Elements
  <2>3. ASSUME NEW k \in DOMAIN new PROVE new[k] \in Elements(tabs) \cup {t}
    BY <1>11 DEF Elements
  <2> QED BY <2>2, <2>3 DEF Elements
<1> QED BY <1>14, <1>15, <1>17 DEF new, Joined

LEMMA AppendedTab ==
  ASSUME NEW w, NEW n \in Nat, NEW tabs, IsTabs(w, n, tabs), NEW t, IsTab(w, n, t),
         \A k \in DOMAIN tabs : tabs[k].id # t.id
  PROVE  /\ IsTabs(w, n, Append(tabs, t))
         /\ With(Append(tabs, t), tabs, t)
         /\ Elements(Append(tabs, t)) = Elements(tabs) \cup {t}
<1> DEFINE S == {tabs[k] : k \in DOMAIN tabs} \cup {t}
           new == Append(tabs, t)
<1>1. tabs \in Seq({tabs[k] : k \in DOMAIN tabs})
  BY DEF IsTabs
<1>2. Len(tabs) \in Nat /\ DOMAIN tabs = 1 .. Len(tabs)
  BY <1>1
<1>3. tabs \in Seq(S) /\ t \in S
  BY <1>1
<1> HIDE DEF S
<1>4. /\ new \in Seq(S) /\ Len(new) = Len(tabs) + 1
      /\ \A k \in 1 .. Len(tabs) + 1 : new[k] = IF k <= Len(tabs) THEN tabs[k] ELSE t
  BY <1>2, <1>3
<1> HIDE DEF new
<1>5. DOMAIN new = 1 .. Len(tabs) + 1 /\ new \in Seq({new[k] : k \in DOMAIN new})
  <2>1. DOMAIN new = 1 .. Len(tabs) + 1
    BY <1>2, <1>4
  <2> QED BY <1>4, <2>1, OwnElements
<1>6. ASSUME NEW k \in DOMAIN new
      PROVE  new[k] = t \/ \E m \in DOMAIN tabs : new[k] = tabs[m]
  BY <1>2, <1>4, <1>5, <1>6
<1>7. \A k, m \in DOMAIN new : new[k].id = new[m].id => k = m
  BY <1>2, <1>4, <1>5 DEF IsTabs
<1>8. IsTabs(w, n, new)
  BY <1>5, <1>6, <1>7 DEF IsTabs
<1>9. With(new, tabs, t)
  BY <1>6 DEF With
<1>10. Elements(new) = Elements(tabs) \cup {t}
  <2>1. Len(tabs) + 1 \in DOMAIN new /\ new[Len(tabs) + 1] = t
    BY <1>2, <1>4, <1>5
  <2>2. \A m \in DOMAIN tabs : m \in DOMAIN new /\ new[m] = tabs[m]
    BY <1>2, <1>4, <1>5
  <2>3. ASSUME NEW x \in Elements(tabs) \cup {t} PROVE x \in Elements(new)
    BY <2>1, <2>2 DEF Elements
  <2>4. ASSUME NEW k \in DOMAIN new PROVE new[k] \in Elements(tabs) \cup {t}
    BY <1>6 DEF Elements
  <2> QED BY <2>3, <2>4 DEF Elements
<1> QED BY <1>8, <1>9, <1>10 DEF new

LEMMA AppendedElements ==
  ASSUME NEW w, NEW n \in Nat, NEW tabs, IsTabs(w, n, tabs), NEW t, IsTab(w, n, t),
         \A k \in DOMAIN tabs : tabs[k].id # t.id
  PROVE  Elements(Append(tabs, t)) = Elements(tabs) \cup {t}
BY AppendedTab

-----------------------------------------------------------------------------
\* What each command does to the tabs of its workspace.

\* A place that was found is one.
LEMMA FoundPlace ==
  ASSUME NEW S, Place(S) # 0 PROVE Place(S) \in S
BY DEF Place

\* A command that replaces one tab of w, after and before other changes that keep the tabs.
LEMMA TabEdited ==
  ASSUME NEW s, Numbers(s), NEW a, Keeps(s, a), NEW w \in DOMAIN s.workspaces, NEW i, NEW t, NEW b,
         Keeps(WithTab(a, w, i, t), b),
         i \in DOMAIN s.workspaces[w].tabs =>
           /\ DOMAIN t = {"id", "layout", "focused", "zoomed", "rev"}
           /\ t.id = s.workspaces[w].tabs[i].id /\ t.rev = Later(s.workspaces[w].tabs[i].rev)
  PROVE  Revised(s, b)
<1> DEFINE tabs == [s.workspaces[w].tabs EXCEPT ![i] = t]
<1>1. /\ Shaped(a) /\ a.nextTab \in Nat /\ w \in DOMAIN a.workspaces /\ s.nextTab \in Nat
      /\ a.workspaces[w].tabs = s.workspaces[w].tabs
  BY DEF Keeps, Numbers
<1>2. Edits(a, WithTab(a, w, i, t), w, tabs)
  BY <1>1, WithTabEdits
<1> HIDE DEF tabs
<1>3. Edits(s, b, w, tabs)
  BY <1>1, <1>2, KeepsThenEdits, EditsThenKeeps
<1>4. IsTabs(w, s.nextTab, s.workspaces[w].tabs)
  BY DEF Numbers
<1>5. IsTabs(w, s.nextTab, tabs) /\ Follow(w, s.nextTab, s.workspaces[w].tabs, tabs)
  BY <1>1, <1>4, EditedTab DEF tabs
<1>6. IsTabs(w, b.nextTab, tabs)
  BY <1>1, <1>3, <1>5, MoreNumbers DEF Edits
<1> QED BY <1>3, <1>5, <1>6, EditsRevised

\* What the three ways of changing a tab have in common.
LEMMA TabsRevised ==
  ASSUME NEW t, DOMAIN t = {"id", "layout", "focused", "zoomed", "rev"}
  PROVE  /\ \A pane : LET u == Focused(t, pane)
                      IN DOMAIN u = DOMAIN t /\ u.id = t.id /\ u.rev = Later(t.rev)
         /\ \A layout : LET u == Relaid(t, layout)
                        IN DOMAIN u = DOMAIN t /\ u.id = t.id /\ u.rev = Later(t.rev)
         /\ \A layout : LET u == [t EXCEPT !.layout = layout, !.rev = Later(@)]
                        IN DOMAIN u = DOMAIN t /\ u.id = t.id /\ u.rev = Later(t.rev)
         /\ \A zoomed : LET u == [t EXCEPT !.zoomed = zoomed, !.rev = Later(@)]
                        IN DOMAIN u = DOMAIN t /\ u.id = t.id /\ u.rev = Later(t.rev)
<1>1. ASSUME NEW pane PROVE LET u == Focused(t, pane)
                            IN DOMAIN u = DOMAIN t /\ u.id = t.id /\ u.rev = Later(t.rev)
  BY DEF Focused
<1>2. ASSUME NEW layout PROVE LET u == Relaid(t, layout)
                              IN DOMAIN u = DOMAIN t /\ u.id = t.id /\ u.rev = Later(t.rev)
  BY DEF Relaid
<1>3. ASSUME NEW layout PROVE LET u == [t EXCEPT !.layout = layout, !.rev = Later(@)]
                              IN DOMAIN u = DOMAIN t /\ u.id = t.id /\ u.rev = Later(t.rev)
  OBVIOUS
<1>4. ASSUME NEW zoomed PROVE LET u == [t EXCEPT !.zoomed = zoomed, !.rev = Later(@)]
                              IN DOMAIN u = DOMAIN t /\ u.id = t.id /\ u.rev = Later(t.rev)
  OBVIOUS
<1> QED BY <1>1, <1>2, <1>3, <1>4

LEMMA TabShaped ==
  ASSUME NEW s, Numbers(s), NEW w \in DOMAIN s.workspaces, NEW i \in DOMAIN s.workspaces[w].tabs
  PROVE  DOMAIN s.workspaces[w].tabs[i] = {"id", "layout", "focused", "zoomed", "rev"}
BY DEF Numbers, IsTabs, IsTab

\* A tab changed, the workspace touched before or after, and what is shown reflowed.
LEMMA TabCommands ==
  ASSUME NEW s, Leases(s), Numbers(s), NEW w \in DOMAIN s.workspaces, NEW i, NEW t,
         i \in DOMAIN s.workspaces[w].tabs =>
           /\ DOMAIN t = {"id", "layout", "focused", "zoomed", "rev"}
           /\ t.id = s.workspaces[w].tabs[i].id /\ t.rev = Later(s.workspaces[w].tabs[i].rev)
  PROVE  /\ Revised(s, s)
         /\ Revised(s, WithTab(s, w, i, t))
         /\ Revised(s, Reflowed(Touched(WithTab(s, w, i, t), w), w).state)
         /\ Revised(s, Reflowed(WithTab(Touched(s, w), w, i, t), w).state)
         /\ \A id : Revised(s, Shown(WithTab(Touched(s, w), w, i, t), w, id).state)
         /\ \A gone, id : Revised(s, Shown(WithoutTerminals(Touched(WithTab(s, w, i, t), w), gone), w, id).state)
<1> DEFINE a == WithTab(s, w, i, t)
           b == WithTab(Touched(s, w), w, i, t)
<1>1. Shaped(s) /\ s.nextTab \in Nat
  BY DEF Leases, Numbers
<1>2. Keeps(s, s) /\ Keeps(s, Touched(s, w))
  BY <1>1, KeepsItself, TouchedKeeps
<1>3. /\ Shaped(a) /\ a.nextTab \in Nat /\ w \in DOMAIN a.workspaces
      /\ Shaped(b) /\ b.nextTab \in Nat /\ w \in DOMAIN b.workspaces
  <2>1. Edits(s, a, w, [s.workspaces[w].tabs EXCEPT ![i] = t])
    BY <1>1, WithTabEdits
  <2> DEFINE c == Touched(s, w)
  <2>2. Shaped(c) /\ c.nextTab \in Nat /\ w \in DOMAIN c.workspaces
    BY <1>2 DEF Keeps
  <2> HIDE DEF c
  <2>3. Edits(c, WithTab(c, w, i, t), w, [c.workspaces[w].tabs EXCEPT ![i] = t])
    BY <2>2, WithTabEdits
  <2>4. Shaped(a) /\ a.nextTab \in Nat /\ w \in DOMAIN a.workspaces
    BY <2>1 DEF Edits
  <2> QED BY <2>2, <2>3, <2>4 DEF Edits, c
<1> HIDE DEF a, b
<1>4. /\ Keeps(a, a) /\ Keeps(a, Touched(a, w)) /\ Keeps(b, b)
      /\ Keeps(b, Reflowed(b, w).state)
  BY <1>3, KeepsItself, TouchedKeeps, ReflowedKeeps
<1>5. Shaped(Touched(a, w)) /\ Touched(a, w).nextTab \in Nat
  BY <1>4 DEF Keeps
<1>6. Keeps(a, Reflowed(Touched(a, w), w).state)
  BY <1>3, <1>4, <1>5, ReflowedKeeps, KeepsTrans
<1>7. ASSUME NEW id PROVE Keeps(b, Shown(b, w, id).state)
  BY <1>3, ReflowedKeeps
<1>8. ASSUME NEW gone, NEW id PROVE Keeps(a, Shown(WithoutTerminals(Touched(a, w), gone), w, id).state)
  <2>1. Keeps(a, WithoutTerminals(Touched(a, w), gone))
    BY <1>3, <1>4, <1>5, WithoutTerminalsKeeps, KeepsTrans
  <2>2. Shaped(WithoutTerminals(Touched(a, w), gone)) /\ WithoutTerminals(Touched(a, w), gone).nextTab \in Nat
    BY <2>1 DEF Keeps
  <2>3. Keeps(WithoutTerminals(Touched(a, w), gone), Shown(WithoutTerminals(Touched(a, w), gone), w, id).state)
    BY <2>2, ReflowedKeeps
  <2> QED BY <1>3, <2>1, <2>3, KeepsTrans
<1>9. Revised(s, s)
  BY <1>2, KeepsRevised
<1>10. ASSUME NEW u, Keeps(a, u) PROVE Revised(s, u)
  BY <1>2, <1>10, TabEdited DEF a
<1>11. ASSUME NEW u, Keeps(b, u) PROVE Revised(s, u)
  BY <1>2, <1>11, TabEdited DEF b
<1>12. Revised(s, a) /\ Revised(s, Reflowed(Touched(a, w), w).state)
  BY <1>4, <1>6, <1>10
<1>13. Revised(s, Reflowed(b, w).state)
  BY <1>4, <1>11
<1>14. \A id : Revised(s, Shown(b, w, id).state)
  BY <1>7, <1>11
<1>15. \A gone, id : Revised(s, Shown(WithoutTerminals(Touched(a, w), gone), w, id).state)
  BY <1>8, <1>10
<1> QED BY <1>9, <1>12, <1>13, <1>14, <1>15 DEF a, b

\* The index a command finds its tab at.
LEMMA FoundTabs ==
  ASSUME NEW s, NEW w
  PROVE  /\ \A id : TabIndex(s, w, id) # 0 =>
              /\ TabIndex(s, w, id) \in DOMAIN s.workspaces[w].tabs
              /\ s.workspaces[w].tabs[TabIndex(s, w, id)].id = id
         /\ \A pane : TabOfPane(s, w, pane) # 0 => TabOfPane(s, w, pane) \in DOMAIN s.workspaces[w].tabs
<1>1. ASSUME NEW id, TabIndex(s, w, id) # 0
      PROVE  /\ TabIndex(s, w, id) \in DOMAIN s.workspaces[w].tabs
             /\ s.workspaces[w].tabs[TabIndex(s, w, id)].id = id
  <2> DEFINE S == {i \in DOMAIN s.workspaces[w].tabs : s.workspaces[w].tabs[i].id = id}
  <2>1. TabIndex(s, w, id) = Place(S)
    BY DEF TabIndex
  <2> HIDE DEF S
  <2>2. TabIndex(s, w, id) \in S
    BY <1>1, <2>1, FoundPlace
  <2> QED BY <2>2 DEF S
<1>2. ASSUME NEW pane, TabOfPane(s, w, pane) # 0
      PROVE  TabOfPane(s, w, pane) \in DOMAIN s.workspaces[w].tabs
  <2> DEFINE S == {i \in DOMAIN s.workspaces[w].tabs : pane \in Panes(s.workspaces[w].tabs[i].layout)}
  <2>1. TabOfPane(s, w, pane) = Place(S)
    BY DEF TabOfPane
  <2> HIDE DEF S
  <2>2. TabOfPane(s, w, pane) \in S
    BY <1>2, <2>1, FoundPlace
  <2> QED BY <2>2 DEF S
<1> QED BY <1>1, <1>2

LEMMA FocusPaneRevised ==
  ASSUME NEW s, Leases(s), Numbers(s), NEW c, NEW pane, FocusPane(s, c, pane).ok
  PROVE  Revised(s, FocusPane(s, c, pane).state)
<1> DEFINE w == s.clients[c].workspace
           i == TabIndex(s, w, s.workspaces[w].active)
           t == s.workspaces[w].tabs[i]
           tab == Focused(t, pane)
<1>1. Controls(s, c)
  BY Zenon DEF FocusPane, Refused
<1>2. w \in DOMAIN s.workspaces
  BY <1>1, Zenon DEF Controls, Leases
<1>3. ASSUME i \in DOMAIN s.workspaces[w].tabs
      PROVE  /\ DOMAIN tab = {"id", "layout", "focused", "zoomed", "rev"}
             /\ tab.id = s.workspaces[w].tabs[i].id /\ tab.rev = Later(s.workspaces[w].tabs[i].rev)
  <2>1. DOMAIN t = {"id", "layout", "focused", "zoomed", "rev"}
    BY <1>2, <1>3, TabShaped, Zenon
  <2> HIDE DEF i, t
  <2>2. DOMAIN tab = DOMAIN t /\ tab.id = t.id /\ tab.rev = Later(t.rev)
    BY <2>1, TabsRevised, Zenon
  <2> QED BY <2>1, <2>2, Zenon DEF t
<1>4. FocusPane(s, c, pane).state \in {WithTab(s, w, i, tab), Reflowed(Touched(WithTab(s, w, i, tab), w), w).state}
  BY <1>1, Zenon DEF FocusPane, Refused, Quietly
<1> HIDE DEF w, i, t, tab
<1>5. Revised(s, WithTab(s, w, i, tab)) /\ Revised(s, Reflowed(Touched(WithTab(s, w, i, tab), w), w).state)
  BY <1>2, <1>3, TabCommands
<1> QED BY <1>4, <1>5, Zenon

LEMMA FocusPaneInRevised ==
  ASSUME NEW s, Leases(s), Numbers(s), NEW o, NEW w, NEW pane, FocusPaneIn(s, o, w, pane).ok
  PROVE  Revised(s, FocusPaneIn(s, o, w, pane).state)
<1> DEFINE i == TabOfPane(s, w, pane)
           t == s.workspaces[w].tabs[i]
           tab == Focused(t, pane)
<1>1. Authorized(s, o, w)
  BY DEF FocusPaneIn, Refused
<1>2. w \in DOMAIN s.workspaces
  BY <1>1 DEF Authorized
<1>3. ASSUME i \in DOMAIN s.workspaces[w].tabs
      PROVE  /\ DOMAIN tab = {"id", "layout", "focused", "zoomed", "rev"}
             /\ tab.id = s.workspaces[w].tabs[i].id /\ tab.rev = Later(s.workspaces[w].tabs[i].rev)
  <2>1. DOMAIN t = {"id", "layout", "focused", "zoomed", "rev"}
    BY <1>2, <1>3, TabShaped
  <2> HIDE DEF i, t
  <2>2. DOMAIN tab = DOMAIN t /\ tab.id = t.id /\ tab.rev = Later(t.rev)
    BY <2>1, TabsRevised
  <2> QED BY <2>1, <2>2 DEF t
<1>4. FocusPaneIn(s, o, w, pane).state
        \in {s, WithTab(s, w, i, tab), Reflowed(Touched(WithTab(s, w, i, tab), w), w).state}
  BY <1>1 DEF FocusPaneIn, Refused, Quietly
<1> HIDE DEF i, t, tab
<1>5. /\ Revised(s, s) /\ Revised(s, WithTab(s, w, i, tab))
      /\ Revised(s, Reflowed(Touched(WithTab(s, w, i, tab), w), w).state)
  BY <1>2, <1>3, TabCommands
<1> QED BY <1>4, <1>5

LEMMA ToggleZoomRevised ==
  ASSUME NEW s, Leases(s), Numbers(s), NEW o, NEW w, ToggleZoom(s, o, w).ok
  PROVE  Revised(s, ToggleZoom(s, o, w).state)
<1> DEFINE i == TabIndex(s, w, s.workspaces[w].active)
           t == s.workspaces[w].tabs[i]
           zoomed == IF t.zoomed = NoOne THEN t.focused ELSE NoOne
           tab == [t EXCEPT !.zoomed = zoomed, !.rev = Later(@)]
<1>1. Authorized(s, o, w)
  BY DEF ToggleZoom, Refused
<1>2. w \in DOMAIN s.workspaces
  BY <1>1 DEF Authorized
<1>3. ASSUME i \in DOMAIN s.workspaces[w].tabs
      PROVE  /\ DOMAIN tab = {"id", "layout", "focused", "zoomed", "rev"}
             /\ tab.id = s.workspaces[w].tabs[i].id /\ tab.rev = Later(s.workspaces[w].tabs[i].rev)
  <2>1. DOMAIN t = {"id", "layout", "focused", "zoomed", "rev"}
    BY <1>2, <1>3, TabShaped
  <2> HIDE DEF i, t
  <2>2. DOMAIN tab = DOMAIN t /\ tab.id = t.id /\ tab.rev = Later(t.rev)
    BY <2>1, TabsRevised, SMTT(30)
  <2> QED BY <2>1, <2>2 DEF t
<1>4. ToggleZoom(s, o, w).state = Reflowed(WithTab(Touched(s, w), w, i, tab), w).state
  BY <1>1 DEF ToggleZoom, Refused
<1> HIDE DEF i, t, zoomed, tab
<1>5. Revised(s, Reflowed(WithTab(Touched(s, w), w, i, tab), w).state)
  BY <1>2, <1>3, TabCommands
<1> QED BY <1>4, <1>5

LEMMA SplitPaneRevised ==
  ASSUME NEW s, Leases(s), Numbers(s), NEW o, NEW w, NEW pane, NEW dir, NEW ifRev,
         SplitPane(s, o, w, pane, dir, ifRev).ok
  PROVE  Revised(s, SplitPane(s, o, w, pane, dir, ifRev).state)
<1> DEFINE i == TabOfPane(s, w, pane)
           t == s.workspaces[w].tabs[i]
           minted == Minted(s, 1, [cols |-> 1, rows |-> 1])
           tab == Relaid(t, SplitLeaf(t.layout, pane, dir, Fresh(s, 0)))
           split == WithTab(minted, w, i, tab)
<1>1. Authorized(s, o, w)
  BY DEF SplitPane, Refused
<1>2. w \in DOMAIN s.workspaces /\ Shaped(s) /\ s.nextTab \in Nat
  BY <1>1 DEF Authorized, Leases, Numbers
<1>3. ASSUME i \in DOMAIN s.workspaces[w].tabs
      PROVE  /\ DOMAIN tab = {"id", "layout", "focused", "zoomed", "rev"}
             /\ tab.id = s.workspaces[w].tabs[i].id /\ tab.rev = Later(s.workspaces[w].tabs[i].rev)
  <2>1. DOMAIN t = {"id", "layout", "focused", "zoomed", "rev"}
    BY <1>2, <1>3, TabShaped
  <2> HIDE DEF i, t
  <2>2. DOMAIN tab = DOMAIN t /\ tab.id = t.id /\ tab.rev = Later(t.rev)
    BY <2>1, TabsRevised
  <2> QED BY <2>1, <2>2 DEF t
<1>4. Keeps(s, minted)
  BY <1>2, MintedKeeps
<1>5. Shaped(minted) /\ minted.nextTab \in Nat /\ w \in DOMAIN minted.workspaces
  BY <1>2, <1>4 DEF Keeps
<1> HIDE DEF i, t, minted, tab
<1>6. Shaped(split) /\ split.nextTab \in Nat /\ w \in DOMAIN split.workspaces
  <2>1. Edits(minted, split, w, [minted.workspaces[w].tabs EXCEPT ![i] = tab])
    BY <1>5, WithTabEdits
  <2> QED BY <1>5, <2>1 DEF Edits
<1> HIDE DEF split
<1>7. Keeps(split, Touched(split, w))
  BY <1>6, TouchedKeeps
<1>8. Keeps(split, Shown(Touched(split, w), w, t.id).state)
  <2>1. Shaped(Touched(split, w)) /\ Touched(split, w).nextTab \in Nat
    BY <1>7 DEF Keeps
  <2> QED BY <1>6, <1>7, <2>1, ReflowedKeeps, KeepsTrans
<1>9. Revised(s, Shown(Touched(split, w), w, t.id).state)
  BY <1>2, <1>3, <1>4, <1>8, TabEdited DEF split
<1>10. SplitPane(s, o, w, pane, dir, ifRev).state = Shown(Touched(split, w), w, t.id).state
  BY <1>1 DEF SplitPane, Refused, i, t, minted, tab, split
<1> QED BY <1>9, <1>10

LEMMA ClosePaneRevised ==
  ASSUME NEW s, Leases(s), Numbers(s), NEW o, NEW w, NEW pane, NEW ifRev,
         ClosePane(s, o, w, pane, ifRev).ok
  PROVE  Revised(s, ClosePane(s, o, w, pane, ifRev).state)
<1> DEFINE i == TabOfPane(s, w, pane)
           t == s.workspaces[w].tabs[i]
           tab == Relaid(t, RemoveLeaf(t.layout, pane))
           gone == {TerminalOf(t.layout, pane)}
<1>1. Authorized(s, o, w)
  BY DEF ClosePane, Refused
<1>2. w \in DOMAIN s.workspaces
  BY <1>1 DEF Authorized
<1>3. ASSUME i \in DOMAIN s.workspaces[w].tabs
      PROVE  /\ DOMAIN tab = {"id", "layout", "focused", "zoomed", "rev"}
             /\ tab.id = s.workspaces[w].tabs[i].id /\ tab.rev = Later(s.workspaces[w].tabs[i].rev)
  <2>1. DOMAIN t = {"id", "layout", "focused", "zoomed", "rev"}
    BY <1>2, <1>3, TabShaped
  <2> HIDE DEF i, t
  <2>2. DOMAIN tab = DOMAIN t /\ tab.id = t.id /\ tab.rev = Later(t.rev)
    BY <2>1, TabsRevised
  <2> QED BY <2>1, <2>2 DEF t
<1> HIDE DEF i, t, tab, gone
<1>4. Revised(s, Shown(WithoutTerminals(Touched(WithTab(s, w, i, tab), w), gone), w, t.id).state)
  BY <1>2, <1>3, TabCommands
<1>5. ClosePane(s, o, w, pane, ifRev).state
        = Shown(WithoutTerminals(Touched(WithTab(s, w, i, tab), w), gone), w, t.id).state
  BY <1>1 DEF ClosePane, Refused, i, t, tab, gone
<1> QED BY <1>4, <1>5

LEMMA RedividedRevised ==
  ASSUME NEW s, Leases(s), Numbers(s), NEW w \in DOMAIN s.workspaces, NEW i, NEW layout
  PROVE  Revised(s, Redivided(s, w, i, layout).state)
<1> DEFINE t == s.workspaces[w].tabs[i]
           tab == [t EXCEPT !.layout = layout, !.rev = Later(@)]
<1>1. i \in DOMAIN s.workspaces[w].tabs =>
        /\ DOMAIN tab = {"id", "layout", "focused", "zoomed", "rev"}
        /\ tab.id = s.workspaces[w].tabs[i].id /\ tab.rev = Later(s.workspaces[w].tabs[i].rev)
  BY TabShaped, TabsRevised
<1>2. Redivided(s, w, i, layout).state \in {s, Shown(WithTab(Touched(s, w), w, i, tab), w, t.id).state}
  BY DEF Redivided, Quietly
<1> HIDE DEF t, tab
<1>3. Revised(s, s) /\ Revised(s, Shown(WithTab(Touched(s, w), w, i, tab), w, t.id).state)
  BY <1>1, TabCommands
<1> QED BY <1>2, <1>3

LEMMA ResizePaneRevised ==
  ASSUME NEW s, Leases(s), Numbers(s), NEW o, NEW w, NEW pane, NEW axis, NEW grow,
         ResizePane(s, o, w, pane, axis, grow).ok
  PROVE  Revised(s, ResizePane(s, o, w, pane, axis, grow).state)
<1>1. Authorized(s, o, w)
  BY DEF ResizePane, Refused
<1>2. w \in DOMAIN s.workspaces
  BY <1>1 DEF Authorized
<1> QED BY <1>2, RedividedRevised DEF ResizePane, Refused

LEMMA SetSplitRatioRevised ==
  ASSUME NEW s, Leases(s), Numbers(s), NEW o, NEW w, NEW path, NEW ratio,
         SetSplitRatio(s, o, w, path, ratio).ok
  PROVE  Revised(s, SetSplitRatio(s, o, w, path, ratio).state)
<1>1. Authorized(s, o, w)
  BY DEF SetSplitRatio, Refused
<1>2. w \in DOMAIN s.workspaces
  BY <1>1 DEF Authorized
<1> QED BY <1>2, RedividedRevised DEF SetSplitRatio, Refused

LEMMA RearrangeRevised ==
  ASSUME NEW s, Leases(s), Numbers(s), NEW o, NEW w, NEW pane, NEW op, Rearrange(s, o, w, pane, op).ok
  PROVE  Revised(s, Rearrange(s, o, w, pane, op).state)
<1> DEFINE i == TabOfPane(s, w, pane)
           t == s.workspaces[w].tabs[i]
           tab == Relaid(t, Rearranged(t.layout, pane, op))
<1>1. Authorized(s, o, w)
  BY DEF Rearrange, Refused
<1>2. w \in DOMAIN s.workspaces
  BY <1>1 DEF Authorized
<1>3. ASSUME i \in DOMAIN s.workspaces[w].tabs
      PROVE  /\ DOMAIN tab = {"id", "layout", "focused", "zoomed", "rev"}
             /\ tab.id = s.workspaces[w].tabs[i].id /\ tab.rev = Later(s.workspaces[w].tabs[i].rev)
  <2>1. DOMAIN t = {"id", "layout", "focused", "zoomed", "rev"}
    BY <1>2, <1>3, TabShaped
  <2> HIDE DEF i, t
  <2>2. DOMAIN tab = DOMAIN t /\ tab.id = t.id /\ tab.rev = Later(t.rev)
    BY <2>1, TabsRevised
  <2> QED BY <2>1, <2>2 DEF t
<1> HIDE DEF i, t, tab
<1>4. Revised(s, s) /\ Revised(s, Shown(WithTab(Touched(s, w), w, i, tab), w, t.id).state)
  BY <1>2, <1>3, TabCommands
<1>5. Rearrange(s, o, w, pane, op).state \in {s, Shown(WithTab(Touched(s, w), w, i, tab), w, t.id).state}
  BY <1>1 DEF Rearrange, Refused, Quietly, i, t, tab
<1> QED BY <1>4, <1>5
-----------------------------------------------------------------------------
\* The commands on tabs.
LEMMA TabsReplaced ==
  ASSUME NEW s, Numbers(s), NEW a, Keeps(s, a), NEW w \in DOMAIN s.workspaces, NEW tabs, NEW active,
         IsTabs(w, a.nextTab, tabs), Follow(w, s.nextTab, s.workspaces[w].tabs, tabs)
  PROVE  /\ Revised(s, WithTabs(a, w, tabs, active))
         /\ Revised(s, Reflowed(WithTabs(a, w, tabs, active), w).state)
<1> DEFINE b == WithTabs(a, w, tabs, active)
<1>1. Shaped(a) /\ a.nextTab \in Nat /\ w \in DOMAIN a.workspaces /\ s.nextTab \in Nat
  BY DEF Keeps, Numbers
<1>2. Edits(a, b, w, tabs)
  BY <1>1, WithTabsEdits
<1>3. b.nextTab = a.nextTab
  BY <1>1 DEF WithTabs, Shaped
<1> HIDE DEF b
<1>4. Shaped(b) /\ b.nextTab \in Nat
  BY <1>2 DEF Edits
<1>5. Edits(s, b, w, tabs)
  BY <1>1, <1>2, KeepsThenEdits
<1>6. Edits(s, Reflowed(b, w).state, w, tabs)
  BY <1>1, <1>4, <1>5, ReflowedKeeps, EditsThenKeeps
<1>7. Keeps(b, Reflowed(b, w).state)
  BY <1>4, ReflowedKeeps
<1>8. /\ IsTabs(w, b.nextTab, tabs)
      /\ IsTabs(w, Reflowed(b, w).state.nextTab, tabs)
  BY <1>3, <1>4, <1>7, MoreNumbers DEF Keeps
<1>9. Revised(s, b) /\ Revised(s, Reflowed(b, w).state)
  BY <1>5, <1>6, <1>8, EditsRevised
<1> QED BY <1>9 DEF b

\* A tab with the number the counter stands at.
LEMMA NewNumber ==
  ASSUME NEW s, Numbers(s), NEW w \in DOMAIN s.workspaces, NEW layout
  PROVE  LET t == NewTabRecord(<<w, s.nextTab>>, layout)
         IN /\ IsTab(w, s.nextTab + 1, t) /\ t.id = <<w, s.nextTab>>
            /\ \A k \in DOMAIN s.workspaces[w].tabs : s.workspaces[w].tabs[k].id # t.id
<1> DEFINE t == NewTabRecord(<<w, s.nextTab>>, layout)
<1>1. s.nextTab \in Nat
  BY DEF Numbers
<1>2. t.id = <<w, s.nextTab>> /\ t.rev = 0 /\ DOMAIN t = {"id", "layout", "focused", "zoomed", "rev"}
  BY DEF NewTabRecord
<1>3. ASSUME NEW k \in DOMAIN s.workspaces[w].tabs PROVE s.workspaces[w].tabs[k].id # <<w, s.nextTab>>
  <2>1. PICK m \in Nat : m < s.nextTab /\ s.workspaces[w].tabs[k].id = <<w, m>>
    BY DEF Numbers, IsTabs, IsTab
  <2> QED BY <1>1, <2>1
<1> HIDE DEF t
<1>4. IsTab(w, s.nextTab + 1, t)
  BY <1>1, <1>2 DEF IsTab
<1> QED BY <1>2, <1>3, <1>4 DEF t

LEMMA NewTabRevised ==
  ASSUME NEW s, Leases(s), Numbers(s), NEW o, NEW w, NEW activate, NewTab(s, o, w, activate).ok
  PROVE  Revised(s, NewTab(s, o, w, activate).state)
<1> DEFINE id == <<w, s.nextTab>>
           minted == Minted(s, 1, s.workspaces[w].viewport)
           counted == Numbered(minted)
           tab == NewTabRecord(id, Leaf(Fresh(s, 0)))
           tabs == Append(s.workspaces[w].tabs, tab)
           active == IF activate THEN id ELSE s.workspaces[w].active
<1>1. Authorized(s, o, w)
  BY DEF NewTab, Refused
<1>2. w \in DOMAIN s.workspaces /\ Shaped(s) /\ s.nextTab \in Nat
  BY <1>1 DEF Authorized, Leases, Numbers
<1>3. /\ IsTab(w, s.nextTab + 1, tab) /\ tab.id = <<w, s.nextTab>>
      /\ \A k \in DOMAIN s.workspaces[w].tabs : s.workspaces[w].tabs[k].id # tab.id
  BY <1>2, NewNumber
<1>4. Keeps(s, minted) /\ minted.nextTab = s.nextTab
  BY <1>2, MintedKeeps, Zenon DEF Minted, Shaped
<1> HIDE DEF id, tab, active, minted
<1>5. Shaped(minted) /\ minted.nextTab \in Nat
  BY <1>4 DEF Keeps
<1>6. Keeps(s, counted) /\ counted.nextTab = s.nextTab + 1
  BY <1>2, <1>4, <1>5, NumberedKeeps, KeepsTrans
<1> HIDE DEF counted
<1>7. IsTabs(w, s.nextTab, s.workspaces[w].tabs)
  BY <1>2 DEF Numbers
<1>8. IsTabs(w, s.nextTab + 1, s.workspaces[w].tabs)
  BY <1>2, <1>7, MoreNumbers
<1>9. /\ IsTabs(w, s.nextTab + 1, tabs)
      /\ With(tabs, s.workspaces[w].tabs, tab)
  <2> DEFINE n == s.nextTab + 1
  <2>1. n \in Nat /\ IsTab(w, n, tab) /\ IsTabs(w, n, s.workspaces[w].tabs)
    BY <1>2, <1>3, <1>8
  <2> HIDE DEF n
  <2>2. /\ IsTabs(w, n, tabs)
        /\ With(tabs, s.workspaces[w].tabs, tab)
    BY <1>3, <2>1, AppendedTab, Zenon
  <2> QED BY <2>2 DEF n
<1> HIDE DEF tabs
<1>10. Follow(w, s.nextTab, s.workspaces[w].tabs, tabs)
  BY <1>3, <1>9 DEF Follow, With
<1>11. Revised(s, Reflowed(WithTabs(counted, w, tabs, active), w).state)
  BY <1>2, <1>6, <1>9, <1>10, TabsReplaced
<1>12. NewTab(s, o, w, activate).state = Reflowed(WithTabs(counted, w, tabs, active), w).state
  BY <1>1 DEF NewTab, Refused, id, minted, counted, tab, tabs, active
<1> QED BY <1>11, <1>12

LEMMA SelectTabRevised ==
  ASSUME NEW s, Leases(s), Numbers(s), NEW o, NEW w, NEW id, SelectTab(s, o, w, id).ok
  PROVE  Revised(s, SelectTab(s, o, w, id).state)
<1>1. Authorized(s, o, w)
  BY DEF SelectTab, Refused
<1>2. w \in DOMAIN s.workspaces /\ Shaped(s) /\ s.nextTab \in Nat /\ Keeps(s, s)
  BY <1>1, KeepsItself DEF Authorized, Leases, Numbers
<1>3. IsTabs(w, s.nextTab, s.workspaces[w].tabs) /\ Follow(w, s.nextTab, s.workspaces[w].tabs, s.workspaces[w].tabs)
  BY <1>2 DEF Numbers, Follow
<1>4. Revised(s, s) /\ Revised(s, Reflowed(WithTabs(s, w, s.workspaces[w].tabs, id), w).state)
  BY <1>2, <1>3, TabsReplaced, KeepsRevised
<1>5. SelectTab(s, o, w, id).state \in {s, Reflowed(WithTabs(s, w, s.workspaces[w].tabs, id), w).state}
  BY <1>1 DEF SelectTab, Refused, Quietly
<1> QED BY <1>4, <1>5

LEMMA CloseTabRevised ==
  ASSUME NEW s, Leases(s), Numbers(s), NEW o, NEW w, NEW id, CloseTab(s, o, w, id).ok
  PROVE  Revised(s, CloseTab(s, o, w, id).state)
<1> DEFINE i == TabIndex(s, w, id)
           tabs == s.workspaces[w].tabs
           left == RemoveAt(tabs, i)
           next == left[IF i > Len(left) THEN Len(left) ELSE i].id
           active == IF s.workspaces[w].active = id THEN next ELSE s.workspaces[w].active
           dropped == WithoutTerminals(s, Terminals(tabs[i].layout))
<1>1. Authorized(s, o, w) /\ i # 0
  BY DEF CloseTab, Refused
<1>2. w \in DOMAIN s.workspaces /\ Shaped(s) /\ s.nextTab \in Nat
  BY <1>1 DEF Authorized, Leases, Numbers
<1>3. i \in DOMAIN tabs
  BY <1>1, FoundTabs
<1>4. IsTabs(w, s.nextTab, tabs)
  BY <1>2 DEF Numbers
<1>5. Keeps(s, dropped) /\ dropped.nextTab = s.nextTab
  BY <1>2, WithoutTerminalsKeeps DEF WithoutTerminals, Shaped
<1> HIDE DEF i, tabs, next, active, dropped
<1>6. IsTabs(w, s.nextTab, left) /\ Without(left, tabs, i)
  <2> DEFINE n == s.nextTab
  <2> HIDE DEF n
  <2>1. n \in Nat /\ IsTabs(w, n, tabs)
    BY <1>2, <1>4 DEF n
  <2>2. /\ IsTabs(w, n, left) /\ Len(left) = Len(tabs) - 1 /\ Len(tabs) \in Nat
        /\ Without(left, tabs, i)
    BY <1>3, <2>1, RemovedTab, Zenon
  <2> QED BY <2>2 DEF n
<1> HIDE DEF left
<1>7. Follow(w, s.nextTab, tabs, left)
  BY <1>6 DEF Follow, Without
<1>8. Revised(s, Reflowed(WithTabs(dropped, w, left, active), w).state)
  BY <1>2, <1>5, <1>6, <1>7, TabsReplaced, SMTT(30) DEF tabs
<1>9. CloseTab(s, o, w, id).state = Reflowed(WithTabs(dropped, w, left, active), w).state
  BY <1>1 DEF CloseTab, Refused, i, tabs, left, next, active, dropped
<1> QED BY <1>8, <1>9

LEMMA BreakPaneRevised ==
  ASSUME NEW s, Leases(s), Numbers(s), NEW o, NEW w, NEW pane, BreakPane(s, o, w, pane).ok
  PROVE  Revised(s, BreakPane(s, o, w, pane).state)
<1> DEFINE i == TabOfPane(s, w, pane)
           t == s.workspaces[w].tabs[i]
           id == <<w, s.nextTab>>
           alone == NewTabRecord(id, Leaf(t.layout[PathOf(t.layout, pane)]))
           rest == Relaid(t, RemoveLeaf(t.layout, pane))
           source == [s.workspaces[w].tabs EXCEPT ![i] = rest]
           tabs == InsertAt(source, i + 1, alone)
<1>1. Authorized(s, o, w) /\ i # 0
  BY DEF BreakPane, Refused
<1>2. w \in DOMAIN s.workspaces /\ Shaped(s) /\ s.nextTab \in Nat
  BY <1>1 DEF Authorized, Leases, Numbers
<1>3. i \in DOMAIN s.workspaces[w].tabs
  BY <1>1, FoundTabs, Zenon
<1>4. /\ IsTab(w, s.nextTab + 1, alone) /\ alone.id = <<w, s.nextTab>>
      /\ \A k \in DOMAIN s.workspaces[w].tabs : s.workspaces[w].tabs[k].id # alone.id
  BY <1>2, NewNumber, Zenon
<1>5. DOMAIN t = {"id", "layout", "focused", "zoomed", "rev"}
  BY <1>2, <1>3, TabShaped
<1> HIDE DEF i, id, alone
<1>6. /\ DOMAIN rest = {"id", "layout", "focused", "zoomed", "rev"}
      /\ rest.id = s.workspaces[w].tabs[i].id /\ rest.rev = Later(s.workspaces[w].tabs[i].rev)
  <2> HIDE DEF t
  <2>1. DOMAIN rest = DOMAIN t /\ rest.id = t.id /\ rest.rev = Later(t.rev)
    BY <1>5, TabsRevised
  <2> QED BY <1>5, <2>1 DEF t
<1> HIDE DEF rest
<1>7. Keeps(s, Numbered(s)) /\ Numbered(s).nextTab = s.nextTab + 1
  BY <1>2, NumberedKeeps
<1>8. IsTabs(w, s.nextTab, s.workspaces[w].tabs)
  BY <1>2 DEF Numbers
<1>9. /\ IsTabs(w, s.nextTab, source) /\ Follow(w, s.nextTab, s.workspaces[w].tabs, source)
  BY <1>2, <1>6, <1>8, EditedTab
<1>10. DOMAIN source = DOMAIN s.workspaces[w].tabs
       /\ \A k \in DOMAIN source : source[k].id = s.workspaces[w].tabs[k].id
  BY <1>6
<1> HIDE DEF source
<1>11. IsTabs(w, s.nextTab + 1, source) /\ i + 1 \in 1 .. Len(source) + 1
  <2>1. source \in Seq({source[k] : k \in DOMAIN source})
    BY <1>9 DEF IsTabs
  <2>2. DOMAIN source = 1 .. Len(source) /\ Len(source) \in Nat
    BY <2>1
  <2> QED BY <1>2, <1>3, <1>9, <1>10, <2>2, MoreNumbers
<1>12. /\ IsTabs(w, s.nextTab + 1, tabs)
       /\ With(tabs, source, alone)
  <2>1. \A k \in DOMAIN source : source[k].id # alone.id
    BY <1>4, <1>10
  <2> DEFINE n == s.nextTab + 1
             k == i + 1
  <2>2. n \in Nat /\ IsTab(w, n, alone) /\ IsTabs(w, n, source) /\ k \in 1 .. Len(source) + 1
    BY <1>2, <1>4, <1>11
  <2>3. tabs = InsertAt(source, k, alone)
    OBVIOUS
  <2> HIDE DEF n, k, tabs
  <2>4. /\ IsTabs(w, n, tabs)
        /\ With(tabs, source, alone)
    BY <2>1, <2>2, <2>3, InsertedTab, Zenon
  <2> QED BY <2>4 DEF n
<1> HIDE DEF tabs
<1>13. Follow(w, s.nextTab, s.workspaces[w].tabs, tabs)
  BY <1>4, <1>9, <1>12 DEF Follow, With
<1>14. Revised(s, Reflowed(WithTabs(Numbered(s), w, tabs, id), w).state)
  BY <1>2, <1>7, <1>12, <1>13, TabsReplaced, ZenonT(40)
<1>15. BreakPane(s, o, w, pane).state = Reflowed(WithTabs(Numbered(s), w, tabs, id), w).state
  BY <1>1 DEF BreakPane, Refused, i, t, id, alone, rest, source, tabs
<1> QED BY <1>14, <1>15

LEMMA MoveTabRevised ==
  ASSUME NEW s, Leases(s), Numbers(s), NEW o, NEW w, NEW id, NEW to \in Nat \ {0}, MoveTab(s, o, w, id, to).ok
  PROVE  Revised(s, MoveTab(s, o, w, id, to).state)
<1> DEFINE i == TabIndex(s, w, id)
           tabs == s.workspaces[w].tabs
           j == IF to > Len(tabs) THEN Len(tabs) ELSE to
           left == RemoveAt(tabs, i)
           moved == InsertAt(left, j, tabs[i])
<1>1. Authorized(s, o, w) /\ i # 0
  BY DEF MoveTab, Refused
<1>2. w \in DOMAIN s.workspaces /\ Shaped(s) /\ s.nextTab \in Nat /\ Keeps(s, s)
  BY <1>1, KeepsItself DEF Authorized, Leases, Numbers
<1>3. i \in DOMAIN tabs
  BY <1>1, FoundTabs
<1>4. IsTabs(w, s.nextTab, tabs)
  BY <1>2 DEF Numbers
<1> HIDE DEF i, tabs
<1>5. /\ IsTabs(w, s.nextTab, left) /\ Len(left) = Len(tabs) - 1 /\ Len(tabs) \in Nat
      /\ Without(left, tabs, i)
  <2> DEFINE n == s.nextTab
  <2> HIDE DEF n
  <2>1. n \in Nat /\ IsTabs(w, n, tabs)
    BY <1>2, <1>4 DEF n
  <2>2. /\ IsTabs(w, n, left) /\ Len(left) = Len(tabs) - 1 /\ Len(tabs) \in Nat
        /\ Without(left, tabs, i)
    BY <1>3, <2>1, RemovedTab, Zenon
  <2> QED BY <2>2 DEF n
<1>6. IsTab(w, s.nextTab, tabs[i]) /\ \A m \in DOMAIN tabs \ {i} : tabs[m].id # tabs[i].id
  BY <1>3, <1>4 DEF IsTabs
<1>7. Len(tabs) # 0
  <2>1. tabs \in Seq({tabs[k] : k \in DOMAIN tabs})
    BY <1>4 DEF IsTabs
  <2> QED BY <1>3, <2>1
<1> HIDE DEF left
<1>8. j \in 1 .. Len(left) + 1
  BY <1>5, <1>7
<1> HIDE DEF j
<1>9. /\ IsTabs(w, s.nextTab, moved)
      /\ With(moved, left, tabs[i])
  <2>1. \A k \in DOMAIN left : left[k].id # tabs[i].id
    BY <1>5, <1>6 DEF Without
  <2> QED BY <1>2, <1>5, <1>6, <1>8, <2>1, InsertedTab
<1> HIDE DEF moved
<1>10. \A k \in DOMAIN moved : \E m \in DOMAIN tabs : moved[k] = tabs[m]
  BY <1>3, <1>5, <1>9 DEF With, Without
<1>11. Follow(w, s.nextTab, tabs, moved)
  BY <1>10 DEF Follow
<1>12. Revised(s, s) /\ Revised(s, WithTabs(s, w, moved, s.workspaces[w].active))
  BY <1>2, <1>9, <1>11, TabsReplaced, KeepsRevised DEF tabs
<1>13. MoveTab(s, o, w, id, to).state \in {s, WithTabs(s, w, moved, s.workspaces[w].active)}
  BY <1>1 DEF MoveTab, Refused, Quietly, i, tabs, j, left, moved
<1> QED BY <1>12, <1>13
-----------------------------------------------------------------------------
\* The commands on clients.
LEMMA RegisteredKeeps ==
  ASSUME NEW s, Shaped(s), s.nextTab \in Nat, NEW c, NEW w, NEW role
  PROVE  Keeps(s, Registered(s, c, w, role))
<1> DEFINE new == Put(s.clients, c, [workspace |-> w, role |-> role])
<1>1. Shaped(Registered(s, c, w, role)) /\ Registered(s, c, w, role).workspaces = s.workspaces
  BY RegisteredFacts
<1>2. Registered(s, c, w, role) = [s EXCEPT !.clients = new]
  BY DEF Registered
<1> HIDE DEF new
<1>3. [s EXCEPT !.clients = new].nextTab = s.nextTab
  BY Zenon DEF Shaped
<1> QED BY <1>1, <1>2, <1>3 DEF Keeps

LEMMA GrantedKeeps ==
  ASSUME NEW s, Shaped(s), s.nextTab \in Nat, NEW c, NEW w \in DOMAIN s.workspaces, NEW viewport
  PROVE  Keeps(s, Granted(s, c, w, viewport))
<1> DEFINE holder == s.workspaces[w].controller
           demoted == IF holder \in DOMAIN s.clients
                      THEN [s EXCEPT !.clients[holder] = [@ EXCEPT !.role = "observer"]] ELSE s
           viewed == WithViewport(demoted, w, viewport)
           taken == [viewed EXCEPT !.workspaces[w] = [@ EXCEPT !.controller = c]]
<1>1. Shaped(demoted) /\ demoted.workspaces = s.workspaces /\ demoted.nextTab = s.nextTab
  <2>1. CASE holder \notin DOMAIN s.clients
    BY <2>1
  <2>2. CASE holder \in DOMAIN s.clients
    <3> DEFINE kept == [s.clients[holder] EXCEPT !.role = "observer"]
    <3>1. kept = [workspace |-> s.clients[holder].workspace, role |-> "observer"]
      <4>1. s.clients[holder] = [workspace |-> s.clients[holder].workspace, role |-> s.clients[holder].role]
        BY <2>2 DEF Shaped
      <4> QED BY <4>1, Demotion
    <3> HIDE DEF kept
    <3>2. /\ DOMAIN demoted = DOMAIN s
          /\ demoted.workspaces = s.workspaces /\ demoted.nextTab = s.nextTab
          /\ demoted.clients = [s.clients EXCEPT ![holder] = kept]
      BY <2>2 DEF Shaped, kept
    <3> QED BY <2>2, <3>1, <3>2 DEF Shaped
  <2> QED BY <2>1, <2>2
<1> HIDE DEF demoted
<1>2. Keeps(s, demoted)
  BY <1>1 DEF Keeps
<1>3. Keeps(demoted, viewed)
  BY <1>1, WithViewportKeeps
<1> HIDE DEF viewed
<1>4. Keeps(viewed, taken)
  <2>1. Shaped(viewed) /\ w \in DOMAIN viewed.workspaces /\ viewed.nextTab \in Nat
    BY <1>1, <1>3 DEF Keeps
  <2> QED BY <2>1 DEF Keeps, Shaped
<1> HIDE DEF taken
<1>5. Keeps(taken, Registered(taken, c, w, "controller"))
  BY <1>4, RegisteredKeeps DEF Keeps
<1>6. Keeps(s, Registered(taken, c, w, "controller"))
  BY <1>2, <1>3, <1>4, <1>5, KeepsTrans
<1> QED BY <1>6, Zenon DEF Granted, holder, demoted, viewed, taken

LEMMA AttachRevised ==
  ASSUME NEW s, Leases(s), Numbers(s), NEW c, NEW w, NEW role, NEW takeover, NEW viewport,
         Attach(s, c, w, role, takeover, viewport).ok
  PROVE  Revised(s, Attach(s, c, w, role, takeover, viewport).state)
<1>1. w \in DOMAIN s.workspaces /\ Shaped(s) /\ s.nextTab \in Nat
  BY DEF Attach, Refused, Leases, Numbers
<1> DEFINE r == Released(s, c)
<1>2. Keeps(s, r)
  BY <1>1, ReleasedKeeps
<1> HIDE DEF r
<1>3. Shaped(r) /\ r.nextTab \in Nat /\ w \in DOMAIN r.workspaces
  BY <1>1, <1>2 DEF Keeps
<1>4. Keeps(s, Registered(r, c, w, "observer"))
  BY <1>1, <1>2, <1>3, RegisteredKeeps, KeepsTrans
<1>5. Keeps(s, Reflowed(WithViewport(s, w, viewport), w).state)
  <2> DEFINE v == WithViewport(s, w, viewport)
  <2>1. Keeps(s, v)
    BY <1>1, WithViewportKeeps
  <2> HIDE DEF v
  <2>2. Keeps(v, Reflowed(v, w).state)
    BY <2>1, ReflowedKeeps DEF Keeps
  <2>3. Keeps(s, Reflowed(v, w).state)
    BY <1>1, <2>1, <2>2, KeepsTrans
  <2> QED BY <2>3 DEF v
<1>6. Keeps(s, Reflowed(Granted(r, c, w, viewport), w).state)
  <2> DEFINE v == Granted(r, c, w, viewport)
  <2>1. Keeps(r, v)
    BY <1>3, GrantedKeeps
  <2> HIDE DEF v
  <2>2. Keeps(v, Reflowed(v, w).state)
    BY <2>1, ReflowedKeeps DEF Keeps
  <2>3. Keeps(s, Reflowed(v, w).state)
    BY <1>1, <1>2, <1>3, <2>1, <2>2, KeepsTrans
  <2> QED BY <2>3 DEF v
<1>7. Attach(s, c, w, role, takeover, viewport).state
        \in {Registered(r, c, w, "observer"),
             Reflowed(WithViewport(s, w, viewport), w).state,
             Reflowed(Granted(r, c, w, viewport), w).state}
  BY <1>1 DEF Attach, Refused, Quietly, r
<1>8. Keeps(s, Attach(s, c, w, role, takeover, viewport).state)
  BY <1>4, <1>5, <1>6, <1>7
<1> QED BY <1>8, KeepsRevised

LEMMA DetachRevised ==
  ASSUME NEW s, Leases(s), Numbers(s), NEW c, Detach(s, c).ok
  PROVE  Revised(s, Detach(s, c).state)
<1> DEFINE r == Released(s, c)
           left == [d \in DOMAIN s.clients \ {c} |-> s.clients[d]]
           u == [r EXCEPT !.clients = left]
<1>1. Keeps(s, r)
  BY ReleasedKeeps DEF Numbers
<1>2. Leases(Detach(s, c).state)
  BY DetachLeases
<1>3. Detach(s, c).state = u
  BY DEF Detach, Refused, Quietly
<1> HIDE DEF r, left
<1>4. u.workspaces = r.workspaces /\ u.nextTab = r.nextTab
  BY <1>1 DEF Keeps, Shaped
<1>5. Keeps(s, u)
  BY <1>1, <1>2, <1>3, <1>4 DEF Keeps, Leases
<1> QED BY <1>3, <1>5, KeepsRevised

LEMMA ResizeViewportRevised ==
  ASSUME NEW s, Leases(s), Numbers(s), NEW c, NEW viewport, ResizeViewport(s, c, viewport).ok
  PROVE  Revised(s, ResizeViewport(s, c, viewport).state)
<1> DEFINE w == s.clients[c].workspace
           v == WithViewport(s, w, viewport)
<1>1. w \in DOMAIN s.workspaces /\ Shaped(s) /\ s.nextTab \in Nat
  BY DEF ResizeViewport, Refused, Controls, Leases, Numbers
<1>2. ResizeViewport(s, c, viewport).state = Reflowed(v, w).state
  BY DEF ResizeViewport, Refused
<1>3. Keeps(s, v)
  BY <1>1, WithViewportKeeps
<1> HIDE DEF w, v
<1>4. Keeps(v, Reflowed(v, w).state)
  BY <1>3, ReflowedKeeps DEF Keeps
<1>5. Keeps(s, Reflowed(v, w).state)
  BY <1>1, <1>3, <1>4, KeepsTrans
<1> QED BY <1>2, <1>5, KeepsRevised
-----------------------------------------------------------------------------
\* The commands on workspaces.
LEMMA RemoveWorkspaceRevised ==
  ASSUME NEW s, Leases(s), Numbers(s), NEW w, RemoveWorkspace(s, w).ok
  PROVE  Revised(s, RemoveWorkspace(s, w).state)
<1> DEFINE dropped == WithoutTerminals(s, TerminalsOf(s, w))
           order == Picked(dropped.order, {i \in DOMAIN dropped.order : dropped.order[i] # w})
           others == [v \in DOMAIN s.workspaces \ {w} |-> s.workspaces[v]]
           clients == [c \in ClientsElsewhere(s, w) |-> s.clients[c]]
           u == [dropped EXCEPT !.order = order, !.workspaces = others, !.clients = clients]
<1>1. DOMAIN others = DOMAIN s.workspaces \ {w} /\ \A v \in DOMAIN others : others[v] = s.workspaces[v]
  OBVIOUS
<1>2. Shaped(dropped) /\ dropped.nextTab = s.nextTab
  BY WithoutTerminalsSame DEF Leases, Same, Shaped, WithoutTerminals
<1>3. RemoveWorkspace(s, w).state = u
  BY DEF RemoveWorkspace, Refused, Quietly
<1> HIDE DEF order, others, clients, dropped
<1>4. u.workspaces = others /\ u.nextTab = s.nextTab
  BY <1>2 DEF Shaped
<1>5. Revised(s, u)
  BY <1>1, <1>4 DEF Revised, Numbers, Follow
<1> QED BY <1>3, <1>5

LEMMA NewWorkspaceRevised ==
  ASSUME NEW s, Leases(s), Numbers(s), NEW w, w \notin DOMAIN s.workspaces, NEW a, Keeps(s, a),
         NEW tabs, NEW active, NEW viewport, IsTabs(w, a.nextTab, tabs)
  PROVE  Revised(s, NewWorkspace(a, w, tabs, active, viewport))
<1> DEFINE new == [tabs |-> tabs, active |-> active, controller |-> NoOne, viewport |-> viewport, rev |-> 0]
           all == Put(a.workspaces, w, new)
           order == Append(a.order, w)
           u == [a EXCEPT !.order = order, !.workspaces = all]
<1>1. /\ DOMAIN all = DOMAIN a.workspaces \cup {w}
      /\ all[w].tabs = tabs
      /\ w \notin DOMAIN a.workspaces
      /\ \A v \in DOMAIN a.workspaces : all[v] = a.workspaces[v]
  BY DEF Put, Keeps
<1> HIDE DEF all, order
<1>2. u.workspaces = all /\ u.nextTab = a.nextTab
  BY DEF Keeps, Shaped
<1>3. Revised(s, a)
  BY KeepsRevised
<1> HIDE DEF u
<1>4. Numbers(u)
  BY <1>1, <1>2, <1>3 DEF Numbers, Revised
<1>5. \A v \in DOMAIN s.workspaces : u.workspaces[v].tabs = a.workspaces[v].tabs /\ v \in DOMAIN a.workspaces
  BY <1>1, <1>2 DEF Keeps
<1>6. Revised(s, u)
  BY <1>3, <1>4, <1>5 DEF Revised
<1> QED BY <1>6, Zenon DEF NewWorkspace, u, all, order, new

LEMMA CreateWorkspaceRevised ==
  ASSUME NEW s, Leases(s), Numbers(s), NEW w, w \notin DOMAIN s.workspaces, NEW viewport
  PROVE  Revised(s, CreateWorkspace(s, w, viewport))
<1> DEFINE a == Minted(s, 1, viewport)
           tab == NewTabRecord(<<w, 0>>, Leaf(Fresh(s, 0)))
<1>1. Keeps(s, a)
  BY MintedKeeps DEF Leases, Numbers
<1>2. tab.id = <<w, 0>> /\ tab.rev = 0 /\ DOMAIN tab = {"id", "layout", "focused", "zoomed", "rev"}
  BY DEF NewTabRecord
<1> HIDE DEF a, tab
<1>3. a.nextTab \in Nat /\ a.nextTab > 0
  BY <1>1 DEF Keeps, Numbers
<1>4. IsTab(w, a.nextTab, tab)
  BY <1>2, <1>3 DEF IsTab
<1>5. IsTabs(w, a.nextTab, <<tab>>)
  <2>1. <<tab>> \in Seq({<<tab>>[i] : i \in DOMAIN <<tab>>})
    BY OwnElements
  <2>2. DOMAIN <<tab>> = {1} /\ <<tab>>[1] = tab
    OBVIOUS
  <2> QED BY <1>4, <2>1, <2>2 DEF IsTabs
<1>6. Revised(s, NewWorkspace(a, w, <<tab>>, <<w, 0>>, viewport))
  BY <1>1, <1>5, NewWorkspaceRevised
<1> QED BY <1>6 DEF CreateWorkspace, a, tab

\* The numbers of the restored tabs are below the counter.
LEMMA InstalledNumbers ==
  ASSUME NEW s, Leases(s), Numbers(s), NEW w, w \notin DOMAIN s.workspaces, NEW viewport,
         NEW saved \in Saved
  PROVE  Revised(s, InstallRestoredSession(s, w, saved, viewport))
<1> DEFINE n == Len(saved)
           claimed == NumbersClaimed(s, n)
           k == LeavesUpTo(saved, n)
           a == Minted(claimed, k, viewport)
           Restored(i) == RestoredTab(s, w, saved, i)
           tabs == [i \in DOMAIN saved |-> Restored(i)]
           flagged == SelectInSeq(saved, LAMBDA t : t.active)
           active == IF flagged = 0 THEN 0 ELSE flagged - 1
<1>1. n \in Nat /\ DOMAIN saved = 1 .. n
  <2>1. saved \in Seq({saved[i] : i \in DOMAIN saved})
    BY SavedAssumption
  <2> QED BY <2>1
<1>2. ASSUME NEW i PROVE /\ Restored(i).id = <<w, i - 1>> /\ Restored(i).rev = 0
                         /\ DOMAIN Restored(i) = {"id", "layout", "focused", "zoomed", "rev"}
  <2>1. \A layout : LET t == NewTabRecord(<<w, i - 1>>, layout)
                    IN /\ t.id = <<w, i - 1>> /\ t.rev = 0
                       /\ DOMAIN t = {"id", "layout", "focused", "zoomed", "rev"}
    BY DEF NewTabRecord
  <2> QED BY <2>1, Zenon DEF RestoredTab
<1>3. InstallRestoredSession(s, w, saved, viewport) = NewWorkspace(a, w, tabs, <<w, active>>, viewport)
  BY DEF InstallRestoredSession
<1> HIDE DEF n, k, Restored, flagged, active
<1>4. Keeps(s, claimed) /\ claimed.nextTab >= n
  BY <1>1 DEF NumbersClaimed, Leases, Shaped, Keeps, Numbers
<1> HIDE DEF claimed
<1>5. Keeps(claimed, a)
  BY <1>4, MintedKeeps DEF Keeps
<1> HIDE DEF a
<1>6. Keeps(s, a) /\ a.nextTab >= n /\ a.nextTab \in Nat
  <2>1. Keeps(s, a)
    BY <1>4, <1>5, KeepsTrans DEF Numbers
  <2> QED BY <1>1, <1>4, <1>5, <2>1 DEF Keeps
<1>7. DOMAIN tabs = 1 .. n /\ \A i \in 1 .. n : tabs[i] = Restored(i)
  BY <1>1
<1>8. tabs \in Seq({tabs[i] : i \in DOMAIN tabs})
  BY <1>1, OwnElements
<1> HIDE DEF tabs
<1>9. ASSUME NEW i \in DOMAIN tabs PROVE IsTab(w, a.nextTab, tabs[i]) /\ tabs[i].id = <<w, i - 1>>
  <2>1. i \in 1 .. n /\ i - 1 \in Nat /\ i - 1 < a.nextTab
    BY <1>1, <1>6, <1>7
  <2>2. /\ tabs[i].id = <<w, i - 1>> /\ tabs[i].rev = 0
        /\ DOMAIN tabs[i] = {"id", "layout", "focused", "zoomed", "rev"}
    BY <1>2, <1>7, <2>1
  <2> QED BY <2>1, <2>2 DEF IsTab
<1>10. \A i, j \in DOMAIN tabs : tabs[i].id = tabs[j].id => i = j
  <2> SUFFICES ASSUME NEW i \in DOMAIN tabs, NEW j \in DOMAIN tabs, tabs[i].id = tabs[j].id PROVE i = j
    OBVIOUS
  <2>1. i - 1 = j - 1
    BY <1>9
  <2> QED BY <1>1, <1>7, <2>1
<1>11. IsTabs(w, a.nextTab, tabs)
  BY <1>8, <1>9, <1>10 DEF IsTabs
<1> QED BY <1>3, <1>6, <1>11, NewWorkspaceRevised
-----------------------------------------------------------------------------
\* The invariant that tells tabs apart: leases say which workspaces are open, numbers which tabs.
TabsInv == IInv /\ Numbers(mux)

LEMMA InitTabsInv == Init => TabsInv
<1> SUFFICES ASSUME Init PROVE TabsInv
  OBVIOUS
<1>1. Leases(NewState) /\ Home \notin DOMAIN NewState.workspaces
  BY DEF NewState, Leases, Shaped
<1>2. Numbers(NewState)
  BY DEF NewState, Numbers
<1>3. PICK viewport : \/ mux = CreateWorkspace(NewState, Home, viewport)
                      \/ \E saved \in Saved : mux = InstallRestoredSession(NewState, Home, saved, viewport)
  BY DEF Init
<1>4. Revised(NewState, mux)
  BY <1>1, <1>2, <1>3, CreateWorkspaceRevised, InstalledNumbers
<1> QED BY <1>4, InitIInv DEF TabsInv, Revised

LEMMA NextRevised == ASSUME TabsInv, Next PROVE Revised(mux, mux')
<1> USE DEF Apply
<1>0. Leases(mux) /\ Numbers(mux)
  BY DEF TabsInv, IInv
<1>1. ASSUME DoCreateWorkspace PROVE Revised(mux, mux')
  <2>1. PICK w \in Workspaces \ Open, viewport \in Viewports : mux' = CreateWorkspace(mux, w, viewport)
    BY <1>1 DEF DoCreateWorkspace
  <2> QED BY <1>0, <2>1, CreateWorkspaceRevised DEF Open
<1>2. ASSUME DoRemoveWorkspace PROVE Revised(mux, mux')
  BY <1>0, <1>2, RemoveWorkspaceRevised DEF DoRemoveWorkspace
<1>3. ASSUME DoAttach PROVE Revised(mux, mux')
  BY <1>0, <1>3, AttachRevised DEF DoAttach
<1>4. ASSUME DoDetach PROVE Revised(mux, mux')
  BY <1>0, <1>4, DetachRevised DEF DoDetach
<1>5. ASSUME DoResize PROVE Revised(mux, mux')
  BY <1>0, <1>5, ResizeViewportRevised DEF DoResize
<1>6. ASSUME DoFocus PROVE Revised(mux, mux')
  BY <1>0, <1>6, FocusPaneRevised, FocusPaneInRevised DEF DoFocus
<1>7. ASSUME DoZoom PROVE Revised(mux, mux')
  BY <1>0, <1>7, ToggleZoomRevised DEF DoZoom
<1>8. ASSUME DoSplit PROVE Revised(mux, mux')
  BY <1>0, <1>8, SplitPaneRevised DEF DoSplit
<1>9. ASSUME DoClose PROVE Revised(mux, mux')
  BY <1>0, <1>9, ClosePaneRevised DEF DoClose
<1>10. ASSUME DoResizePane PROVE Revised(mux, mux')
  BY <1>0, <1>10, ResizePaneRevised DEF DoResizePane
<1>11. ASSUME DoDrag PROVE Revised(mux, mux')
  BY <1>0, <1>11, SetSplitRatioRevised DEF DoDrag
<1>12. ASSUME DoRearrange PROVE Revised(mux, mux')
  BY <1>0, <1>12, RearrangeRevised DEF DoRearrange
<1>13. ASSUME DoNewTab PROVE Revised(mux, mux')
  BY <1>0, <1>13, NewTabRevised DEF DoNewTab
<1>14. ASSUME DoSelectTab PROVE Revised(mux, mux')
  BY <1>0, <1>14, SelectTabRevised DEF DoSelectTab
<1>15. ASSUME DoCloseTab PROVE Revised(mux, mux')
  BY <1>0, <1>15, CloseTabRevised DEF DoCloseTab
<1>16. ASSUME DoBreakPane PROVE Revised(mux, mux')
  BY <1>0, <1>16, BreakPaneRevised DEF DoBreakPane
<1>17. ASSUME DoMoveTab PROVE Revised(mux, mux')
  <2>1. PICK o \in Origins, w \in Open, to \in 1 .. MaxTabs :
          \E id \in TabIds(w) : Apply(MoveTab(mux, o, w, id, to))
    BY <1>17 DEF DoMoveTab
  <2>2. to \in Nat \ {0}
    OBVIOUS
  <2> QED BY <1>0, <2>1, <2>2, MoveTabRevised
<1> QED BY <1>1, <1>2, <1>3, <1>4, <1>5, <1>6, <1>7, <1>8, <1>9, <1>10, <1>11, <1>12, <1>13,
           <1>14, <1>15, <1>16, <1>17 DEF Next

LEMMA NextTabsInv == TabsInv /\ [Next]_vars => TabsInv'
<1> SUFFICES ASSUME TabsInv, [Next]_vars PROVE TabsInv'
  OBVIOUS
<1>1. IInv'
  BY NextIInv DEF TabsInv
<1>2. CASE Next
  <2>1. Numbers(mux')
    BY <1>2, NextRevised DEF Revised
  <2> QED BY <1>1, <2>1 DEF TabsInv
<1>3. CASE UNCHANGED vars
  BY <1>1, <1>3 DEF vars, TabsInv
<1> QED BY <1>2, <1>3

\* What a step owes to a tab that it keeps.
Tells(t, u) ==
  /\ u.rev >= t.rev
  /\ [u EXCEPT !.rev = 0] # [t EXCEPT !.rev = 0] => u.rev > t.rev

\* A tab of before is told from a new one by its number, and from the others too.
LEMMA FollowTells ==
  ASSUME NEW s, Numbers(s), NEW v, Revised(s, v), NEW w \in DOMAIN s.workspaces, w \in DOMAIN v.workspaces,
         NEW i \in DOMAIN s.workspaces[w].tabs, NEW j \in DOMAIN v.workspaces[w].tabs,
         s.workspaces[w].tabs[i].id = v.workspaces[w].tabs[j].id
  PROVE  Tells(s.workspaces[w].tabs[i], v.workspaces[w].tabs[j])
<1> DEFINE old == s.workspaces[w].tabs
           new == v.workspaces[w].tabs
<1>1. IsTabs(w, s.nextTab, old) /\ s.nextTab \in Nat
  BY DEF Numbers
<1>2. old[i].rev \in Nat
  BY <1>1 DEF IsTabs, IsTab
<1>3. new[j].id # <<w, s.nextTab>>
  <2>1. PICK k \in Nat : k < s.nextTab /\ old[i].id = <<w, k>>
    BY <1>1 DEF IsTabs, IsTab
  <2> QED BY <1>1, <2>1
<1>4. PICK k \in DOMAIN old : old[k].id = new[j].id /\ (new[j] = old[k] \/ new[j].rev > old[k].rev)
  BY <1>3 DEF Revised, Follow
<1>5. k = i
  BY <1>1, <1>4 DEF IsTabs
<1>6. CASE new[j] = old[i]
  BY <1>2, <1>6 DEF Tells
<1>7. CASE new[j].rev > old[i].rev
  <2>1. new[j].rev \in Nat
    BY DEF Revised, Numbers, IsTabs, IsTab
  <2> QED BY <1>2, <1>7, <2>1 DEF Tells
<1> QED BY <1>4, <1>5, <1>6, <1>7

\* M2 of state.rs: whatever the clients and the control API do, in any order, an edit computed on
\* a tab as a client saw it can be refused as stale, for every change of that tab raised its
\* revision, and no new tab took over its identifier.
THEOREM RevisionsTell == Spec => RevTellsLayout
<1>1. ASSUME TabsInv, Next
      PROVE  \A w \in Open \cap DOMAIN mux'.workspaces :
               \A t \in TabsOf(mux, w), u \in TabsOf(mux', w) : t.id = u.id => Tells(t, u)
  <2> SUFFICES ASSUME NEW w \in Open \cap DOMAIN mux'.workspaces,
                      NEW t \in TabsOf(mux, w), NEW u \in TabsOf(mux', w), t.id = u.id
               PROVE  Tells(t, u)
    OBVIOUS
  <2>1. Numbers(mux) /\ Revised(mux, mux')
    BY <1>1, NextRevised DEF TabsInv
  <2>2. PICK i \in DOMAIN mux.workspaces[w].tabs : t = mux.workspaces[w].tabs[i]
    BY DEF TabsOf
  <2>3. PICK j \in DOMAIN mux'.workspaces[w].tabs : u = mux'.workspaces[w].tabs[j]
    BY DEF TabsOf
  <2> QED BY <2>1, <2>2, <2>3, FollowTells DEF Open
<1>2. TabsInv /\ [Next]_vars
        => [\A w \in Open \cap DOMAIN mux'.workspaces :
              \A t \in TabsOf(mux, w), u \in TabsOf(mux', w) : t.id = u.id =>
                /\ u.rev >= t.rev
                /\ [u EXCEPT !.rev = 0] # [t EXCEPT !.rev = 0] => u.rev > t.rev]_vars
  BY <1>1 DEF Tells
<1> QED BY InitTabsInv, NextTabsInv, <1>2, PTL DEF Spec, RevTellsLayout
-----------------------------------------------------------------------------
\* split3: whatever the extent and the ratio, the children and the divider share the extent.
THEOREM CellsConserved ==
  ASSUME NEW extent \in Nat, NEW ratio \in Int
  PROVE  /\ First(extent, ratio) \in Nat
         /\ Second(extent, ratio) \in Nat
         /\ Divider(extent) \in Nat
         /\ First(extent, ratio) + Divider(extent) + Second(extent, ratio) = extent
<1> DEFINE usable == extent - Divider(extent)
           r == CASE ratio < 3 -> 3 [] ratio > 297 -> 297 [] OTHER -> ratio
           rounded == (2 * usable * r + UNIT) \div (2 * UNIT)
<1>1. usable \in Nat /\ Divider(extent) \in Nat
  BY DEF Divider
<1>2. r \in Nat
  OBVIOUS
<1> HIDE DEF usable, r
<1>3. 2 * usable * r \in Nat
  BY <1>1, <1>2
<1>4. rounded \in Nat
  BY <1>3 DEF UNIT
<1> HIDE DEF rounded
<1>5. First(extent, ratio) = IF rounded > usable THEN usable ELSE rounded
  BY DEF First, rounded, usable, r
<1>6. First(extent, ratio) \in 0 .. usable
  BY <1>1, <1>4, <1>5
<1> QED BY <1>1, <1>6 DEF Second, usable
-------------------------------------------------------------------------------
(* The state of a command when it has edited a workspace, before sizes are shared out. *)

Fields == {"tabs", "active", "controller", "viewport", "rev"}

\* u is s with W in the place of workspace w, the terminals f and n more identifiers handed out.
Becomes(s, u, w, W, f, n) ==
  /\ Shaped(u) /\ DOMAIN W = Fields
  /\ u.order = s.order
  /\ DOMAIN u.workspaces = DOMAIN s.workspaces /\ u.workspaces[w] = W
  /\ \A v \in DOMAIN s.workspaces \ {w} : u.workspaces[v] = s.workspaces[v]
  /\ u.terminals = f
  /\ u.nextPane = s.nextPane + n /\ u.nextTerm = s.nextTerm + n

LEMMA BecomesItself ==
  ASSUME NEW s, Shaped(s), s.nextPane \in Nat, s.nextTerm \in Nat, NEW w \in DOMAIN s.workspaces
  PROVE  Becomes(s, s, w, s.workspaces[w], s.terminals, 0)
<1>1. DOMAIN s.workspaces[w] = Fields
  BY DEF Shaped, Fields
<1> QED BY <1>1 DEF Becomes

LEMMA BecomesOpen ==
  ASSUME NEW s, NEW u, NEW w \in DOMAIN s.workspaces, NEW W, NEW f, NEW n, Becomes(s, u, w, W, f, n)
  PROVE  /\ DOMAIN u.workspaces = DOMAIN s.workspaces
         /\ u.workspaces[w] = W
         /\ \A v \in DOMAIN s.workspaces \ {w} : u.workspaces[v] = s.workspaces[v]
BY DEF Becomes

\* What each step of a command makes of it.
LEMMA BecomesWith ==
  ASSUME NEW s, NEW u, NEW w \in DOMAIN s.workspaces, NEW W, NEW f, NEW n, Becomes(s, u, w, W, f, n),
         NEW X, DOMAIN X = Fields, NEW x, x = [u EXCEPT !.workspaces[w] = X]
  PROVE  Becomes(s, x, w, X, f, n)
<1>1. /\ Shaped(u) /\ DOMAIN u.workspaces = DOMAIN s.workspaces
      /\ \A v \in DOMAIN s.workspaces \ {w} : u.workspaces[v] = s.workspaces[v]
  BY DEF Becomes
<1>2. /\ DOMAIN x = DOMAIN u /\ x.order = u.order /\ x.terminals = u.terminals /\ x.clients = u.clients
      /\ x.nextPane = u.nextPane /\ x.nextTerm = u.nextTerm
      /\ x.workspaces = [u.workspaces EXCEPT ![w] = X]
  BY <1>1 DEF Shaped
<1>3. /\ DOMAIN x.workspaces = DOMAIN s.workspaces /\ x.workspaces[w] = X
      /\ \A v \in DOMAIN s.workspaces \ {w} : x.workspaces[v] = s.workspaces[v]
  BY <1>1, <1>2
<1>4. Shaped(x)
  <2>1. \A v \in DOMAIN x.workspaces : x.workspaces[v] = u.workspaces[v] \/ (v = w /\ x.workspaces[v] = X)
    BY <1>1, <1>2
  <2>2. DOMAIN x.workspaces = DOMAIN u.workspaces
    BY <1>2
  <2> QED BY <1>1, <1>2, <2>1, <2>2 DEF Shaped, Fields
<1> QED BY <1>2, <1>3, <1>4 DEF Becomes

LEMMA BecomesTab ==
  ASSUME NEW s, NEW u, NEW w \in DOMAIN s.workspaces, NEW W, NEW f, NEW n, Becomes(s, u, w, W, f, n), NEW i, NEW t
  PROVE  Becomes(s, WithTab(u, w, i, t), w, [W EXCEPT !.tabs[i] = t], f, n)
<1> DEFINE X == [W EXCEPT !.tabs[i] = t]
<1>1. u.workspaces[w] = W /\ w \in DOMAIN u.workspaces /\ DOMAIN X = Fields
  BY BecomesOpen DEF Becomes
<1>2. WithTab(u, w, i, t) = [u EXCEPT !.workspaces[w] = X]
  BY <1>1 DEF WithTab, Becomes, Shaped
<1> HIDE DEF X
<1>3. Becomes(s, WithTab(u, w, i, t), w, X, f, n)
  BY <1>1, <1>2, BecomesWith
<1> QED BY <1>3 DEF X

LEMMA BecomesTouched ==
  ASSUME NEW s, NEW u, NEW w \in DOMAIN s.workspaces, NEW W, NEW f, NEW n, Becomes(s, u, w, W, f, n)
  PROVE  Becomes(s, Touched(u, w), w, [W EXCEPT !.rev = Later(@)], f, n)
<1> DEFINE X == [W EXCEPT !.rev = Later(@)]
<1>1. u.workspaces[w] = W /\ w \in DOMAIN u.workspaces /\ DOMAIN X = Fields
  BY BecomesOpen DEF Becomes
<1>2. Touched(u, w) = [u EXCEPT !.workspaces[w] = X]
  BY <1>1 DEF Touched, Becomes, Shaped
<1> HIDE DEF X
<1>3. Becomes(s, Touched(u, w), w, X, f, n)
  BY <1>1, <1>2, BecomesWith
<1> QED BY <1>3 DEF X

LEMMA BecomesTabs ==
  ASSUME NEW s, NEW u, NEW w \in DOMAIN s.workspaces, NEW W, NEW f, NEW n, Becomes(s, u, w, W, f, n),
         NEW tabs, NEW active
  PROVE  Becomes(s, WithTabs(u, w, tabs, active), w, [W EXCEPT !.tabs = tabs, !.active = active, !.rev = Later(W.rev)], f, n)
<1> DEFINE X == [W EXCEPT !.tabs = tabs, !.active = active, !.rev = Later(W.rev)]
<1>1. u.workspaces[w] = W /\ w \in DOMAIN u.workspaces /\ DOMAIN X = Fields
  BY BecomesOpen DEF Becomes
<1>2. WithTabs(u, w, tabs, active) = [u EXCEPT !.workspaces[w] = X]
  BY <1>1 DEF WithTabs
<1> HIDE DEF X
<1>3. Becomes(s, WithTabs(u, w, tabs, active), w, X, f, n)
  BY <1>1, <1>2, BecomesWith
<1> QED BY <1>3 DEF X

LEMMA BecomesViewport ==
  ASSUME NEW s, NEW u, NEW w \in DOMAIN s.workspaces, NEW W, NEW f, NEW n, Becomes(s, u, w, W, f, n), NEW viewport
  PROVE  Becomes(s, WithViewport(u, w, viewport), w, [W EXCEPT !.viewport = viewport, !.rev = Later(W.rev)], f, n)
<1> DEFINE X == [W EXCEPT !.viewport = viewport, !.rev = Later(W.rev)]
<1>1. u.workspaces[w] = W /\ w \in DOMAIN u.workspaces /\ DOMAIN X = Fields
  BY BecomesOpen DEF Becomes
<1>2. WithViewport(u, w, viewport) = [u EXCEPT !.workspaces[w] = X]
  BY <1>1 DEF WithViewport
<1> HIDE DEF X
<1>3. Becomes(s, WithViewport(u, w, viewport), w, X, f, n)
  BY <1>1, <1>2, BecomesWith
<1> QED BY <1>3 DEF X

\* Terminals come and go.
LEMMA BecomesMinted ==
  ASSUME NEW s, s.nextPane \in Nat, s.nextTerm \in Nat, NEW w \in DOMAIN s.workspaces, NEW W, NEW f, NEW n \in Nat,
         NEW u, Becomes(s, u, w, W, f, n), NEW k \in Nat, NEW size
  PROVE  Becomes(s, Minted(u, k, size), w, W, PutAll(f, u.nextTerm .. u.nextTerm + k - 1, size), n + k)
<1> DEFINE g == PutAll(u.terminals, u.nextTerm .. u.nextTerm + k - 1, size)
           x == [u EXCEPT !.nextPane = @ + k, !.nextTerm = @ + k, !.terminals = g]
<1>1. Minted(u, k, size) = x
  BY Zenon DEF Minted
<1>2. Shaped(u) /\ u.terminals = f /\ u.nextPane = s.nextPane + n /\ u.nextTerm = s.nextTerm + n
  BY DEF Becomes
<1>3. g = PutAll(f, u.nextTerm .. u.nextTerm + k - 1, size)
  BY <1>2
<1> HIDE DEF g
<1>4. /\ DOMAIN x = DOMAIN u /\ x.order = u.order /\ x.workspaces = u.workspaces /\ x.clients = u.clients
      /\ x.terminals = g /\ x.nextPane = u.nextPane + k /\ x.nextTerm = u.nextTerm + k
  BY <1>2 DEF Shaped
<1> HIDE DEF x
<1>5. Shaped(x)
  BY <1>2, <1>4 DEF Shaped
<1>6. x.nextPane = s.nextPane + (n + k) /\ x.nextTerm = s.nextTerm + (n + k)
  BY <1>2, <1>4
<1> QED BY <1>1, <1>3, <1>4, <1>5, <1>6 DEF Becomes

LEMMA BecomesLess ==
  ASSUME NEW s, NEW u, NEW w, NEW W, NEW f, NEW n, Becomes(s, u, w, W, f, n), NEW gone
  PROVE  Becomes(s, WithoutTerminals(u, gone), w, W, [t \in DOMAIN f \ gone |-> f[t]], n)
<1> DEFINE g == [t \in DOMAIN u.terminals \ gone |-> u.terminals[t]]
           x == [u EXCEPT !.terminals = g]
<1>1. WithoutTerminals(u, gone) = x
  BY DEF WithoutTerminals
<1>2. Shaped(u) /\ u.terminals = f
  BY DEF Becomes
<1>3. g = [t \in DOMAIN f \ gone |-> f[t]]
  BY <1>2
<1> HIDE DEF g
<1>4. /\ DOMAIN x = DOMAIN u /\ x.order = u.order /\ x.workspaces = u.workspaces /\ x.clients = u.clients
      /\ x.terminals = g /\ x.nextPane = u.nextPane /\ x.nextTerm = u.nextTerm
  BY <1>2 DEF Shaped
<1> HIDE DEF x
<1>5. Shaped(x)
  BY <1>2, <1>4 DEF Shaped
<1> QED BY <1>1, <1>3, <1>4, <1>5 DEF Becomes

LEMMA BecomesNumbered ==
  ASSUME NEW s, NEW u, NEW w, NEW W, NEW f, NEW n, Becomes(s, u, w, W, f, n)
  PROVE  Becomes(s, Numbered(u), w, W, f, n)
<1> DEFINE x == [u EXCEPT !.nextTab = @ + 1]
<1>1. Numbered(u) = x
  BY DEF Numbered
<1>2. Shaped(u)
  BY DEF Becomes
<1>4. /\ DOMAIN x = DOMAIN u /\ x.order = u.order /\ x.workspaces = u.workspaces /\ x.clients = u.clients
      /\ x.terminals = u.terminals /\ x.nextPane = u.nextPane /\ x.nextTerm = u.nextTerm
  BY <1>2 DEF Shaped
<1> HIDE DEF x
<1>5. Shaped(x)
  BY <1>2, <1>4 DEF Shaped
<1> QED BY <1>1, <1>4, <1>5 DEF Becomes
-------------------------------------------------------------------------------
(* The tabs of all workspaces as one set: an identifier names its workspace. *)

Terms(S) == {l.terminal : l \in S}
Growth(T) == UNION {Labels(t.layout) : t \in T}

\* No pane and no terminal is on two labels.
Distinct(S) == \A l, m \in S : l.pane = m.pane \/ l.terminal = m.terminal => l = m

Planted(t, S) == Holds(t.layout, S) /\ t.focused \in Panes(t.layout)

Forest(T) ==
  /\ \A t \in T : Planted(t, Labels(t.layout))
  /\ \A t, u \in T : t # u => Labels(t.layout) \cap Labels(u.layout) = {}
  /\ Distinct(Growth(T))

LEMMA LabelsName ==
  ASSUME NEW t
  PROVE  Panes(t) = {l.pane : l \in Labels(t)} /\ Terminals(t) = Terms(Labels(t))
BY DEF Panes, Terminals, Terms, Labels

LEMMA ForestLess ==
  ASSUME NEW T, Forest(T), NEW S, S \subseteq T
  PROVE  Forest(T \ S) /\ Growth(T \ S) = Growth(T) \ Growth(S)
<1>1. Growth(T \ S) \subseteq Growth(T)
  BY DEF Growth
<1>2. Forest(T \ S)
  <2>1. Distinct(Growth(T \ S))
    BY <1>1 DEF Forest, Distinct
  <2> QED BY <2>1 DEF Forest
<1>3. ASSUME NEW l \in Growth(T) \ Growth(S) PROVE l \in Growth(T \ S)
  BY <1>3 DEF Growth
<1>4. ASSUME NEW l \in Growth(T \ S) PROVE l \notin Growth(S)
  <2>1. PICK t \in T \ S : l \in Labels(t.layout)
    BY <1>4 DEF Growth
  <2>2. ASSUME NEW v \in S PROVE l \notin Labels(v.layout)
    <3>1. Labels(t.layout) \cap Labels(v.layout) = {}
      BY <2>1 DEF Forest
    <3> QED BY <2>1, <3>1
  <2> QED BY <2>2 DEF Growth
<1>5. Growth(T \ S) = Growth(T) \ Growth(S)
  BY <1>1, <1>3, <1>4
<1> QED BY <1>2, <1>5

LEMMA ForestMore ==
  ASSUME NEW T, Forest(T), NEW t, NEW S, Planted(t, S), S \cap Growth(T) = {}, Distinct(Growth(T) \cup S)
  PROVE  Forest(T \cup {t}) /\ Growth(T \cup {t}) = Growth(T) \cup S
<1>1. Labels(t.layout) = S /\ Planted(t, Labels(t.layout))
  BY DEF Planted, Holds
<1>2. Growth(T \cup {t}) = Growth(T) \cup S
  BY <1>1 DEF Growth
<1>3. ASSUME NEW v \in T PROVE Labels(v.layout) \cap Labels(t.layout) = {}
  BY <1>1 DEF Growth
<1>4. \A v, u \in T \cup {t} : v # u => Labels(v.layout) \cap Labels(u.layout) = {}
  BY <1>3 DEF Forest
<1>5. \A v \in T \cup {t} : Planted(v, Labels(v.layout))
  BY <1>1 DEF Forest
<1>6. Distinct(Growth(T \cup {t}))
  BY <1>2
<1>7. Forest(T \cup {t})
  BY <1>4, <1>5, <1>6 DEF Forest
<1> QED BY <1>2, <1>7

Grows(T, S) == Forest(T) /\ Growth(T) = S

\* A tab gives way to one with other labels.
Trades(T, G, I) == G \subseteq Growth(T) /\ I \cap Growth(T) = {} /\ Distinct(Growth(T) \cup I)

LEMMA ForestEdit ==
  ASSUME NEW T, Forest(T), NEW t \in T, NEW G, G \subseteq Labels(t.layout), NEW I, Trades(T, G, I),
         NEW v, Planted(v, (Labels(t.layout) \ G) \cup I)
  PROVE  Grows((T \ {t}) \cup {v}, (Growth(T) \ G) \cup I)
<1> DEFINE R == T \ {t}
           S == (Labels(t.layout) \ G) \cup I
<1>1. Growth({t}) = Labels(t.layout)
  BY DEF Growth
<1>2. Forest(R) /\ Growth(R) = Growth(T) \ Labels(t.layout)
  BY <1>1, ForestLess
<1>3. Labels(t.layout) \subseteq Growth(T)
  BY DEF Growth
<1> HIDE DEF R
<1>4. S \cap Growth(R) = {}
  BY <1>2 DEF Trades
<1>5. Growth(R) \cup S \subseteq Growth(T) \cup I
  BY <1>2, <1>3
<1>6. Distinct(Growth(R) \cup S)
  BY <1>5 DEF Trades, Distinct
<1> HIDE DEF S
<1>7. Forest(R \cup {v}) /\ Growth(R \cup {v}) = Growth(R) \cup S
  BY <1>2, <1>4, <1>6, ForestMore DEF S
<1>8. Growth(R) \cup S = (Growth(T) \ G) \cup I
  BY <1>2, <1>3 DEF S
<1> QED BY <1>7, <1>8 DEF R, Grows

-----------------------------------------------------------------------------
AllTabs(s) == UNION {TabsOf(s, w) : w \in DOMAIN s.workspaces}
Supplied(s, S) ==
  \A l \in S : l.pane \in Nat /\ l.pane < s.nextPane /\ l.terminal \in Nat /\ l.terminal < s.nextTerm
Shows(s, w) == \E t \in TabsOf(s, w) : t.id = s.workspaces[w].active

\* A sequence of the elements of D, each of them once.
Once(seq, D) ==
  /\ seq \in Seq(D) /\ Elements(seq) = D
  /\ \A i, j \in DOMAIN seq : seq[i] = seq[j] => i = j

\* The order lists every workspace once.
Ordered(s) == Once(s.order, DOMAIN s.workspaces)

\* The layouts of a state, its terminals and its counters agree.
Consistent(s) ==
  /\ Ordered(s)
  /\ s.nextPane \in Nat /\ s.nextTerm \in Nat
  /\ Forest(AllTabs(s))
  /\ Supplied(s, Growth(AllTabs(s)))
  /\ DOMAIN s.terminals = Terms(Growth(AllTabs(s)))
  /\ \A w \in DOMAIN s.workspaces : Shows(s, w) /\ s.workspaces[w].rev \in Nat

\* The next n labels.
Issue(s, n) == {Fresh(s, k) : k \in 0 .. n - 1}

LEMMA IssueIsNew ==
  ASSUME NEW s, Consistent(s), NEW n \in Nat, NEW G, G \subseteq Growth(AllTabs(s))
  PROVE  /\ Trades(AllTabs(s), G, Issue(s, n))
         /\ Terms(Issue(s, n)) = s.nextTerm .. s.nextTerm + n - 1
         /\ \A l \in Issue(s, n) : l.pane \in s.nextPane .. s.nextPane + n - 1
                                   /\ l.terminal \in s.nextTerm .. s.nextTerm + n - 1
<1> DEFINE S == Growth(AllTabs(s))
<1>1. /\ \A k : Fresh(s, k).pane = s.nextPane + k /\ Fresh(s, k).terminal = s.nextTerm + k
      /\ \A j, k \in Int : Fresh(s, j) = Fresh(s, k) => j = k
      /\ s.nextPane \in Nat /\ s.nextTerm \in Nat
  BY FreshLabels DEF Consistent
<1>2. ASSUME NEW l \in Issue(s, n)
      PROVE  \E k \in 0 .. n - 1 : l = Fresh(s, k) /\ l.pane = s.nextPane + k /\ l.terminal = s.nextTerm + k
  BY <1>1 DEF Issue
<1>3. ASSUME NEW l \in Issue(s, n) PROVE l.pane \in s.nextPane .. s.nextPane + n - 1
                                         /\ l.terminal \in s.nextTerm .. s.nextTerm + n - 1
  <2>1. PICK k \in 0 .. n - 1 : l = Fresh(s, k) /\ l.pane = s.nextPane + k /\ l.terminal = s.nextTerm + k
    BY <1>2
  <2> QED BY <1>1, <2>1
<1>4. ASSUME NEW l \in S PROVE l.pane \in Nat /\ l.pane < s.nextPane /\ l.terminal \in Nat /\ l.terminal < s.nextTerm
  BY DEF Consistent, Supplied
<1>5. ASSUME NEW l \in S, NEW m \in Issue(s, n) PROVE l.pane # m.pane /\ l.terminal # m.terminal /\ l # m
  <2>1. m.pane \in s.nextPane .. s.nextPane + n - 1 /\ m.terminal \in s.nextTerm .. s.nextTerm + n - 1
    BY <1>3
  <2> QED BY <1>1, <1>4, <2>1
<1>6. ASSUME NEW l \in Issue(s, n), NEW m \in Issue(s, n), l.pane = m.pane \/ l.terminal = m.terminal PROVE l = m
  <2>1. PICK j \in 0 .. n - 1 : l = Fresh(s, j) /\ l.pane = s.nextPane + j /\ l.terminal = s.nextTerm + j
    BY <1>2
  <2>2. PICK k \in 0 .. n - 1 : m = Fresh(s, k) /\ m.pane = s.nextPane + k /\ m.terminal = s.nextTerm + k
    BY <1>2
  <2>3. j = k
    BY <1>1, <1>6, <2>1, <2>2
  <2> QED BY <2>1, <2>2, <2>3
<1>7. Distinct(S)
  BY DEF Consistent, Forest
<1>8. S \cap Issue(s, n) = {}
  BY <1>5
<1>9. Distinct(S \cup Issue(s, n))
  <2> SUFFICES ASSUME NEW l \in S \cup Issue(s, n), NEW m \in S \cup Issue(s, n), l.pane = m.pane \/ l.terminal = m.terminal
               PROVE  l = m
    BY DEF Distinct
  <2>1. CASE l \in S /\ m \in S
    BY <1>7, <2>1 DEF Distinct
  <2>2. CASE l \in Issue(s, n) /\ m \in Issue(s, n)
    BY <1>6, <2>2
  <2>3. CASE l \in S /\ m \in Issue(s, n)
    BY <1>5, <2>3
  <2>4. CASE m \in S /\ l \in Issue(s, n)
    BY <1>5, <2>4
  <2> QED BY <2>1, <2>2, <2>3, <2>4
<1>10. Trades(AllTabs(s), G, Issue(s, n))
  BY <1>8, <1>9 DEF Trades
<1>11. ASSUME NEW k \in s.nextTerm .. s.nextTerm + n - 1 PROVE k \in Terms(Issue(s, n))
  <2>1. k - s.nextTerm \in 0 .. n - 1 /\ s.nextTerm + (k - s.nextTerm) = k
    BY <1>1
  <2>2. Fresh(s, k - s.nextTerm) \in Issue(s, n) /\ Fresh(s, k - s.nextTerm).terminal = k
    BY <1>1, <2>1 DEF Issue
  <2> QED BY <2>2 DEF Terms
<1>12. Terms(Issue(s, n)) = s.nextTerm .. s.nextTerm + n - 1
  BY <1>3, <1>11 DEF Terms
<1> QED BY <1>3, <1>10, <1>12

\* What a command leaves, and what it takes from the counters.
Regrows(s, u, G, n) ==
  /\ Ordered(u)
  /\ Forest(AllTabs(u)) /\ Growth(AllTabs(u)) = (Growth(AllTabs(s)) \ G) \cup Issue(s, n)
  /\ DOMAIN u.terminals = (DOMAIN s.terminals \ Terms(G)) \cup Terms(Issue(s, n))
  /\ u.nextPane = s.nextPane + n /\ u.nextTerm = s.nextTerm + n
  /\ \A w \in DOMAIN u.workspaces : Shows(u, w) /\ u.workspaces[w].rev \in Nat

LEMMA RegrowsConsistent ==
  ASSUME NEW s, Consistent(s), NEW n \in Nat, NEW G, G \subseteq Growth(AllTabs(s)), NEW u, Regrows(s, u, G, n)
  PROVE  Consistent(u)
<1> DEFINE S == Growth(AllTabs(s))
           I == Issue(s, n)
<1>1. /\ s.nextPane \in Nat /\ s.nextTerm \in Nat /\ Supplied(s, S) /\ Distinct(S)
      /\ DOMAIN s.terminals = Terms(S)
  BY DEF Consistent, Forest
<1>2. \A l \in I : l.pane \in s.nextPane .. s.nextPane + n - 1
                   /\ l.terminal \in s.nextTerm .. s.nextTerm + n - 1
  BY IssueIsNew
<1>3. /\ Growth(AllTabs(u)) = (S \ G) \cup I
      /\ DOMAIN u.terminals = (Terms(S) \ Terms(G)) \cup Terms(I)
      /\ u.nextPane = s.nextPane + n /\ u.nextTerm = s.nextTerm + n
  BY <1>1 DEF Regrows
<1> HIDE DEF S, I
<1>4. Terms((S \ G) \cup I) = (Terms(S) \ Terms(G)) \cup Terms(I)
  <2>1. \A l \in S \ G : l.terminal \notin Terms(G)
    BY <1>1 DEF Terms, Distinct, S
  <2> QED BY <2>1 DEF Terms
<1>5. u.nextPane \in Nat /\ u.nextTerm \in Nat
  BY <1>1, <1>3
<1>6. Supplied(u, (S \ G) \cup I)
  <2>1. ASSUME NEW l \in S PROVE l.pane \in Nat /\ l.pane < u.nextPane /\ l.terminal \in Nat /\ l.terminal < u.nextTerm
    BY <1>1, <1>3 DEF Supplied
  <2>2. ASSUME NEW l \in I PROVE l.pane \in Nat /\ l.pane < u.nextPane /\ l.terminal \in Nat /\ l.terminal < u.nextTerm
    <3>1. l.pane \in s.nextPane .. s.nextPane + n - 1 /\ l.terminal \in s.nextTerm .. s.nextTerm + n - 1
      BY <1>2
    <3> QED BY <1>1, <1>3, <3>1
  <2> QED BY <2>1, <2>2 DEF Supplied
<1> QED BY <1>3, <1>4, <1>5, <1>6 DEF Regrows, Consistent
-------------------------------------------------------------------------------
LEMMA SameView ==
  ASSUME NEW s, NEW u, NEW v, u.workspaces[v] = s.workspaces[v]
  PROVE  /\ Visible(u, v) = Visible(s, v)
         /\ TerminalsOf(u, v) = TerminalsOf(s, v)
         /\ TabsOf(u, v) = TabsOf(s, v)
BY DEF Visible, ActiveTab, TabIndex, TerminalsOf, TabsOf

LEMMA TabsAfter ==
  ASSUME NEW s, Numbers(s), NEW w \in DOMAIN s.workspaces, NEW W, NEW f, NEW n, NEW u, Becomes(s, u, w, W, f, n)
  PROVE  /\ TabsOf(u, w) = {W.tabs[i] : i \in DOMAIN W.tabs}
         /\ AllTabs(u) = (AllTabs(s) \ TabsOf(s, w)) \cup TabsOf(u, w)
<1>1. /\ DOMAIN u.workspaces = DOMAIN s.workspaces /\ u.workspaces[w] = W
      /\ \A v \in DOMAIN s.workspaces \ {w} : u.workspaces[v] = s.workspaces[v]
  BY DEF Becomes
<1>2. \A v \in DOMAIN s.workspaces \ {w} : TabsOf(u, v) = TabsOf(s, v)
  BY <1>1, SameView
<1>3. ASSUME NEW v \in DOMAIN s.workspaces, NEW t \in TabsOf(s, v) PROVE \E k : t.id = <<v, k>>
  <2>1. PICK i \in DOMAIN s.workspaces[v].tabs : t = s.workspaces[v].tabs[i]
    BY DEF TabsOf
  <2>2. IsTab(v, s.nextTab, s.workspaces[v].tabs[i])
    BY DEF Numbers, IsTabs
  <2> QED BY <2>1, <2>2 DEF IsTab
<1>4. ASSUME NEW v \in DOMAIN s.workspaces \ {w}, NEW t \in TabsOf(s, v) PROVE t \notin TabsOf(s, w)
  <2>1. PICK k : t.id = <<v, k>>
    BY <1>3
  <2>2. ASSUME t \in TabsOf(s, w) PROVE FALSE
    <3>1. PICK m : t.id = <<w, m>>
      BY <1>3, <2>2
    <3> QED BY <2>1, <3>1
  <2> QED BY <2>2
<1>5. TabsOf(u, w) = {W.tabs[i] : i \in DOMAIN W.tabs}
  BY <1>1 DEF TabsOf
<1>6. ASSUME NEW x \in AllTabs(u) PROVE x \in (AllTabs(s) \ TabsOf(s, w)) \cup TabsOf(u, w)
  <2>1. PICK v \in DOMAIN s.workspaces : x \in TabsOf(u, v)
    BY <1>1 DEF AllTabs
  <2>2. CASE v # w
    <3>1. x \in TabsOf(s, v)
      BY <1>2, <2>1, <2>2
    <3> QED BY <1>4, <2>2, <3>1 DEF AllTabs
  <2> QED BY <2>1, <2>2
<1>7. ASSUME NEW x \in (AllTabs(s) \ TabsOf(s, w)) \cup TabsOf(u, w) PROVE x \in AllTabs(u)
  <2>1. CASE x \in TabsOf(u, w)
    BY <1>1, <2>1 DEF AllTabs
  <2>2. CASE x \in AllTabs(s) \ TabsOf(s, w)
    <3>1. PICK v \in DOMAIN s.workspaces : x \in TabsOf(s, v)
      BY <2>2 DEF AllTabs
    <3>2. x \in TabsOf(u, v) /\ v \in DOMAIN u.workspaces
      BY <1>1, <1>2, <2>2, <3>1
    <3> QED BY <3>2 DEF AllTabs
  <2> QED BY <2>1, <2>2
<1>8. AllTabs(u) = (AllTabs(s) \ TabsOf(s, w)) \cup TabsOf(u, w)
  BY <1>6, <1>7
<1> QED BY <1>5, <1>8

\* Where a step sizes nothing, and shows what it showed.
Frozen(s, u) == \A t \in DOMAIN s.terminals \cap DOMAIN u.terminals : u.terminals[t] = s.terminals[t]
ShowsAs(s, u, v) ==
  v \in DOMAIN u.workspaces /\ u.workspaces[v].controller # NoOne =>
    /\ v \in DOMAIN s.workspaces /\ s.workspaces[v].controller # NoOne
    /\ Visible(u, v) = Visible(s, v)
Elsewhere(s, u, w) ==
  \A v \in DOMAIN u.workspaces \ {w} :
    ShowsAs(s, u, v) /\ (v \in DOMAIN s.workspaces => TerminalsOf(u, v) = TerminalsOf(s, v))

\* The state of a command before sizes are shared out.
Passes(s, u, w) == Consistent(u) /\ Frozen(s, u) /\ Elsewhere(s, u, w)

\* The result of a command: what it passed through, or that with the sizes of w shared out.
Raised(s, u, w) ==
  w \in DOMAIN s.workspaces /\ w \in DOMAIN u.workspaces /\ u.workspaces[w].rev > s.workspaces[w].rev
Turned(s, r) ==
  \E u, w : Passes(s, u, w) /\ (\/ r = u /\ ShowsAs(s, u, w)
                                \/ r = Reflowed(u, w).state /\ Raised(s, u, w))

LEMMA BecomesElsewhere ==
  ASSUME NEW s, NEW w \in DOMAIN s.workspaces, NEW W, NEW f, NEW n, NEW u, Becomes(s, u, w, W, f, n)
  PROVE  Elsewhere(s, u, w)
<1>1. /\ DOMAIN u.workspaces = DOMAIN s.workspaces
      /\ \A v \in DOMAIN s.workspaces \ {w} : u.workspaces[v] = s.workspaces[v]
  BY DEF Becomes
<1>2. ASSUME NEW v \in DOMAIN s.workspaces \ {w}
      PROVE  ShowsAs(s, u, v) /\ TerminalsOf(u, v) = TerminalsOf(s, v)
  BY <1>1, SameView DEF ShowsAs
<1> QED BY <1>1, <1>2 DEF Elsewhere

\* The terminals of a state after G went and n more came.
Stocks(s, f, G, n) ==
  /\ DOMAIN f = (DOMAIN s.terminals \ Terms(G)) \cup Terms(Issue(s, n))
  /\ \A t \in DOMAIN s.terminals \cap DOMAIN f : f[t] = s.terminals[t]

LEMMA StockSame ==
  ASSUME NEW s, Consistent(s) PROVE Stocks(s, s.terminals, {}, 0)
<1>1. Issue(s, 0) = {}
  BY DEF Issue
<1> QED BY <1>1 DEF Stocks, Terms

LEMMA StockMinted ==
  ASSUME NEW s, Consistent(s), NEW n \in Nat, NEW size
  PROVE  Stocks(s, PutAll(s.terminals, s.nextTerm .. s.nextTerm + n - 1, size), {}, n)
<1> DEFINE K == s.nextTerm .. s.nextTerm + n - 1
           f == PutAll(s.terminals, K, size)
<1>1. Terms(Issue(s, n)) = K
  BY IssueIsNew
<1>2. DOMAIN f = DOMAIN s.terminals \cup K
  BY DEF PutAll
<1>3. \A t \in DOMAIN s.terminals \ K : f[t] = s.terminals[t]
  BY DEF PutAll
<1>4. s.nextTerm \in Nat /\ \A t \in DOMAIN s.terminals : t \in Nat /\ t < s.nextTerm
  BY DEF Consistent, Supplied, Terms
<1>5. ASSUME NEW t \in DOMAIN s.terminals PROVE t \notin K
  BY <1>4
<1> HIDE DEF f, K
<1>6. DOMAIN f = (DOMAIN s.terminals \ Terms({})) \cup Terms(Issue(s, n))
  BY <1>1, <1>2 DEF Terms
<1>7. Stocks(s, f, {}, n)
  BY <1>3, <1>5, <1>6 DEF Stocks
<1> QED BY <1>7 DEF f, K

LEMMA StockLess ==
  ASSUME NEW s, NEW G, NEW gone, gone = Terms(G)
  PROVE  Stocks(s, [t \in DOMAIN s.terminals \ gone |-> s.terminals[t]], G, 0)
<1>1. Issue(s, 0) = {}
  BY DEF Issue
<1> QED BY <1>1 DEF Stocks, Terms
-----------------------------------------------------------------------------
\* A workspace that has its active tab, and a revision no older.
Carries(W) ==
  /\ \E i \in DOMAIN W.tabs : W.tabs[i].id = W.active
  /\ W.rev \in Nat

LEMMA RegrownPasses ==
  ASSUME NEW s, Consistent(s), Numbers(s), NEW w \in DOMAIN s.workspaces, NEW W, NEW f, NEW n \in Nat,
         NEW u, Becomes(s, u, w, W, f, n), Carries(W),
         NEW G, G \subseteq Growth(AllTabs(s)), Stocks(s, f, G, n),
         Forest(AllTabs(u)), Growth(AllTabs(u)) = (Growth(AllTabs(s)) \ G) \cup Issue(s, n)
  PROVE  Passes(s, u, w)
<1>1. /\ DOMAIN u.workspaces = DOMAIN s.workspaces /\ u.workspaces[w] = W
      /\ \A v \in DOMAIN s.workspaces \ {w} : u.workspaces[v] = s.workspaces[v]
  BY DEF Becomes
<1>2. /\ u.terminals = f /\ u.nextPane = s.nextPane + n /\ u.nextTerm = s.nextTerm + n
  BY DEF Becomes
<1>3. ASSUME NEW v \in DOMAIN s.workspaces \ {w} PROVE Shows(u, v) /\ u.workspaces[v].rev \in Nat
  <2>1. Shows(s, v) /\ s.workspaces[v].rev \in Nat
    BY DEF Consistent
  <2> QED BY <1>1, <2>1, SameView DEF Shows
<1>4. Shows(u, w) /\ u.workspaces[w].rev \in Nat
  <2>1. TabsOf(u, w) = {W.tabs[i] : i \in DOMAIN W.tabs}
    BY TabsAfter
  <2>2. PICK i \in DOMAIN W.tabs : W.tabs[i].id = W.active
    BY DEF Carries
  <2> QED BY <1>1, <2>1, <2>2 DEF Shows, Carries
<1>5. \A v \in DOMAIN u.workspaces : Shows(u, v) /\ u.workspaces[v].rev \in Nat
  BY <1>1, <1>3, <1>4
<1>6. Regrows(s, u, G, n)
  <2>1. Ordered(u)
    BY <1>1 DEF Becomes, Consistent, Ordered
  <2> QED BY <1>2, <1>5, <2>1 DEF Regrows, Stocks
<1>7. Consistent(u)
  BY <1>6, RegrowsConsistent
<1>8. Frozen(s, u)
  BY <1>2 DEF Stocks, Frozen
<1>9. Elsewhere(s, u, w)
  BY BecomesElsewhere
<1> QED BY <1>7, <1>8, <1>9 DEF Passes
-------------------------------------------------------------------------------
(* One tab of a workspace replaced. *)

Trading(s, w, i, v, G, n) ==
  /\ i \in DOMAIN s.workspaces[w].tabs /\ v.id = s.workspaces[w].tabs[i].id
  /\ n \in Nat /\ G \subseteq Labels(s.workspaces[w].tabs[i].layout)
  /\ Planted(v, (Labels(s.workspaces[w].tabs[i].layout) \ G) \cup Issue(s, n))

\* W is workspace w of s with v for its i-th tab.
Retabs(s, w, W, i, v) ==
  /\ W.tabs = [s.workspaces[w].tabs EXCEPT ![i] = v]
  /\ W.active = s.workspaces[w].active
  /\ W.viewport = s.workspaces[w].viewport
  /\ W.controller = s.workspaces[w].controller
  /\ W.rev \in Nat

LEMMA OneTabOfAll ==
  ASSUME NEW s, NEW w \in DOMAIN s.workspaces, NEW i \in DOMAIN s.workspaces[w].tabs
  PROVE  /\ s.workspaces[w].tabs[i] \in TabsOf(s, w)
         /\ s.workspaces[w].tabs[i] \in AllTabs(s)
         /\ Labels(s.workspaces[w].tabs[i].layout) \subseteq Growth(AllTabs(s))
<1>1. s.workspaces[w].tabs[i] \in TabsOf(s, w)
  BY DEF TabsOf
<1>2. s.workspaces[w].tabs[i] \in AllTabs(s)
  BY <1>1 DEF AllTabs
<1> QED BY <1>1, <1>2 DEF Growth

LEMMA RetabsShows ==
  ASSUME NEW s, Consistent(s), NEW w \in DOMAIN s.workspaces, NEW W, NEW i, NEW v, Retabs(s, w, W, i, v),
         i \in DOMAIN s.workspaces[w].tabs, v.id = s.workspaces[w].tabs[i].id
  PROVE  Carries(W)
<1> DEFINE tabs == s.workspaces[w].tabs
<1>1. PICK t \in TabsOf(s, w) : t.id = s.workspaces[w].active
  BY DEF Consistent, Shows
<1>2. PICK k \in DOMAIN tabs : t = tabs[k]
  BY DEF TabsOf
<1>3. k \in DOMAIN W.tabs /\ W.tabs[k].id = W.active
  BY <1>1, <1>2 DEF Retabs
<1> QED BY <1>3 DEF Carries, Retabs

LEMMA TabTraded ==
  ASSUME NEW s, Consistent(s), Numbers(s), NEW w \in DOMAIN s.workspaces, NEW W, NEW f, NEW n,
         NEW u, Becomes(s, u, w, W, f, n), NEW i, NEW v, NEW G,
         Trading(s, w, i, v, G, n), Retabs(s, w, W, i, v), Stocks(s, f, G, n)
  PROVE  Passes(s, u, w)
<1> DEFINE tabs == s.workspaces[w].tabs
           t == tabs[i]
<1>1. /\ i \in DOMAIN tabs /\ v.id = t.id /\ n \in Nat /\ G \subseteq Labels(t.layout)
      /\ Planted(v, (Labels(t.layout) \ G) \cup Issue(s, n))
  BY DEF Trading
<1>2. t \in TabsOf(s, w) /\ t \in AllTabs(s) /\ Labels(t.layout) \subseteq Growth(AllTabs(s))
  BY <1>1, OneTabOfAll
<1>3. TabsOf(u, w) = {W.tabs[k] : k \in DOMAIN W.tabs} /\ AllTabs(u) = (AllTabs(s) \ TabsOf(s, w)) \cup TabsOf(u, w)
  BY TabsAfter
<1>4. ASSUME NEW k \in DOMAIN tabs, tabs[k] = t PROVE k = i
  BY <1>1, <1>4 DEF Numbers, IsTabs
<1>5. TabsOf(u, w) = (TabsOf(s, w) \ {t}) \cup {v}
  <2>1. W.tabs = [tabs EXCEPT ![i] = v]
    BY DEF Retabs
  <2>2. DOMAIN W.tabs = DOMAIN tabs /\ W.tabs[i] = v /\ \A k \in DOMAIN tabs \ {i} : W.tabs[k] = tabs[k]
    BY <1>1, <2>1
  <2>3. TabsOf(s, w) = {tabs[k] : k \in DOMAIN tabs}
    BY DEF TabsOf
  <2> HIDE DEF tabs, t
  <2>4. ASSUME NEW x \in TabsOf(u, w) PROVE x \in (TabsOf(s, w) \ {t}) \cup {v}
    <3>1. PICK k \in DOMAIN tabs : x = W.tabs[k]
      BY <1>3, <2>2
    <3> QED BY <1>4, <2>2, <2>3, <3>1
  <2>5. ASSUME NEW x \in (TabsOf(s, w) \ {t}) \cup {v} PROVE x \in TabsOf(u, w)
    <3>1. CASE x = v
      BY <1>1, <1>3, <2>2, <3>1
    <3>2. CASE x \in TabsOf(s, w) \ {t}
      <4>1. PICK k \in DOMAIN tabs : x = tabs[k]
        BY <2>3, <3>2
      <4>2. k # i
        BY <3>2, <4>1 DEF t
      <4> QED BY <1>3, <2>2, <4>1, <4>2
    <3> QED BY <3>1, <3>2
  <2> QED BY <2>4, <2>5
<1> HIDE DEF t, tabs
<1>6. AllTabs(u) = (AllTabs(s) \ {t}) \cup {v}
  <2>1. TabsOf(s, w) \subseteq AllTabs(s)
    BY DEF AllTabs
  <2> QED BY <1>2, <1>3, <1>5, <2>1
<1>7. G \subseteq Growth(AllTabs(s))
  BY <1>1, <1>2
<1>8. Trades(AllTabs(s), G, Issue(s, n))
  BY <1>1, <1>7, IssueIsNew
<1>9. Forest(AllTabs(s))
  BY DEF Consistent
<1>10. Forest(AllTabs(u)) /\ Growth(AllTabs(u)) = (Growth(AllTabs(s)) \ G) \cup Issue(s, n)
  <2> DEFINE T == AllTabs(s)
             I == Issue(s, n)
  <2>1. t \in T /\ G \subseteq Labels(t.layout) /\ Planted(v, (Labels(t.layout) \ G) \cup I)
    BY <1>1, <1>2
  <2>2. Forest(T) /\ Trades(T, G, I)
    BY <1>8, <1>9
  <2> HIDE DEF T, I
  <2>3. Grows((T \ {t}) \cup {v}, (Growth(T) \ G) \cup I)
    BY <2>1, <2>2, ForestEdit
  <2> QED BY <1>6, <2>3 DEF Grows, T, I
<1>11. Carries(W)
  BY <1>1, RetabsShows DEF t, tabs
<1> QED BY <1>1, <1>7, <1>10, <1>11, RegrownPasses

LEMMA ActiveFound ==
  ASSUME NEW s, Consistent(s), Numbers(s), NEW w \in DOMAIN s.workspaces
  PROVE  /\ TabIndex(s, w, s.workspaces[w].active) # 0
         /\ TabIndex(s, w, s.workspaces[w].active) \in DOMAIN s.workspaces[w].tabs
         /\ s.workspaces[w].tabs[TabIndex(s, w, s.workspaces[w].active)].id = s.workspaces[w].active
<1> DEFINE a == s.workspaces[w].active
           S == {i \in DOMAIN s.workspaces[w].tabs : s.workspaces[w].tabs[i].id = a}
<1>1. S # {}
  <2>1. PICK t \in TabsOf(s, w) : t.id = a
    BY DEF Consistent, Shows
  <2> QED BY <2>1 DEF TabsOf
<1>2. Place(S) \in S
  BY <1>1, Zenon DEF Place
<1>3. TabIndex(s, w, a) \in S
  BY <1>2, Zenon DEF TabIndex
<1>4. 0 \notin DOMAIN s.workspaces[w].tabs
  <2>1. IsTabs(w, s.nextTab, s.workspaces[w].tabs)
    BY DEF Numbers
  <2>2. DOMAIN s.workspaces[w].tabs = 1 .. Len(s.workspaces[w].tabs) /\ Len(s.workspaces[w].tabs) \in Nat
    BY <2>1 DEF IsTabs
  <2> QED BY <2>2
<1> QED BY <1>3, <1>4

\* A workspace shows what it showed when the change was in a tab that is not on show, or of
\* nothing that is shown.
LEMMA OtherTabShows ==
  ASSUME NEW s, NEW w \in DOMAIN s.workspaces, NEW W, NEW f, NEW n,
         NEW u, Becomes(s, u, w, W, f, n), NEW i, NEW v, Retabs(s, w, W, i, v),
         i \in DOMAIN s.workspaces[w].tabs, v.id = s.workspaces[w].tabs[i].id,
         Consistent(s), Numbers(s),
         \/ s.workspaces[w].active # v.id
         \/ v.layout = s.workspaces[w].tabs[i].layout /\ v.zoomed = s.workspaces[w].tabs[i].zoomed
  PROVE  ShowsAs(s, u, w)
<1> DEFINE tabs == s.workspaces[w].tabs
           a == s.workspaces[w].active
           k == TabIndex(s, w, a)
<1>1. u.workspaces[w] = W
  BY DEF Becomes
<1>2. /\ W.tabs = [tabs EXCEPT ![i] = v] /\ W.active = a
      /\ W.viewport = s.workspaces[w].viewport /\ W.controller = s.workspaces[w].controller
  BY DEF Retabs
<1>3. DOMAIN W.tabs = DOMAIN tabs /\ W.tabs[i] = v /\ \A j \in DOMAIN tabs \ {i} : W.tabs[j] = tabs[j]
  BY <1>2
<1>4. k \in DOMAIN tabs /\ tabs[k].id = a
  BY ActiveFound
<1>5. \A j \in DOMAIN tabs : W.tabs[j].id = tabs[j].id
  BY <1>3
<1>6. {j \in DOMAIN W.tabs : W.tabs[j].id = a} = {j \in DOMAIN tabs : tabs[j].id = a}
  BY <1>3, <1>5
<1>7. TabIndex(u, w, W.active) = k
  <2> DEFINE S == {j \in DOMAIN W.tabs : W.tabs[j].id = a}
  <2>1. TabIndex(u, w, a) = Place({j \in DOMAIN u.workspaces[w].tabs : u.workspaces[w].tabs[j].id = a})
    BY DEF TabIndex
  <2>2. TabIndex(u, w, a) = Place(S)
    BY <1>1, <2>1
  <2>3. k = Place({j \in DOMAIN tabs : tabs[j].id = a})
    BY Zenon DEF TabIndex
  <2> HIDE DEF k, a, tabs
  <2> QED BY <1>2, <1>6, <2>2, <2>3
<1>8. ActiveTab(u, w) = W.tabs[k] /\ ActiveTab(s, w) = tabs[k]
  BY <1>1, <1>2, <1>7 DEF ActiveTab
<1>9. W.tabs[k].layout = tabs[k].layout /\ W.tabs[k].zoomed = tabs[k].zoomed
  BY <1>3, <1>4
<1> HIDE DEF k, a, tabs
<1>10. Visible(u, w) = Visible(s, w)
  BY <1>1, <1>2, <1>8, <1>9 DEF Visible, Placed, Zoomed
<1> QED BY <1>1, <1>2, <1>10 DEF ShowsAs
-------------------------------------------------------------------------------
IsTabRecord(t) == DOMAIN t = {"id", "layout", "focused", "zoomed", "rev"}

LEMMA TabPlanted ==
  ASSUME NEW s, Consistent(s), Numbers(s), NEW w \in DOMAIN s.workspaces, NEW i \in DOMAIN s.workspaces[w].tabs,
         NEW t, t = s.workspaces[w].tabs[i]
  PROVE  Planted(t, Labels(t.layout)) /\ Sound(t.layout) /\ IsTabRecord(t)
<1>1. t \in AllTabs(s)
  BY OneTabOfAll
<1>2. Planted(t, Labels(t.layout))
  BY <1>1 DEF Consistent, Forest
<1>3. IsTabRecord(t)
  BY TabShaped DEF IsTabRecord
<1> QED BY <1>2, <1>3 DEF Planted, Holds

LEMMA FocusedPlanted ==
  ASSUME NEW t, IsTabRecord(t), NEW S, Planted(t, S), NEW pane \in Panes(t.layout), NEW v, v = Focused(t, pane)
  PROVE  /\ Planted(v, S) /\ v.id = t.id /\ v.layout = t.layout
         /\ t.zoomed \in {NoOne, pane} => v.zoomed = t.zoomed
<1>1. v.layout = t.layout /\ v.focused = pane /\ v.id = t.id
      /\ v.zoomed = IF t.zoomed # NoOne /\ t.zoomed # pane THEN NoOne ELSE t.zoomed
  BY DEF Focused, IsTabRecord
<1> QED BY <1>1 DEF Planted

LEMMA RelaidPlanted ==
  ASSUME NEW t, IsTabRecord(t), NEW layout, NEW S, Holds(layout, S), NEW v, v = Relaid(t, layout)
  PROVE  Planted(v, S) /\ v.id = t.id
<1>1. v.layout = layout /\ v.id = t.id
      /\ v.focused = IF t.focused \in Panes(layout) THEN t.focused ELSE LeftmostPane(layout)
  BY DEF Relaid, IsTabRecord
<1>2. LeftmostPane(layout) \in Panes(layout)
  BY LeftmostIn DEF Holds, Sound
<1> QED BY <1>1, <1>2 DEF Planted

LEMMA NewTabPlanted ==
  ASSUME NEW id, NEW layout, NEW S, Holds(layout, S), NEW v, v = NewTabRecord(id, layout)
  PROVE  Planted(v, S) /\ v.id = id
<1>1. v.layout = layout /\ v.focused = LeftmostPane(layout) /\ v.id = id
  BY DEF NewTabRecord
<1>2. LeftmostPane(layout) \in Panes(layout)
  BY LeftmostIn DEF Holds, Sound
<1> QED BY <1>1, <1>2 DEF Planted

\* The tab keeps its labels.
LEMMA TradingSame ==
  ASSUME NEW s, NEW w, NEW i \in DOMAIN s.workspaces[w].tabs, NEW v, v.id = s.workspaces[w].tabs[i].id,
         Planted(v, Labels(s.workspaces[w].tabs[i].layout))
  PROVE  Trading(s, w, i, v, {}, 0)
<1>1. Issue(s, 0) = {}
  BY DEF Issue
<1> DEFINE S == Labels(s.workspaces[w].tabs[i].layout)
<1>2. (S \ {}) \cup Issue(s, 0) = S
  BY <1>1
<1>3. Planted(v, (S \ {}) \cup Issue(s, 0))
  BY <1>2
<1> QED BY <1>3 DEF Trading

\* u is s with v for a tab of w, and the revision of w raised by up.
Retabbed(s, u, w, i, v, f, n, up) ==
  \E W : Becomes(s, u, w, W, f, n) /\ Retabs(s, w, W, i, v) /\ W.rev = s.workspaces[w].rev + up

LEMMA RetabbedSteps ==
  ASSUME NEW s, Consistent(s), NEW w \in DOMAIN s.workspaces, NEW m, NEW f, NEW n,
         Becomes(s, m, w, s.workspaces[w], f, n), NEW i, NEW v
  PROVE  /\ Retabbed(s, WithTab(m, w, i, v), w, i, v, f, n, 0)
         /\ Retabbed(s, Touched(WithTab(m, w, i, v), w), w, i, v, f, n, 1)
         /\ Retabbed(s, WithTab(Touched(m, w), w, i, v), w, i, v, f, n, 1)
<1> DEFINE W == s.workspaces[w]
           X == [W EXCEPT !.tabs[i] = v]
           Y == [X EXCEPT !.rev = Later(@)]
           A == [W EXCEPT !.rev = Later(@)]
           B == [A EXCEPT !.tabs[i] = v]
<1>1. W.rev \in Nat
  BY DEF Consistent
<1>2. DOMAIN W = Fields
  BY DEF Becomes
<1>3. Becomes(s, WithTab(m, w, i, v), w, X, f, n)
  BY BecomesTab
<1>4. X.tabs = [W.tabs EXCEPT ![i] = v] /\ X.active = W.active /\ X.viewport = W.viewport
      /\ X.controller = W.controller /\ X.rev = W.rev /\ DOMAIN X = Fields
  BY <1>2 DEF Fields
<1>5. A.tabs = W.tabs /\ A.active = W.active /\ A.viewport = W.viewport
      /\ A.controller = W.controller /\ A.rev = W.rev + 1 /\ DOMAIN A = Fields
  BY <1>2 DEF Fields, Later
<1>6. Becomes(s, Touched(m, w), w, A, f, n)
  BY BecomesTouched
<1>7. Retabs(s, w, X, i, v)
  BY <1>1, <1>4 DEF Retabs
<1>8. Becomes(s, Touched(WithTab(m, w, i, v), w), w, Y, f, n)
  <2> HIDE DEF X
  <2> QED BY <1>3, BecomesTouched
<1>9. Becomes(s, WithTab(Touched(m, w), w, i, v), w, B, f, n)
  <2> HIDE DEF A
  <2> QED BY <1>6, BecomesTab
<1>10. Y.tabs = X.tabs /\ Y.active = X.active /\ Y.viewport = X.viewport /\ Y.controller = X.controller /\ Y.rev = X.rev + 1
  <2> HIDE DEF X
  <2> QED BY <1>4 DEF Fields, Later
<1>11. B.tabs = [A.tabs EXCEPT ![i] = v] /\ B.active = A.active /\ B.viewport = A.viewport
       /\ B.controller = A.controller /\ B.rev = A.rev
  <2> HIDE DEF A
  <2> QED BY <1>5 DEF Fields
<1> HIDE DEF X, Y, A, B
<1>12. Retabs(s, w, Y, i, v)
  BY <1>1, <1>4, <1>10 DEF Retabs
<1>13. Retabs(s, w, B, i, v)
  BY <1>1, <1>5, <1>11 DEF Retabs
<1>14. X.rev = W.rev + 0
  BY <1>1, <1>4
<1>15. Retabbed(s, WithTab(m, w, i, v), w, i, v, f, n, 0)
  BY <1>3, <1>7, <1>14 DEF Retabbed
<1>16. Retabbed(s, Touched(WithTab(m, w, i, v), w), w, i, v, f, n, 1)
  BY <1>4, <1>8, <1>10, <1>12 DEF Retabbed
<1>17. Retabbed(s, WithTab(Touched(m, w), w, i, v), w, i, v, f, n, 1)
  BY <1>5, <1>9, <1>11, <1>13 DEF Retabbed
<1> QED BY <1>15, <1>16, <1>17

LEMMA RetabbedLess ==
  ASSUME NEW s, NEW u, NEW w, NEW i, NEW v, NEW f, NEW n, NEW up, Retabbed(s, u, w, i, v, f, n, up), NEW gone
  PROVE  Retabbed(s, WithoutTerminals(u, gone), w, i, v, [t \in DOMAIN f \ gone |-> f[t]], n, up)
<1>1. PICK W : Becomes(s, u, w, W, f, n) /\ Retabs(s, w, W, i, v) /\ W.rev = s.workspaces[w].rev + up
  BY DEF Retabbed
<1>2. Becomes(s, WithoutTerminals(u, gone), w, W, [t \in DOMAIN f \ gone |-> f[t]], n)
  BY <1>1, BecomesLess
<1> QED BY <1>1, <1>2 DEF Retabbed

LEMMA RetabbedPasses ==
  ASSUME NEW s, Consistent(s), Numbers(s), NEW w \in DOMAIN s.workspaces, NEW u, NEW i, NEW v, NEW f, NEW n, NEW up,
         Retabbed(s, u, w, i, v, f, n, up), NEW G, Trading(s, w, i, v, G, n), Stocks(s, f, G, n)
  PROVE  /\ Passes(s, u, w) /\ u.workspaces[w].active = s.workspaces[w].active
         /\ up = 1 => Raised(s, u, w)
         /\ \/ s.workspaces[w].active # v.id
            \/ v.layout = s.workspaces[w].tabs[i].layout /\ v.zoomed = s.workspaces[w].tabs[i].zoomed
            => ShowsAs(s, u, w)
<1>1. PICK W : Becomes(s, u, w, W, f, n) /\ Retabs(s, w, W, i, v) /\ W.rev = s.workspaces[w].rev + up
  BY DEF Retabbed
<1>2. Passes(s, u, w)
  BY <1>1, TabTraded
<1>3. u.workspaces[w] = W /\ W.active = s.workspaces[w].active /\ DOMAIN u.workspaces = DOMAIN s.workspaces
  BY <1>1 DEF Becomes, Retabs
<1>4. s.workspaces[w].rev \in Nat
  BY DEF Consistent
<1>5. up = 1 => Raised(s, u, w)
  BY <1>1, <1>3, <1>4 DEF Raised
<1>6. i \in DOMAIN s.workspaces[w].tabs /\ v.id = s.workspaces[w].tabs[i].id
  BY DEF Trading
<1>7. ASSUME \/ s.workspaces[w].active # v.id
             \/ v.layout = s.workspaces[w].tabs[i].layout /\ v.zoomed = s.workspaces[w].tabs[i].zoomed
      PROVE  ShowsAs(s, u, w)
  BY <1>1, <1>6, <1>7, OtherTabShows
<1> QED BY <1>2, <1>3, <1>5, <1>7

LEMMA ItselfTurned ==
  ASSUME NEW s, Consistent(s) PROVE Turned(s, s)
<1>1. \A v : ShowsAs(s, s, v)
  BY DEF ShowsAs
<1>2. \A w : Passes(s, s, w)
  BY <1>1 DEF Passes, Frozen, Elsewhere
<1> QED BY <1>1, <1>2 DEF Turned

\* A changed tab is shown at once if it is the active one.
LEMMA ShownTurned ==
  ASSUME NEW s, Consistent(s), Numbers(s), NEW w \in DOMAIN s.workspaces, NEW u, NEW i, NEW v, NEW f, NEW n,
         Retabbed(s, u, w, i, v, f, n, 1), NEW G, Trading(s, w, i, v, G, n), Stocks(s, f, G, n),
         NEW id, id = s.workspaces[w].tabs[i].id
  PROVE  Turned(s, Shown(u, w, id).state)
<1>1. /\ Passes(s, u, w) /\ u.workspaces[w].active = s.workspaces[w].active /\ Raised(s, u, w)
      /\ s.workspaces[w].active # v.id => ShowsAs(s, u, w)
  BY RetabbedPasses
<1>2. v.id = id
  BY DEF Trading
<1>3. CASE s.workspaces[w].active = id
  <2>1. Shown(u, w, id).state = Reflowed(u, w).state
    BY <1>1, <1>3 DEF Shown
  <2> QED BY <1>1, <2>1 DEF Turned
<1>4. CASE s.workspaces[w].active # id
  <2>1. Shown(u, w, id).state = u
    BY <1>1, <1>4, Zenon DEF Shown, Quietly
  <2> QED BY <1>1, <1>2, <1>4, <2>1 DEF Turned
<1> QED BY <1>3, <1>4
-------------------------------------------------------------------------------
(* The commands that change one tab. *)

\* A pane that was found is in the tab where it was found.
LEMMA FoundPane ==
  ASSUME NEW s, NEW w, NEW pane, NEW i, i = TabOfPane(s, w, pane), i # 0
  PROVE  i \in DOMAIN s.workspaces[w].tabs /\ pane \in Panes(s.workspaces[w].tabs[i].layout)
<1> DEFINE S == {k \in DOMAIN s.workspaces[w].tabs : pane \in Panes(s.workspaces[w].tabs[k].layout)}
<1>1. Place(S) \in S
  BY FoundPlace DEF TabOfPane
<1> QED BY <1>1, Zenon DEF TabOfPane

LEMMA ItselfBecomes ==
  ASSUME NEW s, Leases(s), Consistent(s), NEW w \in DOMAIN s.workspaces
  PROVE  Becomes(s, s, w, s.workspaces[w], s.terminals, 0)
BY BecomesItself DEF Leases, Consistent

LEMMA FocusPaneTurned ==
  ASSUME NEW s, Leases(s), Numbers(s), Consistent(s), NEW c, NEW pane, FocusPane(s, c, pane).ok
  PROVE  Turned(s, FocusPane(s, c, pane).state)
<1> DEFINE w == s.clients[c].workspace
           i == TabIndex(s, w, s.workspaces[w].active)
           t == s.workspaces[w].tabs[i]
           v == Focused(t, pane)
           u == WithTab(s, w, i, v)
           b == Touched(u, w)
<1>1. Controls(s, c) /\ pane \in Panes(t.layout)
  BY ZenonT(40) DEF FocusPane, Refused
<1>2. w \in DOMAIN s.workspaces
  BY <1>1 DEF Controls, Leases
<1>3. i \in DOMAIN s.workspaces[w].tabs
  BY <1>2, ActiveFound
<1>4. IsTabRecord(t) /\ Planted(t, Labels(t.layout))
  BY <1>2, <1>3, TabPlanted, Zenon
<1>5. FocusPane(s, c, pane).state = IF t.zoomed \notin {NoOne, pane} THEN Reflowed(b, w).state ELSE u
  BY <1>1, Zenon DEF FocusPane, Quietly
<1> HIDE DEF w, i, t, v, u, b
<1>6. Planted(v, Labels(t.layout)) /\ v.id = t.id /\ v.layout = t.layout
      /\ (t.zoomed \in {NoOne, pane} => v.zoomed = t.zoomed)
  BY <1>1, <1>4, FocusedPlanted DEF v
<1>7. Trading(s, w, i, v, {}, 0)
  BY <1>3, <1>6, TradingSame DEF t
<1>8. Retabbed(s, u, w, i, v, s.terminals, 0, 0) /\ Retabbed(s, b, w, i, v, s.terminals, 0, 1)
  BY <1>2, ItselfBecomes, RetabbedSteps DEF u, b
<1>9. Stocks(s, s.terminals, {}, 0)
  BY StockSame
<1>10. Passes(s, b, w) /\ Raised(s, b, w)
  BY <1>2, <1>7, <1>8, <1>9, RetabbedPasses
<1>11. Passes(s, u, w) /\ (t.zoomed \in {NoOne, pane} => ShowsAs(s, u, w))
  BY <1>2, <1>6, <1>7, <1>8, <1>9, RetabbedPasses DEF t
<1> QED BY <1>5, <1>10, <1>11 DEF Turned

LEMMA FocusPaneInTurned ==
  ASSUME NEW s, Leases(s), Numbers(s), Consistent(s), NEW o, NEW w, NEW pane, FocusPaneIn(s, o, w, pane).ok
  PROVE  Turned(s, FocusPaneIn(s, o, w, pane).state)
<1> DEFINE i == TabOfPane(s, w, pane)
           t == s.workspaces[w].tabs[i]
           v == Focused(t, pane)
           u == WithTab(s, w, i, v)
           b == Touched(u, w)
<1>1. Authorized(s, o, w) /\ i # 0
  BY DEF FocusPaneIn, Refused
<1>2. w \in DOMAIN s.workspaces
  BY <1>1 DEF Authorized
<1>3. i \in DOMAIN s.workspaces[w].tabs /\ pane \in Panes(t.layout)
  BY <1>1, FoundPane
<1>4. IsTabRecord(t) /\ Planted(t, Labels(t.layout))
  BY <1>2, <1>3, TabPlanted
<1>5. FocusPaneIn(s, o, w, pane).state =
        IF t.focused = pane THEN s
        ELSE IF t.zoomed \notin {NoOne, pane} /\ s.workspaces[w].active = t.id THEN Reflowed(b, w).state
        ELSE u
  BY <1>1 DEF FocusPaneIn, Quietly
<1> HIDE DEF i, t, v, u, b
<1>6. Planted(v, Labels(t.layout)) /\ v.id = t.id /\ v.layout = t.layout
      /\ (t.zoomed \in {NoOne, pane} => v.zoomed = t.zoomed)
  BY <1>3, <1>4, FocusedPlanted DEF v
<1>7. Trading(s, w, i, v, {}, 0)
  BY <1>3, <1>6, TradingSame DEF t
<1>8. Retabbed(s, u, w, i, v, s.terminals, 0, 0) /\ Retabbed(s, b, w, i, v, s.terminals, 0, 1)
  BY <1>2, ItselfBecomes, RetabbedSteps DEF u, b
<1>9. Stocks(s, s.terminals, {}, 0)
  BY StockSame
<1>10. Passes(s, b, w) /\ Raised(s, b, w)
  BY <1>2, <1>7, <1>8, <1>9, RetabbedPasses
<1>11. Passes(s, u, w) /\ (s.workspaces[w].active # t.id \/ t.zoomed \in {NoOne, pane} => ShowsAs(s, u, w))
  BY <1>2, <1>6, <1>7, <1>8, <1>9, RetabbedPasses DEF t
<1>12. Turned(s, s)
  BY ItselfTurned
<1> QED BY <1>5, <1>10, <1>11, <1>12 DEF Turned

LEMMA ToggleZoomTurned ==
  ASSUME NEW s, Leases(s), Numbers(s), Consistent(s), NEW o, NEW w, ToggleZoom(s, o, w).ok
  PROVE  Turned(s, ToggleZoom(s, o, w).state)
<1> DEFINE i == TabIndex(s, w, s.workspaces[w].active)
           t == s.workspaces[w].tabs[i]
           z == IF t.zoomed = NoOne THEN t.focused ELSE NoOne
           v == [t EXCEPT !.zoomed = z, !.rev = Later(t.rev)]
           b == WithTab(Touched(s, w), w, i, v)
<1>1. Authorized(s, o, w)
  BY DEF ToggleZoom, Refused
<1>2. w \in DOMAIN s.workspaces
  BY <1>1 DEF Authorized
<1>3. i \in DOMAIN s.workspaces[w].tabs
  BY <1>2, ActiveFound
<1>4. IsTabRecord(t) /\ Planted(t, Labels(t.layout))
  BY <1>2, <1>3, TabPlanted, SMTT(30)
<1>5. ToggleZoom(s, o, w).state = Reflowed(b, w).state
  BY DEF ToggleZoom, Refused
<1> HIDE DEF i, t, v, b, z
<1>6. Planted(v, Labels(t.layout)) /\ v.id = t.id
  <2>1. v.layout = t.layout /\ v.focused = t.focused /\ v.id = t.id
    BY <1>4 DEF v, IsTabRecord
  <2> QED BY <1>4, <2>1 DEF Planted
<1>7. Trading(s, w, i, v, {}, 0)
  BY <1>3, <1>6, TradingSame DEF t
<1>8. Retabbed(s, b, w, i, v, s.terminals, 0, 1)
  BY <1>2, ItselfBecomes, RetabbedSteps DEF b
<1>9. Stocks(s, s.terminals, {}, 0)
  BY StockSame
<1>10. Passes(s, b, w) /\ Raised(s, b, w)
  BY <1>2, <1>7, <1>8, <1>9, RetabbedPasses
<1> QED BY <1>5, <1>10 DEF Turned

\* The dividers of a tab move, or do not.
LEMMA RedividedTurned ==
  ASSUME NEW s, Leases(s), Numbers(s), Consistent(s), NEW w \in DOMAIN s.workspaces,
         NEW i \in DOMAIN s.workspaces[w].tabs, NEW layout, Holds(layout, Labels(s.workspaces[w].tabs[i].layout))
  PROVE  Turned(s, Redivided(s, w, i, layout).state)
<1> DEFINE t == s.workspaces[w].tabs[i]
           v == [t EXCEPT !.layout = layout, !.rev = Later(t.rev)]
           b == WithTab(Touched(s, w), w, i, v)
<1>1. IsTabRecord(t) /\ Planted(t, Labels(t.layout))
  BY TabPlanted
<1>2. Redivided(s, w, i, layout).state = IF layout = t.layout THEN s ELSE Shown(b, w, t.id).state
  BY DEF Redivided, Quietly
<1>3. Planted(v, Labels(t.layout)) /\ v.id = t.id
  <2>1. v.layout = layout /\ v.focused = t.focused /\ v.id = t.id
    BY <1>1 DEF IsTabRecord
  <2> HIDE DEF b, v, t
  <2>2. Holds(layout, Labels(t.layout))
    BY DEF t
  <2>3. Panes(layout) = Panes(t.layout)
    BY <2>2, LabelsName DEF Holds
  <2> QED BY <1>1, <2>1, <2>2, <2>3 DEF Planted
<1>4. Trading(s, w, i, v, {}, 0)
  <2> HIDE DEF b, v
  <2> QED BY <1>3, TradingSame
<1>5. Retabbed(s, b, w, i, v, s.terminals, 0, 1)
  <2> HIDE DEF v
  <2> QED BY ItselfBecomes, RetabbedSteps
<1>6. Stocks(s, s.terminals, {}, 0)
  BY StockSame
<1> HIDE DEF b, v
<1>7. Turned(s, Shown(b, w, t.id).state)
  BY <1>4, <1>5, <1>6, ShownTurned
<1> QED BY <1>2, <1>7, ItselfTurned

LEMMA ResizePaneTurned ==
  ASSUME NEW s, Leases(s), Numbers(s), Consistent(s), NEW o, NEW w, NEW pane, NEW axis, NEW grow,
         ResizePane(s, o, w, pane, axis, grow).ok
  PROVE  Turned(s, ResizePane(s, o, w, pane, axis, grow).state)
<1> DEFINE i == TabOfPane(s, w, pane)
           t == s.workspaces[w].tabs[i]
<1>1. Authorized(s, o, w) /\ i # 0
  BY DEF ResizePane, Refused
<1>2. w \in DOMAIN s.workspaces
  BY <1>1 DEF Authorized
<1>3. i \in DOMAIN s.workspaces[w].tabs /\ pane \in Panes(t.layout)
  BY <1>1, FoundPane
<1>4. Sound(t.layout)
  BY <1>2, <1>3, TabPlanted
<1>5. ResizePane(s, o, w, pane, axis, grow).state = Redivided(s, w, i, Resize(t.layout, pane, axis, grow)).state
  BY <1>1 DEF ResizePane
<1> HIDE DEF i
<1>6. Holds(Resize(t.layout, pane, axis, grow), Labels(t.layout))
  BY <1>3, <1>4, SoundResize
<1> QED BY <1>2, <1>3, <1>5, <1>6, RedividedTurned

LEMMA SetSplitRatioTurned ==
  ASSUME NEW s, Leases(s), Numbers(s), Consistent(s), NEW o, NEW w, NEW path, NEW ratio \in Int,
         SetSplitRatio(s, o, w, path, ratio).ok
  PROVE  Turned(s, SetSplitRatio(s, o, w, path, ratio).state)
<1> DEFINE i == TabIndex(s, w, s.workspaces[w].active)
           t == s.workspaces[w].tabs[i]
<1>1. Authorized(s, o, w)
  BY DEF SetSplitRatio, Refused
<1>2. w \in DOMAIN s.workspaces
  BY <1>1 DEF Authorized
<1>3. i \in DOMAIN s.workspaces[w].tabs
  BY <1>2, ActiveFound
<1>4. Sound(t.layout)
  BY <1>2, <1>3, TabPlanted
<1>5. SetSplitRatio(s, o, w, path, ratio).state = Redivided(s, w, i, SetRatioAt(t.layout, path, ratio)).state
  BY <1>1 DEF SetSplitRatio
<1> HIDE DEF i
<1>6. Holds(SetRatioAt(t.layout, path, ratio), Labels(t.layout))
  BY <1>4, SoundSetRatio
<1> QED BY <1>2, <1>3, <1>5, <1>6, RedividedTurned

LEMMA RearrangeTurned ==
  ASSUME NEW s, Leases(s), Numbers(s), Consistent(s), NEW o, NEW w, NEW pane, NEW op, IsOp(op),
         Rearrange(s, o, w, pane, op).ok
  PROVE  Turned(s, Rearrange(s, o, w, pane, op).state)
<1> DEFINE i == TabOfPane(s, w, pane)
           t == s.workspaces[w].tabs[i]
           layout == Rearranged(t.layout, pane, op)
           changed == layout # t.layout \/ (op.kind \in {"swap", "rotate"} /\ ~IsSingleLeaf(t.layout))
           v == Relaid(t, layout)
           b == WithTab(Touched(s, w), w, i, v)
<1>1. Authorized(s, o, w) /\ i # 0
  BY DEF Rearrange, Refused
<1>2. w \in DOMAIN s.workspaces
  BY <1>1 DEF Authorized
<1>3. i \in DOMAIN s.workspaces[w].tabs /\ pane \in Panes(t.layout)
  BY <1>1, FoundPane
<1>4. Sound(t.layout) /\ IsTabRecord(t)
  BY <1>2, <1>3, TabPlanted
<1>5. Rearrange(s, o, w, pane, op).state = IF ~changed THEN s ELSE Shown(b, w, t.id).state
  BY <1>1 DEF Rearrange, Quietly
<1> HIDE DEF i, changed, layout, v, b
<1>6. Holds(layout, Labels(t.layout))
  BY <1>3, <1>4, SoundRearranged DEF layout
<1>7. Planted(v, Labels(t.layout)) /\ v.id = t.id
  BY <1>4, <1>6, RelaidPlanted DEF v
<1>8. Trading(s, w, i, v, {}, 0)
  BY <1>3, <1>7, TradingSame
<1>9. Retabbed(s, b, w, i, v, s.terminals, 0, 1)
  BY <1>2, ItselfBecomes, RetabbedSteps DEF b
<1>10. Stocks(s, s.terminals, {}, 0)
  BY StockSame
<1>11. Turned(s, Shown(b, w, t.id).state)
  BY <1>2, <1>8, <1>9, <1>10, ShownTurned
<1> QED BY <1>5, <1>11, ItselfTurned
-------------------------------------------------------------------------------
(* Splitting and closing a pane. *)

LEMMA MintedBecomes ==
  ASSUME NEW s, Leases(s), Consistent(s), NEW w \in DOMAIN s.workspaces, NEW size
  PROVE  /\ Becomes(s, Minted(s, 1, size), w, s.workspaces[w], PutAll(s.terminals, s.nextTerm .. s.nextTerm + 1 - 1, size), 1)
         /\ Stocks(s, PutAll(s.terminals, s.nextTerm .. s.nextTerm + 1 - 1, size), {}, 1)
<1>1. Becomes(s, s, w, s.workspaces[w], s.terminals, 0)
  BY ItselfBecomes
<1>2. s.nextPane \in Nat /\ s.nextTerm \in Nat /\ 1 \in Nat /\ 0 \in Nat
  BY DEF Consistent
<1> DEFINE one == 1
           none == 0
<1>3. Becomes(s, Minted(s, one, size), w, s.workspaces[w], PutAll(s.terminals, s.nextTerm .. s.nextTerm + one - 1, size), none + one)
  <2>1. one \in Nat /\ none \in Nat /\ Becomes(s, s, w, s.workspaces[w], s.terminals, none)
    BY <1>1
  <2> HIDE DEF one, none
  <2> QED BY <1>2, <2>1, BecomesMinted
<1>4. Stocks(s, PutAll(s.terminals, s.nextTerm .. s.nextTerm + one - 1, size), {}, one)
  <2>1. one \in Nat
    OBVIOUS
  <2> HIDE DEF one
  <2> QED BY <2>1, StockMinted
<1>5. none + one = 1
  OBVIOUS
<1> QED BY <1>3, <1>4, <1>5

LEMMA IssueOne ==
  ASSUME NEW s, Consistent(s)
  PROVE  /\ Issue(s, 1) = {Fresh(s, 0)} /\ Issue(s, 0) = {} /\ IsLeaf(Fresh(s, 0))
         /\ Fresh(s, 0) \notin Growth(AllTabs(s))
<1>1. Issue(s, 1) = {Fresh(s, 0)} /\ Issue(s, 0) = {}
  BY DEF Issue
<1>2. IsLeaf(Fresh(s, 0))
  BY FreshLabels DEF Consistent
<1>3. Trades(AllTabs(s), {}, Issue(s, 1))
  BY IssueIsNew
<1> QED BY <1>1, <1>2, <1>3 DEF Trades

LEMMA SplitPaneTurned ==
  ASSUME NEW s, Leases(s), Numbers(s), Consistent(s), NEW o, NEW w, NEW pane, NEW dir \in {"right", "down"},
         NEW ifRev, SplitPane(s, o, w, pane, dir, ifRev).ok
  PROVE  Turned(s, SplitPane(s, o, w, pane, dir, ifRev).state)
<1> DEFINE i == TabOfPane(s, w, pane)
           t == s.workspaces[w].tabs[i]
           size == [cols |-> 1, rows |-> 1]
           minted == Minted(s, 1, size)
           layout == SplitLeaf(t.layout, pane, dir, Fresh(s, 0))
           v == Relaid(t, layout)
           b == Touched(WithTab(minted, w, i, v), w)
           f == PutAll(s.terminals, s.nextTerm .. s.nextTerm + 1 - 1, size)
<1>1. Authorized(s, o, w) /\ i # 0
  BY DEF SplitPane, Refused
<1>2. w \in DOMAIN s.workspaces
  BY <1>1 DEF Authorized
<1>3. i \in DOMAIN s.workspaces[w].tabs /\ pane \in Panes(t.layout)
  BY <1>1, FoundPane
<1>4. Sound(t.layout) /\ IsTabRecord(t)
  BY <1>2, <1>3, TabPlanted
<1>5. SplitPane(s, o, w, pane, dir, ifRev).state = Shown(b, w, t.id).state
  BY <1>1 DEF SplitPane, Refused
<1> HIDE DEF i, layout, v, b, f, minted, size
<1>6. Holds(layout, Labels(t.layout) \cup {Fresh(s, 0)})
  <2>1. Fresh(s, 0) \notin Labels(t.layout) /\ IsLeaf(Fresh(s, 0))
    BY <1>2, <1>3, IssueOne, OneTabOfAll
  <2> QED BY <1>3, <1>4, <2>1, SoundSplit DEF Holds, layout
<1>7. Planted(v, Labels(t.layout) \cup {Fresh(s, 0)}) /\ v.id = t.id
  BY <1>4, <1>6, RelaidPlanted DEF v
<1>8. Trading(s, w, i, v, {}, 1)
  <2>1. (Labels(t.layout) \ {}) \cup Issue(s, 1) = Labels(t.layout) \cup {Fresh(s, 0)}
    BY IssueOne
  <2> QED BY <1>3, <1>7, <2>1 DEF Trading
<1>9. Retabbed(s, b, w, i, v, f, 1, 1) /\ Stocks(s, f, {}, 1)
  BY <1>2, MintedBecomes, RetabbedSteps DEF b, f, minted
<1>10. Turned(s, Shown(b, w, t.id).state)
  BY <1>2, <1>8, <1>9, ShownTurned
<1> QED BY <1>5, <1>10

LEMMA ClosePaneTurned ==
  ASSUME NEW s, Leases(s), Numbers(s), Consistent(s), NEW o, NEW w, NEW pane, NEW ifRev,
         ClosePane(s, o, w, pane, ifRev).ok
  PROVE  Turned(s, ClosePane(s, o, w, pane, ifRev).state)
<1> DEFINE i == TabOfPane(s, w, pane)
           t == s.workspaces[w].tabs[i]
           gone == {TerminalOf(t.layout, pane)}
           G == {t.layout[PathOf(t.layout, pane)]}
           layout == RemoveLeaf(t.layout, pane)
           v == Relaid(t, layout)
           u == Touched(WithTab(s, w, i, v), w)
           b == WithoutTerminals(u, gone)
           f == [x \in DOMAIN s.terminals \ gone |-> s.terminals[x]]
<1>1. Authorized(s, o, w) /\ i # 0 /\ ~IsSingleLeaf(t.layout)
  BY DEF ClosePane, Refused
<1>2. w \in DOMAIN s.workspaces
  BY <1>1 DEF Authorized
<1>3. i \in DOMAIN s.workspaces[w].tabs /\ pane \in Panes(t.layout)
  BY <1>1, FoundPane
<1>4. Sound(t.layout) /\ IsTabRecord(t)
  BY <1>2, <1>3, TabPlanted
<1>5. ClosePane(s, o, w, pane, ifRev).state = Shown(b, w, t.id).state
  BY <1>1 DEF ClosePane, Refused
<1> HIDE DEF i, v, b, u, f
<1>6. Holds(layout, Labels(t.layout) \ G)
  BY <1>1, <1>3, <1>4, SoundRemove DEF Holds
<1> HIDE DEF layout
<1>7. Planted(v, Labels(t.layout) \ G) /\ v.id = t.id
  BY <1>4, <1>6, RelaidPlanted DEF v
<1>8. G \subseteq Labels(t.layout) /\ gone = Terms(G)
  BY <1>3, PathOfIs DEF Labels, Terms, TerminalOf
<1> HIDE DEF G, gone
<1>9. Trading(s, w, i, v, G, 0)
  <2>1. (Labels(t.layout) \ G) \cup Issue(s, 0) = Labels(t.layout) \ G
    BY IssueOne
  <2> QED BY <1>3, <1>7, <1>8, <2>1 DEF Trading
<1>10. Retabbed(s, u, w, i, v, s.terminals, 0, 1)
  BY <1>2, ItselfBecomes, RetabbedSteps DEF u
<1>11. Retabbed(s, b, w, i, v, f, 0, 1)
  BY <1>10, RetabbedLess DEF b, f
<1>12. Stocks(s, f, G, 0)
  BY <1>8, StockLess DEF f
<1>13. Turned(s, Shown(b, w, t.id).state)
  BY <1>2, <1>9, <1>11, <1>12, ShownTurned
<1> QED BY <1>5, <1>13
-----------------------------------------------------------------------------
(* The tabs of a workspace listed anew. *)

Relisted(s, u, w, tabs, active, f, n) ==
  \E W : /\ Becomes(s, u, w, W, f, n)
         /\ W.tabs = tabs /\ W.active = active /\ W.viewport = s.workspaces[w].viewport
         /\ W.controller = s.workspaces[w].controller /\ W.rev = s.workspaces[w].rev + 1

LEMMA RelistedSteps ==
  ASSUME NEW s, NEW w \in DOMAIN s.workspaces, NEW m, NEW f, NEW n, Becomes(s, m, w, s.workspaces[w], f, n),
         NEW tabs, NEW active
  PROVE  Relisted(s, WithTabs(m, w, tabs, active), w, tabs, active, f, n)
<1> DEFINE W == s.workspaces[w]
           X == [W EXCEPT !.tabs = tabs, !.active = active, !.rev = Later(W.rev)]
<1>1. Becomes(s, WithTabs(m, w, tabs, active), w, X, f, n)
  BY BecomesTabs, Zenon
<1>2. DOMAIN W = Fields
  BY DEF Becomes
<1>3. /\ X.tabs = tabs /\ X.active = active /\ X.viewport = W.viewport
      /\ X.controller = W.controller /\ X.rev = W.rev + 1
  BY <1>2 DEF Fields, Later
<1> HIDE DEF X
<1> QED BY <1>1, <1>3 DEF Relisted

\* All tabs when those of w are listed anew.
Listed(s, w, tabs) == (AllTabs(s) \ TabsOf(s, w)) \cup Elements(tabs)

LEMMA RelistedPasses ==
  ASSUME NEW s, Consistent(s), Numbers(s), NEW w \in DOMAIN s.workspaces, NEW u, NEW tabs, NEW active, NEW f, NEW n \in Nat,
         Relisted(s, u, w, tabs, active, f, n), NEW G, G \subseteq Growth(AllTabs(s)), Stocks(s, f, G, n),
         \E k \in DOMAIN tabs : tabs[k].id = active,
         Forest(Listed(s, w, tabs)), Growth(Listed(s, w, tabs)) = (Growth(AllTabs(s)) \ G) \cup Issue(s, n)
  PROVE  Passes(s, u, w) /\ Raised(s, u, w)
<1>1. PICK W : /\ Becomes(s, u, w, W, f, n)
               /\ W.tabs = tabs /\ W.active = active /\ W.viewport = s.workspaces[w].viewport
               /\ W.controller = s.workspaces[w].controller /\ W.rev = s.workspaces[w].rev + 1
  BY DEF Relisted
<1>2. s.workspaces[w].rev \in Nat
  BY DEF Consistent
<1>3. Carries(W)
  BY <1>1, <1>2 DEF Carries
<1>4. AllTabs(u) = Listed(s, w, tabs)
  BY <1>1, TabsAfter DEF Listed, Elements
<1>5. Passes(s, u, w)
  BY <1>1, <1>3, <1>4, RegrownPasses
<1>6. u.workspaces[w] = W /\ DOMAIN u.workspaces = DOMAIN s.workspaces
  BY <1>1 DEF Becomes
<1>7. Raised(s, u, w)
  BY <1>1, <1>2, <1>6 DEF Raised
<1> QED BY <1>5, <1>7

LEMMA RelistedTurned ==
  ASSUME NEW s, NEW u, NEW w, Passes(s, u, w), Raised(s, u, w)
  PROVE  Turned(s, Reflowed(u, w).state)
BY DEF Turned

LEMMA TabsAreElements ==
  ASSUME NEW s, NEW w \in DOMAIN s.workspaces, NEW t \in TabsOf(s, w)
  PROVE  /\ TabsOf(s, w) = Elements(s.workspaces[w].tabs) /\ TabsOf(s, w) \subseteq AllTabs(s)
         /\ Labels(t.layout) \subseteq Growth(AllTabs(s)) /\ Growth({t}) = Labels(t.layout)
<1>1. TabsOf(s, w) \subseteq AllTabs(s)
  BY DEF AllTabs
<1> QED BY <1>1 DEF TabsOf, Elements, Growth

LEMMA SelectTabTurned ==
  ASSUME NEW s, Leases(s), Numbers(s), Consistent(s), NEW o, NEW w, NEW id, SelectTab(s, o, w, id).ok
  PROVE  Turned(s, SelectTab(s, o, w, id).state)
<1> DEFINE tabs == s.workspaces[w].tabs
           u == WithTabs(s, w, tabs, id)
<1>1. Authorized(s, o, w) /\ TabIndex(s, w, id) # 0
  BY DEF SelectTab, Refused
<1>2. w \in DOMAIN s.workspaces
  BY <1>1 DEF Authorized
<1>3. \E k \in DOMAIN tabs : tabs[k].id = id
  BY <1>1, FoundTabs
<1>4. SelectTab(s, o, w, id).state = IF s.workspaces[w].active = id THEN s ELSE Reflowed(u, w).state
  BY <1>1 DEF SelectTab, Quietly
<1> HIDE DEF u
<1>5. Relisted(s, u, w, tabs, id, s.terminals, 0)
  BY <1>2, ItselfBecomes, RelistedSteps DEF u
<1>6. Listed(s, w, tabs) = AllTabs(s)
  <2>1. TabsOf(s, w) = Elements(tabs) /\ TabsOf(s, w) \subseteq AllTabs(s)
    BY <1>2 DEF TabsOf, Elements, AllTabs
  <2> QED BY <2>1 DEF Listed
<1>7. Forest(Listed(s, w, tabs)) /\ Growth(Listed(s, w, tabs)) = (Growth(AllTabs(s)) \ {}) \cup Issue(s, 0)
  BY <1>6, IssueOne DEF Consistent
<1>8. Stocks(s, s.terminals, {}, 0)
  BY StockSame
<1>9. Passes(s, u, w) /\ Raised(s, u, w)
  <2> HIDE DEF tabs
  <2> QED BY <1>2, <1>3, <1>5, <1>7, <1>8, RelistedPasses
<1> QED BY <1>4, <1>9, RelistedTurned, ItselfTurned
-------------------------------------------------------------------------------
(* Opening and closing a tab. *)

LEMMA NewTabForest ==
  ASSUME NEW s, Consistent(s), NEW id, NEW tab, tab = NewTabRecord(id, Leaf(Fresh(s, 0)))
  PROVE  /\ Forest(AllTabs(s) \cup {tab})
         /\ Growth(AllTabs(s) \cup {tab}) = (Growth(AllTabs(s)) \ {}) \cup Issue(s, 1)
<1> DEFINE T == AllTabs(s)
           S == {Fresh(s, 0)}
<1>1. Issue(s, 1) = S /\ IsLeaf(Fresh(s, 0)) /\ Fresh(s, 0) \notin Growth(T)
  BY IssueOne
<1>2. Holds(Leaf(Fresh(s, 0)), S)
  BY <1>1, SoundLeaf DEF Holds
<1>3. Planted(tab, S)
  BY <1>2, NewTabPlanted
<1>4. Distinct(Growth(T) \cup S)
  <2> DEFINE one == 1
  <2>1. one \in Nat /\ Issue(s, one) = S /\ {} \subseteq Growth(T)
    BY <1>1
  <2> HIDE DEF one
  <2>2. Trades(T, {}, Issue(s, one))
    BY <2>1, IssueIsNew
  <2> QED BY <2>1, <2>2 DEF Trades
<1>5. Forest(T) /\ S \cap Growth(T) = {}
  BY <1>1 DEF Consistent
<1> HIDE DEF T, S
<1>6. Forest(T \cup {tab}) /\ Growth(T \cup {tab}) = Growth(T) \cup S
  BY <1>3, <1>4, <1>5, ForestMore
<1> QED BY <1>1, <1>6 DEF T

LEMMA NewTabTurned ==
  ASSUME NEW s, Leases(s), Numbers(s), Consistent(s), NEW o, NEW w, NEW activate, NewTab(s, o, w, activate).ok
  PROVE  Turned(s, NewTab(s, o, w, activate).state)
<1> DEFINE id == <<w, s.nextTab>>
           size == s.workspaces[w].viewport
           m == Numbered(Minted(s, 1, size))
           tab == NewTabRecord(id, Leaf(Fresh(s, 0)))
           old == s.workspaces[w].tabs
           tabs == Append(old, tab)
           active == IF activate THEN id ELSE s.workspaces[w].active
           u == WithTabs(m, w, tabs, active)
           f == PutAll(s.terminals, s.nextTerm .. s.nextTerm + 1 - 1, size)
<1>1. Authorized(s, o, w)
  BY DEF NewTab, Refused
<1>2. w \in DOMAIN s.workspaces /\ s.nextTab \in Nat
  BY <1>1 DEF Authorized, Numbers
<1>3. NewTab(s, o, w, activate).state = Reflowed(u, w).state
  BY <1>1 DEF NewTab, Refused
<1>4. /\ IsTab(w, s.nextTab + 1, tab) /\ tab.id = <<w, s.nextTab>>
      /\ \A k \in DOMAIN old : old[k].id # tab.id
  BY <1>2, NewNumber
<1>5. Becomes(s, m, w, s.workspaces[w], f, 1) /\ Stocks(s, f, {}, 1)
  BY <1>2, MintedBecomes, BecomesNumbered
<1>6. Forest(AllTabs(s) \cup {tab}) /\ Growth(AllTabs(s) \cup {tab}) = (Growth(AllTabs(s)) \ {}) \cup Issue(s, 1)
  BY NewTabForest
<1> HIDE DEF f, m, u, tab, id
<1>7. Elements(tabs) = Elements(old) \cup {tab}
  <2> DEFINE n == s.nextTab + 1
  <2>1. IsTabs(w, s.nextTab, old)
    BY <1>2 DEF Numbers
  <2>2. n \in Nat /\ IsTabs(w, n, old) /\ IsTab(w, n, tab)
    BY <1>2, <1>4, <2>1, MoreNumbers
  <2> HIDE DEF n, old, tabs
  <2>3. \A k \in DOMAIN old : old[k].id # tab.id
    BY <1>4
  <2>4. Elements(Append(old, tab)) = Elements(old) \cup {tab}
    BY <2>2, <2>3, AppendedElements
  <2> QED BY <2>4 DEF tabs
<1>8. \E k \in DOMAIN tabs : tabs[k].id = active
  <2>1. CASE activate
    <3>1. tab \in Elements(tabs) /\ tab.id = active
      BY <1>4, <1>7, <2>1 DEF id
    <3> HIDE DEF tabs
    <3> QED BY <3>1 DEF Elements
  <2>2. CASE ~activate
    <3>1. PICK t \in TabsOf(s, w) : t.id = s.workspaces[w].active
      BY <1>2 DEF Consistent, Shows
    <3>2. t \in Elements(old)
      BY <3>1 DEF TabsOf, Elements
    <3>3. t \in Elements(tabs) /\ t.id = active
      BY <1>7, <2>2, <3>1, <3>2
    <3> HIDE DEF tabs
    <3> QED BY <3>3 DEF Elements
  <2> QED BY <2>1, <2>2
<1>9. Listed(s, w, tabs) = AllTabs(s) \cup {tab}
  <2>1. TabsOf(s, w) = Elements(old) /\ TabsOf(s, w) \subseteq AllTabs(s)
    BY <1>2 DEF TabsOf, Elements, AllTabs
  <2> HIDE DEF old, tabs
  <2> QED BY <1>7, <2>1 DEF Listed
<1> HIDE DEF tabs, active, old
<1>10. Relisted(s, u, w, tabs, active, f, 1)
  BY <1>2, <1>5, RelistedSteps DEF u
<1>11. Passes(s, u, w) /\ Raised(s, u, w)
  <2>1. Forest(Listed(s, w, tabs)) /\ Growth(Listed(s, w, tabs)) = (Growth(AllTabs(s)) \ {}) \cup Issue(s, 1)
    BY <1>6, <1>9
  <2> QED BY <1>2, <1>5, <1>8, <1>10, <2>1, RelistedPasses
<1> QED BY <1>3, <1>11, RelistedTurned

LEMMA CloseTabTurned ==
  ASSUME NEW s, Leases(s), Numbers(s), Consistent(s), NEW o, NEW w, NEW id, CloseTab(s, o, w, id).ok
  PROVE  Turned(s, CloseTab(s, o, w, id).state)
<1> DEFINE i == TabIndex(s, w, id)
           tabs == s.workspaces[w].tabs
           t == tabs[i]
           left == RemoveAt(tabs, i)
           next == left[IF i > Len(left) THEN Len(left) ELSE i].id
           active == IF s.workspaces[w].active = id THEN next ELSE s.workspaces[w].active
           gone == Terminals(t.layout)
           G == Labels(t.layout)
           m == WithoutTerminals(s, gone)
           u == WithTabs(m, w, left, active)
           f == [x \in DOMAIN s.terminals \ gone |-> s.terminals[x]]
<1>1. Authorized(s, o, w) /\ i # 0 /\ Len(tabs) # 1
  BY DEF CloseTab, Refused
<1>2. w \in DOMAIN s.workspaces /\ s.nextTab \in Nat
  BY <1>1 DEF Authorized, Numbers
<1>3. i \in DOMAIN tabs /\ t.id = id
  BY <1>1, FoundTabs
<1>4. CloseTab(s, o, w, id).state = Reflowed(u, w).state
  BY <1>1 DEF CloseTab, Refused
<1>5. IsTabs(w, s.nextTab, tabs)
  BY <1>2 DEF Numbers
<1> HIDE DEF i, f, m, u
<1>6. /\ IsTabs(w, s.nextTab, left) /\ Len(left) = Len(tabs) - 1 /\ Len(tabs) \in Nat
      /\ Elements(left) = Elements(tabs) \ {t}
  <2> DEFINE n == s.nextTab
  <2>1. n \in Nat /\ IsTabs(w, n, tabs)
    BY <1>2, <1>5
  <2> HIDE DEF n, tabs, left
  <2>2. /\ IsTabs(w, n, RemoveAt(tabs, i)) /\ Len(RemoveAt(tabs, i)) = Len(tabs) - 1 /\ Len(tabs) \in Nat
        /\ Elements(RemoveAt(tabs, i)) = Elements(tabs) \ {tabs[i]}
    BY <1>3, <2>1, RemovedTab, Zenon
  <2> QED BY <2>2 DEF n, left
<1>7. DOMAIN tabs = 1 .. Len(tabs) /\ DOMAIN left = 1 .. Len(left)
  <2>1. tabs \in Seq({tabs[k] : k \in DOMAIN tabs}) /\ left \in Seq({left[k] : k \in DOMAIN left})
    BY <1>5, <1>6 DEF IsTabs
  <2> HIDE DEF left, tabs
  <2> QED BY <2>1
<1> HIDE DEF left
<1>8. \E k \in DOMAIN left : left[k].id = active
  <2>1. CASE s.workspaces[w].active = id
    <3> DEFINE k == IF i > Len(left) THEN Len(left) ELSE i
    <3>1. k \in DOMAIN left
      <4> HIDE DEF tabs
      <4> QED BY <1>1, <1>3, <1>6, <1>7
    <3>2. left[k].id = active
      BY <2>1
    <3> QED BY <3>1, <3>2
  <2>2. CASE s.workspaces[w].active # id
    <3>1. PICK x \in TabsOf(s, w) : x.id = s.workspaces[w].active
      BY <1>2 DEF Consistent, Shows
    <3>2. x \in Elements(tabs) /\ x # t /\ active = x.id
      BY <1>3, <2>2, <3>1 DEF TabsOf, Elements
    <3>3. x \in Elements(left)
      BY <1>6, <3>2
    <3> QED BY <3>2, <3>3 DEF Elements
  <2> QED BY <2>1, <2>2
<1>9. t \in TabsOf(s, w) /\ t \in AllTabs(s) /\ G \subseteq Growth(AllTabs(s))
  BY <1>2, <1>3, OneTabOfAll
<1>10. TabsOf(s, w) = Elements(tabs) /\ TabsOf(s, w) \subseteq AllTabs(s)
  BY <1>2 DEF TabsOf, Elements, AllTabs
<1>11. gone = Terms(G)
  BY LabelsName
<1> HIDE DEF tabs, active, gone, t
<1>12. Listed(s, w, left) = AllTabs(s) \ {t}
  BY <1>6, <1>9, <1>10 DEF Listed
<1>13. Forest(AllTabs(s) \ {t}) /\ Growth(AllTabs(s) \ {t}) = (Growth(AllTabs(s)) \ G) \cup Issue(s, 0)
  <2>1. Growth({t}) = G
    BY DEF Growth
  <2>2. Forest(AllTabs(s)) /\ {t} \subseteq AllTabs(s)
    BY <1>9 DEF Consistent
  <2>3. Forest(AllTabs(s) \ {t}) /\ Growth(AllTabs(s) \ {t}) = Growth(AllTabs(s)) \ Growth({t})
    BY <2>2, ForestLess
  <2> QED BY <2>1, <2>3, IssueOne
<1> HIDE DEF G
<1>14. Becomes(s, m, w, s.workspaces[w], f, 0)
  BY <1>2, ItselfBecomes, BecomesLess DEF m, f
<1>15. Relisted(s, u, w, left, active, f, 0)
  BY <1>2, <1>14, RelistedSteps DEF u
<1>16. Stocks(s, f, G, 0)
  BY <1>11, StockLess DEF f
<1>17. Passes(s, u, w) /\ Raised(s, u, w)
  <2>1. Forest(Listed(s, w, left)) /\ Growth(Listed(s, w, left)) = (Growth(AllTabs(s)) \ G) \cup Issue(s, 0)
    BY <1>12, <1>13
  <2> QED BY <1>2, <1>8, <1>9, <1>15, <1>16, <2>1, RelistedPasses
<1> QED BY <1>4, <1>17, RelistedTurned
-------------------------------------------------------------------------------
(* Breaking a pane out into a tab, and moving a tab. *)

\* The elements of a sequence with one replaced.
LEMMA EditedElements ==
  ASSUME NEW w, NEW n \in Nat, NEW tabs, IsTabs(w, n, tabs), NEW i \in DOMAIN tabs, NEW v
  PROVE  Elements([tabs EXCEPT ![i] = v]) = (Elements(tabs) \ {tabs[i]}) \cup {v}
<1> DEFINE new == [tabs EXCEPT ![i] = v]
<1>1. DOMAIN new = DOMAIN tabs /\ new[i] = v /\ \A k \in DOMAIN tabs \ {i} : new[k] = tabs[k]
  OBVIOUS
<1>2. \A k \in DOMAIN tabs : tabs[k] = tabs[i] => k = i
  BY DEF IsTabs
<1> HIDE DEF new
<1>3. ASSUME NEW k \in DOMAIN new PROVE new[k] \in (Elements(tabs) \ {tabs[i]}) \cup {v}
  <2>1. CASE k = i
    BY <1>1, <2>1
  <2>2. CASE k # i
    BY <1>1, <1>2, <2>2 DEF Elements
  <2> QED BY <2>1, <2>2
<1>4. ASSUME NEW k \in DOMAIN tabs, tabs[k] # tabs[i] PROVE tabs[k] \in Elements(new)
  <2>1. k # i
    BY <1>4
  <2>2. k \in DOMAIN new /\ new[k] = tabs[k]
    BY <1>1, <2>1
  <2> QED BY <2>2 DEF Elements
<1>5. v \in Elements(new)
  BY <1>1 DEF Elements
<1>6. Elements(new) \subseteq (Elements(tabs) \ {tabs[i]}) \cup {v}
  BY <1>3 DEF Elements
<1>7. (Elements(tabs) \ {tabs[i]}) \cup {v} \subseteq Elements(new)
  BY <1>4, <1>5 DEF Elements
<1> QED BY <1>6, <1>7 DEF new

\* A tab gives one label away to a tab of its own.
LEMMA ForestBreak ==
  ASSUME NEW T, Forest(T), NEW t \in T, NEW l \in Labels(t.layout),
         NEW rest, Planted(rest, Labels(t.layout) \ {l}), NEW alone, Planted(alone, {l})
  PROVE  Grows(((T \ {t}) \cup {rest}) \cup {alone}, Growth(T))
<1> DEFINE R == (T \ {t}) \cup {rest}
           L == Labels(t.layout)
           G == {l}
           none == {}
<1>1. Labels(t.layout) \subseteq Growth(T) /\ Distinct(Growth(T))
  BY DEF Growth, Forest
<1>2. Trades(T, G, none)
  BY <1>1 DEF Trades
<1>3. (L \ G) \cup none = L \ G
  OBVIOUS
<1>4. Planted(rest, (L \ G) \cup none) /\ G \subseteq L
  BY <1>3
<1> HIDE DEF G, none
<1>5. Forest(R) /\ Growth(R) = (Growth(T) \ G) \cup none
  <2>1. G \subseteq Labels(t.layout) /\ Planted(rest, (Labels(t.layout) \ G) \cup none)
    BY <1>4
  <2> HIDE DEF L, R
  <2>2. Grows((T \ {t}) \cup {rest}, (Growth(T) \ G) \cup none)
    BY <1>2, <2>1, ForestEdit
  <2> QED BY <2>2 DEF Grows, R
<1>6. Growth(R) = Growth(T) \ {l}
  BY <1>5 DEF G, none
<1> HIDE DEF R
<1>7. {l} \cap Growth(R) = {} /\ Growth(R) \cup {l} = Growth(T)
  BY <1>1, <1>6
<1>8. Forest(R \cup {alone}) /\ Growth(R \cup {alone}) = Growth(R) \cup {l}
  <2> DEFINE new == {l}
  <2>1. Forest(R) /\ Planted(alone, new) /\ new \cap Growth(R) = {} /\ Distinct(Growth(R) \cup new)
    BY <1>1, <1>5, <1>7
  <2> HIDE DEF new
  <2>2. Forest(R \cup {alone}) /\ Growth(R \cup {alone}) = Growth(R) \cup new
    BY <2>1, ForestMore
  <2> QED BY <2>2 DEF new
<1> QED BY <1>7, <1>8 DEF R, Grows

LEMMA BreakPaneTurned ==
  ASSUME NEW s, Leases(s), Numbers(s), Consistent(s), NEW o, NEW w, NEW pane, BreakPane(s, o, w, pane).ok
  PROVE  Turned(s, BreakPane(s, o, w, pane).state)
<1> DEFINE i == TabOfPane(s, w, pane)
           old == s.workspaces[w].tabs
           t == old[i]
           id == <<w, s.nextTab>>
           l == t.layout[PathOf(t.layout, pane)]
           alone == NewTabRecord(id, Leaf(l))
           layout == RemoveLeaf(t.layout, pane)
           rest == Relaid(t, layout)
           source == [old EXCEPT ![i] = rest]
           tabs == InsertAt(source, i + 1, alone)
           m == Numbered(s)
           u == WithTabs(m, w, tabs, id)
<1>1. Authorized(s, o, w) /\ i # 0 /\ ~IsSingleLeaf(t.layout)
  BY DEF BreakPane, Refused
<1>2. w \in DOMAIN s.workspaces /\ s.nextTab \in Nat
  BY <1>1 DEF Authorized, Numbers
<1>3. i \in DOMAIN old /\ pane \in Panes(t.layout)
  BY <1>1, FoundPane
<1>4. Sound(t.layout) /\ IsTabRecord(t)
  BY <1>2, <1>3, TabPlanted
<1>5. BreakPane(s, o, w, pane).state = Reflowed(u, w).state
  BY <1>1, Zenon DEF BreakPane, Refused
<1>6. /\ IsTab(w, s.nextTab + 1, alone) /\ alone.id = id
      /\ \A k \in DOMAIN old : old[k].id # alone.id
  BY <1>2, NewNumber, Zenon
<1>7. t \in TabsOf(s, w) /\ t \in AllTabs(s) /\ Labels(t.layout) \subseteq Growth(AllTabs(s))
  BY <1>2, <1>3, OneTabOfAll, Zenon
<1>8. IsTabs(w, s.nextTab, old)
  BY <1>2 DEF Numbers
<1>9. TabsOf(s, w) = Elements(old) /\ TabsOf(s, w) \subseteq AllTabs(s)
  BY <1>2 DEF TabsOf, Elements, AllTabs
<1> HIDE DEF i, u, m
<1>10. Holds(layout, Labels(t.layout) \ {l}) /\ l \in Labels(t.layout) /\ IsLeaf(l)
  <2>1. Holds(layout, Labels(t.layout) \ {l})
    BY <1>1, <1>3, <1>4, SoundRemove DEF Holds
  <2>2. PathOf(t.layout, pane) \in LeafPaths(t.layout)
    BY <1>3, PathOfIs
  <2> QED BY <2>1, <2>2, Zenon DEF Labels, LeafPaths
<1>11. Planted(alone, {l})
  <2>1. Holds(Leaf(l), {l})
    BY <1>10, SoundLeaf, Zenon DEF Holds
  <2> HIDE DEF l
  <2> QED BY <2>1, NewTabPlanted, Zenon
<1> HIDE DEF layout, l, alone, id
<1>12. Planted(rest, Labels(t.layout) \ {l}) /\ rest.id = t.id /\ DOMAIN rest = DOMAIN t /\ rest.rev = Later(t.rev)
  <2>1. Planted(rest, Labels(t.layout) \ {l}) /\ rest.id = t.id
    <3> HIDE DEF t, rest
    <3> QED BY <1>4, <1>10, RelaidPlanted DEF rest
  <2>2. DOMAIN rest = DOMAIN t /\ rest.rev = Later(t.rev)
    <3> HIDE DEF t
    <3> QED BY <1>4, TabsRevised DEF IsTabRecord
  <2> QED BY <2>1, <2>2
<1> HIDE DEF rest
<1>13. Grows(((AllTabs(s) \ {t}) \cup {rest}) \cup {alone}, Growth(AllTabs(s)))
  <2>1. Forest(AllTabs(s))
    BY DEF Consistent
  <2> HIDE DEF t
  <2>2. t \in AllTabs(s) /\ l \in Labels(t.layout) /\ Planted(rest, Labels(t.layout) \ {l}) /\ Planted(alone, {l})
    BY <1>7, <1>10, <1>11, <1>12
  <2> QED BY <2>1, <2>2, ForestBreak
<1>14. IsTabs(w, s.nextTab, source) /\ Elements(source) = (Elements(old) \ {t}) \cup {rest}
  <2>1. Elements(source) = (Elements(old) \ {t}) \cup {rest}
    BY <1>2, <1>3, <1>8, EditedElements
  <2>2. DOMAIN rest = {"id", "layout", "focused", "zoomed", "rev"} /\ rest.id = old[i].id /\ rest.rev = Later(old[i].rev)
    BY <1>4, <1>12 DEF IsTabRecord
  <2>3. IsTabs(w, s.nextTab, source)
    BY <1>2, <1>3, <1>8, <2>2, EditedTab
  <2> QED BY <2>1, <2>3
<1>15. DOMAIN source = DOMAIN old /\ \A k \in DOMAIN source : source[k].id = old[k].id
  BY <1>12
<1> HIDE DEF source
<1>16. Elements(tabs) = Elements(source) \cup {alone}
  <2> DEFINE n == s.nextTab + 1
             k == i + 1
  <2>1. \A x \in DOMAIN source : source[x].id # alone.id
    BY <1>6, <1>15
  <2>2. DOMAIN source = 1 .. Len(source) /\ Len(source) \in Nat
    <3>1. source \in Seq({source[x] : x \in DOMAIN source})
      BY <1>14 DEF IsTabs
    <3> QED BY <3>1
  <2>3. IsTabs(w, n, source) /\ n \in Nat /\ IsTab(w, n, alone)
    BY <1>2, <1>6, <1>14, MoreNumbers
  <2>4. k \in 1 .. Len(source) + 1
    BY <1>3, <1>15, <2>2
  <2> HIDE DEF n, k, tabs
  <2>5. /\ IsTabs(w, n, InsertAt(source, k, alone))
        /\ With(InsertAt(source, k, alone), source, alone)
        /\ Joined(InsertAt(source, k, alone), source, alone)
    BY <2>1, <2>3, <2>4, InsertedTab, Zenon
  <2> QED BY <2>5 DEF k, tabs, Joined
<1> HIDE DEF t, old, tabs
<1>17. Listed(s, w, tabs) = ((AllTabs(s) \ {t}) \cup {rest}) \cup {alone}
  BY <1>7, <1>9, <1>14, <1>16 DEF Listed
<1>18. \E k \in DOMAIN tabs : tabs[k].id = id
  <2>1. alone \in Elements(tabs)
    BY <1>16
  <2> QED BY <1>6, <2>1 DEF Elements
<1>19. Becomes(s, m, w, s.workspaces[w], s.terminals, 0)
  BY <1>2, ItselfBecomes, BecomesNumbered DEF m
<1>20. Relisted(s, u, w, tabs, id, s.terminals, 0)
  BY <1>2, <1>19, RelistedSteps DEF u
<1>21. Stocks(s, s.terminals, {}, 0)
  BY StockSame
<1>22. Passes(s, u, w) /\ Raised(s, u, w)
  <2>1. Forest(Listed(s, w, tabs)) /\ Growth(Listed(s, w, tabs)) = (Growth(AllTabs(s)) \ {}) \cup Issue(s, 0)
    BY <1>13, <1>17, IssueOne DEF Grows
  <2> QED BY <1>2, <1>18, <1>20, <1>21, <2>1, RelistedPasses
<1> QED BY <1>5, <1>22, RelistedTurned
-------------------------------------------------------------------------------
(* Moving a tab: the workspace shows what it showed. *)

LEMMA SameTabsShow ==
  ASSUME NEW s, Numbers(s), Consistent(s), NEW u, Numbers(u), Consistent(u), NEW w \in DOMAIN s.workspaces,
         w \in DOMAIN u.workspaces, NEW active, u.workspaces[w].active = active, s.workspaces[w].active = active,
         u.workspaces[w].viewport = s.workspaces[w].viewport, TabsOf(u, w) = TabsOf(s, w)
  PROVE  Visible(u, w) = Visible(s, w)
<1> DEFINE j == TabIndex(u, w, active)
           k == TabIndex(s, w, active)
           new == u.workspaces[w].tabs
           old == s.workspaces[w].tabs
<1>1. j \in DOMAIN new /\ new[j].id = active
  BY ActiveFound
<1>2. k \in DOMAIN old /\ old[k].id = active
  BY ActiveFound
<1>3. IsTabs(w, s.nextTab, old)
  BY DEF Numbers
<1>4. ActiveTab(u, w) = new[j] /\ ActiveTab(s, w) = old[k]
  BY DEF ActiveTab
<1> HIDE DEF j, k
<1>5. PICK m \in DOMAIN old : new[j] = old[m]
  BY <1>1 DEF TabsOf
<1>6. m = k
  BY <1>1, <1>2, <1>3, <1>5 DEF IsTabs
<1>7. ActiveTab(u, w) = ActiveTab(s, w)
  BY <1>4, <1>5, <1>6
<1> QED BY <1>7 DEF Visible

LEMMA MovedTabs ==
  ASSUME NEW w, NEW n \in Nat, NEW tabs, IsTabs(w, n, tabs), NEW i \in DOMAIN tabs, NEW to \in Nat \ {0},
         NEW j, j = IF to > Len(tabs) THEN Len(tabs) ELSE to
  PROVE  Elements(InsertAt(RemoveAt(tabs, i), j, tabs[i])) = Elements(tabs)
<1> DEFINE left == RemoveAt(tabs, i)
           t == tabs[i]
<1>1. /\ IsTabs(w, n, left) /\ Len(left) = Len(tabs) - 1 /\ Len(tabs) \in Nat
      /\ Without(left, tabs, i) /\ Elements(left) = Elements(tabs) \ {t}
  BY RemovedTab, ZenonT(40)
<1>2. IsTab(w, n, t) /\ \A m \in DOMAIN tabs \ {i} : tabs[m].id # t.id
  BY DEF IsTabs
<1>3. Len(tabs) # 0
  <2>1. tabs \in Seq({tabs[k] : k \in DOMAIN tabs})
    BY DEF IsTabs
  <2> QED BY <2>1
<1>4. t \in Elements(tabs)
  BY DEF Elements
<1> HIDE DEF left, t
<1>5. j \in 1 .. Len(left) + 1
  BY <1>1, <1>3
<1>6. \A k \in DOMAIN left : left[k].id # t.id
  BY <1>1, <1>2 DEF Without
<1>7. /\ IsTabs(w, n, InsertAt(left, j, t))
      /\ With(InsertAt(left, j, t), left, t)
      /\ Joined(InsertAt(left, j, t), left, t)
  BY <1>1, <1>2, <1>5, <1>6, InsertedTab
<1>8. Elements(InsertAt(left, j, t)) = Elements(tabs)
  BY <1>1, <1>4, <1>7 DEF Joined
<1> QED BY <1>8 DEF left, t

LEMMA MoveTabTurned ==
  ASSUME NEW s, Leases(s), Numbers(s), Consistent(s), NEW o, NEW w, NEW id, NEW to \in Nat \ {0}, MoveTab(s, o, w, id, to).ok
  PROVE  Turned(s, MoveTab(s, o, w, id, to).state)
<1> DEFINE i == TabIndex(s, w, id)
           old == s.workspaces[w].tabs
           j == IF to > Len(old) THEN Len(old) ELSE to
           tabs == InsertAt(RemoveAt(old, i), j, old[i])
           active == s.workspaces[w].active
           u == WithTabs(s, w, tabs, active)
<1>1. Authorized(s, o, w) /\ i # 0
  BY DEF MoveTab, Refused
<1>2. w \in DOMAIN s.workspaces /\ s.nextTab \in Nat
  BY <1>1 DEF Authorized, Numbers
<1>3. i \in DOMAIN old
  BY <1>1, FoundTabs
<1>4. MoveTab(s, o, w, id, to).state = IF i = j THEN s ELSE u
  BY <1>1 DEF MoveTab, Refused, Quietly
<1>5. IsTabs(w, s.nextTab, old)
  BY <1>2 DEF Numbers
<1>6. Elements(tabs) = Elements(old)
  <2> HIDE DEF i, old, j
  <2>1. j = IF to > Len(old) THEN Len(old) ELSE to
    BY DEF j
  <2> QED BY <1>2, <1>3, <1>5, <2>1, MovedTabs
<1>7. Revised(s, MoveTab(s, o, w, id, to).state)
  BY MoveTabRevised
<1> HIDE DEF i, j, tabs, u
<1>8. TabsOf(s, w) = Elements(old) /\ TabsOf(s, w) \subseteq AllTabs(s)
  BY <1>2 DEF TabsOf, Elements, AllTabs
<1>9. Listed(s, w, tabs) = AllTabs(s)
  <2> HIDE DEF old
  <2> QED BY <1>6, <1>8 DEF Listed
<1>10. \E k \in DOMAIN tabs : tabs[k].id = active
  <2>1. PICK t \in TabsOf(s, w) : t.id = active
    BY <1>2 DEF Consistent, Shows
  <2>2. t \in Elements(tabs)
    BY <1>6, <1>8, <2>1
  <2> QED BY <2>1, <2>2 DEF Elements
<1>11. Relisted(s, u, w, tabs, active, s.terminals, 0)
  BY <1>2, ItselfBecomes, RelistedSteps DEF u
<1>12. Forest(Listed(s, w, tabs)) /\ Growth(Listed(s, w, tabs)) = (Growth(AllTabs(s)) \ {}) \cup Issue(s, 0)
  BY <1>9, IssueOne DEF Consistent
<1>13. Passes(s, u, w)
  BY <1>2, <1>10, <1>11, <1>12, StockSame, RelistedPasses
<1>14. CASE i = j
  BY <1>4, <1>14, ItselfTurned
<1>15. CASE i # j
  <2>1. MoveTab(s, o, w, id, to).state = u
    BY <1>4, <1>15
  <2>2. Numbers(u)
    BY <1>7, <2>1 DEF Revised
  <2>3. Consistent(u)
    BY <1>13 DEF Passes
  <2>4. PICK W : /\ Becomes(s, u, w, W, s.terminals, 0)
                 /\ W.tabs = tabs /\ W.active = active /\ W.viewport = s.workspaces[w].viewport
                 /\ W.controller = s.workspaces[w].controller
    BY <1>11 DEF Relisted
  <2>5. u.workspaces[w] = W /\ DOMAIN u.workspaces = DOMAIN s.workspaces
    BY <2>4 DEF Becomes
  <2>6. TabsOf(u, w) = TabsOf(s, w)
    BY <1>6, <1>8, <2>4, <2>5 DEF TabsOf, Elements
  <2>7. Visible(u, w) = Visible(s, w)
    BY <1>2, <2>2, <2>3, <2>4, <2>5, <2>6, SameTabsShow
  <2>8. ShowsAs(s, u, w)
    BY <1>2, <2>4, <2>5, <2>7 DEF ShowsAs
  <2> QED BY <1>13, <2>1, <2>8 DEF Turned
<1> QED BY <1>14, <1>15
-------------------------------------------------------------------------------
(* Clients come, go and resize: layouts and terminals stay. *)

\* The workspaces keep their tabs, and no revision falls.
Reframes(s, u) ==
  /\ Shaped(u) /\ DOMAIN u.workspaces = DOMAIN s.workspaces
  /\ u.order = s.order /\ u.terminals = s.terminals /\ u.nextPane = s.nextPane /\ u.nextTerm = s.nextTerm
  /\ \A v \in DOMAIN s.workspaces :
       /\ u.workspaces[v].tabs = s.workspaces[v].tabs /\ u.workspaces[v].active = s.workspaces[v].active
       /\ u.workspaces[v].rev \in Nat /\ u.workspaces[v].rev >= s.workspaces[v].rev

\* v has the viewport it had, and no controller that it did not have.
Steady(s, u, v) ==
  /\ u.workspaces[v].viewport = s.workspaces[v].viewport
  /\ u.workspaces[v].controller \in {s.workspaces[v].controller, NoOne}

LEMMA ReframedTabs ==
  ASSUME NEW s, NEW u, Reframes(s, u)
  PROVE  /\ \A v \in DOMAIN s.workspaces :
              /\ TabsOf(u, v) = TabsOf(s, v) /\ TerminalsOf(u, v) = TerminalsOf(s, v)
              /\ ActiveTab(u, v) = ActiveTab(s, v)
         /\ AllTabs(u) = AllTabs(s)
<1>1. ASSUME NEW v \in DOMAIN s.workspaces
      PROVE  /\ TabsOf(u, v) = TabsOf(s, v) /\ TerminalsOf(u, v) = TerminalsOf(s, v)
             /\ ActiveTab(u, v) = ActiveTab(s, v)
  <2>1. u.workspaces[v].tabs = s.workspaces[v].tabs /\ u.workspaces[v].active = s.workspaces[v].active
    BY DEF Reframes
  <2> QED BY <2>1 DEF TabsOf, TerminalsOf, ActiveTab, TabIndex
<1>2. DOMAIN u.workspaces = DOMAIN s.workspaces
  BY DEF Reframes
<1>3. AllTabs(u) = AllTabs(s)
  BY <1>1, <1>2 DEF AllTabs
<1> QED BY <1>1, <1>3

LEMMA ReframedConsistent ==
  ASSUME NEW s, Consistent(s), NEW u, Reframes(s, u)
  PROVE  Consistent(u)
<1>1. AllTabs(u) = AllTabs(s) /\ \A v \in DOMAIN s.workspaces : TabsOf(u, v) = TabsOf(s, v)
  BY ReframedTabs
<1>2. \A v \in DOMAIN u.workspaces : Shows(u, v) /\ u.workspaces[v].rev \in Nat
  BY <1>1 DEF Reframes, Consistent, Shows
<1>3. Ordered(u)
  BY DEF Consistent, Reframes, Ordered
<1> QED BY <1>1, <1>2, <1>3 DEF Consistent, Reframes, Supplied

LEMMA SteadyShows ==
  ASSUME NEW s, NEW u, Reframes(s, u), NEW v \in DOMAIN s.workspaces, Steady(s, u, v)
  PROVE  ShowsAs(s, u, v)
<1>1. ActiveTab(u, v) = ActiveTab(s, v)
  BY ReframedTabs
<1>2. Visible(u, v) = Visible(s, v)
  BY <1>1 DEF Visible, Steady
<1> QED BY <1>2 DEF ShowsAs, Steady

LEMMA ReframedPasses ==
  ASSUME NEW s, Consistent(s), NEW u, Reframes(s, u), NEW w,
         \A v \in DOMAIN s.workspaces \ {w} : Steady(s, u, v)
  PROVE  Passes(s, u, w)
<1>1. Consistent(u)
  BY ReframedConsistent
<1>2. Frozen(s, u)
  BY DEF Frozen, Reframes
<1>3. DOMAIN u.workspaces = DOMAIN s.workspaces
  BY DEF Reframes
<1>4. Elsewhere(s, u, w)
  BY <1>3, SteadyShows, ReframedTabs DEF Elsewhere
<1> QED BY <1>1, <1>2, <1>4 DEF Passes

LEMMA SteadyTurned ==
  ASSUME NEW s, Consistent(s), NEW u, Reframes(s, u), \A v \in DOMAIN s.workspaces : Steady(s, u, v)
  PROVE  Turned(s, u)
<1> DEFINE w == NoOne
<1>1. Passes(s, u, w)
  BY ReframedPasses
<1>2. ShowsAs(s, u, w)
  <2>1. CASE w \in DOMAIN s.workspaces
    BY <2>1, SteadyShows
  <2>2. CASE w \notin DOMAIN s.workspaces
    BY <2>2 DEF ShowsAs, Reframes
  <2> QED BY <2>1, <2>2
<1> HIDE DEF w
<1> QED BY <1>1, <1>2 DEF Turned

LEMMA BecomesReframes ==
  ASSUME NEW s, Consistent(s), NEW w \in DOMAIN s.workspaces, NEW X, NEW u, Becomes(s, u, w, X, s.terminals, 0),
         X.tabs = s.workspaces[w].tabs, X.active = s.workspaces[w].active,
         X.rev \in Nat, X.rev >= s.workspaces[w].rev
  PROVE  /\ Reframes(s, u) /\ u.workspaces[w] = X
         /\ \A v \in DOMAIN s.workspaces \ {w} : Steady(s, u, v)
<1>1. /\ Shaped(u) /\ DOMAIN u.workspaces = DOMAIN s.workspaces
      /\ u.order = s.order /\ u.terminals = s.terminals /\ u.workspaces[w] = X
      /\ \A v \in DOMAIN s.workspaces \ {w} : u.workspaces[v] = s.workspaces[v]
  BY DEF Becomes
<1>2. u.nextPane = s.nextPane /\ u.nextTerm = s.nextTerm
  BY DEF Becomes, Consistent
<1>3. \A v \in DOMAIN s.workspaces : s.workspaces[v].rev \in Nat
  BY DEF Consistent
<1>4. ASSUME NEW v \in DOMAIN s.workspaces
      PROVE  /\ u.workspaces[v].tabs = s.workspaces[v].tabs /\ u.workspaces[v].active = s.workspaces[v].active
             /\ u.workspaces[v].rev \in Nat /\ u.workspaces[v].rev >= s.workspaces[v].rev
  <2>1. CASE v = w
    BY <1>1, <2>1
  <2>2. CASE v # w
    BY <1>1, <1>3, <2>2
  <2> QED BY <2>1, <2>2
<1>5. Reframes(s, u)
  BY <1>1, <1>2, <1>4 DEF Reframes
<1> QED BY <1>1, <1>5 DEF Steady
-----------------------------------------------------------------------------
LEMMA ReleasedReframes ==
  ASSUME NEW s, Leases(s), Consistent(s), NEW c
  PROVE  /\ Reframes(s, Released(s, c))
         /\ \A v \in DOMAIN s.workspaces : Steady(s, Released(s, c), v)
<1>1. CASE ~HoldsLease(s, c)
  <2>1. Released(s, c) = s
    BY <1>1 DEF Released
  <2>2. \A v \in DOMAIN s.workspaces : s.workspaces[v].rev \in Nat
    BY DEF Consistent
  <2>3. Reframes(s, s)
    BY <2>2 DEF Reframes, Leases
  <2> QED BY <2>1, <2>3 DEF Steady
<1>2. CASE HoldsLease(s, c)
  <2> DEFINE w == s.clients[c].workspace
             W == s.workspaces[w]
             X == [W EXCEPT !.controller = NoOne, !.rev = Later(W.rev)]
             u == [s EXCEPT !.workspaces[w] = X]
  <2>1. w \in DOMAIN s.workspaces
    BY <1>2 DEF HoldsLease, Leases
  <2>2. Released(s, c) = u
    BY <1>2 DEF Released
  <2>3. Becomes(s, s, w, W, s.terminals, 0)
    BY <2>1, ItselfBecomes
  <2>4. DOMAIN W = Fields /\ W.rev \in Nat
    BY <2>1, <2>3 DEF Becomes, Consistent
  <2> HIDE DEF w, W
  <2>5. /\ DOMAIN X = Fields /\ X.tabs = W.tabs /\ X.active = W.active /\ X.viewport = W.viewport
        /\ X.controller = NoOne /\ X.rev \in Nat /\ X.rev >= W.rev
    BY <2>4 DEF Fields, Later
  <2> HIDE DEF X, u
  <2>6. Becomes(s, u, w, X, s.terminals, 0)
    BY <2>1, <2>3, <2>5, BecomesWith DEF u
  <2>7. W = s.workspaces[w]
    BY DEF W
  <2>8. /\ Reframes(s, u) /\ u.workspaces[w] = X
        /\ \A v \in DOMAIN s.workspaces \ {w} : Steady(s, u, v)
    BY <2>1, <2>5, <2>6, <2>7, BecomesReframes
  <2>9. Steady(s, u, w)
    BY <2>5, <2>7, <2>8 DEF Steady
  <2> QED BY <2>2, <2>8, <2>9
<1> QED BY <1>1, <1>2

\* Only the clients are changed.
LEMMA ClientsReframe ==
  ASSUME NEW s, NEW u, Reframes(s, u), NEW x, Shaped(x), x.order = u.order, x.workspaces = u.workspaces,
         x.terminals = u.terminals, x.nextPane = u.nextPane, x.nextTerm = u.nextTerm
  PROVE  /\ Reframes(s, x)
         /\ \A v : Steady(s, u, v) => Steady(s, x, v)
BY DEF Reframes, Steady

LEMMA RegisteredReframes ==
  ASSUME NEW s, NEW u, Reframes(s, u), NEW c, NEW w, NEW role
  PROVE  /\ Reframes(s, Registered(u, c, w, role))
         /\ \A v : Steady(s, u, v) => Steady(s, Registered(u, c, w, role), v)
         /\ Registered(u, c, w, role).workspaces = u.workspaces
<1> DEFINE new == Put(u.clients, c, [workspace |-> w, role |-> role])
           x == [u EXCEPT !.clients = new]
<1>1. Registered(u, c, w, role) = x
  BY DEF Registered
<1>2. Shaped(u)
  BY DEF Reframes
<1>3. Shaped(x)
  BY <1>1, <1>2, RegisteredFacts
<1> HIDE DEF new
<1>4. /\ x.order = u.order /\ x.workspaces = u.workspaces
      /\ x.terminals = u.terminals /\ x.nextPane = u.nextPane /\ x.nextTerm = u.nextTerm
  BY <1>2 DEF Shaped
<1> HIDE DEF x
<1> QED BY <1>1, <1>3, <1>4, ClientsReframe
-------------------------------------------------------------------------------
LEMMA GrantedReframes ==
  ASSUME NEW s, Leases(s), Consistent(s), NEW r, Reframes(s, r), \A v \in DOMAIN s.workspaces : Steady(s, r, v),
         NEW w \in DOMAIN s.workspaces, NEW c, NEW viewport, NEW u, u = Granted(r, c, w, viewport)
  PROVE  /\ Reframes(s, u) /\ \A v \in DOMAIN s.workspaces \ {w} : Steady(s, u, v)
         /\ Raised(s, u, w)
<1> DEFINE holder == r.workspaces[w].controller
           demoted == IF holder \in DOMAIN r.clients
                      THEN [r EXCEPT !.clients[holder] = [@ EXCEPT !.role = "observer"]] ELSE r
           viewed == WithViewport(demoted, w, viewport)
           W == r.workspaces[w]
           V == [W EXCEPT !.viewport = viewport, !.rev = Later(W.rev)]
           X == [V EXCEPT !.controller = c]
           taken == [viewed EXCEPT !.workspaces[w] = [@ EXCEPT !.controller = c]]
<1>1. Shaped(r) /\ w \in DOMAIN r.workspaces /\ W.rev \in Nat /\ W.rev >= s.workspaces[w].rev
  BY DEF Reframes
<1>2. Consistent(r)
  BY ReframedConsistent
<1>3. Becomes(r, r, w, W, r.terminals, 0)
  BY <1>1, <1>2, BecomesItself DEF Consistent
<1>4. Becomes(r, demoted, w, W, r.terminals, 0)
  <2>1. CASE holder \notin DOMAIN r.clients
    BY <1>3, <2>1
  <2>2. CASE holder \in DOMAIN r.clients
    <3> DEFINE kept == [r.clients[holder] EXCEPT !.role = "observer"]
    <3>1. kept = [workspace |-> r.clients[holder].workspace, role |-> "observer"]
      <4>1. r.clients[holder] = [workspace |-> r.clients[holder].workspace, role |-> r.clients[holder].role]
        BY <1>1, <2>2 DEF Shaped
      <4> QED BY <4>1, Demotion
    <3> DEFINE x == [r EXCEPT !.clients[holder] = kept]
    <3>2. demoted = x
      BY <2>2
    <3> HIDE DEF kept
    <3>3. /\ DOMAIN x = DOMAIN r /\ x.order = r.order
          /\ x.workspaces = r.workspaces /\ x.terminals = r.terminals
          /\ x.nextPane = r.nextPane /\ x.nextTerm = r.nextTerm
          /\ x.clients = [r.clients EXCEPT ![holder] = kept]
      BY <1>1 DEF Shaped
    <3> HIDE DEF x, demoted, holder
    <3>4. Shaped(x)
      BY <1>1, <2>2, <3>1, <3>3 DEF Shaped
    <3>5. Becomes(r, x, w, W, r.terminals, 0)
      BY <1>3, <3>3, <3>4 DEF Becomes
    <3> QED BY <3>2, <3>5
  <2> QED BY <2>1, <2>2
<1> HIDE DEF demoted
<1>5. Becomes(r, viewed, w, V, r.terminals, 0)
  BY <1>1, <1>4, BecomesViewport, Zenon
<1>6. DOMAIN W = Fields
  BY <1>3 DEF Becomes
<1> HIDE DEF W, viewed
<1>7. /\ DOMAIN V = Fields /\ V.tabs = W.tabs /\ V.active = W.active /\ V.rev = W.rev + 1
  BY <1>6 DEF Fields, Later
<1> HIDE DEF V
<1>8. DOMAIN X = Fields /\ X.tabs = W.tabs /\ X.active = W.active /\ X.rev = W.rev + 1
  BY <1>7 DEF Fields
<1>9. taken = [viewed EXCEPT !.workspaces[w] = X]
  <2>1. viewed.workspaces[w] = V /\ w \in DOMAIN viewed.workspaces /\ "workspaces" \in DOMAIN viewed
    BY <1>1, <1>5 DEF Becomes, Shaped
  <2> QED BY <2>1
<1> HIDE DEF X, taken
<1>10. Becomes(r, taken, w, X, r.terminals, 0)
  BY <1>1, <1>5, <1>8, <1>9, BecomesWith
<1>11. /\ Reframes(r, taken) /\ taken.workspaces[w] = X
       /\ \A v \in DOMAIN r.workspaces \ {w} : Steady(r, taken, v)
  <2>1. X.rev \in Nat /\ X.rev >= W.rev
    BY <1>1, <1>8
  <2>2. W = r.workspaces[w]
    BY Zenon DEF W
  <2> QED BY <1>1, <1>2, <1>8, <1>10, <2>1, <2>2, BecomesReframes
<1>12. u = Registered(taken, c, w, "controller")
  BY Zenon DEF Granted, taken, viewed, demoted
<1>13. /\ Reframes(r, u) /\ u.workspaces = taken.workspaces
       /\ \A v \in DOMAIN r.workspaces \ {w} : Steady(r, u, v)
  BY <1>11, <1>12, RegisteredReframes
<1>14. DOMAIN r.workspaces = DOMAIN s.workspaces /\ \A v \in DOMAIN s.workspaces : s.workspaces[v].rev \in Nat
  BY DEF Reframes, Consistent
<1>15. ASSUME NEW v \in DOMAIN s.workspaces
       PROVE  /\ u.workspaces[v].tabs = s.workspaces[v].tabs /\ u.workspaces[v].active = s.workspaces[v].active
              /\ u.workspaces[v].rev \in Nat /\ u.workspaces[v].rev >= s.workspaces[v].rev
  <2>1. /\ r.workspaces[v].tabs = s.workspaces[v].tabs /\ r.workspaces[v].active = s.workspaces[v].active
        /\ r.workspaces[v].rev \in Nat /\ r.workspaces[v].rev >= s.workspaces[v].rev
    BY DEF Reframes
  <2>2. /\ u.workspaces[v].tabs = r.workspaces[v].tabs /\ u.workspaces[v].active = r.workspaces[v].active
        /\ u.workspaces[v].rev \in Nat /\ u.workspaces[v].rev >= r.workspaces[v].rev
    BY <1>13, <1>14 DEF Reframes
  <2> QED BY <1>14, <2>1, <2>2
<1>16. Reframes(s, u)
  BY <1>13, <1>15 DEF Reframes
<1>17. \A v \in DOMAIN s.workspaces \ {w} : Steady(s, u, v)
  BY <1>13, <1>14 DEF Steady
<1>18. Raised(s, u, w)
  <2>1. u.workspaces[w].rev = W.rev + 1 /\ DOMAIN u.workspaces = DOMAIN s.workspaces
    BY <1>8, <1>11, <1>13, <1>16 DEF Reframes
  <2>2. W.rev \in Nat /\ W.rev >= s.workspaces[w].rev /\ s.workspaces[w].rev \in Nat
    BY <1>1, <1>14
  <2> QED BY <2>1, <2>2 DEF Raised
<1> QED BY <1>16, <1>17, <1>18

LEMMA ViewedTurned ==
  ASSUME NEW s, Leases(s), Consistent(s), NEW w \in DOMAIN s.workspaces, NEW viewport
  PROVE  Turned(s, Reflowed(WithViewport(s, w, viewport), w).state)
<1> DEFINE W == s.workspaces[w]
           X == [W EXCEPT !.viewport = viewport, !.rev = Later(W.rev)]
           u == WithViewport(s, w, viewport)
<1>1. Becomes(s, s, w, W, s.terminals, 0)
  BY ItselfBecomes
<1>2. Becomes(s, u, w, X, s.terminals, 0)
  BY <1>1, BecomesViewport, Zenon
<1>3. DOMAIN W = Fields /\ W.rev \in Nat
  BY <1>1 DEF Becomes, Consistent
<1>4. X.tabs = W.tabs /\ X.active = W.active /\ X.rev = W.rev + 1 /\ X.rev \in Nat /\ X.rev >= W.rev /\ X.rev > W.rev
  BY <1>3 DEF Fields, Later
<1> HIDE DEF X, u
<1>5. /\ Reframes(s, u) /\ u.workspaces[w] = X
      /\ \A v \in DOMAIN s.workspaces \ {w} : Steady(s, u, v)
  BY <1>2, <1>4, BecomesReframes
<1>6. Passes(s, u, w)
  BY <1>5, ReframedPasses
<1>7. Raised(s, u, w)
  BY <1>4, <1>5 DEF Raised, Reframes
<1>8. Turned(s, Reflowed(u, w).state)
  BY <1>6, <1>7, RelistedTurned
<1> QED BY <1>8 DEF u

LEMMA AttachTurned ==
  ASSUME NEW s, Leases(s), Numbers(s), Consistent(s), NEW c, NEW w, NEW role, NEW takeover, NEW viewport,
         Attach(s, c, w, role, takeover, viewport).ok
  PROVE  Turned(s, Attach(s, c, w, role, takeover, viewport).state)
<1> DEFINE r == Released(s, c)
           g == Granted(r, c, w, viewport)
           x == Registered(r, c, w, "observer")
<1>1. w \in DOMAIN s.workspaces
  BY DEF Attach, Refused
<1>2. Attach(s, c, w, role, takeover, viewport).state
        \in {x, Reflowed(WithViewport(s, w, viewport), w).state, Reflowed(g, w).state}
  BY <1>1 DEF Attach, Refused, Quietly
<1>3. /\ Reframes(s, r) /\ \A v \in DOMAIN s.workspaces : Steady(s, r, v)
  BY ReleasedReframes
<1> HIDE DEF r
<1>4. Turned(s, x)
  <2>1. Reframes(s, x) /\ \A v \in DOMAIN s.workspaces : Steady(s, x, v)
    BY <1>3, RegisteredReframes
  <2> QED BY <2>1, SteadyTurned
<1>5. Turned(s, Reflowed(g, w).state)
  <2>1. /\ Reframes(s, g) /\ \A v \in DOMAIN s.workspaces \ {w} : Steady(s, g, v)
        /\ Raised(s, g, w)
    BY <1>1, <1>3, GrantedReframes
  <2> HIDE DEF g
  <2> QED BY <2>1, ReframedPasses, RelistedTurned
<1>6. Turned(s, Reflowed(WithViewport(s, w, viewport), w).state)
  BY <1>1, ViewedTurned
<1> HIDE DEF x, g
<1> QED BY <1>2, <1>4, <1>5, <1>6

LEMMA DetachTurned ==
  ASSUME NEW s, Leases(s), Numbers(s), Consistent(s), NEW c, Detach(s, c).ok
  PROVE  Turned(s, Detach(s, c).state)
<1> DEFINE r == Released(s, c)
           left == [d \in DOMAIN s.clients \ {c} |-> s.clients[d]]
           x == [r EXCEPT !.clients = left]
<1>1. Detach(s, c).state = x
  BY DEF Detach, Refused, Quietly
<1>2. Shaped(x)
  BY <1>1, DetachLeases DEF Leases
<1>3. /\ Reframes(s, r) /\ \A v \in DOMAIN s.workspaces : Steady(s, r, v)
  BY ReleasedReframes
<1> HIDE DEF r, left
<1>4. /\ x.order = r.order /\ x.workspaces = r.workspaces
      /\ x.terminals = r.terminals /\ x.nextPane = r.nextPane /\ x.nextTerm = r.nextTerm
  BY <1>3 DEF Reframes, Shaped
<1> HIDE DEF x
<1>5. Reframes(s, x) /\ \A v \in DOMAIN s.workspaces : Steady(s, x, v)
  BY <1>2, <1>3, <1>4, ClientsReframe
<1> QED BY <1>1, <1>5, SteadyTurned

LEMMA ResizeViewportTurned ==
  ASSUME NEW s, Leases(s), Numbers(s), Consistent(s), NEW c, NEW viewport, ResizeViewport(s, c, viewport).ok
  PROVE  Turned(s, ResizeViewport(s, c, viewport).state)
<1> DEFINE w == s.clients[c].workspace
<1>1. w \in DOMAIN s.workspaces
  BY DEF ResizeViewport, Refused, Controls, Leases
<1>2. ResizeViewport(s, c, viewport).state = Reflowed(WithViewport(s, w, viewport), w).state
  BY DEF ResizeViewport, Refused
<1> QED BY <1>1, <1>2, ViewedTurned
-------------------------------------------------------------------------------
(* Workspaces open and close. *)

LEMMA SeqOfElements ==
  ASSUME NEW S, NEW seq \in Seq(S)
  PROVE  seq \in Seq(Elements(seq))
BY OwnElements DEF Elements

LEMMA PickedElements ==
  ASSUME NEW S, NEW seq \in Seq(S), NEW places \in SUBSET DOMAIN seq
  PROVE  \A x : x \in Elements(Picked(seq, places)) <=> \E i \in places : x = seq[i]
<1> DEFINE new == Picked(seq, places)
<1>1. {new[k] : k \in DOMAIN new} = {seq[i] : i \in places}
  BY PickedHasAll
<1> HIDE DEF new
<1>2. \A x : x \in Elements(new) <=> \E i \in places : x = seq[i]
  BY <1>1 DEF Elements
<1> QED BY <1>2 DEF new

LEMMA OrderLess ==
  ASSUME NEW D, NEW order, Once(order, D),
         NEW w, NEW new, new = Picked(order, {i \in DOMAIN order : order[i] # w})
  PROVE  Once(new, D \ {w})
<1> DEFINE places == {i \in DOMAIN order : order[i] # w}
<1>1. places \in SUBSET DOMAIN order /\ new = Picked(order, places) /\ order \in Seq(D)
  BY DEF Once
<1>2. \A x : (\E i \in places : x = order[i]) <=> x \in D \ {w}
  BY DEF Elements, Once
<1>3. \A i \in places : i \in DOMAIN order
  OBVIOUS
<1> HIDE DEF places
<1>4. /\ new \in Seq(D)
      /\ \E f \in [DOMAIN new -> places] :
           /\ \A i \in DOMAIN new : new[i] = order[f[i]]
           /\ \A i, j \in DOMAIN new : f[i] = f[j] => i = j
  <2>1. /\ Picked(order, places) \in Seq(D)
        /\ \E f \in [DOMAIN Picked(order, places) -> places] :
             /\ \A i \in DOMAIN Picked(order, places) : Picked(order, places)[i] = order[f[i]]
             /\ \A i, j \in DOMAIN Picked(order, places) : f[i] = f[j] => i = j
    BY <1>1, PickedIsPart, Zenon
  <2> QED BY <1>1, <2>1, Zenon
<1>5. Elements(new) = D \ {w}
  <2>1. \A x : x \in Elements(new) <=> \E i \in places : x = order[i]
    BY <1>1, PickedElements
  <2> QED BY <1>2, <2>1
<1>6. new \in Seq(D \ {w})
  <2>1. new \in Seq(Elements(new))
    BY <1>4, SeqOfElements, Zenon
  <2> QED BY <1>5, <2>1, Zenon
<1>7. \A i, j \in DOMAIN new : new[i] = new[j] => i = j
  <2>1. PICK f \in [DOMAIN new -> places] :
           /\ \A i \in DOMAIN new : new[i] = order[f[i]]
           /\ \A i, j \in DOMAIN new : f[i] = f[j] => i = j
    BY <1>4
  <2> SUFFICES ASSUME NEW i \in DOMAIN new, NEW j \in DOMAIN new, new[i] = new[j] PROVE i = j
    OBVIOUS
  <2>2. f[i] \in DOMAIN order /\ f[j] \in DOMAIN order /\ order[f[i]] = order[f[j]]
    BY <1>3, <2>1
  <2>3. f[i] = f[j]
    BY <2>2 DEF Once
  <2> QED BY <2>1, <2>3
<1> QED BY <1>5, <1>6, <1>7 DEF Once

LEMMA OrderMore ==
  ASSUME NEW D, NEW order, Once(order, D), NEW w, w \notin D, NEW new, new = Append(order, w)
  PROVE  Once(new, D \cup {w})
<1>0. /\ order \in Seq(D) /\ Elements(order) = D
      /\ \A i, j \in DOMAIN order : order[i] = order[j] => i = j
  BY DEF Once
<1>1. DOMAIN order = 1 .. Len(order) /\ Len(order) \in Nat /\ \A k \in DOMAIN order : order[k] \in D
  BY <1>0
<1>2. order \in Seq(D \cup {w})
  BY <1>0
<1>3. /\ new \in Seq(D \cup {w}) /\ DOMAIN new = 1 .. Len(order) + 1 /\ new[Len(order) + 1] = w
      /\ \A k \in DOMAIN order : new[k] = order[k]
  BY <1>1, <1>2, AppendProperties
<1>4. ASSUME NEW k \in DOMAIN new PROVE (k \in DOMAIN order /\ new[k] = order[k]) \/ (k = Len(order) + 1 /\ new[k] = w)
  BY <1>1, <1>3
<1>5. Elements(new) = D \cup {w}
  <2>1. ASSUME NEW k \in DOMAIN new PROVE new[k] \in D \cup {w}
    BY <1>1, <1>4
  <2>2. ASSUME NEW k \in DOMAIN order PROVE k \in DOMAIN new /\ new[k] = order[k]
    BY <1>1, <1>3
  <2>3. Len(order) + 1 \in DOMAIN new
    BY <1>1, <1>3
  <2>4. ASSUME NEW x \in D \cup {w} PROVE x \in Elements(new)
    <3>1. CASE x = w
      BY <1>3, <2>3, <3>1 DEF Elements
    <3>2. CASE x \in D
      <4>1. PICK k \in DOMAIN order : x = order[k]
        BY <1>0, <3>2 DEF Elements
      <4> QED BY <2>2, <4>1 DEF Elements
    <3> QED BY <3>1, <3>2
  <2> QED BY <2>1, <2>4 DEF Elements
<1>6. \A i, j \in DOMAIN new : new[i] = new[j] => i = j
  <2> SUFFICES ASSUME NEW i \in DOMAIN new, NEW j \in DOMAIN new, new[i] = new[j] PROVE i = j
    OBVIOUS
  <2>1. CASE i \in DOMAIN order /\ j \in DOMAIN order
    BY <1>0, <1>3, <2>1
  <2>2. CASE i \notin DOMAIN order \/ j \notin DOMAIN order
    BY <1>1, <1>4, <2>2
  <2> QED BY <2>1, <2>2
<1> QED BY <1>3, <1>5, <1>6 DEF Once

\* The tabs of two workspaces are different tabs.
LEMMA TabsApart ==
  ASSUME NEW s, Numbers(s), NEW v \in DOMAIN s.workspaces, NEW w \in DOMAIN s.workspaces, v # w
  PROVE  TabsOf(s, v) \cap TabsOf(s, w) = {}
<1>1. ASSUME NEW x \in DOMAIN s.workspaces, NEW t \in TabsOf(s, x) PROVE \E k : t.id = <<x, k>>
  <2>1. PICK i \in DOMAIN s.workspaces[x].tabs : t = s.workspaces[x].tabs[i]
    BY DEF TabsOf
  <2>2. IsTab(x, s.nextTab, s.workspaces[x].tabs[i])
    BY DEF Numbers, IsTabs
  <2> QED BY <2>1, <2>2 DEF IsTab
<1>2. ASSUME NEW t \in TabsOf(s, v), t \in TabsOf(s, w) PROVE FALSE
  <2>1. PICK k : t.id = <<v, k>>
    BY <1>1
  <2>2. PICK m : t.id = <<w, m>>
    BY <1>1, <1>2
  <2> QED BY <2>1, <2>2
<1> QED BY <1>2

LEMMA TerminalsOfTabs ==
  ASSUME NEW s, NEW w PROVE TerminalsOf(s, w) = Terms(Growth(TabsOf(s, w)))
<1>1. ASSUME NEW x \in TerminalsOf(s, w) PROVE x \in Terms(Growth(TabsOf(s, w)))
  <2>1. PICK i \in DOMAIN s.workspaces[w].tabs : x \in Terminals(s.workspaces[w].tabs[i].layout)
    BY DEF TerminalsOf
  <2> DEFINE t == s.workspaces[w].tabs[i]
  <2>2. t \in TabsOf(s, w)
    BY DEF TabsOf
  <2>3. x \in Terms(Labels(t.layout))
    BY <2>1, LabelsName
  <2> HIDE DEF t
  <2> QED BY <2>2, <2>3 DEF Terms, Growth
<1>2. ASSUME NEW x \in Terms(Growth(TabsOf(s, w))) PROVE x \in TerminalsOf(s, w)
  <2>1. PICK t \in TabsOf(s, w) : x \in Terms(Labels(t.layout))
    BY DEF Terms, Growth
  <2>2. PICK i \in DOMAIN s.workspaces[w].tabs : t = s.workspaces[w].tabs[i]
    BY DEF TabsOf
  <2>3. x \in Terminals(s.workspaces[w].tabs[i].layout)
    BY <2>1, <2>2, LabelsName
  <2> QED BY <2>3 DEF TerminalsOf
<1> QED BY <1>1, <1>2

LEMMA RemoveWorkspaceTurned ==
  ASSUME NEW s, Leases(s), Numbers(s), Consistent(s), NEW w, RemoveWorkspace(s, w).ok
  PROVE  Turned(s, RemoveWorkspace(s, w).state)
<1> DEFINE gone == TerminalsOf(s, w)
           left == [t \in DOMAIN s.terminals \ gone |-> s.terminals[t]]
           dropped == [s EXCEPT !.terminals = left]
           order == Picked(s.order, {i \in DOMAIN s.order : s.order[i] # w})
           others == [v \in DOMAIN s.workspaces \ {w} |-> s.workspaces[v]]
           clients == [c \in ClientsElsewhere(s, w) |-> s.clients[c]]
           u == [dropped EXCEPT !.order = order, !.workspaces = others, !.clients = clients]
           G == Growth(TabsOf(s, w))
<1>1. w \in DOMAIN s.workspaces
  BY DEF RemoveWorkspace, Refused
<1>2. Shaped(s)
  BY DEF Leases
<1>3. dropped.order = s.order
  BY <1>2 DEF Shaped
<1>4. RemoveWorkspace(s, w).state = u
  BY <1>3 DEF RemoveWorkspace, Refused, Quietly, WithoutTerminals
<1>5. DOMAIN others = DOMAIN s.workspaces \ {w} /\ \A v \in DOMAIN s.workspaces \ {w} : others[v] = s.workspaces[v]
  OBVIOUS
<1>6. DOMAIN left = DOMAIN s.terminals \ gone /\ \A t \in DOMAIN left : left[t] = s.terminals[t]
  OBVIOUS
<1>7. Once(order, DOMAIN s.workspaces \ {w})
  <2>1. Once(s.order, DOMAIN s.workspaces)
    BY DEF Consistent, Ordered
  <2>2. order = Picked(s.order, {i \in DOMAIN s.order : s.order[i] # w})
    OBVIOUS
  <2> HIDE DEF order
  <2> QED BY <2>1, <2>2, OrderLess
<1>8. gone = Terms(G)
  BY TerminalsOfTabs
<1> HIDE DEF left, order, others, clients, gone
<1>9. /\ u.order = order /\ u.workspaces = others /\ u.terminals = left
      /\ u.nextPane = s.nextPane /\ u.nextTerm = s.nextTerm
  BY <1>2 DEF Shaped
<1> HIDE DEF dropped, u
<1>10. Ordered(u)
  BY <1>5, <1>7, <1>9 DEF Ordered
<1>11. \A v \in DOMAIN u.workspaces : v \in DOMAIN s.workspaces /\ v # w /\ u.workspaces[v] = s.workspaces[v]
  BY <1>5, <1>9
<1>12. AllTabs(u) = AllTabs(s) \ TabsOf(s, w)
  <2>1. \A v \in DOMAIN u.workspaces : TabsOf(u, v) = TabsOf(s, v)
    BY <1>11, SameView
  <2>2. DOMAIN u.workspaces = DOMAIN s.workspaces \ {w}
    BY <1>5, <1>9
  <2>3. \A v \in DOMAIN u.workspaces : TabsOf(s, v) \cap TabsOf(s, w) = {}
    BY <1>1, <1>11, TabsApart
  <2>4. ASSUME NEW t \in AllTabs(u) PROVE t \in AllTabs(s) \ TabsOf(s, w)
    <3>1. PICK v \in DOMAIN u.workspaces : t \in TabsOf(u, v)
      BY DEF AllTabs
    <3>2. t \in TabsOf(s, v) /\ v \in DOMAIN s.workspaces
      BY <1>11, <2>1, <3>1
    <3>3. t \notin TabsOf(s, w)
      BY <2>3, <3>1, <3>2
    <3> QED BY <3>2, <3>3 DEF AllTabs
  <2>5. ASSUME NEW t \in AllTabs(s) \ TabsOf(s, w) PROVE t \in AllTabs(u)
    <3>1. PICK v \in DOMAIN s.workspaces : t \in TabsOf(s, v)
      BY DEF AllTabs
    <3>2. v \in DOMAIN u.workspaces /\ t \in TabsOf(u, v)
      BY <2>1, <2>2, <3>1
    <3> QED BY <3>2 DEF AllTabs
  <2> QED BY <2>4, <2>5
<1>13. TabsOf(s, w) \subseteq AllTabs(s)
  BY <1>1 DEF AllTabs
<1>14. Forest(AllTabs(u)) /\ Growth(AllTabs(u)) = Growth(AllTabs(s)) \ G
  <2>1. Forest(AllTabs(s))
    BY DEF Consistent
  <2> QED BY <1>12, <1>13, <2>1, ForestLess
<1>15. G \subseteq Growth(AllTabs(s))
  BY <1>13 DEF Growth
<1> HIDE DEF G
<1>16. Issue(s, 0) = {} /\ Terms(Issue(s, 0)) = {} /\ s.nextPane \in Nat /\ s.nextTerm \in Nat
  BY IssueOne DEF Terms, Consistent
<1>17. \A v \in DOMAIN u.workspaces : Shows(u, v) /\ u.workspaces[v].rev \in Nat
  <2>1. \A v \in DOMAIN s.workspaces : Shows(s, v) /\ s.workspaces[v].rev \in Nat
    BY DEF Consistent
  <2> QED BY <1>11, <2>1, SameView DEF Shows
<1>18. Regrows(s, u, G, 0)
  BY <1>6, <1>8, <1>9, <1>10, <1>14, <1>16, <1>17 DEF Regrows
<1>19. Consistent(u)
  <2> DEFINE none == 0
  <2>1. none \in Nat /\ Regrows(s, u, G, none)
    BY <1>18
  <2> HIDE DEF none
  <2> QED BY <1>15, <2>1, RegrowsConsistent
<1>20. Frozen(s, u)
  BY <1>6, <1>9 DEF Frozen
<1>21. Elsewhere(s, u, w)
  BY <1>11, SameView DEF Elsewhere, ShowsAs
<1>22. ShowsAs(s, u, w)
  BY <1>11 DEF ShowsAs
<1> QED BY <1>4, <1>19, <1>20, <1>21, <1>22 DEF Turned, Passes
-------------------------------------------------------------------------------
(* A workspace opens. *)

\* a is s with n labels handed out.
Claims(s, a, n, size) ==
  /\ Shaped(a) /\ a.order = s.order /\ a.workspaces = s.workspaces
  /\ a.terminals = PutAll(s.terminals, s.nextTerm .. s.nextTerm + n - 1, size)
  /\ a.nextPane = s.nextPane + n /\ a.nextTerm = s.nextTerm + n

LEMMA MintedClaims ==
  ASSUME NEW s, Leases(s), Consistent(s), NEW b, Shaped(b), b.order = s.order, b.workspaces = s.workspaces,
         b.terminals = s.terminals, b.nextPane = s.nextPane, b.nextTerm = s.nextTerm, NEW n \in Nat, NEW size
  PROVE  Claims(s, Minted(b, n, size), n, size)
<1> DEFINE g == PutAll(b.terminals, b.nextTerm .. b.nextTerm + n - 1, size)
           x == [b EXCEPT !.nextPane = @ + n, !.nextTerm = @ + n, !.terminals = g]
<1>1. Minted(b, n, size) = x
  BY Zenon DEF Minted
<1>2. g = PutAll(s.terminals, s.nextTerm .. s.nextTerm + n - 1, size)
  OBVIOUS
<1> HIDE DEF g
<1>3. /\ DOMAIN x = DOMAIN b /\ x.order = b.order /\ x.workspaces = b.workspaces /\ x.clients = b.clients
      /\ x.terminals = g /\ x.nextPane = b.nextPane + n /\ x.nextTerm = b.nextTerm + n
  BY DEF Shaped
<1> HIDE DEF x
<1>4. Shaped(x)
  BY <1>3 DEF Shaped
<1> QED BY <1>1, <1>2, <1>3, <1>4 DEF Claims

LEMMA OpenedTurned ==
  ASSUME NEW s, Leases(s), Numbers(s), Consistent(s), NEW w, w \notin DOMAIN s.workspaces,
         NEW n \in Nat, NEW size, NEW a, Claims(s, a, n, size),
         NEW tabs, Grows(AllTabs(s) \cup Elements(tabs), (Growth(AllTabs(s)) \ {}) \cup Issue(s, n)),
         NEW active, \E k \in DOMAIN tabs : tabs[k].id = active,
         NEW viewport, NEW r, r = NewWorkspace(a, w, tabs, active, viewport)
  PROVE  Turned(s, r)
<1> DEFINE new == [tabs |-> tabs, active |-> active, controller |-> NoOne, viewport |-> viewport, rev |-> 0]
           all == Put(a.workspaces, w, new)
           order == Append(a.order, w)
           u == [a EXCEPT !.order = order, !.workspaces = all]
           f == PutAll(s.terminals, s.nextTerm .. s.nextTerm + n - 1, size)
<1>1. r = u
  BY Zenon DEF NewWorkspace
<1>2. /\ DOMAIN all = DOMAIN s.workspaces \cup {w} /\ all[w] = new
      /\ \A v \in DOMAIN s.workspaces : all[v] = s.workspaces[v]
  BY DEF Put, Claims
<1>3. Once(order, DOMAIN s.workspaces \cup {w})
  <2>1. Once(s.order, DOMAIN s.workspaces) /\ order = Append(s.order, w)
    BY DEF Consistent, Ordered, Claims
  <2> HIDE DEF order
  <2> QED BY <2>1, OrderMore
<1> HIDE DEF all, order, f
<1>4. /\ u.order = order /\ u.workspaces = all /\ u.terminals = f
      /\ u.nextPane = s.nextPane + n /\ u.nextTerm = s.nextTerm + n
  BY DEF Claims, Shaped, f
<1> HIDE DEF u
<1>5. /\ DOMAIN u.workspaces = DOMAIN s.workspaces \cup {w} /\ u.workspaces[w] = new
      /\ \A v \in DOMAIN s.workspaces : u.workspaces[v] = s.workspaces[v]
  BY <1>2, <1>4
<1>6. new.tabs = tabs /\ new.active = active /\ new.controller = NoOne /\ new.rev = 0
  OBVIOUS
<1> HIDE DEF new
<1>7. Ordered(u)
  BY <1>3, <1>4, <1>5 DEF Ordered
<1>8. TabsOf(u, w) = Elements(tabs) /\ \A v \in DOMAIN s.workspaces : TabsOf(u, v) = TabsOf(s, v)
  <2>1. TabsOf(u, w) = Elements(tabs)
    BY <1>5, <1>6 DEF TabsOf, Elements
  <2>2. \A v \in DOMAIN s.workspaces : TabsOf(u, v) = TabsOf(s, v)
    BY <1>5, SameView
  <2> QED BY <2>1, <2>2
<1>9. AllTabs(u) = AllTabs(s) \cup Elements(tabs)
  <2>1. \A t \in AllTabs(u) : t \in AllTabs(s) \cup Elements(tabs)
    BY <1>5, <1>8 DEF AllTabs
  <2>2. \A t \in AllTabs(s) \cup Elements(tabs) : t \in AllTabs(u)
    BY <1>5, <1>8 DEF AllTabs
  <2> QED BY <2>1, <2>2
<1>10. Forest(AllTabs(u)) /\ Growth(AllTabs(u)) = (Growth(AllTabs(s)) \ {}) \cup Issue(s, n)
  BY <1>9 DEF Grows
<1>11. Stocks(s, f, {}, n)
  BY StockMinted DEF f
<1>12. \A v \in DOMAIN u.workspaces : Shows(u, v) /\ u.workspaces[v].rev \in Nat
  <2>1. ASSUME NEW v \in DOMAIN s.workspaces PROVE Shows(u, v) /\ u.workspaces[v].rev \in Nat
    BY <1>5, <1>8 DEF Consistent, Shows
  <2>2. Shows(u, w) /\ u.workspaces[w].rev \in Nat
    <3>1. PICK k \in DOMAIN tabs : tabs[k].id = active
      OBVIOUS
    <3>2. tabs[k] \in TabsOf(u, w)
      BY <1>8, <3>1 DEF Elements
    <3> QED BY <1>5, <1>6, <3>1, <3>2 DEF Shows
  <2> QED BY <1>5, <2>1, <2>2
<1>13. Regrows(s, u, {}, n)
  BY <1>4, <1>7, <1>10, <1>11, <1>12 DEF Regrows, Stocks
<1>14. Consistent(u)
  <2> DEFINE none == {}
  <2>1. none \subseteq Growth(AllTabs(s)) /\ Regrows(s, u, none, n)
    BY <1>13
  <2> HIDE DEF none
  <2> QED BY <2>1, RegrowsConsistent
<1>15. Frozen(s, u)
  BY <1>4, <1>11 DEF Stocks, Frozen
<1>16. \A v \in DOMAIN s.workspaces : Visible(u, v) = Visible(s, v) /\ TerminalsOf(u, v) = TerminalsOf(s, v)
  BY <1>5, SameView
<1>17. Elsewhere(s, u, w)
  BY <1>5, <1>16 DEF Elsewhere, ShowsAs
<1>18. ShowsAs(s, u, w)
  BY <1>5, <1>6 DEF ShowsAs
<1> QED BY <1>1, <1>14, <1>15, <1>17, <1>18 DEF Turned, Passes

LEMMA CreateWorkspaceTurned ==
  ASSUME NEW s, Leases(s), Numbers(s), Consistent(s), NEW w, w \notin DOMAIN s.workspaces, NEW viewport
  PROVE  Turned(s, CreateWorkspace(s, w, viewport))
<1> DEFINE one == 1
           a == Minted(s, one, viewport)
           tab == NewTabRecord(<<w, 0>>, Leaf(Fresh(s, 0)))
           tabs == <<tab>>
           active == <<w, 0>>
<1>1. CreateWorkspace(s, w, viewport) = NewWorkspace(a, w, tabs, active, viewport)
  BY Zenon DEF CreateWorkspace
<1>2. Grows(AllTabs(s) \cup {tab}, (Growth(AllTabs(s)) \ {}) \cup Issue(s, one))
  <2> DEFINE id == <<w, 0>>
  <2>1. tab = NewTabRecord(id, Leaf(Fresh(s, 0)))
    OBVIOUS
  <2> HIDE DEF id, tab
  <2> QED BY <2>1, NewTabForest DEF Grows
<1>3. tab.id = active
  BY DEF NewTabRecord
<1> HIDE DEF tab
<1>4. Elements(tabs) = {tab} /\ \E k \in DOMAIN tabs : tabs[k].id = active
  <2>1. DOMAIN tabs = {1} /\ tabs[1] = tab
    OBVIOUS
  <2> HIDE DEF tabs
  <2> QED BY <1>3, <2>1 DEF Elements
<1>5. one \in Nat
  OBVIOUS
<1> HIDE DEF one, tabs, active
<1>6. Claims(s, a, one, viewport)
  BY <1>5, MintedClaims DEF Leases
<1> HIDE DEF a
<1>7. Grows(AllTabs(s) \cup Elements(tabs), (Growth(AllTabs(s)) \ {}) \cup Issue(s, one))
  BY <1>2, <1>4
<1> QED BY <1>1, <1>4, <1>5, <1>6, <1>7, OpenedTurned
-------------------------------------------------------------------------------
(* A saved session. *)

\* What a session holds are trees.
StoredTree(t) ==
  /\ t \in [DOMAIN t -> {t[p] : p \in DOMAIN t}] /\ IsFiniteSet(DOMAIN t)
  /\ <<>> \in DOMAIN t /\ \A p \in DOMAIN t : p \in Seq({0, 1})
  /\ \A p \in DOMAIN t \ {<<>>} : Front(p) \in BranchPaths(t)
  /\ \A p \in BranchPaths(t) : /\ {p \o <<0>>, p \o <<1>>} \subseteq DOMAIN t
                               /\ t[p] \in [dir : {"right", "down"}, ratio : Int]

LEMMA SavedShape ==
  ASSUME NEW saved \in Saved, NEW i \in DOMAIN saved
  PROVE  StoredTree(saved[i].shape)
<1>1. \A j \in DOMAIN saved : StoredTree(saved[j].shape)
  BY SavedAssumption DEF StoredTree
<1> QED BY <1>1, Zenon

LEMMA SavedTree ==
  ASSUME NEW saved \in Saved, NEW i \in DOMAIN saved, NEW t, t = saved[i].shape
  PROVE  IsTree(t) /\ Ruled(t)
<1>0. StoredTree(t)
  BY SavedShape
<1>1. /\ t \in [DOMAIN t -> {t[p] : p \in DOMAIN t}] /\ IsFiniteSet(DOMAIN t)
      /\ <<>> \in DOMAIN t /\ \A p \in DOMAIN t : p \in Seq({0, 1})
      /\ \A p \in DOMAIN t \ {<<>>} : Front(p) \in BranchPaths(t)
      /\ \A p \in BranchPaths(t) : /\ {p \o <<0>>, p \o <<1>>} \subseteq DOMAIN t
                                   /\ t[p] \in [dir : {"right", "down"}, ratio : Int]
  BY <1>0 DEF StoredTree
<1>2. t = [p \in DOMAIN t |-> t[p]]
  BY <1>1
<1>3. DOMAIN t \subseteq Paths
  BY <1>1 DEF Paths
<1>4. \A p \in BranchPaths(t), i_1 \in {0, 1} : p \o <<i_1>> \in DOMAIN t
  BY <1>1
<1>5. ASSUME NEW p \in Paths, NEW q \in Paths, Cat(p, q) \in DOMAIN t, q # <<>>, p \notin BranchPaths(t) PROVE FALSE
  <2> DEFINE Bad(r) == r \in Paths /\ r # <<>> /\ Cat(p, r) \in DOMAIN t
             T == {n \in Nat : \E r \in Paths : Bad(r) /\ Len(r) = n}
  <2>1. T \subseteq Nat /\ T # {}
    <3>1. Bad(q) /\ Len(q) \in Nat
      BY <1>5, EndEmpty
    <3> HIDE DEF Bad
    <3> QED BY <3>1
  <2> HIDE DEF T
  <2>2. PICK n \in T : \A m \in T : n <= m
    BY <2>1, LeastNatural
  <2>3. PICK r \in Paths : Bad(r) /\ Len(r) = n
    BY <2>2 DEF T
  <2>4. r \in Paths /\ r # <<>> /\ Cat(p, r) \in DOMAIN t
    BY <2>3
  <2>5. PICK f \in Paths, l \in {0, 1} : r = Cat(f, One(l)) /\ Len(f) = Len(r) - 1
    <3>1. Front(r) \in Paths /\ Last(r) \in {0, 1} /\ r = Front(r) \o <<Last(r)>> /\ Len(Front(r)) = Len(r) - 1
      BY <2>4, PathEnds
    <3> QED BY <3>1 DEF Cat, One
  <2>6. Cat(p, f) \in Paths /\ One(l) \in Paths
    BY <2>5, CatIn
  <2>7. Cat(p, r) = Cat(Cat(p, f), One(l))
    BY <2>5, <2>6, CatAssoc
  <2>8. Cat(Cat(p, f), One(l)) # <<>> /\ Front(Cat(Cat(p, f), One(l))) = Cat(p, f)
    <3> DEFINE c == Cat(p, f)
    <3>1. c \in Paths
      BY <2>6
    <3> HIDE DEF c
    <3>2. c \o <<l>> # <<>> /\ Front(c \o <<l>>) = c
      BY <3>1, PathEnds
    <3>3. Cat(c, One(l)) = c \o <<l>>
      BY Zenon DEF Cat, One
    <3> QED BY <3>2, <3>3, Zenon DEF c
  <2>9. Cat(p, f) \in BranchPaths(t)
    <3> DEFINE c == Cat(p, r)
    <3>1. c # <<>> /\ Front(c) = Cat(p, f) /\ c \in DOMAIN t
      BY <2>4, <2>7, <2>8
    <3> HIDE DEF c
    <3> QED BY <1>1, <3>1
  <2>10. CASE f = <<>>
    <3>1. Cat(p, f) = p
      BY <2>10, EndEmpty DEF Cat
    <3> QED BY <1>5, <2>9, <3>1
  <2>11. CASE f # <<>>
    <3>1. Bad(f)
      BY <2>5, <2>9, <2>11 DEF BranchPaths
    <3>2. Len(f) \in Nat /\ Len(r) \in Nat
      BY <2>5, EndEmpty
    <3>3. Len(f) \in T
      BY <2>5, <3>1, <3>2 DEF T
    <3> QED BY <2>2, <2>3, <2>5, <3>2, <3>3
  <2> QED BY <2>10, <2>11
<1>6. \A p, q \in Paths : p \o q \in DOMAIN t /\ q # <<>> => p \in BranchPaths(t)
  BY <1>5 DEF Cat
<1>7. IsTree(t)
  BY <1>1, <1>2, <1>3, <1>4, <1>6 DEF IsTree
<1>8. Ruled(t)
  BY <1>1 DEF Ruled, Rule
<1> QED BY <1>7, <1>8

\* The leaves of the first tabs add up.
LeavesOf(saved, i) == UNION {{j} \X LeafPaths(saved[j].shape) : j \in 1 .. i}

LEMMA LeavesAdd ==
  ASSUME NEW saved, NEW i \in Nat \ {0}, IsFiniteSet(LeavesOf(saved, i - 1)), IsTree(saved[i].shape)
  PROVE  /\ IsFiniteSet(LeavesOf(saved, i))
         /\ LeavesUpTo(saved, i) = LeavesUpTo(saved, i - 1) + Count(saved[i].shape)
         /\ LeavesUpTo(saved, i - 1) \in Nat /\ Count(saved[i].shape) \in Nat
<1> DEFINE L(j) == {j} \X LeafPaths(saved[j].shape)
           A == LeavesOf(saved, i - 1)
           B == L(i)
<1>1. IsFiniteSet(LeafPaths(saved[i].shape))
  BY TreePaths
<1>2. Count(saved[i].shape) \in Nat
  BY <1>1, FS_CardinalityType DEF Count
<1>3. IsFiniteSet(B) /\ Cardinality(B) = Count(saved[i].shape)
  <2>1. IsFiniteSet({i}) /\ Cardinality({i}) = 1
    BY FS_Singleton
  <2>2. IsFiniteSet(B) /\ Cardinality(B) = 1 * Cardinality(LeafPaths(saved[i].shape))
    <3> DEFINE one == {i}
               P == LeafPaths(saved[i].shape)
    <3>1. IsFiniteSet(one) /\ IsFiniteSet(P) /\ Cardinality(one) = 1
      BY <1>1, <2>1
    <3> HIDE DEF one, P
    <3>2. IsFiniteSet(one \X P) /\ Cardinality(one \X P) = 1 * Cardinality(P)
      BY <3>1, FS_Product
    <3> QED BY <3>2 DEF one, P
  <2> QED BY <1>2, <2>2 DEF Count
<1>4. \A x : x \in LeavesOf(saved, i) <=> x \in A \/ x \in B
  <2>1. \A j : j \in 1 .. i <=> j \in 1 .. i - 1 \/ j = i
    OBVIOUS
  <2> HIDE DEF L
  <2>2. /\ \A x : x \in LeavesOf(saved, i) <=> \E j \in 1 .. i : x \in L(j)
        /\ \A x : x \in A <=> \E j \in 1 .. i - 1 : x \in L(j)
    BY DEF LeavesOf, L
  <2> QED BY <2>1, <2>2
<1>5. A \cap B = {}
  <2>1. \A x \in A : \E j \in 1 .. i - 1 : x \in L(j)
    BY DEF LeavesOf
  <2> SUFFICES ASSUME NEW x \in A, x \in B PROVE FALSE
    OBVIOUS
  <2>2. PICK j \in 1 .. i - 1 : x \in L(j)
    BY <2>1
  <2>3. x[1] = j /\ x[1] = i
    BY <2>2
  <2> QED BY <2>3
<1> HIDE DEF A, B
<1>6. LeavesOf(saved, i) = A \cup B
  BY <1>4
<1>7. IsFiniteSet(A \cup B) /\ Cardinality(A \cup B) = Cardinality(A) + Cardinality(B) - Cardinality(A \cap B)
  BY <1>3, FS_Union DEF A
<1>8. Cardinality(A \cap B) = 0 /\ Cardinality(A) \in Nat
  BY <1>5, FS_EmptySet, FS_CardinalityType DEF A
<1>9. LeavesUpTo(saved, i) = Cardinality(LeavesOf(saved, i)) /\ LeavesUpTo(saved, i - 1) = Cardinality(A)
  BY DEF LeavesUpTo, LeavesOf, A
<1> QED BY <1>2, <1>3, <1>6, <1>7, <1>8, <1>9

LEMMA NoLeavesYet ==
  ASSUME NEW saved PROVE LeavesOf(saved, 0) = {} /\ LeavesUpTo(saved, 0) = 0
<1>1. LeavesOf(saved, 0) = {}
  BY DEF LeavesOf
<1> QED BY <1>1, FS_EmptySet DEF LeavesUpTo, LeavesOf
-------------------------------------------------------------------------------
\* Labels are handed out in one piece or in two.
Following(s, b, c) == {Fresh(s, k) : k \in b .. b + c - 1}

LEMMA IssueOn ==
  ASSUME NEW s, Consistent(s), NEW b \in Nat, NEW c \in Nat
  PROVE  Issue(s, b + c) = Issue(s, b) \cup Following(s, b, c) /\ Issue(s, b) \cap Following(s, b, c) = {}
<1>1. \A j, k \in Int : Fresh(s, j) = Fresh(s, k) => j = k
  BY FreshLabels DEF Consistent
<1>2. \A k : k \in 0 .. b + c - 1 <=> k \in 0 .. b - 1 \/ k \in b .. b + c - 1
  OBVIOUS
<1>3. ASSUME NEW l \in Issue(s, b + c) PROVE l \in Issue(s, b) \cup Following(s, b, c)
  <2>1. PICK k \in 0 .. b + c - 1 : l = Fresh(s, k)
    BY DEF Issue
  <2> QED BY <1>2, <2>1 DEF Issue, Following
<1>4. ASSUME NEW l \in Issue(s, b) \cup Following(s, b, c) PROVE l \in Issue(s, b + c)
  <2>1. \E k : (k \in 0 .. b - 1 \/ k \in b .. b + c - 1) /\ l = Fresh(s, k)
    BY DEF Issue, Following
  <2> QED BY <1>2, <2>1 DEF Issue
<1>5. ASSUME NEW l \in Issue(s, b), l \in Following(s, b, c) PROVE FALSE
  <2>1. PICK j \in 0 .. b - 1 : l = Fresh(s, j)
    BY DEF Issue
  <2>2. PICK k \in b .. b + c - 1 : l = Fresh(s, k)
    BY <1>5 DEF Following
  <2>3. j \in Int /\ k \in Int
    BY <2>1, <2>2
  <2>4. j = k
    BY <1>1, <2>1, <2>2, <2>3, Zenon
  <2> QED BY <2>4
<1> QED BY <1>3, <1>4, <1>5

\* The first i tabs of a session are planted next to those that are there.
Restores(s, w, saved, i) ==
  /\ IsFiniteSet(LeavesOf(saved, i)) /\ LeavesUpTo(saved, i) \in Nat
  /\ Grows(AllTabs(s) \cup {RestoredTab(s, w, saved, k) : k \in 1 .. i},
           Growth(AllTabs(s)) \cup Issue(s, LeavesUpTo(saved, i)))

LEMMA RestoresMore ==
  ASSUME NEW s, Consistent(s), NEW saved \in Saved, NEW w, NEW i \in Nat \ {0}, i \in DOMAIN saved,
         Restores(s, w, saved, i - 1)
  PROVE  Restores(s, w, saved, i)
<1> DEFINE Tab(k) == RestoredTab(s, w, saved, k)
           T == AllTabs(s) \cup {Tab(k) : k \in 1 .. i - 1}
           b == LeavesUpTo(saved, i - 1)
           shape == saved[i].shape
           c == Count(shape)
           S == Following(s, b, c)
           G == Growth(AllTabs(s))
<1>1. IsTree(shape) /\ Ruled(shape)
  BY SavedTree
<1>2. /\ IsFiniteSet(LeavesOf(saved, i)) /\ LeavesUpTo(saved, i) = b + c /\ b \in Nat /\ c \in Nat
  BY <1>1, LeavesAdd DEF Restores
<1>3. Forest(T) /\ Growth(T) = G \cup Issue(s, b)
  BY DEF Restores, Grows
<1>4. Planted(Tab(i), S)
  <2> DEFINE layout == RestoredTree(s, shape, b)
             id == <<w, i - 1>>
  <2>1. Holds(layout, S)
    <3> HIDE DEF shape, b
    <3> QED BY <1>1, <1>2, SoundRestored DEF Consistent, Following, c
  <2>2. Tab(i) = NewTabRecord(id, layout)
    BY Zenon DEF RestoredTab
  <2> HIDE DEF layout, id, S, Tab
  <2> QED BY <2>1, <2>2, NewTabPlanted
<1>5. AllTabs(s) \cup {Tab(k) : k \in 1 .. i} = T \cup {Tab(i)}
  <2> HIDE DEF Tab
  <2>1. \A k : k \in 1 .. i <=> k \in 1 .. i - 1 \/ k = i
    OBVIOUS
  <2>2. \A x : x \in {Tab(k) : k \in 1 .. i} <=> x \in {Tab(k) : k \in 1 .. i - 1} \/ x = Tab(i)
    BY <2>1, Zenon
  <2> QED BY <2>2
<1> HIDE DEF T, Tab, b, shape, c
<1>6. Issue(s, b + c) = Issue(s, b) \cup S /\ Issue(s, b) \cap S = {}
  BY <1>2, IssueOn
<1>7. G \cap Issue(s, b + c) = {} /\ Distinct(G \cup Issue(s, b + c))
  <2> DEFINE n == b + c
             none == {}
  <2>1. n \in Nat /\ none \subseteq Growth(AllTabs(s))
    BY <1>2
  <2> HIDE DEF n, none
  <2>2. Trades(AllTabs(s), none, Issue(s, n))
    BY <2>1, IssueIsNew
  <2> QED BY <2>2 DEF Trades, n
<1> HIDE DEF S, G
<1>8. S \cap Growth(T) = {} /\ Growth(T) \cup S = G \cup Issue(s, b + c)
  BY <1>3, <1>6, <1>7
<1>9. Forest(T \cup {Tab(i)}) /\ Growth(T \cup {Tab(i)}) = Growth(T) \cup S
  <2>1. Distinct(Growth(T) \cup S)
    BY <1>7, <1>8
  <2> DEFINE t == Tab(i)
  <2>2. Planted(t, S)
    BY <1>4
  <2> HIDE DEF t
  <2>3. Forest(T \cup {t}) /\ Growth(T \cup {t}) = Growth(T) \cup S
    BY <1>3, <1>8, <2>1, <2>2, ForestMore
  <2> QED BY <2>3 DEF t
<1>10. Grows(T \cup {Tab(i)}, G \cup Issue(s, LeavesUpTo(saved, i)))
  BY <1>2, <1>8, <1>9 DEF Grows
<1>11. LeavesUpTo(saved, i) \in Nat
  BY <1>2
<1>12. {Tab(k) : k \in 1 .. i} = {RestoredTab(s, w, saved, k) : k \in 1 .. i}
  BY DEF Tab
<1>13. Grows(AllTabs(s) \cup {RestoredTab(s, w, saved, k) : k \in 1 .. i}, G \cup Issue(s, LeavesUpTo(saved, i)))
  BY <1>5, <1>10, <1>12
<1> QED BY <1>2, <1>11, <1>13 DEF Restores, G

LEMMA RestoresAll ==
  ASSUME NEW s, Consistent(s), NEW saved \in Saved, NEW w, NEW n \in Nat, DOMAIN saved = 1 .. n
  PROVE  Restores(s, w, saved, n)
<1> DEFINE T == {i \in Nat : i <= n /\ ~Restores(s, w, saved, i)}
<1>1. Restores(s, w, saved, 0)
  <2> DEFINE none == 0
  <2>1. LeavesOf(saved, none) = {} /\ LeavesUpTo(saved, none) = 0
    BY NoLeavesYet
  <2>2. Issue(s, LeavesUpTo(saved, none)) = {}
    BY <2>1 DEF Issue
  <2>3. {RestoredTab(s, w, saved, k) : k \in 1 .. none} = {}
    OBVIOUS
  <2> HIDE DEF none
  <2>4. Grows(AllTabs(s), Growth(AllTabs(s)))
    BY DEF Grows, Consistent
  <2>5. /\ AllTabs(s) \cup {RestoredTab(s, w, saved, k) : k \in 1 .. none} = AllTabs(s)
        /\ Growth(AllTabs(s)) \cup Issue(s, LeavesUpTo(saved, none)) = Growth(AllTabs(s))
    BY <2>2, <2>3
  <2>6. IsFiniteSet(LeavesOf(saved, none)) /\ LeavesUpTo(saved, none) \in Nat
    BY <2>1, FS_EmptySet
  <2>7. Restores(s, w, saved, none)
    BY <2>4, <2>5, <2>6 DEF Restores
  <2> QED BY <2>7 DEF none
<1>2. ASSUME T # {} PROVE FALSE
  <2>1. PICK i \in T : \A j \in T : i <= j
    BY <1>2, LeastNatural
  <2>2. i \in Nat \ {0} /\ i \in DOMAIN saved /\ ~Restores(s, w, saved, i)
    BY <1>1, <2>1
  <2>3. i - 1 \notin T /\ i - 1 \in Nat /\ i - 1 <= n
    BY <2>1, <2>2
  <2>4. Restores(s, w, saved, i - 1)
    BY <2>3
  <2> QED BY <2>2, <2>4, RestoresMore
<1> QED BY <1>2

\* The flagged tab of a session is one of its tabs.
LEMMA FlaggedTab ==
  ASSUME NEW saved, NEW n \in Nat, n = Len(saved), NEW i, i = SelectInSeq(saved, LAMBDA t : t.active)
  PROVE  i = 0 \/ i \in 1 .. n
<1> DEFINE I == {k \in 1 .. Len(saved) : saved[k].active}
<1>1. i = IF I # {} THEN Min(I) ELSE 0
  BY DEF SelectInSeq
<1>2. CASE I # {}
  <2>1. \E x \in I : \A y \in I : x <= y
    <3>1. I \subseteq Nat
      OBVIOUS
    <3> HIDE DEF I
    <3> QED BY <1>2, <3>1, LeastNatural
  <2>2. Min(I) \in I
    <3> HIDE DEF I
    <3> QED BY <2>1 DEF Min
  <2> QED BY <1>1, <1>2, <2>2
<1> QED BY <1>1, <1>2

LEMMA RestoredTurned ==
  ASSUME NEW s, Leases(s), Numbers(s), Consistent(s), NEW w, w \notin DOMAIN s.workspaces,
         NEW saved \in Saved, NEW viewport
  PROVE  Turned(s, InstallRestoredSession(s, w, saved, viewport))
<1> DEFINE n == Len(saved)
           k == LeavesUpTo(saved, n)
           claimed == NumbersClaimed(s, n)
           a == Minted(claimed, k, viewport)
           tabs == [i \in DOMAIN saved |-> RestoredTab(s, w, saved, i)]
           flagged == SelectInSeq(saved, LAMBDA t : t.active)
           number == IF flagged = 0 THEN 0 ELSE flagged - 1
           active == <<w, number>>
<1>1. n \in Nat /\ DOMAIN saved = 1 .. n /\ n # 0
  <2>1. saved \in Seq({saved[i] : i \in DOMAIN saved}) /\ saved # <<>>
    BY SavedAssumption, Zenon
  <2> QED BY <2>1
<1>2. InstallRestoredSession(s, w, saved, viewport) = NewWorkspace(a, w, tabs, active, viewport)
  BY Zenon DEF InstallRestoredSession
<1>3. Restores(s, w, saved, n)
  BY <1>1, RestoresAll
<1>4. flagged = 0 \/ flagged \in 1 .. n
  <2>1. n = Len(saved)
    OBVIOUS
  <2> HIDE DEF n
  <2> QED BY <1>1, <2>1, FlaggedTab
<1>5. DOMAIN tabs = 1 .. n /\ \A i \in 1 .. n : tabs[i] = RestoredTab(s, w, saved, i)
  BY <1>1
<1>6. claimed = [s EXCEPT !.nextTab = IF s.nextTab < n THEN n ELSE s.nextTab] /\ Shaped(s)
  BY DEF NumbersClaimed, Leases, Shaped
<1> HIDE DEF n, flagged, tabs
<1>7. /\ claimed.order = s.order /\ claimed.workspaces = s.workspaces /\ claimed.terminals = s.terminals
      /\ claimed.clients = s.clients /\ DOMAIN claimed = DOMAIN s
      /\ claimed.nextPane = s.nextPane /\ claimed.nextTerm = s.nextTerm
  BY <1>6 DEF Shaped
<1> HIDE DEF claimed
<1>8. Shaped(claimed)
  BY <1>6, <1>7 DEF Shaped
<1>9. k \in Nat
  BY <1>3 DEF Restores
<1>10. Claims(s, a, k, viewport)
  <2> HIDE DEF k
  <2> QED BY <1>7, <1>8, <1>9, MintedClaims
<1>11. Elements(tabs) = {RestoredTab(s, w, saved, i) : i \in 1 .. n}
  <2>1. \A x : x \in Elements(tabs) <=> x \in {RestoredTab(s, w, saved, i) : i \in 1 .. n}
    BY <1>5, Zenon DEF Elements
  <2> QED BY <2>1
<1>12. Grows(AllTabs(s) \cup Elements(tabs), (Growth(AllTabs(s)) \ {}) \cup Issue(s, k))
  <2>1. Growth(AllTabs(s)) \ {} = Growth(AllTabs(s))
    OBVIOUS
  <2> QED BY <1>3, <1>11, <2>1 DEF Restores
<1>13. \E i \in DOMAIN tabs : tabs[i].id = active
  <2> DEFINE j == number + 1
  <2>1. j \in 1 .. n /\ j - 1 = number
    BY <1>1, <1>4
  <2> HIDE DEF j
  <2>2. tabs[j] = RestoredTab(s, w, saved, j)
    BY <1>5, <2>1
  <2>3. \A layout, id : NewTabRecord(id, layout).id = id
    BY DEF NewTabRecord
  <2>4. \A i : RestoredTab(s, w, saved, i).id = <<w, i - 1>>
    BY <2>3, Zenon DEF RestoredTab
  <2>5. tabs[j].id = <<w, j - 1>>
    BY <2>2, <2>4, Zenon
  <2> QED BY <1>5, <2>1, <2>5
<1> HIDE DEF k, a, active
<1> QED BY <1>2, <1>9, <1>10, <1>12, <1>13, OpenedTurned
-------------------------------------------------------------------------------
(* What a command leaves behind when its sizes are shared out. *)

LEMMA ReflowedState ==
  ASSUME NEW u, NEW w, NEW r, r = Reflowed(u, w).state, Shaped(r)
  PROVE  /\ r.order = u.order /\ r.workspaces = u.workspaces
         /\ r.nextPane = u.nextPane /\ r.nextTerm = u.nextTerm
         /\ DOMAIN r.terminals = DOMAIN u.terminals
         /\ \A t \in DOMAIN u.terminals :
              r.terminals[t] = IF t \in DOMAIN Visible(u, w) THEN Visible(u, w)[t] ELSE u.terminals[t]
<1> DEFINE shown == Visible(u, w)
           g == [t \in DOMAIN u.terminals |-> IF t \in DOMAIN shown THEN shown[t] ELSE u.terminals[t]]
           x == [u EXCEPT !.terminals = g]
<1> HIDE DEF shown
<1>1. r = x
  BY DEF Reflowed, Sized, shown
<1>2. DOMAIN g = DOMAIN u.terminals
      /\ \A t \in DOMAIN u.terminals : g[t] = IF t \in DOMAIN shown THEN shown[t] ELSE u.terminals[t]
  OBVIOUS
<1> HIDE DEF g
<1>3. DOMAIN u = DOMAIN r
  BY <1>1
<1>4. /\ r.order = u.order /\ r.workspaces = u.workspaces
      /\ r.nextPane = u.nextPane /\ r.nextTerm = u.nextTerm /\ r.terminals = g
  BY <1>1, <1>3 DEF Shaped
<1> QED BY <1>2, <1>4 DEF shown

LEMMA SameConsistent ==
  ASSUME NEW u, Consistent(u), NEW r, r.order = u.order, r.workspaces = u.workspaces,
         r.nextPane = u.nextPane, r.nextTerm = u.nextTerm, DOMAIN r.terminals = DOMAIN u.terminals
  PROVE  Consistent(r)
<1>1. /\ Ordered(u) /\ u.nextPane \in Nat /\ u.nextTerm \in Nat
      /\ Forest(AllTabs(u)) /\ Supplied(u, Growth(AllTabs(u)))
      /\ DOMAIN u.terminals = Terms(Growth(AllTabs(u)))
      /\ \A w \in DOMAIN u.workspaces : Shows(u, w) /\ u.workspaces[w].rev \in Nat
  BY DEF Consistent
<1>2. AllTabs(r) = AllTabs(u) /\ \A w : TabsOf(r, w) = TabsOf(u, w)
  BY DEF AllTabs, TabsOf
<1>3. Ordered(r)
  BY <1>1 DEF Ordered
<1>4. Supplied(r, Growth(AllTabs(u)))
  BY <1>1 DEF Supplied
<1>5. \A w \in DOMAIN r.workspaces : Shows(r, w) /\ r.workspaces[w].rev \in Nat
  BY <1>1, <1>2 DEF Shows
<1> QED BY <1>1, <1>2, <1>3, <1>4, <1>5 DEF Consistent

LEMMA TurnedConsistent ==
  ASSUME NEW s, NEW r, Shaped(r), Turned(s, r)
  PROVE  Consistent(r)
<1>1. PICK u, w : Passes(s, u, w) /\ (\/ r = u /\ ShowsAs(s, u, w)
                                      \/ r = Reflowed(u, w).state /\ Raised(s, u, w))
  BY DEF Turned
<1>2. CASE r = u
  BY <1>1, <1>2 DEF Passes
<1>3. CASE r = Reflowed(u, w).state
  <2>1. /\ r.order = u.order /\ r.workspaces = u.workspaces
        /\ r.nextPane = u.nextPane /\ r.nextTerm = u.nextTerm
        /\ DOMAIN r.terminals = DOMAIN u.terminals
    BY <1>3, ReflowedState
  <2>2. Consistent(u)
    BY <1>1 DEF Passes
  <2> QED BY <2>1, <2>2, SameConsistent
<1> QED BY <1>1, <1>2, <1>3

\* What a workspace shows is its own.
LEMMA VisibleWithin ==
  ASSUME NEW s, Consistent(s), Numbers(s), NEW w \in DOMAIN s.workspaces
  PROVE  /\ DOMAIN Visible(s, w) \subseteq TerminalsOf(s, w)
         /\ TerminalsOf(s, w) \subseteq DOMAIN s.terminals
<1> DEFINE i == TabIndex(s, w, s.workspaces[w].active)
           t == s.workspaces[w].tabs[i]
           area == s.workspaces[w].viewport
<1>1. i \in DOMAIN s.workspaces[w].tabs
  BY ActiveFound
<1>2. Visible(s, w) = Placed(t, area)
  BY DEF Visible, ActiveTab
<1>3. DOMAIN Placed(t, area) \subseteq Terminals(t.layout)
  <2> HIDE DEF t, area
  <2>1. CASE Zoomed(t)
    <3>1. t.zoomed \in Panes(t.layout)
      BY <2>1 DEF Zoomed
    <3>2. PathOf(t.layout, t.zoomed) \in LeafPaths(t.layout)
      BY <3>1, PathOfIs
    <3>3. TerminalOf(t.layout, t.zoomed) \in Terminals(t.layout)
      BY <3>2 DEF TerminalOf, Terminals
    <3>4. DOMAIN Placed(t, area) = {TerminalOf(t.layout, t.zoomed)}
      BY <2>1 DEF Placed
    <3> QED BY <3>3, <3>4
  <2>2. CASE ~Zoomed(t)
    <3>1. Placed(t, area) = DeriveSizes(t.layout, area)
      BY <2>2 DEF Placed
    <3>2. DOMAIN DeriveSizes(t.layout, area) = Terminals(t.layout)
      BY DEF DeriveSizes, SizesIn
    <3> QED BY <3>1, <3>2
  <2> QED BY <2>1, <2>2
<1>4. Terminals(t.layout) \subseteq TerminalsOf(s, w)
  BY <1>1 DEF TerminalsOf
<1>5. TerminalsOf(s, w) \subseteq DOMAIN s.terminals
  <2>1. TabsOf(s, w) \subseteq AllTabs(s)
    BY DEF AllTabs
  <2>2. TerminalsOf(s, w) = Terms(Growth(TabsOf(s, w)))
    BY TerminalsOfTabs
  <2>3. Growth(TabsOf(s, w)) \subseteq Growth(AllTabs(s))
    BY <2>1 DEF Growth
  <2>4. DOMAIN s.terminals = Terms(Growth(AllTabs(s)))
    BY DEF Consistent
  <2> QED BY <2>2, <2>3, <2>4 DEF Terms
<1> QED BY <1>2, <1>3, <1>4, <1>5

LEMMA TerminalsApart ==
  ASSUME NEW s, Consistent(s), Numbers(s), NEW v \in DOMAIN s.workspaces, NEW w \in DOMAIN s.workspaces, v # w
  PROVE  TerminalsOf(s, v) \cap TerminalsOf(s, w) = {}
<1>1. TerminalsOf(s, v) = Terms(Growth(TabsOf(s, v))) /\ TerminalsOf(s, w) = Terms(Growth(TabsOf(s, w)))
  BY TerminalsOfTabs
<1> SUFFICES ASSUME NEW x \in Terms(Growth(TabsOf(s, v))), x \in Terms(Growth(TabsOf(s, w))) PROVE FALSE
  BY <1>1
<1>2. PICK t \in TabsOf(s, v) : \E l \in Labels(t.layout) : x = l.terminal
  BY DEF Terms, Growth
<1>3. PICK u \in TabsOf(s, w) : \E l \in Labels(u.layout) : x = l.terminal
  BY DEF Terms, Growth
<1>4. t \in AllTabs(s) /\ u \in AllTabs(s)
  BY <1>2, <1>3 DEF AllTabs
<1>5. t # u
  BY <1>2, <1>3, TabsApart
<1>6. PICK l \in Labels(t.layout) : x = l.terminal
  BY <1>2
<1>7. PICK m \in Labels(u.layout) : x = m.terminal
  BY <1>3
<1>8. l \in Growth(AllTabs(s)) /\ m \in Growth(AllTabs(s))
  BY <1>4, <1>6, <1>7 DEF Growth
<1>9. Forest(AllTabs(s))
  BY DEF Consistent
<1>10. l = m
  BY <1>6, <1>7, <1>8, <1>9 DEF Forest, Distinct
<1>11. Labels(t.layout) \cap Labels(u.layout) = {}
  BY <1>4, <1>5, <1>9 DEF Forest
<1> QED BY <1>6, <1>7, <1>10, <1>11
-------------------------------------------------------------------------------
\* G2 of a state.
Derived(s) ==
  \A w \in DOMAIN s.workspaces : s.workspaces[w].controller # NoOne =>
    \A t \in DOMAIN Visible(s, w) : s.terminals[t] = Visible(s, w)[t]

LEMMA ShowsDerived ==
  ASSUME NEW s, Consistent(s), Numbers(s), Derived(s), NEW u, Frozen(s, u),
         NEW v, ShowsAs(s, u, v), v \in DOMAIN u.workspaces, u.workspaces[v].controller # NoOne,
         NEW t \in DOMAIN Visible(u, v), t \in DOMAIN u.terminals
  PROVE  u.terminals[t] = Visible(u, v)[t]
<1>1. v \in DOMAIN s.workspaces /\ s.workspaces[v].controller # NoOne /\ Visible(u, v) = Visible(s, v)
  BY DEF ShowsAs
<1>2. t \in DOMAIN Visible(s, v)
  BY <1>1
<1>3. s.terminals[t] = Visible(s, v)[t]
  BY <1>1, <1>2 DEF Derived
<1>4. t \in DOMAIN s.terminals
  BY <1>1, <1>2, VisibleWithin
<1>5. u.terminals[t] = s.terminals[t]
  BY <1>4 DEF Frozen
<1> QED BY <1>1, <1>3, <1>5

\* The workspaces of a state that a command passed through are those it leaves.
LEMMA PassedNumbers ==
  ASSUME NEW u, NEW w, NEW r, r = Reflowed(u, w).state, Shaped(r), Numbers(r)
  PROVE  /\ \A v : TabsOf(u, v) = TabsOf(r, v) /\ TerminalsOf(u, v) = TerminalsOf(r, v) /\ Visible(u, v) = Visible(r, v)
         /\ DOMAIN u.workspaces = DOMAIN r.workspaces
<1>1. r.workspaces = u.workspaces
  BY ReflowedState
<1> QED BY <1>1, SameView

LEMMA TurnedDerived ==
  ASSUME NEW s, Consistent(s), Numbers(s), Derived(s), NEW r, Shaped(r), Numbers(r), Turned(s, r)
  PROVE  Derived(r)
<1>1. PICK u, w : Passes(s, u, w) /\ (\/ r = u /\ ShowsAs(s, u, w)
                                      \/ r = Reflowed(u, w).state /\ Raised(s, u, w))
  BY DEF Turned
<1>2. Frozen(s, u) /\ Elsewhere(s, u, w) /\ Consistent(u) /\ Consistent(r)
  BY <1>1, TurnedConsistent DEF Passes
<1>3. CASE r = u /\ ShowsAs(s, u, w)
  <2>1. ASSUME NEW v \in DOMAIN u.workspaces, u.workspaces[v].controller # NoOne, NEW t \in DOMAIN Visible(u, v)
        PROVE  u.terminals[t] = Visible(u, v)[t]
    <3>1. ShowsAs(s, u, v)
      BY <1>2, <1>3 DEF Elsewhere
    <3>2. t \in DOMAIN u.terminals
      BY <1>2, <1>3, <2>1, VisibleWithin
    <3> QED BY <1>2, <2>1, <3>1, <3>2, ShowsDerived
  <2> QED BY <1>3, <2>1 DEF Derived
<1>4. CASE r = Reflowed(u, w).state /\ Raised(s, u, w)
  <2>1. /\ r.workspaces = u.workspaces /\ DOMAIN r.terminals = DOMAIN u.terminals
        /\ \A t \in DOMAIN u.terminals :
             r.terminals[t] = IF t \in DOMAIN Visible(u, w) THEN Visible(u, w)[t] ELSE u.terminals[t]
    BY <1>4, ReflowedState
  <2>2. \A v : TerminalsOf(u, v) = TerminalsOf(r, v) /\ Visible(u, v) = Visible(r, v)
    BY <1>4, PassedNumbers
  <2>3. w \in DOMAIN r.workspaces
    BY <1>4, <2>1 DEF Raised
  <2>4. ASSUME NEW v \in DOMAIN r.workspaces, r.workspaces[v].controller # NoOne, NEW t \in DOMAIN Visible(r, v)
        PROVE  r.terminals[t] = Visible(r, v)[t]
    <3>1. t \in DOMAIN r.terminals /\ t \in TerminalsOf(r, v) /\ DOMAIN Visible(r, w) \subseteq TerminalsOf(r, w)
      BY <1>2, <2>3, <2>4, VisibleWithin
    <3>2. CASE v = w
      BY <2>1, <2>2, <2>4, <3>1, <3>2
    <3>3. CASE v # w
      <4>1. t \notin DOMAIN Visible(u, w)
        BY <1>2, <2>2, <2>3, <3>1, <3>3, TerminalsApart
      <4>2. ShowsAs(s, u, v)
        BY <1>2, <2>1, <3>3 DEF Elsewhere
      <4>3. u.terminals[t] = Visible(u, v)[t]
        <5>1. v \in DOMAIN u.workspaces /\ u.workspaces[v].controller # NoOne
              /\ t \in DOMAIN Visible(u, v) /\ t \in DOMAIN u.terminals
          BY <2>1, <2>2, <2>4, <3>1
        <5> QED BY <1>2, <4>2, <5>1, ShowsDerived
      <4> QED BY <2>1, <2>2, <3>1, <4>1, <4>3
    <3> QED BY <3>2, <3>3
  <2> QED BY <2>4 DEF Derived
<1> QED BY <1>1, <1>3, <1>4

\* What a step owes to a terminal it resizes.
Resizes(s, r, w, t) == t \in DOMAIN Visible(r, w) /\ r.workspaces[w].rev > s.workspaces[w].rev

LEMMA TurnedResizes ==
  ASSUME NEW s, Consistent(s), Numbers(s), NEW r, Shaped(r), Numbers(r), Turned(s, r),
         NEW w \in DOMAIN s.workspaces, w \in DOMAIN r.workspaces,
         NEW t \in TerminalsOf(s, w), t \in DOMAIN r.terminals, r.terminals[t] # s.terminals[t]
  PROVE  Resizes(s, r, w, t)
<1>1. PICK u, x : Passes(s, u, x) /\ (\/ r = u /\ ShowsAs(s, u, x)
                                      \/ r = Reflowed(u, x).state /\ Raised(s, u, x))
  BY DEF Turned
<1>2. Frozen(s, u) /\ Elsewhere(s, u, x) /\ Consistent(r)
  BY <1>1, TurnedConsistent DEF Passes
<1>3. t \in DOMAIN s.terminals
  BY VisibleWithin
<1>4. r # u
  BY <1>2, <1>3 DEF Frozen
<1>5. r = Reflowed(u, x).state /\ Raised(s, u, x)
  BY <1>1, <1>4
<1>6. /\ r.workspaces = u.workspaces /\ DOMAIN r.terminals = DOMAIN u.terminals
      /\ \A k \in DOMAIN u.terminals :
           r.terminals[k] = IF k \in DOMAIN Visible(u, x) THEN Visible(u, x)[k] ELSE u.terminals[k]
  BY <1>5, ReflowedState
<1>7. \A v : TerminalsOf(u, v) = TerminalsOf(r, v) /\ Visible(u, v) = Visible(r, v)
  BY <1>5, PassedNumbers
<1>8. t \in DOMAIN Visible(u, x)
  <2>1. t \in DOMAIN u.terminals /\ u.terminals[t] = s.terminals[t]
    BY <1>2, <1>3, <1>6 DEF Frozen
  <2> QED BY <1>6, <2>1
<1>9. x \in DOMAIN r.workspaces /\ t \in DOMAIN Visible(r, x)
  BY <1>5, <1>6, <1>7, <1>8 DEF Raised
<1>10. t \in TerminalsOf(r, x)
  BY <1>2, <1>9, VisibleWithin
<1>11. CASE w = x
  BY <1>5, <1>6, <1>9, <1>11 DEF Resizes, Raised
<1>12. CASE w # x
  <2>1. TerminalsOf(u, w) = TerminalsOf(s, w)
    BY <1>2, <1>6, <1>12 DEF Elsewhere
  <2>2. t \in TerminalsOf(r, w)
    BY <1>7, <2>1
  <2> QED BY <1>2, <1>9, <1>10, <1>12, <2>2, TerminalsApart
<1> QED BY <1>11, <1>12
-----------------------------------------------------------------------------
\* The invariant of layouts and sizes.
LayoutInv == TabsInv /\ Consistent(mux) /\ Derived(mux)

LEMMA InitLayoutInv == Init => LayoutInv
<1> SUFFICES ASSUME Init PROVE LayoutInv
  OBVIOUS
<1>1. Leases(NewState) /\ Home \notin DOMAIN NewState.workspaces
  BY DEF NewState, Leases, Shaped
<1>2. Numbers(NewState)
  BY DEF NewState, Numbers
<1>3. DOMAIN NewState.workspaces = {} /\ DOMAIN NewState.terminals = {} /\ NewState.order = <<>>
      /\ NewState.nextPane = 0 /\ NewState.nextTerm = 0
  BY DEF NewState
<1>4. AllTabs(NewState) = {}
  BY <1>3 DEF AllTabs
<1>5. Growth({}) = {} /\ Forest({}) /\ Terms({}) = {}
  BY DEF Growth, Forest, Distinct, Terms
<1>6. Once(<<>>, {})
  BY DEF Once, Elements
<1>7. Consistent(NewState) /\ Derived(NewState)
  <2>1. Growth(AllTabs(NewState)) = {} /\ Terms(Growth(AllTabs(NewState))) = {} /\ Forest(AllTabs(NewState))
    BY <1>4, <1>5
  <2>2. Ordered(NewState) /\ Supplied(NewState, Growth(AllTabs(NewState)))
    BY <1>3, <1>6, <2>1 DEF Ordered, Supplied
  <2> QED BY <1>3, <2>1, <2>2 DEF Consistent, Derived
<1>8. PICK viewport : \/ mux = CreateWorkspace(NewState, Home, viewport)
                      \/ \E saved \in Saved : mux = InstallRestoredSession(NewState, Home, saved, viewport)
  BY DEF Init
<1> DEFINE s == NewState
<1> HIDE DEF s
<1>9. Turned(s, mux)
  <2>1. Leases(s) /\ Numbers(s) /\ Consistent(s) /\ Home \notin DOMAIN s.workspaces
    BY <1>1, <1>2, <1>7 DEF s
  <2>2. CASE mux = CreateWorkspace(s, Home, viewport)
    BY <2>1, <2>2, CreateWorkspaceTurned
  <2>3. CASE \E saved \in Saved : mux = InstallRestoredSession(s, Home, saved, viewport)
    BY <2>1, <2>3, RestoredTurned
  <2> QED BY <1>8, <2>2, <2>3 DEF s
<1>10. TabsInv /\ Numbers(mux) /\ Shaped(mux)
  BY InitTabsInv DEF TabsInv, IInv, Leases
<1>11. Consistent(mux) /\ Derived(mux)
  <2>1. Consistent(s) /\ Numbers(s) /\ Derived(s)
    BY <1>2, <1>7 DEF s
  <2> QED BY <1>9, <1>10, <2>1, TurnedConsistent, TurnedDerived
<1> QED BY <1>10, <1>11 DEF LayoutInv

LEMMA NextTurned == ASSUME LayoutInv, Next PROVE Turned(mux, mux')
<1> USE DEF Apply
<1>0. Leases(mux) /\ Numbers(mux) /\ Consistent(mux)
  BY DEF LayoutInv, TabsInv, IInv
<1>1. ASSUME DoCreateWorkspace PROVE Turned(mux, mux')
  <2>1. PICK w \in Workspaces \ Open, viewport \in Viewports : mux' = CreateWorkspace(mux, w, viewport)
    BY <1>1 DEF DoCreateWorkspace
  <2> QED BY <1>0, <2>1, CreateWorkspaceTurned DEF Open
<1>2. ASSUME DoRemoveWorkspace PROVE Turned(mux, mux')
  BY <1>0, <1>2, RemoveWorkspaceTurned DEF DoRemoveWorkspace
<1>3. ASSUME DoAttach PROVE Turned(mux, mux')
  BY <1>0, <1>3, AttachTurned DEF DoAttach
<1>4. ASSUME DoDetach PROVE Turned(mux, mux')
  BY <1>0, <1>4, DetachTurned DEF DoDetach
<1>5. ASSUME DoResize PROVE Turned(mux, mux')
  BY <1>0, <1>5, ResizeViewportTurned DEF DoResize
<1>6. ASSUME DoFocus PROVE Turned(mux, mux')
  BY <1>0, <1>6, FocusPaneTurned, FocusPaneInTurned DEF DoFocus
<1>7. ASSUME DoZoom PROVE Turned(mux, mux')
  BY <1>0, <1>7, ToggleZoomTurned DEF DoZoom
<1>8. ASSUME DoSplit PROVE Turned(mux, mux')
  BY <1>0, <1>8, SplitPaneTurned DEF DoSplit
<1>9. ASSUME DoClose PROVE Turned(mux, mux')
  BY <1>0, <1>9, ClosePaneTurned DEF DoClose
<1>10. ASSUME DoResizePane PROVE Turned(mux, mux')
  BY <1>0, <1>10, ResizePaneTurned DEF DoResizePane
<1>11. ASSUME DoDrag PROVE Turned(mux, mux')
  BY <1>0, <1>11, SetSplitRatioTurned, RatioAssumption DEF DoDrag
<1>12. ASSUME DoRearrange PROVE Turned(mux, mux')
  BY <1>0, <1>12, RearrangeTurned, OpAssumption DEF DoRearrange, IsOp
<1>13. ASSUME DoNewTab PROVE Turned(mux, mux')
  BY <1>0, <1>13, NewTabTurned DEF DoNewTab
<1>14. ASSUME DoSelectTab PROVE Turned(mux, mux')
  BY <1>0, <1>14, SelectTabTurned DEF DoSelectTab
<1>15. ASSUME DoCloseTab PROVE Turned(mux, mux')
  BY <1>0, <1>15, CloseTabTurned DEF DoCloseTab
<1>16. ASSUME DoBreakPane PROVE Turned(mux, mux')
  BY <1>0, <1>16, BreakPaneTurned DEF DoBreakPane
<1>17. ASSUME DoMoveTab PROVE Turned(mux, mux')
  <2>1. PICK o \in Origins, w \in Open, to \in 1 .. MaxTabs :
          \E id \in TabIds(w) : Apply(MoveTab(mux, o, w, id, to))
    BY <1>17 DEF DoMoveTab
  <2>2. to \in Nat \ {0}
    OBVIOUS
  <2> QED BY <1>0, <2>1, <2>2, MoveTabTurned
<1> QED BY <1>1, <1>2, <1>3, <1>4, <1>5, <1>6, <1>7, <1>8, <1>9, <1>10, <1>11, <1>12, <1>13,
           <1>14, <1>15, <1>16, <1>17 DEF Next

LEMMA NextLayoutInv == LayoutInv /\ [Next]_vars => LayoutInv'
<1> SUFFICES ASSUME LayoutInv, [Next]_vars PROVE LayoutInv'
  OBVIOUS
<1>1. TabsInv'
  BY NextTabsInv DEF LayoutInv
<1>2. CASE Next
  <2>1. Turned(mux, mux')
    BY <1>2, NextTurned
  <2>2. Shaped(mux') /\ Numbers(mux')
    BY <1>1 DEF TabsInv, IInv, Leases
  <2>3. Consistent(mux) /\ Numbers(mux) /\ Derived(mux)
    BY DEF LayoutInv, TabsInv
  <2>4. Consistent(mux') /\ Derived(mux')
    BY <2>1, <2>2, <2>3, TurnedConsistent, TurnedDerived
  <2> QED BY <1>1, <2>4 DEF LayoutInv
<1>3. CASE UNCHANGED vars
  BY <1>1, <1>3 DEF vars, LayoutInv
<1> QED BY <1>2, <1>3

\* G2 of state.rs: whatever the clients and the control API do, in any order, every terminal a
\* controlled workspace shows has the size its viewport and its layout give it.
THEOREM SizesFollow == Spec => []SizesDerived
<1>1. LayoutInv => SizesDerived
  BY DEF LayoutInv, Derived, SizesDerived, Open
<1> QED BY InitLayoutInv, NextLayoutInv, <1>1, PTL DEF Spec

\* G3 of state.rs: whatever command a client or the control API gives, the terminals it resizes are
\* on show after it, in a workspace whose revision it raised.
THEOREM HiddenKeepSize == Spec => HiddenFrozen
<1>1. ASSUME LayoutInv, Next
      PROVE  \A w \in Open \cap DOMAIN mux'.workspaces :
               \A t \in TerminalsOf(mux, w) \cap DOMAIN mux'.terminals :
                 mux'.terminals[t] # mux.terminals[t] => Resizes(mux, mux', w, t)
  <2>1. Turned(mux, mux') /\ Consistent(mux) /\ Numbers(mux)
    BY <1>1, NextTurned DEF LayoutInv, TabsInv
  <2>2. Shaped(mux') /\ Numbers(mux')
    BY <1>1, NextLayoutInv DEF LayoutInv, TabsInv, IInv, Leases
  <2> QED BY <2>1, <2>2, TurnedResizes DEF Open
<1>2. LayoutInv /\ [Next]_vars
        => [\A w \in Open \cap DOMAIN mux'.workspaces :
              \A t \in TerminalsOf(mux, w) \cap DOMAIN mux'.terminals :
                mux'.terminals[t] # mux.terminals[t] =>
                  /\ t \in DOMAIN Visible(mux', w)
                  /\ mux'.workspaces[w].rev > mux.workspaces[w].rev]_vars
  BY <1>1 DEF Resizes
<1> QED BY InitLayoutInv, NextLayoutInv, <1>2, PTL DEF Spec, HiddenFrozen
-------------------------------------------------------------------------------
(* What the layout part of the invariant says of trees. *)

\* As many values as arguments, where no value is taken twice.
LEMMA CountImage ==
  ASSUME NEW S, IsFiniteSet(S), NEW T, NEW f \in [S -> T],
         \A x, y \in S : f[x] = f[y] => x = y, \A z \in T : \E x \in S : f[x] = z
  PROVE  IsFiniteSet(T) /\ Cardinality(T) = Cardinality(S)
<1>1. f \in Surjection(S, T) /\ f \in Injection(S, T)
  BY DEF Surjection, Injection, IsInjective
<1> QED BY <1>1, FS_Surjection

LEMMA OrderCounts ==
  ASSUME NEW D, NEW order, Once(order, D)
  PROVE  D = ToSet(order) /\ Len(order) = Cardinality(D)
<1>1. order \in Seq(D) /\ D = {order[i] : i \in DOMAIN order} /\ \A i, j \in DOMAIN order : order[i] = order[j] => i = j
  BY DEF Once, Elements
<1>2. Len(order) \in Nat /\ DOMAIN order = 1 .. Len(order) /\ order \in [1 .. Len(order) -> D]
  BY <1>1
<1>3. IsFiniteSet(1 .. Len(order)) /\ Cardinality(1 .. Len(order)) = Len(order)
  BY <1>2, FS_Interval, SMTT(30)
<1>4. D = ToSet(order)
  BY <1>1 DEF ToSet
<1> DEFINE S == 1 .. Len(order)
<1>5. /\ order \in [S -> D] /\ \A x, y \in S : order[x] = order[y] => x = y
      /\ \A z \in D : \E x \in S : order[x] = z
  BY <1>1, <1>2
<1>6. IsFiniteSet(S) /\ Cardinality(S) = Len(order)
  BY <1>3
<1> HIDE DEF S
<1>7. Cardinality(D) = Cardinality(S)
  BY <1>5, <1>6, CountImage
<1> QED BY <1>4, <1>6, <1>7

LEMMA TerminalsCount ==
  ASSUME NEW t, Sound(t), Distinct(Labels(t))
  PROVE  Cardinality(Terminals(t)) = Cardinality(LeafPaths(t))
<1> DEFINE S == LeafPaths(t)
           T == Terminals(t)
           f == [p \in S |-> t[p].terminal]
<1>1. IsFiniteSet(S)
  BY TreePaths DEF Sound
<1>2. T = {t[p].terminal : p \in S}
  BY DEF Terminals
<1>3. ASSUME NEW p \in S, NEW q \in S, t[p].terminal = t[q].terminal PROVE p = q
  <2>1. t[p] \in Labels(t) /\ t[q] \in Labels(t)
    BY DEF Labels
  <2>2. t[p] = t[q]
    BY <1>3, <2>1 DEF Distinct
  <2> QED BY <2>2 DEF Sound, OneEach
<1> HIDE DEF S, T
<1>4. f \in [S -> T] /\ \A p \in S : f[p] = t[p].terminal
  BY <1>2
<1> HIDE DEF f
<1>5. /\ \A x, y \in S : f[x] = f[y] => x = y
      /\ \A z \in T : \E x \in S : f[x] = z
  BY <1>2, <1>3, <1>4
<1>6. Cardinality(T) = Cardinality(S)
  BY <1>1, <1>4, <1>5, CountImage
<1> QED BY <1>6 DEF S, T

\* Two tabs of a state.
Apart(t, u) ==
  /\ t.id # u.id
  /\ Panes(t.layout) \cap Panes(u.layout) = {}
  /\ Terminals(t.layout) \cap Terminals(u.layout) = {}

LEMMA TabsApartIn ==
  ASSUME NEW s, Consistent(s), Numbers(s),
         NEW w \in DOMAIN s.workspaces, NEW i \in DOMAIN s.workspaces[w].tabs,
         NEW v \in DOMAIN s.workspaces, NEW j \in DOMAIN s.workspaces[v].tabs, <<v, j>> # <<w, i>>
  PROVE  Apart(s.workspaces[w].tabs[i], s.workspaces[v].tabs[j])
<1> DEFINE t == s.workspaces[w].tabs[i]
           u == s.workspaces[v].tabs[j]
<1>1. IsTab(w, s.nextTab, t) /\ IsTab(v, s.nextTab, u)
  BY DEF Numbers, IsTabs
<1>2. t.id # u.id
  <2>1. CASE v = w
    <3>1. i # j
      BY <2>1
    <3> QED BY <2>1, <3>1 DEF Numbers, IsTabs
  <2>2. CASE v # w
    <3>1. PICK k : t.id = <<w, k>>
      BY <1>1 DEF IsTab
    <3>2. PICK m : u.id = <<v, m>>
      BY <1>1 DEF IsTab
    <3> QED BY <2>2, <3>1, <3>2
  <2> QED BY <2>1, <2>2
<1>3. t \in AllTabs(s) /\ u \in AllTabs(s)
  BY OneTabOfAll
<1> HIDE DEF t, u
<1>4. t # u
  BY <1>2
<1>5. Forest(AllTabs(s))
  BY DEF Consistent
<1>6. Labels(t.layout) \cap Labels(u.layout) = {} /\ Distinct(Growth(AllTabs(s)))
      /\ Labels(t.layout) \subseteq Growth(AllTabs(s)) /\ Labels(u.layout) \subseteq Growth(AllTabs(s))
  BY <1>3, <1>4, <1>5 DEF Forest, Growth
<1>7. \A l \in Labels(t.layout), m \in Labels(u.layout) : l.pane # m.pane /\ l.terminal # m.terminal
  BY <1>6 DEF Distinct
<1>8. /\ Panes(t.layout) = {l.pane : l \in Labels(t.layout)} /\ Terminals(t.layout) = Terms(Labels(t.layout))
      /\ Panes(u.layout) = {l.pane : l \in Labels(u.layout)} /\ Terminals(u.layout) = Terms(Labels(u.layout))
  BY LabelsName
<1>9. Panes(t.layout) \cap Panes(u.layout) = {} /\ Terminals(t.layout) \cap Terminals(u.layout) = {}
  BY <1>7, <1>8 DEF Terms
<1> QED BY <1>2, <1>9 DEF Apart, t, u

\* One tab of a state.
LEMMA TabHolds ==
  ASSUME NEW s, Consistent(s), Numbers(s), NEW w \in DOMAIN s.workspaces, NEW i \in DOMAIN s.workspaces[w].tabs,
         NEW t, t = s.workspaces[w].tabs[i]
  PROVE  /\ t.focused \in Panes(t.layout)
         /\ Cardinality(Terminals(t.layout)) = Cardinality(LeafPaths(t.layout))
<1>1. Planted(t, Labels(t.layout)) /\ Sound(t.layout)
  BY TabPlanted
<1>2. t \in AllTabs(s)
  BY OneTabOfAll
<1>3. Distinct(Labels(t.layout))
  <2>1. Labels(t.layout) \subseteq Growth(AllTabs(s)) /\ Distinct(Growth(AllTabs(s)))
    BY <1>2 DEF Consistent, Forest, Growth
  <2> QED BY <2>1 DEF Distinct
<1> QED BY <1>1, <1>3, TerminalsCount DEF Planted

\* The terminals of a state are those of its workspaces.
LEMMA TerminalsTogether ==
  ASSUME NEW s, Consistent(s)
  PROVE  UNION {TerminalsOf(s, w) : w \in DOMAIN s.workspaces} = DOMAIN s.terminals
<1>1. DOMAIN s.terminals = Terms(Growth(AllTabs(s)))
  BY DEF Consistent
<1>2. \A w : TerminalsOf(s, w) = Terms(Growth(TabsOf(s, w)))
  BY TerminalsOfTabs
<1>3. ASSUME NEW w \in DOMAIN s.workspaces, NEW x \in TerminalsOf(s, w) PROVE x \in Terms(Growth(AllTabs(s)))
  <2>1. PICK t \in TabsOf(s, w) : \E l \in Labels(t.layout) : x = l.terminal
    BY <1>2, <1>3 DEF Terms, Growth
  <2>2. t \in AllTabs(s)
    BY <2>1 DEF AllTabs
  <2> QED BY <2>1, <2>2 DEF Terms, Growth
<1>4. ASSUME NEW x \in Terms(Growth(AllTabs(s))) PROVE \E w \in DOMAIN s.workspaces : x \in TerminalsOf(s, w)
  <2>1. PICK t \in AllTabs(s) : \E l \in Labels(t.layout) : x = l.terminal
    BY DEF Terms, Growth
  <2>2. PICK w \in DOMAIN s.workspaces : t \in TabsOf(s, w)
    BY DEF AllTabs
  <2>3. x \in Terms(Growth(TabsOf(s, w)))
    BY <2>1, <2>2 DEF Terms, Growth
  <2> QED BY <1>2, <2>3
<1> QED BY <1>1, <1>3, <1>4

LEMMA LayoutGivesTrees == LayoutInv => TreeConsistency
<1> SUFFICES ASSUME LayoutInv PROVE TreeConsistency
  OBVIOUS
<1>1. Consistent(mux) /\ Numbers(mux)
  BY DEF LayoutInv, TabsInv
<1>2. Open = ToSet(mux.order) /\ Len(mux.order) = Cardinality(Open)
  <2>1. Once(mux.order, Open)
    BY <1>1 DEF Consistent, Ordered, Open
  <2> QED BY <2>1, OrderCounts
<1>3. UNION {TerminalsOf(mux, w) : w \in Open} = DOMAIN mux.terminals
  BY <1>1, TerminalsTogether DEF Open
<1>4. ASSUME NEW w \in Open, NEW i \in DOMAIN mux.workspaces[w].tabs
      PROVE  LET t == mux.workspaces[w].tabs[i]
             IN /\ t.focused \in Panes(t.layout)
                /\ Cardinality(Terminals(t.layout)) = Cardinality(LeafPaths(t.layout))
                /\ \A v \in Open : \A j \in DOMAIN mux.workspaces[v].tabs :
                     <<v, j>> # <<w, i>> => Apart(t, mux.workspaces[v].tabs[j])
  <2>1. \A v \in Open : \A j \in DOMAIN mux.workspaces[v].tabs :
          <<v, j>> # <<w, i>> => Apart(mux.workspaces[w].tabs[i], mux.workspaces[v].tabs[j])
    BY <1>1, TabsApartIn DEF Open
  <2> QED BY <1>1, <2>1, TabHolds DEF Open
<1>5. ASSUME NEW w \in Open PROVE mux.workspaces[w].active \in TabIds(w)
  <2>1. PICK t \in TabsOf(mux, w) : t.id = mux.workspaces[w].active
    BY <1>1 DEF Consistent, Shows, Open
  <2> QED BY <2>1 DEF TabsOf, TabIds
<1> QED BY <1>2, <1>3, <1>4, <1>5 DEF TreeConsistency, Apart

\* check_tree_consistency of state.rs, after any commands in any order: the terminals of the state are
\* those of the layouts, nothing is in two places, and focus, active tab and order mean something.
THEOREM TreesConsistent == Spec => []TreeConsistency
BY InitLayoutInv, NextLayoutInv, LayoutGivesTrees, PTL DEF Spec
-------------------------------------------------------------------------------
(* The cells of a branch. *)

Rectangle == [x : Int, y : Int, cols : Nat, rows : Nat]

\* Three sets that share out a fourth.
Shares(W, A, B, C) ==
  /\ W = A \cup B \cup C
  /\ A \cap B = {} /\ A \cap C = {} /\ B \cap C = {}

LEMMA SharesStrip ==
  ASSUME NEW a \in Int, NEW f \in Nat, NEW d \in Nat, NEW g \in Nat
  PROVE  Shares(a .. a + (f + d + g) - 1, a .. a + f - 1,
                a + f .. a + f + d - 1, a + f + d .. a + f + d + g - 1)
<1>1. \A i \in Int : a <= i /\ i <= a + (f + d + g) - 1 <=>
           \/ a <= i /\ i <= a + f - 1
           \/ a + f <= i /\ i <= a + f + d - 1
           \/ a + f + d <= i /\ i <= a + f + d + g - 1
  OBVIOUS
<1>2. \A i \in Int : /\ ~(i <= a + f - 1 /\ a + f <= i)
                     /\ ~(i <= a + f - 1 /\ a + f + d <= i)
                     /\ ~(i <= a + f + d - 1 /\ a + f + d <= i)
  OBVIOUS
<1>3. /\ a + (f + d + g) - 1 \in Int /\ a + f - 1 \in Int /\ a + f \in Int /\ a + f + d - 1 \in Int
      /\ a + f + d \in Int /\ a + f + d + g - 1 \in Int
  OBVIOUS
<1> QED BY <1>1, <1>2, <1>3 DEF Shares

LEMMA SharesColumns ==
  ASSUME NEW W, NEW A, NEW B, NEW C, Shares(W, A, B, C), NEW H
  PROVE  Shares(W \X H, A \X H, B \X H, C \X H)
BY DEF Shares

LEMMA SharesRows ==
  ASSUME NEW W, NEW A, NEW B, NEW C, Shares(W, A, B, C), NEW H
  PROVE  Shares(H \X W, H \X A, H \X B, H \X C)
BY DEF Shares

LEMMA BranchCells ==
  ASSUME NEW n \in Rule, NEW r \in Rectangle
  PROVE  /\ ChildRect(n, r, 0) \in Rectangle /\ ChildRect(n, r, 1) \in Rectangle
         /\ DividerRect(n, r) \in Rectangle
         /\ Shares(Cells(r), Cells(ChildRect(n, r, 0)), Cells(DividerRect(n, r)), Cells(ChildRect(n, r, 1)))
<1>1. n.dir \in {"right", "down"} /\ n.ratio \in Int
  BY DEF Rule
<1>2. /\ r.x \in Int /\ r.y \in Int /\ r.cols \in Nat /\ r.rows \in Nat
      /\ r = [x |-> r.x, y |-> r.y, cols |-> r.cols, rows |-> r.rows]
  BY DEF Rectangle
<1> DEFINE a == ChildRect(n, r, 0)
           b == ChildRect(n, r, 1)
           c == DividerRect(n, r)
<1>3. CASE n.dir = "right"
  <2> DEFINE f == First(r.cols, n.ratio)
             d == Divider(r.cols)
             g == Second(r.cols, n.ratio)
             rows == r.y .. r.y + r.rows - 1
  <2>1. f \in Nat /\ d \in Nat /\ g \in Nat /\ f + d + g = r.cols
    BY <1>1, <1>2, CellsConserved
  <2>2. a = [r EXCEPT !.cols = f]
    BY <1>3 DEF ChildRect
  <2>3. b = [r EXCEPT !.x = r.x + f + d, !.cols = g]
    BY <1>2, <1>3 DEF ChildRect
  <2>4. c = [x |-> r.x + f, y |-> r.y, cols |-> d, rows |-> r.rows]
    BY <1>3 DEF DividerRect
  <2> HIDE DEF f, d, g, a, b, c
  <2>5. a \in Rectangle /\ a.x = r.x /\ a.y = r.y /\ a.cols = f /\ a.rows = r.rows
    BY <2>1, <2>2 DEF Rectangle
  <2>6. b \in Rectangle /\ b.x = r.x + f + d /\ b.y = r.y /\ b.cols = g /\ b.rows = r.rows
    <3> DEFINE v == r.x + f + d
    <3>1. v \in Int /\ b = [r EXCEPT !.x = v, !.cols = g]
      BY <1>2, <2>1, <2>3
    <3> HIDE DEF v
    <3>2. b \in Rectangle /\ b.x = v /\ b.y = r.y /\ b.cols = g /\ b.rows = r.rows
      BY <2>1, <3>1 DEF Rectangle
    <3> QED BY <3>2 DEF v
  <2>7. c \in Rectangle /\ c.x = r.x + f /\ c.y = r.y /\ c.cols = d /\ c.rows = r.rows
    BY <2>1, <2>4 DEF Rectangle
  <2>8. Shares(r.x .. r.x + (f + d + g) - 1, r.x .. r.x + f - 1,
               r.x + f .. r.x + f + d - 1, r.x + f + d .. r.x + f + d + g - 1)
    BY <1>2, <2>1, SharesStrip
  <2>9. Shares((r.x .. r.x + (f + d + g) - 1) \X rows, (r.x .. r.x + f - 1) \X rows,
               (r.x + f .. r.x + f + d - 1) \X rows, (r.x + f + d .. r.x + f + d + g - 1) \X rows)
    BY <2>8, SharesColumns, Zenon
  <2>10. /\ Cells(r) = (r.x .. r.x + (f + d + g) - 1) \X rows
         /\ Cells(a) = (r.x .. r.x + f - 1) \X rows
         /\ Cells(c) = (r.x + f .. r.x + f + d - 1) \X rows
         /\ Cells(b) = (r.x + f + d .. r.x + f + d + g - 1) \X rows
    BY <2>1, <2>5, <2>6, <2>7, Zenon DEF Cells
  <2>11. Shares(Cells(r), Cells(a), Cells(c), Cells(b))
    BY <2>9, <2>10, Zenon
  <2> QED BY <2>5, <2>6, <2>7, <2>11 DEF a, b, c
<1>4. CASE n.dir = "down"
  <2> DEFINE f == First(r.rows, n.ratio)
             d == Divider(r.rows)
             g == Second(r.rows, n.ratio)
             cols == r.x .. r.x + r.cols - 1
  <2>1. f \in Nat /\ d \in Nat /\ g \in Nat /\ f + d + g = r.rows
    BY <1>1, <1>2, CellsConserved
  <2>2. a = [r EXCEPT !.rows = f]
    BY <1>4 DEF ChildRect
  <2>3. b = [r EXCEPT !.y = r.y + f + d, !.rows = g]
    BY <1>2, <1>4 DEF ChildRect
  <2>4. c = [x |-> r.x, y |-> r.y + f, cols |-> r.cols, rows |-> d]
    BY <1>4 DEF DividerRect
  <2> HIDE DEF f, d, g, a, b, c
  <2>5. a \in Rectangle /\ a.x = r.x /\ a.y = r.y /\ a.rows = f /\ a.cols = r.cols
    BY <2>1, <2>2 DEF Rectangle
  <2>6. b \in Rectangle /\ b.x = r.x /\ b.y = r.y + f + d /\ b.rows = g /\ b.cols = r.cols
    <3> DEFINE v == r.y + f + d
    <3>1. v \in Int /\ b = [r EXCEPT !.y = v, !.rows = g]
      BY <1>2, <2>1, <2>3
    <3> HIDE DEF v
    <3>2. b \in Rectangle /\ b.x = r.x /\ b.y = v /\ b.rows = g /\ b.cols = r.cols
      BY <2>1, <3>1 DEF Rectangle
    <3> QED BY <3>2 DEF v
  <2>7. c \in Rectangle /\ c.x = r.x /\ c.y = r.y + f /\ c.rows = d /\ c.cols = r.cols
    BY <2>1, <2>4 DEF Rectangle
  <2>8. Shares(r.y .. r.y + (f + d + g) - 1, r.y .. r.y + f - 1,
               r.y + f .. r.y + f + d - 1, r.y + f + d .. r.y + f + d + g - 1)
    BY <1>2, <2>1, SharesStrip
  <2>9. Shares(cols \X (r.y .. r.y + (f + d + g) - 1), cols \X (r.y .. r.y + f - 1),
               cols \X (r.y + f .. r.y + f + d - 1), cols \X (r.y + f + d .. r.y + f + d + g - 1))
    BY <2>8, SharesRows, Zenon
  <2>10. /\ Cells(r) = cols \X (r.y .. r.y + (f + d + g) - 1)
         /\ Cells(a) = cols \X (r.y .. r.y + f - 1)
         /\ Cells(c) = cols \X (r.y + f .. r.y + f + d - 1)
         /\ Cells(b) = cols \X (r.y + f + d .. r.y + f + d + g - 1)
    BY <2>1, <2>5, <2>6, <2>7, Zenon DEF Cells
  <2>11. Shares(Cells(r), Cells(a), Cells(c), Cells(b))
    BY <2>9, <2>10, Zenon
  <2> QED BY <2>5, <2>6, <2>7, <2>11 DEF a, b, c
<1> QED BY <1>1, <1>3, <1>4
-------------------------------------------------------------------------------
(* The rectangle of every subtree: the recursion of Rects. *)

Whole(area) == [x |-> 0, y |-> 0, cols |-> area.cols, rows |-> area.rows]

RectStep(t, area, f, p) ==
  IF p = <<>> THEN Whole(area) ELSE ChildRect(t[Front(p)], f[Front(p)], Last(p))

\* As far as the paths with most below them, some function is what the recursion says.
RectsDownTo(t, area, f, m) ==
  /\ f = [p \in DOMAIN t |-> f[p]]
  /\ \A p \in DOMAIN t : Size(t, p) + m > Cardinality(DOMAIN t) => f[p] = RectStep(t, area, f, p)

LEMMA SizesBounded ==
  ASSUME NEW t, IsTree(t)
  PROVE  /\ Cardinality(DOMAIN t) \in Nat
         /\ \A p \in DOMAIN t : /\ Size(t, p) \in Nat
                                /\ Size(t, p) <= Cardinality(DOMAIN t) /\ ~(Size(t, p) <= 0)
<1>1. IsFiniteSet(DOMAIN t)
  BY TreeWalk
<1>2. \A p \in DOMAIN t : Below(t, p) \subseteq DOMAIN t
  BY DEF Below
<1>3. Cardinality(DOMAIN t) \in Nat /\ \A p \in DOMAIN t : Size(t, p) <= Cardinality(DOMAIN t)
  BY <1>1, <1>2, FS_Subset, FS_CardinalityType DEF Size
<1> QED BY <1>3, SizePositive

LEMMA ParentLarger ==
  ASSUME NEW t, IsTree(t), NEW p \in DOMAIN t, p # <<>>
  PROVE  /\ Front(p) \in DOMAIN t /\ Front(p) \in BranchPaths(t) /\ Last(p) \in {0, 1}
         /\ p = Cat(Front(p), One(Last(p))) /\ Size(t, p) < Size(t, Front(p))
<1>1. Front(p) \in BranchPaths(t) /\ Last(p) \in {0, 1} /\ p = Cat(Front(p), One(Last(p)))
  BY TreeWalk
<1>2. Size(t, Cat(Front(p), One(Last(p)))) < Size(t, Front(p))
  BY <1>1, SizeFalls
<1> QED BY <1>1, <1>2, TreePaths

LEMMA RectsGoOn ==
  ASSUME NEW t, IsTree(t), NEW area, NEW m \in Nat, NEW f, RectsDownTo(t, area, f, m)
  PROVE  \E g : RectsDownTo(t, area, g, m + 1)
<1> DEFINE N == Cardinality(DOMAIN t)
           g == [p \in DOMAIN t |-> IF Size(t, p) + m > N THEN f[p] ELSE RectStep(t, area, f, p)]
<1>0. N \in Nat /\ \A p \in DOMAIN t : Size(t, p) \in Nat
  BY SizesBounded
<1>1. g = [p \in DOMAIN t |-> g[p]]
  OBVIOUS
<1>2. \A p \in DOMAIN t : g[p] = IF Size(t, p) + m > N THEN f[p] ELSE RectStep(t, area, f, p)
  OBVIOUS
<1>3. \A p \in DOMAIN t : Size(t, p) + m > N => f[p] = RectStep(t, area, f, p)
  BY DEF RectsDownTo
<1> HIDE DEF g, N
<1>4. ASSUME NEW p \in DOMAIN t, Size(t, p) + (m + 1) > N PROVE g[p] = RectStep(t, area, g, p)
  <2>1. RectStep(t, area, g, p) = RectStep(t, area, f, p)
    <3>1. CASE p = <<>>
      BY <3>1 DEF RectStep
    <3>2. CASE p # <<>>
      <4> DEFINE q == Front(p)
      <4>1. q \in DOMAIN t /\ Size(t, p) < Size(t, q)
        BY <3>2, ParentLarger
      <4>2. Size(t, q) + m > N
        BY <1>0, <1>4, <4>1
      <4>3. g[q] = f[q]
        BY <1>2, <4>1, <4>2
      <4> QED BY <3>2, <4>3 DEF RectStep
    <3> QED BY <3>1, <3>2
  <2> QED BY <1>2, <1>3, <2>1
<1>5. RectsDownTo(t, area, g, m + 1)
  BY <1>1, <1>4 DEF RectsDownTo, N
<1> QED BY <1>5

LEMMA RectsExist ==
  ASSUME NEW t, IsTree(t), NEW area
  PROVE  \E f : f = [p \in DOMAIN t |-> RectStep(t, area, f, p)]
<1> DEFINE N == Cardinality(DOMAIN t)
           T == {m \in Nat : ~\E f : RectsDownTo(t, area, f, m)}
<1>1. N \in Nat /\ \A p \in DOMAIN t : Size(t, p) \in Nat /\ Size(t, p) <= N /\ ~(Size(t, p) <= 0)
  BY SizesBounded
<1>2. T = {}
  <2> SUFFICES ASSUME T # {} PROVE FALSE
    OBVIOUS
  <2>1. T \subseteq Nat
    OBVIOUS
  <2> HIDE DEF T
  <2>2. PICK m \in T : \A k \in T : m <= k
    BY <2>1, LeastNatural
  <2>3. m \in Nat
    BY <2>1
  <2>4. CASE m = 0
    <3> DEFINE f == [p \in DOMAIN t |-> 0]
    <3>1. f = [p \in DOMAIN t |-> f[p]]
      OBVIOUS
    <3> HIDE DEF N
    <3>2. \A p \in DOMAIN t : ~(Size(t, p) + 0 > N)
      BY <1>1
    <3> HIDE DEF f
    <3>3. RectsDownTo(t, area, f, 0)
      BY <3>1, <3>2 DEF RectsDownTo, N
    <3> QED BY <2>2, <2>4, <3>3 DEF T
  <2>5. CASE m # 0
    <3>1. m - 1 \in Nat /\ ~(m <= m - 1) /\ (m - 1) + 1 = m
      BY <2>3, <2>5
    <3>2. m - 1 \notin T
      BY <2>2, <3>1
    <3>3. PICK f : RectsDownTo(t, area, f, m - 1)
      BY <3>1, <3>2 DEF T
    <3>4. \E g : RectsDownTo(t, area, g, (m - 1) + 1)
      BY <3>1, <3>3, RectsGoOn
    <3>5. \E g : RectsDownTo(t, area, g, m)
      BY <3>1, <3>4
    <3> QED BY <2>2, <3>5 DEF T
  <2> QED BY <2>4, <2>5
<1>3. PICK f : RectsDownTo(t, area, f, N)
  BY <1>1, <1>2
<1>4. \A p \in DOMAIN t : f[p] = RectStep(t, area, f, p)
  <2> HIDE DEF N
  <2>1. \A p \in DOMAIN t : Size(t, p) + N > N
    BY <1>1
  <2> QED BY <1>3, <2>1 DEF RectsDownTo, N
<1>5. f = [p \in DOMAIN t |-> f[p]]
  BY <1>3 DEF RectsDownTo
<1>6. f = [p \in DOMAIN t |-> RectStep(t, area, f, p)]
  BY <1>4, <1>5
<1> QED BY <1>6

LEMMA RectsAre ==
  ASSUME NEW t, IsTree(t), NEW area, NEW R, R = Rects(t, area)
  PROVE  R = [p \in DOMAIN t |-> RectStep(t, area, R, p)]
<1> DEFINE G == CHOOSE f : f = [p \in DOMAIN t |-> RectStep(t, area, f, p)]
<1>1. G = [p \in DOMAIN t |-> RectStep(t, area, G, p)]
  <2>1. \E f : f = [p \in DOMAIN t |-> RectStep(t, area, f, p)]
    BY RectsExist
  <2> QED BY <2>1
<1>2. R = G
  BY Zenon DEF Rects, RectStep, Whole
<1> QED BY <1>1, <1>2

\* R gives every subtree a rectangle, and a branch shares out its own.
Divides(t, R) ==
  /\ \A p \in DOMAIN t : R[p] \in Rectangle
  /\ \A p \in BranchPaths(t) :
       Shares(Cells(R[p]), Cells(R[Cat(p, One(0))]), Cells(DividerRect(t[p], R[p])), Cells(R[Cat(p, One(1))]))

LEMMA RectsDivide ==
  ASSUME NEW t, IsTree(t), Ruled(t), NEW area \in [cols : Nat, rows : Nat]
  PROVE  Divides(t, Rects(t, area)) /\ Rects(t, area)[<<>>] = Whole(area)
<1> DEFINE R == Rects(t, area)
<1>1. \A p \in DOMAIN t : R[p] = RectStep(t, area, R, p)
  <2>1. R = [p \in DOMAIN t |-> RectStep(t, area, R, p)]
    BY RectsAre
  <2> HIDE DEF R
  <2> QED BY <2>1
<1> HIDE DEF R
<1>2. R[<<>>] = Whole(area) /\ <<>> \in DOMAIN t
  BY <1>1, TreeWalk DEF RectStep
<1>3. Whole(area) \in Rectangle
  BY DEF Whole, Rectangle
<1>4. \A p \in BranchPaths(t), i \in {0, 1} :
        Cat(p, One(i)) \in DOMAIN t /\ R[Cat(p, One(i))] = ChildRect(t[p], R[p], i)
  <2> SUFFICES ASSUME NEW p \in BranchPaths(t), NEW i \in {0, 1}
               PROVE  Cat(p, One(i)) \in DOMAIN t /\ R[Cat(p, One(i))] = ChildRect(t[p], R[p], i)
    OBVIOUS
  <2> DEFINE c == Cat(p, One(i))
  <2>1. c \in DOMAIN t /\ p \in Paths
    BY TreeWalk, TreePaths
  <2>2. c # <<>> /\ Front(c) = p /\ Last(c) = i
    BY <2>1, PathEnds DEF Cat, One
  <2> HIDE DEF c
  <2>3. R[c] = ChildRect(t[p], R[p], i)
    BY <1>1, <2>1, <2>2 DEF RectStep
  <2> QED BY <2>1, <2>3 DEF c
<1> DEFINE T == {m \in Nat : \E p \in DOMAIN t : Cardinality(DOMAIN t) - Size(t, p) = m /\ R[p] \notin Rectangle}
<1>5. T = {}
  <2> SUFFICES ASSUME T # {} PROVE FALSE
    OBVIOUS
  <2>1. T \subseteq Nat
    OBVIOUS
  <2> HIDE DEF T
  <2>2. PICK m \in T : \A k \in T : m <= k
    BY <2>1, LeastNatural
  <2>3. PICK p \in DOMAIN t : Cardinality(DOMAIN t) - Size(t, p) = m /\ R[p] \notin Rectangle
    BY <2>2 DEF T
  <2>4. p # <<>>
    BY <1>2, <1>3, <2>3
  <2> DEFINE q == Front(p)
             N == Cardinality(DOMAIN t)
  <2>5. q \in DOMAIN t /\ q \in BranchPaths(t) /\ Last(p) \in {0, 1} /\ p = Cat(q, One(Last(p))) /\ Size(t, p) < Size(t, q)
    BY <2>4, ParentLarger
  <2>6. N \in Nat /\ Size(t, p) \in Nat /\ Size(t, q) \in Nat /\ Size(t, q) <= N
    BY <2>5, SizesBounded
  <2>7. R[p] = ChildRect(t[q], R[q], Last(p))
    BY <1>4, <2>5
  <2> HIDE DEF q, N
  <2>8. N - Size(t, q) \in Nat /\ ~(m <= N - Size(t, q))
    BY <2>3, <2>5, <2>6 DEF N
  <2>9. R[q] \in Rectangle
    BY <2>2, <2>5, <2>8 DEF T, N
  <2>10. t[q] \in Rule
    BY <2>5 DEF Ruled
  <2> QED BY <2>3, <2>5, <2>7, <2>9, <2>10, BranchCells
<1>6. ASSUME NEW p \in DOMAIN t PROVE R[p] \in Rectangle
  <2> DEFINE N == Cardinality(DOMAIN t)
  <2>1. N \in Nat /\ Size(t, p) \in Nat /\ Size(t, p) <= N
    BY SizesBounded
  <2> HIDE DEF N
  <2>2. N - Size(t, p) \in Nat
    BY <2>1
  <2> QED BY <1>5, <2>2 DEF N
<1>7. ASSUME NEW p \in BranchPaths(t)
      PROVE  Shares(Cells(R[p]), Cells(R[Cat(p, One(0))]), Cells(DividerRect(t[p], R[p])), Cells(R[Cat(p, One(1))]))
  <2>1. p \in DOMAIN t /\ t[p] \in Rule
    BY TreePaths DEF Ruled
  <2>2. R[Cat(p, One(0))] = ChildRect(t[p], R[p], 0) /\ R[Cat(p, One(1))] = ChildRect(t[p], R[p], 1)
    BY <1>4
  <2>3. R[p] \in Rectangle
    BY <1>6, <2>1
  <2>4. Shares(Cells(R[p]), Cells(ChildRect(t[p], R[p], 0)), Cells(DividerRect(t[p], R[p])),
               Cells(ChildRect(t[p], R[p], 1)))
    BY <2>1, <2>3, BranchCells
  <2> QED BY <2>2, <2>4
<1>8. Divides(t, R)
  BY <1>6, <1>7 DEF Divides
<1> QED BY <1>2, <1>8 DEF R
-------------------------------------------------------------------------------
(* The tiles of a layout: its panes and its dividers. *)

Tile(t, R, p) == Cells(IF IsLeaf(t[p]) THEN R[p] ELSE DividerRect(t[p], R[p]))

LEMMA CatOn ==
  ASSUME NEW p \in Paths, NEW q \in Paths, NEW i \in {0, 1}
  PROVE  /\ One(i) \in Paths /\ One(i) # <<>> /\ Cat(p, One(i)) \in Paths /\ Cat(p, q) \in Paths
         /\ Cat(One(i), q) \in Paths /\ Cat(One(i), q) # <<>>
         /\ Cat(p, Cat(One(i), q)) = Cat(Cat(p, One(i)), q)
         /\ Cat(p, Cat(q, One(i))) = Cat(Cat(p, q), One(i))
<1>1. One(i) \in Paths /\ One(i) # <<>>
  BY CatIn DEF One
<1>2. Cat(p, One(i)) \in Paths /\ Cat(p, q) \in Paths /\ Cat(One(i), q) \in Paths
  BY <1>1, CatIn
<1>3. Cat(One(i), q) # <<>>
  BY PathEnds, Zenon DEF Cat, One
<1>4. Cat(p, Cat(One(i), q)) = Cat(Cat(p, One(i)), q)
  BY <1>1, CatAssoc
<1>5. Cat(p, Cat(q, One(i))) = Cat(Cat(p, q), One(i))
  BY <1>1, CatAssoc
<1> QED BY <1>1, <1>2, <1>3, <1>4, <1>5

\* What lies below a path lies inside of its rectangle.
LEMMA Nested ==
  ASSUME NEW t, IsTree(t), NEW R, Divides(t, R), NEW p \in Paths, NEW r \in Paths, Cat(p, r) \in DOMAIN t
  PROVE  Cells(R[Cat(p, r)]) \subseteq Cells(R[p])
<1> DEFINE In(s) == Cells(R[Cat(p, s)]) \subseteq Cells(R[p])
           T == {m \in Nat : \E s \in Paths : Len(s) = m /\ Cat(p, s) \in DOMAIN t /\ ~In(s)}
<1>1. T = {}
  <2> SUFFICES ASSUME T # {} PROVE FALSE
    OBVIOUS
  <2>1. T \subseteq Nat
    OBVIOUS
  <2> HIDE DEF T
  <2>2. PICK m \in T : \A k \in T : m <= k
    BY <2>1, LeastNatural
  <2>3. PICK s \in Paths : Len(s) = m /\ Cat(p, s) \in DOMAIN t /\ ~In(s)
    BY <2>2 DEF T
  <2>4. Cat(p, <<>>) = p /\ Len(s) \in Nat
    BY EndEmpty DEF Cat
  <2>5. s # <<>>
    <3> SUFFICES ASSUME s = <<>> PROVE FALSE
      OBVIOUS
    <3>1. Cat(p, s) = p
      BY <2>4
    <3> QED BY <2>3, <3>1
  <2>6. PICK q \in Paths, i \in {0, 1} : s = Cat(q, One(i)) /\ Len(q) = Len(s) - 1
    <3>1. Front(s) \in Paths /\ Last(s) \in {0, 1} /\ s = Cat(Front(s), One(Last(s))) /\ Len(Front(s)) = Len(s) - 1
      BY <2>5, PathEnds DEF Cat, One
    <3> QED BY <3>1
  <2> DEFINE c == Cat(p, q)
  <2>7. Cat(p, s) = Cat(c, One(i)) /\ c \in Paths /\ One(i) \in Paths
    <3>1. One(i) \in Paths /\ Cat(p, q) \in Paths
      BY CatOn
    <3>2. Cat(p, Cat(q, One(i))) = Cat(Cat(p, q), One(i))
      BY <3>1, CatAssoc
    <3> QED BY <2>6, <3>1, <3>2
  <2>8. One(i) # <<>>
    BY <2>6, CatOn
  <2> HIDE DEF c
  <2>9. c \in BranchPaths(t) /\ c \in DOMAIN t
    BY <2>3, <2>7, <2>8, TreeWalk, TreePaths
  <2>10. Len(q) \in Nat /\ ~(m <= Len(q))
    BY <2>3, <2>4, <2>6, EndEmpty
  <2>11. Cells(R[c]) \subseteq Cells(R[p])
    BY <2>2, <2>6, <2>9, <2>10 DEF T, c
  <2>12. Shares(Cells(R[c]), Cells(R[Cat(c, One(0))]), Cells(DividerRect(t[c], R[c])), Cells(R[Cat(c, One(1))]))
    BY <2>9 DEF Divides
  <2>13. Cells(R[Cat(c, One(i))]) \subseteq Cells(R[c])
    BY <2>6, <2>12 DEF Shares
  <2> QED BY <2>3, <2>7, <2>11, <2>13
<1>2. Len(r) \in Nat
  BY EndEmpty
<1> QED BY <1>1, <1>2

LEMMA TileWithin ==
  ASSUME NEW t, IsTree(t), NEW R, Divides(t, R), NEW p \in DOMAIN t
  PROVE  Tile(t, R, p) \subseteq Cells(R[p])
<1>1. CASE IsLeaf(t[p])
  BY <1>1 DEF Tile
<1>2. CASE ~IsLeaf(t[p])
  <2>1. p \in BranchPaths(t)
    BY <1>2, TreePaths
  <2>2. Shares(Cells(R[p]), Cells(R[Cat(p, One(0))]), Cells(DividerRect(t[p], R[p])), Cells(R[Cat(p, One(1))]))
    BY <2>1 DEF Divides
  <2> QED BY <1>2, <2>2 DEF Tile, Shares
<1> QED BY <1>1, <1>2

LEMMA TileBelow ==
  ASSUME NEW t, IsTree(t), NEW R, Divides(t, R), NEW p \in Paths, NEW r \in Paths, Cat(p, r) \in DOMAIN t
  PROVE  Tile(t, R, Cat(p, r)) \subseteq Cells(R[p])
<1>1. Cells(R[Cat(p, r)]) \subseteq Cells(R[p])
  BY Nested
<1>2. Tile(t, R, Cat(p, r)) \subseteq Cells(R[Cat(p, r)])
  BY TileWithin
<1> QED BY <1>1, <1>2

\* Every cell of the whole is in a tile: in that of the least subtree whose rectangle has it.
LEMMA TilesCover ==
  ASSUME NEW t, IsTree(t), NEW R, Divides(t, R), NEW z \in Cells(R[<<>>])
  PROVE  \E p \in DOMAIN t : z \in Tile(t, R, p)
<1> DEFINE T == {Size(t, p) : p \in {q \in DOMAIN t : z \in Cells(R[q])}}
<1>1. T \subseteq Nat
  BY SizeFalls
<1>2. T # {}
  BY TreeWalk
<1> HIDE DEF T
<1>3. PICK m \in T : \A k \in T : m <= k
  BY <1>1, <1>2, LeastNatural
<1>4. PICK p \in DOMAIN t : z \in Cells(R[p]) /\ Size(t, p) = m
  BY <1>3 DEF T
<1>5. CASE IsLeaf(t[p])
  BY <1>4, <1>5 DEF Tile
<1>6. CASE ~IsLeaf(t[p])
  <2> DEFINE a == Cat(p, One(0))
             b == Cat(p, One(1))
  <2>1. p \in BranchPaths(t)
    BY <1>6, TreePaths
  <2>2. a \in DOMAIN t /\ b \in DOMAIN t
    BY <2>1, TreeWalk
  <2>3. Shares(Cells(R[p]), Cells(R[a]), Cells(DividerRect(t[p], R[p])), Cells(R[b]))
    BY <2>1 DEF Divides
  <2>4. Size(t, a) < Size(t, p) /\ Size(t, b) < Size(t, p)
    BY <2>1, SizeFalls
  <2>5. Size(t, a) \in Nat /\ Size(t, b) \in Nat /\ Size(t, p) \in Nat
    BY <2>2, SizeFalls
  <2> HIDE DEF a, b
  <2>6. Size(t, a) \notin T /\ Size(t, b) \notin T
    BY <1>3, <1>4, <2>4, <2>5
  <2>7. z \notin Cells(R[a]) /\ z \notin Cells(R[b])
    BY <2>2, <2>6 DEF T
  <2>8. z \in Cells(DividerRect(t[p], R[p]))
    BY <1>4, <2>3, <2>7 DEF Shares
  <2> QED BY <1>6, <2>8 DEF Tile
<1> QED BY <1>5, <1>6

\* No cell is in two tiles.
LEMMA BelowApart ==
  ASSUME NEW t, IsTree(t), NEW R, Divides(t, R), NEW p \in DOMAIN t, NEW q \in DOMAIN t, Follows(p, q)
  PROVE  Tile(t, R, p) \cap Tile(t, R, q) = {}
<1>1. p \in Paths
  BY TreeWalk
<1>2. PICK i \in {0, 1}, r \in Paths : q = Cat(p, Cat(One(i), r))
  BY DEF Follows, Cat, One
<1> DEFINE c == Cat(p, One(i))
<1>3. Cat(One(i), r) \in Paths /\ c \in Paths /\ q = Cat(c, r)
  BY <1>1, <1>2, CatOn
<1>4. Cat(One(i), r) # <<>>
  BY CatOn
<1>5. p \in BranchPaths(t) /\ ~IsLeaf(t[p])
  <2> DEFINE e == Cat(One(i), r)
  <2>1. e \in Paths /\ e # <<>> /\ Cat(p, e) \in DOMAIN t
    BY <1>2, <1>3, <1>4
  <2> HIDE DEF e
  <2>2. p \in BranchPaths(t)
    BY <1>1, <2>1, TreeWalk
  <2> QED BY <2>2, TreePaths
<1> HIDE DEF c
<1>6. Tile(t, R, q) \subseteq Cells(R[c])
  BY <1>3, TileBelow
<1>7. Shares(Cells(R[p]), Cells(R[Cat(p, One(0))]), Cells(DividerRect(t[p], R[p])), Cells(R[Cat(p, One(1))]))
  BY <1>5 DEF Divides
<1>8. Cells(DividerRect(t[p], R[p])) \cap Cells(R[c]) = {}
  BY <1>7 DEF Shares, c
<1> QED BY <1>5, <1>6, <1>8 DEF Tile

LEMMA SidesApart ==
  ASSUME NEW t, IsTree(t), NEW R, Divides(t, R), NEW p \in DOMAIN t, NEW q \in DOMAIN t, Parted(p, q)
  PROVE  Tile(t, R, p) \cap Tile(t, R, q) = {}
<1>1. PICK c \in Paths, r \in Paths, s \in Paths, i \in {0, 1}, j \in {0, 1} :
        i # j /\ p = Cat(c, Cat(One(i), r)) /\ q = Cat(c, Cat(One(j), s))
  BY DEF Parted, Cat, One
<1> DEFINE a == Cat(c, One(i))
           b == Cat(c, One(j))
<1>2. Cat(One(i), r) \in Paths /\ a \in Paths /\ p = Cat(a, r) /\ b \in Paths /\ q = Cat(b, s)
  BY <1>1, CatOn
<1>3. Cat(One(i), r) # <<>>
  BY CatOn
<1>4. c \in BranchPaths(t)
  BY <1>1, <1>2, <1>3, TreeWalk
<1> HIDE DEF a, b
<1>5. Tile(t, R, p) \subseteq Cells(R[a]) /\ Tile(t, R, q) \subseteq Cells(R[b])
  BY <1>2, TileBelow
<1>6. Shares(Cells(R[c]), Cells(R[Cat(c, One(0))]), Cells(DividerRect(t[c], R[c])), Cells(R[Cat(c, One(1))]))
  BY <1>4 DEF Divides
<1>7. Cells(R[a]) \cap Cells(R[b]) = {}
  BY <1>1, <1>6 DEF Shares, a, b
<1> QED BY <1>5, <1>7

\* A layout tiles any area.
LEMMA LayoutTiles ==
  ASSUME NEW t, IsTree(t), Ruled(t), NEW area \in [cols : Nat, rows : Nat]
  PROVE  /\ UNION {Tile(t, Rects(t, area), p) : p \in DOMAIN t} = Cells(Whole(area))
         /\ \A p, q \in DOMAIN t : p # q => Tile(t, Rects(t, area), p) \cap Tile(t, Rects(t, area), q) = {}
<1> DEFINE R == Rects(t, area)
<1>1. Divides(t, R) /\ R[<<>>] = Whole(area)
  BY RectsDivide
<1> HIDE DEF R
<1>2. ASSUME NEW p \in DOMAIN t PROVE Tile(t, R, p) \subseteq Cells(Whole(area))
  <2>1. p \in Paths /\ <<>> \in Paths /\ Cat(<<>>, p) = p
    BY TreeWalk, EndEmpty DEF Cat
  <2>2. Tile(t, R, Cat(<<>>, p)) \subseteq Cells(R[<<>>])
    BY <1>1, <2>1, TileBelow
  <2> QED BY <1>1, <2>1, <2>2
<1>3. ASSUME NEW z \in Cells(Whole(area)) PROVE \E p \in DOMAIN t : z \in Tile(t, R, p)
  BY <1>1, TilesCover
<1>4. ASSUME NEW p \in DOMAIN t, NEW q \in DOMAIN t, p # q PROVE Tile(t, R, p) \cap Tile(t, R, q) = {}
  <2>1. p \in Paths /\ q \in Paths
    BY TreeWalk
  <2>2. Follows(p, q) \/ Follows(q, p) \/ Parted(p, q)
    BY <1>4, <2>1, ForkIs
  <2>3. CASE Follows(p, q)
    BY <1>1, <2>3, BelowApart
  <2>4. CASE Follows(q, p)
    <3>1. Tile(t, R, q) \cap Tile(t, R, p) = {}
      BY <1>1, <2>4, BelowApart
    <3> QED BY <3>1
  <2>5. CASE Parted(p, q)
    BY <1>1, <2>5, SidesApart
  <2> QED BY <2>2, <2>3, <2>4, <2>5
<1>5. UNION {Tile(t, R, p) : p \in DOMAIN t} = Cells(Whole(area))
  BY <1>2, <1>3
<1> QED BY <1>4, <1>5 DEF R
-------------------------------------------------------------------------------
(* The viewport of a workspace is always one that a client had. *)

Views(s) == \A w \in DOMAIN s.workspaces : s.workspaces[w].viewport \in Viewports

LEMMA SameViews ==
  ASSUME NEW s, Views(s), NEW t, Same(s, t)
  PROVE  Views(t)
BY DEF Same, Views

LEMMA ReleasedViews ==
  ASSUME NEW s, Leases(s), Consistent(s), Views(s), NEW c
  PROVE  Views(Released(s, c))
<1>1. /\ Reframes(s, Released(s, c))
      /\ \A v \in DOMAIN s.workspaces : Steady(s, Released(s, c), v)
  BY ReleasedReframes
<1> QED BY <1>1 DEF Reframes, Steady, Views

LEMMA GrantedViews ==
  ASSUME NEW r, Shaped(r), Views(r), NEW w \in DOMAIN r.workspaces, NEW c, NEW viewport \in Viewports
  PROVE  Views(Granted(r, c, w, viewport))
<1> DEFINE holder == r.workspaces[w].controller
           demoted == IF holder \in DOMAIN r.clients
                      THEN [r EXCEPT !.clients[holder] = [@ EXCEPT !.role = "observer"]] ELSE r
           viewed == WithViewport(demoted, w, viewport)
           taken == [viewed EXCEPT !.workspaces[w] = [@ EXCEPT !.controller = c]]
           u == Registered(taken, c, w, "controller")
           new == Put(taken.clients, c, [workspace |-> w, role |-> "controller"])
<1>1. DOMAIN demoted = DOMAIN r /\ demoted.workspaces = r.workspaces
  BY DEF Shaped
<1> HIDE DEF demoted, holder
<1>2. /\ DOMAIN viewed = DOMAIN r /\ DOMAIN viewed.workspaces = DOMAIN r.workspaces
      /\ \A v \in DOMAIN r.workspaces : viewed.workspaces[v].viewport \in Viewports
      /\ DOMAIN viewed.workspaces[w] = DOMAIN r.workspaces[w]
  BY <1>1 DEF WithViewport, Shaped, Views
<1> HIDE DEF viewed
<1>3. /\ DOMAIN taken = DOMAIN r /\ DOMAIN taken.workspaces = DOMAIN r.workspaces
      /\ \A v \in DOMAIN r.workspaces : taken.workspaces[v].viewport \in Viewports
  BY <1>2 DEF Shaped
<1> HIDE DEF taken, new
<1>4. u = [taken EXCEPT !.clients = new]
  BY DEF Registered, new
<1>5. u.workspaces = taken.workspaces
  BY <1>3, <1>4 DEF Shaped
<1>6. Granted(r, c, w, viewport) = u
  BY Zenon DEF Granted, u, taken, viewed, demoted, holder
<1> QED BY <1>3, <1>5, <1>6 DEF Views

LEMMA AttachViews ==
  ASSUME NEW s, Leases(s), Consistent(s), Views(s), NEW c, NEW w, NEW role, NEW takeover,
         NEW viewport \in Viewports, Attach(s, c, w, role, takeover, viewport).ok
  PROVE  Views(Attach(s, c, w, role, takeover, viewport).state)
<1> DEFINE r == Released(s, c)
<1>1. w \in DOMAIN s.workspaces
  BY DEF Attach, Refused
<1>2. Views(r) /\ Shaped(r) /\ DOMAIN r.workspaces = DOMAIN s.workspaces
  BY ReleasedViews, ReleasedReframes DEF Reframes
<1> HIDE DEF r
<1>3. Views(Registered(r, c, w, "observer"))
  BY <1>2, RegisteredFacts DEF Views
<1>4. Views(Reflowed(WithViewport(s, w, viewport), w).state)
  <2>1. Same(s, Reflowed(WithViewport(s, w, viewport), w).state)
    BY <1>1, WithViewportSame, ReflowedSame DEF Leases
  <2> QED BY <2>1, SameViews
<1>5. Views(Reflowed(Granted(r, c, w, viewport), w).state)
  <2> DEFINE u == Granted(r, c, w, viewport)
  <2>1. Views(u)
    BY <1>1, <1>2, GrantedViews
  <2>2. Shaped(u)
    <3>1. Reframes(s, u)
      <4>1. Reframes(s, r) /\ \A v \in DOMAIN s.workspaces : Steady(s, r, v)
        BY ReleasedReframes DEF r
      <4> QED BY <1>1, <4>1, GrantedReframes
    <3> QED BY <3>1 DEF Reframes
  <2> HIDE DEF u
  <2>3. Same(u, Reflowed(u, w).state)
    BY <2>2, SameRefl, ReflowedSame
  <2> QED BY <2>1, <2>3, SameViews DEF u
<1>6. Attach(s, c, w, role, takeover, viewport).state
        \in {Registered(r, c, w, "observer"),
             Reflowed(WithViewport(s, w, viewport), w).state,
             Reflowed(Granted(r, c, w, viewport), w).state}
  BY <1>1 DEF Attach, Refused, Quietly, r
<1> QED BY <1>3, <1>4, <1>5, <1>6

LEMMA DetachViews ==
  ASSUME NEW s, Leases(s), Consistent(s), Views(s), NEW c, Detach(s, c).ok
  PROVE  Views(Detach(s, c).state)
<1> DEFINE r == Released(s, c)
           left == [d \in DOMAIN s.clients \ {c} |-> s.clients[d]]
           u == [r EXCEPT !.clients = left]
<1>1. Views(r) /\ Shaped(r)
  BY ReleasedViews, ReleasedReframes DEF Reframes
<1>2. Detach(s, c).state = u
  BY DEF Detach, Refused, Quietly
<1> HIDE DEF r, left
<1>3. u.workspaces = r.workspaces
  BY <1>1 DEF Shaped
<1> QED BY <1>1, <1>2, <1>3 DEF Views

LEMMA RemoveWorkspaceViews ==
  ASSUME NEW s, Leases(s), Views(s), NEW w, RemoveWorkspace(s, w).ok
  PROVE  Views(RemoveWorkspace(s, w).state)
<1> DEFINE dropped == WithoutTerminals(s, TerminalsOf(s, w))
           order == Picked(dropped.order, {i \in DOMAIN dropped.order : dropped.order[i] # w})
           others == [v \in DOMAIN s.workspaces \ {w} |-> s.workspaces[v]]
           clients == [c \in ClientsElsewhere(s, w) |-> s.clients[c]]
           u == [dropped EXCEPT !.order = order, !.workspaces = others, !.clients = clients]
<1>1. \A v \in DOMAIN others : others[v].viewport \in Viewports
  BY DEF Views
<1>2. Shaped(dropped)
  BY WithoutTerminalsSame DEF Leases, Same
<1>3. RemoveWorkspace(s, w).state = u
  BY DEF RemoveWorkspace, Refused, Quietly
<1> HIDE DEF order, others, clients, dropped
<1>4. u.workspaces = others
  BY <1>2 DEF Shaped
<1> QED BY <1>1, <1>3, <1>4 DEF Views

LEMMA NewWorkspaceViews ==
  ASSUME NEW s, Shaped(s), Views(s), NEW w, NEW tabs, NEW active, NEW viewport \in Viewports
  PROVE  Views(NewWorkspace(s, w, tabs, active, viewport))
<1> DEFINE new == [tabs |-> tabs, active |-> active, controller |-> NoOne, viewport |-> viewport, rev |-> 0]
           all == Put(s.workspaces, w, new)
           order == Append(s.order, w)
           u == [s EXCEPT !.order = order, !.workspaces = all]
<1>1. \A v \in DOMAIN all : all[v].viewport \in Viewports
  BY DEF Put, Views
<1> HIDE DEF all, order
<1>2. u.workspaces = all
  BY DEF Shaped
<1> HIDE DEF u
<1> QED BY <1>1, <1>2 DEF NewWorkspace, Views, u, all, order, new

LEMMA RestoredViews ==
  ASSUME NEW s, Leases(s), Views(s), NEW w, NEW saved, NEW viewport \in Viewports
  PROVE  /\ Views(InstallRestoredSession(s, w, saved, viewport))
         /\ Views(CreateWorkspace(s, w, viewport))
<1> DEFINE n == Len(saved)
           claimed == NumbersClaimed(s, n)
<1>1. Same(s, claimed)
  BY DEF NumbersClaimed, Leases, Same, Shaped
<1> HIDE DEF claimed
<1>2. \A k, size : Same(s, Minted(claimed, k, size)) /\ Same(s, Minted(s, k, size))
  BY <1>1, MintedSame, SameTrans DEF Same, Leases
<1>3. \A k, size : /\ Shaped(Minted(claimed, k, size)) /\ Views(Minted(claimed, k, size))
                   /\ Shaped(Minted(s, k, size)) /\ Views(Minted(s, k, size))
  BY <1>2, SameViews DEF Same
<1>4. \A k, size, tabs, active :
        /\ Views(NewWorkspace(Minted(claimed, k, size), w, tabs, active, viewport))
        /\ Views(NewWorkspace(Minted(s, k, size), w, tabs, active, viewport))
  BY <1>3, NewWorkspaceViews
<1> QED BY <1>4, Zenon DEF InstallRestoredSession, CreateWorkspace, claimed, n
-----------------------------------------------------------------------------
\* The invariant of what is on the screen.
TileInv == LayoutInv /\ Views(mux)

LEMMA InitTileInv == Init => TileInv
<1> SUFFICES ASSUME Init PROVE TileInv
  OBVIOUS
<1>1. Leases(NewState) /\ Views(NewState)
  BY DEF NewState, Leases, Shaped, Views
<1>2. PICK viewport \in Viewports :
        \/ mux = CreateWorkspace(NewState, Home, viewport)
        \/ \E saved \in Saved : mux = InstallRestoredSession(NewState, Home, saved, viewport)
  BY DEF Init
<1>3. Views(mux)
  BY <1>1, <1>2, RestoredViews
<1> QED BY <1>3, InitLayoutInv DEF TileInv

LEMMA NextViews == ASSUME TileInv, Next PROVE Views(mux')
<1> USE DEF Apply
<1>0. Leases(mux) /\ Consistent(mux) /\ Views(mux)
  BY DEF TileInv, LayoutInv, TabsInv, IInv
<1>1. ASSUME DoCreateWorkspace PROVE Views(mux')
  BY <1>0, <1>1, RestoredViews DEF DoCreateWorkspace
<1>2. ASSUME DoRemoveWorkspace PROVE Views(mux')
  BY <1>0, <1>2, RemoveWorkspaceViews DEF DoRemoveWorkspace
<1>3. ASSUME DoAttach PROVE Views(mux')
  BY <1>0, <1>3, AttachViews DEF DoAttach
<1>4. ASSUME DoDetach PROVE Views(mux')
  BY <1>0, <1>4, DetachViews DEF DoDetach
<1>5. ASSUME DoResize PROVE Views(mux')
  BY <1>0, <1>5, ResizeViewportSame, SameViews DEF DoResize
<1>6. ASSUME DoFocus PROVE Views(mux')
  BY <1>0, <1>6, FocusPaneSame, FocusPaneInSame, SameViews DEF DoFocus
<1>7. ASSUME DoZoom PROVE Views(mux')
  BY <1>0, <1>7, ToggleZoomSame, SameViews DEF DoZoom
<1>8. ASSUME DoSplit PROVE Views(mux')
  BY <1>0, <1>8, SplitPaneSame, SameViews DEF DoSplit
<1>9. ASSUME DoClose PROVE Views(mux')
  BY <1>0, <1>9, ClosePaneSame, SameViews DEF DoClose
<1>10. ASSUME DoResizePane PROVE Views(mux')
  BY <1>0, <1>10, ResizePaneSame, SameViews DEF DoResizePane
<1>11. ASSUME DoDrag PROVE Views(mux')
  BY <1>0, <1>11, SetSplitRatioSame, SameViews DEF DoDrag
<1>12. ASSUME DoRearrange PROVE Views(mux')
  BY <1>0, <1>12, RearrangeSame, SameViews DEF DoRearrange
<1>13. ASSUME DoNewTab PROVE Views(mux')
  BY <1>0, <1>13, NewTabSame, SameViews DEF DoNewTab
<1>14. ASSUME DoSelectTab PROVE Views(mux')
  BY <1>0, <1>14, SelectTabSame, SameViews DEF DoSelectTab
<1>15. ASSUME DoCloseTab PROVE Views(mux')
  BY <1>0, <1>15, CloseTabSame, SameViews DEF DoCloseTab
<1>16. ASSUME DoBreakPane PROVE Views(mux')
  BY <1>0, <1>16, BreakPaneSame, SameViews DEF DoBreakPane
<1>17. ASSUME DoMoveTab PROVE Views(mux')
  BY <1>0, <1>17, MoveTabSame, SameViews DEF DoMoveTab
<1> QED BY <1>1, <1>2, <1>3, <1>4, <1>5, <1>6, <1>7, <1>8, <1>9, <1>10, <1>11, <1>12, <1>13,
           <1>14, <1>15, <1>16, <1>17 DEF Next

LEMMA NextTileInv == TileInv /\ [Next]_vars => TileInv'
<1> SUFFICES ASSUME TileInv, [Next]_vars PROVE TileInv'
  OBVIOUS
<1>1. LayoutInv'
  BY NextLayoutInv DEF TileInv
<1>2. CASE Next
  BY <1>1, <1>2, NextViews DEF TileInv
<1>3. CASE UNCHANGED vars
  BY <1>1, <1>3 DEF vars, TileInv
<1> QED BY <1>2, <1>3

\* derive_layout and derive_dividers, on every layout a workspace ever has: whatever the splits, the
\* drags and the viewport, down to none at all, each cell belongs to one pane or to one divider.
THEOREM PanesTiled == Spec => []PanesTile
<1>1. ASSUME TileInv PROVE PanesTile
  <2> SUFFICES ASSUME NEW w \in Open, NEW i \in DOMAIN mux.workspaces[w].tabs
               PROVE  LET layout == mux.workspaces[w].tabs[i].layout
                          area == mux.workspaces[w].viewport
                          rects == Rects(layout, area)
                      IN /\ UNION {Tile(layout, rects, p) : p \in DOMAIN layout} = Cells(Whole(area))
                         /\ \A p, q \in DOMAIN layout : p # q => Tile(layout, rects, p) \cap Tile(layout, rects, q) = {}
    BY Zenon DEF PanesTile, Tile, Whole
  <2> DEFINE t == mux.workspaces[w].tabs[i].layout
             area == mux.workspaces[w].viewport
  <2>1. area \in [cols : Nat, rows : Nat]
    BY <1>1, ViewportAssumption DEF TileInv, Views, Open
  <2>2. Sound(t)
    <3>1. mux.workspaces[w].tabs[i] \in AllTabs(mux)
      BY DEF AllTabs, TabsOf, Open
    <3> QED BY <1>1, <3>1 DEF TileInv, LayoutInv, Consistent, Forest, Planted, Holds
  <2>3. IsTree(t) /\ Ruled(t)
    BY <2>2 DEF Sound
  <2> HIDE DEF t, area
  <2>4. /\ UNION {Tile(t, Rects(t, area), p) : p \in DOMAIN t} = Cells(Whole(area))
        /\ \A p, q \in DOMAIN t : p # q => Tile(t, Rects(t, area), p) \cap Tile(t, Rects(t, area), q) = {}
    BY <2>1, <2>3, LayoutTiles
  <2> QED BY <2>4 DEF t, area
<1> QED BY InitTileInv, NextTileInv, <1>1, PTL DEF Spec
===============================================================================
