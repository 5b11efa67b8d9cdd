------------------------------- MODULE MuxState -------------------------------
(***************************************************************************)
(* The authoritative state of a comux server: copad-mux/src/state.rs.      *)
(*                                                                         *)
(* One actor owns the state and changes it by apply(command), which either *)
(* refuses the command and changes nothing or makes one whole change.  The *)
(* module has no variables: every command is an operator from a state (and *)
(* the command's fields) to a result                                       *)
(*     [ok       whether the command was accepted,                         *)
(*      state    the state afterwards,                                     *)
(*      resized  the terminals of the Resized event it returned]           *)
(* so that the actor (MuxActor) and the terminal interface (MuxApp), which *)
(* chains several commands in one step, use the same definitions.          *)
(*                                                                         *)
(* A state is a record                                                     *)
(*   order       the workspace identifiers in the order of the list        *)
(*   workspaces  id -> [tabs, active, controller, viewport, rev]           *)
(*   terminals   id -> [cols, rows]                                        *)
(*   clients     id -> [workspace, role]                                   *)
(*   nextPane, nextTerm, nextTab   the counters identifiers come from      *)
(* and a tab a record [id, layout, focused, zoomed, rev].                  *)
(***************************************************************************)
EXTENDS SplitTree, Picking, TLC

CONSTANTS NoOne,   \* None, of a controller or of a zoomed pane
          Api      \* the origin of a command that no client sent

\* The map f with k bound to v.
Put(f, k, v) == [x \in DOMAIN f \cup {k} |-> IF x = k THEN v ELSE f[x]]
\* The map f with every key of K bound to v.
PutAll(f, K, v) == [x \in DOMAIN f \cup K |-> IF x \in K THEN v ELSE f[x]]

NewState ==
  [order |-> <<>>, workspaces |-> <<>>, terminals |-> <<>>, clients |-> <<>>,
   nextPane |-> 0, nextTerm |-> 0, nextTab |-> 1]

Refused(s) == [ok |-> FALSE, state |-> s, resized |-> {}]
Quietly(s) == [ok |-> TRUE, state |-> s, resized |-> {}]

\* The one place of a set that has at most one, 0 if there is none.
Place(S) == IF S = {} THEN 0 ELSE CHOOSE i \in S : TRUE
TabIndex(s, w, id) == Place({i \in DOMAIN s.workspaces[w].tabs : s.workspaces[w].tabs[i].id = id})
TabOfPane(s, w, pane) ==
  Place({i \in DOMAIN s.workspaces[w].tabs : pane \in Panes(s.workspaces[w].tabs[i].layout)})
ActiveTab(s, w) == s.workspaces[w].tabs[TabIndex(s, w, s.workspaces[w].active)]

\* The zoomed pane, while it hides another one.
Zoomed(t) == t.zoomed # NoOne /\ t.zoomed \in Panes(t.layout) /\ ~IsSingleLeaf(t.layout)
Zoom(t) == IF Zoomed(t) THEN t.zoomed ELSE NoOne

\* The size the viewport and the layout give to each terminal that is shown.
Placed(t, area) ==
  IF Zoomed(t) THEN [term \in {TerminalOf(t.layout, t.zoomed)} |-> area] ELSE DeriveSizes(t.layout, area)
Visible(s, w) == Placed(ActiveTab(s, w), s.workspaces[w].viewport)

(* Mutant: every tab of the workspace follows the viewport.                *)
ReflowedEveryTab(s, w) ==
  LET area == s.workspaces[w].viewport
      Of(t) == LET i == SelectInSeq(s.workspaces[w].tabs, LAMBDA u : t \in Terminals(u.layout))
               IN IF i = 0 THEN s.terminals[t] ELSE DeriveSizes(s.workspaces[w].tabs[i].layout, area)[t]
  IN [ok |-> TRUE, resized |-> DOMAIN s.terminals,
      state |-> [s EXCEPT !.terminals = [t \in DOMAIN s.terminals |-> Of(t)]]]

\* recompute_sizes, at the end of every change of the viewport or of the active tab.
Sized(s, shown) ==
  [ok |-> TRUE, resized |-> DOMAIN shown \cap DOMAIN s.terminals,
   state |-> [s EXCEPT !.terminals =
     [t \in DOMAIN s.terminals |-> IF t \in DOMAIN shown THEN shown[t] ELSE s.terminals[t]]]]
Reflowed(s, w) == Sized(s, Visible(s, w))

(* Mutant: the change is left for the next resize to show.                 *)
ShownLater(s, w, id) == Quietly(s)

\* A change of tab id: shown at once if that tab is active.
Shown(s, w, id) == IF s.workspaces[w].active = id THEN Reflowed(s, w) ELSE Quietly(s)

\* What a command replaces in a workspace, and the revision it leaves behind.
Later(rev) == rev + 1
Touched(s, w) == [s EXCEPT !.workspaces[w].rev = Later(@)]
WithTab(s, w, i, t) == [s EXCEPT !.workspaces[w].tabs[i] = t]
WithTabs(s, w, tabs, active) ==
  LET old == s.workspaces[w]
  IN [s EXCEPT !.workspaces[w] = [old EXCEPT !.tabs = tabs, !.active = active, !.rev = Later(old.rev)]]
WithViewport(s, w, viewport) ==
  LET old == s.workspaces[w]
  IN [s EXCEPT !.workspaces[w] = [old EXCEPT !.viewport = viewport, !.rev = Later(old.rev)]]
-----------------------------------------------------------------------------
\* Identifiers.  A tab is <<workspace, number>>, as in "{workspace}:t{number}".
Fresh(s, k) == [pane |-> s.nextPane + k, terminal |-> s.nextTerm + k]
Minted(s, n, size) ==
  [s EXCEPT !.nextPane = @ + n, !.nextTerm = @ + n,
            !.terminals = PutAll(@, s.nextTerm .. s.nextTerm + n - 1, size)]
NewTabRecord(id, layout) ==
  [id |-> id, layout |-> layout, focused |-> LeftmostPane(layout), zoomed |-> NoOne, rev |-> 0]
NewWorkspace(s, w, tabs, active, viewport) ==
  [s EXCEPT !.order = Append(@, w),
            !.workspaces = Put(@, w, [tabs |-> tabs, active |-> active, controller |-> NoOne,
                                      viewport |-> viewport, rev |-> 0])]

CreateWorkspace(s, w, viewport) ==
  NewWorkspace(Minted(s, 1, viewport), w, <<NewTabRecord(<<w, 0>>, Leaf(Fresh(s, 0)))>>,
               <<w, 0>>, viewport)

TerminalsOf(s, w) == UNION {Terminals(s.workspaces[w].tabs[i].layout) : i \in DOMAIN s.workspaces[w].tabs}

WithoutTerminals(s, gone) ==
  [s EXCEPT !.terminals = [t \in DOMAIN s.terminals \ gone |-> s.terminals[t]]]

ClientsElsewhere(s, w) == {c \in DOMAIN s.clients : s.clients[c].workspace # w}

RemoveWorkspace(s, w) ==
  IF Cardinality(DOMAIN s.workspaces) <= 1 \/ w \notin DOMAIN s.workspaces THEN Refused(s)
  ELSE Quietly([WithoutTerminals(s, TerminalsOf(s, w)) EXCEPT
    !.order = Picked(@, {i \in DOMAIN @ : @[i] # w}),
    !.workspaces = [v \in DOMAIN s.workspaces \ {w} |-> s.workspaces[v]],
    !.clients = [c \in ClientsElsewhere(s, w) |-> s.clients[c]]])

\* A saved session: a sequence of [shape, active], where a shape is a tree whose leaves have no
\* identifiers yet.  Its tabs are numbered from 0 and its terminals start at the whole viewport.
LeavesUpTo(saved, i) == Cardinality(UNION {{j} \X LeafPaths(saved[j].shape) : j \in 1 .. i})
RestoredTree(s, t, before) ==
  [p \in DOMAIN t |-> IF IsLeaf(t[p]) THEN Fresh(s, before + Rank(t, p) - 1)
                      ELSE [t[p] EXCEPT !.ratio = Clamped(@)]]
RestoredTab(s, w, saved, i) ==
  NewTabRecord(<<w, i - 1>>, RestoredTree(s, saved[i].shape, LeavesUpTo(saved, i - 1)))

(* Mutant: the restored tabs take their numbers without the counter.       *)
NumbersUnclaimed(s, n) == s

NumbersClaimed(s, n) == [s EXCEPT !.nextTab = IF @ < n THEN n ELSE @]

InstallRestoredSession(s, w, saved, viewport) ==
  LET flagged == SelectInSeq(saved, LAMBDA t : t.active)
      active == IF flagged = 0 THEN 0 ELSE flagged - 1
  IN NewWorkspace(Minted(NumbersClaimed(s, Len(saved)), LeavesUpTo(saved, Len(saved)), viewport), w,
                  [i \in DOMAIN saved |-> RestoredTab(s, w, saved, i)], <<w, active>>, viewport)
-----------------------------------------------------------------------------
\* The control lease.
HoldsLease(s, c) ==
  /\ c \in DOMAIN s.clients
  /\ s.workspaces[s.clients[c].workspace].controller = c

(* Mutant: a client that moves away keeps its old lease.                   *)
StillHeld(s, c) == s

Released(s, c) ==
  LET w == s.clients[c].workspace
      held == s.workspaces[w]
  IN IF HoldsLease(s, c)
     THEN [s EXCEPT !.workspaces[w] = [held EXCEPT !.controller = NoOne, !.rev = Later(held.rev)]]
     ELSE s

Registered(s, c, w, role) ==
  [s EXCEPT !.clients = Put(@, c, [workspace |-> w, role |-> role])]

\* The lease of w passes to c: from nobody, or from an incumbent that stays as an observer.
Granted(s, c, w, viewport) ==
  LET holder == s.workspaces[w].controller
      demoted == IF holder \in DOMAIN s.clients
                 THEN [s EXCEPT !.clients[holder] = [@ EXCEPT !.role = "observer"]] ELSE s
      viewed == WithViewport(demoted, w, viewport)
  IN Registered([viewed EXCEPT !.workspaces[w] = [@ EXCEPT !.controller = c]], c, w, "controller")

Attach(s, c, w, role, takeover, viewport) ==
  LET holder == s.workspaces[w].controller
  IN IF w \notin DOMAIN s.workspaces THEN Refused(s)
     ELSE IF role = "observer" THEN Quietly(Registered(Released(s, c), c, w, "observer"))
     ELSE IF holder = c THEN Reflowed(WithViewport(s, w, viewport), w)
     ELSE IF holder # NoOne /\ ~takeover THEN Refused(s)
     ELSE Reflowed(Granted(Released(s, c), c, w, viewport), w)

Detach(s, c) ==
  IF c \notin DOMAIN s.clients THEN Refused(s)
  ELSE Quietly([Released(s, c) EXCEPT !.clients = [d \in DOMAIN s.clients \ {c} |-> s.clients[d]]])

\* require_controller_of_attached, of the commands that name no workspace.
Controls(s, c) ==
  c \in DOMAIN s.clients /\ s.clients[c].role = "controller" /\ HoldsLease(s, c)

\* authorize_mutation, of the commands that do.
Authorized(s, origin, w) ==
  /\ w \in DOMAIN s.workspaces
  /\ origin # Api => origin \in DOMAIN s.clients /\ s.clients[origin] = [workspace |-> w, role |-> "controller"]

ResizeViewport(s, c, viewport) ==
  IF ~Controls(s, c) THEN Refused(s)
  ELSE LET w == s.clients[c].workspace
       IN Reflowed(WithViewport(s, w, viewport), w)
-----------------------------------------------------------------------------
(* Mutant: the focus moves under an unchanged revision.                    *)
FocusedQuietly(t, pane) ==
  [t EXCEPT !.focused = pane, !.zoomed = IF @ # NoOne /\ @ # pane THEN NoOne ELSE @]

\* Focus and zoom.  Focusing another pane ends a zoom.
Focused(t, pane) ==
  [t EXCEPT !.focused = pane, !.rev = Later(@),
            !.zoomed = IF @ # NoOne /\ @ # pane THEN NoOne ELSE @]

FocusPane(s, c, pane) ==
  IF ~Controls(s, c) THEN Refused(s)
  ELSE LET w == s.clients[c].workspace
           i == TabIndex(s, w, s.workspaces[w].active)
           t == s.workspaces[w].tabs[i]
           focused == WithTab(s, w, i, Focused(t, pane))
       IN IF pane \notin Panes(t.layout) THEN Refused(s)
          ELSE IF t.zoomed \notin {NoOne, pane} THEN Reflowed(Touched(focused, w), w)
          ELSE Quietly(focused)

FocusPaneIn(s, origin, w, pane) ==
  LET i == TabOfPane(s, w, pane)
      t == s.workspaces[w].tabs[i]
      focused == WithTab(s, w, i, Focused(t, pane))
  IN IF ~Authorized(s, origin, w) \/ i = 0 THEN Refused(s)
     ELSE IF t.focused = pane THEN Quietly(s)
     ELSE IF t.zoomed \notin {NoOne, pane} /\ s.workspaces[w].active = t.id
     THEN Reflowed(Touched(focused, w), w)
     ELSE Quietly(focused)

ToggleZoom(s, origin, w) ==
  LET i == TabIndex(s, w, s.workspaces[w].active)
      t == s.workspaces[w].tabs[i]
  IN IF ~Authorized(s, origin, w) \/ IsSingleLeaf(t.layout) THEN Refused(s)
     ELSE Reflowed(WithTab(Touched(s, w), w, i,
            [t EXCEPT !.zoomed = IF @ = NoOne THEN t.focused ELSE NoOne, !.rev = Later(@)]), w)
-----------------------------------------------------------------------------
\* Panes.  A command on a layout may carry the revision its sender saw.
Current(t, ifRev) == ifRev = NoOne \/ ifRev = t.rev

\* A new layout ends the zoom, and a focused pane that left it is replaced by the leftmost one.
Relaid(t, layout) ==
  [t EXCEPT !.layout = layout, !.zoomed = NoOne, !.rev = Later(@),
            !.focused = IF @ \in Panes(layout) THEN @ ELSE LeftmostPane(layout)]

SplitPane(s, origin, w, pane, dir, ifRev) ==
  LET i == TabOfPane(s, w, pane)
      t == s.workspaces[w].tabs[i]
      minted == Minted(s, 1, [cols |-> 1, rows |-> 1])
      split == WithTab(minted, w, i, Relaid(t, SplitLeaf(t.layout, pane, dir, Fresh(s, 0))))
  IN IF ~Authorized(s, origin, w) \/ i = 0 THEN Refused(s)
     ELSE IF ~Current(t, ifRev) THEN Refused(s)
     ELSE Shown(Touched(split, w), w, t.id)

ClosePane(s, origin, w, pane, ifRev) ==
  LET i == TabOfPane(s, w, pane)
      t == s.workspaces[w].tabs[i]
      closed == WithTab(s, w, i, Relaid(t, RemoveLeaf(t.layout, pane)))
  IN IF ~Authorized(s, origin, w) \/ i = 0 THEN Refused(s)
     ELSE IF ~Current(t, ifRev) \/ IsSingleLeaf(t.layout) THEN Refused(s)
     ELSE Shown(WithoutTerminals(Touched(closed, w), {TerminalOf(t.layout, pane)}), w, t.id)

\* A change of ratios alone leaves focus and zoom as they are.
Redivided(s, w, i, layout) ==
  LET t == s.workspaces[w].tabs[i]
  IN IF layout = t.layout THEN Quietly(s)
     ELSE Shown(WithTab(Touched(s, w), w, i, [t EXCEPT !.layout = layout, !.rev = Later(@)]), w, t.id)

ResizePane(s, origin, w, pane, axis, grow) ==
  LET i == TabOfPane(s, w, pane)
  IN IF ~Authorized(s, origin, w) \/ i = 0 THEN Refused(s)
     ELSE Redivided(s, w, i, Resize(s.workspaces[w].tabs[i].layout, pane, axis, grow))

SetSplitRatio(s, origin, w, path, ratio) ==
  LET i == TabIndex(s, w, s.workspaces[w].active)
  IN IF ~Authorized(s, origin, w) THEN Refused(s)
     ELSE Redivided(s, w, i, SetRatioAt(s.workspaces[w].tabs[i].layout, path, ratio))

\* op is [kind |-> "swap", delta], [kind |-> "rotate", up], [kind |-> "spread"] or
\* [kind |-> "preset", preset].
Rearranged(layout, pane, op) ==
  IF IsSingleLeaf(layout) THEN layout
  ELSE CASE op.kind = "swap"   -> SwapWith(layout, pane, op.delta)
         [] op.kind = "rotate" -> Rotate(layout, op.up)
         [] op.kind = "spread" -> Spread(layout)
         [] OTHER              -> Preset(Leaves(layout), op.preset)

Rearrange(s, origin, w, pane, op) ==
  LET i == TabOfPane(s, w, pane)
      t == s.workspaces[w].tabs[i]
      layout == Rearranged(t.layout, pane, op)
      changed == layout # t.layout \/ (op.kind \in {"swap", "rotate"} /\ ~IsSingleLeaf(t.layout))
  IN IF ~Authorized(s, origin, w) \/ i = 0 THEN Refused(s)
     ELSE IF ~changed THEN Quietly(s)
     ELSE Shown(WithTab(Touched(s, w), w, i, Relaid(t, layout)), w, t.id)
-----------------------------------------------------------------------------
\* Tabs.
Numbered(s) == [s EXCEPT !.nextTab = @ + 1]

NewTab(s, origin, w, activate) ==
  LET id == <<w, s.nextTab>>
      minted == Numbered(Minted(s, 1, s.workspaces[w].viewport))
  IN IF ~Authorized(s, origin, w) THEN Refused(s)
     ELSE Reflowed(WithTabs(minted, w, Append(s.workspaces[w].tabs, NewTabRecord(id, Leaf(Fresh(s, 0)))),
                           IF activate THEN id ELSE s.workspaces[w].active), w)

SelectTab(s, origin, w, id) ==
  IF ~Authorized(s, origin, w) \/ TabIndex(s, w, id) = 0 THEN Refused(s)
  ELSE IF s.workspaces[w].active = id THEN Quietly(s)
  ELSE Reflowed(WithTabs(s, w, s.workspaces[w].tabs, id), w)

\* The active tab's place is taken by the tab that moves into its slot, or by the last one.
CloseTab(s, origin, w, id) ==
  LET i == TabIndex(s, w, id)
      tabs == s.workspaces[w].tabs
      left == RemoveAt(tabs, i)
      next == left[IF i > Len(left) THEN Len(left) ELSE i].id
      dropped == WithoutTerminals(s, Terminals(tabs[i].layout))
  IN IF ~Authorized(s, origin, w) \/ i = 0 THEN Refused(s)
     ELSE IF Len(tabs) = 1 THEN Refused(s)
     ELSE Reflowed(WithTabs(dropped, w, left,
                           IF s.workspaces[w].active = id THEN next ELSE s.workspaces[w].active), w)

\* The pane leaves its tab, with its terminal, for a new tab next to it.
BreakPane(s, origin, w, pane) ==
  LET i == TabOfPane(s, w, pane)
      t == s.workspaces[w].tabs[i]
      id == <<w, s.nextTab>>
      alone == NewTabRecord(id, Leaf(t.layout[PathOf(t.layout, pane)]))
      tabs == InsertAt([s.workspaces[w].tabs EXCEPT ![i] = Relaid(t, RemoveLeaf(t.layout, pane))], i + 1, alone)
  IN IF ~Authorized(s, origin, w) \/ i = 0 THEN Refused(s)
     ELSE IF IsSingleLeaf(t.layout) THEN Refused(s)
     ELSE Reflowed(WithTabs(Numbered(s), w, tabs, id), w)

MoveTab(s, origin, w, id, to) ==
  LET i == TabIndex(s, w, id)
      tabs == s.workspaces[w].tabs
      j == IF to > Len(tabs) THEN Len(tabs) ELSE to
  IN IF ~Authorized(s, origin, w) \/ i = 0 THEN Refused(s)
     ELSE IF i = j THEN Quietly(s)
     ELSE Quietly(WithTabs(s, w, InsertAt(RemoveAt(tabs, i), j, tabs[i]), s.workspaces[w].active))
-----------------------------------------------------------------------------
\* A state up to the names of its panes, terminals and tabs, which are only compared, and
\* without the revisions and counters, which only grow.
TabShape(s, t) ==
  [layout  |-> [p \in DOMAIN t.layout |->
                  IF ~IsLeaf(t.layout[p]) THEN t.layout[p]
                  ELSE IF t.layout[p].terminal \in DOMAIN s.terminals THEN s.terminals[t.layout[p].terminal]
                  ELSE NoOne],
   focused |-> {p \in LeafPaths(t.layout) : t.layout[p].pane = t.focused},
   zoomed  |-> {p \in LeafPaths(t.layout) : t.layout[p].pane = t.zoomed}]

ShapeOf(s) ==
  [order      |-> s.order,
   clients    |-> s.clients,
   live       |-> Cardinality(DOMAIN s.terminals),
   ahead      |-> \A w \in DOMAIN s.workspaces : \A i \in DOMAIN s.workspaces[w].tabs :
                    s.workspaces[w].tabs[i].id[2] < s.nextTab,
   workspaces |-> [w \in DOMAIN s.workspaces |->
     [s.workspaces[w] EXCEPT !.rev = 0, !.active = TabIndex(s, w, @),
                             !.tabs = [i \in DOMAIN @ |-> TabShape(s, @[i])]]]]
=============================================================================
