------------------------------- MODULE MuxActor -------------------------------
(***************************************************************************)
(* The actor of copad-mux/src/state.rs: one state, changed by one command  *)
(* at a time, from clients and from the control API in any order.  The     *)
(* commands themselves are the operators of MuxState.                      *)
(***************************************************************************)
EXTENDS MuxState

CONSTANTS Clients,        \* the clients that attach
          Workspaces,     \* the workspace identifiers in use
          Home,           \* the workspace a server starts with
          Viewports,      \* the sizes a client may have
          Ratios,         \* the ratios a pointer drag asks for
          Ops,            \* the rearrangements a client asks for
          Saved,          \* the sessions a snapshot may hold: sequences of [shape, active]
          MaxPanes,       \* bound: panes alive at once
          MaxTabs         \* bound: tabs of a workspace at once

ASSUME HomeAssumption == Home \in Workspaces
ASSUME ViewportAssumption == \A viewport \in Viewports : viewport \in [cols : Nat, rows : Nat]
ASSUME RatioAssumption == \A ratio \in Ratios : ratio \in Int
ASSUME OpAssumption == \A op \in Ops : op.kind = "swap" => op.delta \in Int

\* A session that is restored has a tab, and its layouts are trees.
ASSUME SavedAssumption ==
  \A saved \in Saved :
    /\ saved \in Seq({saved[i] : i \in DOMAIN saved}) /\ saved # <<>>
    /\ \A i \in DOMAIN saved :
         LET t == saved[i].shape
         IN /\ t \in [DOMAIN t -> {t[p] : p \in DOMAIN t}] /\ IsFiniteSet(DOMAIN t)
            /\ <<>> \in DOMAIN t /\ \A p \in DOMAIN t : p \in Seq({0, 1})
            /\ \A p \in DOMAIN t \ {<<>>} : Front(p) \in BranchPaths(t)
            /\ \A p \in BranchPaths(t) : /\ {p \o <<0>>, p \o <<1>>} \subseteq DOMAIN t
                                         /\ t[p] \in [dir : {"right", "down"}, ratio : Int]

ASSUME OriginAssumption == /\ Api \notin Clients
                           /\ NoOne \notin Clients

VARIABLE mux

vars == <<mux>>

Origins == Clients \cup {Api}
Open == DOMAIN mux.workspaces
Live(w) == UNION {Panes(mux.workspaces[w].tabs[i].layout) : i \in DOMAIN mux.workspaces[w].tabs}
TabIds(w) == {mux.workspaces[w].tabs[i].id : i \in DOMAIN mux.workspaces[w].tabs}
Revisions(w) == {mux.workspaces[w].tabs[i].rev : i \in DOMAIN mux.workspaces[w].tabs}

\* An accepted command replaces the state; a refused one leaves it alone.
Apply(result) == result.ok /\ mux' = result.state

\* A server starts with one fresh workspace, or with a saved session.
Init ==
  \E viewport \in Viewports :
    \/ mux = CreateWorkspace(NewState, Home, viewport)
    \/ \E saved \in Saved : mux = InstallRestoredSession(NewState, Home, saved, viewport)

DoCreateWorkspace ==
  \E w \in Workspaces \ Open, viewport \in Viewports :
    /\ Cardinality(DOMAIN mux.terminals) < MaxPanes
    /\ mux' = CreateWorkspace(mux, w, viewport)

DoRemoveWorkspace == \E w \in Open : Apply(RemoveWorkspace(mux, w))

DoAttach ==
  \E c \in Clients, w \in Workspaces, role \in {"controller", "observer"}, takeover \in BOOLEAN,
     viewport \in Viewports : Apply(Attach(mux, c, w, role, takeover, viewport))

DoDetach == \E c \in Clients : Apply(Detach(mux, c))

DoResize == \E c \in Clients, viewport \in Viewports : Apply(ResizeViewport(mux, c, viewport))

DoFocus ==
  \E w \in Open : \E pane \in Live(w) :
    \/ \E c \in Clients : Apply(FocusPane(mux, c, pane))
    \/ \E o \in Origins : Apply(FocusPaneIn(mux, o, w, pane))

DoZoom == \E o \in Origins, w \in Open : Apply(ToggleZoom(mux, o, w))

DoSplit ==
  \E o \in Origins, w \in Open, dir \in {"right", "down"} :
    \E pane \in Live(w), ifRev \in {NoOne} \cup Revisions(w) :
      /\ Cardinality(DOMAIN mux.terminals) < MaxPanes
      /\ Apply(SplitPane(mux, o, w, pane, dir, ifRev))

DoClose ==
  \E o \in Origins, w \in Open : \E pane \in Live(w), ifRev \in {NoOne} \cup Revisions(w) :
    Apply(ClosePane(mux, o, w, pane, ifRev))

DoResizePane ==
  \E o \in Origins, w \in Open, axis \in {"right", "down"}, grow \in BOOLEAN :
    \E pane \in Live(w) : Apply(ResizePane(mux, o, w, pane, axis, grow))

DoDrag ==
  \E o \in Origins, w \in Open, ratio \in Ratios :
    \E path \in BranchPaths(ActiveTab(mux, w).layout) : Apply(SetSplitRatio(mux, o, w, path, ratio))

DoRearrange ==
  \E o \in Origins, w \in Open, op \in Ops : \E pane \in Live(w) : Apply(Rearrange(mux, o, w, pane, op))

DoNewTab ==
  \E o \in Origins, w \in Open, activate \in BOOLEAN :
    /\ Cardinality(DOMAIN mux.terminals) < MaxPanes
    /\ Len(mux.workspaces[w].tabs) < MaxTabs
    /\ Apply(NewTab(mux, o, w, activate))

DoSelectTab == \E o \in Origins, w \in Open : \E id \in TabIds(w) : Apply(SelectTab(mux, o, w, id))

DoCloseTab == \E o \in Origins, w \in Open : \E id \in TabIds(w) : Apply(CloseTab(mux, o, w, id))

DoBreakPane ==
  \E o \in Origins, w \in Open : \E pane \in Live(w) :
    Len(mux.workspaces[w].tabs) < MaxTabs /\ Apply(BreakPane(mux, o, w, pane))

DoMoveTab ==
  \E o \in Origins, w \in Open, to \in 1 .. MaxTabs : \E id \in TabIds(w) : Apply(MoveTab(mux, o, w, id, to))

Next ==
  \/ DoCreateWorkspace \/ DoRemoveWorkspace
  \/ DoAttach \/ DoDetach \/ DoResize
  \/ DoFocus \/ DoZoom
  \/ DoSplit \/ DoClose \/ DoResizePane \/ DoDrag \/ DoRearrange
  \/ DoNewTab \/ DoSelectTab \/ DoCloseTab \/ DoBreakPane \/ DoMoveTab

Spec == Init /\ [][Next]_vars
-----------------------------------------------------------------------------
\* What TLC tells states apart by.
Shape == ShapeOf(mux)
-----------------------------------------------------------------------------
(* G1: a workspace has a controller exactly when one attached client has the controller role in
   it, whoever detaches, moves away, steps down, is taken over or loses the workspace
   (check_g1). *)
G1 ==
  \A w \in Open :
    {c \in DOMAIN mux.clients : mux.clients[c] = [workspace |-> w, role |-> "controller"]}
      = {mux.workspaces[w].controller} \ {NoOne}

(* The order lists every workspace once, the leaves of all layouts and the terminals of the state
   are the same set, no pane or terminal is in two places, the focused pane is in its tab, the
   active tab exists, and no two tabs share an identifier, whatever was split, closed, broken out,
   moved or restored (check_tree_consistency and the comment in install_restored_session). *)
TreeConsistency ==
  /\ Open = ToSet(mux.order) /\ Len(mux.order) = Cardinality(Open)
  /\ UNION {TerminalsOf(mux, w) : w \in Open} = DOMAIN mux.terminals
  /\ \A w \in Open : \A i \in DOMAIN mux.workspaces[w].tabs :
       LET t == mux.workspaces[w].tabs[i]
       IN /\ t.focused \in Panes(t.layout)
          /\ Cardinality(Terminals(t.layout)) = Cardinality(LeafPaths(t.layout))
          /\ \A v \in Open : \A j \in DOMAIN mux.workspaces[v].tabs :
               <<v, j>> # <<w, i>> =>
                 LET u == mux.workspaces[v].tabs[j]
                 IN /\ t.id # u.id
                    /\ Panes(t.layout) \cap Panes(u.layout) = {}
                    /\ Terminals(t.layout) \cap Terminals(u.layout) = {}
  /\ \A w \in Open : mux.workspaces[w].active \in TabIds(w)

(* G2: in a controlled workspace every terminal that is shown has exactly the size its place in
   the layout and the controller's viewport give it (recompute_sizes). *)
SizesDerived ==
  \A w \in Open : mux.workspaces[w].controller # NoOne =>
    LET shown == Visible(mux, w)
    IN \A t \in DOMAIN shown : mux.terminals[t] = shown[t]

Cells(r) == (r.x .. r.x + r.cols - 1) \X (r.y .. r.y + r.rows - 1)

(* The panes and dividers of every tab cover each cell of the viewport exactly once, down to
   viewports too small for the panes (split3, derive_layout and derive_dividers). *)
PanesTile ==
  \A w \in Open : \A i \in DOMAIN mux.workspaces[w].tabs :
    LET layout == mux.workspaces[w].tabs[i].layout
        area == mux.workspaces[w].viewport
        rects == Rects(layout, area)
        Tile(p) == Cells(IF IsLeaf(layout[p]) THEN rects[p] ELSE DividerRect(layout[p], rects[p]))
    IN /\ UNION {Tile(p) : p \in DOMAIN layout} = Cells([x |-> 0, y |-> 0, cols |-> area.cols, rows |-> area.rows])
       /\ \A p, q \in DOMAIN layout : p # q => Tile(p) \cap Tile(q) = {}

TabsOf(s, w) == {s.workspaces[w].tabs[i] : i \in DOMAIN s.workspaces[w].tabs}

(* M2: a command that changes the layout, the focus or the zoom of a tab gives the tab a new
   revision, so that an edit computed on what a client saw before is refused as stale. *)
RevTellsLayout ==
  [][\A w \in Open \cap DOMAIN mux'.workspaces :
       \A t \in TabsOf(mux, w), u \in TabsOf(mux', w) : t.id = u.id =>
         /\ u.rev >= t.rev
         /\ [u EXCEPT !.rev = 0] # [t EXCEPT !.rev = 0] => u.rev > t.rev]_vars

(* G3: a command resizes only terminals that are on show after it, in a workspace whose revision
   it raised: background tabs, panes hidden by a zoom and the other workspaces keep the sizes they
   had. *)
HiddenFrozen ==
  [][\A w \in Open \cap DOMAIN mux'.workspaces :
       \A t \in TerminalsOf(mux, w) \cap DOMAIN mux'.terminals :
         mux'.terminals[t] # mux.terminals[t] =>
           /\ t \in DOMAIN Visible(mux', w)
           /\ mux'.workspaces[w].rev > mux.workspaces[w].rev]_vars
=============================================================================
