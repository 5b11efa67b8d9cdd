-------------------------------- MODULE MuxApp --------------------------------
(***************************************************************************)
(* The comux server's App (copad-mux/src/tui.rs): it owns the state of     *)
(* MuxState, the program behind every terminal, and what is on screen.     *)
(* Keys, pointers and control requests reach it one at a time, and each    *)
(* handler is one step: it may apply several commands, spawn a shell that  *)
(* may fail to start, undo what it did, resize programs and move the view. *)
(*                                                                         *)
(* app is the App struct:                                                  *)
(*   mux      its State            ws       the session on screen          *)
(*   panes    terminal -> the size its program was told                    *)
(*   screen   the terminal's size  sidebar  whether the sidebar is up      *)
(*   gen      view_gen             drag     the divider drag, or None      *)
(*   next     next_session         mru      sessions, last visited first   *)
(*   zoom     last_zoom                                                    *)
(* Session 0 is "local" and session n is "s{n}".  All terminals attached   *)
(* to the server share this one view as client Me.                         *)
(***************************************************************************)
EXTENDS MuxState

CONSTANTS Me,            \* the client every attached terminal acts as
          Pointers,      \* the terminals attached: who may hold a divider
          Screens,       \* sizes of the terminal
          SIDEBAR,       \* columns of the sidebar and its border
          SIDEBAR_MIN,   \* the narrowest terminal that shows it
          STATUS,        \* rows of the status bar
          Ratios, Nudges, Ops,   \* what a pointer, a nudge or a rearrangement may ask for
          Dirs,          \* directions of a split
          MaxPanes, MaxTabs,     \* bounds: panes, tabs of a session,
          LastSession, MaxExits  \* session numbers, shells that exit between two ticks

ASSUME MeAssumption == Me # NoOne /\ Me # Api

VARIABLES app,
          strayed   \* history: the held divider's tab has been off screen since it was grabbed

vars == <<app, strayed>>
-----------------------------------------------------------------------------
\* Sizes.
AtLeast(n, least) == IF n < least THEN least ELSE n
Less(n, m) == IF n < m THEN 0 ELSE n - m
AtLeastOne(r) == [cols |-> AtLeast(r.cols, 1), rows |-> AtLeast(r.rows, 1)]

Content(a) ==
  [cols |-> IF a.sidebar /\ a.screen.cols >= SIDEBAR_MIN THEN Less(a.screen.cols, SIDEBAR) ELSE a.screen.cols,
   rows |-> Less(a.screen.rows, STATUS)]

Viewport(a) == AtLeastOne(Content(a))

SessionsOf(a) == DOMAIN a.mux.workspaces
Tab(a) == ActiveTab(a.mux, a.ws)
OriginFor(a, w) == IF w = a.ws THEN Me ELSE Api

\* The rectangles on screen, as sizes by terminal.
Layout(a) == Placed(Tab(a), Content(a))

Told(a, sizes) ==
  [a EXCEPT !.panes = [t \in DOMAIN a.panes |->
     IF t \in DOMAIN sizes THEN AtLeastOne(sizes[t]) ELSE a.panes[t]]]

SyncSizes(a) == Told(a, Layout(a))

\* The result of a command: its state, then the sizes of its Resized event.
Set(a, result) == [a EXCEPT !.mux = result.state]
ApplyResized(a, result) == Told(a, [t \in result.resized |-> result.state.terminals[t]])
Applied(a, result) == ApplyResized(Set(a, result), result)

Reflow(a) == SyncSizes(Set(a, ResizeViewport(a.mux, Me, Viewport(a))))

Spawned(a, t) == [a EXCEPT !.panes = Put(@, t, AtLeastOne(a.screen))]
Reaped(a) == [a EXCEPT !.panes = [t \in DOMAIN a.panes \cap DOMAIN a.mux.terminals |-> a.panes[t]]]

NoteViewMoved(a) == [a EXCEPT !.gen = @ + 1, !.drag = NoOne]

Now(a) == <<a.ws, Tab(a).id, Zoom(Tab(a))>>
Noted(a) == [a EXCEPT !.zoom = Now(a)]

\* The end of every handler: dead sessions leave the history, and a zoom that came or went
\* without its events is shown.
Arrived(a) == [a EXCEPT !.mru = <<a.ws>> \o SelectSeq(@, LAMBDA w : w \in SessionsOf(a) \ {a.ws})]
Reconciled(a) == IF Now(a) = a.zoom THEN a ELSE Noted(SyncSizes(a))
TrackNav(a) == Reconciled(Arrived(a))

ApplyFocus(a, result) == IF result.ok THEN Noted(Applied(a, result)) ELSE a
-----------------------------------------------------------------------------
\* Sessions.
Attached(a) == SyncSizes(Set(a, Attach(a.mux, Me, a.ws, "controller", TRUE, Viewport(a))))

SwitchSession(a, w) ==
  IF a.ws = w \/ w \notin SessionsOf(a) THEN a ELSE Attached([NoteViewMoved(a) EXCEPT !.ws = w])

\* The session last visited, or the first that never was.
FallbackSession(a, dying) ==
  SelectSeq(a.mru \o a.mux.order, LAMBDA w : w # dying /\ w \in SessionsOf(a))[1]

Created(a) == [a EXCEPT !.next = @ + 1, !.mux = CreateWorkspace(@, a.next, Viewport(a))]

NewSession(a, spawns, switch) ==
  IF ~spawns THEN Set(Created(a), RemoveWorkspace(Created(a).mux, a.next))
  ELSE IF switch THEN SwitchSession(Spawned(Created(a), a.mux.nextTerm), a.next)
  ELSE Spawned(Created(a), a.mux.nextTerm)

Removed(a, w) == IF a.ws = w THEN SwitchSession(a, FallbackSession(a, w)) ELSE a

KillSession(a, w) ==
  IF RemoveWorkspace(a.mux, w).ok THEN Removed(Reaped(Set(a, RemoveWorkspace(a.mux, w))), w) ELSE a
-----------------------------------------------------------------------------
\* Tabs and panes.
(* Mutant: selecting a tab leaves a held divider armed.                    *)
SelectTabQuietly(a, w, id) == Set(a, SelectTab(a.mux, Me, w, id))

SelectTabOf(a, w, id) == NoteViewMoved(Set(a, SelectTab(a.mux, Me, w, id)))

\* A tab whose shell does not start is closed again.
TabUndone(a, w, id) == Set(a, CloseTab(a.mux, OriginFor(a, w), w, id))

TabOpened(a, w, result, spawns) ==
  IF ~result.ok THEN a
  ELSE IF spawns THEN Spawned(Set(a, result), a.mux.nextTerm)
  ELSE TabUndone(Set(a, result), w, <<w, a.mux.nextTab>>)

NewTabIn(a, w, spawns, activate) ==
  LET opened == TabOpened(a, w, NewTab(a.mux, OriginFor(a, w), w, activate), spawns)
  IN IF w # a.ws THEN opened ELSE Reflow(IF activate THEN NoteViewMoved(opened) ELSE opened)

TabClosed(a, result) == IF result.ok THEN Reflow(Reaped(Set(a, result))) ELSE a
CloseTabOf(a, w, id) == TabClosed(NoteViewMoved(a), CloseTab(a.mux, OriginFor(a, w), w, id))

(* Mutant: a split whose shell did not start keeps its empty pane.         *)
SplitKept(a, w, pane) == a

\* A split whose shell does not start is closed again.
SplitUndone(a, w, pane) == Set(a, ClosePane(a.mux, OriginFor(a, w), w, pane, NoOne))

Focusing(a, pane) == ApplyFocus(a, FocusPane(a.mux, Me, pane))

SplitStarted(a, w, result, focus, spawns) ==
  IF ~result.ok THEN a
  ELSE IF ~spawns THEN SyncSizes(SplitUndone(Set(a, result), w, a.mux.nextPane))
  ELSE IF focus THEN SyncSizes(Focusing(Applied(Spawned(a, a.mux.nextTerm), result), a.mux.nextPane))
  ELSE SyncSizes(Applied(Spawned(a, a.mux.nextTerm), result))

SplitAt(a, w, pane, dir, focus, spawns) ==
  SplitStarted(a, w, SplitPane(a.mux, OriginFor(a, w), w, pane, dir, NoOne), focus, spawns)

PaneClosed(a, result) == IF result.ok THEN SyncSizes(ApplyResized(Reaped(Set(a, result)), result)) ELSE a
ClosePaneOf(a, w, pane) == PaneClosed(a, ClosePane(a.mux, OriginFor(a, w), w, pane, NoOne))

PaneBroken(a, result) == IF result.ok THEN SyncSizes(Applied(a, result)) ELSE a
BreakPaneOf(a, w, pane) == PaneBroken(NoteViewMoved(a), BreakPane(a.mux, OriginFor(a, w), w, pane))

\* Nothing is shown of a rearrangement that leaves every layout of the session as it was.
Arranged(a, w, result) ==
  IF \A i \in DOMAIN a.mux.workspaces[w].tabs :
       result.state.workspaces[w].tabs[i].layout = a.mux.workspaces[w].tabs[i].layout
  THEN Set(a, result) ELSE SyncSizes(Applied(NoteViewMoved(a), result))
Arrange(a, w, pane, op) == Arranged(a, w, Rearrange(a.mux, OriginFor(a, w), w, pane, op))

\* A nudge from a key drops the events, one from the control API applies them.
Nudge(a, w, pane, axis, grow) ==
  SyncSizes(Applied(a, ResizePane(a.mux, OriginFor(a, w), w, pane, axis, grow)))

(* Mutant: the resize of a zoom waits for the next one.                    *)
ZoomUntold(a, result) == IF result.ok THEN Noted(NoteViewMoved(Set(a, result))) ELSE a

ZoomToggled(a, result) == IF result.ok THEN Noted(NoteViewMoved(Applied(a, result))) ELSE a
ToggleZoomOf(a) == ZoomToggled(a, ToggleZoom(a.mux, Me, a.ws))

\* To a pane wherever it is: its session, its tab, then the pane.
JumpTo(a, w, id, pane) == Reflow(Focusing(SelectTabOf(SwitchSession(a, w), w, id), pane))

\* To an earlier place of the navigation history, of which the pane may be gone.
ShowTab(a, id) == IF Tab(a).id = id THEN a ELSE SelectTabOf(a, a.ws, id)
ShowPane(a, pane) == IF pane \in Panes(Tab(a).layout) THEN Focusing(a, pane) ELSE a
GoToLoc(a, w, id, pane) == Reflow(ShowPane(ShowTab(SwitchSession(a, w), id), pane))

\* Resume a conversation in a new tab of session w, or come back when its shell does not start.
ResumeIn(a, w, spawns) ==
  LET resumed == NewTabIn(SwitchSession(a, w), w, spawns, TRUE)
  IN Reflow(IF spawns THEN resumed ELSE SwitchSession(resumed, a.ws))
-----------------------------------------------------------------------------
\* A divider drag.  Nothing is moved unless the branch is proved to be the one grabbed.
Grab(a, pointer, path) ==
  [a EXCEPT !.drag = [owner |-> pointer, ws |-> a.ws, tab |-> Tab(a).id, path |-> path,
                      dir |-> Tab(a).layout[path].dir, ends |-> Ends(Tab(a).layout, path), gen |-> a.gen]]

Held(a, d) ==
  /\ d.gen = a.gen /\ d.ws = a.ws /\ d.tab = Tab(a).id
  /\ Zoom(Tab(a)) = NoOne
  /\ d.path \in BranchPaths(Tab(a).layout)
  /\ Tab(a).layout[d.path].dir = d.dir
  /\ Ends(Tab(a).layout, d.path) = d.ends

Dragged(a, result) == IF result.resized = {} THEN Set(a, result) ELSE SyncSizes(Set(a, result))
DragDivider(a, ratio) ==
  IF Held(a, a.drag) THEN Dragged(a, SetSplitRatio(a.mux, Me, a.ws, a.drag.path, ratio))
  ELSE [a EXCEPT !.drag = NoOne]
-----------------------------------------------------------------------------
\* The shells that exited since the last tick, in any order.  The last one of all is only
\* dropped: the server then ends.
Collapsed(a, w, t, result) ==
  IF result.ok THEN ApplyResized(Reaped(Set(a, result)), result)
  ELSE IF Cardinality(SessionsOf(a)) > 1 THEN KillSession(a, w)
  ELSE [a EXCEPT !.panes = [u \in DOMAIN @ \ {t} |-> @[u]]]

ReapIn(a, w, t, tab) ==
  LET pane == CHOOSE p \in Panes(tab.layout) : TerminalOf(tab.layout, p) = t
  IN Collapsed(a, w, t, IF IsSingleLeaf(tab.layout) THEN CloseTab(a.mux, Api, w, tab.id)
                        ELSE ClosePane(a.mux, Api, w, pane, NoOne))

TabOfTerminal(a, w, t) ==
  CHOOSE u \in {a.mux.workspaces[w].tabs[i] : i \in DOMAIN a.mux.workspaces[w].tabs} : t \in Terminals(u.layout)

ReapOne(a, t) ==
  LET w == CHOOSE w \in SessionsOf(a) : t \in TerminalsOf(a.mux, w)
  IN ReapIn(a, w, t, TabOfTerminal(a, w, t))

ReapExited(a, exited) == Reflow(FoldLeft(ReapOne, a, exited))

Resized(a, screen, sidebar) == Reflow([a EXCEPT !.screen = screen, !.sidebar = sidebar])
-----------------------------------------------------------------------------
\* Starting.  A snapshot holds the sessions in order, each with its tabs and the active one.
Begin(a) ==
  Arrived(Noted(Reflow(Set(a, Attach(a.mux, Me, a.ws, "controller", FALSE, AtLeastOne(a.screen))))))

Empty(screen, sidebar) ==
  [mux |-> NewState, ws |-> 0, panes |-> <<>>, screen |-> screen, sidebar |-> sidebar,
   gen |-> 0, drag |-> NoOne, next |-> 1, mru |-> <<>>, zoom |-> NoOne]

FreshApp(screen, sidebar) ==
  LET a == [Empty(screen, sidebar) EXCEPT !.mux = CreateWorkspace(NewState, 0, screen)]
  IN Begin(Spawned(a, NewState.nextTerm))

Snapshot(a) ==
  [sessions |-> [i \in DOMAIN a.mux.order |->
     LET w == a.mux.workspaces[a.mux.order[i]]
     IN [tabs |-> [j \in DOMAIN w.tabs |-> w.tabs[j].layout],
         active |-> TabIndex(a.mux, a.mux.order[i], w.active)]],
   active |-> SelectInSeq(a.mux.order, LAMBDA w : w = a.ws)]

\* A saved layout without the leaves whose shell does not start.
SpawnLayout(shape, dead) ==
  FoldSet(LAMBDA pane, t : RemoveLeaf(t, pane), shape, Panes(shape) \cap dead)

(* Mutant: the saved position of the active tab is read after pruning.     *)
RestoredByPosition(session, dead) ==
  LET kept == SelectSeq(session.tabs, LAMBDA t : ~(Panes(t) \subseteq dead))
  IN [k \in DOMAIN kept |-> [shape |-> SpawnLayout(kept[k], dead), active |-> k = session.active]]

\* What is left of a saved session.  The active tab is marked by its place in the snapshot.
RestoredTabs(session, dead) ==
  LET kept == SelectSeq([j \in DOMAIN session.tabs |-> j], LAMBDA j : ~(Panes(session.tabs[j]) \subseteq dead))
  IN [k \in DOMAIN kept |-> [shape |-> SpawnLayout(session.tabs[kept[k]], dead),
                             active |-> kept[k] = session.active]]

\* The places of the sessions of which something is left.
Kept(snap, dead) ==
  SelectSeq([i \in DOMAIN snap.sessions |-> i], LAMBDA i : RestoredTabs(snap.sessions[i], dead) # <<>>)

Installed(snap, kept, dead, screen) ==
  LET install(s, k) == InstallRestoredSession(s, k - 1, RestoredTabs(snap.sessions[kept[k]], dead), screen)
  IN FoldLeft(install, NewState, [k \in DOMAIN kept |-> k])

\* The session on screen is found by its place in the snapshot too; the first one stands in.
RestoredActive(snap, kept) ==
  LET k == SelectInSeq(kept, LAMBDA i : i = snap.active) IN IF k = 0 THEN 0 ELSE k - 1

(* Mutant: new sessions are numbered from one again.                       *)
Renumbered(a, state, active, installed) ==
  Begin([Empty(a.screen, TRUE) EXCEPT !.mux = state, !.ws = active,
           !.panes = [t \in DOMAIN state.terminals |-> AtLeastOne(a.screen)]])

RestoredApp(a, state, active, installed) ==
  Begin([Empty(a.screen, TRUE) EXCEPT !.mux = state, !.ws = active, !.next = installed,
           !.panes = [t \in DOMAIN state.terminals |-> AtLeastOne(a.screen)]])

RestoreSessions(a, snap, kept, dead) ==
  IF kept = <<>> THEN FreshApp(a.screen, TRUE)
  ELSE RestoredApp(a, Installed(snap, kept, dead, AtLeastOne(a.screen)), RestoredActive(snap, kept), Len(kept))

RestartedFrom(a, snap, dead) == RestoreSessions(a, snap, Kept(snap, dead), dead)
Restarted(a, dead) == RestartedFrom(a, Snapshot(a), dead)
-----------------------------------------------------------------------------
\* A divider held while another tab was on screen has strayed.
View(a) == <<a.ws, Tab(a).id>>
Strays(a) ==
  /\ a.drag # NoOne
  /\ \/ View(a) # <<a.drag.ws, a.drag.tab>>
     \/ strayed /\ a.drag = app.drag

\* A handler is given by the Apps it may leave; every handler ends in TrackNav.
Left(outcomes) == \E a \in outcomes : app' = a /\ strayed' = Strays(a)
Handled(outcomes) == Left({TrackNav(a) : a \in outcomes})

Running == DOMAIN app.panes # {}
Room == Cardinality(DOMAIN app.mux.terminals) < MaxPanes
Sessions == SessionsOf(app)
Live(w) == UNION {Panes(app.mux.workspaces[w].tabs[i].layout) : i \in DOMAIN app.mux.workspaces[w].tabs}
TabIds(w) == {app.mux.workspaces[w].tabs[i].id : i \in DOMAIN app.mux.workspaces[w].tabs}
Roomy == {w \in Sessions : Len(app.mux.workspaces[w].tabs) < MaxTabs}

\* Every pane and every tab of any session, as a control request may name them.
AnyPane == UNION {{w} \X Live(w) : w \in Sessions}
AnyTab == UNION {{w} \X TabIds(w) : w \in Sessions}

Init ==
  /\ \E screen \in Screens : app = FreshApp(screen, TRUE)
  /\ strayed = FALSE

DoSwitch == Running /\ Handled({SwitchSession(app, w) : w \in Sessions})

DoNewSession ==
  /\ Running /\ Room /\ app.next <= LastSession
  /\ Handled({NewSession(app, spawns, switch) : spawns, switch \in BOOLEAN})

DoKillSession == Running /\ Handled({KillSession(app, w) : w \in Sessions})

DoSelectTab ==
    Running /\ Handled({SyncSizes(SelectTabOf(SwitchSession(app, at[1]), at[1], at[2])) : at \in AnyTab})

DoNewTab ==
  /\ Running /\ Room
  /\ Handled({NewTabIn(app, w, spawns, activate) : w \in Roomy, spawns, activate \in BOOLEAN})

DoCloseTab == Running /\ Handled({CloseTabOf(app, at[1], at[2]) : at \in AnyTab})

DoMoveTab ==
  /\ Running
  /\ Handled({Set(app, MoveTab(app.mux, OriginFor(app, at[1]), at[1], at[2], to)) :
                at \in AnyTab, to \in 1 .. MaxTabs})

DoResume ==
  Running /\ Room /\ Handled({ResumeIn(app, w, spawns) : w \in Roomy, spawns \in BOOLEAN})

DoJump ==
  /\ Running
  /\ Handled({JumpTo(app, at[1], app.mux.workspaces[at[1]].tabs[TabOfPane(app.mux, at[1], at[2])].id, at[2]) :
                at \in AnyPane})

DoNavigate ==
  /\ Running
  /\ \E w \in Sessions : \E i \in DOMAIN app.mux.workspaces[w].tabs :
       LET t == app.mux.workspaces[w].tabs[i]
       IN Handled({GoToLoc(app, w, t.id, pane) : pane \in Panes(t.layout) \cup {NoOne}})

DoSplit ==
  /\ Running /\ Room
  /\ Handled({SplitAt(app, at[1], at[2], dir, focus, spawns) :
                at \in AnyPane, dir \in Dirs, focus, spawns \in BOOLEAN})

DoClosePane == Running /\ Handled({ClosePaneOf(app, at[1], at[2]) : at \in AnyPane})

DoBreakPane ==
  Running /\ Handled({BreakPaneOf(app, at[1], at[2]) : at \in {at \in AnyPane : at[1] \in Roomy}})

DoArrange == Running /\ Handled({Arrange(app, at[1], at[2], op) : at \in AnyPane, op \in Ops})

DoNudge ==
  Running /\ Handled({Nudge(app, at[1], at[2], nudge.axis, nudge.grow) : at \in AnyPane, nudge \in Nudges})

DoZoom == Running /\ Handled({ToggleZoomOf(app)})

DoFocus == Running /\ Handled({Focusing(app, pane) : pane \in Live(app.ws)})

DoFocusIn ==
  /\ Running
  /\ Handled({ApplyFocus(app, FocusPaneIn(app.mux, OriginFor(app, at[1]), at[1], at[2])) : at \in AnyPane})

DoGrab ==
  \E pointer \in Pointers :
    /\ Running /\ Zoom(Tab(app)) = NoOne
    /\ app.drag # NoOne => app.drag.owner = pointer
    /\ Handled({Grab(app, pointer, path) : path \in BranchPaths(Tab(app).layout)})

DoDrag == Running /\ app.drag # NoOne /\ Handled({DragDivider(app, ratio) : ratio \in Ratios})

\* The release moves the divider a last time; a terminal that leaves only lets go.
DoRelease ==
  /\ Running /\ app.drag # NoOne
  /\ Handled({[DragDivider(app, ratio) EXCEPT !.drag = NoOne] : ratio \in Ratios} \cup {[app EXCEPT !.drag = NoOne]})

DoReap ==
  /\ Running
  /\ \E n \in 1 .. MaxExits : Handled({ReapExited(app, order) : order \in Injection(1 .. n, DOMAIN app.panes)})

DoResize ==
  /\ Running
  /\ Handled({Resized(app, screen, app.sidebar) : screen \in Screens} \cup {Resized(app, app.screen, ~app.sidebar)})

\* A crash, and a server started from the last snapshot.
DoRestart ==
  Running /\ Left({Restarted(app, dead) : dead \in SUBSET UNION {Live(w) : w \in Sessions}})

Next ==
  \/ DoSwitch \/ DoNewSession \/ DoKillSession
  \/ DoSelectTab \/ DoNewTab \/ DoCloseTab \/ DoMoveTab \/ DoResume \/ DoJump
  \/ DoSplit \/ DoClosePane \/ DoBreakPane \/ DoArrange \/ DoNudge \/ DoZoom
  \/ DoFocus \/ DoFocusIn \/ DoNavigate
  \/ DoGrab \/ DoDrag \/ DoRelease
  \/ DoReap \/ DoResize \/ DoRestart

Spec == Init /\ [][Next]_vars
-----------------------------------------------------------------------------
\* What TLC tells states apart by.
Shape ==
  [mux     |-> ShapeOf(app.mux),
   told    |-> [w \in Sessions |-> [i \in DOMAIN app.mux.workspaces[w].tabs |->
                  LET t == app.mux.workspaces[w].tabs[i].layout
                  IN [p \in LeafPaths(t) |->
                        IF t[p].terminal \in DOMAIN app.panes THEN app.panes[t[p].terminal] ELSE NoOne]]],
   others  |-> Cardinality(DOMAIN app.panes),
   view    |-> <<app.ws, app.screen, app.sidebar, app.next, app.mru, strayed, app.zoom = Now(app)>>,
   drag    |-> IF app.drag = NoOne THEN NoOne
               ELSE [app.drag EXCEPT !.tab = @ = Tab(app).id, !.gen = @ = app.gen, !.ends = Held(app, app.drag)]]
-----------------------------------------------------------------------------
(* The session on screen exists and is controlled by the one client, which controls no other;
   the history names sessions that exist, each once; and the next session number is free, so that
   no new session takes the name of a restored one (restore_sessions: "freshly created sessions
   can't collide with restored sN ids"). *)
TypeOK ==
  /\ app.ws \in Sessions
  /\ app.mux.clients = Me :> [workspace |-> app.ws, role |-> "controller"]
  /\ \A w \in Sessions : app.mux.workspaces[w].controller = (IF w = app.ws THEN Me ELSE NoOne)
  /\ Running => \A i, j \in DOMAIN app.mru : app.mru[i] \in Sessions /\ (i # j => app.mru[i] # app.mru[j])
  /\ \A w \in Sessions : w < app.next
  /\ Len(app.mux.order) = Cardinality(Sessions)

(* While the server runs, every pane has its program and no program is without its pane: after a
   shell that did not start, an exit, a closed tab or session, and a restart (split_at: "so state
   never holds a pane without a PaneTerm"). *)
PanesMatch == Running => DOMAIN app.panes = DOMAIN app.mux.terminals

(* Every program on screen was told exactly the size it is drawn at, and the state records the
   size its viewport gives it, whichever handler changed the view, the layout, the zoom or the
   terminal (sync_sizes, apply_resized_events, reflow, track_nav). *)
ScreenFits ==
  Running =>
    /\ app.mux.workspaces[app.ws].viewport = Viewport(app)
    /\ \A t \in DOMAIN Layout(app) :
         /\ app.panes[t] = AtLeastOne(Layout(app)[t])
         /\ app.mux.terminals[t] = Visible(app.mux, app.ws)[t]

(* A server that restarts from a snapshot has exactly the panes whose shells started, or one new
   one, and shows the tab that was on screen, without its dead panes, unless all of it is lost: the
   same tab of the same session, whichever tabs and sessions before it are lost (restore_sessions:
   "Active by identity: the original index, so pruning earlier tabs can't misselect"). *)
RestartKeepsView ==
  LET panes == UNION {Live(w) : w \in Sessions}
      tabs == app.mux.workspaces[app.ws].tabs
      TabsBefore(dead) == {i \in 1 .. TabIndex(app.mux, app.ws, Tab(app).id) - 1 : ~(Panes(tabs[i].layout) \subseteq dead)}
      SessionsBefore(dead) ==
        {i \in 1 .. SelectInSeq(app.mux.order, LAMBDA w : w = app.ws) - 1 : ~(Live(app.mux.order[i]) \subseteq dead)}
      Keeps(r, dead) ==
        /\ Cardinality(DOMAIN r.panes) = (IF dead = panes THEN 1 ELSE Cardinality(panes \ dead))
        /\ \/ Panes(Tab(app).layout) \subseteq dead
           \/ /\ r.ws = r.mux.order[Cardinality(SessionsBefore(dead)) + 1]
              /\ Tab(r) = r.mux.workspaces[r.ws].tabs[Cardinality(TabsBefore(dead)) + 1]
              /\ DOMAIN Tab(r).layout = DOMAIN SpawnLayout(Tab(app).layout, dead)
  IN Running => \A dead \in SUBSET panes : \A r \in {Restarted(app, dead)} : Keeps(r, dead)

(* A drag moves a divider only if the tab it was grabbed in has been on screen ever since, whoever
   switched tabs or sessions meanwhile and came back (note_view_moved: "every 'still on the tab we
   grabbed' check passes on the way back, though the pointer has moved elsewhere"). *)
DragFaithful == [][(DoDrag \/ DoRelease) /\ app'.mux # app.mux => ~strayed]_vars
=============================================================================
