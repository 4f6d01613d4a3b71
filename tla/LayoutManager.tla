---------------------------- MODULE LayoutManager ----------------------------
(***************************************************************************)
(* The layout under its threads (src-tauri/src/layout/mod.rs, lib.rs): the   *)
(* commands of the window, which run one at a time on the main thread, a     *)
(* thread of the core that disposes of a session or answers a hook, and the  *)
(* thread that boots. A method takes the lock of the layout for each of its  *)
(* reads and writes, then stores what it reads under one more: `persist`     *)
(* takes a snapshot, writes the rows in one transaction and then what is     *)
(* active. The program may end between any two of these steps.               *)
(***************************************************************************)
EXTENDS Layout

CONSTANTS
  Shells, Ssh, Agents, Containers,  \* the sessions, by kind
  Saved,                \* the layout an earlier run of the program stored
  MaxTabs,              \* bound: tabs at a time
  MaxEvents             \* bound: commands of the window, rounds of subagents and restarts

Sessions == Shells \cup Ssh \cup Agents \cup Containers

ASSUME LayoutAssumption ==
  /\ Nothing \notin Sessions \cup Views \cup {ContainersView}
  /\ \A s \in Sessions : \A kind \in {"diff", "files", "agents"} : Nothing # Side(kind, s)
  /\ IsStored(Saved, Sessions)
  /\ MaxTabs \in Nat /\ MaxEvents \in Nat

Threads  == {"main", "core", "boot"}

VARIABLES
  layout,    \* what LayoutManager keeps: [ws, active]
  disk,      \* what is stored; its workspaces stand for the rows they make
  life,      \* of each session: "unborn", "alive", "exited" (listed still) or "gone"
  thread,    \* what each thread does
  ready,     \* the boot has ended
  fresh,     \* the boot has opened these shells in place of dead ones: old -> new
  mine,      \* the sessions the window has started in this run of the program
  events,    \* how many commands, rounds of subagents and restarts there were
  left,      \* history: what was stored when the program ended, until it is loaded
  disposed,  \* history: sessions the layout has let go, and was not told to show since, by
             \* a command or by what was stored of the sessions the boot found valid
  slipped,   \* history: open_session focused a place that was gone
  crossed    \* history: the last snapshot to be taken met one still to be stored

vars == <<layout, disk, life, thread, ready, fresh, mine, events,
          left, disposed, slipped, crossed>>

\* pc: the next step; then: the step after `persist`; session, pane, place: what a read
\* found; ending: the sessions to end last, or those the boot found valid; snap: what
\* `persist` read, or what the boot read of what is stored.
Idle == [pc |-> "idle", then |-> "idle", session |-> Nothing, pane |-> Nothing,
         place |-> Nothing, ending |-> {}, snap |-> Nothing]

-----------------------------------------------------------------------------
\* Numbers nobody holds stand for new uuids.

Held(L) == WsIds(L) \cup TabIds(L) \cup {L.active} \cup {L.ws[i].tab : i \in DOMAIN L.ws}
HeldBy(t) ==
  (IF thread[t].snap = Nothing THEN {} ELSE Held(thread[t].snap))
  \cup (IF thread[t].place = Nothing THEN {} ELSE {thread[t].place.ws, thread[t].place.tab})

New == LET held == Held(layout) \cup Held(disk) \cup Held(left) \cup UNION {HeldBy(t) : t \in Threads}
       IN  CHOOSE n \in 1..Cardinality(held) + 1 : n \notin held

-----------------------------------------------------------------------------
\* What every step is made of.

Step(t, pc) == thread[t].pc = pc

\* A snapshot was taken and is not stored yet.
Storing(t) == thread[t].pc \in {"rows", "active"}

\* A pane somebody is about to close is no longer the one that was found once it is gone.
Lost(th, L) == IF th.pane \in PanesOf(L) THEN th ELSE [th EXCEPT !.pane = Nothing]

\* One write of the layout, which is stored next; then comes `then`.
Write(t, L, next) ==
  /\ layout' = L
  /\ thread' = [u \in Threads |->
       IF u = t THEN [next EXCEPT !.pc = "snapshot", !.pane = Nothing]
       ELSE Lost(thread[u], L)]

Goto(t, next) == thread' = [thread EXCEPT ![t] = next]

\* `persist`
Snapshot(t) ==
  /\ Step(t, "snapshot")
  /\ Goto(t, [thread[t] EXCEPT !.pc = "rows", !.snap = layout])
  /\ crossed' = \E u \in Threads : Storing(u)
  /\ UNCHANGED <<layout, disk, life, ready, fresh, mine, events, left, disposed, slipped>>

SaveRows(t) ==
  /\ Step(t, "rows")
  /\ disk' = [disk EXCEPT !.ws = thread[t].snap.ws]
  /\ Goto(t, [thread[t] EXCEPT !.pc = "active"])
  /\ UNCHANGED <<layout, life, ready, fresh, mine, events, left, disposed, slipped, crossed>>

\* Mutant: what is active is not stored.
SaveActiveNever(t) ==
  /\ Step(t, "active")
  /\ Goto(t, [thread[t] EXCEPT !.pc = thread[t].then, !.snap = Nothing])
  /\ UNCHANGED <<layout, disk, life, ready, fresh, mine, events, left, disposed, slipped,
                 crossed>>

SaveActive(t) ==
  /\ Step(t, "active")
  /\ disk' = [disk EXCEPT !.active = thread[t].snap.active]
  /\ Goto(t, [thread[t] EXCEPT !.pc = thread[t].then, !.snap = Nothing])
  /\ UNCHANGED <<layout, life, ready, fresh, mine, events, left, disposed, slipped, crossed>>

-----------------------------------------------------------------------------
\* The commands of the window. None of them waits for the boot: `create_session` does, for
\* ten seconds, and goes on.

Command ==
  /\ Step("main", "idle") /\ events < MaxEvents
  /\ events' = events + 1
  /\ UNCHANGED <<disk, ready, fresh, left, crossed>>

\* The sessions a command of the window can name: until the boot has ended the window
\* knows of those it has started itself and of those `layout://changed` shows it.
Shown(L) == {pane.session : pane \in PanesOf(L)}
Named(s) == life[s] \in {"alive", "exited"} /\ (ready \/ s \in mine \cup Shown(layout))

\* A command that is one write.
Now(L) == Write("main", L, Idle) /\ UNCHANGED <<life, mine, disposed, slipped>>

\* A command that is one write and shows s.
Show(s, L) ==
  Write("main", L, Idle) /\ disposed' = disposed \ {s} /\ UNCHANGED <<life, mine, slipped>>

\* A command that is one write and ends the sessions S after it was stored.
End(S, L) ==
  /\ Write("main", L, [Idle EXCEPT !.then = "end", !.ending = S])
  /\ UNCHANGED <<life, mine, disposed, slipped>>

Room == Cardinality(Places(layout)) < MaxTabs

CreateWorkspaceCmd(s) ==
  /\ Command /\ Room /\ Named(s) /\ ~IsPlaced(layout, s)
  /\ Show(s, CreateWorkspace(layout, New, s))

SplitPaneCmd(s) ==
  /\ Command /\ Named(s) /\ ~IsPlaced(layout, s)
  /\ \E at \in PanesOf(layout) : at.kind = "leaf" /\ Show(s, SplitPane(layout, at, s))

\* `close_tab` and `close_pane` end the shells they close, `close_workspace` all sessions.
Ended(S) == {s \in S : life[s] # "gone" /\ s \in Shells \cup Ssh}
LeafSessions(panes) == {p.session : p \in {q \in panes : q.kind = "leaf"}}

CloseTabCmd ==
  /\ Command
  /\ \E p \in Places(layout) :
       End(Ended(LeafSessions(PaneSet(TabAt(layout, p).root))), Swept(WithoutTab(layout, p)))

ClosePaneCmd ==
  /\ Command
  /\ \E pane \in PanesOf(layout) : End(Ended(LeafSessions({pane})), ClosePane(layout, pane))

CloseWorkspaceCmd ==
  /\ Command
  /\ \E i \in DOMAIN layout.ws :
       End(UNION {LeafSessions(PaneSet(layout.ws[i].tabs[j].root)) : j \in DOMAIN layout.ws[i].tabs},
           WithoutWorkspace(layout, i))

ActivateWorkspaceCmd ==
  /\ Command
  /\ \E id \in WsIds(layout) \ {layout.active} : Now([layout EXCEPT !.active = id])

ActivateTabCmd ==
  /\ Command
  /\ \E p \in Places(layout) : Now(ActivateTab(layout, p))

MoveTabCmd ==
  /\ Command
  /\ \E p \in Places(layout) : \E to \in DOMAIN layout.ws[p[1]].tabs :
       to # p[2] /\ Now(MoveTab(layout, p, to))

FocusPaneCmd ==
  /\ Command
  /\ \E pane \in PanesOf(layout) : Now(Swept(Focus(layout, PlaceOfPane(layout, pane), pane)))

\* The panel of the tunnels is for a remote session only.
OpenSideCmd ==
  /\ Command
  /\ \E s \in Sessions, kind \in {"diff", "files", "agents", "tunnels"} :
       /\ Named(s) /\ IsPlaced(layout, s) /\ (kind = "tunnels" => s \in Ssh)
       /\ Now(OpenSide(layout, s, kind))

SidePanelCmd ==
  /\ Command
  /\ \E i \in DOMAIN layout.ws :
       \/ layout.ws[i].id = layout.active /\ Now(ToggleQueue(layout, i))
       \/ layout.ws[i].side # Nothing /\ Now(WithSpace(layout, i, CloseSide(layout.ws[i])))
       \/ ~layout.ws[i].expanded /\ Now(WithSpace(layout, i, Expand(layout.ws[i])))

OpenAgentViewerCmd ==
  /\ Command
  /\ \E a \in Agents : InActiveWorkspace(layout, a) # {} /\ Now(OpenAgentViewer(layout, a))

OpenViewTabCmd ==
  /\ Command /\ Room
  /\ \E view \in Views : Now(OpenViewTab(layout, New, view))

OpenDockerDashboardCmd ==
  /\ Command /\ Room
  /\ Now(OpenDockerDashboard(layout, New))

\* `dispose_session`: the session goes first, then its panes.
DisposeCmd ==
  /\ Command
  /\ \E s \in Sessions :
       /\ Named(s)
       /\ life' = [life EXCEPT ![s] = "gone"]
       /\ Goto("main", [Idle EXCEPT !.pc = "find", !.session = s])
  /\ UNCHANGED <<layout, mine, disposed, slipped>>

\* `open_session` looks for the pane under one lock and focuses it under another.
OpenSessionCmd ==
  /\ Command /\ Room
  /\ \E s \in Sessions :
       /\ Named(s)
       /\ Goto("main",
            IF IsPlaced(layout, s)
            THEN LET p == PlaceOfPane(layout, Leaf(s))
                 IN  [Idle EXCEPT !.pc = "open", !.session = s,
                        !.place = [ws |-> layout.ws[p[1]].id, tab |-> TabAt(layout, p).id]]
            ELSE [Idle EXCEPT !.pc = "tab", !.session = s])
  /\ UNCHANGED <<layout, life, mine, disposed, slipped>>

Start(s) == life' = [life EXCEPT ![s] = "alive"] /\ mine' = mine \cup {s}

\* `spawn_tab_session` starts a program and then gives it a tab, in the workspace of the
\* containers or in the active one; a Docker project and a container of another host get a
\* workspace of their own.
SpawnTabCmd ==
  /\ Command /\ Room
  /\ \E s \in Shells \cup Containers :
       /\ life[s] = "unborn" /\ Start(s)
       /\ \/ /\ \E pc \in {"tab_or_workspace", "workspace"} :
                  Goto("main", [Idle EXCEPT !.pc = pc, !.session = s])
             /\ UNCHANGED layout
          \/ LET L == EnsureDocker(layout, New)
                 i == DockerIndex(L)
             IN  Write("main", L, [Idle EXCEPT !.then = "tab_or_workspace", !.session = s,
                                     !.place = [ws |-> L.ws[i].id, tab |-> Nothing]])
  /\ UNCHANGED <<disposed, slipped>>

\* `create_session`, `resume_agent_session`: the window asks for the place of a new session
\* with a command of its own; an agent that is resumed keeps its session and its place.
StartSessionCmd ==
  /\ Command
  /\ \E s \in Sessions \ Containers :
       /\ life[s] = "unborn" \/ (life[s] = "exited" /\ s \in Agents /\ Named(s))
       /\ Start(s)
  /\ UNCHANGED <<layout, thread, disposed, slipped>>

WindowCommand ==
  \/ \E s \in Sessions : CreateWorkspaceCmd(s) \/ SplitPaneCmd(s)
  \/ CloseTabCmd \/ ClosePaneCmd \/ CloseWorkspaceCmd
  \/ ActivateWorkspaceCmd \/ ActivateTabCmd \/ MoveTabCmd \/ FocusPaneCmd
  \/ OpenSideCmd \/ SidePanelCmd \/ OpenAgentViewerCmd \/ OpenViewTabCmd
  \/ OpenDockerDashboardCmd \/ DisposeCmd \/ OpenSessionCmd \/ SpawnTabCmd
  \/ StartSessionCmd

-----------------------------------------------------------------------------
\* What follows the first step of a command.

Later == UNCHANGED <<disk, ready, fresh, mine, events, left, crossed>>

\* The second half of `open_session`: it focuses what it found, be it there or not.
FocusFound ==
  LET to == thread["main"].place
      s  == thread["main"].session
      i  == WsIndex(layout, to.ws)
      j  == IF i = 0 THEN 0 ELSE TabIndex(layout.ws[i], to.tab)
  IN  /\ Step("main", "open")
      /\ slipped' = (slipped \/ j = 0 \/ Leaf(s) \notin PaneSet(TabAt(layout, <<i, j>>).root))
      /\ Write("main",
           Swept(IF i = 0 THEN [layout EXCEPT !.active = to.ws]
                 ELSE IF j = 0
                 THEN [WithSpace(layout, i, [layout.ws[i] EXCEPT !.tab = to.tab]) EXCEPT !.active = to.ws]
                 ELSE Focus(layout, <<i, j>>, Leaf(s))),
           Idle)
      /\ UNCHANGED <<life, disposed>> /\ Later

\* `create_tab`, reached from `open_session` or from `spawn_tab_session`, which makes a
\* workspace where none is active. Nothing asks whether the session still lives.
PlaceInTab ==
  LET th == thread["main"]
      to == IF th.place = Nothing THEN layout.active ELSE th.place.ws
      i  == WsIndex(layout, to)
  IN  /\ th.pc \in {"tab", "tab_or_workspace"}
      /\ \/ /\ ~IsPlaced(layout, th.session) /\ i # 0
            /\ Write("main", CreateTab(layout, New, th.session, i), Idle)
            /\ disposed' = disposed \ {th.session}
         \/ /\ ~IsPlaced(layout, th.session) /\ to = Nothing /\ th.pc = "tab_or_workspace"
            /\ Write("main", CreateWorkspace(layout, New, th.session), Idle)
            /\ disposed' = disposed \ {th.session}
         \/ /\ IsPlaced(layout, th.session) \/ i = 0
            /\ to # Nothing \/ th.pc = "tab" \/ IsPlaced(layout, th.session)
            /\ Goto("main", Idle) /\ UNCHANGED <<layout, disposed>>
      /\ UNCHANGED <<life, slipped>> /\ Later

\* `docker_open_project`, and a container of another host
PlaceInWorkspace ==
  LET s == thread["main"].session
  IN  /\ Step("main", "workspace") /\ ~IsPlaced(layout, s)
      /\ Write("main", CreateWorkspace(layout, New, s), Idle)
      /\ disposed' = disposed \ {s}
      /\ UNCHANGED <<life, slipped>> /\ Later

\* `dispose_shells`, `dispose_all`
EndClosed ==
  /\ Step("main", "end")
  /\ life' = [s \in Sessions |-> IF s \in thread["main"].ending THEN "gone" ELSE life[s]]
  /\ Goto("main", Idle)
  /\ UNCHANGED <<layout, disposed, slipped>> /\ Later

-----------------------------------------------------------------------------
\* `session_disposed`, on whatever thread calls it: it closes the first pane of the
\* session until there is none, and then its side panels.

FindPane(t) ==
  LET at == PanesOf(layout) \cap {Leaf(thread[t].session), Viewer(thread[t].session)}
  IN  /\ Step(t, "find")
      /\ \/ at = {} /\ Goto(t, [thread[t] EXCEPT !.pc = "sides"])
         \/ \E pane \in at : Goto(t, [thread[t] EXCEPT !.pc = "close", !.pane = pane])
      /\ UNCHANGED <<layout, life, disposed, slipped>> /\ Later

\* A pane somebody else closed meanwhile ends it here.
CloseFound(t) ==
  /\ Step(t, "close")
  /\ IF thread[t].pane = Nothing
     THEN Goto(t, Idle) /\ UNCHANGED layout
     ELSE Write(t, ClosePane(layout, thread[t].pane), [thread[t] EXCEPT !.then = "find"])
  /\ UNCHANGED <<life, disposed, slipped>> /\ Later

CloseSides(t) ==
  LET s == thread[t].session
      L == DisposedSide(layout, s)
  IN  /\ Step(t, "sides")
      /\ IF L = layout THEN Goto(t, Idle) /\ UNCHANGED layout ELSE Write(t, L, Idle)
      /\ disposed' = (disposed \cup {s}) \ Shown(L)
      /\ UNCHANGED <<life, slipped>> /\ Later

-----------------------------------------------------------------------------
\* The core.

\* `session_exited`, `AppCanoPorts.dispose`: a shell goes and its panes with it; an agent
\* and a container stay listed, with their tab unless the gate opened it for the agent.
Exit(s) ==
  /\ life[s] = "alive"
  /\ \/ /\ s \in Shells \cup Ssh /\ life' = [life EXCEPT ![s] = "gone"]
        /\ Goto("core", [Idle EXCEPT !.pc = "find", !.session = s])
     \/ /\ s \notin Shells \cup Ssh /\ life' = [life EXCEPT ![s] = "exited"]
        /\ \/ UNCHANGED thread
           \/ s \in Agents /\ Goto("core", [Idle EXCEPT !.pc = "find", !.session = s])
  /\ UNCHANGED <<layout, events>>

\* `coordinate_subagent_viewer`, unless the user has closed the viewer or the panel.
Coordinate(s) ==
  /\ s \in Agents /\ life[s] = "alive" /\ events < MaxEvents /\ events' = events + 1
  /\ \/ LET L == EnsureViewer(layout, s)
        IN  /\ L # layout
            /\ Write("core", L, [Idle EXCEPT !.then = "panel", !.session = s])
     \/ /\ Goto("core", [Idle EXCEPT !.pc = "panel", !.session = s])
        /\ UNCHANGED layout
  /\ UNCHANGED life

Core ==
  /\ Step("core", "idle")
  /\ \E s \in Sessions : Exit(s) \/ Coordinate(s)
  /\ UNCHANGED <<disk, ready, fresh, mine, left, disposed, slipped, crossed>>

ShowPanel ==
  LET L == EnsurePanel(layout, thread["core"].session)
  IN  /\ Step("core", "panel")
      /\ IF L = layout THEN Goto("core", Idle) /\ UNCHANGED layout ELSE Write("core", L, Idle)
      /\ UNCHANGED <<life, disposed, slipped>> /\ Later

-----------------------------------------------------------------------------
\* Starting again.

Booting == [t \in Threads |-> IF t = "boot" THEN [Idle EXCEPT !.pc = "resume"] ELSE Idle]

\* The program ends, at any step, and is started again with nothing in memory.
Restart ==
  /\ events < MaxEvents /\ events' = events + 1
  /\ layout' = Empty /\ ready' = FALSE /\ left' = disk
  /\ thread' = Booting
  /\ life' = [s \in Sessions |-> IF life[s] = "alive" THEN "exited" ELSE life[s]]
  /\ slipped' = FALSE /\ crossed' = FALSE /\ fresh' = <<>> /\ mine' = {}
  /\ UNCHANGED <<disk, disposed>>

\* `resume_startup`: all that is not remote is forgotten, all is kept as it is, or each
\* shell that can be is opened again as a new session and the remote ones come back.
Resume ==
  /\ Step("boot", "resume")
  /\ LET dead == {s \in Sessions : life[s] = "exited"}
         unborn == {s \in Shells : life[s] = "unborn"}
     IN  \/ life' = [s \in Sessions |-> IF s \in dead \ Ssh THEN "gone" ELSE life[s]] /\ fresh' = <<>>
         \/ life' = life /\ fresh' = <<>>
         \/ \E again \in SUBSET (dead \cap Shells), back \in SUBSET (dead \cap Ssh) :
            \E new \in [again -> unborn] :
              /\ again \cup back # {} /\ IsInjective(new)
              /\ fresh' = new
              /\ life' = [s \in Sessions |-> IF s \in again THEN "gone"
                                             ELSE IF s \in back \cup Range(new) THEN "alive"
                                             ELSE life[s]]
  /\ Goto("boot", [Idle EXCEPT !.pc = "load", !.ending = {s \in Sessions : life'[s] \in {"alive", "exited"}}])
  /\ UNCHANGED <<layout, disk, ready, mine, events, left, disposed, slipped, crossed>>

\* `load_remapped` reads what is stored, which counts as nothing when it cannot be read ...
ReadStored ==
  /\ Step("boot", "load")
  /\ \E stored \in {disk, Empty} :
       Goto("boot", [thread["boot"] EXCEPT !.pc = "loaded", !.snap = stored])
  /\ UNCHANGED <<layout, disk, life, ready, fresh, mine, events, left, disposed, slipped, crossed>>

\* ... and puts it in the place of whatever is shown, with the sessions that were valid.
Load ==
  LET stored == thread["boot"].snap
      L == Loaded(Rows(stored.ws), stored.active, thread["boot"].ending, fresh)
  IN  /\ Step("boot", "loaded")
      /\ Write("boot", L, [Idle EXCEPT !.then = "ready"])
      /\ disposed' = disposed \ thread["boot"].ending
      /\ fresh' = <<>> /\ left' = Empty
      /\ UNCHANGED <<disk, life, ready, mine, events, slipped, crossed>>

MarkReady ==
  /\ Step("boot", "ready")
  /\ ready' = TRUE /\ Goto("boot", Idle)
  /\ UNCHANGED <<layout, disk, life, fresh, mine, events, left, disposed, slipped, crossed>>

-----------------------------------------------------------------------------
Init ==
  /\ layout = Empty /\ disk = Saved /\ left = Saved
  /\ life = [s \in Sessions |-> IF s \in Shown(Saved) THEN "exited" ELSE "unborn"]
  /\ thread = Booting
  /\ ready = FALSE /\ fresh = <<>> /\ mine = {}
  /\ events = 0
  /\ disposed = {} /\ slipped = FALSE /\ crossed = FALSE

Next ==
  \/ WindowCommand \/ FocusFound \/ PlaceInTab \/ PlaceInWorkspace \/ EndClosed
  \/ Core \/ ShowPanel
  \/ \E t \in {"main", "core"} : FindPane(t) \/ CloseFound(t) \/ CloseSides(t)
  \/ \E t \in Threads : Snapshot(t) \/ SaveRows(t) \/ SaveActive(t)
  \/ Restart \/ Resume \/ ReadStored \/ Load \/ MarkReady

Spec == Init /\ [][Next]_vars

-----------------------------------------------------------------------------
\* A session is shown by at most one terminal and one viewer in the whole layout,
\* whatever the threads do and whatever is loaded: the window attaches each terminal to
\* the one process.
PlacedOnce ==
  LET Root(p) == TabAt(layout, p).root
  IN  \A p \in Places(layout) :
        /\ IsInjective(Root(p))
        /\ \A q \in Places(layout) : p # q => PaneSet(Root(p)) \cap PaneSet(Root(q)) = {}

\* What is active exists: the workspace, in each the tab, in each the pane. The one
\* exception is an open_session whose pane was closed between its two locks.
FocusExists ==
  ~slipped =>
    /\ layout.active \in WsIds(layout) \cup {Nothing}
    /\ \A i \in DOMAIN layout.ws :
         LET w == layout.ws[i]
         IN  IF w.tabs = <<>> THEN w.tab = Nothing ELSE \E j \in DOMAIN w.tabs : w.tabs[j].id = w.tab
    /\ \A p \in Places(layout) :
         DOMAIN TabAt(layout, p).root # {} => TabAt(layout, p).pane \in PaneSet(TabAt(layout, p).root)

\* A session the layout was told to forget has no pane and no panel left, and none comes
\* back: not from a hook answered meanwhile, not from what was stored, unless the boot
\* lists the session still.
DisposedLeavesNothing ==
  \A s \in disposed :
    /\ PanesOf(layout) \cap {Leaf(s), Viewer(s)} = {}
    /\ \A i \in DOMAIN layout.ws :
         layout.ws[i].side \notin {Side(kind, s) : kind \in {"diff", "files", "agents"}}

\* When no thread is at work the stored layout is the one shown, unless two threads
\* stored theirs at the same time: the last to write is not the last to have read.
SavedIsCurrent ==
  ready /\ ~crossed /\ (\A t \in Threads : Step(t, "idle")) => disk = layout

\* What is stored can be read back: the rows of a snapshot make the same layout, with
\* every split as it was.
RoundTrip ==
  ~slipped => \A t \in Threads : Step(t, "rows") =>
    LET snap == thread[t].snap
        L    == Loaded(Rows(snap.ws), snap.active, Sessions, <<>>)
    IN  L.ws = snap.ws /\ snap.active \in {L.active, Nothing}

\* Every pane that was stored when the program ended, of a session that is still listed or
\* was opened again, is in what the boot loads.
AllKept ==
  \A pane \in PanesOf(left) :
    LET s   == pane.session
        now == IF s \in DOMAIN fresh THEN fresh[s] ELSE s
    IN  now \in thread["boot"].ending => [pane EXCEPT !.session = now] \in PanesOf(layout')

\* When the program is started again and the boot reads what was stored when it ended,
\* nothing of it is gone (issue #50, layout/mod.rs:568-571), whatever the window and the core
\* have put into the layout meanwhile.
BootKeepsLayout == [][Load /\ thread["boot"].snap = left => AllKept]_vars

\* What the boot reads, unless it can read nothing, is what was stored when the program
\* ended: nobody stores over it before, as boot.rs:91 and lib.rs:117 say of the wait.
LayoutSurvivesBoot == [][Load /\ thread["boot"].snap.ws # <<>> => AllKept]_vars
=============================================================================
