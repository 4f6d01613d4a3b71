-------------------------------- MODULE Layout --------------------------------
(***************************************************************************)
(* What `LayoutManager` (src-tauri/src/layout/mod.rs) keeps under its lock: *)
(* the workspaces, their tabs with a tree of panes each, what is active and *)
(* the side panel of a workspace; and what each of its methods makes of it, *)
(* as operators on a layout L == [ws, active]. Names, colours, groups,      *)
(* ratios and times are left out. The uuid a method draws is its argument   *)
(* `new`, a number nobody holds.                                            *)
(***************************************************************************)
EXTENDS PaneTree, FiniteSets

CONSTANT Views      \* the pages that may be a tab, the containers' one included

ContainersView == "containers"

Empty == [ws |-> <<>>, active |-> Nothing]

\* A side panel belongs to a session, or is the queue of agents.
Side(kind, s) == [kind |-> kind, session |-> s]
AgentQueue == Side("queue", Nothing)

-----------------------------------------------------------------------------
\* Lookups.

WsIds(L)  == {L.ws[i].id : i \in DOMAIN L.ws}
TabIds(L) == UNION {{L.ws[i].tabs[j].id : j \in DOMAIN L.ws[i].tabs} : i \in DOMAIN L.ws}

\* The least of a set of positions, 0 if there is none.
FirstIn(at) == IF at = {} THEN 0 ELSE CHOOSE i \in at : \A j \in at : i <= j

\* `ws_index`, `tab_index`
WsIndex(L, id) == FirstIn({i \in DOMAIN L.ws : L.ws[i].id = id})
TabIndex(w, id) == FirstIn({j \in DOMAIN w.tabs : w.tabs[j].id = id})

Places(L) == UNION {{<<i, j>> : j \in DOMAIN L.ws[i].tabs} : i \in DOMAIN L.ws}
TabAt(L, p) == L.ws[p[1]].tabs[p[2]]

PanesOf(L) == UNION {PaneSet(TabAt(L, p).root) : p \in Places(L)}

\* `find_session_pane`, `find_session_any_pane`: the place of a pane.
PlaceOfPane(L, pane) == CHOOSE p \in Places(L) : pane \in PaneSet(TabAt(L, p).root)

\* `focused_session`: of the active pane of the active tab.
FocusedSession(w) ==
  LET j == TabIndex(w, w.tab)
  IN  IF j # 0 /\ w.tabs[j].pane \in PaneSet(w.tabs[j].root)
      THEN w.tabs[j].pane.session ELSE Nothing

-----------------------------------------------------------------------------
\* What the methods share.

\* What follows the removed element i of a sequence: its place is taken by the next, or
\* by the one before the end.
Neighbour(seq, i) ==
  IF seq = <<>> THEN Nothing
  ELSE seq[IF i <= Len(seq) THEN i ELSE Len(seq)].id

WithSpace(L, i, w) == [ws |-> [L.ws EXCEPT ![i] = w], active |-> L.active]
WithTab(L, p, tab) ==
  WithSpace(L, p[1], [L.ws[p[1]] EXCEPT !.tabs = [@ EXCEPT ![p[2]] = tab]])

CloseSide(w) == [w EXCEPT !.side = Nothing, !.expanded = FALSE]
Expand(w)    == [w EXCEPT !.expanded = TRUE]

\* `drop_stale_diff_views`
IsStale(w) == w.side # Nothing /\ w.side.kind = "diff" /\ FocusedSession(w) # w.side.session
Swept(L) == [L EXCEPT !.ws = [i \in DOMAIN @ |-> IF IsStale(@[i]) THEN CloseSide(@[i]) ELSE @[i]]]

\* `Tab::from_session`, `Tab::from_view`
SessionTab(id, s) == [id |-> id, view |-> Nothing, root |-> Lone(Leaf(s)), pane |-> Leaf(s)]
ViewTab(id, view) == [id |-> id, view |-> view, root |-> NoPanes, pane |-> Nothing]

Workspace(id, docker, tab) ==
  [id |-> id, docker |-> docker, tabs |-> <<tab>>, tab |-> tab.id,
   side |-> Nothing, expanded |-> FALSE]

\* A workspace and its first tab share their number: they are born together.
WithWorkspace(L, tab) ==
  [ws |-> Append(L.ws, Workspace(tab.id, FALSE, tab)), active |-> tab.id]

\* `close_workspace`, `remove_workspace_if_empty`
WithoutWorkspace(L, i) ==
  [ws     |-> RemoveAt(L.ws, i),
   active |-> IF L.active = L.ws[i].id THEN Neighbour(RemoveAt(L.ws, i), i) ELSE L.active]

\* A tab is removed, and its workspace with the last one.
WithoutTab(L, p) ==
  LET w    == L.ws[p[1]]
      rest == RemoveAt(w.tabs, p[2])
      left == [w EXCEPT !.tabs = rest,
                        !.tab = IF @ = w.tabs[p[2]].id THEN Neighbour(rest, p[2]) ELSE @]
      M    == WithSpace(L, p[1], left)
  IN  IF rest = <<>> THEN WithoutWorkspace(M, p[1]) ELSE M

\* The tab at p is the active one, in the active workspace.
Activate(L, p) ==
  LET M == WithSpace(L, p[1], [L.ws[p[1]] EXCEPT !.tab = TabAt(L, p).id])
  IN  [M EXCEPT !.active = L.ws[p[1]].id]

Focus(L, p, pane) == Activate(WithTab(L, p, [TabAt(L, p) EXCEPT !.pane = pane]), p)

\* Mutant: only the active workspace is looked at.
IsPlacedInActive(L, s) ==
  \E p \in Places(L) : L.ws[p[1]].id = L.active /\ Leaf(s) \in PaneSet(TabAt(L, p).root)

IsPlaced(L, s) == Leaf(s) \in PanesOf(L)

-----------------------------------------------------------------------------
\* The methods; their guards are in LayoutManager.

\* `create_workspace_tagged`
CreateWorkspace(L, new, s) == WithWorkspace(L, SessionTab(new, s))

\* `create_tab`
CreateTab(L, new, s, i) ==
  LET M == WithSpace(L, i, [L.ws[i] EXCEPT !.tabs = Append(@, SessionTab(new, s)), !.tab = new])
  IN  Swept([M EXCEPT !.active = L.ws[i].id])

\* `open_view_tab`
OpenViewTab(L, new, view) ==
  LET at == {p \in Places(L) : TabAt(L, p).view = view}
  IN  IF at = {} THEN WithWorkspace(L, ViewTab(new, view))
      ELSE LET p == CHOOSE q \in at : TRUE
           IN  Activate(L, p)

\* `ensure_docker_workspace`: it has the page of the containers, first.
DockerIndex(L) == FirstIn({i \in DOMAIN L.ws : L.ws[i].docker})
EnsureDocker(L, new) ==
  LET i   == DockerIndex(L)
      tab == ViewTab(new, ContainersView)
  IN  IF i = 0
      THEN [L EXCEPT !.ws = Append(@, Workspace(new, TRUE, tab))]
      ELSE IF \E j \in DOMAIN L.ws[i].tabs : L.ws[i].tabs[j].view = ContainersView THEN L
      ELSE WithSpace(L, i, [L.ws[i] EXCEPT !.tabs = <<tab>> \o @,
                                            !.tab = IF @ = Nothing THEN new ELSE @])

\* `open_docker_dashboard`
OpenDockerDashboard(L, new) ==
  LET M == EnsureDocker(L, new)
      i == DockerIndex(M)
      j == FirstIn({k \in DOMAIN M.ws[i].tabs : M.ws[i].tabs[k].view = ContainersView})
  IN  Activate(M, <<i, j>>)

\* `activate_tab`
ActivateTab(L, p) ==
  Swept(Activate(L, p))

\* `move_tab`
MoveTab(L, p, to) ==
  LET rest == RemoveAt(L.ws[p[1]].tabs, p[2])
  IN  WithSpace(L, p[1], [L.ws[p[1]] EXCEPT !.tabs = InsertAt(rest, to, TabAt(L, p))])

\* `split_pane`
SplitPane(L, leaf, s) ==
  LET p == PlaceOfPane(L, leaf)
      M == WithTab(L, p, [TabAt(L, p) EXCEPT !.root = SplitAt(@, leaf, Leaf(s))])
  IN  Swept(Focus(M, p, Leaf(s)))

\* Mutant: the pane that was active stays so when it is gone.
ClosePaneKeepingFocus(L, pane) ==
  LET p    == PlaceOfPane(L, pane)
      tab  == TabAt(L, p)
      root == Keep(tab.root, PaneSet(tab.root) \ {pane})
  IN  Swept(IF DOMAIN root = {} THEN WithoutTab(L, p)
            ELSE WithTab(L, p, [tab EXCEPT !.root = root]))

\* `close_pane`
ClosePane(L, pane) ==
  LET p    == PlaceOfPane(L, pane)
      tab  == TabAt(L, p)
      root == Keep(tab.root, PaneSet(tab.root) \ {pane})
  IN  Swept(IF DOMAIN root = {} THEN WithoutTab(L, p)
            ELSE WithTab(L, p, [tab EXCEPT !.root = root,
                                           !.pane = IF @ \in PaneSet(root) THEN @ ELSE First(root)]))

\* `open_workspace_side_view`
OpenSide(L, s, kind) ==
  LET p == PlaceOfPane(L, Leaf(s))
  IN  Focus(WithSpace(L, p[1], [L.ws[p[1]] EXCEPT !.side = Side(kind, s)]), p, Leaf(s))

\* `toggle_agent_queue`
ToggleQueue(L, i) ==
  WithSpace(L, i, IF L.ws[i].side = AgentQueue THEN CloseSide(L.ws[i])
                  ELSE [L.ws[i] EXCEPT !.side = AgentQueue])

\* Mutant: only the panel of the active workspace is closed.
DisposedSideActiveOnly(L, s) ==
  [L EXCEPT !.ws = [i \in DOMAIN @ |->
    IF @[i].id = L.active /\ @[i].side \in {Side(k, s) : k \in {"diff", "files", "agents"}}
    THEN CloseSide(@[i]) ELSE @[i]]]

\* `session_disposed`, its second half
DisposedSide(L, s) ==
  [L EXCEPT !.ws = [i \in DOMAIN @ |->
    IF @[i].side \in {Side(k, s) : k \in {"diff", "files", "agents"}}
    THEN CloseSide(@[i]) ELSE @[i]]]

\* Where `find_session_leaf_in_active_tab_of` finds the terminal of s, if so.
InActiveTab(L, s) ==
  {p \in Places(L) : /\ L.ws[p[1]].id = L.active /\ L.ws[p[1]].tab = TabAt(L, p).id
                     /\ Leaf(s) \in PaneSet(TabAt(L, p).root)}

InActiveWorkspace(L, s) ==
  {p \in Places(L) : L.ws[p[1]].id = L.active /\ Leaf(s) \in PaneSet(TabAt(L, p).root)}

BesideLeaf(L, p, s) ==
  WithTab(L, p, [TabAt(L, p) EXCEPT !.root = SplitAt(@, Leaf(s), Viewer(s))])

\* `ensure_agent_viewer`
EnsureViewer(L, s) ==
  IF Viewer(s) \in PanesOf(L) \/ InActiveTab(L, s) = {} THEN L
  ELSE BesideLeaf(L, CHOOSE p \in InActiveTab(L, s) : TRUE, s)

\* `ensure_agents_panel`
EnsurePanel(L, s) ==
  LET at == InActiveWorkspace(L, s)
      i  == WsIndex(L, L.active)
  IN  IF at = {} \/ L.ws[i].side # Nothing THEN L
      ELSE WithSpace(L, i, [L.ws[i] EXCEPT !.side = Side("agents", s)])

\* `open_agent_viewer`
OpenAgentViewer(L, s) ==
  LET p == CHOOSE q \in InActiveWorkspace(L, s) : TRUE
      M == IF Viewer(s) \in PanesOf(L) THEN L ELSE BesideLeaf(L, p, s)
  IN  WithSpace(M, p[1], [M.ws[p[1]] EXCEPT !.tab = TabAt(L, p).id])

-----------------------------------------------------------------------------
\* What an earlier run may have stored: each name and each pane once, tabs with a pane or
\* a page. What is active need not be there.
IsTab(tab, sessions) ==
  /\ tab = [id |-> tab.id, view |-> tab.view, root |-> tab.root, pane |-> tab.pane]
  /\ tab.id \in Nat
  /\ \/ /\ tab.view = Nothing /\ IsTree(tab.root) /\ IsInjective(tab.root)
        /\ DOMAIN tab.root # {} /\ PaneSet(tab.root) \subseteq Panes(sessions)
        /\ tab.pane \in Panes(sessions)
     \/ /\ tab.view \in Views \cup {ContainersView}
        /\ tab.root = NoPanes /\ tab.pane \in Panes(sessions) \cup {Nothing}

IsSide(side, sessions) ==
  \/ side = Nothing
  \/ side \in [kind : {"diff", "files", "agents", "tunnels", "queue"}, session : sessions \cup {Nothing}]

IsWorkspace(w, sessions) ==
  /\ w = [id |-> w.id, docker |-> w.docker, tabs |-> w.tabs, tab |-> w.tab,
          side |-> w.side, expanded |-> w.expanded]
  /\ w.id \in Nat /\ w.docker \in BOOLEAN /\ w.tab \in Nat \cup {Nothing}
  /\ w.tabs \in Seq(Range(w.tabs)) /\ \A j \in DOMAIN w.tabs : IsTab(w.tabs[j], sessions)
  /\ IsSide(w.side, sessions) /\ w.expanded \in BOOLEAN

IsStored(L, sessions) ==
  /\ L = [ws |-> L.ws, active |-> L.active] /\ L.active \in Nat \cup {Nothing}
  /\ L.ws \in Seq(Range(L.ws)) /\ \A i \in DOMAIN L.ws : IsWorkspace(L.ws[i], sessions)
  /\ \A i, k \in DOMAIN L.ws : L.ws[i].id = L.ws[k].id => i = k
  /\ \A p, q \in Places(L) : p # q =>
       /\ TabAt(L, p).id # TabAt(L, q).id
       /\ PaneSet(TabAt(L, p).root) \cap PaneSet(TabAt(L, q).root) = {}

-----------------------------------------------------------------------------
\* Rows.

\* `workspaces_to_rows`
Rows(ws) ==
  LET places == Places([ws |-> ws])
  IN  [workspaces |-> {[id |-> ws[i].id, docker |-> ws[i].docker, position |-> i,
                        tab |-> ws[i].tab, side |-> ws[i].side, expanded |-> ws[i].expanded]
                        : i \in DOMAIN ws},
       tabs |-> {[id |-> ws[p[1]].tabs[p[2]].id, workspace |-> ws[p[1]].id, position |-> p[2],
                  view |-> ws[p[1]].tabs[p[2]].view, pane |-> ws[p[1]].tabs[p[2]].pane]
                  : p \in places},
       panes |-> UNION {PaneRows(ws[p[1]].tabs[p[2]].root, ws[p[1]].tabs[p[2]].id) : p \in places}]

\* Rows come in the order of their positions.
InOrder(rows) ==
  LET at == {r.position : r \in rows}
  IN  [k \in 1..Cardinality(at) |-> CHOOSE r \in rows : r.position = Nth(at, k)]

\* `build_tab`: the tree of a tab, with the panes of valid sessions; a tab without any is
\* nothing, unless it is a page.
Tree(row, panes) ==
  LET roots == {r \in panes : r.tab = row.id /\ r.parent = {}}
  IN  IF roots = {} THEN NoPanes ELSE BuildNode(CHOOSE r \in roots : TRUE, panes)
Retained(row, panes, valid) ==
  Keep(Tree(row, panes), {p \in PaneSet(Tree(row, panes)) : p.session \in valid})
BuildTab(row, root) ==
  IF row.view # Nothing THEN ViewTab(row.id, row.view)
  ELSE [id |-> row.id, view |-> Nothing, root |-> root,
        pane |-> IF row.pane \in PaneSet(root) THEN row.pane ELSE First(root)]

\* The tabs of one workspace, then the workspace with them.
TabsOf(stored, panes, valid) ==
  LET built == InOrder({t \in stored : t.view # Nothing \/ DOMAIN Retained(t, panes, valid) # {}})
  IN  [j \in DOMAIN built |-> BuildTab(built[j], Retained(built[j], panes, valid))]
WorkspaceOf(w, tabs, valid) ==
  [id |-> w.id, docker |-> w.docker, tabs |-> tabs,
   tab |-> IF \E j \in DOMAIN tabs : tabs[j].id = w.tab THEN w.tab ELSE Neighbour(tabs, 1),
   side |-> IF w.side # Nothing /\ (w.side.session = Nothing \/ w.side.session \in valid)
            THEN w.side ELSE Nothing,
   expanded |-> w.expanded]

\* `rows_to_workspaces`
Workspaces(rows, valid) ==
  LET stored == InOrder(rows.workspaces)
  IN  [i \in DOMAIN stored |->
        WorkspaceOf(stored[i],
          TabsOf({t \in rows.tabs : t.workspace = stored[i].id}, rows.panes, valid),
          valid)]

\* Mutant: a pane of a session that was reopened keeps the old session.
RemappedNever(rows, remap) == rows

\* `load_remapped`: what is of a session that was reopened is of the new one. The rows
\* keep the names of the panes, so the active one is the same.
Again(x, remap) == IF x.session \in DOMAIN remap THEN [x EXCEPT !.session = remap[@]] ELSE x
Remapped(rows, remap) ==
  [rows EXCEPT !.panes = {Again(r, remap) : r \in @},
               !.tabs = {IF t.view = Nothing THEN [t EXCEPT !.pane = Again(@, remap)] ELSE t : t \in @}]

\* `load_remapped`: the active workspace, or the first.
ActiveIn(ws, saved) ==
  [ws |-> ws, active |-> IF \E i \in DOMAIN ws : ws[i].id = saved THEN saved ELSE Neighbour(ws, 1)]
Loaded(rows, saved, valid, remap) == ActiveIn(Workspaces(Remapped(rows, remap), valid), saved)
=============================================================================
