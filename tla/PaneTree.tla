------------------------------- MODULE PaneTree -------------------------------
(***************************************************************************)
(* The tree of panes of a tab (`PaneNode`, src-tauri/src/layout/mod.rs) and *)
(* the rows it is stored as. A pane is named by what it shows, the terminal *)
(* of a session or the viewer of its subagents, since a session has at most *)
(* one of each in the whole layout (PlacedOnce in LayoutManager).           *)
(*                                                                         *)
(* A tree maps the place of each of its panes to the pane. The place is the *)
(* way from the root: a sequence of sides, 0 for the first, 1 for the       *)
(* second. The splits are where these ways part; they have no name here,    *)
(* and their direction and ratio are left out.                              *)
(***************************************************************************)
EXTENDS Naturals, FiniteSets, SequencesExt

CONSTANT Nothing

Leaf(s)   == [kind |-> "leaf", session |-> s]
Viewer(s) == [kind |-> "viewer", session |-> s]
Panes(sessions) == [kind : {"leaf", "viewer"}, session : sessions]

\* A tree of one pane, and the tree of a tab that is a page
Lone(pane) == [at \in {<<>>} |-> pane]
NoPanes    == [at \in {} |-> Nothing]

PaneSet(t) == Range(t)

\* p comes before q in the order first, second
Before(p, q) ==
  \E i \in DOMAIN p \cap DOMAIN q : p[i] < q[i] /\ \A j \in 1..i - 1 : p[j] = q[j]
FirstOf(places) == CHOOSE p \in places : \A q \in places : ~Before(q, p)

\* p parts at its step i from one of `places`
Parts(p, i, places) ==
  \E q \in places : i \in DOMAIN q /\ q[i] # p[i] /\ \A j \in 1..i - 1 : q[j] = p[j]

\* The ways of a tree part from each other, and each of their steps is a side of a split
\* with two.
Ways == Seq({0, 1})
IsPlan(places) ==
  /\ places \subseteq Ways /\ IsFiniteSet(places)
  /\ \A p, q \in places : p # q => Before(p, q) \/ Before(q, p)
  /\ \A p \in places : \A i \in DOMAIN p : Parts(p, i, places)
IsTree(t) == t = [p \in DOMAIN t |-> t[p]] /\ IsPlan(DOMAIN t)

\* `first_leaf`
First(t) == t[FirstOf(DOMAIN t)]

\* `split_leaf` and `split_leaf_with_viewer`: only the pane of a terminal is split,
\* the first one found.
SplitAt(t, leaf, new) ==
  LET found == {p \in DOMAIN t : t[p] = leaf}
      at    == FirstOf(found)
  IN  IF found = {} THEN t
      ELSE [p \in (DOMAIN t \ {at}) \cup {Append(at, 0), Append(at, 1)} |->
              IF p = Append(at, 0) THEN leaf ELSE IF p = Append(at, 1) THEN new ELSE t[p]]

\* The k-th of a set of numbers
Nth(S, k) == CHOOSE i \in S : Cardinality({j \in S : j <= i}) = k

\* `remove_leaf`, `retain_sessions`: the panes of `keep`; a split that loses one side
\* becomes the other, so of a way only the steps are left that part from another one.
Shortened(p, places) ==
  LET steps == {i \in DOMAIN p : Parts(p, i, places)}
  IN  [k \in 1..Cardinality(steps) |-> p[Nth(steps, k)]]

Keep(t, keep) ==
  LET kept == {p \in DOMAIN t : t[p] \in keep}
  IN  [x \in {Shortened(p, kept) : p \in kept} |->
         t[CHOOSE p \in kept : Shortened(p, kept) = x]]

-----------------------------------------------------------------------------
\* Rows. The name of a row stands for the uuid of its node.

\* Mutant: both sides of a split are stored as its first.
RowUnordered(tab, x, split, session) ==
  [name |-> <<tab, x>>, tab |-> tab, parent |-> IF x = <<>> THEN {} ELSE {<<tab, Front(x)>>},
   position |-> 0, split |-> split, session |-> session]

Row(tab, x, split, session) ==
  [name |-> <<tab, x>>, tab |-> tab, parent |-> IF x = <<>> THEN {} ELSE {<<tab, Front(x)>>},
   position |-> IF x = <<>> THEN Nothing ELSE Last(x), split |-> split, session |-> session]

\* The panes and the splits
Nodes(t) == UNION {{SubSeq(p, 1, i) : i \in 0..Len(p)} : p \in DOMAIN t}

\* `push_pane_rows`
NodeRow(t, tab, x) ==
  IF x \in DOMAIN t THEN Row(tab, x, t[x].kind, t[x].session) ELSE Row(tab, x, "split", Nothing)
PaneRows(t, tab) == {NodeRow(t, tab, x) : x \in Nodes(t)}

\* `build_node`: a split without two sides that can be built is nothing, and so is what
\* it is a side of.
Sides(row, rows)  == {r \in rows : r.parent = {row.name}}
SideOf(row, rows) == Cardinality({r \in rows : r.parent = row.parent /\ r.position < row.position})

\* Each row below the root, with its place: the root, its sides, their sides, and so on.
SidesOf(up, rows) ==
  {[row |-> r, at |-> Append(up.at, SideOf(r, rows))] : r \in Sides(up.row, rows)}
Below(root, rows) ==
  LET level[n \in 0..Cardinality(rows)] ==
        IF n = 0 THEN {[row |-> root, at |-> <<>>]}
        ELSE UNION {SidesOf(up, rows) : up \in level[n - 1]}
  IN  UNION {level[n] : n \in 0..Cardinality(rows)}

Builds(row, rows) ==
  IF row.split = "split" THEN Cardinality(Sides(row, rows)) = 2 ELSE row.session # Nothing
PaneOf(row) == [kind |-> row.split, session |-> row.session]

BuildNode(root, rows) ==
  LET below == Below(root, rows)
      panes == {b \in below : b.row.split # "split"}
  IN  IF \E b \in below : ~Builds(b.row, rows) THEN NoPanes
      ELSE [x \in {b.at : b \in panes} |-> PaneOf((CHOOSE b \in panes : b.at = x).row)]
=============================================================================
