------------------------------ MODULE PaneProofs ------------------------------
(* Theorems about Pane, for any windows and any finite set of views, any shell   *)
(* and any way its stream is cut.                                               *)
EXTENDS Pane, FiniteSetTheorems, SequenceTheorems, WellFoundedInduction, TLAPS

\* The views of a window the screen has to count: attached, or about to detach.
Watching(w) == {v \in Views : windowOf[v] = w /\ view[v] \in {"attached", "leaves"}}

\* The parts of ScreenState are there, whatever is in them.
HasShape(s) ==
  /\ s = [core |-> s.core, pending |-> s.pending, attachers |-> s.attachers]
  /\ s.attachers \in [Windows -> Nat]

ViewsAreTyped ==
  /\ view \in [Views -> {"off", "hears", "attached", "leaves"}]
  /\ windowOf \in [Views -> Windows]
  /\ HasShape(screen)
  /\ inherited \in [Windows -> Nat] \cup {NotStarting}

\* A process that starts takes over who is attached, as long as nobody comes or goes.
InheritedIsCurrent == ~raced /\ inherited # NotStarting => inherited = screen.attachers

\* The inductive invariant
CountInv == ViewsAreTyped /\ InheritedIsCurrent /\ AttachedIsHeard

-----------------------------------------------------------------------------
\* What each critical section makes of the attachers.

LEMMA ShapeFacts ==
  ASSUME NEW s, HasShape(s)
  PROVE  /\ HasShape(Emptied(s)) /\ Emptied(s).attachers = s.attachers
         /\ HasShape(Unheard(s)) /\ Unheard(s).attachers = s.attachers
         /\ \A todo : HasShape(ApplyAll(s, todo)) /\ ApplyAll(s, todo).attachers = s.attachers
         /\ \A chunk, todo : /\ HasShape(Ingested(s, chunk, todo))
                             /\ Ingested(s, chunk, todo).attachers = s.attachers
<1>1. \A p : LET t == [s EXCEPT !.pending = p] IN HasShape(t) /\ t.attachers = s.attachers
  BY DEF HasShape
<1>2. \A c : LET t == [s EXCEPT !.core = c] IN HasShape(t) /\ t.attachers = s.attachers
  BY DEF HasShape
<1>3. HasShape(Emptied(s)) /\ Emptied(s).attachers = s.attachers
  BY <1>1 DEF Emptied
<1>4. HasShape(Unheard(s)) /\ Unheard(s).attachers = s.attachers
  BY <1>1 DEF Unheard
<1>5. ASSUME NEW t, HasShape(t), NEW todo
      PROVE  HasShape(ApplyAll(t, todo)) /\ ApplyAll(t, todo).attachers = t.attachers
  BY <1>5 DEF ApplyAll, HasShape
<1>6. ASSUME NEW chunk, NEW todo
      PROVE  /\ HasShape(Ingested(s, chunk, todo))
             /\ Ingested(s, chunk, todo).attachers = s.attachers
  BY ZenonT(40), <1>2, <1>5 DEF Ingested
<1> QED
  BY <1>3, <1>4, <1>5, <1>6

LEMMA AttachFacts ==
  ASSUME NEW s, HasShape(s), NEW w \in Windows
  PROVE  /\ HasShape(Attach(s, w))
         /\ Attach(s, w).attachers = [s.attachers EXCEPT ![w] = s.attachers[w] + 1]
BY DEF Attach, HasShape

LEMMA DropFacts ==
  ASSUME NEW s, HasShape(s), NEW w \in Windows
  PROVE  /\ HasShape(DropWindow(s, w))
         /\ DropWindow(s, w).attachers = [s.attachers EXCEPT ![w] = 0]
<1> DEFINE t == [s EXCEPT !.attachers[w] = 0]
<1>1. HasShape(t) /\ t.attachers = [s.attachers EXCEPT ![w] = 0]
  BY DEF HasShape
<1>2. DropWindow(s, w) = Unheard(t)
  BY DEF DropWindow
<1> HIDE DEF t
<1> QED
  BY <1>1, <1>2, ShapeFacts

LEMMA DetachFacts ==
  ASSUME NEW s, HasShape(s), NEW w \in Windows
  PROVE  /\ HasShape(Detach(s, w))
         /\ Detach(s, w).attachers =
              [s.attachers EXCEPT ![w] = IF s.attachers[w] = 0 THEN 0 ELSE s.attachers[w] - 1]
<1>0. s.attachers \in [Windows -> Nat] /\ s.attachers[w] \in Nat
  BY DEF HasShape
<1>1. CASE s.attachers[w] = 0
  BY <1>0, <1>1 DEF Detach
<1>2. CASE s.attachers[w] > 1
  BY <1>0, <1>2 DEF Detach, HasShape
<1>3. CASE s.attachers[w] = 1
  BY <1>0, <1>3, DropFacts DEF Detach
<1> QED
  BY <1>0, <1>1, <1>2, <1>3

LEMMA WatchingFacts ==
  \A w \in Windows : /\ IsFiniteSet(Watching(w)) /\ Cardinality(Watching(w)) \in Nat
                     /\ Watching(w) \subseteq Views
<1>1. \A w \in Windows : Watching(w) \subseteq Views
  BY DEF Watching
<1> QED
  BY <1>1, FS_Subset, FS_CardinalityType, PaneAssumption

-----------------------------------------------------------------------------
\* The shell and the emitter leave the views alone, and who the screen counts.
Untouched ==
  /\ UNCHANGED <<view, windowOf, inherited, raced>>
  /\ HasShape(screen') /\ screen'.attachers = screen.attachers

LEMMA StreamStep ==
  ASSUME HasShape(screen), Shell \/ Emitter \/ UNCHANGED vars
  PROVE  Untouched
<1> USE DEF Untouched, views, vars
<1>1. ASSUME Shell PROVE Untouched
  <2>1. UNCHANGED <<core, views, inherited, raced>>
    BY <1>1 DEF Shell, Prompt, Toggle, Submit, EmptyLine, Continue, Run, Output, Dies, Puts,
                Ps1, Writes
  <2> QED
    BY <2>1 DEF core
<1>2. ASSUME Ingest PROVE Untouched
  <2>1. PICK s : /\ HasShape(s) /\ s.attachers = screen.attachers
                 /\ screen' = s \/ screen' = Emptied(s)
    BY <1>2, ShapeFacts DEF Ingest
  <2> QED
    BY <1>2, <2>1, ShapeFacts DEF Ingest
<1>3. ASSUME Flush PROVE Untouched
  BY <1>3, ShapeFacts DEF Flush
<1>4. ASSUME Report \/ LastWords PROVE Untouched
  BY <1>4 DEF Report, LastWords
<1>5. ASSUME Eof PROVE Untouched
  <2>1. PICK s : /\ HasShape(s) /\ s.attachers = screen.attachers /\ screen' = Emptied(s)
    BY <1>5, ShapeFacts DEF Eof
  <2> QED
    BY <1>5, <2>1, ShapeFacts DEF Eof
<1>6. ASSUME UNCHANGED vars PROVE Untouched
  BY <1>6 DEF core
<1> QED
  BY <1>1, <1>2, <1>3, <1>4, <1>5, <1>6 DEF Emitter

LEMMA UntouchedKeeps == CountInv /\ Untouched => CountInv'
<1> SUFFICES ASSUME CountInv, Untouched PROVE CountInv'
  OBVIOUS
<1>1. \A w : Watching(w)' = Watching(w)
  BY DEF Watching, Untouched
<1>2. AttachedIsHeard'
  BY <1>1 DEF CountInv, AttachedIsHeard, Untouched, Watching
<1> QED
  BY <1>2 DEF CountInv, ViewsAreTyped, InheritedIsCurrent, Untouched

\* A view begins to listen, or is about to detach: it counts as before.
LEMMA QuietViewStep ==
  ASSUME CountInv, NEW v \in Views, Mount(v) \/ Unmount(v)
  PROVE  CountInv'
<1>1. UNCHANGED <<screen, windowOf, inherited, raced>>
  BY DEF Mount, Unmount, Moves
<1>2. view' \in [Views -> {"off", "hears", "attached", "leaves"}]
  BY DEF Mount, Unmount, Moves, CountInv, ViewsAreTyped
<1>3. ASSUME NEW w \in Windows PROVE Watching(w)' = Watching(w)
  BY <1>1 DEF Mount, Unmount, Moves, Watching, CountInv, ViewsAreTyped
<1>4. AttachedIsHeard'
  BY <1>1, <1>3 DEF CountInv, AttachedIsHeard, Watching
<1> QED
  BY <1>1, <1>2, <1>4 DEF CountInv, ViewsAreTyped, InheritedIsCurrent

\* A new process that starts meanwhile is told nothing of who comes or goes.
LEMMA RacedStep ==
  ASSUME InheritedIsCurrent, inherited' = inherited, raced' = (raced \/ inherited # NotStarting)
  PROVE  InheritedIsCurrent'
BY DEF InheritedIsCurrent

LEMMA AttachStep ==
  ASSUME CountInv, NEW v \in Views, AttachView(v)
  PROVE  CountInv'
<1> DEFINE z == windowOf[v]
<1>1. /\ UNCHANGED <<windowOf, inherited>> /\ z \in Windows
      /\ view[v] = "hears" /\ view' = [view EXCEPT ![v] = "attached"]
      /\ raced' = (raced \/ inherited # NotStarting)
  BY DEF AttachView, Moves, CountInv, ViewsAreTyped
<1>2. /\ HasShape(screen') /\ screen'.attachers = [screen.attachers EXCEPT ![z] = screen.attachers[z] + 1]
  <2>1. HasShape(Emptied(screen)) /\ Emptied(screen).attachers = screen.attachers
    BY ShapeFacts DEF CountInv, ViewsAreTyped
  <2>2. screen' = Attach(Emptied(screen), z)
    BY DEF AttachView
  <2> QED
    BY <1>1, <2>1, <2>2, AttachFacts
<1>3. ViewsAreTyped'
  BY <1>1, <1>2 DEF CountInv, ViewsAreTyped
<1>4. ASSUME NEW w \in Windows, ~raced' PROVE screen'.attachers[w] = Cardinality(Watching(w)')
  <2>1. screen.attachers \in [Windows -> Nat] /\ screen.attachers[w] = Cardinality(Watching(w))
    BY <1>1, <1>4 DEF CountInv, AttachedIsHeard, Watching, ViewsAreTyped, HasShape
  <2>2. CASE w = z
    <3>1. Watching(w)' = Watching(w) \cup {v} /\ v \notin Watching(w)
      BY <1>1, <2>2 DEF Watching, CountInv, ViewsAreTyped
    <3>2. Cardinality(Watching(w)') = Cardinality(Watching(w)) + 1
      BY <3>1, WatchingFacts, FS_AddElement
    <3> QED
      BY <1>2, <2>1, <2>2, <3>2
  <2>3. CASE w # z
    <3>1. Watching(w)' = Watching(w)
      BY <1>1, <2>3 DEF Watching, CountInv, ViewsAreTyped
    <3> QED
      BY <1>2, <2>1, <2>3, <3>1
  <2> QED
    BY <2>2, <2>3
<1>5. AttachedIsHeard'
  BY <1>4 DEF AttachedIsHeard, Watching
<1> QED
  BY <1>1, <1>3, <1>5, RacedStep DEF CountInv

LEMMA DetachStep ==
  ASSUME CountInv, NEW v \in Views, DetachView(v)
  PROVE  CountInv'
<1> DEFINE z == windowOf[v]
<1>1. /\ UNCHANGED <<windowOf, inherited>> /\ z \in Windows
      /\ view[v] = "leaves" /\ view' = [view EXCEPT ![v] = "off"]
      /\ raced' = (raced \/ inherited # NotStarting)
  BY DEF DetachView, Moves, CountInv, ViewsAreTyped
<1>2. /\ HasShape(screen')
      /\ screen'.attachers =
           [screen.attachers EXCEPT ![z] = IF screen.attachers[z] = 0 THEN 0 ELSE screen.attachers[z] - 1]
  <2>1. HasShape(screen) /\ screen' = Detach(screen, z)
    BY DEF DetachView, CountInv, ViewsAreTyped
  <2> QED
    BY <1>1, <2>1, DetachFacts
<1>3. ViewsAreTyped'
  BY <1>1, <1>2 DEF CountInv, ViewsAreTyped
<1>4. ASSUME NEW w \in Windows, ~raced' PROVE screen'.attachers[w] = Cardinality(Watching(w)')
  <2>1. screen.attachers \in [Windows -> Nat] /\ screen.attachers[w] = Cardinality(Watching(w))
    BY <1>1, <1>4 DEF CountInv, AttachedIsHeard, Watching, ViewsAreTyped, HasShape
  <2>2. CASE w = z
    <3>1. Watching(w)' = Watching(w) \ {v} /\ v \in Watching(w)
      BY <1>1, <2>2 DEF Watching, CountInv, ViewsAreTyped
    <3>2. /\ Cardinality(Watching(w)') = Cardinality(Watching(w)) - 1
          /\ Cardinality(Watching(w)) \in Nat /\ Cardinality(Watching(w)) # 0
      BY ZenonT(40), <3>1, WatchingFacts, FS_RemoveElement, FS_EmptySet
    <3> QED
      BY <1>2, <2>1, <2>2, <3>2
  <2>3. CASE w # z
    <3>1. Watching(w)' = Watching(w)
      BY <1>1, <2>3 DEF Watching, CountInv, ViewsAreTyped
    <3> QED
      BY <1>2, <2>1, <2>3, <3>1
  <2> QED
    BY <2>2, <2>3
<1>5. AttachedIsHeard'
  BY <1>4 DEF AttachedIsHeard, Watching
<1> QED
  BY <1>1, <1>3, <1>5, RacedStep DEF CountInv

LEMMA CloseStep ==
  ASSUME CountInv, NEW z \in Windows, CloseWindow(z)
  PROVE  CountInv'
<1>1. /\ UNCHANGED <<windowOf, inherited>>
      /\ view' = [v \in Views |-> IF windowOf[v] = z THEN "off" ELSE view[v]]
      /\ raced' = (raced \/ inherited # NotStarting)
  BY DEF CloseWindow
<1>2. HasShape(screen') /\ screen'.attachers = [screen.attachers EXCEPT ![z] = 0]
  <2>1. HasShape(screen) /\ screen' = DropWindow(screen, z)
    BY DEF CloseWindow, CountInv, ViewsAreTyped
  <2> QED
    BY <2>1, DropFacts
<1>3. ViewsAreTyped'
  BY <1>1, <1>2 DEF CountInv, ViewsAreTyped
<1>4. ASSUME NEW w \in Windows, ~raced' PROVE screen'.attachers[w] = Cardinality(Watching(w)')
  <2>1. screen.attachers \in [Windows -> Nat] /\ screen.attachers[w] = Cardinality(Watching(w))
    BY <1>1, <1>4 DEF CountInv, AttachedIsHeard, Watching, ViewsAreTyped, HasShape
  <2>2. CASE w = z
    <3>1. Watching(w)' = {}
      BY <1>1, <2>2 DEF Watching
    <3> QED
      BY <1>2, <2>1, <2>2, <3>1, FS_EmptySet
  <2>3. CASE w # z
    <3>1. Watching(w)' = Watching(w)
      BY <1>1, <2>3 DEF Watching, CountInv, ViewsAreTyped
    <3> QED
      BY <1>2, <2>1, <2>3, <3>1
  <2> QED
    BY <2>2, <2>3
<1>5. AttachedIsHeard'
  BY <1>4 DEF AttachedIsHeard, Watching
<1> QED
  BY <1>1, <1>3, <1>5, RacedStep DEF CountInv

LEMMA StartStep ==
  ASSUME CountInv, Inherit \/ Respawn
  PROVE  CountInv'
<1>1. UNCHANGED <<view, windowOf, raced>>
  BY DEF Inherit, Respawn, views
<1>2. \A w : Watching(w)' = Watching(w)
  BY <1>1 DEF Watching
<1>3. CASE Inherit
  <2>1. screen' = screen /\ inherited' = screen.attachers
    BY <1>3 DEF Inherit, core
  <2>2. ViewsAreTyped' /\ InheritedIsCurrent'
    BY <1>1, <2>1 DEF CountInv, ViewsAreTyped, InheritedIsCurrent, HasShape
  <2>3. AttachedIsHeard'
    BY <1>1, <1>2, <2>1 DEF CountInv, AttachedIsHeard, Watching
  <2> QED
    BY <2>2, <2>3 DEF CountInv
<1>4. CASE Respawn
  <2>1. /\ inherited # NotStarting /\ inherited' = NotStarting
        /\ screen' = [core |-> <<>>, pending |-> <<>>, attachers |-> inherited]
    BY <1>4 DEF Respawn, Blank
  <2>2. inherited \in [Windows -> Nat]
    BY <2>1 DEF CountInv, ViewsAreTyped
  <2>3. ViewsAreTyped' /\ InheritedIsCurrent'
    BY <1>1, <2>1, <2>2 DEF CountInv, ViewsAreTyped, InheritedIsCurrent, HasShape
  <2>4. ~raced => screen'.attachers = screen.attachers
    BY <2>1 DEF CountInv, InheritedIsCurrent
  <2>5. AttachedIsHeard'
    BY <1>1, <1>2, <2>4 DEF CountInv, AttachedIsHeard, Watching
  <2> QED
    BY <2>3, <2>5 DEF CountInv
<1> QED
  BY <1>3, <1>4

-----------------------------------------------------------------------------
\* At first nobody is attached, and nobody is counted.
LEMMA InitCounts == ASSUME Init PROVE CountInv
<1>1. Nobody \in [Windows -> Nat] /\ \A w \in Windows : Nobody[w] = 0
  BY DEF Nobody
<1>2. ViewsAreTyped /\ InheritedIsCurrent
  BY <1>1 DEF Init, ViewsAreTyped, InheritedIsCurrent, HasShape, Blank
<1>3. \A w \in Windows : Watching(w) = {} /\ screen.attachers[w] = 0
  BY <1>1 DEF Init, Watching, Blank
<1>4. AttachedIsHeard
  BY <1>3, FS_EmptySet DEF AttachedIsHeard, Watching
<1> QED
  BY <1>2, <1>4 DEF CountInv

\* Every step keeps the counts true.
LEMMA NextCounts == ASSUME CountInv, [Next]_vars PROVE CountInv'
<1>1. ASSUME Shell \/ Emitter \/ UNCHANGED vars PROVE CountInv'
  BY <1>1, StreamStep, UntouchedKeeps DEF CountInv, ViewsAreTyped
<1> QED
  BY <1>1, QuietViewStep, AttachStep, DetachStep, CloseStep, StartStep DEF Next

\* The screen counts the views that are attached and no others (AttachedIsHeard), whatever
\* views come and go, windows close and processes start on it: the screen of a process that
\* died is inherited with its counts, and they are still true when the next one takes it.
THEOREM ViewsHeard == Spec => []AttachedIsHeard
<1>1. Init => CountInv
  BY InitCounts
<1>2. CountInv /\ [Next]_vars => CountInv'
  BY NextCounts
<1>3. CountInv => AttachedIsHeard
  BY DEF CountInv
<1> QED
  BY <1>1, <1>2, <1>3, PTL DEF Spec

-----------------------------------------------------------------------------
\* Sets of numbers, and what is picked of a sequence.

\* A set of numbers that has 0 and with each number the next has all of them.
LEMMA SetInduction ==
  ASSUME NEW S, 0 \in S, \A n \in Nat : n \in S => n + 1 \in S
  PROVE  Nat \subseteq S
<1> SUFFICES ASSUME Nat \ S # {} PROVE FALSE
  OBVIOUS
<1> DEFINE R == {ss \in Nat \X Nat : ss[1] < ss[2]}
           T == Nat \ S
<1>1. IsWellFoundedOn(R, Nat)
  <2>1. OpToRel(<, Nat) = R
    BY DEF OpToRel
  <2> QED
    BY <2>1, NatLessThanWellFounded
<1>2. \A k, m \in Nat : k < m => <<k, m>> \in R
  OBVIOUS
<1>3. T \subseteq Nat /\ T # {}
  OBVIOUS
<1> HIDE DEF R, T
<1>4. PICK m \in T : \A k \in T : ~ (<<k, m>> \in R)
  BY <1>1, <1>3, WFMin
<1>5. m \in Nat /\ m \notin S
  BY <1>4 DEF T
<1>6. m # 0 /\ m - 1 \in Nat /\ m - 1 < m /\ (m - 1) + 1 = m
  BY <1>5
<1>7. <<m - 1, m>> \in R /\ m - 1 \notin T
  BY <1>2, <1>4, <1>5, <1>6
<1>8. m - 1 \in S
  BY <1>6, <1>7 DEF T
<1> QED
  BY <1>5, <1>6, <1>8

-----------------------------------------------------------------------------
\* What Picked unfolds to

With(s, e) == Append(s, e)

IsPicking(g, s, at, n) ==
  g = [i \in 0..n |-> IF i = 0 THEN <<>> ELSE IF i \in at THEN With(g[i - 1], s[i]) ELSE g[i - 1]]

\* Such a function exists for every length.
LEMMA PickingExists == ASSUME NEW s, NEW at PROVE \A n \in Nat : \E g : IsPicking(g, s, at, n)
<1> DEFINE S == {n \in Nat : \E g : IsPicking(g, s, at, n)}
<1>1. 0 \in S
  <2>1. IsPicking([i \in 0..0 |-> <<>>], s, at, 0)
    BY DEF IsPicking
  <2> QED
    BY <2>1
<1>2. ASSUME NEW n \in Nat, n \in S PROVE n + 1 \in S
  <2>1. PICK g : IsPicking(g, s, at, n)
    BY <1>2
  <2> DEFINE h == [i \in 0..(n + 1) |->
                     IF i = n + 1 THEN IF n + 1 \in at THEN With(g[n], s[n + 1]) ELSE g[n] ELSE g[i]]
  <2>2. IsPicking(h, s, at, n + 1)
    BY <2>1 DEF IsPicking
  <2> QED
    BY <2>2
<1> HIDE DEF S
<1>3. Nat \subseteq S
  BY <1>1, <1>2, SetInduction
<1> QED
  BY <1>3 DEF S

Alike(s, t, at, bt, n) == \A i \in 1..n : s[i] = t[i] /\ (i \in at <=> i \in bt)

\* and two of them agree.
LEMMA PickingAgrees ==
  ASSUME NEW s, NEW t, NEW at, NEW bt, NEW n \in Nat, NEW m \in Nat, n <= m,
         Alike(s, t, at, bt, n),
         NEW g, NEW h, IsPicking(g, s, at, n), IsPicking(h, t, bt, m)
  PROVE  \A i \in 0..n : g[i] = h[i]
<1> DEFINE S == {i \in Nat : i <= n => g[i] = h[i]}
<1>1. 0 \in S
  BY DEF IsPicking
<1>2. ASSUME NEW i \in Nat, i \in S PROVE i + 1 \in S
  <2> SUFFICES ASSUME i + 1 <= n PROVE g[i + 1] = h[i + 1]
    OBVIOUS
  <2>1. i + 1 \in 1..n /\ i + 1 \in 0..n /\ i + 1 \in 0..m /\ (i + 1) - 1 = i /\ i + 1 # 0 /\ i <= n
    OBVIOUS
  <2>2. g[i + 1] = IF i + 1 \in at THEN With(g[i], s[i + 1]) ELSE g[i]
    BY <2>1 DEF IsPicking
  <2>3. h[i + 1] = IF i + 1 \in bt THEN With(h[i], t[i + 1]) ELSE h[i]
    BY <2>1 DEF IsPicking
  <2> QED
    BY <1>2, <2>1, <2>2, <2>3 DEF Alike
<1> HIDE DEF S
<1>3. Nat \subseteq S
  BY <1>1, <1>2, SetInduction
<1> QED
  BY <1>3 DEF S

\* Picked is the last value of one.
LEMMA PickedIsPicking ==
  ASSUME NEW s, NEW at, Len(s) \in Nat
  PROVE  \E g : IsPicking(g, s, at, Len(s)) /\ Picked(s, at) = g[Len(s)]
<1>1. Picked(s, at) = (CHOOSE g : IsPicking(g, s, at, Len(s)))[Len(s)]
  BY DEF Picked, IsPicking, With
<1>2. \E g : IsPicking(g, s, at, Len(s))
  BY PickingExists
<1> QED
  BY <1>1, <1>2

\* The same positions of the same prefix
LEMMA PickedSame ==
  ASSUME NEW s, NEW at, NEW bt, Len(s) \in Nat, \A i \in 1..Len(s) : i \in at <=> i \in bt
  PROVE  Picked(s, at) = Picked(s, bt)
<1>1. PICK g : IsPicking(g, s, at, Len(s)) /\ Picked(s, at) = g[Len(s)]
  BY PickedIsPicking
<1>2. PICK h : IsPicking(h, s, bt, Len(s)) /\ Picked(s, bt) = h[Len(s)]
  BY PickedIsPicking
<1>4. Alike(s, s, at, bt, Len(s)) /\ Len(s) <= Len(s)
  BY DEF Alike
<1>3. \A i \in 0..Len(s) : g[i] = h[i]
  BY <1>1, <1>2, <1>4, PickingAgrees
<1> QED
  BY <1>1, <1>2, <1>3

\* Nothing is picked of nothing.
LEMMA PickedEmpty == ASSUME NEW at PROVE Picked(<<>>, at) = <<>>
<1>1. Len(<<>>) = 0
  OBVIOUS
<1>2. PICK g : IsPicking(g, <<>>, at, Len(<<>>)) /\ Picked(<<>>, at) = g[Len(<<>>)]
  BY <1>1, PickedIsPicking
<1> QED
  BY <1>1, <1>2 DEF IsPicking

\* What is picked grows by the last element where its place counts.
LEMMA PickedAppend ==
  ASSUME NEW S, NEW s \in Seq(S), NEW e \in S, NEW at
  PROVE  Picked(Append(s, e), at)
           = IF Len(s) + 1 \in at THEN Append(Picked(s, at), e) ELSE Picked(s, at)
<1> DEFINE t == Append(s, e)
           n == Len(s)
<1>1. n \in Nat /\ Len(t) = n + 1 /\ t[n + 1] = e /\ \A i \in 1..n : t[i] = s[i]
  BY AppendProperties, LenProperties
<1> HIDE DEF t, n
<1>2. PICK g : IsPicking(g, s, at, n) /\ Picked(s, at) = g[n]
  BY <1>1, PickedIsPicking DEF n
<1>3. PICK h : IsPicking(h, t, at, n + 1) /\ Picked(t, at) = h[n + 1]
  BY <1>1, PickedIsPicking
<1>6. Alike(s, t, at, at, n) /\ n <= n + 1 /\ n + 1 \in Nat
  BY <1>1 DEF Alike
<1>4. \A i \in 0..n : g[i] = h[i]
  BY <1>1, <1>2, <1>3, <1>6, PickingAgrees
<1>5. h[n + 1] = IF n + 1 \in at THEN With(h[n], e) ELSE h[n]
  BY <1>1, <1>3 DEF IsPicking
<1> QED
  BY <1>1, <1>2, <1>3, <1>4, <1>5 DEF t, n, With

\* What is picked of a sequence over S is one over S.
LEMMA PickedType == ASSUME NEW S, NEW at PROVE \A s \in Seq(S) : Picked(s, at) \in Seq(S)
<1> DEFINE N == {n \in Nat : \A s \in Seq(S) : Len(s) = n => Picked(s, at) \in Seq(S)}
<1>1. 0 \in N
  <2>1. ASSUME NEW s \in Seq(S), Len(s) = 0 PROVE Picked(s, at) \in Seq(S)
    BY <2>1, PickedEmpty, EmptySeq
  <2> QED
    BY <2>1
<1>2. ASSUME NEW n \in Nat, n \in N PROVE n + 1 \in N
  <2> SUFFICES ASSUME NEW s \in Seq(S), Len(s) = n + 1 PROVE Picked(s, at) \in Seq(S)
    OBVIOUS
  <2>1. PICK t \in Seq(S), e \in S : s = Append(t, e)
    BY SequenceEmptyOrAppend, EmptySeq
  <2>2. Len(t) = n
    BY <2>1, AppendProperties, LenProperties
  <2>3. Picked(t, at) \in Seq(S)
    BY <1>2, <2>2
  <2>4. Append(Picked(t, at), e) \in Seq(S)
    BY <2>1, <2>3, AppendProperties
  <2>5. Picked(s, at) = IF Len(t) + 1 \in at THEN Append(Picked(t, at), e) ELSE Picked(t, at)
    BY <2>1, PickedAppend
  <2> QED
    BY <2>3, <2>4, <2>5
<1> HIDE DEF N
<1>3. Nat \subseteq N
  BY <1>1, <1>2, SetInduction
<1> QED
  BY <1>3, LenProperties DEF N

-----------------------------------------------------------------------------
\* Sequences over whatever set.

\* Sequences of whatever
IsSeq(s) == \E S : s \in Seq(S)

\* Two sequences and a value lie over one set.
LEMMA OneSet == ASSUME NEW s, NEW t, IsSeq(s), IsSeq(t), NEW e PROVE \E S : s \in Seq(S) /\ t \in Seq(S) /\ e \in S
<1>1. PICK S : s \in Seq(S)
  BY DEF IsSeq
<1>2. PICK T : t \in Seq(T)
  BY DEF IsSeq
<1> DEFINE U == S \cup T \cup {e}
<1>3. S \subseteq U /\ T \subseteq U /\ e \in U
  OBVIOUS
<1> HIDE DEF U
<1>4. s \in Seq(U) /\ t \in Seq(U)
  BY <1>1, <1>2, <1>3, SeqMonotonic
<1> QED
  BY <1>3, <1>4

\* The length and the domain of a sequence
LEMMA SeqLen == ASSUME NEW s, IsSeq(s) PROVE Len(s) \in Nat /\ DOMAIN s = 1..Len(s) /\ (s = <<>> <=> Len(s) = 0)
<1>1. PICK S : s \in Seq(S)
  BY DEF IsSeq
<1> QED
  BY <1>1, LenProperties, EmptySeq

\* The empty sequence adds nothing.
LEMMA EmptyIsSeq == IsSeq(<<>>) /\ Len(<<>>) = 0 /\ \A s : IsSeq(s) => s \o <<>> = s /\ <<>> \o s = s
<1>1. IsSeq(<<>>) /\ Len(<<>>) = 0
  <2>1. <<>> \in Seq({0})
    BY EmptySeq
  <2> QED
    BY <2>1, EmptySeq DEF IsSeq
<1>2. ASSUME NEW s, IsSeq(s) PROVE s \o <<>> = s /\ <<>> \o s = s
  <2>1. PICK S : s \in Seq(S)
    BY <1>2 DEF IsSeq
  <2> QED
    BY <2>1, ConcatEmptySeq
<1> QED
  BY <1>1, <1>2

\* The elements of a concatenation
LEMMA SeqConcat ==
  ASSUME NEW s, NEW t, IsSeq(s), IsSeq(t)
  PROVE  /\ IsSeq(s \o t) /\ Len(s \o t) = Len(s) + Len(t)
         /\ \A i \in 1..Len(s) : (s \o t)[i] = s[i]
         /\ \A i \in 1..Len(t) : (s \o t)[Len(s) + i] = t[i]
         /\ \A i \in 1..(Len(s) + Len(t)) : (s \o t)[i] = IF i <= Len(s) THEN s[i] ELSE t[i - Len(s)]
<1>1. PICK S : s \in Seq(S) /\ t \in Seq(S)
  BY OneSet
<1> DEFINE u == s \o t
<1>2. /\ u \in Seq(S) /\ Len(u) = Len(s) + Len(t)
      /\ \A i \in 1..(Len(s) + Len(t)) : u[i] = IF i <= Len(s) THEN s[i] ELSE t[i - Len(s)]
  BY <1>1, ConcatProperties
<1>3. Len(s) \in Nat /\ Len(t) \in Nat
  BY SeqLen
<1>4. IsSeq(u)
  BY <1>2 DEF IsSeq
<1> HIDE DEF u
<1>5. \A i \in 1..Len(s) : u[i] = s[i]
  BY <1>2, <1>3
<1>6. \A i \in 1..Len(t) : u[Len(s) + i] = t[i]
  BY <1>2, <1>3
<1> QED
  BY <1>2, <1>4, <1>5, <1>6 DEF u

\* Append is a concatenation with one element.
LEMMA SeqAppend ==
  ASSUME NEW s, IsSeq(s), NEW e
  PROVE  /\ IsSeq(Append(s, e)) /\ Len(Append(s, e)) = Len(s) + 1
         /\ Append(s, e)[Len(s) + 1] = e
         /\ \A i \in 1..Len(s) : Append(s, e)[i] = s[i]
         /\ Append(s, e) = s \o <<e>>
<1>1. PICK S : s \in Seq(S) /\ e \in S
  BY OneSet
<1> QED
  BY <1>1, AppendProperties, AppendIsConcat DEF IsSeq

\* The sequence of one element
LEMMA OneIsSeq == ASSUME NEW e PROVE IsSeq(<<e>>) /\ Len(<<e>>) = 1 /\ <<e>>[1] = e /\ Append(<<>>, e) = <<e>>
<1>1. <<e>> \in Seq({e})
  OBVIOUS
<1>2. Append(<<>>, e) = <<>> \o <<e>>
  BY SeqAppend, EmptyIsSeq
<1>3. IsSeq(<<e>>)
  BY <1>1 DEF IsSeq
<1> QED
  BY <1>2, <1>3, EmptyIsSeq

\* Concatenation associates.
LEMMA SeqAssociates ==
  ASSUME NEW s, NEW t, NEW u, IsSeq(s), IsSeq(t), IsSeq(u)
  PROVE  (s \o t) \o u = s \o (t \o u)
<1>1. PICK S : s \in Seq(S) /\ t \in Seq(S)
  BY OneSet
<1>2. PICK T : u \in Seq(T)
  BY DEF IsSeq
<1> DEFINE U == S \cup T
<1>3. s \in Seq(U) /\ t \in Seq(U) /\ u \in Seq(U)
  <2>1. S \subseteq U /\ T \subseteq U
    OBVIOUS
  <2> HIDE DEF U
  <2> QED
    BY <1>1, <1>2, <2>1, SeqMonotonic
<1> QED
  BY <1>3, ConcatAssociative

\* Two sequences with the same elements are the same.
LEMMA SeqExtensional ==
  ASSUME NEW s, NEW t, IsSeq(s), IsSeq(t), Len(s) = Len(t), \A i \in 1..Len(s) : s[i] = t[i]
  PROVE  s = t
<1>1. PICK S : s \in Seq(S) /\ t \in Seq(S)
  BY OneSet
<1> QED
  BY <1>1, SeqEqual

\* The elements of a part of a sequence
LEMMA SubSeqIsSeq ==
  ASSUME NEW s, IsSeq(s), NEW m \in Nat \ {0}, NEW n \in Nat, n <= Len(s)
  PROVE  /\ IsSeq(SubSeq(s, m, n)) /\ Len(SubSeq(s, m, n)) = IF m <= n THEN n - m + 1 ELSE 0
         /\ \A i \in 1..(n - m + 1) : SubSeq(s, m, n)[i] = s[m + i - 1]
         /\ m > n => SubSeq(s, m, n) = <<>>
<1>1. PICK S : s \in Seq(S)
  BY DEF IsSeq
<1>2. \A i \in m..n : s[i] \in S
  BY <1>1, ElementOfSeq, LenProperties
<1>3. m \in Int /\ n \in Int
  OBVIOUS
<1>4. SubSeq(s, m, n) \in Seq(S) /\ Len(SubSeq(s, m, n)) = (IF m <= n THEN n - m + 1 ELSE 0)
  BY <1>2, <1>3, SubSeqProperties
<1>5. \A i \in 1..(n - m + 1) : SubSeq(s, m, n)[i] = s[m + i - 1]
  BY <1>2, <1>3, SubSeqProperties
<1>6. m > n => SubSeq(s, m, n) = <<>>
  BY <1>3, SubSeqEmpty
<1> QED
  BY <1>4, <1>5, <1>6 DEF IsSeq

\* A part is cut in two anywhere.
LEMMA SubSeqSplit ==
  ASSUME NEW s, IsSeq(s), NEW m \in Nat \ {0}, NEW k \in Nat, NEW n \in Nat, m <= k + 1, k <= n, n <= Len(s)
  PROVE  SubSeq(s, m, n) = SubSeq(s, m, k) \o SubSeq(s, k + 1, n)
<1>1. PICK S : s \in Seq(S)
  BY DEF IsSeq
<1>2. m \in 1..(Len(s) + 1) /\ k \in (m - 1)..Len(s) /\ n \in k..Len(s)
  BY SeqLen
<1> QED
  BY <1>1, <1>2, ConcatAdjacentSubSeq

\* The part from the first to the last element is all.
LEMMA SubSeqWhole == ASSUME NEW s, IsSeq(s) PROVE SubSeq(s, 1, Len(s)) = s
BY SubSeqFull DEF IsSeq

\* The part from an element to itself
LEMMA SubSeqOne ==
  ASSUME NEW s, IsSeq(s), NEW i \in 1..Len(s)
  PROVE  SubSeq(s, i, i) = <<s[i]>>
<1>1. Len(s) \in Nat
  BY SeqLen
<1>2. i \in Nat \ {0} /\ i \in Nat /\ i <= Len(s) /\ i - i + 1 = 1 /\ 1 \in 1..(i - i + 1) /\ i + 1 - 1 = i
  BY <1>1
<1> DEFINE u == SubSeq(s, i, i)
<1>3. IsSeq(u) /\ Len(u) = 1 /\ u[1] = s[i]
  BY <1>2, SubSeqIsSeq
<1> HIDE DEF u
<1>4. \A j \in 1..Len(u) : u[j] = <<s[i]>>[j]
  BY <1>3, OneIsSeq
<1>5. u = <<s[i]>>
  BY <1>3, <1>4, OneIsSeq, SeqExtensional
<1> QED
  BY <1>5 DEF u

\* A sequence is what comes before its last element, and that element.
LEMMA SeqSplitLast ==
  ASSUME NEW s, IsSeq(s), s # <<>>
  PROVE  \E t, e : IsSeq(t) /\ s = Append(t, e) /\ Len(s) = Len(t) + 1
<1>1. PICK S : s \in Seq(S)
  BY DEF IsSeq
<1>2. PICK t \in Seq(S), e \in S : s = Append(t, e)
  BY <1>1, SequenceEmptyOrAppend
<1>3. IsSeq(t)
  BY DEF IsSeq
<1> QED
  BY <1>2, <1>3, SeqAppend

\* Append after a concatenation appends to its second part.
LEMMA ConcatAppend ==
  ASSUME NEW s, NEW u, IsSeq(s), IsSeq(u), NEW e, NEW v, v = s \o u
  PROVE  s \o Append(u, e) = Append(v, e)
<1>1. PICK o : o = <<e>>
  OBVIOUS
<1>2. IsSeq(o) /\ Append(u, e) = u \o o
  BY <1>1, OneIsSeq, SeqAppend
<1>3. IsSeq(v)
  BY SeqConcat
<1>4. Append(v, e) = v \o o
  BY <1>1, <1>3, SeqAppend
<1>5. (s \o u) \o o = s \o (u \o o)
  BY <1>2, SeqAssociates
<1> QED
  BY <1>2, <1>4, <1>5

-----------------------------------------------------------------------------
\* The elements of a sequence that are in a set, in order

Sel(s, T) == Picked(s, {i \in DOMAIN s : s[i] \in T})

\* Of nothing, nothing is selected.
LEMMA SelEmpty == ASSUME NEW T PROVE Sel(<<>>, T) = <<>>
BY PickedEmpty DEF Sel

\* The last element is selected or not.
LEMMA SelAppend ==
  ASSUME NEW s, IsSeq(s), NEW e, NEW T
  PROVE  Sel(Append(s, e), T) = IF e \in T THEN Append(Sel(s, T), e) ELSE Sel(s, T)
<1>1. PICK S : s \in Seq(S) /\ e \in S
  BY OneSet
<1>0. \A A : Picked(Append(s, e), A) = IF Len(s) + 1 \in A THEN Append(Picked(s, A), e) ELSE Picked(s, A)
  BY ONLY <1>1, PickedAppend
<1> DEFINE u  == Append(s, e)
           at == {i \in DOMAIN u : u[i] \in T}
           bt == {i \in DOMAIN s : s[i] \in T}
<1>2. IsSeq(u) /\ Len(u) = Len(s) + 1 /\ u[Len(s) + 1] = e /\ \A i \in 1..Len(s) : u[i] = s[i]
  BY SeqAppend
<1>3. Len(s) \in Nat /\ DOMAIN s = 1..Len(s) /\ DOMAIN u = 1..(Len(s) + 1)
  BY <1>2, SeqLen
<1>4. Picked(u, at) = IF Len(s) + 1 \in at THEN Append(Picked(s, at), e) ELSE Picked(s, at)
  <2> HIDE DEF at, bt
  <2> QED
    BY ONLY <1>0 DEF u
<1> HIDE DEF u
<1>5. (Len(s) + 1 \in at <=> e \in T) /\ \A i \in 1..Len(s) : i \in at <=> i \in bt
  BY <1>2, <1>3
<1> HIDE DEF at, bt
<1>6. Picked(s, at) = Picked(s, bt)
  BY <1>3, <1>5, PickedSame
<1> QED
  BY <1>4, <1>5, <1>6 DEF Sel, at, bt, u

\* What is selected is a sequence, over the same set.
LEMMA SelType ==
  ASSUME NEW T
  PROVE  \A s : IsSeq(s) => Sel(s, T) \in Seq(T) /\ IsSeq(Sel(s, T))
<1> DEFINE N == {n \in Nat : \A s : IsSeq(s) /\ Len(s) = n => Sel(s, T) \in Seq(T)}
<1>1. 0 \in N
  <2>1. ASSUME NEW s, IsSeq(s), Len(s) = 0 PROVE Sel(s, T) \in Seq(T)
    BY <2>1, SeqLen, SelEmpty, EmptySeq
  <2> QED
    BY <2>1
<1>2. ASSUME NEW n \in Nat, n \in N PROVE n + 1 \in N
  <2> SUFFICES ASSUME NEW s, IsSeq(s), Len(s) = n + 1 PROVE Sel(s, T) \in Seq(T)
    OBVIOUS
  <2>1. s # <<>>
    BY SeqLen
  <2>2. PICK t, e : IsSeq(t) /\ s = Append(t, e) /\ Len(s) = Len(t) + 1
    BY <2>1, SeqSplitLast
  <2>3. Len(t) = n
    BY <2>2, SeqLen
  <2>4. Sel(t, T) \in Seq(T)
    BY <1>2, <2>2, <2>3
  <2>5. Sel(s, T) = IF e \in T THEN Append(Sel(t, T), e) ELSE Sel(t, T)
    BY <2>2, SelAppend
  <2>6. e \in T => Append(Sel(t, T), e) \in Seq(T)
    BY <2>4, AppendProperties
  <2> QED
    BY <2>4, <2>5, <2>6
<1> HIDE DEF N
<1>3. Nat \subseteq N
  BY <1>1, <1>2, SetInduction
<1>4. ASSUME NEW s, IsSeq(s) PROVE Sel(s, T) \in Seq(T)
  BY <1>3, <1>4, SeqLen DEF N
<1> QED
  BY <1>4 DEF IsSeq

\* Selection distributes over concatenation.
LEMMA SelConcat ==
  ASSUME NEW s, IsSeq(s), NEW T
  PROVE  \A t : IsSeq(t) => Sel(s \o t, T) = Sel(s, T) \o Sel(t, T)
<1> DEFINE P(t) == Sel(s \o t, T) = Sel(s, T) \o Sel(t, T)
           N == {n \in Nat : \A t : IsSeq(t) /\ Len(t) = n => P(t)}
<1>0. IsSeq(Sel(s, T))
  BY SelType
<1>1. 0 \in N
  <2>1. ASSUME NEW t, IsSeq(t), Len(t) = 0 PROVE P(t)
    <3>1. t = <<>>
      BY <2>1, SeqLen
    <3>2. s \o <<>> = s /\ Sel(s, T) \o <<>> = Sel(s, T) /\ Sel(<<>>, T) = <<>>
      BY <1>0, EmptyIsSeq, SelEmpty
    <3> QED
      BY <3>1, <3>2
  <2> QED
    BY <2>1
<1>2. ASSUME NEW n \in Nat, n \in N PROVE n + 1 \in N
  <2> SUFFICES ASSUME NEW t, IsSeq(t), Len(t) = n + 1 PROVE P(t)
    OBVIOUS
  <2>1. t # <<>>
    BY SeqLen
  <2>2. PICK u, e : IsSeq(u) /\ t = Append(u, e) /\ Len(t) = Len(u) + 1
    BY <2>1, SeqSplitLast
  <2>3. Len(u) = n
    BY <2>2, SeqLen
  <2>4. P(u)
    BY <1>2, <2>2, <2>3
  <2>5. PICK v : v = s \o u
    OBVIOUS
  <2>6. IsSeq(v) /\ s \o t = Append(v, e)
    BY <2>2, <2>5, ConcatAppend, SeqConcat
  <2>60. IsSeq(v)
    BY <2>6
  <2>7. Sel(Append(v, e), T) = IF e \in T THEN Append(Sel(v, T), e) ELSE Sel(v, T)
    BY <2>60, SelAppend
  <2>8. Sel(t, T) = IF e \in T THEN Append(Sel(u, T), e) ELSE Sel(u, T)
    BY <2>2, SelAppend
  <2>9. PICK a, b : a = Sel(s, T) /\ b = Sel(u, T)
    OBVIOUS
  <2>10. IsSeq(a) /\ IsSeq(b)
    BY <1>0, <2>2, <2>9, SelType
  <2>11. PICK c : c = a \o b
    OBVIOUS
  <2>12. a \o Append(b, e) = Append(c, e)
    BY <2>10, <2>11, ConcatAppend
  <2>13. Sel(v, T) = c
    BY <2>4, <2>5, <2>9, <2>11
  <2>14. CASE e \in T
    <3>1. Sel(s \o t, T) = Append(c, e)
      BY <2>6, <2>7, <2>13, <2>14
    <3>2. Sel(t, T) = Append(b, e)
      BY <2>8, <2>9, <2>14
    <3> QED
      BY <2>9, <2>12, <3>1, <3>2
  <2>15. CASE e \notin T
    <3>1. Sel(s \o t, T) = c
      BY <2>6, <2>7, <2>13, <2>15
    <3>2. Sel(t, T) = b
      BY <2>8, <2>9, <2>15
    <3> QED
      BY <2>9, <2>11, <3>1, <3>2
  <2> QED
    BY <2>14, <2>15
<1> HIDE DEF N
<1>3. Nat \subseteq N
  BY <1>1, <1>2, SetInduction
<1> QED
  BY <1>3, SeqLen DEF N

-----------------------------------------------------------------------------
\* Marks, what is painted, the actions of some kinds.

\* A set of numbers has a least one.
LEMMA LeastNumber ==
  ASSUME NEW T, T \subseteq Nat, T # {}
  PROVE  \E m \in T : \A k \in T : m <= k
<1> SUFFICES ASSUME \A m \in T : \E k \in T : k < m PROVE FALSE
  OBVIOUS
<1> DEFINE S == {n \in Nat : \A k \in T : n < k}
<1>1. 0 \in S
  <2>1. ASSUME 0 \in T PROVE FALSE
    BY <2>1
  <2> QED
    BY <2>1
<1>2. ASSUME NEW n \in Nat, n \in S PROVE n + 1 \in S
  <2>1. ASSUME NEW k \in T PROVE n + 1 < k
    <3>1. PICK l \in T : l < k
      OBVIOUS
    <3>2. n < l
      BY <1>2
    <3> QED
      BY <3>1, <3>2
  <2> QED
    BY <2>1
<1> HIDE DEF S
<1>3. Nat \subseteq S
  BY <1>1, <1>2, SetInduction
<1>4. PICK k : k \in T
  OBVIOUS
<1> QED
  BY <1>3, <1>4 DEF S

\* Where the next mark is: at or after the place, no such mark between.
LEMMA NextMarkFacts ==
  ASSUME NEW c, IsSeq(c), NEW k, NEW from \in 1..(Len(c) + 1), NEW p, p = NextMark(c, k, from)
  PROVE  /\ p \in from..(Len(c) + 1) /\ \A i \in from..(Len(c)) : i < p => c[i].k # k
         /\ p <= Len(c) => c[p].k = k
<1> DEFINE T == {i \in from..Len(c) : c[i].k = k}
<1>0. Len(c) \in Nat
  BY SeqLen
<1>1. CASE T = {}
  <2>1. NextMark(c, k, from) = Len(c) + 1
    BY <1>1 DEF NextMark
  <2> QED
    BY <1>0, <1>1, <2>1
<1>2. CASE T # {}
  <2>1. NextMark(c, k, from) = Min(T)
    BY <1>2 DEF NextMark
  <2>4. T \subseteq Nat
    BY <1>0
  <2>2. \E m \in T : \A j \in T : m <= j
    <3> HIDE DEF T
    <3> QED
      BY <1>2, <2>4, LeastNumber
  <2>3. Min(T) \in T /\ \A j \in T : Min(T) <= j
    BY <2>2 DEF Min
  <2> QED
    <3>1. p \in T /\ \A j \in T : p <= j
      BY <2>1, <2>3
    <3>2. p \in from..Len(c) /\ c[p].k = k
      BY <3>1
    <3>3. ASSUME NEW i \in from..Len(c), i < p, c[i].k = k PROVE FALSE
      <4>1. i \in T
        BY <3>3
      <4>2. p <= i
        BY <3>1, <4>1
      <4> QED
        BY <1>0, <3>2, <3>3, <4>2
    <3> QED
      BY <1>0, <3>2, <3>3
<1> QED
  BY <1>1, <1>2

\* The least such place is the next mark.
LEMMA NextMarkIs ==
  ASSUME NEW c, IsSeq(c), NEW k, NEW from \in 1..(Len(c) + 1), NEW q \in from..(Len(c) + 1),
         \A i \in from..Len(c) : i < q => c[i].k # k, q <= Len(c) => c[q].k = k
  PROVE  NextMark(c, k, from) = q
<1>0. Len(c) \in Nat
  BY SeqLen
<1>1. PICK p : p = NextMark(c, k, from)
  OBVIOUS
<1>2. /\ p \in from..(Len(c) + 1) /\ \A i \in from..(Len(c)) : i < p => c[i].k # k
      /\ p <= Len(c) => c[p].k = k
  BY <1>1, NextMarkFacts
<1> QED
  BY <1>0, <1>1, <1>2

-----------------------------------------------------------------------------
\* What is painted

\* What is painted is a selection.
LEMMA PaintedIsSel ==
  ASSUME NEW s, NEW S, s \in Seq(S), NEW T, T = {x \in S : Paints(x)}
  PROVE  Painted(s) = Sel(s, T)
<1>1. Len(s) \in Nat /\ DOMAIN s = 1..Len(s) /\ \A i \in 1..Len(s) : s[i] \in S
  BY LenProperties, ElementOfSeq
<1> DEFINE at == {i \in DOMAIN s : Paints(s[i])}
           bt == {i \in DOMAIN s : s[i] \in T}
<1>2. at = bt
  BY <1>1
<1> QED
  BY <1>2 DEF Painted, Sel

\* What nothing and one token paint
LEMMA PaintedFacts ==
  /\ Painted(<<>>) = <<>>
  /\ \A e : Painted(<<e>>) = IF Paints(e) THEN <<e>> ELSE <<>>
  /\ \A s : IsSeq(s) => IsSeq(Painted(s))
<1>1. Painted(<<>>) = <<>>
  BY PickedEmpty DEF Painted
<1>2. ASSUME NEW s, IsSeq(s) PROVE IsSeq(Painted(s))
  <2>1. PICK S : s \in Seq(S)
    BY <1>2 DEF IsSeq
  <2> QED
    <3>1. PICK T : T = {x \in S : Paints(x)}
      OBVIOUS
    <3> QED
      <4>1. Painted(s) = Sel(s, T)
        BY <2>1, <3>1, PaintedIsSel
      <4>2. IsSeq(Sel(s, T))
        BY <1>2, SelType
      <4> QED
        BY <4>1, <4>2
<1>3. ASSUME NEW e PROVE Painted(<<e>>) = IF Paints(e) THEN <<e>> ELSE <<>>
  <2>0. PICK T : T = {x \in {e} : Paints(x)}
    OBVIOUS
  <2>1. <<e>> \in Seq({e})
    OBVIOUS
  <2>2. Painted(<<e>>) = Sel(<<e>>, T)
    BY <2>0, <2>1, PaintedIsSel
  <2>3. Sel(Append(<<>>, e), T) = IF e \in T THEN Append(Sel(<<>>, T), e) ELSE Sel(<<>>, T)
    BY EmptyIsSeq, SelAppend
  <2>4. Sel(<<>>, T) = <<>> /\ Append(<<>>, e) = <<e>>
    BY SelEmpty, OneIsSeq
  <2>5. e \in T <=> Paints(e)
    BY <2>0
  <2>6. Sel(<<e>>, T) = IF e \in T THEN <<e>> ELSE <<>>
    BY <2>3, <2>4
  <2> QED
    BY <2>2, <2>5, <2>6
<1> QED
  BY <1>1, <1>2, <1>3

\* What is painted distributes over concatenation.
LEMMA PaintedConcat ==
  ASSUME NEW s, NEW t, IsSeq(s), IsSeq(t)
  PROVE  Painted(s \o t) = Painted(s) \o Painted(t)
<1>1. PICK S : s \in Seq(S) /\ t \in Seq(S)
  BY OneSet
<1>0. PICK T : T = {x \in S : Paints(x)}
  OBVIOUS
<1>2. PICK u : u = s \o t
  OBVIOUS
<1>3. u \in Seq(S)
  BY <1>1, <1>2, ConcatProperties
<1>4. Painted(u) = Sel(u, T) /\ Painted(s) = Sel(s, T) /\ Painted(t) = Sel(t, T)
  BY <1>0, <1>1, <1>3, PaintedIsSel
<1>5. Sel(s \o t, T) = Sel(s, T) \o Sel(t, T)
  BY SelConcat
<1> QED
  BY <1>2, <1>4, <1>5

\* The actions of some kinds
LEMMA OnlyIsSel ==
  ASSUME NEW s, NEW S, s \in Seq(S), NEW kinds, NEW T, T = {x \in S : x.do \in kinds}
  PROVE  Only(kinds, s) = Sel(s, T)
<1>1. Len(s) \in Nat /\ DOMAIN s = 1..Len(s) /\ \A i \in 1..Len(s) : s[i] \in S
  BY LenProperties, ElementOfSeq
<1> DEFINE at == {i \in DOMAIN s : s[i].do \in kinds}
           bt == {i \in DOMAIN s : s[i] \in T}
<1>2. at = bt
  BY <1>1
<1> QED
  BY <1>2 DEF Only, Sel

\* The actions of some kinds, of none and of one action
LEMMA OnlyFacts ==
  ASSUME NEW kinds
  PROVE  /\ Only(kinds, <<>>) = <<>>
         /\ \A e : Only(kinds, <<e>>) = IF e.do \in kinds THEN <<e>> ELSE <<>>
         /\ \A s : IsSeq(s) => IsSeq(Only(kinds, s))
<1>1. Only(kinds, <<>>) = <<>>
  BY PickedEmpty DEF Only
<1>2. ASSUME NEW s, IsSeq(s) PROVE IsSeq(Only(kinds, s))
  <2>1. PICK S : s \in Seq(S)
    BY <1>2 DEF IsSeq
  <2> QED
    <3>1. PICK T : T = {x \in S : x.do \in kinds}
      OBVIOUS
    <3> QED
      <4>1. Only(kinds, s) = Sel(s, T)
        BY <2>1, <3>1, OnlyIsSel
      <4>2. IsSeq(Sel(s, T))
        BY <1>2, SelType
      <4> QED
        BY <4>1, <4>2
<1>3. ASSUME NEW e PROVE Only(kinds, <<e>>) = IF e.do \in kinds THEN <<e>> ELSE <<>>
  <2>0. PICK T : T = {x \in {e} : x.do \in kinds}
    OBVIOUS
  <2>1. <<e>> \in Seq({e})
    OBVIOUS
  <2>2. Only(kinds, <<e>>) = Sel(<<e>>, T)
    BY <2>0, <2>1, OnlyIsSel
  <2>3. Sel(Append(<<>>, e), T) = IF e \in T THEN Append(Sel(<<>>, T), e) ELSE Sel(<<>>, T)
    BY EmptyIsSeq, SelAppend
  <2>4. Sel(<<>>, T) = <<>> /\ Append(<<>>, e) = <<e>>
    BY SelEmpty, OneIsSeq
  <2>5. e \in T <=> e.do \in kinds
    BY <2>0
  <2>6. Sel(<<e>>, T) = IF e \in T THEN <<e>> ELSE <<>>
    BY <2>3, <2>4
  <2> QED
    BY <2>2, <2>5, <2>6
<1> QED
  BY <1>1, <1>2, <1>3

\* The actions of some kinds distribute over concatenation.
LEMMA OnlyConcat ==
  ASSUME NEW kinds, NEW s, NEW t, IsSeq(s), IsSeq(t)
  PROVE  Only(kinds, s \o t) = Only(kinds, s) \o Only(kinds, t)
<1>1. PICK S : s \in Seq(S) /\ t \in Seq(S)
  BY OneSet
<1>0. PICK T : T = {x \in S : x.do \in kinds}
  OBVIOUS
<1>2. PICK u : u = s \o t
  OBVIOUS
<1>3. u \in Seq(S)
  BY <1>1, <1>2, ConcatProperties
<1>4. Only(kinds, u) = Sel(u, T) /\ Only(kinds, s) = Sel(s, T) /\ Only(kinds, t) = Sel(t, T)
  BY <1>0, <1>1, <1>3, OnlyIsSel
<1>5. Sel(s \o t, T) = Sel(s, T) \o Sel(t, T)
  BY SelConcat
<1> QED
  BY <1>2, <1>4, <1>5

\* To report is to keep what is reported.
LEMMA OnlyOfOnly ==
  ASSUME NEW kinds, NEW some, some \subseteq kinds
  PROVE  \A s : IsSeq(s) => Only(some, Only(kinds, s)) = Only(some, s)
<1> DEFINE P(s) == Only(some, Only(kinds, s)) = Only(some, s)
           N == {n \in Nat : \A s : IsSeq(s) /\ Len(s) = n => P(s)}
<1>1. 0 \in N
  <2>1. ASSUME NEW s, IsSeq(s), Len(s) = 0 PROVE P(s)
    BY <2>1, SeqLen, OnlyFacts
  <2> QED
    BY <2>1
<1>2. ASSUME NEW n \in Nat, n \in N PROVE n + 1 \in N
  <2> SUFFICES ASSUME NEW s, IsSeq(s), Len(s) = n + 1 PROVE P(s)
    OBVIOUS
  <2>1. s # <<>>
    BY SeqLen
  <2>2. PICK t, e : IsSeq(t) /\ s = Append(t, e) /\ Len(s) = Len(t) + 1
    BY <2>1, SeqSplitLast
  <2>3. Len(t) = n
    BY <2>2, SeqLen
  <2>4. P(t)
    BY <1>2, <2>2, <2>3
  <2>5. PICK o : o = <<e>>
    OBVIOUS
  <2>6. IsSeq(o) /\ s = t \o o
    BY <2>2, <2>5, OneIsSeq, SeqAppend
  <2>7. Only(kinds, s) = Only(kinds, t) \o Only(kinds, o) /\ Only(some, s) = Only(some, t) \o Only(some, o)
    BY <2>2, <2>6, OnlyConcat
  <2>8. PICK a, b : a = Only(kinds, t) /\ b = Only(kinds, o)
    OBVIOUS
  <2>9. IsSeq(a) /\ IsSeq(b)
    BY <2>2, <2>6, <2>8, OnlyFacts
  <2>10. Only(some, a \o b) = Only(some, a) \o Only(some, b)
    BY <2>9, OnlyConcat
  <2>11. b = (IF e.do \in kinds THEN o ELSE <<>>) /\ Only(some, o) = (IF e.do \in some THEN o ELSE <<>>)
    BY <2>5, <2>8, OnlyFacts
  <2>12. Only(some, b) = Only(some, o)
    BY <2>11, OnlyFacts
  <2>13. Only(some, a) = Only(some, t)
    BY <2>4, <2>8
  <2> QED
    BY <2>7, <2>8, <2>10, <2>12, <2>13
<1> HIDE DEF N
<1>3. Nat \subseteq N
  BY <1>1, <1>2, SetInduction
<1> QED
  BY <1>3, SeqLen DEF N

-----------------------------------------------------------------------------
\* The steps of CaptureMachine, field by field.

\* What Scanned unfolds to
IsScan(g, r, c, n) == g = [i \in 0..n |-> IF i = 0 THEN r ELSE Event(g[i - 1], c, c[i])]

\* Scanned takes the events of a chunk one by one.
LEMMA ScannedSteps ==
  ASSUME NEW c, IsSeq(c), NEW r
  PROVE  \E g : /\ g[0] = r /\ Scanned(r, c) = g[Len(c)]
                /\ \A i \in 1..Len(c) : g[i] = Event(g[i - 1], c, c[i])
<1> DEFINE S == {n \in Nat : \E g : IsScan(g, r, c, n)}
<1>1. 0 \in S
  <2>1. IsScan([i \in 0..0 |-> r], r, c, 0)
    BY DEF IsScan
  <2> QED
    BY <2>1
<1>2. ASSUME NEW n \in Nat, n \in S PROVE n + 1 \in S
  <2>1. PICK g : IsScan(g, r, c, n)
    BY <1>2
  <2> DEFINE h == [i \in 0..(n + 1) |-> IF i = n + 1 THEN Event(g[n], c, c[n + 1]) ELSE g[i]]
  <2>2. IsScan(h, r, c, n + 1)
    BY <2>1 DEF IsScan
  <2> QED
    BY <2>2
<1> HIDE DEF S
<1>3. Nat \subseteq S
  BY <1>1, <1>2, SetInduction
<1>4. Len(c) \in Nat /\ Len(c) \in S
  BY <1>3, SeqLen
<1>5. \E g : IsScan(g, r, c, Len(c))
  BY <1>4 DEF S
<1>6. Scanned(r, c) = (CHOOSE g : IsScan(g, r, c, Len(c)))[Len(c)]
  BY DEF Scanned, IsScan
<1>7. PICK g : IsScan(g, r, c, Len(c)) /\ Scanned(r, c) = g[Len(c)]
  BY <1>5, <1>6
<1>8. g[0] = r /\ \A i \in 1..Len(c) : g[i] = Event(g[i - 1], c, c[i])
  BY <1>4, <1>7 DEF IsScan
<1> QED
  BY <1>7, <1>8

-----------------------------------------------------------------------------
\* The fields of a machine, and of what a scan carries along

Mach(capturing, captured, swallow, echo, submission, command, says, mode) ==
  [capturing |-> capturing, captured |-> captured, swallow |-> swallow, echo |-> echo,
   submission |-> submission, command |-> command, told |-> says, mode |-> mode]

Carried(m, a, scan) == [m |-> m, acts |-> a, scan |-> scan]

Fields(m) == m = Mach(m.capturing, m.captured, m.swallow, m.echo, m.submission, m.command, m.told, m.mode)

Whole(r) == r = Carried(r.m, r.acts, r.scan) /\ Fields(r.m)

\* A machine that is built has its fields.
LEMMA FieldsOf ==
  ASSUME NEW a, NEW b, NEW c, NEW d, NEW e, NEW f, NEW g, NEW h
  PROVE  LET m == Mach(a, b, c, d, e, f, g, h)
         IN  /\ Fields(m) /\ m.capturing = a /\ m.captured = b /\ m.swallow = c /\ m.echo = d
             /\ m.submission = e /\ m.command = f /\ m.told = g /\ m.mode = h
BY DEF Fields, Mach

\* A step that is built has its parts.
LEMMA WholeOf ==
  ASSUME NEW m, Fields(m), NEW a, NEW s
  PROVE  Whole(Carried(m, a, s)) /\ Carried(m, a, s).m = m /\ Carried(m, a, s).acts = a /\ Carried(m, a, s).scan = s
BY DEF Whole, Carried

\* What goes with the announcement of a state
State(says) == Act("state", says)

\* What Announce makes of a step, field by field
LEMMA AnnounceIs ==
  ASSUME NEW r, Whole(r), NEW says
  PROVE  Announce(r, says) =
           Carried(Mach(r.m.capturing, r.m.captured, r.m.swallow, r.m.echo, r.m.submission,
                        r.m.command, says, r.m.mode), Append(r.acts, State(says)), r.scan)
<1>1. PICK m, a, sc : m = r.m /\ Fields(m) /\ a = r.acts /\ sc = r.scan /\ r = Carried(m, a, sc)
  BY DEF Whole
<1>2. PICK mm : mm = [m EXCEPT !.told = says]
  OBVIOUS
<1>3. mm = Mach(m.capturing, m.captured, m.swallow, m.echo, m.submission, m.command, says, m.mode)
  BY <1>1, <1>2 DEF Fields, Mach
<1>4. PICK ac : ac = Append(r.acts, State(says))
  OBVIOUS
<1>5. PICK q : q = [r EXCEPT !.m.told = says, !.acts = ac]
  OBVIOUS
<1>6. Announce(r, says) = q
  BY <1>4, <1>5 DEF Announce, State
<1>7. q = Carried(mm, ac, sc)
  <2>1. r = Carried(m, a, sc)
    BY <1>1
  <2> QED
    BY <1>2, <1>5, <2>1 DEF Carried
<1> QED
  BY <1>1, <1>3, <1>4, <1>6, <1>7

BlockOf(m) == Act("block", [command |-> m.command, bytes |-> Painted(m.captured)])

\* The actions at the end of a command
EndActs(r) ==
  IF ~r.m.capturing THEN r.acts
  ELSE IF r.m.command = NoCommand THEN r.acts \o <<>> \o <<Act("reset", <<>>)>>
  ELSE r.acts \o <<BlockOf(r.m)>> \o <<Act("reset", <<>>)>>

\* What Finish makes of a step, field by field
LEMMA FinishIs ==
  ASSUME NEW r, Whole(r)
  PROVE  Finish(r) =
           Carried(Mach(FALSE, <<>>, r.m.swallow, r.m.echo, "idle", NoCommand, Quiet, r.m.mode),
                   Append(EndActs(r), State(Quiet)), r.scan)
<1> DEFINE block(m) == IF m.command = NoCommand THEN <<>> ELSE <<BlockOf(m)>>
<1>1. PICK m : m = r.m /\ Fields(m)
  BY DEF Whole
<1>2. PICK ac : ac = EndActs(r)
  OBVIOUS
<1>3. PICK mm : mm = [m EXCEPT !.command = NoCommand, !.capturing = FALSE, !.captured = <<>>,
                               !.submission = "idle"]
  OBVIOUS
<1>4. mm = Mach(FALSE, <<>>, m.swallow, m.echo, "idle", NoCommand, m.told, m.mode)
  BY <1>1, <1>3 DEF Fields, Mach
<1>5. PICK q : q = [r EXCEPT !.acts = ac, !.m = mm]
  OBVIOUS
<1>6. Finish(r) = Announce(q, Quiet)
  <2>1. (IF m.capturing THEN r.acts \o block(m) \o <<Act("reset", <<>>)>> ELSE r.acts) = ac
    BY <1>1, <1>2 DEF EndActs
  <2>2. Finish(r) = Announce([r EXCEPT
        !.acts = IF m.capturing THEN @ \o block(m) \o <<Act("reset", <<>>)>> ELSE @,
        !.m    = [m EXCEPT !.command = NoCommand, !.capturing = FALSE, !.captured = <<>>,
                           !.submission = "idle"]], Quiet)
    BY <1>1 DEF Finish, BlockOf
  <2> HIDE DEF block
  <2> QED
    BY <1>3, <1>5, <2>1, <2>2
<1>7. q = Carried(mm, ac, r.scan)
  <2>1. r = Carried(m, r.acts, r.scan)
    BY <1>1 DEF Whole
  <2> QED
    BY <1>5, <2>1 DEF Carried
<1>8. Fields(mm) /\ mm.capturing = FALSE /\ mm.captured = <<>> /\ mm.swallow = m.swallow /\ mm.echo = m.echo
      /\ mm.submission = "idle" /\ mm.command = NoCommand /\ mm.mode = m.mode
  BY <1>4 DEF Mach, Fields
<1>9. Whole(q) /\ q.m = mm /\ q.acts = ac /\ q.scan = r.scan
  BY <1>7, <1>8, WholeOf
<1>10. Announce(q, Quiet) =
           Carried(Mach(q.m.capturing, q.m.captured, q.m.swallow, q.m.echo, q.m.submission,
                        q.m.command, Quiet, q.m.mode), Append(q.acts, State(Quiet)), q.scan)
  BY <1>9, AnnounceIs
<1> QED
  BY <1>1, <1>2, <1>6, <1>8, <1>9, <1>10

\* The mark of the command that starts, and the end of what is its output
StartAt(r, c) == LET at == NextMark(c, "C", r.scan) IN IF at > Len(c) THEN r.scan ELSE at
StartEnd(r, c) == NextMark(c, "D", StartAt(r, c))
Runs(command) == [command |-> command, running |-> TRUE, continuation |-> FALSE]
StartActs(r, c) ==
  IF r.m.mode THEN r.acts \o <<Act("clear core", <<>>), Act("restart", Painted(SubSeq(c, StartAt(r, c), Len(c))))>>
  ELSE r.acts

\* What Start makes of a step, field by field
LEMMA StartIs ==
  ASSUME NEW r, Whole(r), NEW c
  PROVE  Start(r, c) =
           Carried(Mach(r.m.mode, IF r.m.mode THEN SubSeq(c, StartAt(r, c), StartEnd(r, c) - 1) ELSE <<>>,
                        FALSE, <<>>, "idle", r.m.command, Runs(r.m.command), r.m.mode),
                   Append(StartActs(r, c), State(Runs(r.m.command))), StartEnd(r, c))
<1>1. PICK m : m = r.m /\ Fields(m)
  BY DEF Whole
<1>2. PICK cd : cd = IF m.mode THEN SubSeq(c, StartAt(r, c), StartEnd(r, c) - 1) ELSE <<>>
  OBVIOUS
<1>3. PICK mm : mm = [m EXCEPT !.capturing = m.mode, !.swallow = FALSE, !.echo = <<>>, !.submission = "idle",
                               !.captured = cd]
  OBVIOUS
<1>4. mm = Mach(m.mode, cd, FALSE, <<>>, "idle", m.command, m.told, m.mode)
  BY <1>1, <1>3 DEF Fields, Mach
<1>5. PICK q : q = Carried(mm, StartActs(r, c), StartEnd(r, c))
  OBVIOUS
<1>6. Start(r, c) = Announce(q, Runs(m.command))
  <2>1. Start(r, c) = Announce([scan |-> StartEnd(r, c), acts |-> StartActs(r, c),
          m |-> [m EXCEPT !.capturing = m.mode, !.swallow = FALSE, !.echo = <<>>, !.submission = "idle",
                          !.captured = IF m.mode THEN SubSeq(c, StartAt(r, c), StartEnd(r, c) - 1) ELSE <<>>]],
          Runs(m.command))
    BY <1>1 DEF Start, StartAt, StartEnd, StartActs, Runs, Rest
  <2> QED
    BY <1>2, <1>3, <1>5, <2>1 DEF Carried
<1>7. Fields(mm) /\ mm.capturing = m.mode /\ mm.captured = cd /\ mm.swallow = FALSE /\ mm.echo = <<>>
      /\ mm.submission = "idle" /\ mm.command = m.command /\ mm.mode = m.mode
  BY <1>4 DEF Mach, Fields
<1>8. Whole(q) /\ q.m = mm /\ q.acts = StartActs(r, c) /\ q.scan = StartEnd(r, c)
  BY <1>5, <1>7, WholeOf
<1>9. Announce(q, Runs(m.command)) =
           Carried(Mach(q.m.capturing, q.m.captured, q.m.swallow, q.m.echo, q.m.submission,
                        q.m.command, Runs(m.command), q.m.mode), Append(q.acts, State(Runs(m.command))), q.scan)
  BY <1>8, AnnounceIs
<1> QED
  BY <1>1, <1>2, <1>6, <1>7, <1>8, <1>9

\* What each event makes of a step
LEMMA EventIs ==
  ASSUME NEW r, Whole(r), NEW c, NEW t, NEW m, m = r.m
  PROVE  /\ t.k = "E" => Event(r, c, t) = Carried(Mach(m.capturing, m.captured, m.swallow, m.echo, "idle",
                                                       t.c, m.told, m.mode), r.acts, r.scan)
         /\ t.k = "B" => Event(r, c, t) = Carried(Mach(m.capturing, m.captured, m.mode, <<>>, "idle",
                                                       m.command, m.told, m.mode), r.acts, r.scan)
         /\ t.k \in {"P0", "P1"} =>
              Event(r, c, t) = Carried(Mach(m.capturing, m.captured, m.swallow, m.echo, m.submission,
                                            m.command, m.told, t.k = "P1"), r.acts, r.scan)
         /\ t.k = "C" => Event(r, c, t) = Start(r, c)
         /\ t.k = "D" => Event(r, c, t) = Finish(r)
         /\ t.k \notin {"E", "C", "D", "B", "P0", "P1"} => Event(r, c, t) = r
<1>1. PICK a, sc : Fields(m) /\ a = r.acts /\ sc = r.scan /\ r = Carried(m, a, sc)
  BY DEF Whole
<1>2. ASSUME t.k = "E"
      PROVE  Event(r, c, t) = Carried(Mach(m.capturing, m.captured, m.swallow, m.echo, "idle",
                                                       t.c, m.told, m.mode), r.acts, r.scan)
  <2>1. PICK n : n = t.c
    OBVIOUS
  <2>2. PICK mm : mm = [m EXCEPT !.command = n, !.submission = "idle"]
    OBVIOUS
  <2>3. mm = Mach(m.capturing, m.captured, m.swallow, m.echo, "idle", n, m.told, m.mode)
    BY <1>1, <2>2 DEF Fields, Mach
  <2>4. PICK q : q = [r EXCEPT !.m.command = n, !.m.submission = "idle"]
    OBVIOUS
  <2>5. q = Carried(mm, a, sc)
    BY <1>1, <2>2, <2>4 DEF Carried
  <2>6. Event(r, c, t) = q
    BY <1>2, <2>1, <2>4 DEF Event
  <2> QED
    BY <1>1, <2>1, <2>3, <2>5, <2>6
<1>3. ASSUME t.k = "B"
      PROVE  Event(r, c, t) = Carried(Mach(m.capturing, m.captured, m.mode, <<>>, "idle",
                                                       m.command, m.told, m.mode), r.acts, r.scan)
  <2>1. PICK n : n = m.mode
    OBVIOUS
  <2>2. PICK mm : mm = [m EXCEPT !.swallow = n, !.echo = <<>>, !.submission = "idle"]
    OBVIOUS
  <2>3. mm = Mach(m.capturing, m.captured, n, <<>>, "idle", m.command, m.told, m.mode)
    BY <1>1, <2>2 DEF Fields, Mach
  <2>4. PICK q : q = [r EXCEPT !.m.swallow = n, !.m.echo = <<>>, !.m.submission = "idle"]
    OBVIOUS
  <2>5. q = Carried(mm, a, sc)
    BY <1>1, <2>2, <2>4 DEF Carried
  <2>6. Event(r, c, t) = q
    BY <1>1, <1>3, <2>1, <2>4 DEF Event
  <2> QED
    BY <1>1, <2>1, <2>3, <2>5, <2>6
<1>4. ASSUME t.k \in {"P0", "P1"}
      PROVE  Event(r, c, t) = Carried(Mach(m.capturing, m.captured, m.swallow, m.echo, m.submission,
                                            m.command, m.told, t.k = "P1"), r.acts, r.scan)
  <2>1. PICK n : n = (t.k = "P1")
    OBVIOUS
  <2>2. PICK mm : mm = [m EXCEPT !.mode = n]
    OBVIOUS
  <2>3. mm = Mach(m.capturing, m.captured, m.swallow, m.echo, m.submission, m.command, m.told, n)
    BY <1>1, <2>2 DEF Fields, Mach
  <2>4. PICK q : q = [r EXCEPT !.m.mode = n]
    OBVIOUS
  <2>5. q = Carried(mm, a, sc)
    BY <1>1, <2>2, <2>4 DEF Carried
  <2>6. Event(r, c, t) = q
    BY <1>4, <2>1, <2>4 DEF Event
  <2> QED
    BY <1>1, <2>1, <2>3, <2>5, <2>6
<1>5. t.k = "C" => Event(r, c, t) = Start(r, c)
  BY DEF Event
<1>6. t.k = "D" => Event(r, c, t) = Finish(r)
  BY DEF Event
<1>7. t.k \notin {"E", "C", "D", "B", "P0", "P1"} => Event(r, c, t) = r
  BY DEF Event
<1> QED
  BY <1>2, <1>3, <1>4, <1>5, <1>6, <1>7

-----------------------------------------------------------------------------
\* Before the events

\* What Captured makes of a machine and a chunk
LEMMA CapturedIs ==
  ASSUME NEW m, Fields(m), NEW c
  PROVE  Captured(m, c) =
           Carried(Mach(m.capturing,
                        IF m.capturing THEN m.captured \o SubSeq(c, 1, NextMark(c, "D", 1) - 1) ELSE m.captured,
                        m.swallow, m.echo, m.submission, m.command, m.told, m.mode),
                   <<>>, IF m.capturing THEN NextMark(c, "D", 1) ELSE 1)
<1>1. CASE m.capturing
  <2>1. PICK n : n = m.captured \o SubSeq(c, 1, NextMark(c, "D", 1) - 1)
    OBVIOUS
  <2>2. PICK mm : mm = [m EXCEPT !.captured = n]
    OBVIOUS
  <2>3. mm = Mach(m.capturing, n, m.swallow, m.echo, m.submission, m.command, m.told, m.mode)
    BY <2>2 DEF Fields, Mach
  <2>4. Captured(m, c) = Carried(mm, <<>>, NextMark(c, "D", 1))
    BY <1>1, <2>1, <2>2 DEF Captured, Carried
  <2> QED
    BY <1>1, <2>1, <2>3, <2>4
<1>2. CASE ~m.capturing
  <2>1. Captured(m, c) = Carried(m, <<>>, 1)
    BY <1>2 DEF Captured, Carried
  <2> QED
    BY <1>2, <2>1 DEF Fields
<1> QED
  BY <1>1, <1>2

\* The four ways of an echo
EchoWays(q, r, c, m, end) ==
  /\ ~m.swallow => q = Carried(m, r.acts \o Live(c), r.scan)
  /\ m.swallow /\ end <= Len(c) =>
       q = Carried(Mach(m.capturing, m.captured, FALSE, m.echo \o SubSeq(c, 1, end), "awaiting",
                        m.command, m.told, m.mode),
                   r.acts \o Live(SubSeq(c, end + 1, Len(c))), r.scan)
  /\ m.swallow /\ ~(end <= Len(c)) /\ Len(m.echo) + Len(c) > MaxEcho =>
       q = Carried(Mach(m.capturing, m.captured, FALSE, <<>>, m.submission,
                        m.command, m.told, m.mode), r.acts \o Live(c), r.scan)
  /\ m.swallow /\ ~(end <= Len(c)) /\ ~(Len(m.echo) + Len(c) > MaxEcho) =>
       q = Carried(Mach(m.capturing, m.captured, m.swallow, m.echo \o c, m.submission,
                        m.command, m.told, m.mode), r.acts, r.scan)

\* What Echoed makes of a step: the ways EchoWays lists
LEMMA EchoedIs ==
  ASSUME NEW r, Whole(r), NEW c, NEW m, m = r.m, NEW end, end = EchoEnd(m, c)
  PROVE  EchoWays(Echoed(r, c), r, c, m, end)
<1>1. PICK a, sc : Fields(m) /\ a = r.acts /\ sc = r.scan /\ r = Carried(m, a, sc)
  BY DEF Whole
<1>2. ASSUME ~m.swallow PROVE Echoed(r, c) = Carried(m, r.acts \o Live(c), r.scan)
  <2>1. PICK n : n = a \o Live(c)
    OBVIOUS
  <2>2. PICK q : q = [r EXCEPT !.acts = n]
    OBVIOUS
  <2>3. q = Carried(m, n, sc)
    BY <1>1, <2>2 DEF Carried
  <2>4. Echoed(r, c) = q
    BY <1>1, <1>2, <2>1, <2>2 DEF Echoed
  <2> QED
    BY <1>1, <2>1, <2>3, <2>4
<1>3. ASSUME m.swallow, end <= Len(c)
      PROVE  Echoed(r, c) = Carried(Mach(m.capturing, m.captured, FALSE, m.echo \o SubSeq(c, 1, end), "awaiting",
                                          m.command, m.told, m.mode),
                                     r.acts \o Live(SubSeq(c, end + 1, Len(c))), r.scan)
  <2>1. PICK n, o : n = a \o Live(SubSeq(c, end + 1, Len(c))) /\ o = m.echo \o SubSeq(c, 1, end)
    OBVIOUS
  <2>2. PICK mm : mm = [m EXCEPT !.swallow = FALSE, !.submission = "awaiting", !.echo = o]
    OBVIOUS
  <2>3. mm = Mach(m.capturing, m.captured, FALSE, o, "awaiting", m.command, m.told, m.mode)
    BY <1>1, <2>2 DEF Fields, Mach
  <2>4. PICK q : q = [r EXCEPT !.m.swallow = FALSE, !.m.submission = "awaiting", !.m.echo = o, !.acts = n]
    OBVIOUS
  <2>5. q = Carried(mm, n, sc)
    BY <1>1, <2>2, <2>4 DEF Carried
  <2>6. Echoed(r, c) = q
    BY <1>1, <1>3, <2>1, <2>4 DEF Echoed, Rest
  <2> QED
    BY <1>1, <2>1, <2>3, <2>5, <2>6
<1>4. ASSUME m.swallow, ~(end <= Len(c)), Len(m.echo) + Len(c) > MaxEcho
      PROVE  Echoed(r, c) = Carried(Mach(m.capturing, m.captured, FALSE, <<>>, m.submission,
                                          m.command, m.told, m.mode), r.acts \o Live(c), r.scan)
  <2>1. PICK n : n = a \o Live(c)
    OBVIOUS
  <2>2. PICK mm : mm = [m EXCEPT !.swallow = FALSE, !.echo = <<>>]
    OBVIOUS
  <2>3. mm = Mach(m.capturing, m.captured, FALSE, <<>>, m.submission, m.command, m.told, m.mode)
    BY <1>1, <2>2 DEF Fields, Mach
  <2>4. PICK q : q = [r EXCEPT !.m.swallow = FALSE, !.m.echo = <<>>, !.acts = n]
    OBVIOUS
  <2>5. q = Carried(mm, n, sc)
    BY <1>1, <2>2, <2>4 DEF Carried
  <2>6. Echoed(r, c) = q
    BY <1>1, <1>4, <2>1, <2>4 DEF Echoed
  <2> QED
    BY <1>1, <2>1, <2>3, <2>5, <2>6
<1>5. ASSUME m.swallow, ~(end <= Len(c)), ~(Len(m.echo) + Len(c) > MaxEcho)
      PROVE  Echoed(r, c) = Carried(Mach(m.capturing, m.captured, m.swallow, m.echo \o c, m.submission,
                                          m.command, m.told, m.mode), r.acts, r.scan)
  <2>1. PICK o : o = m.echo \o c
    OBVIOUS
  <2>2. PICK mm : mm = [m EXCEPT !.echo = o]
    OBVIOUS
  <2>3. mm = Mach(m.capturing, m.captured, m.swallow, o, m.submission, m.command, m.told, m.mode)
    BY <1>1, <2>2 DEF Fields, Mach
  <2>4. PICK q : q = [r EXCEPT !.m.echo = o]
    OBVIOUS
  <2>5. q = Carried(mm, a, sc)
    BY <1>1, <2>2, <2>4 DEF Carried
  <2>6. Echoed(r, c) = q
    BY <1>1, <1>5, <2>1, <2>4 DEF Echoed
  <2> QED
    BY <1>1, <2>1, <2>3, <2>5, <2>6
<1> QED
  BY <1>2, <1>3, <1>4, <1>5 DEF EchoWays

-----------------------------------------------------------------------------
\* After the events

Repaints(m, reply) == m.submission = "awaiting" /\ Painted(reply) # <<>>
Rescue(m, reply)   == IF Repaints(m, reply) /\ m.echo # <<>> THEN <<Act("echo", Painted(m.echo))>> ELSE <<>>
After(m, reply)    == IF Repaints(m, reply) THEN "continuing" ELSE m.submission
Waits(m, reply)    == After(m, reply) = "continuing" /\ ~m.told.running
Continued(t, on)   == [t EXCEPT !.continuation = on]

SettledTo(q, r, m, reply) ==
  q = Carried(Mach(m.capturing, m.captured, m.swallow, IF Repaints(m, reply) THEN <<>> ELSE m.echo,
                   After(m, reply), m.command,
                   IF Waits(m, reply) = m.told.continuation THEN m.told ELSE Continued(m.told, Waits(m, reply)),
                   m.mode),
              IF Waits(m, reply) = m.told.continuation THEN Rescue(m, reply) \o r.acts
              ELSE Append(Rescue(m, reply) \o r.acts, State(Continued(m.told, Waits(m, reply)))),
              r.scan)

\* What Settled makes of a step: the way SettledTo states
LEMMA SettledIs ==
  ASSUME NEW r, Whole(r), NEW reply, NEW m, m = r.m
  PROVE  SettledTo(Settled(r, reply), r, m, reply)
<1>1. PICK a, sc : Fields(m) /\ a = r.acts /\ sc = r.scan /\ r = Carried(m, a, sc)
  BY DEF Whole
<1>2. PICK b : b = Repaints(m, reply)
  OBVIOUS
<1>3. PICK su, ec, ac, w : su = After(m, reply) /\ ec = (IF b THEN <<>> ELSE m.echo)
                           /\ ac = Rescue(m, reply) \o a /\ w = Waits(m, reply)
  OBVIOUS
<1>4. PICK q : q = [r EXCEPT !.m.submission = su, !.m.echo = ec, !.acts = ac]
  OBVIOUS
<1>5. PICK mm : mm = [m EXCEPT !.submission = su, !.echo = ec]
  OBVIOUS
<1>6. mm = Mach(m.capturing, m.captured, m.swallow, ec, su, m.command, m.told, m.mode)
  BY <1>1, <1>5 DEF Fields, Mach
<1>7. q = Carried(mm, ac, sc)
  BY <1>1, <1>4, <1>5 DEF Carried
<1>8. Settled(r, reply) = IF w = m.told.continuation THEN q ELSE Announce(q, Continued(m.told, w))
  <2>1. Settled(r, reply) =
          LET z == [r EXCEPT !.m.submission = After(r.m, reply),
                             !.m.echo = IF Repaints(r.m, reply) THEN <<>> ELSE @,
                             !.acts = Rescue(r.m, reply) \o @]
          IN  IF Waits(r.m, reply) = r.m.told.continuation THEN z
              ELSE Announce(z, Continued(r.m.told, Waits(r.m, reply)))
    BY DEF Settled, After, Repaints, Rescue, Waits, Continued
  <2>2. q = [r EXCEPT !.m.submission = After(r.m, reply),
                      !.m.echo = IF Repaints(r.m, reply) THEN <<>> ELSE @,
                      !.acts = Rescue(r.m, reply) \o @]
    BY <1>1, <1>2, <1>3, <1>4
  <2>3. Settled(r, reply) = IF Waits(r.m, reply) = r.m.told.continuation THEN q
              ELSE Announce(q, Continued(r.m.told, Waits(r.m, reply)))
    BY ONLY <2>1, <2>2, Zenon
  <2> QED
    BY <1>3, <2>3
<1>9. Fields(mm) /\ mm.capturing = m.capturing /\ mm.captured = m.captured /\ mm.swallow = m.swallow
      /\ mm.echo = ec /\ mm.submission = su /\ mm.command = m.command /\ mm.mode = m.mode /\ mm.told = m.told
  BY <1>6 DEF Mach, Fields
<1>10. Whole(q) /\ q.m = mm /\ q.acts = ac /\ q.scan = sc
  BY <1>7, <1>9, WholeOf
<1>11. Announce(q, Continued(m.told, w)) =
           Carried(Mach(q.m.capturing, q.m.captured, q.m.swallow, q.m.echo, q.m.submission,
                        q.m.command, Continued(m.told, w), q.m.mode), Append(q.acts, State(Continued(m.told, w))), q.scan)
  BY <1>10, AnnounceIs
<1>12. CASE w = m.told.continuation
  BY <1>1, <1>2, <1>3, <1>6, <1>7, <1>8, <1>12 DEF SettledTo
<1>13. CASE w # m.told.continuation
  BY <1>1, <1>2, <1>3, <1>8, <1>9, <1>10, <1>11, <1>13 DEF SettledTo
<1> QED
  BY <1>12, <1>13

-----------------------------------------------------------------------------
\* What a stream says of the commands, token by token.

\* What the stream says, token by token: the marks in force, the command and what it
\* wrote, the blocks so far, and whether every mark came where the shell may write it.
Says(mode, running, capturing, command, captured, ended, ok) ==
  [mode |-> mode, running |-> running, capturing |-> capturing, command |-> command,
   captured |-> captured, ended |-> ended, ok |-> ok]

HasParts(x) ==
  /\ x = Says(x.mode, x.running, x.capturing, x.command, x.captured, x.ended, x.ok)
  /\ x.mode \in BOOLEAN /\ x.running \in BOOLEAN /\ x.capturing \in BOOLEAN /\ x.ok \in BOOLEAN
  /\ IsSeq(x.captured) /\ IsSeq(x.ended)
  /\ x.capturing => x.running
  /\ x.running => x.command # NoCommand

BlockFor(x) == [command |-> x.command, bytes |-> x.captured]

Hear(x, t) ==
  IF t.k = "E" THEN
    IF x.running \/ t.c = NoCommand
    THEN Says(x.mode, x.running, x.capturing, x.command, x.captured, x.ended, FALSE)
    ELSE Says(x.mode, x.running, x.capturing, t.c, x.captured, x.ended, x.ok)
  ELSE IF t.k = "C" THEN
    IF x.running \/ x.command = NoCommand
    THEN Says(x.mode, x.running, x.capturing, x.command, x.captured, x.ended, FALSE)
    ELSE Says(x.mode, TRUE, x.mode, x.command, <<>>, x.ended, x.ok)
  ELSE IF t.k = "D" THEN
    Says(x.mode, FALSE, FALSE, NoCommand, <<>>,
         IF x.capturing THEN Append(x.ended, BlockFor(x)) ELSE x.ended, x.ok)
  ELSE IF t.k \in {"P0", "P1"} THEN
    Says(t.k = "P1", x.running, x.capturing, x.command, x.captured, x.ended, x.ok)
  ELSE IF Paints(t) /\ x.capturing THEN
    Says(x.mode, x.running, x.capturing, x.command, Append(x.captured, t), x.ended, x.ok)
  ELSE x

IsHearing(g, x, p, n) == g = [i \in 0..n |-> IF i = 0 THEN x ELSE Hear(g[i - 1], p[i])]
HeardSoFar(x, p, n) == (CHOOSE g : IsHearing(g, x, p, n))[n]
HeardAll(x, p) == HeardSoFar(x, p, Len(p))

\* A state of the stream that is built has its parts.
LEMMA SaysParts ==
  ASSUME NEW a, NEW b, NEW c, NEW d, NEW e, NEW f, NEW g
  PROVE  LET x == Says(a, b, c, d, e, f, g)
         IN  /\ x.mode = a /\ x.running = b /\ x.capturing = c /\ x.command = d /\ x.captured = e
             /\ x.ended = f /\ x.ok = g
             /\ x = Says(x.mode, x.running, x.capturing, x.command, x.captured, x.ended, x.ok)
BY DEF Says

\* Such a function exists for every length.
LEMMA HearingExists == ASSUME NEW x, NEW p PROVE \A n \in Nat : \E g : IsHearing(g, x, p, n)
<1> DEFINE S == {n \in Nat : \E g : IsHearing(g, x, p, n)}
<1>1. 0 \in S
  <2>1. IsHearing([i \in 0..0 |-> x], x, p, 0)
    BY DEF IsHearing
  <2> QED
    BY <2>1
<1>2. ASSUME NEW n \in Nat, n \in S PROVE n + 1 \in S
  <2>1. PICK g : IsHearing(g, x, p, n)
    BY <1>2
  <2> DEFINE h == [i \in 0..(n + 1) |-> IF i = n + 1 THEN Hear(g[n], p[n + 1]) ELSE g[i]]
  <2>2. IsHearing(h, x, p, n + 1)
    BY <2>1 DEF IsHearing
  <2> QED
    BY <2>2
<1> HIDE DEF S
<1>3. Nat \subseteq S
  BY <1>1, <1>2, SetInduction
<1> QED
  BY <1>3 DEF S

\* Two of them agree.
LEMMA HearingAgrees ==
  ASSUME NEW x, NEW p, NEW q, NEW n \in Nat, NEW m \in Nat, n <= m, \A i \in 1..n : p[i] = q[i],
         NEW g, NEW h, IsHearing(g, x, p, n), IsHearing(h, x, q, m)
  PROVE  \A i \in 0..n : g[i] = h[i]
<1> DEFINE S == {i \in Nat : i <= n => g[i] = h[i]}
<1>1. 0 \in S
  BY DEF IsHearing
<1>2. ASSUME NEW i \in Nat, i \in S PROVE i + 1 \in S
  <2> SUFFICES ASSUME i + 1 <= n PROVE g[i + 1] = h[i + 1]
    OBVIOUS
  <2>1. g[i + 1] = Hear(g[i], p[i + 1]) /\ h[i + 1] = Hear(h[i], q[i + 1])
    BY DEF IsHearing
  <2>2. g[i] = h[i] /\ p[i + 1] = q[i + 1]
    BY <1>2
  <2> QED
    BY <2>1, <2>2
<1> HIDE DEF S
<1>3. Nat \subseteq S
  BY <1>1, <1>2, SetInduction
<1> QED
  BY <1>3 DEF S

\* Nothing changes where nothing is heard.
LEMMA HeardNothing == ASSUME NEW x PROVE HeardAll(x, <<>>) = x
<1>1. Len(<<>>) = 0
  BY EmptyIsSeq
<1>2. PICK g : IsHearing(g, x, <<>>, 0) /\ HeardSoFar(x, <<>>, 0) = g[0]
  BY HearingExists DEF HeardSoFar
<1> QED
  BY <1>1, <1>2 DEF IsHearing, HeardAll

\* One token more
LEMMA HeardAppend ==
  ASSUME NEW x, NEW p, IsSeq(p), NEW t
  PROVE  HeardAll(x, Append(p, t)) = Hear(HeardAll(x, p), t)
<1>1. PICK q, n : q = Append(p, t) /\ n = Len(p)
  OBVIOUS
<1>2. n \in Nat /\ Len(q) = n + 1 /\ q[n + 1] = t /\ \A i \in 1..n : p[i] = q[i]
  BY <1>1, SeqLen, SeqAppend
<1>3. PICK g : IsHearing(g, x, p, n) /\ HeardAll(x, p) = g[n]
  BY <1>1, <1>2, HearingExists DEF HeardAll, HeardSoFar
<1>4. PICK h : IsHearing(h, x, q, n + 1) /\ HeardAll(x, q) = h[n + 1]
  <2>1. n + 1 \in Nat
    BY <1>2
  <2>2. \E h : IsHearing(h, x, q, n + 1)
    BY <2>1, HearingExists
  <2> QED
    BY <1>2, <2>2 DEF HeardAll, HeardSoFar
<1>5. \A i \in 0..n : g[i] = h[i]
  <2>1. n <= n + 1 /\ n + 1 \in Nat
    BY <1>2
  <2> QED
    BY <1>2, <1>3, <1>4, <2>1, HearingAgrees
<1>6. h[n + 1] = Hear(h[n], q[n + 1])
  BY <1>2, <1>4 DEF IsHearing
<1>7. g[n] = h[n]
  BY <1>2, <1>5
<1> QED
  BY <1>1, <1>2, <1>3, <1>4, <1>6, <1>7

\* One token
LEMMA HeardOne == ASSUME NEW x, NEW t PROVE HeardAll(x, <<t>>) = Hear(x, t)
<1>1. Append(<<>>, t) = <<t>> /\ IsSeq(<<>>)
  BY OneIsSeq, EmptyIsSeq
<1>2. HeardAll(x, Append(<<>>, t)) = Hear(HeardAll(x, <<>>), t)
  BY <1>1, HeardAppend
<1> QED
  BY <1>1, <1>2, HeardNothing

\* A stream is heard part by part: however it is cut, it says the same.
LEMMA HeardConcat ==
  ASSUME NEW x, NEW p, IsSeq(p)
  PROVE  \A q : IsSeq(q) => HeardAll(x, p \o q) = HeardAll(HeardAll(x, p), q)
<1> DEFINE P(q) == HeardAll(x, p \o q) = HeardAll(HeardAll(x, p), q)
           N == {n \in Nat : \A q : IsSeq(q) /\ Len(q) = n => P(q)}
<1>1. 0 \in N
  <2>1. ASSUME NEW q, IsSeq(q), Len(q) = 0 PROVE P(q)
    BY <2>1, SeqLen, EmptyIsSeq, HeardNothing
  <2> QED
    BY <2>1
<1>2. ASSUME NEW n \in Nat, n \in N PROVE n + 1 \in N
  <2> SUFFICES ASSUME NEW q, IsSeq(q), Len(q) = n + 1 PROVE P(q)
    OBVIOUS
  <2>1. q # <<>>
    BY SeqLen
  <2>2. PICK u, e : IsSeq(u) /\ q = Append(u, e) /\ Len(q) = Len(u) + 1
    BY <2>1, SeqSplitLast
  <2>3. Len(u) = n
    BY <2>2, SeqLen
  <2>4. P(u)
    BY <1>2, <2>2, <2>3
  <2>5. PICK v, w : v = p \o u /\ w = p \o q
    OBVIOUS
  <2>6. IsSeq(v)
    BY <2>2, <2>5, SeqConcat
  <2>7. w = Append(v, e)
    BY <2>2, <2>5, ConcatAppend
  <2>8. HeardAll(x, w) = Hear(HeardAll(x, v), e)
    BY <2>6, <2>7, HeardAppend
  <2>9. PICK y : y = HeardAll(x, p)
    OBVIOUS
  <2>10. HeardAll(y, q) = Hear(HeardAll(y, u), e)
    BY <2>2, HeardAppend
  <2>11. HeardAll(x, v) = HeardAll(y, u)
    BY <2>4, <2>5, <2>9
  <2> QED
    BY <2>5, <2>8, <2>9, <2>10, <2>11
<1> HIDE DEF N
<1>3. Nat \subseteq N
  BY <1>1, <1>2, SetInduction
<1> QED
  BY <1>3, SeqLen DEF N

\* A token keeps the parts.
LEMMA HearParts ==
  ASSUME NEW x, HasParts(x), NEW t
  PROVE  HasParts(Hear(x, t)) /\ (Hear(x, t).ok => x.ok)
<1>1. IsSeq(Append(x.captured, t)) /\ IsSeq(Append(x.ended, BlockFor(x))) /\ IsSeq(<<>>)
  BY SeqAppend, EmptyIsSeq DEF HasParts
<1>2. PICK cd, en, mt : cd = Append(x.captured, t) /\ en = Append(x.ended, BlockFor(x)) /\ mt = <<>>
  OBVIOUS
<1>3. IsSeq(cd) /\ IsSeq(en) /\ IsSeq(mt)
  BY <1>1, <1>2
<1>4. PICK y : y = Hear(x, t)
  OBVIOUS
<1>5. CASE t.k = "E"
  <2>1. y = IF x.running \/ t.c = NoCommand
            THEN Says(x.mode, x.running, x.capturing, x.command, x.captured, x.ended, FALSE)
            ELSE Says(x.mode, x.running, x.capturing, t.c, x.captured, x.ended, x.ok)
    BY <1>4, <1>5 DEF Hear
  <2>2. CASE x.running \/ t.c = NoCommand
    <3>1. y = Says(x.mode, x.running, x.capturing, x.command, x.captured, x.ended, FALSE)
      BY <2>1, <2>2
    <3>2. /\ y.mode = x.mode /\ y.running = x.running /\ y.capturing = x.capturing /\ y.command = x.command
          /\ y.captured = x.captured /\ y.ended = x.ended /\ y.ok = FALSE
          /\ y = Says(y.mode, y.running, y.capturing, y.command, y.captured, y.ended, y.ok)
      BY <3>1 DEF Says
    <3> QED
      BY <1>4, <3>2 DEF HasParts
  <2>3. CASE ~(x.running \/ t.c = NoCommand)
    <3>1. y = Says(x.mode, x.running, x.capturing, t.c, x.captured, x.ended, x.ok)
      BY <2>1, <2>3
    <3>2. /\ y.mode = x.mode /\ y.running = x.running /\ y.capturing = x.capturing /\ y.command = t.c
          /\ y.captured = x.captured /\ y.ended = x.ended /\ y.ok = x.ok
          /\ y = Says(y.mode, y.running, y.capturing, y.command, y.captured, y.ended, y.ok)
      BY <3>1 DEF Says
    <3> QED
      BY <1>4, <2>3, <3>2 DEF HasParts
  <2> QED
    BY <2>2, <2>3
<1>6. CASE t.k = "C"
  <2>1. y = IF x.running \/ x.command = NoCommand
            THEN Says(x.mode, x.running, x.capturing, x.command, x.captured, x.ended, FALSE)
            ELSE Says(x.mode, TRUE, x.mode, x.command, mt, x.ended, x.ok)
    BY <1>2, <1>4, <1>6 DEF Hear
  <2>2. CASE x.running \/ x.command = NoCommand
    <3>1. y = Says(x.mode, x.running, x.capturing, x.command, x.captured, x.ended, FALSE)
      BY <2>1, <2>2
    <3>2. /\ y.mode = x.mode /\ y.running = x.running /\ y.capturing = x.capturing /\ y.command = x.command
          /\ y.captured = x.captured /\ y.ended = x.ended /\ y.ok = FALSE
          /\ y = Says(y.mode, y.running, y.capturing, y.command, y.captured, y.ended, y.ok)
      BY <3>1 DEF Says
    <3> QED
      BY <1>4, <3>2 DEF HasParts
  <2>3. CASE ~(x.running \/ x.command = NoCommand)
    <3>1. y = Says(x.mode, TRUE, x.mode, x.command, mt, x.ended, x.ok)
      BY <2>1, <2>3
    <3>2. /\ y.mode = x.mode /\ y.running = TRUE /\ y.capturing = x.mode /\ y.command = x.command
          /\ y.captured = mt /\ y.ended = x.ended /\ y.ok = x.ok
          /\ y = Says(y.mode, y.running, y.capturing, y.command, y.captured, y.ended, y.ok)
      BY <3>1 DEF Says
    <3> QED
      BY <1>3, <1>4, <2>3, <3>2 DEF HasParts
  <2> QED
    BY <2>2, <2>3
<1>7. CASE t.k = "D"
  <2>1. y = Says(x.mode, FALSE, FALSE, NoCommand, mt, IF x.capturing THEN en ELSE x.ended, x.ok)
    BY <1>2, <1>4, <1>7 DEF Hear
  <2>2. PICK o : o = (IF x.capturing THEN en ELSE x.ended)
    OBVIOUS
  <2>3. /\ y.mode = x.mode /\ y.running = FALSE /\ y.capturing = FALSE /\ y.command = NoCommand
        /\ y.captured = mt /\ y.ended = o /\ y.ok = x.ok
        /\ y = Says(y.mode, y.running, y.capturing, y.command, y.captured, y.ended, y.ok)
    BY <2>1, <2>2 DEF Says
  <2>4. IsSeq(o)
    BY <1>3, <2>2 DEF HasParts
  <2> QED
    BY <1>3, <1>4, <2>3, <2>4 DEF HasParts
<1>8. CASE t.k \in {"P0", "P1"}
  <2>1. PICK b : b = (t.k = "P1") /\ b \in BOOLEAN
    OBVIOUS
  <2>2. y = Says(b, x.running, x.capturing, x.command, x.captured, x.ended, x.ok)
    BY <1>4, <1>8, <2>1 DEF Hear
  <2> QED
    BY <1>4, <2>1, <2>2 DEF HasParts, Says
<1>9. CASE t.k \notin {"E", "C", "D", "P0", "P1"}
  <2>1. y = IF Paints(t) /\ x.capturing THEN Says(x.mode, x.running, x.capturing, x.command, cd, x.ended, x.ok)
            ELSE x
    BY <1>2, <1>4, <1>9 DEF Hear
  <2> QED
    BY <1>3, <1>4, <2>1 DEF HasParts, Says
<1> QED
  BY <1>5, <1>6, <1>7, <1>8, <1>9

\* Whatever is heard later, what was heard before was in order and its blocks remain.
Extends(s, u) == \E v : IsSeq(v) /\ s = u \o v

\* A token ends at most one more block.
LEMMA HearExtends ==
  ASSUME NEW x, HasParts(x), NEW t
  PROVE  Extends(Hear(x, t).ended, x.ended)
<1>1. PICK en : en = Append(x.ended, BlockFor(x))
  OBVIOUS
<1>2. en = x.ended \o <<BlockFor(x)>> /\ IsSeq(<<BlockFor(x)>>)
  BY <1>1, SeqAppend, OneIsSeq DEF HasParts
<1>3. x.ended = x.ended \o <<>> /\ IsSeq(<<>>)
  BY EmptyIsSeq DEF HasParts
<1>4. Hear(x, t).ended = x.ended \/ Hear(x, t).ended = en
  BY <1>1 DEF Hear, Says
<1> QED
  BY <1>2, <1>3, <1>4 DEF Extends

\* A stream keeps the parts, and extends the blocks.
LEMMA HeardParts ==
  ASSUME NEW x, HasParts(x)
  PROVE  \A p : IsSeq(p) => /\ HasParts(HeardAll(x, p)) /\ (HeardAll(x, p).ok => x.ok)
                            /\ Extends(HeardAll(x, p).ended, x.ended)
<1> DEFINE P(p) == /\ HasParts(HeardAll(x, p)) /\ (HeardAll(x, p).ok => x.ok)
                   /\ Extends(HeardAll(x, p).ended, x.ended)
           N == {n \in Nat : \A p : IsSeq(p) /\ Len(p) = n => P(p)}
<1>1. 0 \in N
  <2>1. ASSUME NEW p, IsSeq(p), Len(p) = 0 PROVE P(p)
    <3>1. p = <<>>
      BY <2>1, SeqLen
    <3>2. HeardAll(x, p) = x
      BY <3>1, HeardNothing
    <3>3. Extends(x.ended, x.ended)
      BY EmptyIsSeq DEF Extends, HasParts
    <3> QED
      BY <3>2, <3>3
  <2> QED
    BY <2>1
<1>2. ASSUME NEW n \in Nat, n \in N PROVE n + 1 \in N
  <2> SUFFICES ASSUME NEW p, IsSeq(p), Len(p) = n + 1 PROVE P(p)
    OBVIOUS
  <2>1. p # <<>>
    BY SeqLen
  <2>2. PICK u, e : IsSeq(u) /\ p = Append(u, e) /\ Len(p) = Len(u) + 1
    BY <2>1, SeqSplitLast
  <2>3. Len(u) = n
    BY <2>2, SeqLen
  <2>4. P(u)
    BY <1>2, <2>2, <2>3
  <2>5. PICK y : y = HeardAll(x, u)
    OBVIOUS
  <2>6. HeardAll(x, p) = Hear(y, e)
    BY <2>2, <2>5, HeardAppend
  <2>7. HasParts(Hear(y, e)) /\ (Hear(y, e).ok => y.ok) /\ Extends(Hear(y, e).ended, y.ended)
    BY <2>4, <2>5, HearParts, HearExtends
  <2>8. Extends(Hear(y, e).ended, x.ended)
    <3>1. PICK v : IsSeq(v) /\ y.ended = x.ended \o v
      BY <2>4, <2>5 DEF Extends
    <3>2. PICK w : IsSeq(w) /\ Hear(y, e).ended = y.ended \o w
      BY <2>7 DEF Extends
    <3>3. PICK a, b : a = x.ended /\ b = v \o w
      OBVIOUS
    <3>4. IsSeq(a) /\ IsSeq(b)
      BY <3>1, <3>2, <3>3, SeqConcat DEF HasParts
    <3>5. (a \o v) \o w = a \o (v \o w)
      BY <3>1, <3>2, <3>4, SeqAssociates
    <3> QED
      BY <3>1, <3>2, <3>3, <3>4, <3>5 DEF Extends
  <2> QED
    BY <2>4, <2>5, <2>6, <2>7, <2>8
<1> HIDE DEF N
<1>3. Nat \subseteq N
  BY <1>1, <1>2, SetInduction
<1> QED
  BY <1>3, SeqLen DEF N

-----------------------------------------------------------------------------
\* What a list of actions reports.

\* The blocks that a report finalizes, and the state it leaves the frontend with
Withs(s)       == [i \in DOMAIN s |-> s[i].with]
EndedOf(a)     == Withs(Only({"block"}, a))
ToldBy(t, a)   == LET s == Only({"state"}, a) IN IF s = <<>> THEN t ELSE Last(s).with

\* What nothing and one action carry
LEMMA WithsFacts ==
  /\ Withs(<<>>) = <<>>
  /\ \A e : Withs(<<e>>) = <<e.with>>
  /\ \A s : IsSeq(s) => IsSeq(Withs(s)) /\ Len(Withs(s)) = Len(s) /\ \A i \in 1..Len(s) : Withs(s)[i] = s[i].with
<1>1. ASSUME NEW s, IsSeq(s)
      PROVE  IsSeq(Withs(s)) /\ Len(Withs(s)) = Len(s) /\ \A i \in 1..Len(s) : Withs(s)[i] = s[i].with
  <2>1. Len(s) \in Nat /\ DOMAIN s = 1..Len(s)
    BY <1>1, SeqLen
  <2>2. PICK n : n = Len(s)
    OBVIOUS
  <2>3. PICK w : w = [i \in 1..n |-> s[i].with]
    OBVIOUS
  <2>4. Withs(s) = w
    BY <2>1, <2>2, <2>3 DEF Withs
  <2>5. PICK S : S = {s[i].with : i \in 1..n}
    OBVIOUS
  <2>6. w \in [1..n -> S]
    BY <2>3, <2>5
  <2>7. w \in Seq(S)
    BY <2>1, <2>2, <2>6, SeqDef
  <2>8. Len(w) = n
    BY <2>1, <2>2, <2>6, <2>7, LenProperties
  <2> QED
    BY <2>2, <2>3, <2>4, <2>7, <2>8 DEF IsSeq
<1>2. Withs(<<>>) = <<>>
  <2>1. IsSeq(<<>>) /\ Len(<<>>) = 0
    BY EmptyIsSeq
  <2>2. IsSeq(Withs(<<>>)) /\ Len(Withs(<<>>)) = 0
    BY <1>1, <2>1
  <2> QED
    BY <2>2, SeqLen
<1>3. ASSUME NEW e PROVE Withs(<<e>>) = <<e.with>>
  <2>1. PICK o, q : o = <<e>> /\ q = <<e.with>>
    OBVIOUS
  <2>2. IsSeq(o) /\ Len(o) = 1 /\ o[1] = e /\ IsSeq(q) /\ Len(q) = 1 /\ q[1] = e.with
    BY <2>1, OneIsSeq
  <2>3. IsSeq(Withs(o)) /\ Len(Withs(o)) = 1 /\ Withs(o)[1] = o[1].with
    BY <1>1, <2>2
  <2>4. \A i \in 1..1 : Withs(o)[i] = q[i]
    BY <2>2, <2>3
  <2>5. Withs(o) = q
    BY <2>2, <2>3, <2>4, SeqExtensional
  <2> QED
    BY <2>1, <2>5
<1> QED
  BY <1>1, <1>2, <1>3

\* What actions carry distributes over concatenation.
LEMMA WithsConcat ==
  ASSUME NEW s, NEW t, IsSeq(s), IsSeq(t)
  PROVE  Withs(s \o t) = Withs(s) \o Withs(t)
<1>1. PICK u : u = s \o t
  OBVIOUS
<1>2. /\ IsSeq(u) /\ Len(u) = Len(s) + Len(t)
      /\ \A i \in 1..(Len(s) + Len(t)) : u[i] = IF i <= Len(s) THEN s[i] ELSE t[i - Len(s)]
  BY <1>1, SeqConcat
<1>3. PICK a, b, c : a = Withs(s) /\ b = Withs(t) /\ c = a \o b
  OBVIOUS
<1>4. /\ IsSeq(a) /\ IsSeq(b) /\ Len(a) = Len(s) /\ Len(b) = Len(t)
      /\ \A i \in 1..Len(s) : a[i] = s[i].with
      /\ \A i \in 1..Len(t) : b[i] = t[i].with
  BY <1>3, WithsFacts
<1>5. /\ IsSeq(c) /\ Len(c) = Len(a) + Len(b)
      /\ \A i \in 1..(Len(a) + Len(b)) : c[i] = IF i <= Len(a) THEN a[i] ELSE b[i - Len(a)]
  BY <1>3, <1>4, SeqConcat
<1>6. PICK d : d = Withs(u)
  OBVIOUS
<1>7. IsSeq(d) /\ Len(d) = Len(u) /\ \A i \in 1..Len(u) : d[i] = u[i].with
  BY <1>2, <1>6, WithsFacts
<1>8. Len(s) \in Nat /\ Len(t) \in Nat
  BY SeqLen
<1>9. \A i \in 1..Len(d) : d[i] = c[i]
  <2> SUFFICES ASSUME NEW i \in 1..Len(d) PROVE d[i] = c[i]
    OBVIOUS
  <2>1. i \in 1..(Len(s) + Len(t)) /\ d[i] = u[i].with
    BY <1>2, <1>7
  <2>2. CASE i <= Len(s)
    <3>1. i \in 1..Len(s)
      BY <1>8, <2>1, <2>2
    <3> QED
      BY <1>2, <1>4, <1>5, <2>1, <2>2, <3>1
  <2>3. CASE ~(i <= Len(s))
    <3>1. i - Len(s) \in 1..Len(t)
      BY <1>8, <2>1, <2>3
    <3> QED
      BY <1>2, <1>4, <1>5, <2>1, <2>3, <3>1
  <2> QED
    BY <2>2, <2>3
<1>10. d = c
  BY <1>2, <1>4, <1>5, <1>7, <1>9, SeqExtensional
<1> QED
  BY <1>1, <1>3, <1>6, <1>10

\* The blocks that nothing and one action end
LEMMA EndedFacts ==
  /\ EndedOf(<<>>) = <<>>
  /\ \A e : EndedOf(<<e>>) = IF e.do = "block" THEN <<e.with>> ELSE <<>>
  /\ \A a : IsSeq(a) => IsSeq(EndedOf(a))
<1>1. EndedOf(<<>>) = <<>>
  BY OnlyFacts, WithsFacts DEF EndedOf
<1>2. ASSUME NEW e PROVE EndedOf(<<e>>) = IF e.do = "block" THEN <<e.with>> ELSE <<>>
  <2>1. PICK o : o = Only({"block"}, <<e>>)
    OBVIOUS
  <2>2. o = IF e.do = "block" THEN <<e>> ELSE <<>>
    BY <2>1, OnlyFacts
  <2>3. EndedOf(<<e>>) = Withs(o)
    BY <2>1 DEF EndedOf
  <2> QED
    BY <2>2, <2>3, WithsFacts
<1>3. ASSUME NEW a, IsSeq(a) PROVE IsSeq(EndedOf(a))
  BY <1>3, OnlyFacts, WithsFacts DEF EndedOf
<1> QED
  BY <1>1, <1>2, <1>3

\* The blocks that actions end distribute over concatenation.
LEMMA EndedConcat ==
  ASSUME NEW a, NEW b, IsSeq(a), IsSeq(b)
  PROVE  EndedOf(a \o b) = EndedOf(a) \o EndedOf(b)
<1>1. PICK u, v, w : u = Only({"block"}, a) /\ v = Only({"block"}, b) /\ w = Only({"block"}, a \o b)
  OBVIOUS
<1>2. IsSeq(u) /\ IsSeq(v)
  BY <1>1, OnlyFacts
<1>3. w = u \o v
  BY <1>1, OnlyConcat
<1>4. Withs(u \o v) = Withs(u) \o Withs(v)
  BY <1>2, WithsConcat
<1> QED
  BY <1>1, <1>3, <1>4 DEF EndedOf

\* What nothing and one more action tell
LEMMA ToldFacts ==
  ASSUME NEW t, NEW a, IsSeq(a)
  PROVE  /\ ToldBy(t, <<>>) = t
         /\ \A e : e.do = "state" => ToldBy(t, Append(a, e)) = e.with
         /\ \A b : IsSeq(b) /\ Only({"state"}, b) = <<>> =>
                     ToldBy(t, a \o b) = ToldBy(t, a) /\ ToldBy(t, b \o a) = ToldBy(t, a)
<1>1. ToldBy(t, <<>>) = t
  BY OnlyFacts DEF ToldBy
<1>2. ASSUME NEW e, e.do = "state" PROVE ToldBy(t, Append(a, e)) = e.with
  <2>1. PICK o, p, q : o = <<e>> /\ p = Append(a, e) /\ q = Only({"state"}, a)
    OBVIOUS
  <2>2. IsSeq(o) /\ p = a \o o /\ IsSeq(q)
    BY <2>1, OneIsSeq, SeqAppend, OnlyFacts
  <2>3. Only({"state"}, p) = q \o Only({"state"}, o) /\ Only({"state"}, o) = o
    <3>1. Only({"state"}, a \o o) = Only({"state"}, a) \o Only({"state"}, o)
      BY <2>2, OnlyConcat
    <3>2. Only({"state"}, <<e>>) = IF e.do \in {"state"} THEN <<e>> ELSE <<>>
      BY OnlyFacts
    <3> QED
      BY <1>2, <2>1, <2>2, <3>1, <3>2
  <2>4. PICK z : z = Append(q, e)
    OBVIOUS
  <2>5. z = q \o o /\ IsSeq(z) /\ Len(z) = Len(q) + 1 /\ z[Len(q) + 1] = e
    BY <2>1, <2>2, <2>4, SeqAppend
  <2>6. Only({"state"}, p) = z
    BY <2>3, <2>5
  <2>7. z # <<>> /\ Last(z) = e
    BY <2>2, <2>5, SeqLen, EmptyIsSeq DEF Last
  <2> QED
    BY <2>1, <2>6, <2>7 DEF ToldBy
<1>3. ASSUME NEW b, IsSeq(b), Only({"state"}, b) = <<>>
      PROVE  ToldBy(t, a \o b) = ToldBy(t, a) /\ ToldBy(t, b \o a) = ToldBy(t, a)
  <2>1. PICK p, q, s : p = a \o b /\ q = b \o a /\ s = Only({"state"}, a)
    OBVIOUS
  <2>2. Only({"state"}, p) = s \o <<>> /\ Only({"state"}, q) = <<>> \o s /\ IsSeq(s)
    <3>1. Only({"state"}, a \o b) = Only({"state"}, a) \o Only({"state"}, b)
      BY <1>3, OnlyConcat
    <3>2. Only({"state"}, b \o a) = Only({"state"}, b) \o Only({"state"}, a)
      BY <1>3, OnlyConcat
    <3>3. IsSeq(Only({"state"}, a))
      BY OnlyFacts
    <3> QED
      BY <1>3, <2>1, <3>1, <3>2, <3>3
  <2>3. Only({"state"}, p) = s /\ Only({"state"}, q) = s
    BY <2>2, EmptyIsSeq
  <2> QED
    BY <2>1, <2>3 DEF ToldBy
<1> QED
  BY <1>1, <1>2, <1>3

\* Actions that report nothing
Silent(a) == IsSeq(a) /\ Only({"block"}, a) = <<>> /\ Only({"state"}, a) = <<>>

\* Nothing, and an action of another kind, say nothing.
LEMMA SilentFacts ==
  /\ Silent(<<>>)
  /\ \A e : e.do \notin {"block", "state"} => Silent(<<e>>)
  /\ \A a, b : Silent(a) /\ Silent(b) => Silent(a \o b)
<1>1. Silent(<<>>)
  BY OnlyFacts, EmptyIsSeq DEF Silent
<1>2. ASSUME NEW e, e.do \notin {"block", "state"} PROVE Silent(<<e>>)
  BY <1>2, OnlyFacts, OneIsSeq DEF Silent
<1>3. ASSUME NEW a, NEW b, Silent(a), Silent(b) PROVE Silent(a \o b)
  <2>1. Only({"block"}, a \o b) = <<>> \o <<>> /\ Only({"state"}, a \o b) = <<>> \o <<>>
    BY <1>3, OnlyConcat DEF Silent
  <2>2. IsSeq(a \o b)
    BY <1>3, SeqConcat DEF Silent
  <2>3. <<>> \o <<>> = <<>>
    BY EmptyIsSeq
  <2> QED
    BY <2>1, <2>2, <2>3 DEF Silent
<1> QED
  BY <1>1, <1>2, <1>3

\* Silent actions before or after change nothing that is told or ended.
LEMMA SilentAround ==
  ASSUME NEW a, NEW b, IsSeq(a), Silent(b), NEW t
  PROVE  /\ IsSeq(a \o b) /\ EndedOf(a \o b) = EndedOf(a) /\ ToldBy(t, a \o b) = ToldBy(t, a)
         /\ IsSeq(b \o a) /\ EndedOf(b \o a) = EndedOf(a) /\ ToldBy(t, b \o a) = ToldBy(t, a)
<1>1. IsSeq(b) /\ EndedOf(b) = <<>>
  BY WithsFacts DEF Silent, EndedOf
<1>2. EndedOf(a \o b) = EndedOf(a) \o <<>> /\ EndedOf(b \o a) = <<>> \o EndedOf(a)
  BY <1>1, EndedConcat
<1>3. IsSeq(EndedOf(a))
  BY EndedFacts
<1>4. EndedOf(a \o b) = EndedOf(a) /\ EndedOf(b \o a) = EndedOf(a)
  BY <1>2, <1>3, EmptyIsSeq
<1>5. IsSeq(a \o b) /\ IsSeq(b \o a)
  BY <1>1, SeqConcat
<1> QED
  BY <1>1, <1>4, <1>5, ToldFacts DEF Silent

\* Live bytes say nothing of the command.
LEMMA LiveIsSilent == ASSUME NEW bytes PROVE Silent(Live(bytes))
<1>1. PICK e : e = Act("live", Painted(bytes))
  OBVIOUS
<1>2. e.do \notin {"block", "state"}
  BY <1>1 DEF Act
<1>3. Live(bytes) = <<>> \/ Live(bytes) = <<e>>
  BY <1>1 DEF Live
<1> QED
  BY <1>2, <1>3, SilentFacts

\* An announced state is what is told.
LEMMA AnnouncedFacts ==
  ASSUME NEW a, IsSeq(a), NEW q, NEW t
  PROVE  /\ IsSeq(Append(a, State(q))) /\ EndedOf(Append(a, State(q))) = EndedOf(a)
         /\ ToldBy(t, Append(a, State(q))) = q
<1>1. PICK e : e = State(q)
  OBVIOUS
<1>2. e.do = "state" /\ e.with = q
  BY <1>1 DEF State, Act
<1>3. ToldBy(t, Append(a, e)) = q
  <2>1. \A d : d.do = "state" => ToldBy(t, Append(a, d)) = d.with
    BY ToldFacts
  <2>2. ToldBy(t, Append(a, e)) = e.with
    BY <1>2, <2>1
  <2> QED
    BY <1>2, <2>2
<1>4. PICK o : o = <<e>>
  OBVIOUS
<1>5. IsSeq(o) /\ Append(a, e) = a \o o /\ EndedOf(o) = <<>>
  BY <1>2, <1>4, OneIsSeq, SeqAppend, EndedFacts
<1>6. IsSeq(a \o o) /\ EndedOf(a \o o) = EndedOf(a) \o <<>>
  BY <1>5, EndedConcat, SeqConcat
<1>7. EndedOf(a) \o <<>> = EndedOf(a)
  BY EndedFacts, EmptyIsSeq
<1> QED
  BY <1>1, <1>3, <1>5, <1>6, <1>7

-----------------------------------------------------------------------------
\* What the end and the start of a command report

\* The actions of the mark D: the block of what was captured, and rest.
LEMMA EndActsFacts ==
  ASSUME NEW r, IsSeq(r.acts), NEW t
  PROVE  /\ IsSeq(EndActs(r))
         /\ EndedOf(EndActs(r)) = IF r.m.capturing /\ r.m.command # NoCommand
                                  THEN Append(EndedOf(r.acts), BlockOf(r.m).with) ELSE EndedOf(r.acts)
<1>1. PICK a, e, z, o : a = r.acts /\ e = BlockOf(r.m) /\ z = <<Act("reset", <<>>)>> /\ o = <<e>>
  OBVIOUS
<1>2. Silent(z) /\ e.do = "block"
  <2>1. PICK w : w = Act("reset", <<>>)
    OBVIOUS
  <2>2. w.do \notin {"block", "state"}
    BY <2>1 DEF Act
  <2> QED
    BY <1>1, <2>1, <2>2, SilentFacts DEF BlockOf, Act
<1>3. IsSeq(o) /\ EndedOf(o) = <<e.with>>
  <2>1. EndedOf(<<e>>) = IF e.do = "block" THEN <<e.with>> ELSE <<>>
    BY EndedFacts
  <2> QED
    BY <1>1, <1>2, <2>1, OneIsSeq
<1>4. PICK b, d : b = a \o o /\ d = b \o z
  OBVIOUS
<1>5. IsSeq(b) /\ EndedOf(b) = EndedOf(a) \o <<e.with>>
  <2>1. IsSeq(a) /\ IsSeq(o)
    BY <1>1, <1>3
  <2>2. EndedOf(a \o o) = EndedOf(a) \o EndedOf(o) /\ IsSeq(a \o o)
    BY <2>1, SeqConcat, EndedConcat
  <2> QED
    BY <1>3, <1>4, <2>2
<1>6. IsSeq(d) /\ EndedOf(d) = EndedOf(b)
  BY <1>2, <1>4, <1>5, SilentAround
<1>7. Append(EndedOf(a), e.with) = EndedOf(a) \o <<e.with>>
  BY <1>1, EndedFacts, SeqAppend
<1>8. a \o <<>> = a
  BY <1>1, EmptyIsSeq
<1>9. PICK f : f = a \o z
  OBVIOUS
<1>10. IsSeq(f) /\ EndedOf(f) = EndedOf(a)
  BY <1>1, <1>2, <1>9, SilentAround
<1>11. EndActs(r) = IF ~r.m.capturing THEN a ELSE IF r.m.command = NoCommand THEN f ELSE d
  BY <1>1, <1>4, <1>8, <1>9 DEF EndActs
<1> QED
  BY <1>1, <1>5, <1>6, <1>7, <1>10, <1>11

\* The actions of the mark C: a command runs.
LEMMA StartActsFacts ==
  ASSUME NEW r, IsSeq(r.acts), NEW c
  PROVE  IsSeq(StartActs(r, c)) /\ EndedOf(StartActs(r, c)) = EndedOf(r.acts)
<1>1. PICK a, b : a = <<Act("clear core", <<>>)>>
               /\ b = <<Act("restart", Painted(SubSeq(c, StartAt(r, c), Len(c))))>>
  OBVIOUS
<1>2. Silent(a) /\ Silent(b)
  <2>1. PICK w, v : w = Act("clear core", <<>>) /\ v = Act("restart", Painted(SubSeq(c, StartAt(r, c), Len(c))))
    OBVIOUS
  <2>2. w.do = "clear core" /\ v.do = "restart"
    BY <2>1 DEF Act
  <2>3. w.do \notin {"block", "state"} /\ v.do \notin {"block", "state"}
    BY <2>2
  <2> QED
    BY <1>1, <2>1, <2>3, SilentFacts
<1>3. PICK d : d = a \o b
  OBVIOUS
<1>4. Silent(d)
  BY <1>2, <1>3, SilentFacts
<1>5. d = <<Act("clear core", <<>>), Act("restart", Painted(SubSeq(c, StartAt(r, c), Len(c))))>>
  <2>1. PICK w, v : w = Act("clear core", <<>>) /\ v = Act("restart", Painted(SubSeq(c, StartAt(r, c), Len(c))))
    OBVIOUS
  <2>2. <<w>> \o <<v>> = <<w, v>>
    <3>1. PICK o, p, q, u : o = <<w>> /\ p = <<v>> /\ q = <<w, v>> /\ u = o \o p
      OBVIOUS
    <3>2. q \in Seq({w, v})
      BY <3>1
    <3>3. IsSeq(q) /\ Len(q) = 2 /\ q[1] = w /\ q[2] = v
      BY <3>1, <3>2 DEF IsSeq
    <3>4. IsSeq(o) /\ Len(o) = 1 /\ o[1] = w /\ IsSeq(p) /\ Len(p) = 1 /\ p[1] = v
      BY <3>1, OneIsSeq
    <3>5. /\ IsSeq(u) /\ Len(u) = Len(o) + Len(p)
          /\ \A i \in 1..(Len(o) + Len(p)) : u[i] = IF i <= Len(o) THEN o[i] ELSE p[i - Len(o)]
      BY <3>1, <3>4, SeqConcat
    <3>6. Len(u) = 2 /\ \A i \in 1..2 : u[i] = q[i]
      BY <3>3, <3>4, <3>5
    <3>7. u = q
      BY <3>3, <3>5, <3>6, SeqExtensional
    <3> QED
      BY <3>1, <3>7
  <2> QED
    BY <1>1, <1>3, <2>1, <2>2
<1>6. StartActs(r, c) = IF r.m.mode THEN r.acts \o d ELSE r.acts
  BY <1>5 DEF StartActs
<1>7. IsSeq(r.acts \o d) /\ EndedOf(r.acts \o d) = EndedOf(r.acts)
  BY <1>4, SilentAround
<1> QED
  BY <1>6, <1>7

-----------------------------------------------------------------------------
\* The machine after each event of a chunk.

IsTold(t) == t = [command |-> t.command, running |-> t.running, continuation |-> t.continuation]

\* What is in a chunk between a position and the next end of a command
UntilEnd(c, from) == Painted(SubSeq(c, from, NextMark(c, "D", from) - 1))

\* The scan r of the chunk c is where the stream is after i of its tokens.
InStep(r, y, c, i) ==
  /\ Whole(r) /\ IsTold(r.m.told) /\ IsSeq(r.m.captured) /\ IsSeq(r.m.echo) /\ IsSeq(r.acts)
  /\ r.m.mode = y.mode /\ r.m.told.running = y.running
  /\ r.m.capturing = y.capturing /\ r.m.command = y.command
  /\ y.running => r.m.told.command = y.command
  /\ y.capturing => Painted(r.m.captured) = y.captured \o UntilEnd(c, i + 1)
  /\ r.scan \in 1..(Len(c) + 1)
  /\ \A j \in 1..Len(c) : r.scan <= j /\ j <= i => c[j].k # "C"
  /\ y.running => r.scan <= NextMark(c, "D", i + 1)
  /\ ~y.running => r.scan <= i + 1

\* What is reported agrees with what was heard.
Agrees(r, y, b, t) == y.ended = b \o EndedOf(r.acts) /\ r.m.told = ToldBy(t, r.acts)

\* What is painted until the next end, one token on
LEMMA UntilEndSteps ==
  ASSUME NEW c, IsSeq(c), NEW i \in 0..(Len(c) - 1), c[i + 1].k # "D", NEW e, e = NextMark(c, "D", i + 1),
         NEW s, IsSeq(s)
  PROVE  /\ NextMark(c, "D", i + 2) = e /\ e \in (i + 2)..(Len(c) + 1)
         /\ s \o UntilEnd(c, i + 1) = (s \o Painted(<<c[i + 1]>>)) \o UntilEnd(c, i + 2)
<1>0. Len(c) \in Nat
  BY SeqLen
<1>1. i + 1 \in 1..(Len(c) + 1) /\ i + 2 \in 1..(Len(c) + 1)
  BY <1>0
<1>2. /\ e \in (i + 1)..(Len(c) + 1) /\ \A j \in (i + 1)..(Len(c)) : j < e => c[j].k # "D"
      /\ e <= Len(c) => c[e].k = "D"
  BY <1>1, NextMarkFacts
<1>3. e \in (i + 2)..(Len(c) + 1)
  BY <1>0, <1>2
<1>4. NextMark(c, "D", i + 2) = e
  <2>1. \A j \in (i + 2)..Len(c) : j < e => c[j].k # "D"
    BY <1>0, <1>2
  <2> QED
    BY <1>1, <1>2, <1>3, <2>1, NextMarkIs
<1>5. PICK u, v, w, k : u = SubSeq(c, i + 1, e - 1) /\ v = SubSeq(c, i + 1, i + 1) /\ w = SubSeq(c, i + 2, e - 1)
                        /\ k = i + 1
  OBVIOUS
<1>6. /\ k \in Nat \ {0} /\ k \in Nat /\ e - 1 \in Nat /\ k <= k + 1 /\ k <= e - 1 /\ e - 1 <= Len(c)
      /\ k + 1 \in Nat \ {0} /\ k \in 1..Len(c) /\ k <= Len(c)
  BY <1>0, <1>3, <1>5
<1>7. SubSeq(c, k, e - 1) = SubSeq(c, k, k) \o SubSeq(c, k + 1, e - 1)
  BY <1>6, SubSeqSplit
<1>8. SubSeq(c, k, k) = <<c[k]>>
  BY <1>6, SubSeqOne
<1>9. k + 1 = i + 2
  BY <1>5
<1>10. u = v \o w /\ v = <<c[i + 1]>>
  BY <1>5, <1>7, <1>8, <1>9
<1>11. IsSeq(v) /\ IsSeq(w)
  <2>1. IsSeq(SubSeq(c, k + 1, e - 1))
    BY <1>6, SubSeqIsSeq
  <2> QED
    BY <1>5, <1>9, <1>10, <2>1, OneIsSeq
<1>12. PICK pu, pv, pw : pu = Painted(u) /\ pv = Painted(v) /\ pw = Painted(w)
  OBVIOUS
<1>13. pu = pv \o pw
  <2>1. Painted(v \o w) = Painted(v) \o Painted(w)
    BY <1>11, PaintedConcat
  <2> QED
    BY <1>10, <1>12, <2>1
<1>14. IsSeq(pv) /\ IsSeq(pw)
  BY <1>11, <1>12, PaintedFacts
<1>15. (s \o pv) \o pw = s \o (pv \o pw)
  <2>1. IsSeq(s) /\ IsSeq(pv) /\ IsSeq(pw)
    BY <1>14
  <2> QED
    BY ONLY <2>1, SeqAssociates
<1>16. UntilEnd(c, i + 1) = pu /\ UntilEnd(c, i + 2) = pw
  BY <1>4, <1>5, <1>12 DEF UntilEnd
<1> QED
  BY <1>3, <1>4, <1>10, <1>12, <1>13, <1>15, <1>16

\* A token that begins and ends no command
LEMMA StepAside ==
  ASSUME NEW c, IsSeq(c), NEW i \in 0..(Len(c) - 1), NEW t, t = c[i + 1], t.k \notin {"C", "D"},
         NEW r, NEW y, InStep(r, y, c, i), IsSeq(y.captured),
         NEW q, Whole(q), IsSeq(q.m.echo), q.acts = r.acts, q.scan = r.scan,
         q.m.told = r.m.told, q.m.captured = r.m.captured, q.m.capturing = r.m.capturing,
         NEW z, q.m.mode = z.mode, q.m.command = z.command, z.running = y.running, z.capturing = y.capturing,
         z.running => z.command = y.command,
         z.capturing => z.captured = IF Paints(t) THEN Append(y.captured, t) ELSE y.captured
  PROVE  InStep(q, z, c, i + 1)
<1>0. Len(c) \in Nat
  BY SeqLen
<1>1. PICK e : e = NextMark(c, "D", i + 1)
  OBVIOUS
<1>2. /\ NextMark(c, "D", i + 2) = e /\ e \in (i + 2)..(Len(c) + 1)
      /\ y.captured \o UntilEnd(c, i + 1) = (y.captured \o Painted(<<c[i + 1]>>)) \o UntilEnd(c, i + 2)
  <2>1. PICK s : s = y.captured
    OBVIOUS
  <2>2. IsSeq(s) /\ c[i + 1].k # "D"
    BY <2>1
  <2>3. /\ NextMark(c, "D", i + 2) = e /\ e \in (i + 2)..(Len(c) + 1)
        /\ s \o UntilEnd(c, i + 1) = (s \o Painted(<<c[i + 1]>>)) \o UntilEnd(c, i + 2)
    BY ONLY <1>1, <2>2, IsSeq(c), i \in 0..(Len(c) - 1), UntilEndSteps
  <2> QED
    BY <2>1, <2>3
<1>3. ASSUME z.capturing
      PROVE  Painted(q.m.captured) = z.captured \o UntilEnd(c, i + 2)
  <2>1. Painted(<<t>>) = IF Paints(t) THEN <<t>> ELSE <<>>
    BY PaintedFacts
  <2>2. Append(y.captured, t) = y.captured \o <<t>> /\ y.captured = y.captured \o <<>>
    BY SeqAppend, EmptyIsSeq
  <2>3. z.captured = y.captured \o Painted(<<t>>)
    BY <1>3, <2>1, <2>2
  <2>4. Painted(r.m.captured) = y.captured \o UntilEnd(c, i + 1)
    BY <1>3 DEF InStep
  <2> QED
    BY <1>2, <2>3, <2>4
<1>4. (i + 1) + 1 = i + 2
  OBVIOUS
<1>5. /\ Whole(r) /\ IsTold(r.m.told) /\ IsSeq(r.m.captured) /\ IsSeq(r.acts)
      /\ r.m.told.running = y.running /\ r.m.capturing = y.capturing
      /\ y.running => r.m.told.command = y.command
      /\ r.scan \in 1..(Len(c) + 1)
      /\ \A j \in 1..Len(c) : r.scan <= j /\ j <= i => c[j].k # "C"
      /\ y.running => r.scan <= e
      /\ ~y.running => r.scan <= i + 1
  BY <1>1 DEF InStep
<1>6. \A j \in 1..Len(c) : q.scan <= j /\ j <= i + 1 => c[j].k # "C"
  <2> SUFFICES ASSUME NEW j \in 1..Len(c), q.scan <= j, j <= i + 1 PROVE c[j].k # "C"
    OBVIOUS
  <2>1. j <= i \/ j = i + 1
    BY <1>0
  <2> QED
    BY <1>5, <2>1
<1>7. ~y.running => r.scan <= i + 2
  BY <1>0, <1>5
<1>8. /\ IsTold(q.m.told) /\ IsSeq(q.m.captured) /\ IsSeq(q.acts)
      /\ q.m.told.running = z.running /\ q.m.capturing = z.capturing
      /\ z.running => q.m.told.command = z.command
      /\ q.scan \in 1..(Len(c) + 1) /\ (z.running => q.scan <= e) /\ (~z.running => q.scan <= i + 2)
  BY <1>5, <1>7
<1> QED
  BY <1>2, <1>3, <1>4, <1>6, <1>8 DEF InStep

\* The mark C where a command starts
LEMMA StepStart ==
  ASSUME NEW c, IsSeq(c), NEW i \in 0..(Len(c) - 1), c[i + 1].k = "C",
         NEW r, NEW y, InStep(r, y, c, i), HasParts(y), ~y.running,
         NEW q, q = Start(r, c),
         NEW z, z = Says(y.mode, TRUE, y.mode, y.command, <<>>, y.ended, y.ok),
         NEW b, NEW t, Agrees(r, y, b, t)
  PROVE  InStep(q, z, c, i + 1) /\ Agrees(q, z, b, t)
<1>0. Len(c) \in Nat
  BY SeqLen
<1>1. PICK e : e = NextMark(c, "D", i + 1)
  OBVIOUS
<1>11. PICK mt : mt = <<>>
  OBVIOUS
<1>12. IsSeq(mt)
  BY <1>11, EmptyIsSeq
<1>2. /\ NextMark(c, "D", i + 2) = e /\ e \in (i + 2)..(Len(c) + 1)
      /\ mt \o UntilEnd(c, i + 1) = (mt \o Painted(<<c[i + 1]>>)) \o UntilEnd(c, i + 2)
  BY <1>1, <1>12, UntilEndSteps
<1>3. StartAt(r, c) = i + 1 /\ StartEnd(r, c) = e
  <2>1. r.scan \in 1..(Len(c) + 1) /\ i + 1 \in r.scan..(Len(c) + 1)
    BY <1>0 DEF InStep
  <2>2. \A j \in r.scan..Len(c) : j < i + 1 => c[j].k # "C"
    BY <1>0, <2>1 DEF InStep
  <2>3. NextMark(c, "C", r.scan) = i + 1
    BY <2>1, <2>2, NextMarkIs
  <2>4. ~(i + 1 > Len(c))
    BY <1>0
  <2>5. StartAt(r, c) = i + 1
    BY <2>3, <2>4 DEF StartAt
  <2> QED
    BY <1>1, <2>5 DEF StartEnd
<1>4. PICK cd : cd = SubSeq(c, i + 1, e - 1)
  OBVIOUS
<1>5. PICK m, a, n : m = r.m /\ a = StartActs(r, c) /\ n = Runs(m.command)
  OBVIOUS
<1>6. q = Carried(Mach(m.mode, IF m.mode THEN cd ELSE mt, FALSE, mt, "idle", m.command, n, m.mode),
                  Append(a, State(n)), e)
  <2>1. Whole(r)
    BY DEF InStep
  <2>2. Start(r, c) =
           Carried(Mach(r.m.mode, IF r.m.mode THEN SubSeq(c, StartAt(r, c), StartEnd(r, c) - 1) ELSE <<>>,
                        FALSE, <<>>, "idle", r.m.command, Runs(r.m.command), r.m.mode),
                   Append(StartActs(r, c), State(Runs(r.m.command))), StartEnd(r, c))
    BY <2>1, StartIs
  <2> QED
    BY <1>3, <1>4, <1>5, <1>11, <2>2
<1>7. PICK ac, cc : ac = Append(a, State(n)) /\ cc = IF m.mode THEN cd ELSE mt
  OBVIOUS
<1>8. /\ Whole(q) /\ q.acts = ac /\ q.scan = e /\ q.m.captured = cc /\ q.m.capturing = m.mode /\ q.m.echo = mt
      /\ q.m.command = m.command /\ q.m.told = n /\ q.m.mode = m.mode
  <2>1. PICK mm : mm = Mach(m.mode, cc, FALSE, mt, "idle", m.command, n, m.mode)
    OBVIOUS
  <2>2. /\ Fields(mm) /\ mm.capturing = m.mode /\ mm.captured = cc /\ mm.command = m.command /\ mm.echo = mt
        /\ mm.told = n /\ mm.mode = m.mode
    BY <2>1 DEF Fields, Mach
  <2>3. q = Carried(mm, ac, e)
    BY <1>6, <1>7, <2>1
  <2> QED
    BY <2>2, <2>3, WholeOf
<1>9. IsSeq(ac) /\ EndedOf(ac) = EndedOf(r.acts) /\ ToldBy(t, ac) = n
  <2>1. IsSeq(a) /\ EndedOf(a) = EndedOf(r.acts)
    BY <1>5, StartActsFacts DEF InStep
  <2> QED
    BY <1>7, <2>1, AnnouncedFacts
<1>10. /\ z.mode = y.mode /\ z.running = TRUE /\ z.capturing = y.mode /\ z.command = y.command /\ z.captured = mt
       /\ z.ended = y.ended
  BY <1>11 DEF Says
<1>13. Agrees(q, z, b, t)
  BY <1>8, <1>9, <1>10 DEF Agrees
<1>14. IsTold(n) /\ n.running = TRUE /\ n.command = m.command
  BY <1>5 DEF IsTold, Runs
<1>15. m.mode = y.mode /\ m.command = y.command
  BY <1>5 DEF InStep
<1>16. IsSeq(cd) /\ Painted(cd) = UntilEnd(c, i + 1)
  <2>1. i + 1 \in Nat \ {0} /\ e - 1 \in Nat /\ e - 1 <= Len(c)
    BY <1>0, <1>2
  <2>2. IsSeq(SubSeq(c, i + 1, e - 1))
    BY <2>1, SubSeqIsSeq
  <2> QED
    BY <1>1, <1>4, <2>2 DEF UntilEnd
<1>17. ASSUME z.capturing PROVE Painted(q.m.captured) = z.captured \o UntilEnd(c, i + 2)
  <2>1. cc = cd
    BY <1>7, <1>10, <1>15, <1>17
  <2>2. Painted(<<c[i + 1]>>) = <<>>
    BY PaintedFacts DEF Paints
  <2>3. PICK u, v : u = UntilEnd(c, i + 1) /\ v = UntilEnd(c, i + 2)
    OBVIOUS
  <2>4. IsSeq(u)
    BY <1>16, <2>3, PaintedFacts
  <2>5. mt \o mt = mt /\ mt \o u = u
    BY <1>11, <1>12, <2>4, EmptyIsSeq
  <2>6. u = mt \o v
    BY <1>2, <1>11, <2>2, <2>3, <2>5
  <2> QED
    BY <1>8, <1>10, <1>16, <2>1, <2>3, <2>6
<1>18. IsSeq(cc)
  BY <1>7, <1>12, <1>16
<1>19. e \in 1..(Len(c) + 1) /\ \A j \in 1..Len(c) : ~(e <= j /\ j <= i + 1)
  BY <1>0, <1>2
<1>20. (i + 1) + 1 = i + 2
  OBVIOUS
<1>21. /\ Whole(q) /\ IsTold(q.m.told) /\ IsSeq(q.m.captured) /\ IsSeq(q.m.echo) /\ IsSeq(q.acts)
       /\ q.m.mode = z.mode /\ q.m.told.running = z.running
       /\ q.m.capturing = z.capturing /\ q.m.command = z.command
       /\ z.running /\ q.m.told.command = z.command
  BY <1>8, <1>9, <1>10, <1>12, <1>14, <1>15, <1>18
<1>22. e <= e
  BY <1>19
<1>23. q.scan = e /\ NextMark(c, "D", (i + 1) + 1) = e
  BY <1>2, <1>8, <1>20
<1>24. InStep(q, z, c, i + 1)
  BY <1>17, <1>19, <1>20, <1>21, <1>22, <1>23 DEF InStep
<1> QED
  BY <1>13, <1>24

\* The mark D
LEMMA StepEnd ==
  ASSUME NEW c, IsSeq(c), NEW i \in 0..(Len(c) - 1), c[i + 1].k = "D",
         NEW r, NEW y, InStep(r, y, c, i), HasParts(y),
         NEW q, q = Finish(r),
         NEW z, z = Says(y.mode, FALSE, FALSE, NoCommand, <<>>,
                         IF y.capturing THEN Append(y.ended, BlockFor(y)) ELSE y.ended, y.ok),
         NEW b, IsSeq(b), NEW t, Agrees(r, y, b, t)
  PROVE  InStep(q, z, c, i + 1) /\ Agrees(q, z, b, t)
<1>0. Len(c) \in Nat
  BY SeqLen
<1>1. PICK mt, en : mt = <<>> /\ en = IF y.capturing THEN Append(y.ended, BlockFor(y)) ELSE y.ended
  OBVIOUS
<1>2. IsSeq(mt)
  BY <1>1, EmptyIsSeq
<1>3. PICK m, a, ac : m = r.m /\ a = EndActs(r) /\ ac = Append(a, State(Quiet))
  OBVIOUS
<1>4. q = Carried(Mach(FALSE, mt, m.swallow, m.echo, "idle", NoCommand, Quiet, m.mode), ac, r.scan)
  <2>1. Whole(r)
    BY DEF InStep
  <2>2. Finish(r) =
           Carried(Mach(FALSE, <<>>, r.m.swallow, r.m.echo, "idle", NoCommand, Quiet, r.m.mode),
                   Append(EndActs(r), State(Quiet)), r.scan)
    BY <2>1, FinishIs
  <2> QED
    BY <1>1, <1>3, <2>2
<1>5. /\ Whole(q) /\ q.acts = ac /\ q.scan = r.scan /\ q.m.captured = mt /\ q.m.capturing = FALSE /\ q.m.echo = m.echo
      /\ q.m.command = NoCommand /\ q.m.told = Quiet /\ q.m.mode = m.mode
  <2>1. PICK mm : mm = Mach(FALSE, mt, m.swallow, m.echo, "idle", NoCommand, Quiet, m.mode)
    OBVIOUS
  <2>2. /\ Fields(mm) /\ mm.capturing = FALSE /\ mm.captured = mt /\ mm.command = NoCommand /\ mm.echo = m.echo
        /\ mm.told = Quiet /\ mm.mode = m.mode
    BY <2>1 DEF Fields, Mach
  <2>3. q = Carried(mm, ac, r.scan)
    BY <1>4, <2>1
  <2> QED
    BY <2>2, <2>3, WholeOf
<1>6. /\ IsSeq(a)
      /\ EndedOf(a) = IF m.capturing /\ m.command # NoCommand
                      THEN Append(EndedOf(r.acts), BlockOf(m).with) ELSE EndedOf(r.acts)
  <2>1. IsSeq(r.acts)
    BY DEF InStep
  <2> QED
    BY <1>3, <2>1, EndActsFacts
<1>7. IsSeq(ac) /\ EndedOf(ac) = EndedOf(a) /\ ToldBy(t, ac) = Quiet
  BY <1>3, <1>6, AnnouncedFacts
<1>8. /\ z.mode = y.mode /\ z.running = FALSE /\ z.capturing = FALSE /\ z.command = NoCommand /\ z.captured = mt
      /\ z.ended = en
  BY <1>1 DEF Says
<1>9. m.mode = y.mode /\ m.command = y.command /\ m.capturing = y.capturing
  BY <1>3 DEF InStep
<1>10. NextMark(c, "D", i + 1) = i + 1
  <2>1. i + 1 \in 1..(Len(c) + 1) /\ i + 1 \in (i + 1)..(Len(c) + 1)
    BY <1>0
  <2>2. \A j \in (i + 1)..Len(c) : j < i + 1 => c[j].k # "D"
    BY <1>0
  <2> QED
    BY <2>1, <2>2, NextMarkIs
<1>11. ASSUME y.capturing PROVE Painted(m.captured) = y.captured
  <2>1. Painted(m.captured) = y.captured \o UntilEnd(c, i + 1)
    BY <1>3, <1>11 DEF InStep
  <2>2. UntilEnd(c, i + 1) = <<>>
    <3>1. UntilEnd(c, i + 1) = Painted(SubSeq(c, i + 1, (i + 1) - 1))
      BY ONLY <1>10 DEF UntilEnd
    <3>2. (i + 1) - 1 = i /\ i \in Nat /\ i <= Len(c) /\ i + 1 \in Nat \ {0} /\ i + 1 > i
      BY <1>0
    <3>3. SubSeq(c, i + 1, i) = <<>>
      BY <3>2, SubSeqIsSeq
    <3> QED
      BY <3>1, <3>2, <3>3, PaintedFacts
  <2>3. y.captured \o <<>> = y.captured
    BY EmptyIsSeq DEF HasParts
  <2> QED
    BY <2>1, <2>2, <2>3
<1>12. Agrees(q, z, b, t)
  <2>1. y.ended = b \o EndedOf(r.acts)
    BY DEF Agrees
  <2>2. CASE y.capturing
    <3>1. y.command # NoCommand
      BY <2>2 DEF HasParts
    <3>2. BlockOf(m).with = BlockFor(y)
      BY <1>9, <1>11, <2>2 DEF BlockOf, BlockFor, Act
    <3>3. PICK u, e : u = EndedOf(r.acts) /\ e = BlockFor(y)
      OBVIOUS
    <3>4. EndedOf(a) = Append(u, e)
      BY <1>6, <1>9, <2>2, <3>1, <3>2, <3>3
    <3>5. IsSeq(u)
      BY <3>3, EndedFacts DEF InStep
    <3>6. PICK v : v = b \o u
      OBVIOUS
    <3>7. b \o Append(u, e) = Append(v, e)
      BY <3>5, <3>6, ConcatAppend
    <3>8. en = Append(v, e)
      BY <1>1, <2>1, <2>2, <3>3, <3>6
    <3>9. z.ended = b \o EndedOf(q.acts)
      BY <1>5, <1>7, <1>8, <3>4, <3>7, <3>8
    <3> QED
      BY <1>5, <1>7, <3>9 DEF Agrees
  <2>3. CASE ~y.capturing
    <3>1. z.ended = b \o EndedOf(q.acts)
      BY <1>1, <1>5, <1>6, <1>7, <1>8, <1>9, <2>1, <2>3
    <3> QED
      BY <1>5, <1>7, <3>1 DEF Agrees
  <2> QED
    BY <2>2, <2>3
<1>13. /\ r.scan \in 1..(Len(c) + 1) /\ r.scan <= i + 1 /\ IsSeq(m.echo)
       /\ \A j \in 1..Len(c) : r.scan <= j /\ j <= i => c[j].k # "C"
  BY <1>3, <1>10 DEF InStep, HasParts
<1>14. r.scan <= (i + 1) + 1
  BY <1>0, <1>13
<1>15. \A j \in 1..Len(c) : q.scan <= j /\ j <= i + 1 => c[j].k # "C"
  <2> SUFFICES ASSUME NEW j \in 1..Len(c), q.scan <= j, j <= i + 1 PROVE c[j].k # "C"
    OBVIOUS
  <2>1. j <= i \/ j = i + 1
    BY <1>0
  <2> QED
    BY <1>5, <1>13, <2>1
<1>16. IsTold(Quiet) /\ Quiet.running = FALSE
  BY DEF IsTold, Quiet
<1>17. /\ Whole(q) /\ IsTold(q.m.told) /\ IsSeq(q.m.captured) /\ IsSeq(q.m.echo) /\ IsSeq(q.acts)
       /\ q.m.mode = z.mode /\ q.m.told.running = z.running
       /\ q.m.capturing = z.capturing /\ q.m.command = z.command
       /\ ~z.running /\ ~z.capturing /\ q.scan = r.scan
  BY <1>2, <1>5, <1>7, <1>8, <1>9, <1>13, <1>16
<1>18. InStep(q, z, c, i + 1)
  BY <1>13, <1>14, <1>15, <1>17 DEF InStep
<1> QED
  BY <1>12, <1>18

\* Every event keeps the scan where the stream is.
LEMMA StepEvent ==
  ASSUME NEW c, IsSeq(c), NEW i \in 0..(Len(c) - 1), NEW x, x = c[i + 1],
         NEW r, NEW y, InStep(r, y, c, i), HasParts(y),
         NEW q, q = Event(r, c, x), NEW z, z = Hear(y, x), z.ok,
         NEW b, IsSeq(b), NEW t, Agrees(r, y, b, t)
  PROVE  InStep(q, z, c, i + 1) /\ Agrees(q, z, b, t)
<1>1. PICK m : m = r.m /\ Whole(r) /\ IsSeq(m.echo) /\ m.mode = y.mode /\ m.command = y.command
  BY DEF InStep
<1>2. /\ x.k = "E" => q = Carried(Mach(m.capturing, m.captured, m.swallow, m.echo, "idle",
                                       x.c, m.told, m.mode), r.acts, r.scan)
      /\ x.k = "B" => q = Carried(Mach(m.capturing, m.captured, m.mode, <<>>, "idle",
                                       m.command, m.told, m.mode), r.acts, r.scan)
      /\ x.k \in {"P0", "P1"} =>
              q = Carried(Mach(m.capturing, m.captured, m.swallow, m.echo, m.submission,
                                            m.command, m.told, x.k = "P1"), r.acts, r.scan)
      /\ x.k = "C" => q = Start(r, c)
      /\ x.k = "D" => q = Finish(r)
      /\ x.k \notin {"E", "C", "D", "B", "P0", "P1"} => q = r
  BY ONLY <1>1, q = Event(r, c, x), EventIs
<1>3. CASE x.k = "D"
  <2>1. z = Says(y.mode, FALSE, FALSE, NoCommand, <<>>,
                 IF y.capturing THEN Append(y.ended, BlockFor(y)) ELSE y.ended, y.ok)
    BY <1>3 DEF Hear
  <2>2. q = Finish(r) /\ c[i + 1].k = "D"
    BY <1>2, <1>3
  <2> QED
    BY <2>1, <2>2, StepEnd
<1>4. CASE x.k = "C"
  <2>1. ~y.running /\ z = Says(y.mode, TRUE, y.mode, y.command, <<>>, y.ended, y.ok)
    <3>1. z = IF y.running \/ y.command = NoCommand
              THEN Says(y.mode, y.running, y.capturing, y.command, y.captured, y.ended, FALSE)
              ELSE Says(y.mode, TRUE, y.mode, y.command, <<>>, y.ended, y.ok)
      BY <1>4 DEF Hear
    <3>2. Says(y.mode, y.running, y.capturing, y.command, y.captured, y.ended, FALSE).ok = FALSE
      BY DEF Says
    <3> QED
      BY <3>1, <3>2
  <2>2. q = Start(r, c) /\ c[i + 1].k = "C"
    BY <1>2, <1>4
  <2> QED
    BY <2>1, <2>2, StepStart
<1> DEFINE Same == /\ Whole(q) /\ IsSeq(q.m.echo) /\ q.acts = r.acts /\ q.scan = r.scan
                   /\ q.m.told = r.m.told /\ q.m.captured = r.m.captured /\ q.m.capturing = r.m.capturing
           Kept == z.running = y.running /\ z.capturing = y.capturing /\ z.ended = y.ended
<1>5. ASSUME x.k \notin {"C", "D"}, Same, Kept, q.m.mode = z.mode, q.m.command = z.command,
             z.running => z.command = y.command,
             z.capturing => z.captured = IF Paints(x) THEN Append(y.captured, x) ELSE y.captured
      PROVE  InStep(q, z, c, i + 1) /\ Agrees(q, z, b, t)
  <2>1. IsSeq(y.captured)
    BY DEF HasParts
  <2>2. InStep(q, z, c, i + 1)
    <3>1. IsSeq(c) /\ i \in 0..(Len(c) - 1) /\ x = c[i + 1] /\ InStep(r, y, c, i)
      OBVIOUS
    <3> QED
      BY ONLY <1>5, <2>1, <3>1, StepAside
  <2>3. Agrees(q, z, b, t)
    BY <1>5 DEF Agrees
  <2> QED
    BY <2>2, <2>3
<1>6. CASE x.k = "E"
  <2>1. ~y.running /\ z = Says(y.mode, y.running, y.capturing, x.c, y.captured, y.ended, y.ok)
    <3>1. z = IF y.running \/ x.c = NoCommand
              THEN Says(y.mode, y.running, y.capturing, y.command, y.captured, y.ended, FALSE)
              ELSE Says(y.mode, y.running, y.capturing, x.c, y.captured, y.ended, y.ok)
      BY <1>6 DEF Hear
    <3>2. Says(y.mode, y.running, y.capturing, y.command, y.captured, y.ended, FALSE).ok = FALSE
      BY DEF Says
    <3> QED
      BY <3>1, <3>2
  <2>2. /\ z.mode = y.mode /\ z.running = y.running /\ z.capturing = y.capturing /\ z.command = x.c
        /\ z.captured = y.captured /\ z.ended = y.ended
    BY <2>1 DEF Says
  <2>3. PICK mm : mm = Mach(m.capturing, m.captured, m.swallow, m.echo, "idle", x.c, m.told, m.mode)
    OBVIOUS
  <2>4. /\ Fields(mm) /\ mm.capturing = m.capturing /\ mm.captured = m.captured /\ mm.command = x.c
        /\ mm.echo = m.echo /\ mm.told = m.told /\ mm.mode = m.mode
    BY <2>3 DEF Fields, Mach
  <2>5. q = Carried(mm, r.acts, r.scan)
    BY <1>2, <1>6, <2>3
  <2>6. Whole(q) /\ q.m = mm /\ q.acts = r.acts /\ q.scan = r.scan
    BY <2>4, <2>5, WholeOf
  <2>7. ~Paints(x)
    BY <1>6 DEF Paints
  <2>8. Same /\ Kept /\ q.m.mode = z.mode /\ q.m.command = z.command /\ ~z.running
    BY <1>1, <2>1, <2>2, <2>4, <2>6
  <2> HIDE DEF Same, Kept
  <2> QED
    BY <1>5, <1>6, <2>2, <2>7, <2>8
<1>7. CASE x.k = "B"
  <2>1. z = y /\ ~Paints(x)
    BY <1>7 DEF Hear, Paints
  <2>2. PICK mm, mt : mt = <<>> /\ mm = Mach(m.capturing, m.captured, m.mode, mt, "idle", m.command, m.told, m.mode)
    OBVIOUS
  <2>3. /\ Fields(mm) /\ mm.capturing = m.capturing /\ mm.captured = m.captured /\ mm.command = m.command
        /\ mm.echo = mt /\ mm.told = m.told /\ mm.mode = m.mode
    BY <2>2 DEF Fields, Mach
  <2>4. q = Carried(mm, r.acts, r.scan)
    BY <1>2, <1>7, <2>2
  <2>5. Whole(q) /\ q.m = mm /\ q.acts = r.acts /\ q.scan = r.scan
    BY <2>3, <2>4, WholeOf
  <2>6. Same /\ Kept /\ q.m.mode = z.mode /\ q.m.command = z.command
    BY <1>1, <2>1, <2>2, <2>3, <2>5, EmptyIsSeq
  <2> HIDE DEF Same, Kept
  <2> QED
    BY <1>5, <1>7, <2>1, <2>6
<1>8. CASE x.k \in {"P0", "P1"}
  <2>1. PICK on : on = (x.k = "P1")
    OBVIOUS
  <2>2. z = Says(on, y.running, y.capturing, y.command, y.captured, y.ended, y.ok)
    BY <1>8, <2>1 DEF Hear
  <2>3. /\ z.mode = on /\ z.running = y.running /\ z.capturing = y.capturing /\ z.command = y.command
        /\ z.captured = y.captured /\ z.ended = y.ended
    BY <2>2 DEF Says
  <2>4. PICK mm : mm = Mach(m.capturing, m.captured, m.swallow, m.echo, m.submission, m.command, m.told, on)
    OBVIOUS
  <2>5. /\ Fields(mm) /\ mm.capturing = m.capturing /\ mm.captured = m.captured /\ mm.command = m.command
        /\ mm.echo = m.echo /\ mm.told = m.told /\ mm.mode = on
    BY <2>4 DEF Fields, Mach
  <2>6. q = Carried(mm, r.acts, r.scan)
    BY <1>2, <1>8, <2>1, <2>4
  <2>7. Whole(q) /\ q.m = mm /\ q.acts = r.acts /\ q.scan = r.scan
    BY <2>5, <2>6, WholeOf
  <2>8. ~Paints(x) /\ x.k \notin {"C", "D"}
    BY <1>8 DEF Paints
  <2>9. Same /\ Kept /\ q.m.mode = z.mode /\ q.m.command = z.command
    BY <1>1, <2>3, <2>5, <2>7
  <2> HIDE DEF Same, Kept
  <2> QED
    BY <1>5, <2>3, <2>8, <2>9
<1>9. CASE x.k \notin {"E", "C", "D", "B", "P0", "P1"}
  <2>1. q = r
    BY <1>2, <1>9
  <2>2. PICK cd : cd = Append(y.captured, x)
    OBVIOUS
  <2>3. z = IF Paints(x) /\ y.capturing THEN Says(y.mode, y.running, y.capturing, y.command, cd, y.ended, y.ok)
            ELSE y
    BY <1>9, <2>2 DEF Hear
  <2>4. /\ z.mode = y.mode /\ z.running = y.running /\ z.capturing = y.capturing /\ z.command = y.command
        /\ z.captured = (IF Paints(x) /\ y.capturing THEN cd ELSE y.captured) /\ z.ended = y.ended
    BY <2>3 DEF Says
  <2>5. Same /\ Kept /\ q.m.mode = z.mode /\ q.m.command = z.command
    BY <1>1, <2>1, <2>4
  <2>6. z.capturing => z.captured = IF Paints(x) THEN Append(y.captured, x) ELSE y.captured
    BY <2>2, <2>4
  <2> HIDE DEF Same, Kept
  <2> QED
    BY <1>5, <1>9, <2>4, <2>5, <2>6
<1> QED
  BY <1>3, <1>4, <1>6, <1>7, <1>8, <1>9

-----------------------------------------------------------------------------
\* A whole chunk.

\* The machine is where the stream is.
Sync(m, x) ==
  /\ Fields(m) /\ IsTold(m.told) /\ IsSeq(m.captured) /\ IsSeq(m.echo)
  /\ m.mode = x.mode /\ m.told.running = x.running
  /\ m.capturing = x.capturing /\ m.command = x.command
  /\ x.running => m.told.command = x.command
  /\ x.capturing => Painted(m.captured) = x.captured

\* Before the events, the chunk is captured up to the first end.
LEMMA StepCaptured ==
  ASSUME NEW m, NEW x, Sync(m, x), HasParts(x), NEW c, IsSeq(c), NEW r, r = Captured(m, c)
  PROVE  InStep(r, x, c, 0) /\ r.acts = <<>> /\ r.m.told = m.told /\ r.m.swallow = m.swallow /\ r.m.echo = m.echo
         /\ r.m.submission = m.submission
<1>0. Len(c) \in Nat
  BY SeqLen
<1>1. PICK e, u, cd, mt : /\ e = NextMark(c, "D", 1) /\ u = SubSeq(c, 1, e - 1) /\ mt = <<>>
                          /\ cd = IF m.capturing THEN m.captured \o u ELSE m.captured
  OBVIOUS
<1>2. 1 \in 1..(Len(c) + 1)
  BY <1>0
<1>3. e \in 1..(Len(c) + 1)
  BY <1>1, <1>2, NextMarkFacts
<1>4. IsSeq(u) /\ Painted(u) = UntilEnd(c, 1)
  <2>1. 1 \in Nat \ {0} /\ e - 1 \in Nat /\ e - 1 <= Len(c)
    BY <1>0, <1>3
  <2>2. IsSeq(SubSeq(c, 1, e - 1))
    BY <2>1, SubSeqIsSeq
  <2> QED
    BY <1>1, <2>2 DEF UntilEnd
<1>5. PICK a, s : a = m.captured /\ s = m.captured \o u /\ IsSeq(a)
  BY DEF Sync
<1>6. IsSeq(s) /\ Painted(s) = Painted(a) \o UntilEnd(c, 1)
  BY <1>4, <1>5, PaintedConcat, SeqConcat
<1>7. cd = IF m.capturing THEN s ELSE a
  BY <1>1, <1>5
<1>8. PICK mm, sc : /\ mm = Mach(m.capturing, cd, m.swallow, m.echo, m.submission, m.command, m.told, m.mode)
                    /\ sc = IF m.capturing THEN e ELSE 1
  OBVIOUS
<1>9. r = Carried(mm, mt, sc)
  <2>1. Fields(m)
    BY DEF Sync
  <2> QED
    BY <1>1, <1>8, <2>1, CapturedIs
<1>10. /\ Fields(mm) /\ mm.capturing = m.capturing /\ mm.captured = cd /\ mm.command = m.command
       /\ mm.echo = m.echo /\ mm.told = m.told /\ mm.mode = m.mode /\ mm.swallow = m.swallow
       /\ mm.submission = m.submission
  BY <1>8 DEF Fields, Mach
<1>11. Whole(r) /\ r.m = mm /\ r.acts = mt /\ r.scan = sc
  BY <1>9, <1>10, WholeOf
<1>12. 0 + 1 = 1
  OBVIOUS
<1>13. sc \in 1..(Len(c) + 1) /\ sc <= e /\ (~m.capturing => sc <= 1)
  BY <1>0, <1>3, <1>8
<1>14. \A j \in 1..Len(c) : ~(r.scan <= j /\ j <= 0)
  BY <1>0
<1>15. IsSeq(mt) /\ IsSeq(cd)
  BY <1>1, <1>5, <1>6, <1>7, EmptyIsSeq
<1>16. /\ Fields(m) /\ IsTold(m.told) /\ IsSeq(m.captured) /\ IsSeq(m.echo)
       /\ m.mode = x.mode /\ m.told.running = x.running
       /\ m.capturing = x.capturing /\ m.command = x.command
       /\ (x.running => m.told.command = x.command)
       /\ (x.capturing => Painted(a) = x.captured)
       /\ (x.capturing => x.running)
  BY <1>5 DEF Sync, HasParts
<1>17. x.capturing => Painted(r.m.captured) = x.captured \o UntilEnd(c, 1)
  BY <1>6, <1>7, <1>10, <1>11, <1>16
<1>18. /\ Whole(r) /\ IsTold(r.m.told) /\ IsSeq(r.m.captured) /\ IsSeq(r.m.echo) /\ IsSeq(r.acts)
       /\ r.m.mode = x.mode /\ r.m.told.running = x.running
       /\ r.m.capturing = x.capturing /\ r.m.command = x.command
       /\ (x.running => r.m.told.command = x.command)
       /\ r.scan \in 1..(Len(c) + 1) /\ r.scan <= e /\ (~x.running => r.scan <= 1)
  BY <1>10, <1>11, <1>13, <1>15, <1>16
<1>19. InStep(r, x, c, 0)
  BY <1>1, <1>12, <1>14, <1>17, <1>18 DEF InStep
<1> QED
  BY <1>1, <1>10, <1>11, <1>19

\* What only concerns the echo
LEMMA StepUntouched ==
  ASSUME NEW r, NEW y, NEW c, NEW i, InStep(r, y, c, i), NEW q, Whole(q), IsSeq(q.m.echo), IsSeq(q.acts),
         q.scan = r.scan, q.m.mode = r.m.mode, q.m.capturing = r.m.capturing, q.m.captured = r.m.captured,
         q.m.command = r.m.command, q.m.told = r.m.told
  PROVE  InStep(q, y, c, i)
BY DEF InStep

\* What is held back as an echo changes neither command nor block.
LEMMA StepEchoed ==
  ASSUME NEW r, NEW y, NEW c, IsSeq(c), InStep(r, y, c, 0), NEW q, q = Echoed(r, c),
         NEW b, NEW t, Agrees(r, y, b, t)
  PROVE  InStep(q, y, c, 0) /\ Agrees(q, y, b, t)
<1>0. Len(c) \in Nat
  BY SeqLen
<1>1. PICK m, end, a, sc : m = r.m /\ end = EchoEnd(m, c) /\ a = r.acts /\ sc = r.scan
  OBVIOUS
<1>2. Whole(r) /\ IsSeq(a) /\ IsSeq(m.echo) /\ Fields(m)
  BY <1>1 DEF InStep, Whole
<1>3. /\ ~m.swallow => q = Carried(m, a \o Live(c), sc)
      /\ m.swallow /\ end <= Len(c) =>
              q = Carried(Mach(m.capturing, m.captured, FALSE, m.echo \o SubSeq(c, 1, end), "awaiting",
                                          m.command, m.told, m.mode),
                                     a \o Live(SubSeq(c, end + 1, Len(c))), sc)
      /\ m.swallow /\ ~(end <= Len(c)) /\ Len(m.echo) + Len(c) > MaxEcho =>
              q = Carried(Mach(m.capturing, m.captured, FALSE, <<>>, m.submission,
                                          m.command, m.told, m.mode), a \o Live(c), sc)
      /\ m.swallow /\ ~(end <= Len(c)) /\ ~(Len(m.echo) + Len(c) > MaxEcho) =>
              q = Carried(Mach(m.capturing, m.captured, m.swallow, m.echo \o c, m.submission,
                                          m.command, m.told, m.mode), a, sc)
  <2>1. EchoWays(q, r, c, m, end)
    BY <1>1, <1>2, EchoedIs
  <2>2. a = r.acts /\ sc = r.scan
    BY <1>1
  <2> QED
    BY ONLY <2>1, <2>2, Zenon DEF EchoWays
<1>4. ASSUME NEW mm, NEW s, Silent(s), IsSeq(mm.echo), Fields(mm),
             mm.capturing = m.capturing, mm.captured = m.captured, mm.command = m.command, mm.told = m.told,
             mm.mode = m.mode, q = Carried(mm, a \o s, sc)
      PROVE  InStep(q, y, c, 0) /\ Agrees(q, y, b, t)
  <2>1. PICK n : n = a \o s
    OBVIOUS
  <2>6. q = Carried(mm, n, sc)
    BY <1>4, <2>1
  <2>2. Whole(q) /\ q.m = mm /\ q.acts = n /\ q.scan = sc
    BY <1>4, <2>6, WholeOf
  <2>3. IsSeq(n) /\ EndedOf(n) = EndedOf(a) /\ ToldBy(t, n) = ToldBy(t, a)
    BY <1>2, <1>4, <2>1, SilentAround
  <2>4. InStep(q, y, c, 0)
    BY <1>1, <1>4, <2>2, <2>3, StepUntouched
  <2>5. Agrees(q, y, b, t)
    BY <1>1, <1>4, <2>2, <2>3 DEF Agrees
  <2> QED
    BY <2>4, <2>5
<1>5. PICK mt : mt = <<>> /\ IsSeq(mt) /\ Silent(mt)
  BY EmptyIsSeq, SilentFacts
<1>6. a \o mt = a
  BY <1>2, <1>5, EmptyIsSeq
<1>7. CASE ~m.swallow
  BY <1>2, <1>3, <1>4, <1>7, LiveIsSilent
<1>8. CASE m.swallow /\ end <= Len(c)
  <2>1. PICK o, s : o = m.echo \o SubSeq(c, 1, end) /\ s = Live(SubSeq(c, end + 1, Len(c)))
    OBVIOUS
  <2>2. IsSeq(o)
    <3>1. 1 \in 1..(Len(c) + 1)
      BY <1>0
    <3>2. end \in 1..(Len(c) + 1)
      BY <1>1, <3>1, NextMarkFacts DEF EchoEnd
    <3>3. IsSeq(SubSeq(c, 1, end))
      <4>1. 1 \in Nat \ {0} /\ end \in Nat /\ end <= Len(c)
        BY <1>0, <1>8, <3>2
      <4> QED
        BY <4>1, SubSeqIsSeq
    <3> QED
      BY <1>2, <2>1, <3>3, SeqConcat
  <2>3. PICK mm : mm = Mach(m.capturing, m.captured, FALSE, o, "awaiting", m.command, m.told, m.mode)
    OBVIOUS
  <2>4. q = Carried(mm, a \o s, sc)
    BY <1>3, <1>8, <2>1, <2>3
  <2>5. /\ mm.echo = o /\ Fields(mm) /\ mm.capturing = m.capturing /\ mm.captured = m.captured
        /\ mm.command = m.command /\ mm.told = m.told /\ mm.mode = m.mode
    BY <2>3 DEF Fields, Mach
  <2>6. Silent(s)
    BY <2>1, LiveIsSilent
  <2> QED
    BY <1>4, <2>2, <2>4, <2>5, <2>6
<1>9. CASE m.swallow /\ ~(end <= Len(c)) /\ Len(m.echo) + Len(c) > MaxEcho
  <2>1. PICK mm : mm = Mach(m.capturing, m.captured, FALSE, mt, m.submission, m.command, m.told, m.mode)
    OBVIOUS
  <2>2. q = Carried(mm, a \o Live(c), sc)
    BY <1>3, <1>5, <1>9, <2>1
  <2>3. /\ mm.echo = mt /\ Fields(mm) /\ mm.capturing = m.capturing /\ mm.captured = m.captured
        /\ mm.command = m.command /\ mm.told = m.told /\ mm.mode = m.mode
    BY <2>1 DEF Fields, Mach
  <2> QED
    BY <1>4, <1>5, <2>2, <2>3, LiveIsSilent
<1>10. CASE m.swallow /\ ~(end <= Len(c)) /\ ~(Len(m.echo) + Len(c) > MaxEcho)
  <2>1. PICK o, mm : o = m.echo \o c
                     /\ mm = Mach(m.capturing, m.captured, m.swallow, o, m.submission, m.command, m.told, m.mode)
    OBVIOUS
  <2>2. q = Carried(mm, a \o mt, sc)
    BY <1>3, <1>6, <1>10, <2>1
  <2>3. /\ mm.echo = o /\ Fields(mm) /\ mm.capturing = m.capturing /\ mm.captured = m.captured
        /\ mm.command = m.command /\ mm.told = m.told /\ mm.mode = m.mode
    BY <2>1 DEF Fields, Mach
  <2>4. IsSeq(o)
    BY <1>2, <2>1, SeqConcat
  <2> QED
    BY <1>4, <1>5, <2>2, <2>3, <2>4
<1> QED
  BY <1>7, <1>8, <1>9, <1>10

\* All the events of the chunk
LEMMA StepScanned ==
  ASSUME NEW c, IsSeq(c), NEW r, NEW x, InStep(r, x, c, 0), HasParts(x), NEW q, q = Scanned(r, c),
         NEW z, z = HeardAll(x, c), z.ok, NEW b, IsSeq(b), NEW t, Agrees(r, x, b, t)
  PROVE  InStep(q, z, c, Len(c)) /\ Agrees(q, z, b, t)
<1>0. Len(c) \in Nat
  BY SeqLen
<1>1. PICK g : /\ g[0] = r /\ q = g[Len(c)] /\ \A i \in 1..Len(c) : g[i] = Event(g[i - 1], c, c[i])
  BY ScannedSteps
<1> DEFINE Now(i) == HeardAll(x, SubSeq(c, 1, i))
<1>2. ASSUME NEW i \in Nat, i <= Len(c)
      PROVE  IsSeq(SubSeq(c, 1, i)) /\ HasParts(Now(i)) /\ Now(i).ok
  <2>0. 1 \in Nat \ {0}
    OBVIOUS
  <2>1. PICK u, v : u = SubSeq(c, 1, i) /\ v = SubSeq(c, i + 1, Len(c))
    OBVIOUS
  <2>2. IsSeq(u)
    BY <1>2, <2>0, <2>1, SubSeqIsSeq
  <2>3. IsSeq(v)
    <3>1. i + 1 \in Nat \ {0} /\ Len(c) <= Len(c)
      BY <1>0
    <3>2. PICK k : k = i + 1
      OBVIOUS
    <3>4. k \in Nat \ {0} /\ Len(c) \in Nat /\ Len(c) <= Len(c) /\ IsSeq(c)
      BY <1>0, <3>1, <3>2
    <3>3. IsSeq(SubSeq(c, k, Len(c)))
      BY ONLY <3>4, SubSeqIsSeq
    <3> QED
      BY <2>1, <3>2, <3>3
  <2>4. c = u \o v
    <3>1. 1 <= i + 1
      BY <1>2
    <3>2. SubSeq(c, 1, Len(c)) = SubSeq(c, 1, i) \o SubSeq(c, i + 1, Len(c))
      <4>1. i \in Nat /\ i <= Len(c) /\ Len(c) <= Len(c) /\ Len(c) \in Nat /\ IsSeq(c)
        BY <1>0, <1>2
      <4> QED
        BY ONLY <2>0, <3>1, <4>1, SubSeqSplit
    <3>3. SubSeq(c, 1, Len(c)) = c
      BY SubSeqWhole
    <3> QED
      BY <2>1, <3>2, <3>3
  <2>5. PICK y : y = HeardAll(x, u)
    OBVIOUS
  <2>6. HasParts(y)
    BY <2>2, <2>5, HeardParts
  <2>7. HeardAll(x, u \o v) = HeardAll(y, v)
    BY <2>2, <2>3, <2>5, HeardConcat
  <2>8. HeardAll(y, v).ok => y.ok
    BY <2>3, <2>6, HeardParts
  <2>9. y.ok
    BY <2>4, <2>7, <2>8
  <2> QED
    BY <2>1, <2>2, <2>5, <2>6, <2>9
<1>3. ASSUME NEW i \in Nat, i + 1 <= Len(c)
      PROVE  Now(i + 1) = Hear(Now(i), c[i + 1])
  <2>1. PICK u, v, k, w : u = SubSeq(c, 1, i) /\ v = SubSeq(c, i + 1, i + 1) /\ k = i + 1 /\ w = SubSeq(c, 1, i + 1)
    OBVIOUS
  <2>2. k \in 1..Len(c) /\ k \in Nat /\ 1 \in Nat \ {0} /\ 1 <= i + 1 /\ i <= k /\ k <= Len(c) /\ i <= Len(c)
    BY <1>0, <1>3, <2>1
  <2>3. SubSeq(c, 1, k) = SubSeq(c, 1, i) \o SubSeq(c, i + 1, k)
    BY <2>2, SubSeqSplit
  <2>4. SubSeq(c, k, k) = <<c[k]>>
    BY <2>2, SubSeqOne
  <2>5. IsSeq(u)
    BY <1>2, <2>1, <2>2
  <2>6. Append(u, c[k]) = u \o <<c[k]>>
    BY <2>5, SeqAppend
  <2>7. w = Append(u, c[k])
    BY <2>1, <2>3, <2>4, <2>6
  <2>8. HeardAll(x, Append(u, c[k])) = Hear(HeardAll(x, u), c[k])
    BY <2>5, HeardAppend
  <2> QED
    BY <2>1, <2>7, <2>8
<1>4. Now(0) = x
  <2>1. SubSeq(c, 1, 0) = <<>>
    <3>1. 1 \in Nat \ {0} /\ 0 \in Nat /\ 0 <= Len(c) /\ 1 > 0
      BY <1>0
    <3> QED
      BY <3>1, SubSeqIsSeq
  <2> QED
    BY <2>1, HeardNothing
<1>5. Now(Len(c)) = z
  BY SubSeqWhole
<1> DEFINE Good(i) == InStep(g[i], Now(i), c, i) /\ Agrees(g[i], Now(i), b, t)
           S == {i \in Nat : i <= Len(c) => Good(i)}
<1>6. 0 \in S
  BY <1>1, <1>4
<1>7. ASSUME NEW i \in Nat, i \in S PROVE i + 1 \in S
  <2> SUFFICES ASSUME i + 1 <= Len(c) PROVE Good(i + 1)
    OBVIOUS
  <2>1. i <= Len(c) /\ i \in 0..(Len(c) - 1) /\ i + 1 \in 1..Len(c) /\ (i + 1) - 1 = i /\ i + 1 \in Nat
    BY <1>0
  <2>2. Good(i)
    BY <1>7, <2>1
  <2>3. PICK y, w, e, f, h : /\ y = Now(i) /\ w = Now(i + 1) /\ e = c[i + 1] /\ f = g[i] /\ h = g[i + 1]
    OBVIOUS
  <2>4. HasParts(y) /\ w = Hear(y, e) /\ w.ok
    BY <1>2, <1>3, <2>1, <2>3
  <2>5. h = Event(f, c, e)
    BY <1>1, <2>1, <2>3
  <2>6. InStep(f, y, c, i) /\ Agrees(f, y, b, t)
    BY <2>2, <2>3
  <2>7. InStep(h, w, c, i + 1) /\ Agrees(h, w, b, t)
    BY ONLY IsSeq(c), IsSeq(b), <2>1, <2>3, <2>4, <2>5, <2>6, StepEvent
  <2> QED
    BY <2>3, <2>7
<1> HIDE DEF S, Good, Now
<1>8. Nat \subseteq S
  BY <1>6, <1>7, SetInduction
<1>9. Len(c) \in S
  BY <1>0, <1>8
<1>10. Good(Len(c))
  BY <1>0, <1>9 DEF S
<1> QED
  BY <1>1, <1>5, <1>10 DEF Good

\* The continuation that is told is the one the submission has come to.
Truthful(m) == m.told.continuation = (m.submission = "continuing" /\ ~m.told.running)

\* A rescued echo says nothing of the command.
LEMMA RescueIsSilent == ASSUME NEW m, NEW reply PROVE Silent(Rescue(m, reply))
<1>1. PICK e : e = Act("echo", Painted(m.echo))
  OBVIOUS
<1>2. e.do \notin {"block", "state"}
  BY <1>1 DEF Act
<1>3. Rescue(m, reply) = <<>> \/ Rescue(m, reply) = <<e>>
  BY <1>1 DEF Rescue
<1> QED
  BY <1>2, <1>3, SilentFacts

\* After the events, the continuation is settled.
LEMMA StepSettled ==
  ASSUME NEW c, IsSeq(c), NEW r, NEW z, InStep(r, z, c, Len(c)), HasParts(z), NEW reply, NEW q, q = Settled(r, reply),
         NEW b, NEW t, Agrees(r, z, b, t)
  PROVE  Sync(q.m, z) /\ IsSeq(q.acts) /\ Agrees(q, z, b, t) /\ Truthful(q.m)
<1>0. Len(c) \in Nat
  BY SeqLen
<1>1. PICK m, w, ec, su, tl, d, s, a :
        /\ m = r.m /\ w = Waits(m, reply) /\ ec = (IF Repaints(m, reply) THEN <<>> ELSE m.echo)
        /\ su = After(m, reply) /\ tl = (IF w = m.told.continuation THEN m.told ELSE Continued(m.told, w))
        /\ s = Rescue(m, reply) /\ a = r.acts /\ d = s \o a
  OBVIOUS
<1>2. Whole(r) /\ IsSeq(a) /\ IsSeq(m.echo) /\ IsTold(m.told) /\ IsSeq(m.captured)
  BY <1>1 DEF InStep
<1>3. PICK mm, ac : /\ mm = Mach(m.capturing, m.captured, m.swallow, ec, su, m.command, tl, m.mode)
                    /\ ac = IF w = m.told.continuation THEN d ELSE Append(d, State(Continued(m.told, w)))
  OBVIOUS
<1>4. q = Carried(mm, ac, r.scan)
  <2>1. SettledTo(q, r, m, reply)
    BY <1>1, <1>2, SettledIs
  <2> QED
    BY ONLY <1>1, <1>3, <2>1, Zenon DEF SettledTo
<1>5. /\ mm.echo = ec /\ Fields(mm) /\ mm.capturing = m.capturing /\ mm.captured = m.captured
      /\ mm.command = m.command /\ mm.told = tl /\ mm.mode = m.mode /\ mm.submission = su
  BY <1>3 DEF Fields, Mach
<1>6. Whole(q) /\ q.m = mm /\ q.acts = ac
  BY <1>4, <1>5, WholeOf
<1>7. IsSeq(d) /\ EndedOf(d) = EndedOf(a) /\ ToldBy(t, d) = ToldBy(t, a)
  <2>1. Silent(s)
    BY <1>1, RescueIsSilent
  <2> QED
    BY <1>1, <1>2, <2>1, SilentAround
<1>8. PICK con : con = Continued(m.told, w)
  OBVIOUS
<1>9. IsTold(con) /\ con.running = m.told.running /\ con.command = m.told.command /\ con.continuation = w
  BY <1>2, <1>8 DEF Continued, IsTold
<1>10. PICK e : e = Append(d, State(con))
  OBVIOUS
<1>11. IsSeq(e) /\ EndedOf(e) = EndedOf(d) /\ ToldBy(t, e) = con
  BY <1>7, <1>10, AnnouncedFacts
<1>12. IsSeq(ac) /\ EndedOf(ac) = EndedOf(a) /\ ToldBy(t, ac) = tl
  <2>1. m.told = ToldBy(t, a)
    BY <1>1 DEF Agrees
  <2> QED
    BY <1>1, <1>3, <1>7, <1>8, <1>10, <1>11, <2>1
<1>13. Agrees(q, z, b, t)
  BY <1>1, <1>5, <1>6, <1>12 DEF Agrees
<1>14. IsTold(tl) /\ tl.running = m.told.running /\ tl.command = m.told.command /\ tl.continuation = w
  BY <1>1, <1>2, <1>8, <1>9
<1>15. Truthful(q.m)
  BY <1>1, <1>5, <1>6, <1>14 DEF Truthful, Waits
<1>16. ASSUME z.capturing PROVE Painted(m.captured) = z.captured
  <2>1. Painted(m.captured) = z.captured \o UntilEnd(c, Len(c) + 1)
    BY <1>1, <1>16 DEF InStep
  <2>2. NextMark(c, "D", Len(c) + 1) = Len(c) + 1
    <3>1. Len(c) + 1 \in 1..(Len(c) + 1)
      BY <1>0
    <3>2. NextMark(c, "D", Len(c) + 1) \in (Len(c) + 1)..(Len(c) + 1)
      BY <3>1, NextMarkFacts
    <3> QED
      BY <1>0, <3>2
  <2>3. UntilEnd(c, Len(c) + 1) = Painted(SubSeq(c, Len(c) + 1, (Len(c) + 1) - 1))
    BY ONLY <2>2 DEF UntilEnd
  <2>4. PICK k, n : k = Len(c) + 1 /\ n = (Len(c) + 1) - 1
    OBVIOUS
  <2>5. k \in Nat \ {0} /\ n \in Nat /\ n <= Len(c) /\ k > n
    BY <1>0, <2>4
  <2>6. SubSeq(c, k, n) = <<>>
    BY <2>5, SubSeqIsSeq
  <2>7. UntilEnd(c, Len(c) + 1) = <<>>
    BY <2>3, <2>4, <2>6, PaintedFacts
  <2>8. z.captured \o <<>> = z.captured
    BY EmptyIsSeq DEF HasParts
  <2> QED
    BY <2>1, <2>7, <2>8
<1>17. IsSeq(ec)
  BY <1>1, <1>2, EmptyIsSeq
<1>18. /\ m.mode = z.mode /\ m.told.running = z.running /\ m.capturing = z.capturing /\ m.command = z.command
       /\ (z.running => m.told.command = z.command)
  BY <1>1 DEF InStep
<1>19. Sync(mm, z)
  BY <1>2, <1>5, <1>14, <1>16, <1>17, <1>18 DEF Sync
<1> QED
  BY <1>6, <1>12, <1>13, <1>15, <1>19

\* A chunk leaves the machine where the stream is, and reports what was heard in it.
HearsChunk(m, x, c, z, r) ==
  Sync(m, x) /\ HasParts(x) /\ IsSeq(c) /\ z = HeardAll(x, c) /\ z.ok /\ r = OnChunk(m, c)

\* The machine that took the chunk is where the stream is then.
LEMMA ChunkIsHeard ==
  ASSUME NEW m, NEW x, NEW c, NEW z, NEW r, HearsChunk(m, x, c, z, r)
  PROVE  Sync(r.m, z) /\ IsSeq(r.acts) /\ Truthful(r.m) /\ Agrees(r, z, x.ended, m.told)
<1>0. Sync(m, x) /\ HasParts(x) /\ IsSeq(c) /\ z = HeardAll(x, c) /\ z.ok /\ r = OnChunk(m, c)
  BY DEF HearsChunk
<1> USE <1>0
<1>1. PICK u, v, w, reply : u = Captured(m, c) /\ v = Echoed(u, c) /\ w = Scanned(v, c) /\ reply = Reply(m, c)
  OBVIOUS
<1>2. r = Settled(w, reply)
  BY <1>1 DEF OnChunk
<1>3. PICK b, t : b = x.ended /\ t = m.told
  OBVIOUS
<1>4. InStep(u, x, c, 0) /\ u.acts = <<>> /\ u.m.told = t
  BY <1>1, <1>3, StepCaptured
<1>5. Agrees(u, x, b, t)
  <2>1. b \o <<>> = b
    BY <1>3, EmptyIsSeq DEF HasParts
  <2>2. ToldBy(t, <<>>) = t
    BY EmptyIsSeq, ToldFacts
  <2> QED
    BY <1>3, <1>4, <2>1, <2>2, EndedFacts DEF Agrees
<1>6. InStep(v, x, c, 0) /\ Agrees(v, x, b, t)
  BY <1>1, <1>4, <1>5, StepEchoed
<1>7. IsSeq(b)
  BY <1>3 DEF HasParts
<1>8. InStep(w, z, c, Len(c)) /\ Agrees(w, z, b, t)
  BY <1>1, <1>6, <1>7, StepScanned
<1>9. HasParts(z)
  BY HeardParts
<1>10. Sync(r.m, z) /\ IsSeq(r.acts) /\ Agrees(r, z, b, t) /\ Truthful(r.m)
  BY <1>2, <1>8, <1>9, StepSettled
<1> QED
  BY <1>3, <1>10 DEF Agrees

\* The end of the stream ends the command that runs.
HearsTheEnd(m, x, z, r) ==
  /\ Sync(m, x) /\ HasParts(x) /\ r = OnEof(m)
  /\ z = Says(x.mode, FALSE, FALSE, NoCommand, <<>>,
              IF x.capturing THEN Append(x.ended, BlockFor(x)) ELSE x.ended, x.ok)

\* The machine that saw the end is where the stream is after one more mark D.
LEMMA EofIsHeard ==
  ASSUME NEW m, NEW x, NEW z, NEW r, HearsTheEnd(m, x, z, r)
  PROVE  /\ Sync(r.m, z) /\ IsSeq(r.acts) /\ r.m.told = Quiet /\ r.m.submission = "idle"
         /\ z.ended = x.ended \o EndedOf(r.acts) /\ r.m.told = ToldBy(m.told, r.acts)
<1>0. /\ Sync(m, x) /\ HasParts(x) /\ r = OnEof(m)
      /\ z = Says(x.mode, FALSE, FALSE, NoCommand, <<>>,
                  IF x.capturing THEN Append(x.ended, BlockFor(x)) ELSE x.ended, x.ok)
  BY DEF HearsTheEnd
<1> USE <1>0
<1>1. PICK mt, en, r0 : /\ mt = <<>> /\ en = IF x.capturing THEN Append(x.ended, BlockFor(x)) ELSE x.ended
                        /\ r0 = Carried(m, <<>>, 1)
  OBVIOUS
<1>2. IsSeq(mt)
  BY <1>1, EmptyIsSeq
<1>3. Whole(r0) /\ r0.m = m /\ r0.acts = mt
  BY <1>1, WholeOf DEF Sync
<1>4. r = Finish(r0)
  BY <1>1 DEF OnEof, Carried
<1>5. PICK a, ac : a = EndActs(r0) /\ ac = Append(a, State(Quiet))
  OBVIOUS
<1>6. r = Carried(Mach(FALSE, mt, m.swallow, m.echo, "idle", NoCommand, Quiet, m.mode), ac, r0.scan)
  <2>2. Finish(r0) =
           Carried(Mach(FALSE, <<>>, r0.m.swallow, r0.m.echo, "idle", NoCommand, Quiet, r0.m.mode),
                   Append(EndActs(r0), State(Quiet)), r0.scan)
    BY <1>3, FinishIs
  <2> QED
    BY <1>1, <1>3, <1>4, <1>5, <2>2
<1>7. /\ r.acts = ac /\ r.m.captured = mt /\ r.m.capturing = FALSE /\ r.m.echo = m.echo
      /\ r.m.command = NoCommand /\ r.m.told = Quiet /\ r.m.mode = m.mode /\ r.m.submission = "idle" /\ Fields(r.m)
  <2>1. PICK mm : mm = Mach(FALSE, mt, m.swallow, m.echo, "idle", NoCommand, Quiet, m.mode)
    OBVIOUS
  <2>2. /\ Fields(mm) /\ mm.capturing = FALSE /\ mm.captured = mt /\ mm.command = NoCommand /\ mm.echo = m.echo
        /\ mm.told = Quiet /\ mm.mode = m.mode /\ mm.submission = "idle"
    BY <2>1 DEF Fields, Mach
  <2>3. r = Carried(mm, ac, r0.scan)
    BY <1>6, <2>1
  <2> QED
    BY <2>2, <2>3, WholeOf
<1>8. /\ IsSeq(a)
      /\ EndedOf(a) = IF m.capturing /\ m.command # NoCommand
                      THEN Append(EndedOf(mt), BlockOf(m).with) ELSE EndedOf(mt)
  BY <1>2, <1>3, <1>5, EndActsFacts
<1>9. IsSeq(ac) /\ EndedOf(ac) = EndedOf(a) /\ ToldBy(m.told, ac) = Quiet
  BY <1>5, <1>8, AnnouncedFacts
<1>10. /\ z.mode = x.mode /\ z.running = FALSE /\ z.capturing = FALSE /\ z.command = NoCommand /\ z.captured = mt
       /\ z.ended = en
  BY <1>1 DEF Says
<1>11. IsTold(Quiet) /\ Quiet.running = FALSE
  BY DEF IsTold, Quiet
<1>12. Sync(r.m, z)
  <2>1. m.mode = x.mode /\ IsSeq(m.echo)
    BY DEF Sync
  <2> QED
    BY <1>2, <1>7, <1>10, <1>11, <2>1 DEF Sync
<1>13. z.ended = x.ended \o EndedOf(ac)
  <2>1. EndedOf(mt) = mt
    BY <1>1, EndedFacts
  <2>2. x.capturing = m.capturing /\ x.command = m.command /\ IsSeq(x.ended)
    BY DEF Sync, HasParts
  <2>3. CASE x.capturing
    <3>1. x.command # NoCommand /\ BlockOf(m).with = BlockFor(x)
      BY <2>3 DEF HasParts, Sync, BlockOf, BlockFor, Act
    <3>2. PICK e : e = BlockFor(x)
      OBVIOUS
    <3>3. EndedOf(ac) = Append(mt, e)
      BY <1>8, <1>9, <2>1, <2>2, <2>3, <3>1, <3>2
    <3>4. Append(mt, e) = <<e>>
      BY <1>1, OneIsSeq
    <3>5. Append(x.ended, e) = x.ended \o <<e>>
      BY <2>2, SeqAppend
    <3>6. z.ended = Append(x.ended, e)
      BY <1>1, <1>10, <2>3, <3>2
    <3> QED
      BY <3>3, <3>4, <3>5, <3>6
  <2>4. CASE ~x.capturing
    <3>1. EndedOf(ac) = mt /\ z.ended = x.ended
      BY <1>1, <1>8, <1>9, <1>10, <2>1, <2>2, <2>4
    <3> QED
      BY <1>1, <2>2, <3>1, EmptyIsSeq
  <2> QED
    BY <2>3, <2>4
<1> QED
  BY <1>7, <1>9, <1>12, <1>13

-----------------------------------------------------------------------------
\* What the shell did.

\* A sequence of two is a concatenation.
LEMMA TwoIsConcat == ASSUME NEW w, NEW v PROVE <<w, v>> = <<w>> \o <<v>> /\ IsSeq(<<w, v>>)
<1>1. PICK o, p, q, u : o = <<w>> /\ p = <<v>> /\ q = <<w, v>> /\ u = o \o p
  OBVIOUS
<1>2. q \in Seq({w, v})
  BY <1>1
<1>3. IsSeq(q) /\ Len(q) = 2 /\ q[1] = w /\ q[2] = v
  BY <1>1, <1>2 DEF IsSeq
<1>4. IsSeq(o) /\ Len(o) = 1 /\ o[1] = w /\ IsSeq(p) /\ Len(p) = 1 /\ p[1] = v
  BY <1>1, OneIsSeq
<1>5. /\ IsSeq(u) /\ Len(u) = Len(o) + Len(p)
      /\ \A i \in 1..(Len(o) + Len(p)) : u[i] = IF i <= Len(o) THEN o[i] ELSE p[i - Len(o)]
  BY <1>1, <1>4, SeqConcat
<1>6. Len(u) = 2 /\ \A i \in 1..2 : u[i] = q[i]
  BY <1>3, <1>4, <1>5
<1>7. u = q
  BY <1>3, <1>5, <1>6, SeqExtensional
<1> QED
  BY <1>1, <1>3, <1>7

\* Two tokens
LEMMA HeardTwo == ASSUME NEW x, NEW a, NEW b PROVE HeardAll(x, <<a, b>>) = Hear(Hear(x, a), b)
<1>1. PICK o, p : o = <<a>> /\ p = <<b>>
  OBVIOUS
<1>2. IsSeq(o) /\ IsSeq(p) /\ <<a, b>> = o \o p
  BY <1>1, OneIsSeq, TwoIsConcat
<1>3. HeardAll(x, o \o p) = HeardAll(HeardAll(x, o), p)
  BY <1>2, HeardConcat
<1> QED
  BY <1>1, <1>2, <1>3, HeardOne

\* What was heard is what the shell did: n commands, these of them in prompt mode, with
\* this output.
Recorded(s, n, wr, ran, running, capturing, command, captured) ==
  /\ \A i \in 1..Len(s) : s[i].command \in 1..n /\ s[i].bytes = wr[s[i].command]
  /\ \A i, j \in 1..Len(s) : s[i].command = s[j].command => i = j
  /\ running => command = n /\ \A i \in 1..Len(s) : s[i].command # n
  /\ capturing => captured = wr[n]
  /\ \A c : c \in ran <=> (\E i \in 1..Len(s) : s[i].command = c) \/ (capturing /\ c = n)

Faithful(y, n, wr, ran) ==
  /\ HasParts(y) /\ y.ok
  /\ Recorded(y.ended, n, wr, ran, y.running, y.capturing, y.command, y.captured)

\* A prompt, or the end of the stream, ends the command.
LEMMA FaithfulEnd ==
  ASSUME NEW y, NEW n \in Nat, NEW wr, NEW ran, Faithful(y, n, wr, ran), NEW t, t.k = "D", NEW z, z = Hear(y, t)
  PROVE  /\ Faithful(z, n, wr, ran) /\ ~z.running /\ ~z.capturing
         /\ z = Says(y.mode, FALSE, FALSE, NoCommand, <<>>,
                     IF y.capturing THEN Append(y.ended, BlockFor(y)) ELSE y.ended, y.ok)
<1>1. z = Says(y.mode, FALSE, FALSE, NoCommand, <<>>,
               IF y.capturing THEN Append(y.ended, BlockFor(y)) ELSE y.ended, y.ok)
  BY DEF Hear
<1>2. HasParts(z)
  BY HearParts DEF Faithful
<1>3. PICK mt, en, s : mt = <<>> /\ en = (IF y.capturing THEN Append(y.ended, BlockFor(y)) ELSE y.ended) /\ s = y.ended
  OBVIOUS
<1>4. /\ z.mode = y.mode /\ z.running = FALSE /\ z.capturing = FALSE /\ z.ok = y.ok /\ z.ended = en
  BY <1>1, <1>3 DEF Says
<1>5. /\ HasParts(y) /\ y.ok /\ IsSeq(s)
      /\ \A i \in 1..Len(s) : s[i].command \in 1..n /\ s[i].bytes = wr[s[i].command]
      /\ \A i, j \in 1..Len(s) : s[i].command = s[j].command => i = j
      /\ y.running => y.command = n /\ \A i \in 1..Len(s) : s[i].command # n
      /\ y.capturing => y.captured = wr[n]
      /\ \A c : c \in ran <=> (\E i \in 1..Len(s) : s[i].command = c) \/ (y.capturing /\ c = n)
  BY <1>3 DEF Faithful, HasParts, Recorded
<1>6. CASE ~y.capturing
  <2>1. Recorded(s, n, wr, ran, FALSE, FALSE, NoCommand, mt)
    BY <1>5, <1>6 DEF Recorded
  <2>2. en = s /\ z.command = NoCommand /\ z.captured = mt
    BY <1>1, <1>3, <1>6 DEF Says
  <2> QED
    BY <1>1, <1>2, <1>4, <1>5, <2>1, <2>2 DEF Faithful
<1>7. CASE y.capturing
  <2>0. y.running /\ y.command = n /\ n # 0
    BY <1>5, <1>7 DEF HasParts, NoCommand
  <2>1. PICK e : e = BlockFor(y)
    OBVIOUS
  <2>2. e.command = n /\ e.bytes = wr[n]
    BY <1>5, <1>7, <2>0, <2>1 DEF BlockFor
  <2>3. en = Append(s, e)
    BY <1>3, <1>7, <2>1
  <2>4. PICK l : l = Len(s) /\ l \in Nat
    BY <1>5, SeqLen
  <2>5. Len(en) = l + 1 /\ en[l + 1] = e /\ \A i \in 1..l : en[i] = s[i]
    BY <1>5, <2>3, <2>4, SeqAppend
  <2>6. \A i \in 1..(l + 1) : i \in 1..l \/ i = l + 1
    BY <2>4
  <2>7. \A i \in 1..l : i \in 1..(l + 1)
    BY <2>4
  <2>8. l + 1 \in 1..(l + 1)
    BY <2>4
  <2>9. \A i \in 1..(l + 1) : en[i].command \in 1..n /\ en[i].bytes = wr[en[i].command]
    <3>1. n \in 1..n
      BY <2>0
    <3> QED
      BY <1>5, <2>2, <2>4, <2>5, <2>6, <3>1
  <2>10. \A i, j \in 1..(l + 1) : en[i].command = en[j].command => i = j
    BY <1>5, <2>0, <2>2, <2>4, <2>5, <2>6
  <2>11. \A c : c \in ran <=> (\E i \in 1..(l + 1) : en[i].command = c)
    <3>1. ASSUME NEW c, c \in ran PROVE \E i \in 1..(l + 1) : en[i].command = c
      BY <1>5, <2>2, <2>4, <2>5, <2>7, <2>8, <3>1
    <3>2. ASSUME NEW i \in 1..(l + 1) PROVE en[i].command \in ran
      BY <1>5, <1>7, <2>2, <2>4, <2>5, <2>6
    <3> QED
      BY <3>1, <3>2
  <2> QED
    <3>1. Recorded(en, n, wr, ran, FALSE, FALSE, NoCommand, mt)
      BY <2>5, <2>9, <2>10, <2>11 DEF Recorded
    <3>2. z.command = NoCommand /\ z.captured = mt
      BY <1>1, <1>3 DEF Says
    <3> QED
      BY <1>1, <1>2, <1>4, <1>5, <3>1, <3>2 DEF Faithful
<1> QED
  BY <1>6, <1>7

\* The mode is nothing to the blocks.
LEMMA FaithfulMode ==
  ASSUME NEW y, NEW n, NEW wr, NEW ran, Faithful(y, n, wr, ran), NEW on \in BOOLEAN, NEW z, z = Hear(y, PromptMode(on))
  PROVE  Faithful(z, n, wr, ran) /\ z.mode = on /\ z.running = y.running /\ z.capturing = y.capturing
<1>1. PICK t : t = PromptMode(on)
  OBVIOUS
<1>2. t.k \in {"P0", "P1"} /\ (t.k = "P1") = on
  BY <1>1 DEF PromptMode, Mark
<1>3. z = Says(on, y.running, y.capturing, y.command, y.captured, y.ended, y.ok)
  BY <1>1, <1>2 DEF Hear
<1>4. HasParts(z)
  BY HearParts DEF Faithful
<1>5. /\ z.mode = on /\ z.running = y.running /\ z.capturing = y.capturing /\ z.command = y.command
      /\ z.captured = y.captured /\ z.ended = y.ended /\ z.ok = y.ok
  BY <1>3 DEF Says
<1> QED
  BY <1>4, <1>5 DEF Faithful

\* So is what is painted while no command runs.
LEMMA HearSilent ==
  ASSUME NEW y, HasParts(y), NEW t, t.k \notin {"E", "C", "D", "P0", "P1"}, ~y.running \/ ~Paints(t)
  PROVE  Hear(y, t) = y
BY DEF Hear, HasParts

\* A command starts.
LEMMA FaithfulRun ==
  ASSUME NEW y, NEW n \in Nat, NEW wr, NEW ran, Faithful(y, n, wr, ran), ~y.running,
         NEW wr2, wr2[n + 1] = <<>>, \A c \in 1..n : wr2[c] = wr[c],
         NEW ran2, ran2 = (IF y.mode THEN ran \cup {n + 1} ELSE ran),
         NEW z, z = Hear(Hear(y, CommandLine(n + 1)), Mark("C"))
  PROVE  Faithful(z, n + 1, wr2, ran2) /\ z.running
<1>1. PICK e, t, w : e = CommandLine(n + 1) /\ t = Mark("C") /\ w = Hear(y, e)
  OBVIOUS
<1>2. e.k = "E" /\ e.c = n + 1 /\ t.k = "C" /\ n + 1 # NoCommand
  BY <1>1 DEF CommandLine, Mark, NoCommand
<1>3. w = Says(y.mode, y.running, y.capturing, n + 1, y.captured, y.ended, y.ok)
  BY <1>1, <1>2 DEF Hear
<1>4. /\ w.mode = y.mode /\ w.running = y.running /\ w.command = n + 1 /\ w.ended = y.ended /\ w.ok = y.ok
  BY <1>3 DEF Says
<1>5. PICK mt : mt = <<>>
  OBVIOUS
<1>6. z = Says(y.mode, TRUE, y.mode, n + 1, mt, y.ended, y.ok)
  BY <1>1, <1>2, <1>4, <1>5 DEF Hear
<1>7. HasParts(z)
  <2>1. HasParts(w)
    BY <1>1, HearParts DEF Faithful
  <2> QED
    BY <1>1, <2>1, HearParts
<1>8. /\ z.mode = y.mode /\ z.running = TRUE /\ z.capturing = y.mode /\ z.command = n + 1
      /\ z.captured = mt /\ z.ended = y.ended /\ z.ok = y.ok
  BY <1>6 DEF Says
<1>9. PICK s, l : s = y.ended /\ l = Len(s) /\ l \in Nat
  BY SeqLen DEF Faithful, HasParts
<1>10. /\ y.ok /\ ~y.capturing
       /\ \A i \in 1..l : s[i].command \in 1..n /\ s[i].bytes = wr[s[i].command]
       /\ \A i, j \in 1..l : s[i].command = s[j].command => i = j
       /\ \A c : c \in ran <=> (\E i \in 1..l : s[i].command = c)
  BY <1>9 DEF Faithful, HasParts, Recorded
<1>11. \A i \in 1..l : s[i].command \in 1..(n + 1) /\ s[i].command # n + 1 /\ s[i].bytes = wr2[s[i].command]
  <2> SUFFICES ASSUME NEW i \in 1..l
               PROVE  s[i].command \in 1..(n + 1) /\ s[i].command # n + 1 /\ s[i].bytes = wr2[s[i].command]
    OBVIOUS
  <2>1. PICK c : c = s[i].command /\ c \in 1..n /\ s[i].bytes = wr[c]
    BY <1>10
  <2>2. wr2[c] = wr[c] /\ c \in 1..(n + 1) /\ c # n + 1
    BY <2>1
  <2> QED
    BY <2>1, <2>2
<1>12. \A c : c \in ran2 <=> (\E i \in 1..l : s[i].command = c) \/ (y.mode /\ c = n + 1)
  BY <1>10
<1>13. z.captured = wr2[n + 1]
  BY <1>5, <1>8
<1> QED
  <2>1. Recorded(s, n + 1, wr2, ran2, TRUE, y.mode, n + 1, z.captured)
    BY <1>9, <1>10, <1>11, <1>12, <1>13 DEF Recorded
  <2> QED
    BY <1>7, <1>8, <1>9, <1>10, <2>1 DEF Faithful

\* The command writes.
LEMMA FaithfulOutput ==
  ASSUME NEW y, NEW n \in Nat, NEW wr, NEW ran, Faithful(y, n, wr, ran), y.running, NEW t, t.k = "out",
         NEW wr2, wr2[n] = Append(wr[n], t), \A c \in 1..n : c # n => wr2[c] = wr[c],
         NEW z, z = Hear(y, t)
  PROVE  Faithful(z, n, wr2, ran) /\ z.running /\ z.mode = y.mode
<1>1. HasParts(z)
  BY HearParts DEF Faithful
<1>2. PICK cd : cd = Append(y.captured, t)
  OBVIOUS
<1>3. Paints(t)
  BY DEF Paints
<1>4. z = IF y.capturing THEN Says(y.mode, y.running, y.capturing, y.command, cd, y.ended, y.ok) ELSE y
  BY <1>2, <1>3 DEF Hear
<1>5. /\ z.mode = y.mode /\ z.running = y.running /\ z.capturing = y.capturing /\ z.command = y.command
      /\ z.captured = (IF y.capturing THEN cd ELSE y.captured) /\ z.ended = y.ended /\ z.ok = y.ok
  <2>1. CASE y.capturing
    <3>1. z = Says(y.mode, y.running, y.capturing, y.command, cd, y.ended, y.ok)
      BY <1>4, <2>1
    <3> QED
      BY <2>1, <3>1 DEF Says
  <2>2. CASE ~y.capturing
    BY <1>4, <2>2
  <2> QED
    BY <2>1, <2>2
<1>6. PICK s, l : s = y.ended /\ l = Len(s) /\ l \in Nat
  BY SeqLen DEF Faithful, HasParts
<1>7. /\ y.ok /\ y.command = n /\ (y.capturing => y.captured = wr[n])
      /\ \A i \in 1..l : s[i].command \in 1..n /\ s[i].bytes = wr[s[i].command] /\ s[i].command # n
      /\ \A i, j \in 1..l : s[i].command = s[j].command => i = j
      /\ \A c : c \in ran <=> (\E i \in 1..l : s[i].command = c) \/ (y.capturing /\ c = n)
  BY <1>6 DEF Faithful, Recorded
<1>8. \A i \in 1..l : s[i].bytes = wr2[s[i].command]
  <2> SUFFICES ASSUME NEW i \in 1..l PROVE s[i].bytes = wr2[s[i].command]
    OBVIOUS
  <2>1. PICK c : c = s[i].command /\ c \in 1..n /\ s[i].bytes = wr[c] /\ c # n
    BY <1>7
  <2> QED
    BY <2>1
<1>9. y.capturing => z.captured = wr2[n]
  BY <1>2, <1>5, <1>7
<1> QED
  <2>1. Recorded(s, n, wr2, ran, y.running, y.capturing, y.command, z.captured)
    BY <1>5, <1>6, <1>7, <1>8, <1>9 DEF Recorded
  <2> QED
    BY <1>1, <1>5, <1>6, <1>7, <2>1 DEF Faithful

\* What the line that is being typed shows belongs to the next command.
LEMMA FaithfulTyping ==
  ASSUME NEW y, NEW n \in Nat, NEW wr, NEW ran, Faithful(y, n, wr, ran),
         NEW wr2, \A c \in 1..n : wr2[c] = wr[c]
  PROVE  Faithful(y, n, wr2, ran)
<1>1. PICK s, l : s = y.ended /\ l = Len(s)
  OBVIOUS
<1>2. \A i \in 1..l : s[i].command \in 1..n /\ s[i].bytes = wr[s[i].command]
  BY <1>1 DEF Faithful, Recorded
<1>3. \A i \in 1..l : s[i].bytes = wr2[s[i].command]
  <2> SUFFICES ASSUME NEW i \in 1..l PROVE s[i].bytes = wr2[s[i].command]
    OBVIOUS
  <2>1. PICK c : c = s[i].command /\ c \in 1..n /\ s[i].bytes = wr[c]
    BY <1>2
  <2> QED
    BY <2>1
<1>4. y.capturing => n \in 1..n
  BY DEF Faithful, HasParts, NoCommand, Recorded
<1>5. y.capturing => y.captured = wr2[n]
  BY <1>4 DEF Faithful, Recorded
<1> QED
  BY <1>1, <1>2, <1>3, <1>5 DEF Faithful, Recorded

-----------------------------------------------------------------------------
\* The invariant: the machine, the pipe and the shell agree.

ShellRec(at, mode, n, toggles, ran, ahead) ==
  [at |-> at, mode |-> mode, commands |-> n, toggles |-> toggles, ran |-> ran, ahead |-> ahead]

ShellIsTyped ==
  /\ shell = ShellRec(shell.at, shell.mode, shell.commands, shell.toggles, shell.ran, shell.ahead)
  /\ shell.at \in {"start", "input", "read", "more", "run", "done", "gone"}
  /\ shell.mode \in BOOLEAN /\ shell.commands \in Nat /\ shell.commands <= MaxCommands
  /\ shell.at \in {"read", "more"} => shell.commands < MaxCommands
  /\ written = [c \in 1..MaxCommands |-> written[c]]
  /\ IsSeq(pipe)

EmitterIsTyped ==
  /\ IsSeq(acts) /\ IsSeq(blocks)
  /\ emitter \in {"receive", "report", "last words", "over"}
  /\ emitter \in {"receive", "over"} => acts = <<>>
  /\ emitter \in {"last words", "over"} => shell.at = "gone" /\ pipe = <<>> /\ machine.told = Quiet
  /\ inherited # NotStarting => emitter = "over"
  /\ machine.told = ToldBy(front, acts)
  /\ Truthful(machine)

Fits(y, at, mode) ==
  /\ at = "run" => y.running
  /\ at \in {"start", "input", "read", "more", "done"} => ~y.running
  /\ at \in {"input", "read", "more", "done"} => y.mode = mode

TrueTo(y)  == Faithful(y, shell.commands, written, shell.ran) /\ Fits(y, shell.at, shell.mode)
HearsAs(x) == Sync(machine, x) /\ HasParts(x) /\ x.ended = blocks \o EndedOf(acts)

\* The machine is somewhere in the stream, and what is still to be read makes it what the
\* shell did.
StreamInv ==
  /\ ShellIsTyped /\ EmitterIsTyped
  /\ \E x : HearsAs(x) /\ TrueTo(HeardAll(x, pipe))

-----------------------------------------------------------------------------
\* A step of the shell keeps the invariant where what it writes says what it does.
LEMMA ShellKeeps ==
  ASSUME StreamInv, UNCHANGED <<core, told, views, inherited, count, raced>>, shell.at # "gone",
         NEW tokens, IsSeq(tokens), pipe' = pipe \o tokens, ShellIsTyped',
         \A y : TrueTo(y) => /\ Faithful(HeardAll(y, tokens), shell'.commands, written', shell'.ran)
                             /\ Fits(HeardAll(y, tokens), shell'.at, shell'.mode)
  PROVE  StreamInv'
<1>1. PICK x : HearsAs(x) /\ TrueTo(HeardAll(x, pipe))
  BY DEF StreamInv
<1>2. machine' = machine /\ acts' = acts /\ emitter' = emitter /\ front' = front /\ blocks' = blocks /\ inherited' = inherited
  BY DEF core, told
<1>3. EmitterIsTyped'
  <2>1. EmitterIsTyped
    BY DEF StreamInv
  <2> QED
    BY <1>2, <2>1 DEF EmitterIsTyped
<1>4. Sync(machine, x)' /\ HasParts(x)' /\ x.ended = blocks' \o EndedOf(acts')
  BY <1>1, <1>2 DEF HearsAs
<1>5. PICK y, p : y = HeardAll(x, pipe) /\ p = pipe'
  OBVIOUS
<1>6. HeardAll(x, p) = HeardAll(y, tokens)
  <2>1. IsSeq(pipe)
    BY DEF StreamInv, ShellIsTyped
  <2>2. HeardAll(x, pipe \o tokens) = HeardAll(HeardAll(x, pipe), tokens)
    BY <2>1, HeardConcat
  <2> QED
    BY <1>5, <2>2
<1>7. /\ Faithful(HeardAll(x, pipe'), shell'.commands, written', shell'.ran)
      /\ Fits(HeardAll(x, pipe'), shell'.at, shell'.mode)
  BY <1>1, <1>5, <1>6
<1>8. HearsAs(x)'
  BY <1>4 DEF HearsAs
<1>9. TrueTo(HeardAll(x, pipe))'
  BY <1>7 DEF TrueTo
<1> QED
  BY <1>3, <1>8, <1>9 DEF StreamInv

\* PS1 paints nothing that counts.
LEMMA PromptTail ==
  ASSUME NEW y, HasParts(y), ~y.running, NEW n
  PROVE  /\ HeardAll(y, <<Mark("B")>>) = y /\ IsSeq(<<Mark("B")>>)
         /\ HeardAll(y, <<Glyph("prompt", NoCommand, n), Mark("B")>>) = y
         /\ IsSeq(<<Glyph("prompt", NoCommand, n), Mark("B")>>)
<1>1. PICK b, g : b = Mark("B") /\ g = Glyph("prompt", NoCommand, n)
  OBVIOUS
<1>2. b.k = "B" /\ g.k = "prompt"
  BY <1>1 DEF Mark, Glyph
<1>3. Hear(y, b) = y /\ Hear(y, g) = y
  BY <1>2, HearSilent
<1>4. HeardAll(y, <<b>>) = y /\ HeardAll(y, <<g, b>>) = y
  BY <1>3, HeardOne, HeardTwo
<1>5. IsSeq(<<b>>) /\ IsSeq(<<g, b>>)
  BY OneIsSeq, TwoIsConcat
<1> QED
  BY <1>1, <1>4, <1>5

\* What PS1 adds to what is written
LEMMA Ps1Writes ==
  ASSUME NEW mode, NEW then, IsSeq(then), Ps1(mode, then)
  PROVE  /\ UNCHANGED <<core, told, views, inherited, count, raced>>
         /\ \E tail : /\ IsSeq(tail) /\ IsSeq(then \o tail) /\ pipe' = pipe \o (then \o tail)
                      /\ \A y : HasParts(y) /\ ~y.running => HeardAll(y, tail) = y
<1>1. CASE mode
  <2>1. PICK b : b = <<Mark("B")>>
    OBVIOUS
  <2>2. Writes(then \o b)
    BY <1>1, <2>1 DEF Ps1
  <2>3. IsSeq(b)
    BY <2>1, OneIsSeq
  <2>4. \A y : HasParts(y) /\ ~y.running => HeardAll(y, b) = y
    BY <2>1, PromptTail
  <2>5. IsSeq(then \o b)
    BY <2>3, SeqConcat
  <2> QED
    BY <2>2, <2>3, <2>4, <2>5 DEF Writes
<1>2. CASE ~mode
  <2>1. PICK b : b = <<Glyph("prompt", NoCommand, made + 1), Mark("B")>>
    OBVIOUS
  <2>2. Writes(then \o b)
    BY <1>2, <2>1 DEF Ps1
  <2>3. IsSeq(b)
    BY <2>1, TwoIsConcat
  <2>4. \A y : HasParts(y) /\ ~y.running => HeardAll(y, b) = y
    BY <2>1, PromptTail
  <2>5. IsSeq(then \o b)
    BY <2>3, SeqConcat
  <2> QED
    BY <2>2, <2>3, <2>4, <2>5 DEF Writes
<1> QED
  BY <1>1, <1>2

\* `Prompt`
LEMMA PromptKeeps == ASSUME StreamInv, Prompt PROVE StreamInv'
<1>1. PICK th : th = <<Mark("D"), PromptMode(shell.mode)>>
  OBVIOUS
<1>2. IsSeq(th)
  BY <1>1, TwoIsConcat
<1>3. Ps1(shell.mode, th) /\ shell' = [shell EXCEPT !.at = "input"] /\ written' = written
  BY <1>1 DEF Prompt, Goes
<1>4. UNCHANGED <<core, told, views, inherited, count, raced>>
  BY <1>2, <1>3, Ps1Writes
<1>5. PICK tail : /\ IsSeq(tail) /\ IsSeq(th \o tail) /\ pipe' = pipe \o (th \o tail)
                  /\ \A y : HasParts(y) /\ ~y.running => HeardAll(y, tail) = y
  BY <1>2, <1>3, Ps1Writes
<1>6. ShellIsTyped
  BY DEF StreamInv
<1>7. PICK tokens : tokens = th \o tail
  OBVIOUS
<1>8. IsSeq(tokens) /\ pipe' = pipe \o tokens
  BY <1>5, <1>7
<1>9. IsSeq(pipe')
  BY <1>6, <1>8, SeqConcat DEF ShellIsTyped
<1>10. /\ shell'.at = "input" /\ shell'.mode = shell.mode /\ shell'.commands = shell.commands /\ shell'.ran = shell.ran
       /\ shell' = ShellRec(shell'.at, shell'.mode, shell'.commands, shell'.toggles, shell'.ran, shell'.ahead)
  BY <1>3, <1>6 DEF ShellIsTyped, ShellRec
<1>11. ShellIsTyped'
  BY <1>3, <1>6, <1>9, <1>10 DEF ShellIsTyped
<1>12. ASSUME NEW y, TrueTo(y)
       PROVE  /\ Faithful(HeardAll(y, tokens), shell'.commands, written', shell'.ran)
              /\ Fits(HeardAll(y, tokens), shell'.at, shell'.mode)
  <2>1. PICK d, p, z, w, n : /\ d = Mark("D") /\ p = PromptMode(shell.mode) /\ z = Hear(y, d) /\ w = Hear(z, p)
                             /\ n = shell.commands
    OBVIOUS
  <2>2. d.k = "D" /\ n \in Nat /\ shell.mode \in BOOLEAN
    BY <1>6, <2>1 DEF Mark, ShellIsTyped
  <2>3. Faithful(y, n, written, shell.ran)
    BY <1>12, <2>1 DEF TrueTo
  <2>4. Faithful(z, n, written, shell.ran) /\ ~z.running
    BY <2>1, <2>2, <2>3, FaithfulEnd
  <2>5. Faithful(w, n, written, shell.ran) /\ w.mode = shell.mode /\ w.running = z.running
    BY <2>1, <2>2, <2>4, FaithfulMode
  <2>6. HeardAll(y, th) = w
    BY <1>1, <2>1, HeardTwo
  <2>7. HeardAll(y, th \o tail) = HeardAll(w, tail)
    BY <1>2, <1>5, <2>6, HeardConcat
  <2>8. HeardAll(w, tail) = w
    BY <1>5, <2>4, <2>5 DEF Faithful
  <2>9. HeardAll(y, tokens) = w
    BY <1>7, <2>7, <2>8
  <2> QED
    BY <1>3, <1>10, <2>1, <2>4, <2>5, <2>9 DEF Fits
<1>13. shell.at # "gone"
  BY DEF Prompt
<1> QED
  BY <1>4, <1>8, <1>11, <1>12, <1>13, ShellKeeps

\* `Toggle`
LEMMA ToggleKeeps == ASSUME StreamInv, Toggle PROVE StreamInv'
<1>1. PICK on, th : on = ~shell.mode /\ th = <<PromptMode(~shell.mode)>>
  OBVIOUS
<1>2. IsSeq(th)
  BY <1>1, OneIsSeq
<1>3. Ps1(on, th) /\ shell' = [shell EXCEPT !.mode = ~@, !.toggles = @ + 1] /\ written' = written /\ shell.at = "input"
  BY <1>1 DEF Toggle, At
<1>4. UNCHANGED <<core, told, views, inherited, count, raced>>
  BY <1>2, <1>3, Ps1Writes
<1>5. PICK tail : /\ IsSeq(tail) /\ IsSeq(th \o tail) /\ pipe' = pipe \o (th \o tail)
                  /\ \A y : HasParts(y) /\ ~y.running => HeardAll(y, tail) = y
  BY <1>2, <1>3, Ps1Writes
<1>6. ShellIsTyped
  BY DEF StreamInv
<1>7. PICK tokens : tokens = th \o tail
  OBVIOUS
<1>8. IsSeq(tokens) /\ pipe' = pipe \o tokens
  BY <1>5, <1>7
<1>9. IsSeq(pipe')
  BY <1>6, <1>8, SeqConcat DEF ShellIsTyped
<1>10. /\ shell'.at = "input" /\ shell'.mode = on /\ shell'.commands = shell.commands /\ shell'.ran = shell.ran
       /\ shell' = ShellRec(shell'.at, shell'.mode, shell'.commands, shell'.toggles, shell'.ran, shell'.ahead)
       /\ on \in BOOLEAN
  <2>1. PICK k : k = shell.toggles + 1
    OBVIOUS
  <2>2. shell' = [shell EXCEPT !.mode = on, !.toggles = k]
    BY Zenon, <1>1, <1>3, <2>1
  <2>3. shell' = ShellRec(shell.at, on, shell.commands, k, shell.ran, shell.ahead)
    BY <1>6, <2>2 DEF ShellIsTyped, ShellRec
  <2>4. on \in BOOLEAN
    BY <1>1, <1>6 DEF ShellIsTyped
  <2>5. PICK s, a, n, ra, ah : /\ s = shell' /\ a = shell.at /\ n = shell.commands /\ ra = shell.ran
                               /\ ah = shell.ahead
    OBVIOUS
  <2>6. s = ShellRec(a, on, n, k, ra, ah)
    BY <2>3, <2>5
  <2>7. /\ s.at = a /\ s.mode = on /\ s.commands = n /\ s.ran = ra
        /\ s = ShellRec(s.at, s.mode, s.commands, s.toggles, s.ran, s.ahead)
    BY ONLY <2>6 DEF ShellRec
  <2> QED
    BY <1>3, <2>4, <2>5, <2>7
<1>11. ShellIsTyped'
  BY <1>3, <1>6, <1>9, <1>10 DEF ShellIsTyped
<1>12. ASSUME NEW y, TrueTo(y)
       PROVE  /\ Faithful(HeardAll(y, tokens), shell'.commands, written', shell'.ran)
              /\ Fits(HeardAll(y, tokens), shell'.at, shell'.mode)
  <2>1. PICK p, w, n : p = PromptMode(on) /\ w = Hear(y, p) /\ n = shell.commands
    OBVIOUS
  <2>3. Faithful(y, n, written, shell.ran) /\ ~y.running
    BY <1>3, <1>12, <2>1 DEF TrueTo, Fits
  <2>5. Faithful(w, n, written, shell.ran) /\ w.mode = on /\ w.running = y.running
    BY <1>10, <2>1, <2>3, FaithfulMode
  <2>6. HeardAll(y, th) = w
    BY <1>1, <2>1, HeardOne
  <2>7. HeardAll(y, th \o tail) = HeardAll(w, tail)
    BY <1>2, <1>5, <2>6, HeardConcat
  <2>8. HeardAll(w, tail) = w
    BY <1>5, <2>3, <2>5 DEF Faithful
  <2>9. HeardAll(y, tokens) = w
    BY <1>7, <2>7, <2>8
  <2> QED
    BY <1>3, <1>10, <2>1, <2>3, <2>5, <2>9 DEF Fits
<1> QED
  BY <1>3, <1>4, <1>8, <1>11, <1>12, ShellKeeps

\* The shell goes on and what is heard of it stays.
LEMMA QuietKeeps ==
  ASSUME StreamInv, UNCHANGED <<core, told, views, inherited, count, raced>>, shell.at # "gone",
         NEW tokens, IsSeq(tokens), pipe' = pipe \o tokens,
         NEW to, NEW ah, shell' = ShellRec(to, shell.mode, shell.commands, shell.toggles, shell.ran, ah),
         to \in {"read", "more", "done", "run", "gone"}, to \in {"read", "more"} => shell.commands < MaxCommands,
         written' = [c \in 1..MaxCommands |-> written'[c]],
         \A y : TrueTo(y) => /\ Faithful(HeardAll(y, tokens), shell.commands, written', shell.ran)
                             /\ Fits(HeardAll(y, tokens), to, shell.mode)
  PROVE  StreamInv'
<1>1. /\ shell'.at = to /\ shell'.mode = shell.mode /\ shell'.commands = shell.commands /\ shell'.ran = shell.ran
      /\ shell' = ShellRec(shell'.at, shell'.mode, shell'.commands, shell'.toggles, shell'.ran, shell'.ahead)
  BY DEF ShellRec
<1>2. ShellIsTyped
  BY DEF StreamInv
<1>3. IsSeq(pipe')
  BY <1>2, SeqConcat DEF ShellIsTyped
<1>4. ShellIsTyped'
  BY <1>1, <1>2, <1>3 DEF ShellIsTyped
<1>5. \A y : TrueTo(y) => /\ Faithful(HeardAll(y, tokens), shell'.commands, written', shell'.ran)
                          /\ Fits(HeardAll(y, tokens), shell'.at, shell'.mode)
  BY <1>1
<1> QED
  BY <1>4, <1>5, ShellKeeps

\* A glyph of the line that is typed
LEMMA PutsTyping ==
  ASSUME StreamInv, NEW kind, kind \in {"echo", "ps2"}, NEW more, IsSeq(more), Puts(kind, Coming, more),
         \A y : HasParts(y) => HeardAll(y, more) = y
  PROVE  /\ UNCHANGED <<core, told, views, inherited, count, raced>>
         /\ written' = [c \in 1..MaxCommands |-> written'[c]]
         /\ \E tokens : /\ IsSeq(tokens) /\ pipe' = pipe \o tokens
                        /\ \A y : TrueTo(y) /\ ~y.running =>
                             HeardAll(y, tokens) = y /\ Faithful(y, shell.commands, written', shell.ran)
<1>1. PICK g, o, n, wr : /\ g = Glyph(kind, Coming, made + 1) /\ o = <<g>> /\ n = shell.commands
                         /\ wr = [written EXCEPT ![Coming] = Append(@, g)]
  OBVIOUS
<1>2. Writes(o \o more) /\ written' = wr
  BY <1>1 DEF Puts
<1>3. ShellIsTyped
  BY DEF StreamInv
<1>4. n \in Nat /\ n <= MaxCommands /\ Coming = n + 1 /\ written = [c \in 1..MaxCommands |-> written[c]]
  BY <1>1, <1>3 DEF ShellIsTyped, Coming
<1>5. /\ wr = [c \in 1..MaxCommands |-> wr[c]] /\ \A c : c # n + 1 /\ c \in 1..MaxCommands => wr[c] = written[c]
      /\ DOMAIN wr = 1..MaxCommands
  BY <1>1, <1>4
<1>6. \A c \in 1..n : wr[c] = written[c]
  <2> SUFFICES ASSUME NEW c \in 1..n PROVE wr[c] = written[c]
    OBVIOUS
  <2>1. c \in 1..MaxCommands /\ c # n + 1
    BY <1>4, PaneAssumption
  <2> QED
    BY <1>5, <2>1
<1>7. PICK tokens : tokens = o \o more
  OBVIOUS
<1>8. IsSeq(o) /\ IsSeq(tokens)
  BY <1>1, <1>7, OneIsSeq, SeqConcat
<1>9. ASSUME NEW y, TrueTo(y), ~y.running
      PROVE  HeardAll(y, tokens) = y /\ Faithful(y, n, wr, shell.ran)
  <2>1. Faithful(y, n, written, shell.ran) /\ HasParts(y)
    BY <1>1, <1>9 DEF TrueTo, Faithful
  <2>2. g.k \notin {"E", "C", "D", "P0", "P1"}
    BY <1>1 DEF Glyph
  <2>3. HeardAll(y, o) = y
    BY <1>1, <1>9, <2>1, <2>2, HeardOne, HearSilent
  <2>4. HeardAll(y, o \o more) = HeardAll(HeardAll(y, o), more)
    BY <1>8, HeardConcat
  <2>5. HeardAll(y, tokens) = y
    BY <1>7, <2>1, <2>3, <2>4
  <2>6. Faithful(y, n, wr, shell.ran)
    BY <1>4, <1>6, <2>1, FaithfulTyping
  <2> QED
    BY <2>5, <2>6
<1>10. /\ UNCHANGED <<core, told, views, inherited, count, raced>> /\ pipe' = pipe \o tokens
  BY <1>2, <1>7 DEF Writes
<1> QED
  BY <1>1, <1>2, <1>5, <1>8, <1>9, <1>10

\* A glyph that is typed, then the end of the line
LEMMA NewLineHeard ==
  /\ IsSeq(<<Mark("nl")>>) /\ \A y : HasParts(y) => HeardAll(y, <<Mark("nl")>>) = y
<1>1. PICK t : t = Mark("nl")
  OBVIOUS
<1>2. t.k = "nl" /\ ~Paints(t)
  BY <1>1 DEF Mark, Paints
<1>3. ASSUME NEW y, HasParts(y) PROVE HeardAll(y, <<t>>) = y
  BY <1>2, <1>3, HeardOne, HearSilent
<1> QED
  BY <1>1, <1>3, OneIsSeq

\* What a line that is typed changes of the shell
LEMMA TypesIs ==
  ASSUME ShellIsTyped, NEW to, Types(to)
  PROVE  /\ shell.at \in {"input", "more"}
         /\ \E ah : shell' = ShellRec(to, shell.mode, shell.commands, shell.toggles, shell.ran, ah)
<1>1. PICK ah : ah = (shell.ahead \/ (pipe # <<>>))
  OBVIOUS
<1>2. shell' = [shell EXCEPT !.at = to, !.ahead = ah]
  BY Zenon, <1>1 DEF Types
<1>3. shell' = ShellRec(to, shell.mode, shell.commands, shell.toggles, shell.ran, ah)
  BY <1>2 DEF ShellIsTyped, ShellRec
<1> QED
  BY <1>3 DEF Types

\* `Submit`
LEMMA SubmitKeeps == ASSUME StreamInv, Submit PROVE StreamInv'
<1>1. PICK nl : nl = <<Mark("nl")>>
  OBVIOUS
<1>2. Puts("echo", Coming, nl) /\ Types("read") /\ shell.commands < MaxCommands
  BY <1>1 DEF Submit
<1>3. IsSeq(nl) /\ \A y : HasParts(y) => HeardAll(y, nl) = y
  BY <1>1, NewLineHeard
<1>4. PICK k : k = "echo" /\ Puts(k, Coming, nl) /\ k \in {"echo", "ps2"}
  BY <1>2
<1>5. /\ UNCHANGED <<core, told, views, inherited, count, raced>>
      /\ written' = [c \in 1..MaxCommands |-> written'[c]]
  BY <1>3, <1>4, PutsTyping
<1>6. PICK tokens : /\ IsSeq(tokens) /\ pipe' = pipe \o tokens
                    /\ \A y : TrueTo(y) /\ ~y.running =>
                             HeardAll(y, tokens) = y /\ Faithful(y, shell.commands, written', shell.ran)
  BY <1>3, <1>4, PutsTyping
<1>7. PICK ah : shell' = ShellRec("read", shell.mode, shell.commands, shell.toggles, shell.ran, ah)
  BY <1>2, TypesIs DEF StreamInv
<1>8. shell.at \in {"input", "more"}
  BY <1>2 DEF Types
<1>9. ASSUME NEW y, TrueTo(y)
      PROVE  /\ Faithful(HeardAll(y, tokens), shell.commands, written', shell.ran)
             /\ Fits(HeardAll(y, tokens), "read", shell.mode)
  BY <1>6, <1>8, <1>9 DEF TrueTo, Fits
<1>10. PICK to : to = "read"
  OBVIOUS
<1>11. /\ shell' = ShellRec(to, shell.mode, shell.commands, shell.toggles, shell.ran, ah)
       /\ to \in {"read", "more", "done", "run", "gone"} /\ (to \in {"read", "more"} => shell.commands < MaxCommands)
       /\ shell.at # "gone"
       /\ \A y : TrueTo(y) => /\ Faithful(HeardAll(y, tokens), shell.commands, written', shell.ran)
                              /\ Fits(HeardAll(y, tokens), to, shell.mode)
  BY <1>2, <1>7, <1>8, <1>9, <1>10
<1> QED
  BY <1>5, <1>6, <1>11, QuietKeeps

\* `EmptyLine`
LEMMA EmptyLineKeeps == ASSUME StreamInv, EmptyLine PROVE StreamInv'
<1>1. PICK nl : nl = <<Mark("nl")>>
  OBVIOUS
<1>2. Writes(nl) /\ Types("done") /\ written' = written
  BY <1>1 DEF EmptyLine
<1>3. IsSeq(nl) /\ \A y : HasParts(y) => HeardAll(y, nl) = y
  BY <1>1, NewLineHeard
<1>5. /\ UNCHANGED <<core, told, views, inherited, count, raced>> /\ pipe' = pipe \o nl
  BY <1>2 DEF Writes
<1>6. written' = [c \in 1..MaxCommands |-> written'[c]]
  BY <1>2 DEF StreamInv, ShellIsTyped
<1>7. PICK ah : shell' = ShellRec("done", shell.mode, shell.commands, shell.toggles, shell.ran, ah)
  BY <1>2, TypesIs DEF StreamInv
<1>8. shell.at \in {"input", "more"}
  BY <1>2 DEF Types
<1>9. ASSUME NEW y, TrueTo(y)
      PROVE  /\ Faithful(HeardAll(y, nl), shell.commands, written', shell.ran)
             /\ Fits(HeardAll(y, nl), "done", shell.mode)
  <2>1. HeardAll(y, nl) = y
    BY <1>3, <1>9 DEF TrueTo, Faithful
  <2> QED
    BY <1>2, <1>8, <1>9, <2>1 DEF TrueTo, Fits
<1>10. PICK to : to = "done"
  OBVIOUS
<1>11. /\ shell' = ShellRec(to, shell.mode, shell.commands, shell.toggles, shell.ran, ah)
       /\ to \in {"read", "more", "done", "run", "gone"} /\ (to \in {"read", "more"} => shell.commands < MaxCommands)
       /\ shell.at # "gone"
       /\ \A y : TrueTo(y) => /\ Faithful(HeardAll(y, nl), shell.commands, written', shell.ran)
                              /\ Fits(HeardAll(y, nl), to, shell.mode)
  BY <1>7, <1>8, <1>9, <1>10
<1> QED
  BY <1>3, <1>5, <1>6, <1>11, QuietKeeps

\* `Continue`
LEMMA ContinueKeeps == ASSUME StreamInv, Continue PROVE StreamInv'
<1>1. PICK mt, to : mt = <<>> /\ to = "more"
  OBVIOUS
<1>2. Puts("ps2", Coming, mt) /\ shell' = [shell EXCEPT !.at = to] /\ shell.at = "read"
  BY <1>1 DEF Continue, Goes, At
<1>3. IsSeq(mt) /\ \A y : HasParts(y) => HeardAll(y, mt) = y
  BY <1>1, EmptyIsSeq, HeardNothing
<1>4. PICK k : k = "ps2" /\ Puts(k, Coming, mt) /\ k \in {"echo", "ps2"}
  BY <1>2
<1>5. /\ UNCHANGED <<core, told, views, inherited, count, raced>>
      /\ written' = [c \in 1..MaxCommands |-> written'[c]]
  BY <1>3, <1>4, PutsTyping
<1>6. PICK tokens : /\ IsSeq(tokens) /\ pipe' = pipe \o tokens
                    /\ \A y : TrueTo(y) /\ ~y.running =>
                             HeardAll(y, tokens) = y /\ Faithful(y, shell.commands, written', shell.ran)
  BY <1>3, <1>4, PutsTyping
<1>7. shell' = ShellRec(to, shell.mode, shell.commands, shell.toggles, shell.ran, shell.ahead)
  BY <1>2 DEF StreamInv, ShellIsTyped, ShellRec
<1>8. ASSUME NEW y, TrueTo(y)
      PROVE  /\ Faithful(HeardAll(y, tokens), shell.commands, written', shell.ran)
             /\ Fits(HeardAll(y, tokens), to, shell.mode)
  BY <1>1, <1>2, <1>6, <1>8 DEF TrueTo, Fits
<1>9. to \in {"read", "more", "done", "run", "gone"} /\ shell.commands < MaxCommands
  BY <1>1, <1>2 DEF StreamInv, ShellIsTyped
<1>10. PICK ah : ah = shell.ahead
  OBVIOUS
<1>11. shell' = ShellRec(to, shell.mode, shell.commands, shell.toggles, shell.ran, ah) /\ shell.at # "gone"
  BY <1>2, <1>7, <1>10
<1> QED
  BY <1>5, <1>6, <1>8, <1>9, <1>11, QuietKeeps

\* `Run`
LEMMA RunKeeps == ASSUME StreamInv, Run PROVE StreamInv'
<1>1. PICK n, ra, wr, ts : /\ n = shell.commands /\ ra = (IF shell.mode THEN shell.ran \cup {Coming} ELSE shell.ran)
                           /\ wr = [written EXCEPT ![Coming] = <<>>] /\ ts = <<CommandLine(Coming), Mark("C")>>
  OBVIOUS
<1>2. /\ shell.at = "read" /\ shell' = [shell EXCEPT !.at = "run", !.commands = Coming, !.ran = ra]
      /\ written' = wr /\ Writes(ts)
  <2>1. shell' = [shell EXCEPT !.at = "run", !.commands = Coming,
                            !.ran = IF shell.mode THEN @ \cup {Coming} ELSE @]
    BY DEF Run
  <2>2. shell' = [shell EXCEPT !.at = "run", !.commands = Coming,
                            !.ran = IF shell.mode THEN shell.ran \cup {Coming} ELSE shell.ran]
    BY <2>1, Zenon
  <2> QED
    BY <1>1, <2>2 DEF Run, At
<1>3. ShellIsTyped
  BY DEF StreamInv
<1>4. n \in Nat /\ n < MaxCommands /\ Coming = n + 1 /\ written = [c \in 1..MaxCommands |-> written[c]]
  BY <1>1, <1>2, <1>3 DEF ShellIsTyped, Coming
<1>5. /\ shell'.at = "run" /\ shell'.mode = shell.mode /\ shell'.commands = n + 1 /\ shell'.ran = ra
      /\ shell' = ShellRec(shell'.at, shell'.mode, shell'.commands, shell'.toggles, shell'.ran, shell'.ahead)
  BY <1>2, <1>3, <1>4 DEF ShellIsTyped, ShellRec
<1>6. n + 1 \in 1..MaxCommands
  BY <1>4, PaneAssumption
<1>7. /\ wr = [c \in 1..MaxCommands |-> wr[c]] /\ wr[n + 1] = <<>>
      /\ \A c \in 1..n : wr[c] = written[c]
  <2>1. \A c \in 1..n : c \in 1..MaxCommands /\ c # n + 1
    BY <1>4, PaneAssumption
  <2>2. PICK k : k = n + 1
    OBVIOUS
  <2>3. wr = [written EXCEPT ![k] = <<>>] /\ k \in 1..MaxCommands
    BY <1>1, <1>4, <1>6, <2>2
  <2>4. DOMAIN written = 1..MaxCommands
    BY <1>4
  <2>5. wr[k] = <<>> /\ DOMAIN wr = 1..MaxCommands /\ \A c \in 1..MaxCommands : c # k => wr[c] = written[c]
    BY ONLY <2>3, <2>4
  <2>6. wr = [c \in 1..MaxCommands |-> wr[c]]
    BY <2>3, <2>4
  <2> QED
    BY <2>1, <2>2, <2>5, <2>6
<1>8. IsSeq(ts)
  BY <1>1, TwoIsConcat
<1>9. UNCHANGED <<core, told, views, inherited, count, raced>> /\ pipe' = pipe \o ts
  BY <1>2 DEF Writes
<1>10. IsSeq(pipe')
  BY <1>3, <1>8, <1>9, SeqConcat DEF ShellIsTyped
<1>11. ShellIsTyped'
  BY <1>2, <1>3, <1>4, <1>5, <1>6, <1>7, <1>10 DEF ShellIsTyped
<1>12. ASSUME NEW y, TrueTo(y)
       PROVE  /\ Faithful(HeardAll(y, ts), shell'.commands, written', shell'.ran)
              /\ Fits(HeardAll(y, ts), shell'.at, shell'.mode)
  <2>1. PICK z, d : z = Hear(Hear(y, CommandLine(n + 1)), Mark("C")) /\ d = shell.ran
    OBVIOUS
  <2>2. HeardAll(y, ts) = z
    BY <1>1, <1>4, <2>1, HeardTwo
  <2>3. Faithful(y, n, written, d) /\ ~y.running /\ y.mode = shell.mode
    BY <1>1, <1>2, <1>12, <2>1 DEF TrueTo, Fits
  <2>4. ra = IF y.mode THEN d \cup {n + 1} ELSE d
    BY <1>1, <1>4, <2>1, <2>3
  <2>5. Faithful(z, n + 1, wr, ra) /\ z.running
    <3>1. /\ n \in Nat /\ wr[n + 1] = <<>> /\ \A c \in 1..n : wr[c] = written[c]
      BY <1>4, <1>7
    <3>2. Faithful(y, n, written, d) /\ ~y.running
      BY <2>3
    <3>3. z = Hear(Hear(y, CommandLine(n + 1)), Mark("C"))
      BY <2>1
    <3> QED
      BY ONLY <2>4, <3>1, <3>2, <3>3, FaithfulRun
  <2> QED
    BY <1>2, <1>5, <2>2, <2>5 DEF Fits
<1> QED
  BY <1>2, <1>8, <1>9, <1>11, <1>12, ShellKeeps

\* `Output`
LEMMA OutputKeeps == ASSUME StreamInv, Output PROVE StreamInv'
<1>1. PICK g, ts, n, wr, to : /\ g = Glyph("out", shell.commands, made + 1) /\ ts = <<g>> /\ n = shell.commands
                              /\ wr = [written EXCEPT ![n] = Append(@, g)] /\ to = "run"
  OBVIOUS
<1>2. shell.at = to /\ shell' = shell /\ written' = wr /\ Writes(ts \o <<>>)
  BY <1>1 DEF Output, At, Puts
<1>3. ShellIsTyped
  BY DEF StreamInv
<1>4. IsSeq(ts) /\ ts \o <<>> = ts
  BY <1>1, OneIsSeq, EmptyIsSeq
<1>5. UNCHANGED <<core, told, views, inherited, count, raced>> /\ pipe' = pipe \o ts
  BY <1>2, <1>4 DEF Writes
<1>6. n \in Nat /\ n <= MaxCommands /\ written = [c \in 1..MaxCommands |-> written[c]]
  BY <1>1, <1>3 DEF ShellIsTyped
<1>7. PICK old, new : old = written[n] /\ new = Append(old, g)
  OBVIOUS
<1>8. wr = [written EXCEPT ![n] = new]
  BY <1>1, <1>7
<1>9. wr = [c \in 1..MaxCommands |-> wr[c]]
  BY <1>6, <1>8
<1>10. ASSUME NEW y, TrueTo(y)
       PROVE  /\ Faithful(HeardAll(y, ts), shell.commands, written', shell.ran)
              /\ Fits(HeardAll(y, ts), to, shell.mode)
  <2>1. PICK z, d : z = Hear(y, g) /\ d = shell.ran
    OBVIOUS
  <2>2. HeardAll(y, ts) = z
    BY <1>1, <2>1, HeardOne
  <2>3. Faithful(y, n, written, d) /\ y.running
    BY <1>1, <1>2, <1>10, <2>1 DEF TrueTo, Fits
  <2>4. n \in 1..MaxCommands
    <3>1. n # 0
      BY <2>3 DEF Faithful, HasParts, Recorded, NoCommand
    <3> QED
      BY <1>6, <3>1, PaneAssumption
  <2>5. wr[n] = new /\ \A c \in 1..n : c # n => wr[c] = written[c]
    <3>1. \A c \in 1..n : c \in 1..MaxCommands
      BY <1>6, PaneAssumption
    <3>2. DOMAIN written = 1..MaxCommands
      BY <1>6
    <3> QED
      BY ONLY <1>8, <2>4, <3>1, <3>2
  <2>6. g.k = "out"
    BY <1>1 DEF Glyph
  <2>7. wr[n] = Append(written[n], g)
    BY <1>7, <2>5
  <2>8. Faithful(z, n, wr, d) /\ z.running
    <3>1. n \in Nat /\ z = Hear(y, g) /\ \A c \in 1..n : c # n => wr[c] = written[c]
      BY <1>6, <2>1, <2>5
    <3> QED
      BY ONLY <2>3, <2>6, <2>7, <3>1, FaithfulOutput
  <2> QED
    BY <1>1, <1>2, <2>1, <2>2, <2>8 DEF Fits
<1>11. PICK ah : ah = shell.ahead
  OBVIOUS
<1>12. shell' = ShellRec(to, shell.mode, shell.commands, shell.toggles, shell.ran, ah)
  BY <1>2, <1>3, <1>11 DEF ShellIsTyped
<1>13. /\ to \in {"read", "more", "done", "run", "gone"} /\ (to \in {"read", "more"} => shell.commands < MaxCommands)
       /\ shell.at # "gone" /\ written' = [c \in 1..MaxCommands |-> written'[c]]
  BY <1>1, <1>2, <1>9
<1> QED
  BY <1>4, <1>5, <1>10, <1>12, <1>13, QuietKeeps

\* `Dies`
LEMMA DiesKeeps == ASSUME StreamInv, Dies PROVE StreamInv'
<1>1. PICK mt, to : mt = <<>> /\ to = "gone"
  OBVIOUS
<1>2. /\ shell.at # "gone" /\ shell' = [shell EXCEPT !.at = to] /\ written' = written /\ pipe' = pipe
      /\ UNCHANGED <<core, told, views, inherited, count, raced>>
  BY <1>1 DEF Dies, Goes, At
<1>3. ShellIsTyped
  BY DEF StreamInv
<1>4. IsSeq(mt) /\ pipe' = pipe \o mt
  BY <1>1, <1>2, <1>3, EmptyIsSeq DEF ShellIsTyped
<1>5. PICK ah : ah = shell.ahead
  OBVIOUS
<1>6. shell' = ShellRec(to, shell.mode, shell.commands, shell.toggles, shell.ran, ah)
  BY <1>2, <1>3, <1>5 DEF ShellIsTyped, ShellRec
<1>7. written' = [c \in 1..MaxCommands |-> written'[c]]
  BY <1>2, <1>3 DEF ShellIsTyped
<1>8. to \in {"read", "more", "done", "run", "gone"} /\ (to \in {"read", "more"} => shell.commands < MaxCommands)
  BY <1>1
<1>9. ASSUME NEW y, TrueTo(y)
      PROVE  Faithful(HeardAll(y, mt), shell.commands, written', shell.ran) /\ Fits(HeardAll(y, mt), to, shell.mode)
  <2>1. HeardAll(y, mt) = y
    BY <1>1, HeardNothing
  <2> QED
    BY <1>1, <1>2, <1>9, <2>1 DEF TrueTo, Fits
<1> QED
  BY <1>2, <1>4, <1>6, <1>7, <1>8, <1>9, QuietKeeps

\* Every step of the shell keeps the invariant.
LEMMA ShellStepKeeps == ASSUME StreamInv, Shell PROVE StreamInv'
BY PromptKeeps, ToggleKeeps, SubmitKeeps, EmptyLineKeeps, ContinueKeeps, RunKeeps, OutputKeeps, DiesKeeps DEF Shell

-----------------------------------------------------------------------------
\* The emitter keeps it.

\* What is held back to be reported says the same.
LEMMA ReportsSayTheSame ==
  ASSUME NEW a, IsSeq(a), NEW t
  PROVE  IsSeq(Reports(a)) /\ EndedOf(Reports(a)) = EndedOf(a) /\ ToldBy(t, Reports(a)) = ToldBy(t, a)
<1>1. PICK k, b, s : k = {"state", "block"} /\ b = {"block"} /\ s = {"state"}
  OBVIOUS
<1>2. b \subseteq k /\ s \subseteq k
  BY <1>1
<1>3. PICK r : r = Only(k, a)
  OBVIOUS
<1>4. Only(b, r) = Only(b, a) /\ Only(s, r) = Only(s, a)
  BY <1>2, <1>3, OnlyOfOnly
<1>5. IsSeq(r) /\ Reports(a) = r
  BY <1>1, <1>3, OnlyFacts DEF Reports
<1> QED
  BY <1>1, <1>4, <1>5 DEF EndedOf, ToldBy

\* Nothing reported yet
LEMMA NothingReported ==
  ASSUME NEW t, NEW s, IsSeq(s)
  PROVE  s \o EndedOf(<<>>) = s /\ ToldBy(t, <<>>) = t
BY EndedFacts, ToldFacts, EmptyIsSeq

\* A chunk and what is left of the pipe
LEMMA ChunkSplits ==
  ASSUME NEW p, NEW k \in 1..Len(p), IsSeq(p)
  PROVE  IsSeq(SubSeq(p, 1, k)) /\ IsSeq(SubSeq(p, k + 1, Len(p))) /\ p = SubSeq(p, 1, k) \o SubSeq(p, k + 1, Len(p))
<1>1. Len(p) \in Nat /\ k \in Nat /\ k <= Len(p) /\ 1 \in Nat \ {0} /\ 1 <= k + 1 /\ Len(p) <= Len(p)
  BY SeqLen
<1>2. IsSeq(SubSeq(p, 1, k))
  BY <1>1, SubSeqIsSeq
<1>3. PICK m : m = k + 1 /\ m \in Nat \ {0}
  BY <1>1
<1>4. IsSeq(SubSeq(p, m, Len(p)))
  BY <1>1, <1>3, SubSeqIsSeq
<1>5. SubSeq(p, 1, Len(p)) = SubSeq(p, 1, k) \o SubSeq(p, k + 1, Len(p))
  <2>1. IsSeq(p)
    OBVIOUS
  <2> QED
    BY ONLY <1>1, <2>1, SubSeqSplit
<1>6. SubSeq(p, 1, Len(p)) = p
  BY SubSeqWhole
<1> QED
  BY <1>2, <1>3, <1>4, <1>5, <1>6

\* `Ingest`: the machine moves on by the chunk, and what it reports is what was heard.
LEMMA IngestKeeps == ASSUME StreamInv, Ingest PROVE StreamInv'
<1>1. PICK k, c, r :
        /\ k \in 1..Len(pipe)
        /\ c = SubSeq(pipe, 1, k) /\ r = OnChunk(machine, c)
        /\ pipe' = SubSeq(pipe, k + 1, Len(pipe)) /\ machine' = r.m /\ acts' = Reports(r.acts)
  BY DEF Ingest
<1>2. /\ emitter = "receive" /\ emitter' = (IF acts' = <<>> THEN "receive" ELSE "report")
      /\ UNCHANGED <<shell, written, front, blocks, inherited>>
  BY DEF Ingest, told
<1>3. ShellIsTyped /\ EmitterIsTyped
  BY DEF StreamInv
<1>4. PICK p : p = pipe'
  OBVIOUS
<1>5. IsSeq(c) /\ IsSeq(p) /\ pipe = c \o p
  <2>1. IsSeq(pipe)
    BY <1>3 DEF ShellIsTyped
  <2>2. PICK q, u : q = pipe /\ u = k + 1
    OBVIOUS
  <2>3. IsSeq(q) /\ k \in 1..Len(q) /\ c = SubSeq(q, 1, k) /\ p = SubSeq(q, k + 1, Len(q))
    BY <1>1, <1>4, <2>1, <2>2
  <2>4. IsSeq(c) /\ IsSeq(p) /\ q = c \o p
    BY ONLY <2>3, ChunkSplits
  <2> QED
    BY <2>2, <2>4
<1>6. PICK x : HearsAs(x) /\ TrueTo(HeardAll(x, pipe))
  BY DEF StreamInv
<1>7. acts = <<>> /\ IsSeq(blocks) /\ machine.told = ToldBy(front, acts)
  BY <1>2, <1>3 DEF EmitterIsTyped
<1>8. machine.told = front /\ x.ended = blocks /\ Sync(machine, x) /\ HasParts(x)
  BY <1>6, <1>7, NothingReported DEF HearsAs
<1>9. PICK z, y : z = HeardAll(x, c) /\ y = HeardAll(z, p)
  OBVIOUS
<1>10. HeardAll(x, pipe) = y
  <2>1. HeardAll(x, c \o p) = HeardAll(HeardAll(x, c), p)
    BY <1>5, HeardConcat
  <2> QED
    BY <1>5, <1>9, <2>1
<1>11. y.ok
  BY <1>6, <1>10 DEF TrueTo, Faithful
<1>12. HasParts(z) /\ z.ok
  <2>1. HasParts(z)
    BY <1>5, <1>8, <1>9, HeardParts
  <2> QED
    BY <1>5, <1>9, <1>11, <2>1, HeardParts
<1>13. /\ Sync(r.m, z) /\ IsSeq(r.acts) /\ Truthful(r.m)
       /\ z.ended = x.ended \o EndedOf(r.acts) /\ r.m.told = ToldBy(machine.told, r.acts)
  <2>1. PICK m : m = machine
    OBVIOUS
  <2>2. Sync(m, x) /\ HasParts(x) /\ IsSeq(c) /\ z = HeardAll(x, c) /\ z.ok /\ r = OnChunk(m, c)
    BY <1>1, <1>5, <1>8, <1>9, <1>12, <2>1
  <2>3. Sync(r.m, z) /\ IsSeq(r.acts) /\ Truthful(r.m) /\ Agrees(r, z, x.ended, m.told)
    <3>1. HearsChunk(m, x, c, z, r)
      BY ONLY <2>2 DEF HearsChunk
    <3> QED
      BY ONLY <3>1, ChunkIsHeard
  <2> QED
    BY <2>1, <2>3 DEF Agrees
<1>14. PICK a : a = acts'
  OBVIOUS
<1>15. IsSeq(a) /\ EndedOf(a) = EndedOf(r.acts) /\ ToldBy(front, a) = ToldBy(front, r.acts)
  BY <1>1, <1>13, <1>14, ReportsSayTheSame
<1>16. HearsAs(z)'
  BY <1>1, <1>2, <1>8, <1>12, <1>13, <1>14, <1>15 DEF HearsAs
<1>17. TrueTo(HeardAll(z, pipe))'
  <2>1. TrueTo(y)
    BY <1>6, <1>10
  <2>2. HeardAll(z, pipe') = y
    BY <1>4, <1>9
  <2> QED
    BY <1>2, <2>1, <2>2 DEF TrueTo
<1>18. ShellIsTyped'
  BY <1>2, <1>3, <1>4, <1>5 DEF ShellIsTyped
<1>19. EmitterIsTyped'
  <2>1. inherited = NotStarting
    BY <1>2, <1>3 DEF EmitterIsTyped
  <2>2. emitter' \in {"receive", "report"} /\ (emitter' = "receive" => acts' = <<>>)
    BY <1>2
  <2>3. machine'.told = ToldBy(front', acts')
    BY <1>1, <1>2, <1>8, <1>13, <1>14, <1>15
  <2>4. Truthful(machine)'
    BY <1>1, <1>13 DEF Truthful
  <2>5. IsSeq(acts)' /\ IsSeq(blocks)'
    BY <1>2, <1>7, <1>14, <1>15
  <2> QED
    BY <1>2, <2>1, <2>2, <2>3, <2>4, <2>5 DEF EmitterIsTyped
<1> QED
  BY <1>16, <1>17, <1>18, <1>19 DEF StreamInv

\* What is reported becomes known.
LEMMA ToldIs ==
  ASSUME Told
  PROVE  front' = ToldBy(front, acts) /\ blocks' = blocks \o EndedOf(acts) /\ acts' = <<>>
<1>1. front' = ToldBy(front, acts)
  BY DEF Told, ToldBy
<1>2. blocks' = blocks \o Withs(Only({"block"}, acts))
  BY DEF Told, Withs
<1> QED
  BY <1>1, <1>2 DEF Told, EndedOf

\* What is reported is what was still to be reported.
LEMMA TellKeeps ==
  ASSUME StreamInv, Told, UNCHANGED <<shell, pipe, written, machine, inherited>>,
         \/ emitter = "report" /\ emitter' = "receive"
         \/ emitter = "last words" /\ emitter' = "over"
  PROVE  StreamInv'
<1>1. front' = ToldBy(front, acts) /\ blocks' = blocks \o EndedOf(acts) /\ acts' = <<>>
  BY ToldIs
<1>2. PICK x : HearsAs(x) /\ TrueTo(HeardAll(x, pipe))
  BY DEF StreamInv
<1>3. ShellIsTyped /\ EmitterIsTyped
  BY DEF StreamInv
<1>4. PICK b : b = blocks'
  OBVIOUS
<1>5. IsSeq(b) /\ x.ended = b
  <2>1. x.ended = b
    BY <1>1, <1>2, <1>4 DEF HearsAs
  <2> QED
    BY <1>2, <2>1 DEF HearsAs, HasParts
<1>6. b \o EndedOf(<<>>) = b /\ ToldBy(front', <<>>) = front'
  BY <1>5, NothingReported
<1>7. HearsAs(x)'
  BY <1>1, <1>2, <1>4, <1>5, <1>6 DEF HearsAs
<1>8. TrueTo(HeardAll(x, pipe))'
  BY <1>2 DEF TrueTo
<1>9. ShellIsTyped'
  BY <1>3 DEF ShellIsTyped
<1>10. EmitterIsTyped'
  <2>1. IsSeq(acts)' /\ IsSeq(blocks)'
    BY <1>1, <1>4, <1>5, EmptyIsSeq
  <2>2. machine'.told = ToldBy(front', acts')
    BY <1>1, <1>3, <1>6 DEF EmitterIsTyped
  <2>3. inherited = NotStarting
    BY <1>3 DEF EmitterIsTyped
  <2> QED
    BY <1>1, <1>3, <2>1, <2>2, <2>3 DEF EmitterIsTyped
<1> QED
  BY <1>7, <1>8, <1>9, <1>10 DEF StreamInv

\* `Report`
LEMMA ReportKeeps == ASSUME StreamInv, Report PROVE StreamInv'
<1>1. Told /\ UNCHANGED <<shell, pipe, written, machine, inherited>> /\ emitter = "report" /\ emitter' = "receive"
  BY DEF Report, child
<1> QED
  BY <1>1, TellKeeps

\* `LastWords`
LEMMA LastWordsKeeps == ASSUME StreamInv, LastWords PROVE StreamInv'
<1>1. Told /\ UNCHANGED <<shell, pipe, written, machine, inherited>> /\ emitter = "last words" /\ emitter' = "over"
  BY DEF LastWords, child
<1> QED
  BY <1>1, TellKeeps

\* `Eof`: the end of the stream is one more mark D.
LEMMA EofKeeps == ASSUME StreamInv, Eof PROVE StreamInv'
<1>1. PICK r : r = OnEof(machine) /\ machine' = r.m /\ acts' = Reports(r.acts)
  BY DEF Eof
<1>2. /\ emitter = "receive" /\ emitter' = "last words" /\ shell.at = "gone" /\ pipe = <<>>
      /\ UNCHANGED <<shell, pipe, written, front, blocks, inherited>>
  BY DEF Eof, At, child, told
<1>3. ShellIsTyped /\ EmitterIsTyped
  BY DEF StreamInv
<1>4. PICK x : HearsAs(x) /\ TrueTo(HeardAll(x, pipe))
  BY DEF StreamInv
<1>5. acts = <<>> /\ IsSeq(blocks) /\ machine.told = ToldBy(front, acts)
  BY <1>2, <1>3 DEF EmitterIsTyped
<1>6. machine.told = front /\ x.ended = blocks /\ Sync(machine, x) /\ HasParts(x)
  BY <1>4, <1>5, NothingReported DEF HearsAs
<1>7. PICK d, z, n, ra : d = Mark("D") /\ z = Hear(x, d) /\ n = shell.commands /\ ra = shell.ran
  OBVIOUS
<1>8. Faithful(x, n, written, ra) /\ n \in Nat
  BY <1>2, <1>3, <1>4, <1>7, HeardNothing DEF TrueTo, ShellIsTyped
<1>9. d.k = "D"
  BY <1>7 DEF Mark
<1>10. /\ Faithful(z, n, written, ra)
       /\ z = Says(x.mode, FALSE, FALSE, NoCommand, <<>>,
                         IF x.capturing THEN Append(x.ended, BlockFor(x)) ELSE x.ended, x.ok)
  BY <1>7, <1>8, <1>9, FaithfulEnd
<1>11. /\ Sync(r.m, z) /\ IsSeq(r.acts) /\ r.m.told = Quiet /\ r.m.submission = "idle"
       /\ z.ended = x.ended \o EndedOf(r.acts) /\ r.m.told = ToldBy(machine.told, r.acts)
  <2>1. PICK m : m = machine
    OBVIOUS
  <2>2. Sync(m, x) /\ HasParts(x) /\ r = OnEof(m)
    BY <1>1, <1>6, <2>1
  <2>3. z = Says(x.mode, FALSE, FALSE, NoCommand, <<>>,
                 IF x.capturing THEN Append(x.ended, BlockFor(x)) ELSE x.ended, x.ok)
    BY <1>10
  <2>4. /\ Sync(r.m, z) /\ IsSeq(r.acts) /\ r.m.told = Quiet /\ r.m.submission = "idle"
        /\ z.ended = x.ended \o EndedOf(r.acts) /\ r.m.told = ToldBy(m.told, r.acts)
    <3>1. HearsTheEnd(m, x, z, r)
      BY ONLY <2>2, <2>3 DEF HearsTheEnd
    <3> QED
      BY ONLY <3>1, EofIsHeard
  <2> QED
    BY <2>1, <2>4
<1>12. PICK a : a = acts'
  OBVIOUS
<1>13. IsSeq(a) /\ EndedOf(a) = EndedOf(r.acts) /\ ToldBy(front, a) = ToldBy(front, r.acts)
  BY <1>1, <1>11, <1>12, ReportsSayTheSame
<1>14. HasParts(z)
  BY <1>10 DEF Faithful
<1>15. HearsAs(z)'
  BY <1>1, <1>2, <1>6, <1>11, <1>12, <1>13, <1>14 DEF HearsAs
<1>16. TrueTo(HeardAll(z, pipe))'
  <2>1. HeardAll(z, pipe') = z
    BY <1>2, HeardNothing
  <2>2. Faithful(z, shell'.commands, written', shell'.ran)
    BY <1>2, <1>7, <1>10
  <2>3. Fits(z, shell'.at, shell'.mode)
    BY <1>2 DEF Fits
  <2> QED
    BY <2>1, <2>2, <2>3 DEF TrueTo
<1>17. ShellIsTyped'
  BY <1>2, <1>3 DEF ShellIsTyped
<1>18. EmitterIsTyped'
  <2>1. inherited = NotStarting
    BY <1>2, <1>3 DEF EmitterIsTyped
  <2>2. machine'.told = ToldBy(front', acts') /\ machine'.told = Quiet
    BY <1>1, <1>2, <1>6, <1>11, <1>12, <1>13
  <2>3. Truthful(machine)'
    <3>1. PICK q : q = r.m
      OBVIOUS
    <3>2. q.told.continuation = FALSE /\ q.submission # "continuing"
      BY <1>11, <3>1 DEF Quiet
    <3>3. Truthful(q)
      BY <3>2 DEF Truthful
    <3> QED
      BY <1>1, <3>1, <3>3 DEF Truthful
  <2>4. IsSeq(acts)' /\ IsSeq(blocks)'
    BY <1>2, <1>5, <1>12, <1>13
  <2> QED
    BY <1>2, <2>1, <2>2, <2>3, <2>4 DEF EmitterIsTyped
<1> QED
  BY <1>15, <1>16, <1>17, <1>18 DEF StreamInv

\* Nothing else touches the stream.
LEMMA StreamStutters ==
  ASSUME StreamInv, UNCHANGED <<child, machine, emitter, acts, told>>,
         inherited' = inherited \/ emitter = "over"
  PROVE  StreamInv'
BY DEF StreamInv, ShellIsTyped, EmitterIsTyped, HearsAs, TrueTo, child, told, Truthful

\* A new machine knows nothing.
LEMMA NewFacts ==
  /\ Fields(New) /\ New.told = Quiet /\ New.captured = <<>> /\ New.echo = <<>> /\ New.mode = FALSE
  /\ New.capturing = FALSE /\ New.command = NoCommand /\ New.submission = "idle" /\ New.swallow = FALSE
  /\ IsTold(Quiet) /\ Quiet.running = FALSE /\ Truthful(New)
BY DEF New, Fields, Mach, Quiet, IsTold, Truthful

\* A new process: nothing was heard of it.
LEMMA NewIsSync ==
  ASSUME NEW s, IsSeq(s), NEW x, x = Says(FALSE, FALSE, FALSE, NoCommand, <<>>, s, TRUE)
  PROVE  Sync(New, x) /\ HasParts(x) /\ x.ended = s /\ ~x.running
<1>1. PICK mt : mt = <<>> /\ IsSeq(mt)
  BY EmptyIsSeq
<1>2. x = Says(FALSE, FALSE, FALSE, NoCommand, mt, s, TRUE)
  BY <1>1
<1>3. /\ x.mode = FALSE /\ x.running = FALSE /\ x.capturing = FALSE /\ x.command = NoCommand /\ x.captured = mt
      /\ x.ended = s /\ x.ok = TRUE
      /\ x = Says(x.mode, x.running, x.capturing, x.command, x.captured, x.ended, x.ok)
  BY <1>2 DEF Says
<1>4. HasParts(x)
  BY <1>1, <1>3 DEF HasParts
<1>5. Sync(New, x)
  BY <1>1, <1>3, NewFacts DEF Sync
<1> QED
  BY <1>3, <1>4, <1>5

\* `Respawn`: the blocks stay, the stream starts again.
LEMMA RespawnKeeps == ASSUME StreamInv, Respawn PROVE StreamInv'
<1>1. /\ inherited # NotStarting /\ inherited' = NotStarting /\ shell' = [shell EXCEPT !.at = "start"]
      /\ machine' = New /\ emitter' = "receive" /\ acts' = <<>>
      /\ UNCHANGED <<pipe, written, front, blocks>>
  BY DEF Respawn, told
<1>2. ShellIsTyped /\ EmitterIsTyped
  BY DEF StreamInv
<1>3. /\ emitter = "over" /\ acts = <<>> /\ pipe = <<>> /\ machine.told = Quiet /\ IsSeq(blocks)
      /\ machine.told = ToldBy(front, acts)
  BY <1>1, <1>2 DEF EmitterIsTyped
<1>4. PICK x : HearsAs(x) /\ TrueTo(HeardAll(x, pipe))
  BY DEF StreamInv
<1>5. front = Quiet /\ x.ended = blocks /\ Sync(machine, x) /\ HasParts(x)
  BY <1>3, <1>4, NothingReported DEF HearsAs
<1>6. ~x.running /\ ~x.capturing
  BY <1>3, <1>5 DEF Sync, HasParts, Quiet
<1>7. PICK b, z : b = blocks /\ z = Says(FALSE, FALSE, FALSE, NoCommand, <<>>, b, TRUE)
  OBVIOUS
<1>8. Sync(New, z) /\ HasParts(z) /\ z.ended = b /\ ~z.running
  BY <1>3, <1>7, NewIsSync
<1>9. z.ok /\ ~z.capturing
  BY <1>7 DEF Says
<1>10. Faithful(z, shell.commands, written, shell.ran)
  <2>1. Faithful(x, shell.commands, written, shell.ran)
    BY <1>3, <1>4, HeardNothing DEF TrueTo
  <2>2. Recorded(b, shell.commands, written, shell.ran, FALSE, FALSE, z.command, z.captured)
    BY <1>5, <1>6, <1>7, <2>1 DEF Faithful, Recorded
  <2>3. PICK n, ra : n = shell.commands /\ ra = shell.ran
    OBVIOUS
  <2>4. Recorded(b, n, written, ra, FALSE, FALSE, z.command, z.captured)
    BY <2>2, <2>3
  <2>5. z.running = FALSE /\ z.capturing = FALSE
    BY <1>7 DEF Says
  <2>6. Recorded(z.ended, n, written, ra, z.running, z.capturing, z.command, z.captured)
    BY <1>8, <2>4, <2>5
  <2>7. Faithful(z, n, written, ra)
    BY ONLY <1>8, <1>9, <2>6 DEF Faithful
  <2> QED
    BY <2>3, <2>7
<1>11. /\ shell'.at = "start" /\ shell'.mode = shell.mode /\ shell'.commands = shell.commands /\ shell'.ran = shell.ran
       /\ shell' = ShellRec(shell'.at, shell'.mode, shell'.commands, shell'.toggles, shell'.ran, shell'.ahead)
  BY <1>1, <1>2 DEF ShellIsTyped, ShellRec
<1>12. ShellIsTyped'
  BY <1>1, <1>2, <1>11 DEF ShellIsTyped
<1>13. HeardAll(z, pipe') = z
  BY <1>1, <1>3, HeardNothing
<1>14. TrueTo(HeardAll(z, pipe))'
  BY <1>1, <1>8, <1>10, <1>11, <1>13 DEF TrueTo, Fits
<1>15. b \o EndedOf(<<>>) = b /\ ToldBy(front', <<>>) = front'
  BY <1>3, <1>7, NothingReported
<1>16. HearsAs(z)'
  BY <1>1, <1>7, <1>8, <1>15 DEF HearsAs
<1>17. EmitterIsTyped'
  <2>1. machine'.told = ToldBy(front', acts')
    BY <1>1, <1>5, <1>15, NewFacts
  <2>2. Truthful(machine)'
    BY <1>1, NewFacts DEF Truthful
  <2>3. IsSeq(acts)' /\ IsSeq(blocks)'
    BY <1>1, <1>3, EmptyIsSeq
  <2> QED
    BY <1>1, <2>1, <2>2, <2>3 DEF EmitterIsTyped
<1> QED
  BY <1>12, <1>14, <1>16, <1>17 DEF StreamInv

\* At first nothing was written.
LEMMA InitStream == ASSUME Init PROVE StreamInv
<1>1. PICK mode \in BOOLEAN :
        shell = [at |-> "start", mode |-> mode, commands |-> 0, toggles |-> 0, ran |-> {}, ahead |-> FALSE]
  BY DEF Init
<1>2. /\ pipe = <<>> /\ written = [c \in 1..MaxCommands |-> <<>>] /\ machine = New /\ emitter = "receive" /\ acts = <<>>
      /\ front = Quiet /\ blocks = <<>> /\ inherited = NotStarting
  BY DEF Init
<1>3. PICK mt, z : mt = <<>> /\ IsSeq(mt) /\ z = Says(FALSE, FALSE, FALSE, NoCommand, <<>>, mt, TRUE)
  BY EmptyIsSeq
<1>4. Sync(New, z) /\ HasParts(z) /\ z.ended = mt /\ ~z.running
  BY <1>3, NewIsSync
<1>5. z.ok /\ ~z.capturing /\ Len(mt) = 0
  BY <1>3, EmptyIsSeq DEF Says
<1>6. shell.at = "start" /\ shell.mode = mode /\ shell.commands = 0 /\ shell.ran = {}
      /\ shell = ShellRec(shell.at, shell.mode, shell.commands, shell.toggles, shell.ran, shell.ahead)
  BY <1>1 DEF ShellRec
<1>7. ShellIsTyped
  <2>1. MaxCommands \in Nat
    BY PaneAssumption
  <2>2. written = [c \in 1..MaxCommands |-> written[c]]
    BY <1>2
  <2> QED
    BY <1>2, <1>3, <1>6, <2>1, <2>2 DEF ShellIsTyped
<1>8. mt \o EndedOf(<<>>) = mt /\ ToldBy(Quiet, <<>>) = Quiet
  BY <1>3, NothingReported
<1>9. EmitterIsTyped
  BY <1>2, <1>3, <1>8, NewFacts DEF EmitterIsTyped
<1>10. HearsAs(z)
  BY <1>2, <1>3, <1>4, <1>8 DEF HearsAs
<1>11. HeardAll(z, pipe) = z
  BY <1>2, HeardNothing
<1>12. Faithful(z, 0, written, {})
  <2>1. Recorded(mt, 0, written, {}, FALSE, FALSE, z.command, z.captured)
    BY <1>5 DEF Recorded
  <2> QED
    BY <1>4, <1>5, <2>1 DEF Faithful, Recorded
<1>13. TrueTo(HeardAll(z, pipe))
  BY <1>4, <1>6, <1>11, <1>12 DEF TrueTo, Fits
<1> QED
  BY <1>7, <1>9, <1>10, <1>13 DEF StreamInv

\* Every step keeps the invariant.
LEMMA NextKeepsStream == ASSUME StreamInv, [Next]_vars PROVE StreamInv'
<1>1. CASE Shell
  BY <1>1, ShellStepKeeps
<1>2. CASE Emitter
  <2>1. CASE Flush
    <3>1. UNCHANGED <<child, machine, emitter, acts, told>> /\ inherited' = inherited
      BY <2>1 DEF Flush, child, told
    <3> QED
      BY <3>1, StreamStutters
  <2> QED
    BY <1>2, <2>1, IngestKeeps, ReportKeeps, EofKeeps, LastWordsKeeps DEF Emitter
<1>3. CASE Inherit
  <2>1. UNCHANGED <<child, machine, emitter, acts, told>> /\ emitter = "over"
    BY <1>3 DEF Inherit, core, child, told
  <2> QED
    BY <2>1, StreamStutters
<1>4. CASE Respawn
  BY <1>4, RespawnKeeps
<1>5. CASE \E v \in Views : Mount(v) \/ AttachView(v) \/ Unmount(v) \/ DetachView(v)
  <2>1. UNCHANGED <<child, machine, emitter, acts, told>> /\ inherited' = inherited
    BY <1>5 DEF Mount, AttachView, Unmount, DetachView, Moves, child, told
  <2> QED
    BY <2>1, StreamStutters
<1>6. CASE \E w \in Windows : CloseWindow(w)
  <2>1. UNCHANGED <<child, machine, emitter, acts, told>> /\ inherited' = inherited
    BY <1>6 DEF CloseWindow, child, told
  <2> QED
    BY <2>1, StreamStutters
<1>7. CASE UNCHANGED vars
  <2>1. UNCHANGED <<child, machine, emitter, acts, told>> /\ inherited' = inherited
    BY <1>7 DEF vars, core, child, told
  <2> QED
    BY <2>1, StreamStutters
<1> QED
  BY <1>1, <1>2, <1>3, <1>4, <1>5, <1>6, <1>7 DEF Next

\* THEOREM 2. Whatever the shell writes and however the reader cuts it, the machine of the emitter
\* (`CaptureMachine::on_chunk`, session/capture.rs) is where the stream is: what it has reported, what it
\* will report and what is still to be read together are what the shell did.
THEOREM StreamIsHeard == Spec => []StreamInv
<1>1. Init => StreamInv
  BY InitStream
<1>2. StreamInv /\ [Next]_vars => StreamInv'
  BY NextKeepsStream
<1> QED
  BY <1>1, <1>2, PTL DEF Spec

\* The blocks are the first of those that the stream will have ended.
LEMMA BlocksComeFirst ==
  ASSUME StreamInv
  PROVE  \E y : /\ TrueTo(y) /\ IsSeq(blocks) /\ Len(blocks) <= Len(y.ended)
                /\ \A i \in 1..Len(blocks) : blocks[i] = y.ended[i]
                /\ acts = <<>> /\ pipe = <<>> =>
                     y.ended = blocks /\ y.running = machine.told.running /\ Sync(machine, y)
<1>1. PICK x, y : HearsAs(x) /\ y = HeardAll(x, pipe) /\ TrueTo(y)
  BY DEF StreamInv
<1>2. IsSeq(pipe) /\ IsSeq(acts) /\ IsSeq(blocks)
  BY DEF StreamInv, ShellIsTyped, EmitterIsTyped
<1>3. HasParts(x) /\ x.ended = blocks \o EndedOf(acts) /\ Sync(machine, x)
  BY <1>1 DEF HearsAs
<1>4. Extends(y.ended, x.ended)
  BY <1>1, <1>2, <1>3, HeardParts
<1>5. PICK v : IsSeq(v) /\ y.ended = x.ended \o v
  BY <1>4 DEF Extends
<1>6. PICK b, e, s, u : b = blocks /\ e = EndedOf(acts) /\ s = x.ended /\ u = y.ended
  OBVIOUS
<1>7. IsSeq(b) /\ IsSeq(e) /\ s = b \o e /\ u = s \o v
  BY <1>2, <1>3, <1>5, <1>6, EndedFacts
<1>8. IsSeq(s) /\ Len(s) = Len(b) + Len(e) /\ \A i \in 1..Len(b) : s[i] = b[i]
  BY <1>7, SeqConcat
<1>9. Len(u) = Len(s) + Len(v) /\ \A i \in 1..Len(s) : u[i] = s[i]
  BY <1>5, <1>7, <1>8, SeqConcat
<1>10. Len(b) \in Nat /\ Len(e) \in Nat /\ Len(v) \in Nat
  BY <1>5, <1>7, SeqLen
<1>11. Len(b) <= Len(u) /\ \A i \in 1..Len(b) : b[i] = u[i]
  BY <1>8, <1>9, <1>10
<1>12. ASSUME acts = <<>>, pipe = <<>>
       PROVE  u = b /\ y.running = machine.told.running /\ Sync(machine, y)
  <2>1. y = x
    BY <1>1, <1>12, HeardNothing
  <2>2. EndedOf(acts) = <<>>
    BY <1>12, EndedFacts
  <2>3. s = b
    BY <1>6, <1>7, <2>2, EmptyIsSeq
  <2> QED
    BY <1>3, <1>6, <2>1, <2>3 DEF Sync
<1> QED
  BY <1>1, <1>2, <1>6, <1>11, <1>12

\* The invariant implies that the blocks are those of the commands.
LEMMA StreamGivesBlocks == ASSUME StreamInv PROVE BlocksAreFaithful
<1>1. PICK y : /\ TrueTo(y) /\ IsSeq(blocks) /\ Len(blocks) <= Len(y.ended)
               /\ \A i \in 1..Len(blocks) : blocks[i] = y.ended[i]
               /\ acts = <<>> /\ pipe = <<>> =>
                    y.ended = blocks /\ y.running = machine.told.running /\ Sync(machine, y)
  BY BlocksComeFirst
<1>2. PICK s, n, ra, b : s = y.ended /\ n = shell.commands /\ ra = shell.ran /\ b = blocks
  OBVIOUS
<1>3. HasParts(y) /\ Recorded(s, n, written, ra, y.running, y.capturing, y.command, y.captured)
  BY <1>1, <1>2 DEF TrueTo, Faithful
<1>4. /\ \A i \in 1..Len(s) : s[i].bytes = written[s[i].command]
      /\ \A i, j \in 1..Len(s) : s[i].command = s[j].command => i = j
      /\ \A c : c \in ra <=> (\E i \in 1..Len(s) : s[i].command = c) \/ (y.capturing /\ c = n)
  BY <1>3 DEF Recorded
<1>5. /\ IsSeq(b) /\ Len(b) \in Nat /\ Len(s) \in Nat /\ Len(b) <= Len(s) /\ DOMAIN b = 1..Len(b)
      /\ \A i \in 1..Len(b) : b[i] = s[i] /\ i \in 1..Len(s)
  <2>1. IsSeq(s) /\ IsSeq(b)
    BY <1>1, <1>2, <1>3 DEF HasParts
  <2>2. Len(b) \in Nat /\ Len(s) \in Nat /\ DOMAIN b = 1..Len(b)
    BY <2>1, SeqLen
  <2> QED
    BY <1>1, <1>2, <2>1, <2>2
<1>6. \A i \in DOMAIN b : b[i].bytes = written[b[i].command]
  BY <1>4, <1>5
<1>7. \A i, j \in DOMAIN b : b[i].command = b[j].command => i = j
  BY <1>4, <1>5
<1>8. ASSUME pipe = <<>>, emitter = "over" \/ (emitter = "receive" /\ At("input"))
      PROVE  ra = {b[i].command : i \in DOMAIN b}
  <2>1. acts = <<>>
    BY <1>8 DEF StreamInv, EmitterIsTyped
  <2>2. s = b /\ y.running = machine.told.running
    BY <1>1, <1>2, <1>8, <2>1
  <2>3. ~y.running
    <3>1. CASE emitter = "over"
      BY <2>2, <3>1 DEF StreamInv, EmitterIsTyped, Quiet
    <3>2. CASE At("input")
      BY <1>1, <3>2 DEF TrueTo, Fits, At
    <3> QED
      BY <1>8, <3>1, <3>2
  <2>4. ~y.capturing
    BY <1>3, <2>3 DEF HasParts
  <2>5. \A c : c \in ra <=> \E i \in DOMAIN b : b[i].command = c
    BY <1>4, <1>5, <2>2, <2>4
  <2> QED
    BY <2>5
<1> QED
  BY <1>2, <1>6, <1>7, <1>8 DEF BlocksAreFaithful

\* THEOREM 3. The block of a command holds what the command wrote, nothing else, once, and a
\* command that ran in prompt mode has one (`finalize_block`, pty/mod.rs), for any number of commands,
\* glyphs and chunks.
THEOREM BlocksAreFaithfulHolds == Spec => []BlocksAreFaithful
BY StreamIsHeard, StreamGivesBlocks, PTL

-----------------------------------------------------------------------------
\* What the machine knows of a line that is typed.

\* What a line that is typed writes, by kind: its echo, its end, and what asks for the rest of it.
LineOf(at) == IF at = "more" THEN <<"echo", "nl", "ps2">> ELSE <<"echo", "nl">>

\* d tokens of the line were read, the others are in p.
Left(p, at, d) == Len(p) + d = Len(LineOf(at)) /\ \A i \in 1..Len(p) : p[i].k = LineOf(at)[d + i]

\* What the machine that read d tokens of a line makes of it
Saw(m, d) ==
  /\ ~m.mode => m.submission = "idle" /\ ~m.swallow
  /\ m.mode =>
       \/ m.submission = "continuing" /\ ~m.swallow
       \/ d = 0 /\ m.submission = "idle" /\ m.swallow /\ m.echo = <<>>
       \/ d = 1 /\ m.submission = "idle" /\ m.swallow
       \/ d = 2 /\ m.submission = "awaiting" /\ ~m.swallow

\* The machine that saw the prompt
Ready(m) == m.submission = "idle" /\ m.swallow = m.mode /\ m.echo = <<>>

\* Every event leaves a step whole.
LEMMA EventWhole == ASSUME NEW r, Whole(r), NEW c, NEW t PROVE Whole(Event(r, c, t))
<1>1. PICK m, q : m = r.m /\ q = Event(r, c, t) /\ Fields(m)
  BY DEF Whole
<1>2. ASSUME NEW a, NEW b, NEW s, NEW e, NEW f, NEW g, NEW h, NEW l, NEW ac, NEW sc,
             q = Carried(Mach(a, b, s, e, f, g, h, l), ac, sc)
      PROVE  Whole(q)
  <2>1. PICK mm : mm = Mach(a, b, s, e, f, g, h, l)
    OBVIOUS
  <2>2. Fields(mm)
    BY <2>1, FieldsOf
  <2> QED
    BY <1>2, <2>1, <2>2, WholeOf
<1>3. CASE t.k = "E"
  <2>1. q = Carried(Mach(m.capturing, m.captured, m.swallow, m.echo, "idle", t.c, m.told, m.mode), r.acts, r.scan)
    BY <1>1, <1>3, EventIs
  <2> QED
    BY <1>1, <1>2, <2>1
<1>4. CASE t.k = "B"
  <2>1. q = Carried(Mach(m.capturing, m.captured, m.mode, <<>>, "idle", m.command, m.told, m.mode), r.acts, r.scan)
    BY <1>1, <1>4, EventIs
  <2> QED
    BY <1>1, <1>2, <2>1
<1>5. CASE t.k \in {"P0", "P1"}
  <2>1. q = Carried(Mach(m.capturing, m.captured, m.swallow, m.echo, m.submission,
                         m.command, m.told, t.k = "P1"), r.acts, r.scan)
    BY <1>1, <1>5, EventIs
  <2> QED
    BY <1>1, <1>2, <2>1
<1>6. CASE t.k = "C"
  <2>1. q = Start(r, c)
    BY <1>1, <1>6, EventIs
  <2>2. q = Carried(Mach(r.m.mode, IF r.m.mode THEN SubSeq(c, StartAt(r, c), StartEnd(r, c) - 1) ELSE <<>>,
                         FALSE, <<>>, "idle", r.m.command, Runs(r.m.command), r.m.mode),
                    Append(StartActs(r, c), State(Runs(r.m.command))), StartEnd(r, c))
    BY <2>1, StartIs
  <2> QED
    BY <1>1, <1>2, <2>2
<1>7. CASE t.k = "D"
  <2>1. q = Finish(r)
    BY <1>1, <1>7, EventIs
  <2>2. q = Carried(Mach(FALSE, <<>>, r.m.swallow, r.m.echo, "idle", NoCommand, Quiet, r.m.mode),
                    Append(EndActs(r), State(Quiet)), r.scan)
    BY <2>1, FinishIs
  <2> QED
    BY <1>1, <1>2, <2>2
<1>8. CASE t.k \notin {"E", "C", "D", "B", "P0", "P1"}
  <2>1. q = r
    BY <1>1, <1>8, EventIs
  <2> QED
    BY <1>1, <2>1
<1> QED
  BY <1>1, <1>3, <1>4, <1>5, <1>6, <1>7, <1>8

\* The events of a chunk: whole after each; none in what a line writes; after a mark B, ready.
LEMMA ScanFacts ==
  ASSUME NEW c, IsSeq(c), NEW r, Whole(r), NEW q, q = Scanned(r, c)
  PROVE  /\ (\A i \in 1..Len(c) : c[i].k \in {"echo", "nl", "ps2"}) => q = r
         /\ c # <<>> /\ c[Len(c)].k = "B" => Whole(q) /\ Ready(q.m)
<1>0. Len(c) \in Nat /\ (c = <<>> <=> Len(c) = 0)
  BY SeqLen
<1>1. PICK g : /\ g[0] = r /\ q = g[Len(c)] /\ \A i \in 1..Len(c) : g[i] = Event(g[i - 1], c, c[i])
  BY ScannedSteps
<1>2. ASSUME \A i \in 1..Len(c) : c[i].k \in {"echo", "nl", "ps2"}
      PROVE  q = r
  <2> DEFINE S == {i \in Nat : i <= Len(c) => g[i] = r}
  <2>1. 0 \in S
    BY <1>1
  <2>2. ASSUME NEW i \in Nat, i \in S PROVE i + 1 \in S
    <3> SUFFICES ASSUME i + 1 <= Len(c) PROVE g[i + 1] = r
      OBVIOUS
    <3>1. i + 1 \in 1..Len(c) /\ (i + 1) - 1 = i /\ i <= Len(c)
      BY <1>0
    <3>2. PICK t : t = c[i + 1] /\ t.k \in {"echo", "nl", "ps2"}
      BY <1>2, <3>1
    <3>3. g[i + 1] = Event(r, c, t)
      BY <1>1, <2>2, <3>1, <3>2
    <3>4. t.k \notin {"E", "C", "D", "B", "P0", "P1"}
      BY <3>2
    <3>5. Event(r, c, t) = r
      BY <3>4, EventIs
    <3> QED
      BY <3>3, <3>5
  <2> HIDE DEF S
  <2>3. Nat \subseteq S
    BY <2>1, <2>2, SetInduction
  <2>4. Len(c) \in S
    BY <1>0, <2>3
  <2> QED
    BY <1>0, <1>1, <2>4 DEF S
<1>3. ASSUME c # <<>>, c[Len(c)].k = "B"
      PROVE  Whole(q) /\ Ready(q.m)
  <2> DEFINE S == {i \in Nat : i <= Len(c) => Whole(g[i])}
  <2>1. 0 \in S
    BY <1>1
  <2>2. ASSUME NEW i \in Nat, i \in S PROVE i + 1 \in S
    <3> SUFFICES ASSUME i + 1 <= Len(c) PROVE Whole(g[i + 1])
      OBVIOUS
    <3>1. i + 1 \in 1..Len(c) /\ (i + 1) - 1 = i /\ i <= Len(c)
      BY <1>0
    <3>2. PICK f : f = g[i] /\ Whole(f)
      BY <2>2, <3>1
    <3>3. g[i + 1] = Event(f, c, c[i + 1])
      BY <1>1, <3>1, <3>2
    <3>4. Whole(Event(f, c, c[i + 1]))
      BY <3>2, EventWhole
    <3> QED
      BY <3>3, <3>4
  <2> HIDE DEF S
  <2>3. Nat \subseteq S
    BY <2>1, <2>2, SetInduction
  <2>4. PICK n : n = Len(c) - 1 /\ n \in Nat /\ n + 1 = Len(c)
    BY <1>0, <1>3
  <2>5. n \in S /\ Len(c) \in S /\ n <= Len(c) /\ Len(c) \in 1..Len(c)
    BY <1>0, <2>3, <2>4
  <2>6. PICK f, t, m : f = g[n] /\ t = c[Len(c)] /\ m = f.m /\ Whole(f) /\ t.k = "B"
    BY <1>3, <2>5 DEF S
  <2>7. q = Event(f, c, t)
    BY <1>1, <2>4, <2>5, <2>6
  <2>8. Event(f, c, t) = Carried(Mach(m.capturing, m.captured, m.mode, <<>>, "idle", m.command, m.told, m.mode),
                                 f.acts, f.scan)
    BY <2>6, EventIs
  <2>9. PICK mm : mm = Mach(m.capturing, m.captured, m.mode, <<>>, "idle", m.command, m.told, m.mode)
    OBVIOUS
  <2>10. Fields(mm) /\ mm.swallow = m.mode /\ mm.mode = m.mode /\ mm.echo = <<>> /\ mm.submission = "idle"
    BY <2>9 DEF Fields, Mach
  <2>11. Whole(q) /\ q.m = mm
    BY <2>7, <2>8, <2>9, <2>10, WholeOf
  <2> QED
    BY <2>10, <2>11 DEF Ready
<1> QED
  BY <1>2, <1>3

\* What a machine that was told of a chunk makes of its echo
LEMMA EchoOf ==
  ASSUME NEW m, Fields(m), NEW c, NEW v, v = Echoed(Captured(m, c), c), NEW end, end = NextMark(c, "nl", 1)
  PROVE  /\ Whole(v) /\ v.m.mode = m.mode
         /\ ~m.swallow => v.m.swallow = m.swallow /\ v.m.submission = m.submission
         /\ m.swallow /\ end <= Len(c) => ~v.m.swallow /\ v.m.submission = "awaiting"
         /\ m.swallow /\ ~(end <= Len(c)) /\ ~(Len(m.echo) + Len(c) > MaxEcho) =>
              v.m.swallow = m.swallow /\ v.m.submission = m.submission
<1>1. PICK cd, sc, mt : /\ mt = <<>> /\ sc = (IF m.capturing THEN NextMark(c, "D", 1) ELSE 1)
                        /\ cd = IF m.capturing THEN m.captured \o SubSeq(c, 1, NextMark(c, "D", 1) - 1) ELSE m.captured
  OBVIOUS
<1>2. PICK n, u : /\ n = Mach(m.capturing, cd, m.swallow, m.echo, m.submission, m.command, m.told, m.mode)
                  /\ u = Captured(m, c)
  OBVIOUS
<1>3. u = Carried(n, mt, sc)
  BY <1>1, <1>2, CapturedIs
<1>4. Fields(n) /\ n.swallow = m.swallow /\ n.echo = m.echo /\ n.submission = m.submission /\ n.mode = m.mode
  BY <1>2 DEF Fields, Mach
<1>5. Whole(u) /\ u.m = n
  BY <1>3, <1>4, WholeOf
<1>6. end = EchoEnd(n, c)
  BY DEF EchoEnd
<1>7. EchoWays(v, u, c, n, end)
  <2>1. EchoWays(Echoed(u, c), u, c, n, end)
    BY <1>5, <1>6, EchoedIs
  <2> QED
    BY <1>2, <2>1
<1>8. ASSUME NEW a, NEW b, NEW s, NEW e, NEW f, NEW g, NEW h, NEW l, NEW ac, NEW z,
             v = Carried(Mach(a, b, s, e, f, g, h, l), ac, z)
      PROVE  Whole(v) /\ v.m.swallow = s /\ v.m.submission = f /\ v.m.mode = l
  <2>1. PICK mm : mm = Mach(a, b, s, e, f, g, h, l)
    OBVIOUS
  <2>2. Fields(mm) /\ mm.swallow = s /\ mm.submission = f /\ mm.mode = l
    BY <2>1 DEF Fields, Mach
  <2> QED
    BY <1>8, <2>1, <2>2, WholeOf
<1>9. CASE ~n.swallow
  <2>1. v = Carried(n, u.acts \o Live(c), u.scan)
    BY ONLY <1>7, <1>9, Zenon DEF EchoWays
  <2>2. Whole(v) /\ v.m = n
    BY <1>4, <2>1, WholeOf
  <2> QED
    BY <1>4, <1>9, <2>2
<1>10. CASE n.swallow /\ end <= Len(c)
  <2>1. v = Carried(Mach(n.capturing, n.captured, FALSE, n.echo \o SubSeq(c, 1, end), "awaiting",
                         n.command, n.told, n.mode),
                    u.acts \o Live(SubSeq(c, end + 1, Len(c))), u.scan)
    BY ONLY <1>7, <1>10, Zenon DEF EchoWays
  <2>2. PICK no : no = FALSE
    OBVIOUS
  <2>3. v = Carried(Mach(n.capturing, n.captured, no, n.echo \o SubSeq(c, 1, end), "awaiting",
                         n.command, n.told, n.mode),
                    u.acts \o Live(SubSeq(c, end + 1, Len(c))), u.scan)
    BY ONLY <2>1, <2>2
  <2>4. Whole(v) /\ v.m.swallow = no /\ v.m.submission = "awaiting" /\ v.m.mode = n.mode
    BY ONLY <1>8, <2>3
  <2> QED
    BY <1>4, <1>10, <2>2, <2>4
<1>11. CASE n.swallow /\ ~(end <= Len(c)) /\ Len(n.echo) + Len(c) > MaxEcho
  <2>1. v = Carried(Mach(n.capturing, n.captured, FALSE, <<>>, n.submission,
                        n.command, n.told, n.mode), u.acts \o Live(c), u.scan)
    BY ONLY <1>7, <1>11, Zenon DEF EchoWays
  <2>2. PICK no : no = FALSE
    OBVIOUS
  <2>3. v = Carried(Mach(n.capturing, n.captured, no, <<>>, n.submission,
                        n.command, n.told, n.mode), u.acts \o Live(c), u.scan)
    BY ONLY <2>1, <2>2
  <2>4. Whole(v) /\ v.m.mode = n.mode
    BY ONLY <1>8, <2>3
  <2> QED
    BY <1>4, <1>11, <2>4
<1>12. CASE n.swallow /\ ~(end <= Len(c)) /\ ~(Len(n.echo) + Len(c) > MaxEcho)
  <2>1. v = Carried(Mach(n.capturing, n.captured, n.swallow, n.echo \o c, n.submission,
                        n.command, n.told, n.mode), u.acts, u.scan)
    BY ONLY <1>7, <1>12, Zenon DEF EchoWays
  <2>2. Whole(v) /\ v.m.swallow = n.swallow /\ v.m.submission = n.submission /\ v.m.mode = n.mode
    BY ONLY <1>8, <2>1
  <2> QED
    BY <1>4, <1>12, <2>2
<1> QED
  BY <1>9, <1>10, <1>11, <1>12

\* What the events leave, settled
LEMMA SettledOf ==
  ASSUME NEW w, Whole(w), NEW reply, NEW r, r = Settled(w, reply), NEW m, m = w.m
  PROVE  /\ r.m.mode = m.mode /\ r.m.swallow = m.swallow
         /\ Repaints(m, reply) => r.m.submission = "continuing"
         /\ ~Repaints(m, reply) => r.m.submission = m.submission /\ r.m.echo = m.echo
<1>1. SettledTo(r, w, m, reply)
  BY SettledIs
<1>2. PICK ec, su, tl, ac : /\ ec = (IF Repaints(m, reply) THEN <<>> ELSE m.echo) /\ su = After(m, reply)
        /\ tl = (IF Waits(m, reply) = m.told.continuation THEN m.told ELSE Continued(m.told, Waits(m, reply)))
        /\ ac = (IF Waits(m, reply) = m.told.continuation THEN Rescue(m, reply) \o w.acts
                 ELSE Append(Rescue(m, reply) \o w.acts, State(Continued(m.told, Waits(m, reply)))))
  OBVIOUS
<1>3. PICK mm : mm = Mach(m.capturing, m.captured, m.swallow, ec, su, m.command, tl, m.mode)
  OBVIOUS
<1>4. r = Carried(mm, ac, w.scan)
  BY ONLY <1>1, <1>2, <1>3, Zenon DEF SettledTo
<1>5. Fields(mm) /\ mm.mode = m.mode /\ mm.swallow = m.swallow /\ mm.submission = su /\ mm.echo = ec
  BY <1>3 DEF Fields, Mach
<1>6. r.m = mm
  BY <1>4, <1>5, WholeOf
<1> QED
  BY <1>2, <1>5, <1>6 DEF After

\* A chunk that ends with a prompt leaves the machine ready.
LEMMA PromptIsSeen ==
  ASSUME NEW m, Fields(m), NEW c, IsSeq(c), c # <<>>, c[Len(c)].k = "B", NEW r, r = OnChunk(m, c)
  PROVE  Ready(r.m)
<1>1. PICK v, w, reply : v = Echoed(Captured(m, c), c) /\ w = Scanned(v, c) /\ reply = Reply(m, c)
  OBVIOUS
<1>2. r = Settled(w, reply)
  BY <1>1 DEF OnChunk
<1>3. Whole(v)
  BY <1>1, EchoOf
<1>4. Whole(w) /\ Ready(w.m)
  BY <1>1, <1>3, ScanFacts
<1>5. PICK n : n = w.m /\ n.submission = "idle" /\ n.swallow = n.mode /\ n.echo = <<>>
  BY <1>4 DEF Ready
<1>6. ~Repaints(n, reply)
  BY <1>5 DEF Repaints
<1>7. r.m.mode = n.mode /\ r.m.swallow = n.swallow /\ r.m.submission = n.submission /\ r.m.echo = n.echo
  BY <1>2, <1>4, <1>5, <1>6, SettledOf
<1> QED
  BY <1>5, <1>7 DEF Ready

\* The kinds of the tokens of a line
LEMMA LineKinds ==
  ASSUME NEW at \in {"read", "more"}
  PROVE  /\ Len(LineOf(at)) = IF at = "more" THEN 3 ELSE 2
         /\ LineOf(at)[1] = "echo" /\ LineOf(at)[2] = "nl" /\ (at = "more" => LineOf(at)[3] = "ps2")
BY DEF LineOf

\* What is read of the rest of a line, and what is left of it
LEMMA LeftOf ==
  ASSUME NEW at \in {"read", "more"}, NEW d \in 0..3, NEW p, IsSeq(p), Left(p, at, d), NEW k \in 1..Len(p)
  PROVE  /\ d + k \in 0..3 /\ Left(SubSeq(p, k + 1, Len(p)), at, d + k)
         /\ IsSeq(SubSeq(p, 1, k)) /\ Len(SubSeq(p, 1, k)) = k
         /\ \A i \in 1..k : SubSeq(p, 1, k)[i].k = LineOf(at)[d + i]
         /\ (d + k = 3 => at = "more")
<1>0. Len(p) \in Nat /\ k \in Nat /\ k <= Len(p) /\ d \in Nat
  BY SeqLen
<1>1. PICK n, f : n = Len(p) /\ f = LineOf(at)
  OBVIOUS
<1>2. Len(f) = (IF at = "more" THEN 3 ELSE 2) /\ n + d = Len(f) /\ \A i \in 1..n : p[i].k = f[d + i]
  BY <1>1, LineKinds DEF Left
<1>3. d + k \in 0..3 /\ (d + k = 3 => at = "more")
  BY <1>0, <1>1, <1>2
<1>4. PICK l, r, m : m = k + 1 /\ l = SubSeq(p, 1, k) /\ r = SubSeq(p, m, n)
  OBVIOUS
<1>5. /\ m \in Nat \ {0} /\ n \in Nat /\ n <= Len(p) /\ 1 \in Nat \ {0}
  BY <1>0, <1>1, <1>4
<1>6. /\ IsSeq(l) /\ Len(l) = (IF 1 <= k THEN k - 1 + 1 ELSE 0)
      /\ \A i \in 1..(k - 1 + 1) : l[i] = p[1 + i - 1]
  BY <1>0, <1>4, <1>5, SubSeqIsSeq
<1>7. Len(l) = k /\ \A i \in 1..k : l[i].k = f[d + i]
  <2>1. 1 <= k /\ k - 1 + 1 = k /\ \A i \in 1..k : 1 + i - 1 = i /\ i \in 1..n
    BY <1>0, <1>1
  <2> QED
    BY <1>2, <1>6, <2>1
<1>8. /\ IsSeq(r) /\ Len(r) = (IF m <= n THEN n - m + 1 ELSE 0)
      /\ \A i \in 1..(n - m + 1) : r[i] = p[m + i - 1]
  BY <1>4, <1>5, SubSeqIsSeq
<1>9. Len(r) + (d + k) = Len(f) /\ \A i \in 1..Len(r) : r[i].k = f[(d + k) + i]
  <2>1. Len(r) = n - k
    BY <1>0, <1>1, <1>4, <1>8
  <2>2. ASSUME NEW i \in 1..Len(r) PROVE r[i].k = f[(d + k) + i]
    <3>1. i \in 1..(n - m + 1) /\ m + i - 1 = k + i /\ k + i \in 1..n /\ d + (k + i) = (d + k) + i
      BY <1>0, <1>1, <1>4, <2>1, <2>2
    <3>2. r[i] = p[k + i] /\ p[k + i].k = f[d + (k + i)]
      BY <1>2, <1>8, <3>1
    <3> QED
      BY <3>1, <3>2
  <2>3. n + d = Len(f) /\ Len(f) \in Nat
    BY <1>2
  <2> QED
    BY <1>0, <1>1, <2>1, <2>2, <2>3
<1>10. Left(r, at, d + k)
  BY <1>1, <1>9 DEF Left
<1> QED
  BY <1>1, <1>3, <1>4, <1>6, <1>7, <1>10

\* Each chunk of a line takes the machine on by what it holds of it.
LEMMA LineIsSeen ==
  ASSUME NEW at \in {"read", "more"}, NEW d \in 0..3, NEW k \in 1..3, NEW c, IsSeq(c), Len(c) = k, d + k <= 3,
         \A i \in 1..k : c[i].k = LineOf(at)[d + i], d + k = 3 => at = "more",
         NEW m, Fields(m), Saw(m, d), NEW r, r = OnChunk(m, c)
  PROVE  Saw(r.m, d + k)
<1>0. d \in {0, 1, 2} /\ k \in Nat /\ d \in Nat /\ Len(c) = k /\ c # <<>>
  BY SeqLen
<1>1. PICK v, reply, end : v = Echoed(Captured(m, c), c) /\ reply = Reply(m, c) /\ end = NextMark(c, "nl", 1)
  OBVIOUS
<1>2. /\ Whole(v) /\ v.m.mode = m.mode
      /\ ~m.swallow => v.m.swallow = m.swallow /\ v.m.submission = m.submission
      /\ m.swallow /\ end <= Len(c) => ~v.m.swallow /\ v.m.submission = "awaiting"
      /\ m.swallow /\ ~(end <= Len(c)) /\ ~(Len(m.echo) + Len(c) > MaxEcho) =>
           v.m.swallow = m.swallow /\ v.m.submission = m.submission
  BY <1>1, EchoOf
<1>3. /\ d = 0 => c[1].k = "echo" /\ (k >= 2 => c[2].k = "nl") /\ (k = 3 => c[3].k = "ps2")
      /\ d = 1 => c[1].k = "nl" /\ (k = 2 => c[2].k = "ps2")
      /\ d = 2 => c[1].k = "ps2"
  BY <1>0, LineKinds
<1>4. \A i \in 1..Len(c) : c[i].k \in {"echo", "nl", "ps2"}
  BY <1>0, <1>3
<1>5. Scanned(v, c) = v
  BY <1>2, <1>4, ScanFacts
<1>6. r = Settled(v, reply)
  BY <1>1, <1>5 DEF OnChunk
<1>7. PICK n : n = v.m
  OBVIOUS
<1>8. /\ r.m.mode = n.mode /\ r.m.swallow = n.swallow
      /\ Repaints(n, reply) => r.m.submission = "continuing"
      /\ ~Repaints(n, reply) => r.m.submission = n.submission
  BY <1>2, <1>6, <1>7, SettledOf
<1>9. ASSUME d + k = 3 PROVE c[k].k = "ps2" /\ Painted(<<c[k]>>) # <<>>
  <2>1. c[k].k = "ps2"
    BY <1>0, <1>3, <1>9
  <2>2. PICK t : t = c[k] /\ Paints(t)
    BY <2>1 DEF Paints
  <2>3. Painted(<<t>>) = <<t>> /\ <<t>> # <<>>
    BY <2>2, PaintedFacts, OneIsSeq, EmptyIsSeq
  <2> QED
    BY <2>1, <2>2, <2>3
<1>10. CASE ~m.swallow
  <2>1. reply = c
    BY <1>1, <1>10 DEF Reply
  <2>2. n.mode = m.mode /\ ~n.swallow /\ n.submission = m.submission
    BY <1>2, <1>7, <1>10
  <2>3. CASE ~m.mode
    <3>1. m.submission = "idle"
      BY <2>3 DEF Saw
    <3>2. ~Repaints(n, reply)
      BY <2>2, <3>1 DEF Repaints
    <3> QED
      BY <1>8, <2>2, <2>3, <3>1, <3>2 DEF Saw
  <2>4. CASE m.mode /\ m.submission = "continuing"
    <3>1. ~Repaints(n, reply)
      BY <2>2, <2>4 DEF Repaints
    <3> QED
      BY <1>8, <2>2, <2>4, <3>1 DEF Saw
  <2>5. CASE m.mode /\ d = 2 /\ m.submission = "awaiting"
    <3>1. k = 1 /\ d + k = 3
      BY <1>0, <2>5
    <3>2. c = <<c[k]>>
      <4>1. SubSeq(c, 1, Len(c)) = c
        BY SubSeqWhole
      <4>2. SubSeq(c, 1, 1) = <<c[1]>>
        BY <1>0, <3>1, SubSeqOne
      <4> QED
        BY <1>0, <3>1, <4>1, <4>2
    <3>3. Repaints(n, reply)
      BY <1>9, <2>1, <2>2, <2>5, <3>1, <3>2 DEF Repaints
    <3> QED
      BY <1>8, <2>2, <2>5, <3>3 DEF Saw
  <2> QED
    BY <1>10, <2>3, <2>4, <2>5 DEF Saw
<1>11. CASE m.swallow
  <2>1. m.mode /\ m.submission = "idle" /\ d \in {0, 1} /\ (d = 0 => m.echo = <<>>)
    BY <1>11 DEF Saw
  <2>2. CASE 2 - d <= k
    <3>1. end = 2 - d
      <4>1. PICK e : e = 2 - d /\ e \in {1, 2} /\ e <= k
        BY <2>1, <2>2
      <4>2. 1 \in 1..(Len(c) + 1) /\ e \in 1..(Len(c) + 1) /\ c[e].k = "nl" /\ \A i \in 1..Len(c) : i < e => c[i].k # "nl"
        BY <1>0, <1>3, <2>1, <4>1
      <4>3. NextMark(c, "nl", 1) = e
        BY <4>2, NextMarkIs
      <4> QED
        BY <1>1, <4>1, <4>3
    <3>2. end <= Len(c) /\ end \in Nat
      BY <1>0, <2>1, <2>2, <3>1
    <3>3. n.mode = m.mode /\ ~n.swallow /\ n.submission = "awaiting"
      BY <1>2, <1>7, <1>11, <3>2
    <3>4. reply = SubSeq(c, end + 1, Len(c))
      BY <1>1, <1>11 DEF Reply, Rest, EchoEnd
    <3>5. CASE d + k = 2
      <4>1. PICK z : z = end + 1 /\ z \in Nat \ {0} /\ z > Len(c) /\ Len(c) \in Nat /\ Len(c) <= Len(c)
        BY <1>0, <2>1, <3>1, <3>2, <3>5
      <4>2. SubSeq(c, z, Len(c)) = <<>>
        BY <4>1, SubSeqIsSeq
      <4>3. Painted(reply) = <<>>
        BY <3>4, <4>1, <4>2, PaintedFacts
      <4>4. ~Repaints(n, reply)
        BY <4>3 DEF Repaints
      <4> QED
        BY <1>8, <2>1, <3>3, <3>5, <4>4 DEF Saw
    <3>6. CASE d + k = 3
      <4>1. end + 1 = k /\ k \in 1..Len(c)
        BY <1>0, <2>1, <3>1, <3>6
      <4>2. SubSeq(c, k, k) = <<c[k]>>
        BY <4>1, SubSeqOne
      <4>3. reply = <<c[k]>>
        BY <1>0, <3>4, <4>1, <4>2
      <4>4. Repaints(n, reply)
        BY <1>9, <3>3, <3>6, <4>3 DEF Repaints
      <4> QED
        BY <1>8, <2>1, <3>3, <4>4 DEF Saw
    <3> QED
      BY <1>0, <2>1, <2>2, <3>5, <3>6
  <2>3. CASE ~(2 - d <= k)
    <3>1. d = 0 /\ k = 1
      BY <1>0, <2>1, <2>3
    <3>2. end = 2
      <4>1. 1 \in 1..(Len(c) + 1) /\ 2 \in 1..(Len(c) + 1) /\ ~(2 <= Len(c)) /\ \A i \in 1..Len(c) : i < 2 => c[i].k # "nl"
        BY <1>0, <1>3, <3>1
      <4>2. NextMark(c, "nl", 1) = 2
        BY <4>1, NextMarkIs
      <4> QED
        BY <1>1, <4>2
    <3>3. ~(end <= Len(c)) /\ ~(Len(m.echo) + Len(c) > MaxEcho)
      <4>1. Len(m.echo) = 0
        BY <2>1, <3>1, EmptyIsSeq
      <4> QED
        BY <1>0, <3>1, <3>2, <4>1, EchoAssumption
    <3>4. n.mode = m.mode /\ n.swallow = m.swallow /\ n.submission = "idle"
      BY <1>2, <1>7, <1>11, <2>1, <3>3
    <3>5. ~Repaints(n, reply)
      BY <3>4 DEF Repaints
    <3> QED
      BY <1>8, <1>11, <2>1, <3>1, <3>4, <3>5 DEF Saw
  <2> QED
    BY <2>2, <2>3
<1> QED
  BY <1>10, <1>11

-----------------------------------------------------------------------------
\* The invariant of the lines, and the steps of the shell that keep it.

\* As long as no line was typed before the prompt was read: what is unread at a prompt ends with
\* it, and while a line is typed, the machine saw the part of it that is read.
LineInv ==
  ~shell.ahead =>
    /\ At("input") /\ pipe = <<>> => Ready(machine)
    /\ At("input") /\ pipe # <<>> => pipe[Len(pipe)].k = "B"
    /\ shell.at \in {"read", "more"} => \E d \in 0..3 : Left(pipe, shell.at, d) /\ Saw(machine, d)

LineStreamInv == StreamInv /\ LineInv

\* The last element of a concatenation
LEMMA LastOfConcat ==
  ASSUME NEW s, NEW t, IsSeq(s), IsSeq(t), t # <<>>
  PROVE  s \o t # <<>> /\ (s \o t)[Len(s \o t)] = t[Len(t)]
<1>1. PICK u : u = s \o t
  OBVIOUS
<1>2. /\ IsSeq(u) /\ Len(u) = Len(s) + Len(t)
      /\ \A i \in 1..Len(t) : u[Len(s) + i] = t[i]
  BY <1>1, SeqConcat
<1>3. Len(s) \in Nat /\ Len(t) \in Nat /\ Len(t) # 0
  BY SeqLen
<1>4. u # <<>> /\ u[Len(u)] = t[Len(t)]
  <2>1. Len(t) \in 1..Len(t) /\ Len(u) # 0
    BY <1>2, <1>3
  <2>2. u # <<>>
    BY <1>2, <2>1, SeqLen
  <2> QED
    BY <1>2, <2>1, <2>2
<1> QED
  BY <1>1, <1>4

\* PS1 ends with the mark B.
LEMMA Ps1EndsWithB ==
  ASSUME IsSeq(pipe), NEW mode, NEW then, IsSeq(then), Ps1(mode, then)
  PROVE  pipe' # <<>> /\ pipe'[Len(pipe')].k = "B"
<1>0. PICK b : b = Mark("B")
  OBVIOUS
<1>1. b = Mark("B") /\ b.k = "B"
  BY <1>0 DEF Mark
<1>2. PICK t : /\ pipe' = pipe \o (then \o t) /\ IsSeq(t) /\ t # <<>> /\ t[Len(t)].k = "B"
  <2>1. CASE mode
    <3>1. PICK t : t = <<b>>
      OBVIOUS
    <3>2. pipe' = pipe \o (then \o t)
      BY <1>1, <2>1, <3>1 DEF Ps1, Writes
    <3>3. IsSeq(t) /\ Len(t) = 1 /\ t[1] = b
      BY <3>1, OneIsSeq
    <3>4. t # <<>>
      BY <3>3, EmptyIsSeq
    <3> QED
      BY <1>1, <3>2, <3>3, <3>4
  <2>2. CASE ~mode
    <3>1. PICK g, t, o : g = Glyph("prompt", NoCommand, made + 1) /\ t = <<g, b>> /\ o = <<b>>
      OBVIOUS
    <3>2. pipe' = pipe \o (then \o t)
      BY <1>1, <2>2, <3>1 DEF Ps1, Writes
    <3>3. t = <<g>> \o o /\ IsSeq(t) /\ IsSeq(<<g>>)
      BY <3>1, TwoIsConcat, OneIsSeq
    <3>4. IsSeq(o) /\ Len(o) = 1 /\ o[1] = b /\ o # <<>>
      BY <3>1, OneIsSeq, EmptyIsSeq
    <3>5. t # <<>> /\ t[Len(t)] = o[Len(o)]
      BY <3>3, <3>4, LastOfConcat
    <3> QED
      BY <1>1, <3>2, <3>3, <3>4, <3>5
  <2> QED
    BY <2>1, <2>2
<1>3. PICK w : w = then \o t
  OBVIOUS
<1>4. IsSeq(w) /\ w # <<>> /\ w[Len(w)] = t[Len(t)]
  BY <1>2, <1>3, LastOfConcat, SeqConcat
<1>5. pipe \o w # <<>> /\ (pipe \o w)[Len(pipe \o w)] = w[Len(w)]
  BY <1>4, LastOfConcat
<1> QED
  BY <1>2, <1>3, <1>4, <1>5

\* `Prompt`, `Toggle`
LEMMA PromptsEndWithB == ASSUME LineStreamInv, Prompt \/ Toggle PROVE LineInv'
<1>1. IsSeq(pipe) /\ shell = ShellRec(shell.at, shell.mode, shell.commands, shell.toggles, shell.ran, shell.ahead)
  BY DEF LineStreamInv, StreamInv, ShellIsTyped
<1>2. pipe' # <<>> /\ pipe'[Len(pipe')].k = "B"
  <2>1. CASE Prompt
    <3>1. PICK th : th = <<Mark("D"), PromptMode(shell.mode)>>
      OBVIOUS
    <3>2. Ps1(shell.mode, th) /\ IsSeq(th)
      BY <2>1, <3>1, TwoIsConcat DEF Prompt
    <3> QED
      BY <1>1, <3>2, Ps1EndsWithB
  <2>2. CASE Toggle
    <3>1. PICK th : th = <<PromptMode(~shell.mode)>>
      OBVIOUS
    <3>2. Ps1(~shell.mode, th) /\ IsSeq(th)
      BY <2>2, <3>1, OneIsSeq DEF Toggle
    <3> QED
      BY <1>1, <3>2, Ps1EndsWithB
  <2> QED
    BY <2>1, <2>2
<1>3. shell'.at = "input"
  <2>1. CASE Prompt
    BY <1>1, <2>1 DEF Prompt, Goes, ShellRec
  <2>2. CASE Toggle
    <3>1. PICK no, more : no = ~shell.mode /\ more = shell.toggles + 1
      OBVIOUS
    <3>2. shell' = [shell EXCEPT !.mode = no, !.toggles = more]
      BY Zenon, <2>2, <3>1 DEF Toggle
    <3>3. shell.at = "input"
      BY <2>2 DEF Toggle, At
    <3> QED
      BY <1>1, <3>2, <3>3 DEF ShellRec
  <2> QED
    BY <2>1, <2>2
<1> QED
  BY <1>2, <1>3 DEF LineInv, At

\* A line that is typed at a prompt that was read, or after what asked for the rest of one
LEMMA ReadyToType ==
  ASSUME LineInv, ~shell.ahead, pipe = <<>>, shell.at \in {"input", "more"}
  PROVE  Saw(machine, 0)
<1>1. CASE shell.at = "input"
  <2>1. Ready(machine)
    BY <1>1 DEF LineInv, At
  <2> QED
    BY <2>1 DEF Ready, Saw
<1>2. CASE shell.at = "more"
  <2>1. PICK d \in 0..3 : Left(pipe, "more", d) /\ Saw(machine, d)
    BY <1>2 DEF LineInv
  <2>2. d = 3
    <3>1. Len(pipe) = 0 /\ Len(LineOf("more")) = 3
      BY EmptyIsSeq, LineKinds
    <3> QED
      BY <2>1, <3>1 DEF Left
  <2> QED
    BY <2>1, <2>2 DEF Saw
<1> QED
  BY <1>1, <1>2

\* `Submit`
LEMMA SubmitIsLine == ASSUME LineStreamInv, Submit PROVE LineInv'
<1>1. PICK ah : ah = (shell.ahead \/ (pipe # <<>>))
  OBVIOUS
<1>2. shell' = [shell EXCEPT !.at = "read", !.ahead = ah] /\ shell.at \in {"input", "more"}
  BY Zenon, <1>1 DEF Submit, Types
<1>3. /\ shell = ShellRec(shell.at, shell.mode, shell.commands, shell.toggles, shell.ran, shell.ahead) /\ IsSeq(pipe)
      /\ LineInv
  BY DEF LineStreamInv, StreamInv, ShellIsTyped
<1>4. shell'.at = "read" /\ shell'.ahead = ah
  BY <1>2, <1>3 DEF ShellRec
<1>5. PICK g, nl, o, n : /\ g = Glyph("echo", Coming, made + 1) /\ nl = Mark("nl") /\ o = <<g>> /\ n = <<nl>>
  OBVIOUS
<1>6. pipe' = pipe \o (o \o n) /\ machine' = machine
  BY <1>5 DEF Submit, Puts, Writes, core
<1>7. g.k = "echo" /\ nl.k = "nl"
  BY <1>5 DEF Glyph, Mark
<1>8. SUFFICES ASSUME ~shell'.ahead
      PROVE  \E d \in 0..3 : Left(pipe', "read", d) /\ Saw(machine', d)
  BY <1>4 DEF LineInv, At
<1>9. ~shell.ahead /\ pipe = <<>>
  BY <1>1, <1>4, <1>8
<1>10. Saw(machine, 0)
  BY <1>2, <1>3, <1>9, ReadyToType
<1>11. PICK w : w = o \o n
  OBVIOUS
<1>12. IsSeq(w) /\ Len(w) = 2 /\ w[1] = g /\ w[2] = nl
  <2>1. IsSeq(o) /\ Len(o) = 1 /\ o[1] = g /\ IsSeq(n) /\ Len(n) = 1 /\ n[1] = nl
    BY <1>5, OneIsSeq
  <2>2. /\ IsSeq(w) /\ Len(w) = Len(o) + Len(n) /\ \A i \in 1..Len(o) : w[i] = o[i]
        /\ \A i \in 1..Len(n) : w[Len(o) + i] = n[i]
    <3>1. IsSeq(o) /\ IsSeq(n) /\ w = o \o n
      BY <1>11, <2>1
    <3> QED
      BY ONLY <3>1, SeqConcat
  <2>3. 1 \in 1..Len(o) /\ 1 \in 1..Len(n) /\ Len(o) + 1 = 2
    BY <2>1
  <2> QED
    BY <2>1, <2>2, <2>3
<1>13. pipe' = w
  BY <1>6, <1>9, <1>11, <1>12, EmptyIsSeq
<1>14. Left(w, "read", 0)
  <2>1. Len(LineOf("read")) = 2 /\ LineOf("read")[1] = "echo" /\ LineOf("read")[2] = "nl"
    BY LineKinds
  <2> QED
    BY <1>7, <1>12, <2>1 DEF Left
<1> QED
  BY <1>6, <1>10, <1>13, <1>14

\* `Continue`
LEMMA ContinueIsLine == ASSUME LineStreamInv, Continue PROVE LineInv'
<1>1. /\ shell = ShellRec(shell.at, shell.mode, shell.commands, shell.toggles, shell.ran, shell.ahead) /\ IsSeq(pipe)
      /\ LineInv
  BY DEF LineStreamInv, StreamInv, ShellIsTyped
<1>2. shell.at = "read" /\ shell'.at = "more" /\ shell'.ahead = shell.ahead
  BY <1>1 DEF Continue, Goes, At, ShellRec
<1>0. PICK g, o : g = Glyph("ps2", Coming, made + 1) /\ o = <<g>>
  OBVIOUS
<1>3. g = Glyph("ps2", Coming, made + 1) /\ o = <<g>> /\ g.k = "ps2"
  BY <1>0 DEF Glyph
<1>4. IsSeq(o) /\ Len(o) = 1 /\ o[1] = g /\ o \o <<>> = o
  BY <1>3, OneIsSeq, EmptyIsSeq
<1>5. pipe' = pipe \o o /\ machine' = machine
  BY <1>3, <1>4 DEF Continue, Puts, Writes, core
<1>6. SUFFICES ASSUME ~shell'.ahead
      PROVE  \E d \in 0..3 : Left(pipe', "more", d) /\ Saw(machine', d)
  BY <1>2 DEF LineInv, At
<1>7. PICK d \in 0..3 : Left(pipe, "read", d) /\ Saw(machine, d)
  BY <1>1, <1>2, <1>6 DEF LineInv
<1>8. /\ Len(LineOf("read")) = 2 /\ LineOf("read")[1] = "echo" /\ LineOf("read")[2] = "nl"
      /\ Len(LineOf("more")) = 3 /\ LineOf("more")[1] = "echo" /\ LineOf("more")[2] = "nl" /\ LineOf("more")[3] = "ps2"
  BY LineKinds
<1>9. PICK p, w : p = pipe /\ w = p \o o /\ IsSeq(p) /\ Len(p) \in Nat
  BY <1>1, SeqLen
<1>10. Len(p) + d = 2 /\ \A i \in 1..Len(p) : p[i].k = LineOf("read")[d + i]
  BY <1>7, <1>8, <1>9 DEF Left
<1>11. /\ Len(w) = Len(p) + 1 /\ \A i \in 1..Len(p) : w[i] = p[i]
       /\ w[Len(p) + 1] = g
  <2>1. /\ Len(w) = Len(p) + Len(o) /\ \A i \in 1..Len(p) : w[i] = p[i]
        /\ \A i \in 1..Len(o) : w[Len(p) + i] = o[i]
    <3>1. IsSeq(p) /\ IsSeq(o) /\ w = p \o o
      BY <1>4, <1>9
    <3> QED
      BY ONLY <3>1, SeqConcat
  <2>2. 1 \in 1..Len(o)
    BY <1>4
  <2> QED
    BY <1>4, <2>1, <2>2
<1>12. \A i \in 1..Len(w) : w[i].k = LineOf("more")[d + i]
  <2> TAKE i \in 1..Len(w)
  <2>1. CASE i \in 1..Len(p)
    <3>1. d + i \in {1, 2}
      BY <1>9, <1>10, <2>1
    <3>2. w[i].k = LineOf("read")[d + i]
      BY <1>10, <1>11, <2>1
    <3> QED
      BY <1>8, <3>1, <3>2
  <2>2. CASE i \notin 1..Len(p)
    <3>1. i = Len(p) + 1 /\ d + i = 3
      BY <1>9, <1>10, <1>11, <2>2
    <3> QED
      BY <1>3, <1>8, <1>11, <3>1
  <2> QED
    BY <2>1, <2>2
<1>13. Left(w, "more", d)
  <2>1. Len(w) + d = Len(LineOf("more"))
    <3>1. PICK l : l = Len(p) /\ l \in Nat /\ l + d = 2 /\ Len(w) = l + 1 /\ d \in Nat
      BY <1>9, <1>10, <1>11
    <3>2. Len(w) + d = 3
      BY ONLY <3>1
    <3> QED
      BY <1>8, <3>2
  <2> QED
    BY <1>12, <2>1 DEF Left
<1> QED
  BY <1>5, <1>7, <1>9, <1>13

-----------------------------------------------------------------------------
\* Every step keeps it; the command state of a pane.

\* `Ingest`
LEMMA IngestSeesLine == ASSUME LineStreamInv, Ingest PROVE LineInv'
<1>1. PICK k, c, p, r :
        /\ k \in 1..Len(pipe) /\ c = SubSeq(pipe, 1, k) /\ p = SubSeq(pipe, k + 1, Len(pipe)) /\ r = OnChunk(machine, c)
        /\ pipe' = p /\ machine' = r.m
  BY DEF Ingest
<1>2. shell' = shell
  BY DEF Ingest
<1>3. StreamInv /\ LineInv /\ IsSeq(pipe)
  BY DEF LineStreamInv, StreamInv, ShellIsTyped
<1>4. PICK m, q : m = machine /\ q = pipe /\ Fields(m) /\ IsSeq(q)
  BY <1>3 DEF StreamInv, HearsAs, Sync
<1>5. IsSeq(c) /\ IsSeq(p) /\ q = c \o p
  BY <1>1, <1>4, ChunkSplits
<1>6. Len(q) \in Nat /\ Len(c) = k
  <2>1. Len(q) \in Nat
    BY <1>4, SeqLen
  <2>2. 1 \in Nat \ {0} /\ k \in Nat /\ k <= Len(q) /\ 1 <= k
    BY <1>1, <1>4, <2>1
  <2>3. Len(SubSeq(q, 1, k)) = IF 1 <= k THEN k - 1 + 1 ELSE 0
    BY ONLY <1>4, <2>2, SubSeqIsSeq
  <2> QED
    BY <1>1, <1>4, <2>1, <2>2, <2>3
<1>7. k \in Nat /\ 1 <= k /\ k <= Len(q) /\ q # <<>> /\ c # <<>>
  <2>1. k \in Nat /\ 1 <= k /\ k <= Len(q)
    BY <1>1, <1>4, <1>6
  <2> QED
    BY <1>4, <1>5, <1>6, <2>1, SeqLen
<1>8. ASSUME ~shell.ahead, At("input"), p = <<>> PROVE Ready(r.m)
  <2>1. q[Len(q)].k = "B"
    BY <1>3, <1>4, <1>7, <1>8 DEF LineInv
  <2>2. q = c
    BY <1>5, <1>8, EmptyIsSeq
  <2>3. Fields(m) /\ IsSeq(c) /\ c # <<>> /\ c[Len(c)].k = "B" /\ r = OnChunk(m, c)
    BY <1>1, <1>4, <1>5, <1>7, <2>1, <2>2
  <2> QED
    BY ONLY <2>3, PromptIsSeen
<1>9. ASSUME ~shell.ahead, At("input"), p # <<>> PROVE p[Len(p)].k = "B"
  <2>1. q[Len(q)].k = "B"
    BY <1>3, <1>4, <1>7, <1>9 DEF LineInv
  <2>2. (c \o p)[Len(c \o p)] = p[Len(p)]
    BY <1>5, <1>9, LastOfConcat
  <2> QED
    BY <1>5, <2>1, <2>2
<1>10. ASSUME ~shell.ahead, shell.at \in {"read", "more"}
       PROVE  \E d \in 0..3 : Left(p, shell.at, d) /\ Saw(r.m, d)
  <2>1. PICK at : at = shell.at /\ at \in {"read", "more"}
    BY <1>10
  <2>2. PICK d \in 0..3 : Left(q, at, d) /\ Saw(m, d)
    BY <1>3, <1>4, <1>10, <2>1 DEF LineInv
  <2>3. /\ d + k \in 0..3 /\ Left(SubSeq(q, k + 1, Len(q)), at, d + k)
        /\ \A i \in 1..k : SubSeq(q, 1, k)[i].k = LineOf(at)[d + i]
        /\ (d + k = 3 => at = "more")
    <3>1. IsSeq(q) /\ k \in 1..Len(q)
      BY <1>4, <1>6, <1>7
    <3> QED
      BY ONLY <2>1, <2>2, <3>1, d \in 0..3, LeftOf
  <2>4. Left(p, at, d + k) /\ \A i \in 1..k : c[i].k = LineOf(at)[d + i]
    BY <1>1, <1>4, <2>3
  <2>5. k \in 1..3 /\ d + k <= 3
    BY <1>7, <2>3
  <2>6. Len(c) = k /\ IsSeq(c) /\ Fields(m) /\ r = OnChunk(m, c)
    BY <1>1, <1>4, <1>5, <1>6
  <2>7. Saw(r.m, d + k)
    BY ONLY <2>1, <2>2, <2>3, <2>4, <2>5, <2>6, d \in 0..3, LineIsSeen
  <2> QED
    BY <2>1, <2>3, <2>4, <2>7
<1> QED
  BY <1>1, <1>2, <1>8, <1>9, <1>10 DEF LineInv, At

\* Every step keeps what is known of a line.
LEMMA NextKeepsLine == ASSUME LineStreamInv, [Next]_vars PROVE LineInv'
<1>0. /\ shell = ShellRec(shell.at, shell.mode, shell.commands, shell.toggles, shell.ran, shell.ahead) /\ LineInv
      /\ StreamInv
  BY DEF LineStreamInv, StreamInv, ShellIsTyped
<1>1. ASSUME shell'.at \notin {"input", "read", "more"} PROVE LineInv'
  BY <1>1 DEF LineInv, At
<1>2. ASSUME UNCHANGED <<shell, pipe, machine>> PROVE LineInv'
  BY <1>0, <1>2 DEF LineInv, At
<1>3. CASE Shell
  <2>1. CASE EmptyLine
    <3>1. PICK ah : ah = (shell.ahead \/ (pipe # <<>>))
      OBVIOUS
    <3>2. shell' = [shell EXCEPT !.at = "done", !.ahead = ah]
      BY Zenon, <2>1, <3>1 DEF EmptyLine, Types
    <3>3. shell'.at = "done"
      BY <1>0, <3>2 DEF ShellRec
    <3> QED
      BY <1>1, <3>3
  <2>2. CASE Run
    <3>1. PICK ra : ra = IF shell.mode THEN shell.ran \cup {Coming} ELSE shell.ran
      OBVIOUS
    <3>2. shell' = [shell EXCEPT !.at = "run", !.commands = Coming, !.ran = ra]
      BY Zenon, <2>2, <3>1 DEF Run
    <3>3. shell'.at = "run"
      BY <1>0, <3>2 DEF ShellRec
    <3> QED
      BY <1>1, <3>3
  <2>3. CASE Output
    BY <1>1, <2>3 DEF Output, At
  <2>4. CASE Dies
    <3>1. shell'.at = "gone"
      BY <1>0, <2>4 DEF Dies, Goes, ShellRec
    <3> QED
      BY <1>1, <3>1
  <2> QED
    BY <1>3, <2>1, <2>2, <2>3, <2>4, PromptsEndWithB, SubmitIsLine, ContinueIsLine DEF Shell
<1>4. CASE Emitter
  <2>1. CASE Flush
    BY <1>2, <2>1 DEF Flush, child
  <2>2. CASE Report
    BY <1>2, <2>2 DEF Report, child
  <2>3. CASE LastWords
    BY <1>2, <2>3 DEF LastWords, child
  <2>4. CASE Eof
    BY <1>1, <2>4 DEF Eof, At, child
  <2> QED
    BY <1>4, <2>1, <2>2, <2>3, <2>4, IngestSeesLine DEF Emitter
<1>5. CASE Inherit
  BY <1>2, <1>5 DEF Inherit, core, child
<1>6. CASE Respawn
  <2>1. shell'.at = "start"
    BY <1>0, <1>6 DEF Respawn, ShellRec
  <2> QED
    BY <1>1, <2>1
<1>7. CASE \E v \in Views : Mount(v) \/ AttachView(v) \/ Unmount(v) \/ DetachView(v)
  BY <1>2, <1>7 DEF Mount, AttachView, Unmount, DetachView, Moves, child
<1>8. CASE \E w \in Windows : CloseWindow(w)
  BY <1>2, <1>8 DEF CloseWindow, child
<1>9. CASE UNCHANGED vars
  BY <1>2, <1>9 DEF vars, core, child
<1> QED
  BY <1>3, <1>4, <1>5, <1>6, <1>7, <1>8, <1>9 DEF Next

\* THEOREM 4. While a line is typed, the machine has made of it what it read of it: it waits for the
\* answer of the shell exactly where the echo and its end were read (`echo_clears`, `on_chunk`,
\* session/capture.rs).
THEOREM LinesAreSeen == Spec => []LineStreamInv
<1>1. Init => LineStreamInv
  <2>1. Init => LineInv
    <3>1. ASSUME Init PROVE shell.at = "start"
      BY <3>1 DEF Init
    <3> QED
      BY <3>1 DEF LineInv, At
  <2> QED
    BY <2>1, InitStream DEF LineStreamInv
<1>2. LineStreamInv /\ [Next]_vars => LineStreamInv'
  <2>1. ASSUME LineStreamInv, [Next]_vars PROVE LineStreamInv'
    <3>1. StreamInv'
      BY <2>1, NextKeepsStream DEF LineStreamInv
    <3>2. LineInv'
      BY <2>1, NextKeepsLine
    <3> QED
      BY <3>1, <3>2 DEF LineStreamInv
  <2> QED
    BY <2>1
<1> QED
  BY <1>1, <1>2, PTL DEF Spec

\* The invariant gives the state of the pane.
LEMMA LinesGiveState == ASSUME LineStreamInv PROVE CommandStateIsTrue
<1>1. SUFFICES ASSUME pipe = <<>>, emitter = "receive" \/ emitter = "over", ~shell.ahead
               PROVE  /\ shell.at # "gone" \/ emitter = "over" => front.running = At("run")
                      /\ At("run") => front.command = shell.commands
                      /\ shell.at \in {"input", "run", "more"} => front.continuation = (At("more") /\ machine.mode)
  BY DEF CommandStateIsTrue
<1>2. StreamInv /\ LineInv /\ EmitterIsTyped /\ ShellIsTyped
  BY DEF LineStreamInv, StreamInv
<1>3. acts = <<>> /\ machine.told = ToldBy(front, acts) /\ Truthful(machine)
  BY <1>1, <1>2 DEF EmitterIsTyped
<1>4. front = machine.told
  <2>1. PICK f, a : f = front /\ a = acts
    OBVIOUS
  <2>2. a = <<>> /\ machine.told = ToldBy(f, a)
    BY ONLY <1>3, <2>1
  <2>3. IsSeq(<<>>)
    BY ONLY EmptyIsSeq
  <2>4. ToldBy(f, <<>>) = f
    BY ONLY <2>3, ToldFacts
  <2> QED
    BY ONLY <2>1, <2>2, <2>4
<1>5. PICK y : TrueTo(y) /\ Sync(machine, y) /\ y.running = machine.told.running
  BY <1>1, <1>2, <1>3, BlocksComeFirst
<1>6. PICK m, n : m = machine /\ n = shell.commands /\ Sync(m, y) /\ Truthful(m) /\ front = m.told
  BY <1>3, <1>4, <1>5
<1>7. HasParts(y) /\ (y.running => y.command = n) /\ Fits(y, shell.at, shell.mode)
  <2>1. HasParts(y) /\ Fits(y, shell.at, shell.mode)
    BY <1>5 DEF TrueTo, Faithful
  <2>2. Recorded(y.ended, n, written, shell.ran, y.running, y.capturing, y.command, y.captured)
    BY <1>5, <1>6 DEF TrueTo, Faithful
  <2> QED
    BY <2>1, <2>2 DEF Recorded
<1>8. m.told.running = y.running /\ (y.running => m.told.command = y.command) /\ m.mode \in BOOLEAN /\ y.running \in BOOLEAN
  BY <1>6, <1>7 DEF Sync, HasParts
<1>9. m.told.continuation = (m.submission = "continuing" /\ ~m.told.running)
  BY ONLY <1>6, Zenon DEF Truthful
<1>10. shell.at \in {"start", "input", "read", "more", "run", "done", "gone"}
  BY <1>2 DEF ShellIsTyped
<1>11. ASSUME shell.at # "gone" \/ emitter = "over" PROVE front.running = At("run")
  <2>1. CASE emitter = "over"
    <3>1. shell.at = "gone" /\ machine.told = Quiet
      BY <1>2, <2>1 DEF EmitterIsTyped
    <3>2. front.running = FALSE
      BY <1>4, <3>1 DEF Quiet
    <3>3. At("run") = FALSE
      BY <3>1 DEF At
    <3> QED
      BY ONLY <3>2, <3>3
  <2>2. CASE shell.at = "run"
    BY <1>6, <1>7, <1>8, <2>2 DEF Fits, At
  <2>3. CASE shell.at \in {"start", "input", "read", "more", "done"}
    BY <1>6, <1>7, <1>8, <2>3 DEF Fits, At
  <2> QED
    BY <1>10, <1>11, <2>1, <2>2, <2>3
<1>12. ASSUME At("run") PROVE front.command = shell.commands
  BY <1>6, <1>7, <1>8, <1>12 DEF Fits, At
<1>13. ASSUME shell.at = "input" PROVE front.continuation = FALSE
  <2>1. m.submission = "idle"
    BY <1>1, <1>2, <1>6, <1>13 DEF LineInv, At, Ready
  <2>2. m.told.continuation = FALSE
    BY ONLY <1>9, <2>1
  <2> QED
    BY <1>6, <2>2
<1>14. ASSUME shell.at = "run" PROVE front.continuation = FALSE
  <2>1. y.running
    BY <1>7, <1>14 DEF Fits
  <2>2. m.told.running
    BY <1>8, <2>1
  <2>3. m.told.continuation = FALSE
    BY ONLY <1>9, <2>2
  <2> QED
    BY <1>6, <2>3
<1>15. ASSUME shell.at = "more" PROVE front.continuation = m.mode
  <2>1. PICK d \in 0..3 : Left(pipe, "more", d) /\ Saw(m, d)
    BY <1>1, <1>2, <1>6, <1>15 DEF LineInv
  <2>2. d = 3
    <3>1. PICK l, w : l = Len(pipe) /\ w = Len(LineOf("more"))
      OBVIOUS
    <3>2. l = 0 /\ w = 3
      BY <1>1, <3>1, EmptyIsSeq, LineKinds
    <3>3. l + d = w
      BY <2>1, <3>1 DEF Left
    <3>4. d \in 0..3
      BY <2>1
    <3> QED
      BY ONLY <3>2, <3>3, <3>4
  <2>3. (m.mode => m.submission = "continuing") /\ (~m.mode => m.submission = "idle")
    BY <2>1, <2>2 DEF Saw
  <2>4. ~y.running
    BY <1>7, <1>15 DEF Fits
  <2>5. ~m.told.running
    BY <1>8, <2>4
  <2>6. m.told.continuation = m.mode
    <3>1. CASE m.mode
      <4>1. m.mode = TRUE /\ m.submission = "continuing"
        BY <1>8, <2>3, <3>1
      <4>2. m.told.continuation = TRUE
        BY ONLY <1>9, <2>5, <4>1
      <4> QED
        BY ONLY <4>1, <4>2
    <3>2. CASE ~m.mode
      <4>1. m.mode = FALSE /\ m.submission = "idle"
        BY <1>8, <2>3, <3>2
      <4>2. m.told.continuation = FALSE
        BY ONLY <1>9, <4>1
      <4> QED
        BY ONLY <4>1, <4>2
    <3> QED
      BY <3>1, <3>2
  <2> QED
    BY <1>6, <2>6
<1>16. ASSUME shell.at \in {"input", "run", "more"} PROVE front.continuation = (At("more") /\ machine.mode)
  <2>1. CASE shell.at = "input"
    <3>1. ~At("more")
      BY <2>1 DEF At
    <3> QED
      BY <1>13, <2>1, <3>1
  <2>2. CASE shell.at = "run"
    <3>1. ~At("more")
      BY <2>2 DEF At
    <3> QED
      BY <1>14, <2>2, <3>1
  <2>3. CASE shell.at = "more"
    <3>1. At("more") /\ front.continuation = m.mode
      BY <1>15, <2>3 DEF At
    <3> QED
      BY <1>6, <1>8, <3>1
  <2> QED
    BY <1>16, <2>1, <2>2, <2>3
<1> QED
  BY <1>11, <1>12, <1>16

\* THEOREM 5. When all that was written was read and no next input is ahead, the command state of the
\* pane (`CommandState`, pty/mod.rs) is that of the shell: a command runs exactly when one does, it
\* is the last one, and the shell asks for the rest of a line exactly when it does, in prompt mode.
THEOREM CommandStateHolds == Spec => []CommandStateIsTrue
BY LinesAreSeen, LinesGiveState, PTL

-----------------------------------------------------------------------------
\* The order of what is drawn: numbers, and the echoes that may come back.

\* y comes after x, or is an echo that came back to a view that attached when b had been read.
Follows(x, y, b) == x.n < y.n \/ (y.k = "echo" /\ y.n <= b)

Once(s, b)     == \A i, j \in 1..Len(s) : i < j => Follows(s[i], s[j], b)
Later(s, t, b) == \A i \in 1..Len(s) : \A j \in 1..Len(t) : Follows(s[i], t[j], b)
UpTo(s, n)     == \A i \in 1..Len(s) : s[i].n \in 1..n
Beyond(s, n)   == \A i \in 1..Len(s) : s[i].n \in Nat /\ s[i].n > n
Echoes(s)      == \A i \in 1..Len(s) : s[i].k = "echo"

\* Nothing says nothing.
LEMMA OfNothing ==
  \A b : /\ Once(<<>>, b) /\ UpTo(<<>>, b) /\ Beyond(<<>>, b) /\ Echoes(<<>>)
         /\ \A s : Later(<<>>, s, b) /\ Later(s, <<>>, b)
<1>1. Len(<<>>) = 0 /\ 1..0 = {}
  BY EmptyIsSeq
<1> QED
  BY <1>1 DEF Once, UpTo, Beyond, Later, Echoes

\* What holds of both parts and between them holds of the whole, and the other way round.
LEMMA OfParts ==
  ASSUME NEW s, NEW t, IsSeq(s), IsSeq(t), NEW b
  PROVE  /\ Once(s, b) /\ Once(t, b) /\ Later(s, t, b) <=> Once(s \o t, b)
         /\ UpTo(s, b) /\ UpTo(t, b) <=> UpTo(s \o t, b)
         /\ Beyond(s, b) /\ Beyond(t, b) <=> Beyond(s \o t, b)
         /\ Echoes(s) /\ Echoes(t) <=> Echoes(s \o t)
         /\ \A r : /\ Later(r, s, b) /\ Later(r, t, b) <=> Later(r, s \o t, b)
                   /\ Later(s, r, b) /\ Later(t, r, b) <=> Later(s \o t, r, b)
<1>1. PICK u, l, n : u = s \o t /\ l = Len(s) /\ n = Len(t)
  OBVIOUS
<1>2. /\ IsSeq(u) /\ Len(u) = l + n /\ l \in Nat /\ n \in Nat
      /\ \A i \in 1..(l + n) : u[i] = IF i <= l THEN s[i] ELSE t[i - l]
  BY <1>1, SeqConcat, SeqLen
<1>3. /\ \A i \in 1..l : i \in 1..(l + n) /\ u[i] = s[i]
      /\ \A j \in 1..n : l + j \in 1..(l + n) /\ u[l + j] = t[j]
  <2>1. ASSUME NEW i \in 1..l PROVE i \in 1..(l + n) /\ u[i] = s[i]
    BY <1>2
  <2>2. ASSUME NEW j \in 1..n PROVE l + j \in 1..(l + n) /\ u[l + j] = t[j]
    <3>1. l + j \in 1..(l + n) /\ ~(l + j <= l) /\ (l + j) - l = j
      BY <1>2
    <3> QED
      BY <1>2, <3>1
  <2> QED
    BY <2>1, <2>2
<1>4. \A k \in 1..(l + n) : k \in 1..l \/ \E j \in 1..n : k = l + j
  <2>1. ASSUME NEW k \in 1..(l + n), k \notin 1..l PROVE k - l \in 1..n /\ k = l + (k - l)
    BY <1>2, <2>1
  <2> QED
    BY <2>1
<1>5. Len(u) = l + n /\ l = Len(s) /\ n = Len(t) /\ l \in Nat /\ n \in Nat
  BY <1>1, <1>2
<1>6. Once(s, b) /\ Once(t, b) /\ Later(s, t, b) <=> Once(u, b)
  <2>1. ASSUME Once(s, b), Once(t, b), Later(s, t, b) PROVE Once(u, b)
    <3>1. ASSUME NEW i \in 1..(l + n), NEW j \in 1..(l + n), i < j PROVE Follows(u[i], u[j], b)
      <4>1. CASE i \in 1..l /\ j \in 1..l
        BY <1>3, <1>5, <2>1, <3>1, <4>1 DEF Once
      <4>2. CASE i \in 1..l /\ j \notin 1..l
        <5>1. PICK y \in 1..n : j = l + y
          BY <1>4, <4>2
        <5> QED
          BY <1>3, <1>5, <2>1, <4>2, <5>1 DEF Later
      <4>3. CASE i \notin 1..l /\ j \in 1..l
        BY <1>5, <3>1, <4>3
      <4>4. CASE i \notin 1..l /\ j \notin 1..l
        <5>1. PICK x \in 1..n, y \in 1..n : i = l + x /\ j = l + y
          BY <1>4, <4>4
        <5>2. x < y
          BY <1>5, <3>1, <5>1
        <5> QED
          BY <1>3, <1>5, <2>1, <5>1, <5>2 DEF Once
      <4> QED
        BY <4>1, <4>2, <4>3, <4>4
    <3> QED
      BY <1>5, <3>1 DEF Once
  <2>2. ASSUME Once(u, b) PROVE Once(s, b) /\ Once(t, b) /\ Later(s, t, b)
    <3>1. \A i, j \in 1..(l + n) : i < j => Follows(u[i], u[j], b)
      BY <1>5, <2>2 DEF Once
    <3>2. ASSUME NEW i \in 1..l, NEW j \in 1..l, i < j PROVE Follows(s[i], s[j], b)
      BY <1>3, <3>1, <3>2
    <3>3. ASSUME NEW i \in 1..n, NEW j \in 1..n, i < j PROVE Follows(t[i], t[j], b)
      <4>1. l + i < l + j
        BY <1>5, <3>3
      <4> QED
        BY <1>3, <3>1, <4>1
    <3>4. ASSUME NEW i \in 1..l, NEW j \in 1..n PROVE Follows(s[i], t[j], b)
      <4>1. i < l + j
        BY <1>5
      <4> QED
        BY <1>3, <3>1, <4>1
    <3> QED
      BY <1>5, <3>2, <3>3, <3>4 DEF Once, Later
  <2> QED
    BY <2>1, <2>2
<1>7. \A k \in 1..(l + n) : (\E i \in 1..l : u[k] = s[i]) \/ \E j \in 1..n : u[k] = t[j]
  <2>1. ASSUME NEW k \in 1..(l + n) PROVE (\E i \in 1..l : u[k] = s[i]) \/ \E j \in 1..n : u[k] = t[j]
    <3>1. CASE k \in 1..l
      BY <1>3, <3>1
    <3>2. CASE k \notin 1..l
      BY <1>3, <1>4, <3>2
    <3> QED
      BY <3>1, <3>2
  <2> QED
    BY <2>1
<1>8. (\A i \in 1..l : \E k \in 1..(l + n) : s[i] = u[k]) /\ (\A j \in 1..n : \E k \in 1..(l + n) : t[j] = u[k])
  <2>1. ASSUME NEW i \in 1..l PROVE \E k \in 1..(l + n) : s[i] = u[k]
    BY <1>3
  <2>2. ASSUME NEW j \in 1..n PROVE \E k \in 1..(l + n) : t[j] = u[k]
    BY <1>3
  <2> QED
    BY <2>1, <2>2
<1>9. UpTo(s, b) /\ UpTo(t, b) <=> UpTo(u, b)
  <2>1. ASSUME UpTo(s, b), UpTo(t, b) PROVE UpTo(u, b)
    BY <1>5, <1>7, <2>1 DEF UpTo
  <2>2. ASSUME UpTo(u, b) PROVE UpTo(s, b) /\ UpTo(t, b)
    BY <1>5, <1>8, <2>2 DEF UpTo
  <2> QED
    BY <2>1, <2>2
<1>10. Beyond(s, b) /\ Beyond(t, b) <=> Beyond(u, b)
  <2>1. ASSUME Beyond(s, b), Beyond(t, b) PROVE Beyond(u, b)
    BY <1>5, <1>7, <2>1 DEF Beyond
  <2>2. ASSUME Beyond(u, b) PROVE Beyond(s, b) /\ Beyond(t, b)
    BY <1>5, <1>8, <2>2 DEF Beyond
  <2> QED
    BY <2>1, <2>2
<1>11. Echoes(s) /\ Echoes(t) <=> Echoes(u)
  <2>1. ASSUME Echoes(s), Echoes(t) PROVE Echoes(u)
    BY <1>5, <1>7, <2>1 DEF Echoes
  <2>2. ASSUME Echoes(u) PROVE Echoes(s) /\ Echoes(t)
    BY <1>5, <1>8, <2>2 DEF Echoes
  <2> QED
    BY <2>1, <2>2
<1>12. ASSUME NEW r
      PROVE  /\ Later(r, s, b) /\ Later(r, t, b) <=> Later(r, u, b)
             /\ Later(s, r, b) /\ Later(t, r, b) <=> Later(u, r, b)
  <2>1. ASSUME Later(r, s, b), Later(r, t, b) PROVE Later(r, u, b)
    BY <1>5, <1>7, <2>1 DEF Later
  <2>2. ASSUME Later(r, u, b) PROVE Later(r, s, b) /\ Later(r, t, b)
    BY <1>5, <1>8, <2>2 DEF Later
  <2>3. ASSUME Later(s, r, b), Later(t, r, b) PROVE Later(u, r, b)
    BY <1>5, <1>7, <2>3 DEF Later
  <2>4. ASSUME Later(u, r, b) PROVE Later(s, r, b) /\ Later(t, r, b)
    BY <1>5, <1>8, <2>4 DEF Later
  <2> QED
    BY <2>1, <2>2, <2>3, <2>4
<1> QED
  BY <1>1, <1>6, <1>9, <1>10, <1>11, <1>12

\* What was read comes before what was not; what is true of b is true of more.
LEMMA OfBounds ==
  ASSUME NEW s, NEW n \in Nat
  PROVE  /\ UpTo(s, n) => \A t, b : Beyond(t, n) => Later(s, t, b)
         /\ UpTo(s, n) => \A m \in Nat : n <= m => UpTo(s, m)
         /\ UpTo(s, n) => \A b \in Nat : Once(s, 0) => Once(s, b)
         /\ UpTo(s, n) => \A b \in Nat : \A r : Later(r, s, 0) => Later(r, s, b)
         /\ UpTo(s, n) /\ Echoes(s) => \A r : Later(r, s, n)
         /\ UpTo(s, n) => \A b \in Nat : \A c \in Nat : b <= c => \A r : Later(r, s, b) => Later(r, s, c)
<1>1. ASSUME UpTo(s, n), NEW t, NEW b, Beyond(t, n) PROVE Later(s, t, b)
  <2>1. ASSUME NEW i \in 1..Len(s), NEW j \in 1..Len(t) PROVE s[i].n < t[j].n
    <3>1. s[i].n \in 1..n /\ t[j].n \in Nat /\ t[j].n > n
      BY <1>1 DEF UpTo, Beyond
    <3> QED
      BY <3>1
  <2> QED
    BY <2>1 DEF Later, Follows
<1>2. ASSUME UpTo(s, n), NEW m \in Nat, n <= m PROVE UpTo(s, m)
  BY <1>2 DEF UpTo
<1>3. ASSUME NEW x, NEW y, NEW b \in Nat, NEW c \in Nat, b <= c, y.n \in 1..n, Follows(x, y, b) PROVE Follows(x, y, c)
  BY <1>3 DEF Follows
<1>4. ASSUME UpTo(s, n), NEW b \in Nat, Once(s, 0) PROVE Once(s, b)
  BY <1>3, <1>4 DEF Once, UpTo
<1>5. ASSUME UpTo(s, n), NEW b \in Nat, NEW c \in Nat, b <= c, NEW r, Later(r, s, b) PROVE Later(r, s, c)
  BY <1>3, <1>5 DEF Later, UpTo
<1>6. ASSUME UpTo(s, n), Echoes(s), NEW r PROVE Later(r, s, n)
  BY <1>6 DEF Later, UpTo, Echoes, Follows
<1> QED
  BY <1>1, <1>2, <1>4, <1>5, <1>6

\* What is painted of what is painted
LEMMA PaintedTwice ==
  \A s : IsSeq(s) => Painted(Painted(s)) = Painted(s) /\ \A i \in 1..Len(Painted(s)) : Paints(Painted(s)[i])
<1> DEFINE P(s) == Painted(Painted(s)) = Painted(s) /\ \A i \in 1..Len(Painted(s)) : Paints(Painted(s)[i])
           N == {n \in Nat : \A s : IsSeq(s) /\ Len(s) = n => P(s)}
<1>1. 0 \in N
  <2>1. ASSUME NEW s, IsSeq(s), Len(s) = 0 PROVE P(s)
    <3>1. s = <<>> /\ Painted(s) = <<>> /\ Len(<<>>) = 0
      BY <2>1, SeqLen, PaintedFacts, EmptyIsSeq
    <3> QED
      BY <3>1
  <2> QED
    BY <2>1
<1>2. ASSUME NEW n \in Nat, n \in N PROVE n + 1 \in N
  <2>1. ASSUME NEW s, IsSeq(s), Len(s) = n + 1 PROVE P(s)
    <3>1. PICK f, e : IsSeq(f) /\ Len(f) = n /\ s = f \o <<e>>
      <4>1. s # <<>>
        BY <2>1, SeqLen
      <4>2. PICK f, e : IsSeq(f) /\ s = Append(f, e) /\ Len(s) = Len(f) + 1
        BY <2>1, <4>1, SeqSplitLast
      <4>3. Len(f) = n
        BY <2>1, <4>2, SeqLen
      <4>4. s = f \o <<e>>
        BY <4>2, SeqAppend
      <4> QED
        BY <4>2, <4>3, <4>4
    <3>2. PICK o, p, q : o = <<e>> /\ p = Painted(f) /\ q = Painted(o) /\ IsSeq(o)
      BY OneIsSeq
    <3>3. Painted(s) = p \o q /\ IsSeq(p) /\ IsSeq(q)
      BY <3>1, <3>2, PaintedConcat, PaintedFacts
    <3>4. Painted(p \o q) = Painted(p) \o Painted(q)
      BY <3>3, PaintedConcat
    <3>5. P(f)
      BY <1>2, <3>1
    <3>6. Painted(q) = q /\ \A i \in 1..Len(q) : Paints(q[i])
      <4>1. CASE Paints(e)
        <5>1. q = o
          BY <3>2, <4>1, PaintedFacts
        <5> QED
          BY <3>2, <4>1, <5>1, OneIsSeq
      <4>2. CASE ~Paints(e)
        <5>1. q = <<>>
          BY <3>2, <4>2, PaintedFacts
        <5> QED
          BY <5>1, PaintedFacts, EmptyIsSeq
      <4> QED
        BY <4>1, <4>2
    <3>7. \A i \in 1..Len(p \o q) : Paints((p \o q)[i])
      <4>1. PICK u, l, k : u = p \o q /\ l = Len(p) /\ k = Len(q)
        OBVIOUS
      <4>2. /\ Len(u) = l + k /\ l \in Nat /\ k \in Nat
            /\ \A i \in 1..(l + k) : u[i] = IF i <= l THEN p[i] ELSE q[i - l]
        BY <3>3, <4>1, SeqConcat, SeqLen
      <4>3. ASSUME NEW i \in 1..(l + k) PROVE Paints(u[i])
        <5>1. CASE i <= l
          <6>1. u[i] = p[i] /\ i \in 1..Len(p)
            BY <4>1, <4>2, <5>1
          <6> QED
            BY <3>2, <3>5, <6>1
        <5>2. CASE ~(i <= l)
          <6>1. u[i] = q[i - l] /\ i - l \in 1..Len(q)
            BY <4>1, <4>2, <5>2
          <6> QED
            BY <3>6, <6>1
        <5> QED
          BY <5>1, <5>2
      <4> QED
        BY <4>1, <4>2, <4>3
    <3> QED
      BY <3>2, <3>3, <3>4, <3>5, <3>6, <3>7
  <2> QED
    BY <2>1
<1> HIDE DEF N
<1>3. Nat \subseteq N
  BY <1>1, <1>2, SetInduction
<1>4. ASSUME NEW s, IsSeq(s) PROVE P(s)
  BY <1>3, <1>4, SeqLen DEF N
<1> QED
  BY <1>4

-----------------------------------------------------------------------------
\* What a list of actions does to a screen.

\* What ApplyAll unfolds to
IsApplying(g, x, p, n) == g = [i \in 0..n |-> IF i = 0 THEN x ELSE Apply(g[i - 1], p[i])]
AppliedSoFar(x, p, n) == (CHOOSE g : IsApplying(g, x, p, n))[n]
Applied(x, p) == AppliedSoFar(x, p, Len(p))

\* Such a function exists for every length,
LEMMA ApplyingExists == ASSUME NEW x, NEW p PROVE \A n \in Nat : \E g : IsApplying(g, x, p, n)
<1> DEFINE S == {n \in Nat : \E g : IsApplying(g, x, p, n)}
<1>1. 0 \in S
  <2>1. IsApplying([i \in 0..0 |-> x], x, p, 0)
    BY DEF IsApplying
  <2> QED
    BY <2>1
<1>2. ASSUME NEW n \in Nat, n \in S PROVE n + 1 \in S
  <2>1. PICK g : IsApplying(g, x, p, n)
    BY <1>2
  <2> DEFINE h == [i \in 0..(n + 1) |-> IF i = n + 1 THEN Apply(g[n], p[n + 1]) ELSE g[i]]
  <2>2. IsApplying(h, x, p, n + 1)
    BY <2>1 DEF IsApplying
  <2> QED
    BY <2>2
<1> HIDE DEF S
<1>3. Nat \subseteq S
  BY <1>1, <1>2, SetInduction
<1> QED
  BY <1>3 DEF S

\* and two of them agree on what they share.
LEMMA ApplyingAgrees ==
  ASSUME NEW x, NEW p, NEW q, NEW n \in Nat, NEW m \in Nat, n <= m, \A i \in 1..n : p[i] = q[i],
         NEW g, NEW h, IsApplying(g, x, p, n), IsApplying(h, x, q, m)
  PROVE  \A i \in 0..n : g[i] = h[i]
<1> DEFINE S == {i \in Nat : i <= n => g[i] = h[i]}
<1>1. 0 \in S
  BY DEF IsApplying
<1>2. ASSUME NEW i \in Nat, i \in S PROVE i + 1 \in S
  <2> SUFFICES ASSUME i + 1 <= n PROVE g[i + 1] = h[i + 1]
    OBVIOUS
  <2>1. g[i + 1] = Apply(g[i], p[i + 1]) /\ h[i + 1] = Apply(h[i], q[i + 1])
    BY DEF IsApplying
  <2>2. g[i] = h[i] /\ p[i + 1] = q[i + 1]
    BY <1>2
  <2> QED
    BY <2>1, <2>2
<1> HIDE DEF S
<1>3. Nat \subseteq S
  BY <1>1, <1>2, SetInduction
<1> QED
  BY <1>3 DEF S

\* No action changes nothing.
LEMMA AppliedNothing == ASSUME NEW x PROVE Applied(x, <<>>) = x
<1>1. Len(<<>>) = 0
  BY EmptyIsSeq
<1>2. PICK g : IsApplying(g, x, <<>>, 0) /\ AppliedSoFar(x, <<>>, 0) = g[0]
  BY ApplyingExists DEF AppliedSoFar
<1> QED
  BY <1>1, <1>2 DEF IsApplying, Applied

\* One action more
LEMMA AppliedAppend ==
  ASSUME NEW x, NEW p, IsSeq(p), NEW t
  PROVE  Applied(x, Append(p, t)) = Apply(Applied(x, p), t)
<1>1. PICK q, n : q = Append(p, t) /\ n = Len(p)
  OBVIOUS
<1>2. n \in Nat /\ Len(q) = n + 1 /\ q[n + 1] = t /\ \A i \in 1..n : p[i] = q[i]
  BY <1>1, SeqLen, SeqAppend
<1>3. PICK g : IsApplying(g, x, p, n) /\ Applied(x, p) = g[n]
  BY <1>1, <1>2, ApplyingExists DEF Applied, AppliedSoFar
<1>4. PICK h : IsApplying(h, x, q, n + 1) /\ Applied(x, q) = h[n + 1]
  <2>1. n + 1 \in Nat
    BY <1>2
  <2>2. \E h : IsApplying(h, x, q, n + 1)
    BY <2>1, ApplyingExists
  <2> QED
    BY <1>2, <2>2 DEF Applied, AppliedSoFar
<1>5. \A i \in 0..n : g[i] = h[i]
  <2>1. n <= n + 1 /\ n + 1 \in Nat
    BY <1>2
  <2> QED
    BY <1>2, <1>3, <1>4, <2>1, ApplyingAgrees
<1>6. h[n + 1] = Apply(h[n], q[n + 1])
  BY <1>2, <1>4 DEF IsApplying
<1>7. g[n] = h[n]
  BY <1>2, <1>5
<1> QED
  BY <1>1, <1>2, <1>3, <1>4, <1>6, <1>7

\* One action
LEMMA AppliedOne == ASSUME NEW x, NEW t PROVE Applied(x, <<t>>) = Apply(x, t)
<1>1. Append(<<>>, t) = <<t>> /\ IsSeq(<<>>)
  BY OneIsSeq, EmptyIsSeq
<1>2. Applied(x, Append(<<>>, t)) = Apply(Applied(x, <<>>), t)
  BY <1>1, AppliedAppend
<1> QED
  BY <1>1, <1>2, AppliedNothing

\* Actions are applied part by part.
LEMMA AppliedConcat ==
  ASSUME NEW x, NEW p, IsSeq(p)
  PROVE  \A q : IsSeq(q) => Applied(x, p \o q) = Applied(Applied(x, p), q)
<1> DEFINE P(q) == Applied(x, p \o q) = Applied(Applied(x, p), q)
           N == {n \in Nat : \A q : IsSeq(q) /\ Len(q) = n => P(q)}
<1>1. 0 \in N
  <2>1. ASSUME NEW q, IsSeq(q), Len(q) = 0 PROVE P(q)
    BY <2>1, SeqLen, EmptyIsSeq, AppliedNothing
  <2> QED
    BY <2>1
<1>2. ASSUME NEW n \in Nat, n \in N PROVE n + 1 \in N
  <2> SUFFICES ASSUME NEW q, IsSeq(q), Len(q) = n + 1 PROVE P(q)
    OBVIOUS
  <2>1. q # <<>>
    BY SeqLen
  <2>2. PICK u, e : IsSeq(u) /\ q = Append(u, e) /\ Len(q) = Len(u) + 1
    BY <2>1, SeqSplitLast
  <2>3. Len(u) = n
    BY <2>2, SeqLen
  <2>4. P(u)
    BY <1>2, <2>2, <2>3
  <2>5. PICK v, w : v = p \o u /\ w = p \o q
    OBVIOUS
  <2>6. IsSeq(v)
    BY <2>2, <2>5, SeqConcat
  <2>7. w = Append(v, e)
    BY <2>2, <2>5, ConcatAppend
  <2>8. Applied(x, w) = Apply(Applied(x, v), e)
    BY <2>6, <2>7, AppliedAppend
  <2>9. PICK y : y = Applied(x, p)
    OBVIOUS
  <2>10. Applied(y, q) = Apply(Applied(y, u), e)
    BY <2>2, AppliedAppend
  <2>11. Applied(x, v) = Applied(y, u)
    BY <2>4, <2>5, <2>9
  <2> QED
    BY <2>5, <2>8, <2>9, <2>10, <2>11
<1> HIDE DEF N
<1>3. Nat \subseteq N
  BY <1>1, <1>2, SetInduction
<1> QED
  BY <1>3, SeqLen DEF N

\* An action leaves who is attached alone.
LEMMA ApplyShape ==
  ASSUME NEW s, HasShape(s), NEW x
  PROVE  HasShape(Apply(s, x)) /\ Apply(s, x).attachers = s.attachers
<1>1. \A p : HasShape([s EXCEPT !.pending = p]) /\ [s EXCEPT !.pending = p].attachers = s.attachers
  BY DEF HasShape
<1>2. HasShape([s EXCEPT !.core = <<>>]) /\ [s EXCEPT !.core = <<>>].attachers = s.attachers
  BY DEF HasShape
<1>3. ASSUME NEW p
      PROVE  HasShape([s EXCEPT !.core = <<>>, !.pending = p]) /\ [s EXCEPT !.core = <<>>, !.pending = p].attachers = s.attachers
  <2>1. PICK no : no = <<>>
    OBVIOUS
  <2>2. PICK z : z = [s EXCEPT !.core = no, !.pending = p]
    OBVIOUS
  <2>3. z = [core |-> no, pending |-> p, attachers |-> s.attachers]
    BY <2>2 DEF HasShape
  <2>4. z.core = no /\ z.pending = p /\ z.attachers = s.attachers
    BY <2>3
  <2>5. HasShape(z)
    BY <2>3, <2>4 DEF HasShape
  <2> QED
    BY <2>1, <2>2, <2>4, <2>5
<1>4. CASE x.do \in {"live", "echo"}
  BY ONLY <1>1, <1>4, HasShape(s) DEF Apply
<1>5. CASE x.do = "restart"
  BY <1>1, <1>5 DEF Apply
<1>6. CASE x.do = "clear core"
  BY <1>2, <1>6 DEF Apply
<1>7. CASE x.do = "reset"
  BY <1>3, <1>7 DEF Apply
<1>8. CASE x.do \notin {"live", "echo", "restart", "clear core", "reset"}
  BY <1>8 DEF Apply
<1> QED
  BY <1>4, <1>5, <1>6, <1>7, <1>8

\* Actions keep the shape of a screen, and who is attached.
LEMMA AppliedShape ==
  ASSUME NEW s, HasShape(s)
  PROVE  \A a : IsSeq(a) => HasShape(Applied(s, a)) /\ Applied(s, a).attachers = s.attachers
<1> DEFINE P(a) == HasShape(Applied(s, a)) /\ Applied(s, a).attachers = s.attachers
           N == {n \in Nat : \A a : IsSeq(a) /\ Len(a) = n => P(a)}
<1>1. 0 \in N
  <2>1. ASSUME NEW a, IsSeq(a), Len(a) = 0 PROVE P(a)
    BY <2>1, SeqLen, AppliedNothing
  <2> QED
    BY <2>1
<1>2. ASSUME NEW n \in Nat, n \in N PROVE n + 1 \in N
  <2> SUFFICES ASSUME NEW a, IsSeq(a), Len(a) = n + 1 PROVE P(a)
    OBVIOUS
  <2>1. a # <<>>
    BY SeqLen
  <2>2. PICK u, e : IsSeq(u) /\ a = Append(u, e) /\ Len(a) = Len(u) + 1
    BY <2>1, SeqSplitLast
  <2>3. Len(u) = n
    BY <2>2, SeqLen
  <2>4. P(u)
    BY <1>2, <2>2, <2>3
  <2>5. Applied(s, a) = Apply(Applied(s, u), e)
    BY <2>2, AppliedAppend
  <2> QED
    BY <2>4, <2>5, ApplyShape
<1> HIDE DEF N
<1>3. Nat \subseteq N
  BY <1>1, <1>2, SetInduction
<1> QED
  BY <1>3, SeqLen DEF N

\* ApplyAll is what the actions do one after the other.
LEMMA ApplyAllIs ==
  ASSUME NEW s, HasShape(s), NEW a, IsSeq(a)
  PROVE  ApplyAll(s, a) = Applied(s, a)
<1>1. PICK n : n = Len(a)
  OBVIOUS
<1>2. ApplyAll(s, a) = LET z == AppliedSoFar(s, a, n) IN [core |-> z.core, pending |-> z.pending, attachers |-> s.attachers]
  BY <1>1 DEF ApplyAll, AppliedSoFar, IsApplying
<1>3. PICK z : z = Applied(s, a) /\ z = AppliedSoFar(s, a, n)
  BY <1>1 DEF Applied
<1>4. HasShape(z) /\ z.attachers = s.attachers
  BY <1>3, AppliedShape
<1>5. ApplyAll(s, a) = [core |-> z.core, pending |-> z.pending, attachers |-> z.attachers]
  BY <1>2, <1>3, <1>4
<1> QED
  BY <1>3, <1>4, <1>5 DEF HasShape

\* The place of the last clear
LEMMA LastClear ==
  ASSUME NEW n \in Nat, NEW T, T \subseteq 1..n, T # {}
  PROVE  Max(T) \in 1..n
<1> DEFINE U == {n - i : i \in T}
<1>1. U \subseteq Nat /\ U # {}
  OBVIOUS
<1>2. PICK u \in U : \A k \in U : u <= k
  BY <1>1, LeastNumber
<1>3. PICK x \in T : u = n - x
  BY <1>2
<1>4. \A y \in T : x >= y
  <2>1. ASSUME NEW y \in T PROVE x >= y
    <3>1. n - y \in U /\ u <= n - y
      BY <1>2
    <3> QED
      BY <1>3, <3>1
  <2> QED
    BY <2>1
<1>5. Max(T) = CHOOSE z \in T : \A y \in T : z >= y
  BY DEF Max
<1> QED
  BY <1>4, <1>5

EndsWith(s, t, d) == \E p : IsSeq(p) /\ s \o t = p \o d

\* A terminal shows the end of what it had and was sent.
LEMMA DrawSplits ==
  ASSUME NEW s, IsSeq(s), NEW b, IsSeq(b), NEW d, d = Draw(s, b)
  PROVE  IsSeq(d) /\ EndsWith(s, Painted(b), d)
<1>1. PICK clears, n : clears = {i \in DOMAIN b : b[i] = Clear} /\ n = Len(b)
  OBVIOUS
<1>2. n \in Nat /\ clears \subseteq 1..n /\ IsSeq(Painted(b))
  BY <1>1, SeqLen, PaintedFacts
<1>3. CASE clears = {}
  <2>1. d = s \o Painted(b)
    BY <1>1, <1>3 DEF Draw
  <2>2. IsSeq(d)
    BY <1>2, <2>1, SeqConcat
  <2>3. IsSeq(<<>>) /\ <<>> \o d = d
    BY <2>2, EmptyIsSeq
  <2> QED
    BY <2>1, <2>2, <2>3 DEF EndsWith
<1>4. CASE clears # {}
  <2>1. PICK m : m = Max(clears) /\ m \in 1..n
    BY <1>2, <1>4, LastClear
  <2>2. PICK v, w : v = SubSeq(b, 1, m) /\ w = SubSeq(b, m + 1, n)
    OBVIOUS
  <2>3. IsSeq(v) /\ IsSeq(w) /\ b = v \o w
    BY <1>1, <2>1, <2>2, ChunkSplits
  <2>4. d = Painted(w)
    BY <1>1, <1>4, <2>1, <2>2 DEF Draw
  <2>5. PICK x, y : x = Painted(v) /\ y = s \o x
    OBVIOUS
  <2>6. IsSeq(x) /\ IsSeq(d) /\ IsSeq(y)
    BY <2>3, <2>4, <2>5, PaintedFacts, SeqConcat
  <2>7. Painted(b) = x \o d
    BY <2>3, <2>4, <2>5, PaintedConcat
  <2>8. (s \o x) \o d = s \o (x \o d)
    BY ONLY IsSeq(s), <2>6, SeqAssociates
  <2> QED
    BY <2>5, <2>6, <2>7, <2>8 DEF EndsWith
<1> QED
  BY <1>3, <1>4

\* What a view shows is in order when it was and what it is sent follows.
LEMMA DrawKeeps ==
  ASSUME NEW s, IsSeq(s), NEW b, IsSeq(b), NEW d, d = Draw(s, b), NEW n, NEW at,
         UpTo(s, n), UpTo(Painted(b), n), Once(s, at), Once(Painted(b), at), Later(s, Painted(b), at)
  PROVE  /\ IsSeq(d) /\ UpTo(d, n) /\ Once(d, at)
         /\ \A r : Later(s, r, at) /\ Later(Painted(b), r, at) => Later(d, r, at)
<1>0. IsSeq(d) /\ EndsWith(s, Painted(b), d)
  BY ONLY IsSeq(s), IsSeq(b), d = Draw(s, b), DrawSplits
<1>1. PICK p : IsSeq(p) /\ IsSeq(d) /\ s \o Painted(b) = p \o d
  BY ONLY <1>0 DEF EndsWith
<1>2. PICK q : q = Painted(b) /\ IsSeq(q)
  BY PaintedFacts
<1>3. UpTo(p \o d, n) /\ Once(p \o d, at)
  <2>1. UpTo(s \o q, n) /\ Once(s \o q, at)
    BY <1>2, OfParts
  <2> QED
    BY <1>1, <1>2, <2>1
<1>4. UpTo(d, n) /\ Once(d, at)
  BY <1>1, <1>3, OfParts
<1>5. ASSUME NEW r, Later(s, r, at), Later(q, r, at) PROVE Later(d, r, at)
  <2>1. Later(s \o q, r, at)
    BY <1>2, <1>5, OfParts
  <2>2. Later(p \o d, r, at)
    BY <1>1, <1>2, <2>1
  <2> QED
    BY <1>1, <2>2, OfParts
<1> QED
  BY <1>1, <1>2, <1>4, <1>5

-----------------------------------------------------------------------------
\* What an action may send without drawing twice.

\* Bytes that may be sent to every view
Sendable(b, n) ==
  /\ IsSeq(b) /\ UpTo(Painted(b), n) /\ Once(Painted(b), 0)
  /\ \A v \in Views : Later(shown[v], Painted(b), since[v])

\* A screen whose glyphs are in order, and what is queued sendable
InOrder(s, n) ==
  /\ HasShape(s)
  /\ IsSeq(s.core) /\ UpTo(Painted(s.core), n) /\ Once(Painted(s.core), 0)
  /\ Sendable(s.pending, n)

\* After b the screen is in order if it was after a.
Harmless(a, b, n) ==
  IsSeq(b) /\ \A s : HasShape(s) /\ InOrder(Applied(s, a), n) => InOrder(Applied(s, b), n)

\* The escape that clears the screen paints nothing.
LEMMA ClearUnpainted == IsSeq(<<Clear>>) /\ Painted(<<Clear>>) = <<>>
<1>1. PICK z : z = Clear
  OBVIOUS
<1>2. z.k = "clear"
  BY <1>1 DEF Clear, Mark
<1>3. ~Paints(z)
  BY ONLY <1>2 DEF Paints
<1>4. IsSeq(<<z>>) /\ Painted(<<z>>) = <<>>
  BY ONLY <1>3, OneIsSeq, PaintedFacts
<1> QED
  BY <1>1, <1>4

\* Nothing, and that escape, may be sent.
LEMMA NothingToSend == \A n : Sendable(<<>>, n) /\ Sendable(<<Clear>>, n)
<1>1. IsSeq(<<>>) /\ Painted(<<>>) = <<>>
  BY EmptyIsSeq, PaintedFacts
<1> QED
  BY <1>1, ClearUnpainted, OfNothing DEF Sendable

\* A part of what may be sent may be sent.
LEMMA SendPart ==
  ASSUME NEW c, NEW n, Sendable(c, n), NEW f \in 1..(Len(c) + 1), NEW r, r = Rest(c, f)
  PROVE  /\ Sendable(r, n) /\ Sendable(Painted(r), n)
         /\ \E p : IsSeq(p) /\ IsSeq(r) /\ c = p \o r
<1>1. Len(c) \in Nat /\ IsSeq(c)
  BY SeqLen DEF Sendable
<1>2. \E p : IsSeq(p) /\ IsSeq(r) /\ c = p \o r
  <2>1. CASE f = 1
    <3>1. r = c
      BY <1>1, <2>1, SubSeqWhole DEF Rest
    <3>2. IsSeq(<<>>) /\ <<>> \o c = c
      BY <1>1, EmptyIsSeq
    <3> QED
      BY <1>1, <3>1, <3>2
  <2>2. CASE f # 1
    <3>1. PICK k : k = f - 1 /\ k \in 1..Len(c) /\ k + 1 = f
      BY <1>1, <2>2
    <3>2. PICK p, q : p = SubSeq(c, 1, k) /\ q = SubSeq(c, k + 1, Len(c))
      OBVIOUS
    <3>3. IsSeq(p) /\ IsSeq(q) /\ c = p \o q
      BY <1>1, <3>1, <3>2, ChunkSplits
    <3>4. r = q
      BY <3>1, <3>2 DEF Rest
    <3> QED
      BY <3>3, <3>4
  <2> QED
    BY <2>1, <2>2
<1>3. PICK p : IsSeq(p) /\ IsSeq(r) /\ c = p \o r
  BY <1>2
<1>4. PICK x, y : x = Painted(p) /\ y = Painted(r) /\ IsSeq(x) /\ IsSeq(y)
  BY <1>3, PaintedFacts
<1>5. Painted(c) = x \o y
  BY <1>3, <1>4, PaintedConcat
<1>6. UpTo(x \o y, n) /\ Once(x \o y, 0) /\ \A v \in Views : Later(shown[v], x \o y, since[v])
  BY <1>5 DEF Sendable
<1>7. UpTo(y, n) /\ Once(y, 0) /\ \A v \in Views : Later(shown[v], y, since[v])
  BY <1>4, <1>6, OfParts
<1>8. Sendable(r, n)
  BY <1>3, <1>4, <1>7 DEF Sendable
<1>9. Painted(y) = y
  BY <1>3, <1>4, PaintedTwice
<1>10. Sendable(y, n)
  BY <1>4, <1>7, <1>9 DEF Sendable
<1> QED
  BY <1>2, <1>4, <1>8, <1>10

\* What is sent after what is queued
LEMMA SendMore ==
  ASSUME NEW b, NEW c, NEW n, Sendable(b, n), Sendable(c, n), Later(Painted(b), Painted(c), 0)
  PROVE  Sendable(b \o c, n)
<1>1. IsSeq(b) /\ IsSeq(c)
  BY DEF Sendable
<1>2. PICK x, y : x = Painted(b) /\ y = Painted(c)
  OBVIOUS
<1>3. IsSeq(x) /\ IsSeq(y) /\ IsSeq(b \o c) /\ Painted(b \o c) = x \o y
  BY <1>1, <1>2, PaintedFacts, SeqConcat, PaintedConcat
<1>4. /\ UpTo(x, n) /\ UpTo(y, n) /\ Once(x, 0) /\ Once(y, 0) /\ Later(x, y, 0)
      /\ \A v \in Views : Later(shown[v], x, since[v]) /\ Later(shown[v], y, since[v])
  BY <1>2 DEF Sendable
<1>5. UpTo(x \o y, n) /\ Once(x \o y, 0)
  BY ONLY <1>3, <1>4, OfParts
<1>6. ASSUME NEW v \in Views PROVE Later(shown[v], x \o y, since[v])
  <2>1. Later(shown[v], x, since[v]) /\ Later(shown[v], y, since[v])
    BY <1>4
  <2> QED
    BY ONLY <1>3, <2>1, OfParts
<1> QED
  BY <1>3, <1>5, <1>6 DEF Sendable

\* What an action makes of a screen in order
LEMMA ApplyInOrder ==
  ASSUME NEW s, NEW n, InOrder(s, n), NEW x
  PROVE  /\ x.do \in {"state", "block", "clear core", "reset"} => InOrder(Apply(s, x), n)
         /\ x.do = "restart" /\ Sendable(x.with, n) => InOrder(Apply(s, x), n)
         /\ x.do \in {"live", "echo"} /\ Sendable(x.with, n) /\ Later(Painted(s.pending), Painted(x.with), 0) =>
              InOrder(Apply(s, x), n)
<1>1. PICK no, cl : no = <<>> /\ cl = <<Clear>>
  OBVIOUS
<1>2. /\ IsSeq(no) /\ Painted(no) = no /\ UpTo(no, n) /\ Once(no, 0) /\ Sendable(no, n) /\ Sendable(cl, n)
      /\ Painted(cl) = no
  <2>1. Painted(cl) = no
    BY <1>1, ClearUnpainted
  <2> QED
    BY <1>1, <2>1, EmptyIsSeq, PaintedFacts, NothingToSend, OfNothing
<1>3. HasShape(s)
  BY DEF InOrder
<1>4. ASSUME NEW t, HasShape(t), t.core = s.core \/ t.core = no, Sendable(t.pending, n)
      PROVE  InOrder(t, n)
  BY <1>2, <1>4 DEF InOrder
<1>5. Sendable(s.pending, n)
  BY DEF InOrder
<1>6. ASSUME NEW p, Sendable(p, n)
      PROVE  InOrder([s EXCEPT !.pending = p], n)
  <2>1. PICK t : t = [s EXCEPT !.pending = p]
    OBVIOUS
  <2>2. HasShape(t) /\ t.core = s.core /\ t.pending = p
    BY <1>3, <2>1 DEF HasShape
  <2> QED
    BY <1>4, <1>6, <2>1, <2>2
<1>7. ASSUME x.do \in {"state", "block"} PROVE InOrder(Apply(s, x), n)
  <2>1. Apply(s, x) = s
    BY <1>7 DEF Apply
  <2> QED
    BY <2>1
<1>8. ASSUME x.do = "clear core" PROVE InOrder(Apply(s, x), n)
  <2>1. PICK t : t = [s EXCEPT !.core = no]
    OBVIOUS
  <2>2. HasShape(t) /\ t.core = no /\ t.pending = s.pending
    BY <1>3, <2>1 DEF HasShape
  <2>3. Apply(s, x) = t
    BY <1>1, <1>8, <2>1 DEF Apply
  <2> QED
    BY <1>4, <1>5, <2>2, <2>3
<1>9. ASSUME x.do = "reset" PROVE InOrder(Apply(s, x), n)
  <2>1. PICK p : p = (IF Attached(s) THEN cl ELSE no) /\ Sendable(p, n)
    BY <1>2
  <2>2. PICK t : t = [s EXCEPT !.core = no, !.pending = p]
    OBVIOUS
  <2>3. t = [core |-> no, pending |-> p, attachers |-> s.attachers]
    BY <1>3, <2>2 DEF HasShape
  <2>4. HasShape(t) /\ t.core = no /\ t.pending = p
    BY <1>3, <2>3 DEF HasShape
  <2>5. Apply(s, x) = t
    BY <1>1, <1>9, <2>1, <2>2 DEF Apply
  <2> QED
    BY <1>4, <2>1, <2>4, <2>5
<1>10. ASSUME x.do = "restart", Sendable(x.with, n) PROVE InOrder(Apply(s, x), n)
  <2>1. Later(Painted(cl), Painted(x.with), 0)
    BY <1>1, <1>2, OfNothing
  <2>2. Sendable(cl \o x.with, n)
    BY <1>2, <1>10, <2>1, SendMore
  <2>3. PICK p : p = cl \o x.with /\ Sendable(p, n)
    BY <2>2
  <2>4. Apply(s, x) = IF Attached(s) THEN [s EXCEPT !.pending = p] ELSE s
    BY <1>1, <1>10, <2>3 DEF Apply
  <2> QED
    BY <1>6, <2>3, <2>4
<1>11. ASSUME x.do \in {"live", "echo"}, Sendable(x.with, n), Later(Painted(s.pending), Painted(x.with), 0)
       PROVE  InOrder(Apply(s, x), n)
  <2>1. PICK p : p = s.pending \o x.with /\ Sendable(p, n)
    BY <1>5, <1>11, SendMore
  <2>2. Apply(s, x) = IF Attached(s) THEN [s EXCEPT !.pending = p] ELSE s
    BY <1>11, <2>1 DEF Apply
  <2> QED
    BY <1>6, <2>1, <2>2
<1> QED
  BY <1>7, <1>8, <1>9, <1>10, <1>11

\* An action that writes nothing
Mute(x) == x.do \in {"state", "block", "clear core", "reset"}

\* What follows harmless actions
LEMMA HarmlessMore ==
  ASSUME NEW n, NEW a, NEW b, Harmless(a, b, n), NEW x, Mute(x) \/ (x.do = "restart" /\ Sendable(x.with, n))
  PROVE  Harmless(a, Append(b, x), n)
<1>1. IsSeq(b) /\ IsSeq(Append(b, x))
  BY SeqAppend DEF Harmless
<1>2. ASSUME NEW s, HasShape(s), InOrder(Applied(s, a), n) PROVE InOrder(Applied(s, Append(b, x)), n)
  <2>1. InOrder(Applied(s, b), n)
    BY <1>2 DEF Harmless
  <2>2. InOrder(Apply(Applied(s, b), x), n)
    BY <2>1, ApplyInOrder DEF Mute
  <2>3. Applied(s, Append(b, x)) = Apply(Applied(s, b), x)
    BY <1>1, AppliedAppend
  <2> QED
    BY <2>2, <2>3
<1> QED
  BY <1>1, <1>2 DEF Harmless

\* A list of actions adds nothing to itself.
LEMMA HarmlessItself == ASSUME NEW n, NEW a, IsSeq(a) PROVE Harmless(a, a, n)
  BY DEF Harmless

-----------------------------------------------------------------------------
\* The events of a chunk send only that.

\* What a step has, when it is built
LEMMA StepParts ==
  ASSUME NEW a, NEW b, NEW s, NEW e, NEW f, NEW g, NEW h, NEW l, NEW ac, NEW sc,
         NEW q, q = Carried(Mach(a, b, s, e, f, g, h, l), ac, sc)
  PROVE  /\ Whole(q) /\ q.m.swallow = s /\ q.m.echo = e /\ q.m.submission = f /\ q.m.mode = l
         /\ q.acts = ac /\ q.scan = sc
<1>1. PICK mm : mm = Mach(a, b, s, e, f, g, h, l)
  OBVIOUS
<1>2. Fields(mm) /\ mm.swallow = s /\ mm.echo = e /\ mm.submission = f /\ mm.mode = l
  BY <1>1 DEF Fields, Mach
<1>3. q = Carried(mm, ac, sc)
  BY <1>1
<1>4. Whole(q) /\ q.m = mm /\ q.acts = ac /\ q.scan = sc
  BY <1>2, <1>3, WholeOf
<1> QED
  BY <1>2, <1>4

\* What the end of a command adds is harmless.
LEMMA EndIsHarmless ==
  ASSUME NEW r, Whole(r), NEW a, IsSeq(a), NEW n, Harmless(a, r.acts, n)
  PROVE  Harmless(a, Append(EndActs(r), State(Quiet)), n)
<1>1. PICK u, no : u = r.acts /\ no = <<>>
  OBVIOUS
<1>2. IsSeq(u) /\ Harmless(a, u, n)
  BY <1>1 DEF Harmless
<1>3. PICK st, re, bl : st = State(Quiet) /\ re = Act("reset", <<>>) /\ bl = BlockOf(r.m)
  OBVIOUS
<1>4. st.do = "state" /\ re.do = "reset" /\ bl.do = "block"
  BY <1>3 DEF State, Act, BlockOf
<1>5. ASSUME NEW b, Harmless(a, b, n), NEW x, Mute(x)
      PROVE  Harmless(a, Append(b, x), n) /\ Append(b, x) = b \o <<x>>
  <2>1. IsSeq(b)
    BY <1>5 DEF Harmless
  <2>2. Harmless(a, Append(b, x), n)
    <3>1. IsSeq(a) /\ Harmless(a, b, n) /\ Mute(x)
      BY <1>5
    <3> QED
      BY ONLY <3>1, HarmlessMore
  <2>3. Append(b, x) = b \o <<x>>
    BY ONLY <2>1, SeqAppend
  <2> QED
    BY <2>2, <2>3
<1>6. PICK v : v = EndActs(r)
  OBVIOUS
<1>7. Harmless(a, v, n)
  <2>1. CASE ~r.m.capturing
    <3>1. v = u
      BY <1>1, <1>6, <2>1 DEF EndActs
    <3> QED
      BY <1>2, <3>1
  <2>2. CASE r.m.capturing /\ r.m.command = NoCommand
    <3>1. v = u \o no \o <<re>>
      BY <1>1, <1>3, <1>6, <2>2 DEF EndActs
    <3>2. u \o no = u
      BY <1>1, <1>2, EmptyIsSeq
    <3>3. v = u \o <<re>>
      BY <3>1, <3>2
    <3>0. Mute(re)
      BY <1>4 DEF Mute
    <3>4. Harmless(a, Append(u, re), n) /\ Append(u, re) = u \o <<re>>
      BY ONLY <1>2, <1>5, <3>0
    <3> QED
      BY <3>3, <3>4
  <2>3. CASE r.m.capturing /\ r.m.command # NoCommand
    <3>1. v = u \o <<bl>> \o <<re>>
      BY <1>1, <1>3, <1>6, <2>3 DEF EndActs
    <3>2. PICK w : w = Append(u, bl)
      OBVIOUS
    <3>0. Mute(bl) /\ Mute(re)
      BY <1>4 DEF Mute
    <3>3. Harmless(a, w, n) /\ w = u \o <<bl>>
      BY ONLY <1>2, <1>5, <3>0, <3>2
    <3>4. v = w \o <<re>>
      BY <3>1, <3>3
    <3>5. Harmless(a, Append(w, re), n) /\ Append(w, re) = w \o <<re>>
      BY ONLY <1>5, <3>0, <3>3
    <3> QED
      BY <3>4, <3>5
  <2> QED
    BY <2>1, <2>2, <2>3
<1>8. Mute(st)
  BY <1>4 DEF Mute
<1>9. Harmless(a, Append(v, st), n)
  BY ONLY <1>5, <1>7, <1>8
<1> QED
  BY <1>3, <1>6, <1>9

\* So is what the start of one adds, and its scan stays in the chunk.
LEMMA StartIsHarmless ==
  ASSUME NEW n, NEW c, Sendable(c, n), NEW r, Whole(r), r.scan \in 1..(Len(c) + 1),
         NEW a, IsSeq(a), Harmless(a, r.acts, n), NEW says
  PROVE  /\ Harmless(a, Append(StartActs(r, c), State(says)), n)
         /\ StartEnd(r, c) \in 1..(Len(c) + 1)
<1>0. IsSeq(c) /\ Len(c) \in Nat
  BY SeqLen DEF Sendable
<1>1. PICK at, f, e : at = NextMark(c, "C", r.scan) /\ f = StartAt(r, c) /\ e = StartEnd(r, c)
  OBVIOUS
<1>2. at \in (r.scan)..(Len(c) + 1)
  BY <1>0, <1>1, NextMarkFacts
<1>3. f \in 1..(Len(c) + 1)
  BY <1>0, <1>1, <1>2 DEF StartAt
<1>4. e \in f..(Len(c) + 1)
  <2>1. e = NextMark(c, "D", f)
    BY <1>1 DEF StartEnd
  <2> QED
    BY <1>0, <1>3, <2>1, NextMarkFacts
<1>5. e \in 1..(Len(c) + 1)
  BY <1>0, <1>3, <1>4
<1>6. PICK u, cl, p, rs, st : /\ u = r.acts /\ cl = Act("clear core", <<>>) /\ p = Painted(SubSeq(c, f, Len(c)))
                          /\ rs = Act("restart", p) /\ st = State(says)
  OBVIOUS
<1>7. cl.do = "clear core" /\ rs.do = "restart" /\ rs.with = p /\ st.do = "state"
  BY <1>6 DEF Act, State
<1>8. Sendable(p, n)
  <2>1. PICK rt : rt = Rest(c, f)
    OBVIOUS
  <2>2. Sendable(Painted(rt), n)
    BY <1>3, <2>1, SendPart
  <2>3. p = Painted(rt)
    BY <1>6, <2>1 DEF Rest
  <2> QED
    BY <2>2, <2>3
<1>9. Harmless(a, u, n) /\ IsSeq(u)
  BY <1>6 DEF Harmless
<1>10. PICK v : v = StartActs(r, c)
  OBVIOUS
<1>11. Harmless(a, v, n)
  <2>1. CASE ~r.m.mode
    <3>1. v = u
      BY <1>6, <1>10, <2>1 DEF StartActs
    <3> QED
      BY <1>9, <3>1
  <2>2. CASE r.m.mode
    <3>1. v = u \o <<cl, rs>>
      BY <1>1, <1>6, <1>10, <2>2 DEF StartActs
    <3>2. PICK w, x : w = Append(u, cl) /\ x = Append(w, rs)
      OBVIOUS
    <3>0. Mute(cl) /\ IsSeq(a)
      BY <1>7 DEF Mute
    <3>3. Harmless(a, w, n) /\ IsSeq(w)
      <4>1. Harmless(a, Append(u, cl), n)
        BY ONLY <1>9, <3>0, HarmlessMore
      <4>2. Harmless(a, w, n)
        BY <3>2, <4>1
      <4> QED
        BY <4>2 DEF Harmless
    <3>4. Harmless(a, x, n)
      <4>1. rs.do = "restart" /\ Sendable(rs.with, n)
        BY <1>7, <1>8
      <4>2. Harmless(a, Append(w, rs), n)
        BY ONLY <3>3, <4>1, HarmlessMore
      <4> QED
        BY <3>2, <4>2
    <3>5. x = u \o <<cl, rs>>
      <4>1. PICK l, m : l = <<cl>> /\ m = <<rs>>
        OBVIOUS
      <4>2. IsSeq(l) /\ IsSeq(m) /\ <<cl, rs>> = l \o m
        BY <4>1, OneIsSeq, TwoIsConcat
      <4>3. w = u \o l /\ x = w \o m
        BY <1>9, <3>2, <3>3, <4>1, SeqAppend
      <4>4. (u \o l) \o m = u \o (l \o m)
        BY ONLY <1>9, <4>2, SeqAssociates
      <4> QED
        BY <4>2, <4>3, <4>4
    <3> QED
      BY <3>1, <3>4, <3>5
  <2> QED
    BY <2>1, <2>2
<1>12. Harmless(a, Append(v, st), n)
  <2>1. Mute(st) /\ IsSeq(a)
    BY <1>7 DEF Mute
  <2> QED
    BY ONLY <1>11, <2>1, HarmlessMore
<1> QED
  BY <1>1, <1>5, <1>6, <1>10, <1>12

\* How an event of a chunk leaves what is queued, the echo and the submission
EventMoves(q, r, c, k, a, n) ==
  /\ Whole(q) /\ q.scan \in 1..(Len(c) + 1) /\ Harmless(a, q.acts, n)
  /\ k \in {"B", "C"} => q.m.echo = <<>>
  /\ k \notin {"B", "C"} => q.m.echo = r.m.echo /\ q.m.swallow = r.m.swallow
  /\ q.m.swallow => r.m.swallow \/ k = "B"
  /\ q.m.submission = "awaiting" =>
       r.m.submission = "awaiting" /\ k \notin {"E", "C", "D", "B"} /\ q.acts = r.acts

\* One event of a chunk sends what may be sent.
LEMMA EventDraws ==
  ASSUME NEW n, NEW c, Sendable(c, n), NEW r, Whole(r), r.scan \in 1..(Len(c) + 1),
         NEW a, IsSeq(a), Harmless(a, r.acts, n), NEW t, NEW q, q = Event(r, c, t)
  PROVE  EventMoves(q, r, c, t.k, a, n)
<1>1. PICK m, k, no, em, id : m = r.m /\ k = t.k /\ no = FALSE /\ em = <<>> /\ id = "idle"
  OBVIOUS
<1>2. CASE k = "E"
  <2>0. t.k = "E" /\ m = r.m
    BY <1>1, <1>2
  <2>1. q = Carried(Mach(m.capturing, m.captured, m.swallow, m.echo, "idle", t.c, m.told, m.mode), r.acts, r.scan)
    BY <2>0, EventIs
  <2>2. Whole(q) /\ q.m.swallow = m.swallow /\ q.m.echo = m.echo /\ q.m.submission = "idle"
        /\ q.acts = r.acts /\ q.scan = r.scan
    BY ONLY <2>1, StepParts
  <2> QED
    BY <1>1, <1>2, <2>2 DEF EventMoves
<1>3. CASE k = "B"
  <2>0. t.k = "B" /\ m = r.m
    BY <1>1, <1>3
  <2>3. q = Carried(Mach(m.capturing, m.captured, m.mode, <<>>, "idle", m.command, m.told, m.mode), r.acts, r.scan)
    BY <2>0, EventIs
  <2>1. q = Carried(Mach(m.capturing, m.captured, m.mode, em, id, m.command, m.told, m.mode), r.acts, r.scan)
    BY ONLY <1>1, <2>3
  <2>2. Whole(q) /\ q.m.echo = em /\ q.m.submission = id /\ q.acts = r.acts /\ q.scan = r.scan
    BY ONLY <2>1, StepParts
  <2> QED
    BY <1>1, <1>3, <2>2 DEF EventMoves
<1>4. CASE k \in {"P0", "P1"}
  <2>1. PICK on : on = (k = "P1")
    OBVIOUS
  <2>2. q = Carried(Mach(m.capturing, m.captured, m.swallow, m.echo, m.submission,
                         m.command, m.told, on), r.acts, r.scan)
    BY <1>1, <1>4, <2>1, EventIs
  <2>3. Whole(q) /\ q.m.swallow = m.swallow /\ q.m.echo = m.echo /\ q.m.submission = m.submission
        /\ q.acts = r.acts /\ q.scan = r.scan
    BY ONLY <2>2, StepParts
  <2> QED
    BY <1>1, <1>4, <2>3 DEF EventMoves
<1>5. CASE k = "C"
  <2>1. PICK x, ac, sc : /\ x = (IF r.m.mode THEN SubSeq(c, StartAt(r, c), StartEnd(r, c) - 1) ELSE <<>>)
                         /\ ac = Append(StartActs(r, c), State(Runs(r.m.command))) /\ sc = StartEnd(r, c)
    OBVIOUS
  <2>0. t.k = "C"
    BY <1>1, <1>5
  <2>2. q = Start(r, c)
    BY <2>0, EventIs
  <2>3. Start(r, c) = Carried(Mach(r.m.mode, x, FALSE, <<>>, "idle", r.m.command, Runs(r.m.command), r.m.mode), ac, sc)
    BY <2>1, StartIs
  <2>4. q = Carried(Mach(r.m.mode, x, no, em, id, r.m.command, Runs(r.m.command), r.m.mode), ac, sc)
    BY ONLY <1>1, <2>2, <2>3
  <2>5. Whole(q) /\ q.m.swallow = no /\ q.m.echo = em /\ q.m.submission = id /\ q.acts = ac /\ q.scan = sc
    BY ONLY <2>4, StepParts
  <2>6. Harmless(a, ac, n) /\ sc \in 1..(Len(c) + 1)
    BY <2>1, StartIsHarmless
  <2>7. ~q.m.swallow /\ q.m.echo = <<>> /\ q.m.submission # "awaiting" /\ k \in {"B", "C"}
    BY <1>1, <1>5, <2>5
  <2>8. Whole(q) /\ q.scan \in 1..(Len(c) + 1) /\ Harmless(a, q.acts, n)
    BY <2>5, <2>6
  <2> QED
    BY <1>1, <2>7, <2>8 DEF EventMoves
<1>6. CASE k = "D"
  <2>1. PICK nc, qu, ac : nc = NoCommand /\ qu = Quiet /\ ac = Append(EndActs(r), State(Quiet))
    OBVIOUS
  <2>0. t.k = "D"
    BY <1>1, <1>6
  <2>2. q = Finish(r)
    BY <2>0, EventIs
  <2>3. Finish(r) = Carried(Mach(FALSE, <<>>, r.m.swallow, r.m.echo, "idle", NoCommand, Quiet, r.m.mode), ac, r.scan)
    BY <2>1, FinishIs
  <2>4. q = Carried(Mach(no, em, r.m.swallow, r.m.echo, id, nc, qu, r.m.mode), ac, r.scan)
    BY ONLY <1>1, <2>1, <2>2, <2>3
  <2>5. Whole(q) /\ q.m.swallow = r.m.swallow /\ q.m.echo = r.m.echo /\ q.m.submission = id /\ q.acts = ac /\ q.scan = r.scan
    BY ONLY <2>4, StepParts
  <2>6. Harmless(a, ac, n)
    BY <2>1, EndIsHarmless
  <2>7. q.m.submission # "awaiting" /\ k \notin {"B", "C"}
    BY <1>1, <1>6, <2>5
  <2>8. Whole(q) /\ q.scan \in 1..(Len(c) + 1) /\ Harmless(a, q.acts, n)
    BY <2>5, <2>6
  <2> QED
    BY <1>1, <2>5, <2>7, <2>8 DEF EventMoves
<1>7. CASE k \notin {"E", "C", "D", "B", "P0", "P1"}
  <2>1. q = r
    BY <1>1, <1>7, EventIs
  <2> QED
    BY <1>1, <1>7, <2>1 DEF EventMoves
<1> QED
  BY <1>2, <1>3, <1>4, <1>5, <1>6, <1>7

\* How the events of a chunk do
ScanMoves(q, r, c, j, a, n) ==
  /\ Whole(q) /\ q.scan \in 1..(Len(c) + 1) /\ Harmless(a, q.acts, n)
  /\ \/ q.m.echo = r.m.echo /\ q.m.swallow = r.m.swallow
     \/ q.m.echo = <<>> /\ \E i \in 1..j : c[i].k \in {"B", "C"}
  /\ q.m.swallow => r.m.swallow \/ \E i \in 1..j : c[i].k = "B"
  /\ (\E i \in 1..j : c[i].k = "B") => q.m.echo = <<>>
  /\ q.m.submission = "awaiting" =>
       r.m.submission = "awaiting" /\ (\A i \in 1..j : c[i].k \notin {"E", "C", "D", "B"}) /\ q.acts = r.acts

\* So do all the events of a chunk.
LEMMA ScanDraws ==
  ASSUME NEW n, NEW c, Sendable(c, n), NEW r, Whole(r), r.scan \in 1..(Len(c) + 1), IsSeq(r.acts),
         NEW q, q = Scanned(r, c)
  PROVE  ScanMoves(q, r, c, Len(c), r.acts, n)
<1>0. IsSeq(c) /\ Len(c) \in Nat
  BY SeqLen DEF Sendable
<1>1. PICK g : /\ g[0] = r /\ q = g[Len(c)] /\ \A i \in 1..Len(c) : g[i] = Event(g[i - 1], c, c[i])
  BY <1>0, ScannedSteps
<1>2. PICK a : a = r.acts
  OBVIOUS
<1> DEFINE S == {i \in Nat : i <= Len(c) => ScanMoves(g[i], r, c, i, a, n)}
<1>3. 0 \in S
  <2>1. Harmless(a, a, n)
    BY <1>2, HarmlessItself
  <2>2. 1..0 = {}
    OBVIOUS
  <2>3. ScanMoves(r, r, c, 0, a, n)
    <3>1. Whole(r) /\ r.scan \in 1..(Len(c) + 1) /\ Harmless(a, r.acts, n) /\ a = r.acts
      BY <1>2, <2>1
    <3>2. PICK J : J = 1..0 /\ J = {}
      BY <2>2
    <3>3. /\ (\A i \in J : c[i].k # "B") /\ (\A i \in J : c[i].k \notin {"E", "C", "D", "B"})
          /\ ~(\E i \in J : c[i].k = "B")
      BY ONLY <3>2
    <3> QED
      BY ONLY <3>1, <3>2, <3>3 DEF ScanMoves
  <2> QED
    BY <1>1, <2>3
<1>4. ASSUME NEW i \in Nat, i \in S PROVE i + 1 \in S
  <2> SUFFICES ASSUME i + 1 <= Len(c) PROVE ScanMoves(g[i + 1], r, c, i + 1, a, n)
    OBVIOUS
  <2>1. i + 1 \in 1..Len(c) /\ (i + 1) - 1 = i /\ i <= Len(c)
    BY <1>0
  <2>2. PICK f, h, t : f = g[i] /\ h = g[i + 1] /\ t = c[i + 1]
    OBVIOUS
  <2>3. ScanMoves(f, r, c, i, a, n)
    BY <1>4, <2>1, <2>2
  <2>4. h = Event(f, c, t)
    BY <1>1, <2>1, <2>2
  <2>5. EventMoves(h, f, c, t.k, a, n)
    <3>1. Whole(f) /\ f.scan \in 1..(Len(c) + 1) /\ Harmless(a, f.acts, n)
      BY <2>3 DEF ScanMoves
    <3>2. IsSeq(a) /\ Sendable(c, n)
      BY <1>2
    <3> QED
      BY ONLY <2>4, <3>1, <3>2, EventDraws
  <2>6. 1..(i + 1) = (1..i) \cup {i + 1}
    OBVIOUS
  <2>7. PICK k, J, J2 : k = t.k /\ J = 1..i /\ J2 = 1..(i + 1) /\ J2 = J \cup {i + 1} /\ k = c[i + 1].k
    BY <2>2, <2>6
  <2>8. ScanMoves(h, r, c, i + 1, a, n)
    <3>1. Whole(h) /\ h.scan \in 1..(Len(c) + 1) /\ Harmless(a, h.acts, n)
      BY <2>5 DEF EventMoves
    <3>2. /\ k \in {"B", "C"} => h.m.echo = <<>>
          /\ k \notin {"B", "C"} => h.m.echo = f.m.echo /\ h.m.swallow = f.m.swallow
          /\ h.m.swallow => f.m.swallow \/ k = "B"
          /\ h.m.submission = "awaiting" =>
               f.m.submission = "awaiting" /\ k \notin {"E", "C", "D", "B"} /\ h.acts = f.acts
      BY <2>5, <2>7 DEF EventMoves
    <3>3. /\ \/ f.m.echo = r.m.echo /\ f.m.swallow = r.m.swallow
             \/ f.m.echo = <<>> /\ \E j \in J : c[j].k \in {"B", "C"}
          /\ f.m.swallow => r.m.swallow \/ \E j \in J : c[j].k = "B"
          /\ (\E j \in J : c[j].k = "B") => f.m.echo = <<>>
          /\ f.m.submission = "awaiting" =>
               r.m.submission = "awaiting" /\ (\A j \in J : c[j].k \notin {"E", "C", "D", "B"}) /\ f.acts = a
      BY <1>2, <2>3, <2>7 DEF ScanMoves
    <3>4. \/ h.m.echo = r.m.echo /\ h.m.swallow = r.m.swallow
          \/ h.m.echo = <<>> /\ \E j \in J2 : c[j].k \in {"B", "C"}
      <4>1. CASE k \in {"B", "C"}
        BY <2>7, <3>2, <4>1
      <4>2. CASE k \notin {"B", "C"}
        BY <2>7, <3>2, <3>3, <4>2
      <4> QED
        BY <4>1, <4>2
    <3>5. h.m.swallow => r.m.swallow \/ \E j \in J2 : c[j].k = "B"
      BY <2>7, <3>2, <3>3
    <3>6. (\E j \in J2 : c[j].k = "B") => h.m.echo = <<>>
      <4>1. CASE k \in {"B", "C"}
        BY <3>2, <4>1
      <4>2. CASE k \notin {"B", "C"}
        BY <2>7, <3>2, <3>3, <4>2
      <4> QED
        BY <4>1, <4>2
    <3>7. h.m.submission = "awaiting" =>
             r.m.submission = "awaiting" /\ (\A j \in J2 : c[j].k \notin {"E", "C", "D", "B"}) /\ h.acts = a
      BY <2>7, <3>2, <3>3
    <3> QED
      BY <1>2, <2>7, <3>1, <3>4, <3>5, <3>6, <3>7 DEF ScanMoves
  <2> QED
    BY <2>2, <2>8
<1> HIDE DEF S
<1>5. Nat \subseteq S
  BY <1>3, <1>4, SetInduction
<1>6. Len(c) \in S
  BY <1>0, <1>5
<1> QED
  BY <1>0, <1>1, <1>2, <1>6 DEF S

\* What `Live` sends is one action or none.
LEMMA LiveIsSeq ==
  \A b : IsSeq(Live(b)) /\ Live(<<>>) = <<>> /\ (Live(b) = <<>> \/ Live(b) = <<Act("live", Painted(b))>>)
<1>1. ASSUME NEW b PROVE IsSeq(Live(b)) /\ (Live(b) = <<>> \/ Live(b) = <<Act("live", Painted(b))>>)
  <2>1. PICK x : x = Act("live", Painted(b))
    OBVIOUS
  <2>2. Live(b) = <<>> \/ Live(b) = <<x>>
    BY <2>1 DEF Live
  <2> QED
    BY <2>1, <2>2, EmptyIsSeq, OneIsSeq
<1>2. Live(<<>>) = <<>>
  BY DEF Live
<1> QED
  BY <1>1, <1>2

\* What Echoed makes of the machine that takes a chunk
EchoMoves(v, m, c, end) ==
  /\ Whole(v) /\ IsSeq(v.acts) /\ v.scan \in 1..(Len(c) + 1)
  /\ ~m.swallow => /\ v.acts = Live(c) /\ v.m.echo = m.echo /\ ~v.m.swallow
                   /\ v.m.submission = m.submission
  /\ m.swallow /\ end <= Len(c) =>
       /\ v.acts = Live(SubSeq(c, end + 1, Len(c))) /\ v.m.echo = m.echo \o SubSeq(c, 1, end) /\ ~v.m.swallow
       /\ v.m.submission = "awaiting"
  /\ m.swallow /\ ~(end <= Len(c)) =>
       /\ v.m.submission = m.submission
       /\ \/ v.acts = Live(c) /\ v.m.echo = <<>> /\ ~v.m.swallow
          \/ v.acts = <<>> /\ v.m.echo = m.echo \o c /\ v.m.swallow

\* What the suppression of the echo does to a chunk, as one of the ways EchoMoves lists
LEMMA EchoDraws ==
  ASSUME NEW m, Fields(m), NEW c, IsSeq(c), NEW v, v = Echoed(Captured(m, c), c), NEW end, end = NextMark(c, "nl", 1)
  PROVE  EchoMoves(v, m, c, end)
<1>0. Len(c) \in Nat /\ 1 \in 1..(Len(c) + 1)
  BY SeqLen
<1>1. PICK cd, sc, mt, no, aw : /\ mt = <<>> /\ sc = (IF m.capturing THEN NextMark(c, "D", 1) ELSE 1)
                        /\ cd = (IF m.capturing THEN m.captured \o SubSeq(c, 1, NextMark(c, "D", 1) - 1) ELSE m.captured)
                        /\ no = FALSE /\ aw = "awaiting"
  OBVIOUS
<1>2. PICK n, u : /\ n = Mach(m.capturing, cd, m.swallow, m.echo, m.submission, m.command, m.told, m.mode)
                  /\ u = Captured(m, c)
  OBVIOUS
<1>3. u = Carried(n, mt, sc)
  BY <1>1, <1>2, CapturedIs
<1>4. Fields(n) /\ n.swallow = m.swallow /\ n.echo = m.echo /\ n.submission = m.submission
  BY <1>2 DEF Fields, Mach
<1>5. Whole(u) /\ u.m = n /\ u.acts = mt /\ u.scan = sc
  BY <1>3, <1>4, WholeOf
<1>6. sc \in 1..(Len(c) + 1)
  <2>1. NextMark(c, "D", 1) \in 1..(Len(c) + 1)
    BY <1>0, NextMarkFacts
  <2> QED
    BY <1>0, <1>1, <2>1
<1>7. EchoWays(v, u, c, n, end)
  <2>1. end = EchoEnd(n, c)
    BY DEF EchoEnd
  <2>2. EchoWays(Echoed(u, c), u, c, n, end)
    BY <1>5, <2>1, EchoedIs
  <2> QED
    BY <1>2, <2>2
<1>8. \A b : mt \o Live(b) = Live(b) /\ IsSeq(Live(b)) /\ IsSeq(mt)
  BY <1>1, LiveIsSeq, EmptyIsSeq
<1>9. CASE ~n.swallow
  <2>1. v = Carried(n, u.acts \o Live(c), u.scan)
    BY ONLY <1>7, <1>9, Zenon DEF EchoWays
  <2>0. PICK ac : ac = u.acts \o Live(c)
    OBVIOUS
  <2>4. v = Carried(n, ac, u.scan)
    BY ONLY <2>0, <2>1
  <2>2. Whole(v) /\ v.m = n /\ v.acts = ac /\ v.scan = u.scan
    BY <1>4, <2>4, WholeOf
  <2>3. v.acts = Live(c) /\ IsSeq(v.acts)
    BY <1>5, <1>8, <2>0, <2>2
  <2> QED
    BY <1>4, <1>5, <1>6, <1>9, <2>2, <2>3 DEF EchoMoves
<1>10. CASE n.swallow /\ end <= Len(c)
  <2>1. v = Carried(Mach(n.capturing, n.captured, FALSE, n.echo \o SubSeq(c, 1, end), "awaiting",
                         n.command, n.told, n.mode),
                    u.acts \o Live(SubSeq(c, end + 1, Len(c))), u.scan)
    BY ONLY <1>7, <1>10, Zenon DEF EchoWays
  <2>2. PICK b, e, ac : b = SubSeq(c, end + 1, Len(c)) /\ e = n.echo \o SubSeq(c, 1, end) /\ ac = u.acts \o Live(b)
    OBVIOUS
  <2>3. v = Carried(Mach(n.capturing, n.captured, no, e, aw, n.command, n.told, n.mode), ac, u.scan)
    BY ONLY <1>1, <2>1, <2>2
  <2>4. Whole(v) /\ v.m.swallow = no /\ v.m.echo = e /\ v.m.submission = aw /\ v.acts = ac /\ v.scan = u.scan
    BY ONLY <2>3, StepParts
  <2>5. v.acts = Live(b) /\ IsSeq(v.acts)
    BY <1>5, <1>8, <2>2, <2>4
  <2>6. e = m.echo \o SubSeq(c, 1, end)
    BY <1>4, <2>2
  <2> QED
    BY <1>1, <1>4, <1>5, <1>6, <1>10, <2>2, <2>4, <2>5, <2>6 DEF EchoMoves
<1>11. CASE n.swallow /\ ~(end <= Len(c)) /\ Len(n.echo) + Len(c) > MaxEcho
  <2>1. v = Carried(Mach(n.capturing, n.captured, FALSE, <<>>, n.submission,
                        n.command, n.told, n.mode), u.acts \o Live(c), u.scan)
    BY ONLY <1>7, <1>11, Zenon DEF EchoWays
  <2>0. PICK ac : ac = u.acts \o Live(c)
    OBVIOUS
  <2>2. v = Carried(Mach(n.capturing, n.captured, no, mt, n.submission,
                        n.command, n.told, n.mode), ac, u.scan)
    BY ONLY <1>1, <2>0, <2>1
  <2>3. Whole(v) /\ v.m.swallow = no /\ v.m.echo = mt /\ v.m.submission = n.submission
        /\ v.acts = ac /\ v.scan = u.scan
    BY ONLY <2>2, StepParts
  <2>4. v.acts = Live(c) /\ IsSeq(v.acts)
    BY <1>5, <1>8, <2>0, <2>3
  <2> QED
    BY <1>1, <1>4, <1>5, <1>6, <1>11, <2>3, <2>4 DEF EchoMoves
<1>12. CASE n.swallow /\ ~(end <= Len(c)) /\ ~(Len(n.echo) + Len(c) > MaxEcho)
  <2>1. v = Carried(Mach(n.capturing, n.captured, n.swallow, n.echo \o c, n.submission,
                        n.command, n.told, n.mode), u.acts, u.scan)
    BY ONLY <1>7, <1>12, Zenon DEF EchoWays
  <2>2. PICK e : e = n.echo \o c
    OBVIOUS
  <2>3. v = Carried(Mach(n.capturing, n.captured, n.swallow, e, n.submission,
                        n.command, n.told, n.mode), u.acts, u.scan)
    BY ONLY <2>1, <2>2
  <2>4. Whole(v) /\ v.m.swallow = n.swallow /\ v.m.echo = e /\ v.m.submission = n.submission
        /\ v.acts = u.acts /\ v.scan = u.scan
    BY ONLY <2>3, StepParts
  <2>5. e = m.echo \o c
    BY <1>4, <2>2
  <2> QED
    BY <1>1, <1>4, <1>5, <1>6, <1>8, <1>12, <2>4, <2>5 DEF EchoMoves
<1> QED
  BY <1>9, <1>10, <1>11, <1>12

\* What Settled makes of what the events left
SettleMoves(r, w, reply) ==
  /\ Whole(r) /\ r.m.swallow = w.m.swallow
  /\ Repaints(w.m, reply) => r.m.submission = "continuing" /\ r.m.echo = <<>>
  /\ ~Repaints(w.m, reply) => r.m.submission = w.m.submission /\ r.m.echo = w.m.echo
  /\ \/ r.acts = Rescue(w.m, reply) \o w.acts
     \/ \E x : r.acts = Append(Rescue(w.m, reply) \o w.acts, State(x))

\* What the settling of the continuation does, as SettleMoves states
LEMMA SettleDraws ==
  ASSUME NEW w, Whole(w), NEW reply, NEW r, r = Settled(w, reply)
  PROVE  SettleMoves(r, w, reply)
<1>0. PICK m : m = w.m
  OBVIOUS
<1>1. SettledTo(r, w, m, reply)
  BY <1>0, SettledIs
<1>2. PICK ec, su, tl, ac : /\ ec = (IF Repaints(m, reply) THEN <<>> ELSE m.echo) /\ su = After(m, reply)
        /\ tl = (IF Waits(m, reply) = m.told.continuation THEN m.told ELSE Continued(m.told, Waits(m, reply)))
        /\ ac = (IF Waits(m, reply) = m.told.continuation THEN Rescue(m, reply) \o w.acts
                 ELSE Append(Rescue(m, reply) \o w.acts, State(Continued(m.told, Waits(m, reply)))))
  OBVIOUS
<1>3. r = Carried(Mach(m.capturing, m.captured, m.swallow, ec, su, m.command, tl, m.mode), ac, w.scan)
  BY ONLY <1>1, <1>2, Zenon DEF SettledTo
<1>4. Whole(r) /\ r.m.swallow = m.swallow /\ r.m.echo = ec /\ r.m.submission = su /\ r.acts = ac
  BY ONLY <1>3, StepParts
<1>5. su = IF Repaints(m, reply) THEN "continuing" ELSE m.submission
  BY <1>2 DEF After
<1>6. \/ ac = Rescue(m, reply) \o w.acts
      \/ \E x : ac = Append(Rescue(m, reply) \o w.acts, State(x))
  BY <1>2
<1> QED
  BY <1>0, <1>2, <1>4, <1>5, <1>6 DEF SettleMoves

\* A sequence that begins with what paints paints.
LEMMA PaintsFirst ==
  ASSUME NEW s, IsSeq(s), s # <<>>, Paints(s[1])
  PROVE  Painted(s) # <<>>
<1>1. Len(s) \in Nat /\ 1 \in 1..Len(s)
  BY SeqLen
<1>2. PICK f, b, e : f = SubSeq(s, 1, 1) /\ b = SubSeq(s, 1 + 1, Len(s)) /\ e = s[1]
  OBVIOUS
<1>3. IsSeq(f) /\ IsSeq(b) /\ s = f \o b
  BY <1>1, <1>2, ChunkSplits
<1>4. f = <<e>>
  BY <1>1, <1>2, SubSeqOne
<1>5. PICK x, y : x = Painted(f) /\ y = Painted(b) /\ IsSeq(y)
  BY <1>3, PaintedFacts
<1>6. x = <<e>>
  BY <1>2, <1>4, <1>5, PaintedFacts
<1>7. Painted(s) = x \o y
  BY <1>3, <1>5, PaintedConcat
<1>8. IsSeq(x) /\ Len(x) = 1
  BY <1>6, OneIsSeq
<1>9. Len(x \o y) = Len(x) + Len(y) /\ Len(y) \in Nat /\ IsSeq(x \o y)
  BY <1>5, <1>8, SeqConcat, SeqLen
<1>10. Len(x \o y) # 0
  BY <1>8, <1>9
<1> QED
  BY <1>7, <1>10, EmptyIsSeq

-----------------------------------------------------------------------------
\* What a chunk does when the pipe holds a line and its answer.

\* What a change of the mode of the prompt writes, and what answers a line
ToggleMarks == {"P0", "P1", "prompt", "B"}
Replies     == {"ps2", "E", "D"}

OnlyToggles(q) == q # <<>> /\ \A i \in 1..Len(q) : q[i].k \in ToggleMarks
LineFirst(q)   == q # <<>> /\ (q[1].k = "nl" \/ (q[1].k = "echo" /\ 2 \in 1..Len(q) /\ q[2].k = "nl"))

\* What the shell wrote: after a change of the prompt only such changes, a line ends before what
\* answers it.
PipeFits(q, at) ==
  /\ \A i \in 1..Len(q) : q[i].k \in ToggleMarks =>
       /\ q[Len(q)].k = "B" /\ at \in {"input", "gone"}
       /\ \A j \in 1..Len(q) : i <= j => q[j].k \in ToggleMarks
  /\ \A i \in 1..Len(q) : q[i].k = "nl" =>
       IF i = Len(q) THEN at \in {"read", "done", "gone"} ELSE q[i + 1].k \in Replies

\* A machine that holds an echo back waits for a line, one that waits for an answer gets one.
SwallowFits(m, q, at) ==
  /\ m.swallow => \/ q = <<>> /\ at \in {"input", "gone"}
                  \/ OnlyToggles(q) \/ LineFirst(q)
  /\ m.submission = "awaiting" =>
       ~m.swallow /\ IF q = <<>> THEN at \in {"read", "done", "gone"} ELSE q[1].k \in Replies

\* The echo that is held back may come back.
Holding(m, q) == (m.swallow \/ m.submission = "awaiting") /\ ~OnlyToggles(q)

\* A chunk c of what is unread, q, and the steps of the machine that takes it
Taking(m, c, p, q, at, v, w, r, end, n) ==
  /\ Fields(m) /\ IsSeq(c) /\ c # <<>> /\ IsSeq(p) /\ q = c \o p
  /\ PipeFits(q, at) /\ SwallowFits(m, q, at)
  /\ end = NextMark(c, "nl", 1) /\ EchoMoves(v, m, c, end)
  /\ w = Scanned(v, c) /\ ScanMoves(w, v, c, Len(c), v.acts, n)
  /\ SettleMoves(r, w, Reply(m, c))

\* What a whole chunk does, stage by stage
LEMMA TakingIs ==
  ASSUME NEW n, NEW m, Fields(m), NEW c, Sendable(c, n), c # <<>>, NEW p, IsSeq(p), NEW q, q = c \o p,
         NEW at, PipeFits(q, at), SwallowFits(m, q, at), NEW r, r = OnChunk(m, c)
  PROVE  \E v, w, end : Taking(m, c, p, q, at, v, w, r, end, n)
<1>0. IsSeq(c)
  BY DEF Sendable
<1>1. PICK end, v : end = NextMark(c, "nl", 1) /\ v = Echoed(Captured(m, c), c)
  OBVIOUS
<1>2. EchoMoves(v, m, c, end)
  BY <1>0, <1>1, EchoDraws
<1>3. PICK w, y : w = Scanned(v, c) /\ y = Reply(m, c)
  OBVIOUS
<1>4. Whole(v) /\ IsSeq(v.acts) /\ v.scan \in 1..(Len(c) + 1)
  BY <1>2 DEF EchoMoves
<1>5. ScanMoves(w, v, c, Len(c), v.acts, n)
  BY <1>3, <1>4, ScanDraws
<1>6. Whole(w)
  BY <1>5 DEF ScanMoves
<1>7. r = Settled(w, y)
  BY <1>1, <1>3 DEF OnChunk
<1>8. SettleMoves(r, w, y)
  BY <1>6, <1>7, SettleDraws
<1> QED
  BY <1>0, <1>1, <1>2, <1>3, <1>5, <1>8 DEF Taking

\* The places of a chunk and of what is left
Places(c, p, q, l, k) ==
  /\ l = Len(c) /\ k = Len(p) /\ 1 <= l /\ Len(q) = l + k /\ (p = <<>> <=> k = 0) /\ l \in Nat /\ k \in Nat
  /\ \A i \in 1..l : q[i] = c[i]
  /\ \A j \in 1..k : q[l + j] = p[j]
  /\ q # <<>> /\ (p = <<>> => q = c)

\* The places of a chunk and of what is left of the pipe
LEMMA PlacesOf ==
  ASSUME NEW c, IsSeq(c), c # <<>>, NEW p, IsSeq(p), NEW q, q = c \o p
  PROVE  \E l, k : Places(c, p, q, l, k)
<1>1. PICK l, k : l = Len(c) /\ k = Len(p)
  OBVIOUS
<1>2. l \in Nat /\ k \in Nat /\ l # 0 /\ (p = <<>> <=> k = 0)
  BY <1>1, SeqLen
<1>3. /\ IsSeq(q) /\ Len(q) = l + k /\ \A i \in 1..l : q[i] = c[i]
      /\ \A j \in 1..k : q[l + j] = p[j]
  BY <1>1, SeqConcat
<1>4. q # <<>>
  BY <1>2, <1>3, EmptyIsSeq
<1>5. p = <<>> => q = c
  BY EmptyIsSeq
<1>6. Places(c, p, q, l, k)
  BY <1>1, <1>2, <1>3, <1>4, <1>5 DEF Places
<1> QED
  BY <1>6

\* Where the line ends in a chunk that begins with one
LEMMA EndOfLine ==
  ASSUME NEW m, NEW c, NEW p, NEW q, NEW at, NEW v, NEW w, NEW r, NEW end, NEW n,
         Taking(m, c, p, q, at, v, w, r, end, n)
  PROVE  /\ end \in 1..(Len(c) + 1) /\ (end <= Len(c) => c[end].k = "nl")
         /\ OnlyToggles(q) => ~(end <= Len(c)) /\ q[Len(q)].k = "B"
         /\ LineFirst(q) =>
              /\ \A i \in 1..Len(c) : i < end => c[i].k = "echo"
              /\ ~(end <= Len(c)) => /\ \A i \in 1..Len(c) : c[i].k = "echo"
                                     /\ p # <<>> /\ p[1].k = "nl"
<1>1. /\ IsSeq(c) /\ c # <<>> /\ IsSeq(p) /\ q = c \o p /\ end = NextMark(c, "nl", 1) /\ PipeFits(q, at)
  BY DEF Taking
<1>0. PICK l, k : Places(c, p, q, l, k)
  BY ONLY <1>1, PlacesOf
<1>2. /\ l = Len(c) /\ k = Len(p) /\ 1 <= l /\ Len(q) = l + k /\ (p = <<>> <=> k = 0) /\ l \in Nat /\ k \in Nat
      /\ \A x \in 1..l : q[x] = c[x]
      /\ \A j \in 1..k : q[l + j] = p[j]
      /\ q # <<>> /\ (p = <<>> => q = c)
  BY <1>0 DEF Places
<1>3. 1 \in 1..(Len(c) + 1)
  BY <1>2
<1>4. /\ end \in 1..(Len(c) + 1) /\ \A i \in 1..Len(c) : i < end => c[i].k # "nl"
      /\ end <= Len(c) => c[end].k = "nl"
  BY <1>1, <1>3, NextMarkFacts
<1>5. ASSUME OnlyToggles(q) PROVE ~(end <= Len(c)) /\ q[Len(q)].k = "B"
  <2>1. \A i \in 1..(l + k) : q[i].k \in ToggleMarks
    BY <1>2, <1>5 DEF OnlyToggles
  <2>2. \A i \in 1..l : c[i].k # "nl"
    BY <1>2, <2>1 DEF ToggleMarks
  <2>3. 1 \in 1..Len(q) /\ q[1].k \in ToggleMarks
    BY <1>2, <2>1
  <2>4. q[Len(q)].k = "B"
    BY <1>1, <2>3 DEF PipeFits
  <2> QED
    BY <1>2, <1>4, <2>2, <2>4
<1>6. ASSUME LineFirst(q)
      PROVE  /\ \A i \in 1..Len(c) : i < end => c[i].k = "echo"
             /\ ~(end <= Len(c)) => /\ \A i \in 1..Len(c) : c[i].k = "echo"
                                    /\ p # <<>> /\ p[1].k = "nl"
  <2>1. 1 \in 1..l /\ q[1] = c[1]
    BY <1>2
  <2>2. CASE q[1].k = "nl"
    <3>1. ~(1 < end)
      BY <1>2, <1>4, <2>1, <2>2
    <3>2. end = 1
      BY <1>2, <1>4, <3>1
    <3> QED
      BY <1>2, <3>2
  <2>3. CASE q[1].k = "echo" /\ 2 \in 1..Len(q) /\ q[2].k = "nl"
    <3>1. CASE 2 \in 1..l
      <4>1. ~(2 < end)
        BY <1>2, <1>4, <2>3, <3>1
      <4>2. end <= Len(c) /\ \A i \in 1..Len(c) : i < end => i = 1
        BY <1>2, <1>4, <3>1, <4>1
      <4> QED
        BY <2>1, <2>3, <4>2
    <3>2. CASE 2 \notin 1..l
      <4>1. l = 1 /\ 1 \in 1..k /\ l + 1 = 2
        BY <1>2, <2>3, <3>2
      <4>2. p[1] = q[2] /\ p # <<>>
        BY <1>2, <4>1
      <4>3. \A i \in 1..Len(c) : c[i].k = "echo"
        BY <1>2, <2>1, <2>3, <4>1
      <4> QED
        BY <2>3, <4>2, <4>3
    <3> QED
      BY <3>1, <3>2
  <2> QED
    BY <1>6, <2>2, <2>3 DEF LineFirst
<1> QED
  BY <1>4, <1>5, <1>6

\* After a mark B only changes of the prompt are left.
LEMMA AfterB ==
  ASSUME NEW c, IsSeq(c), c # <<>>, NEW p, IsSeq(p), NEW q, q = c \o p, NEW at, PipeFits(q, at),
         NEW i \in 1..Len(c), c[i].k \in ToggleMarks
  PROVE  (p = <<>> /\ at \in {"input", "gone"}) \/ OnlyToggles(p)
<1>0. PICK l, k : Places(c, p, q, l, k)
  BY PlacesOf
<1>2. /\ l = Len(c) /\ k = Len(p) /\ 1 <= l /\ Len(q) = l + k /\ (p = <<>> <=> k = 0) /\ l \in Nat /\ k \in Nat
      /\ \A x \in 1..l : q[x] = c[x]
      /\ \A j \in 1..k : q[l + j] = p[j]
      /\ q # <<>> /\ (p = <<>> => q = c)
  BY <1>0 DEF Places
<1>3. i \in 1..Len(q) /\ q[i].k \in ToggleMarks
  BY <1>2
<1>4. at \in {"input", "gone"} /\ \A j \in 1..Len(q) : i <= j => q[j].k \in ToggleMarks
  BY <1>3 DEF PipeFits
<1>5. ASSUME NEW j \in 1..k PROVE p[j].k \in ToggleMarks
  <2>1. l + j \in 1..Len(q) /\ i <= l + j
    BY <1>2
  <2> QED
    BY <1>2, <1>4, <2>1
<1> QED
  BY <1>2, <1>4, <1>5 DEF OnlyToggles

\* A machine that holds an echo back after the chunk: nothing but what it holds was added.
Held(m, c, q, w, r) ==
  /\ m.swallow /\ LineFirst(q) /\ r.m.echo = m.echo \o c /\ (\A i \in 1..Len(c) : c[i].k \in {"echo", "nl"})
  /\ w.acts = <<>> /\ ~Repaints(w.m, Reply(m, c))

\* The replies that paint
LEMMA RepliesPaint == \A t : t.k = "ps2" => Paints(t)
  BY DEF Paints

\* A machine that waits for an answer after the chunk read the end of the line at its end.
LEMMA AwaitsAnswer ==
  ASSUME NEW m, NEW c, NEW p, NEW q, NEW at, NEW v, NEW w, NEW r, NEW end, NEW n,
         Taking(m, c, p, q, at, v, w, r, end, n), r.m.submission = "awaiting"
  PROVE  /\ Held(m, c, q, w, r) /\ ~r.m.swallow
         /\ IF p = <<>> THEN at \in {"read", "done", "gone"} ELSE p[1].k \in Replies
<1>1. /\ IsSeq(c) /\ c # <<>> /\ IsSeq(p) /\ q = c \o p /\ PipeFits(q, at) /\ SwallowFits(m, q, at)
      /\ EchoMoves(v, m, c, end) /\ ScanMoves(w, v, c, Len(c), v.acts, n) /\ SettleMoves(r, w, Reply(m, c))
      /\ end = NextMark(c, "nl", 1)
  BY DEF Taking
<1>0. PICK l, k : Places(c, p, q, l, k)
  BY ONLY <1>1, PlacesOf
<1>2. /\ l = Len(c) /\ k = Len(p) /\ 1 <= l /\ Len(q) = l + k /\ (p = <<>> <=> k = 0) /\ l \in Nat /\ k \in Nat
      /\ \A x \in 1..l : q[x] = c[x]
      /\ \A j \in 1..k : q[l + j] = p[j]
      /\ q # <<>> /\ (p = <<>> => q = c)
  BY <1>0 DEF Places
<1>3. ~Repaints(w.m, Reply(m, c)) /\ w.m.submission = "awaiting" /\ r.m.echo = w.m.echo /\ r.m.swallow = w.m.swallow
  BY <1>1 DEF SettleMoves
<1>4. Painted(Reply(m, c)) = <<>>
  BY <1>3 DEF Repaints
<1>5. /\ v.m.submission = "awaiting" /\ (\A i \in 1..l : c[i].k \notin {"E", "C", "D", "B"}) /\ w.acts = v.acts
      /\ w.m.echo = v.m.echo /\ w.m.swallow = v.m.swallow
  <2>1. v.m.submission = "awaiting" /\ (\A i \in 1..l : c[i].k \notin {"E", "C", "D", "B"}) /\ w.acts = v.acts
    BY <1>1, <1>2, <1>3 DEF ScanMoves
  <2>2. ~(\E i \in 1..l : c[i].k \in {"B", "C"})
    BY <2>1
  <2> QED
    BY <1>1, <1>2, <2>1, <2>2 DEF ScanMoves
<1>6. m.submission # "awaiting"
  <2>1. SUFFICES ASSUME m.submission = "awaiting" PROVE FALSE
    OBVIOUS
  <2>2. ~m.swallow /\ q[1].k \in Replies
    BY <1>1, <1>2, <2>1 DEF SwallowFits
  <2>3. 1 \in 1..l /\ c[1] = q[1]
    BY <1>2
  <2>4. c[1].k = "ps2"
    BY <1>5, <2>2, <2>3 DEF Replies
  <2>5. Reply(m, c) = c
    BY <2>2 DEF Reply
  <2>6. Painted(c) # <<>>
    BY <1>1, <2>4, RepliesPaint, PaintsFirst
  <2> QED
    BY <1>4, <2>5, <2>6
<1>7. /\ m.swallow /\ end <= l /\ v.acts = Live(SubSeq(c, end + 1, l)) /\ v.m.echo = m.echo \o SubSeq(c, 1, end)
      /\ ~v.m.swallow
  BY <1>1, <1>2, <1>5, <1>6 DEF EchoMoves
<1>8. /\ end \in 1..l /\ c[end].k = "nl" /\ ~OnlyToggles(q)
      /\ LineFirst(q) => \A i \in 1..l : i < end => c[i].k = "echo"
  <2>1. /\ end \in 1..(Len(c) + 1) /\ (end <= Len(c) => c[end].k = "nl")
        /\ OnlyToggles(q) => ~(end <= Len(c))
        /\ LineFirst(q) => \A i \in 1..Len(c) : i < end => c[i].k = "echo"
    BY EndOfLine
  <2> QED
    BY <1>2, <1>7, <2>1
<1>9. LineFirst(q)
  BY <1>1, <1>2, <1>7, <1>8 DEF SwallowFits
<1>10. end \in 1..Len(q) /\ q[end].k = "nl"
  BY <1>2, <1>8
<1>11. IF end = Len(q) THEN at \in {"read", "done", "gone"} ELSE q[end + 1].k \in Replies
  BY <1>1, <1>10 DEF PipeFits
<1>12. end = l
  <2>1. SUFFICES ASSUME end # l PROVE FALSE
    OBVIOUS
  <2>2. end + 1 \in 1..l /\ end # Len(q)
    BY <1>2, <1>8, <2>1
  <2>3. c[end + 1].k = "ps2"
    BY <1>2, <1>5, <1>11, <2>2 DEF Replies
  <2>4. PICK f : f = SubSeq(c, end + 1, l)
    OBVIOUS
  <2>5. IsSeq(f) /\ f # <<>> /\ f[1] = c[end + 1]
    <3>1. PICK g : g = end + 1 /\ g \in Nat \ {0} /\ g <= l
      BY <2>2, <1>2
    <3>2. f = SubSeq(c, g, l) /\ l <= Len(c) /\ l \in Nat
      BY <1>2, <2>4, <3>1
    <3>3. /\ IsSeq(SubSeq(c, g, l)) /\ Len(SubSeq(c, g, l)) = IF g <= l THEN l - g + 1 ELSE 0
          /\ \A i \in 1..(l - g + 1) : SubSeq(c, g, l)[i] = c[g + i - 1]
      BY ONLY <1>1, <3>1, <3>2, SubSeqIsSeq
    <3>4. Len(f) = l - g + 1 /\ l - g + 1 # 0 /\ 1 \in 1..(l - g + 1) /\ g + 1 - 1 = g
      BY <3>1, <3>2, <3>3, <1>2
    <3>5. f[1] = c[g]
      BY <3>2, <3>3, <3>4
    <3> QED
      BY <3>1, <3>2, <3>3, <3>4, <3>5, EmptyIsSeq
  <2>6. Reply(m, c) = f
    BY <1>1, <1>2, <1>7, <2>4 DEF Reply, Rest, EchoEnd
  <2>7. Painted(f) # <<>>
    BY <2>3, <2>5, RepliesPaint, PaintsFirst
  <2> QED
    BY <1>4, <2>6, <2>7
<1>13. v.acts = <<>> /\ v.m.echo = m.echo \o c
  <2>1. SubSeq(c, 1, l) = c
    BY <1>1, <1>2, SubSeqWhole
  <2>2. SubSeq(c, l + 1, l) = <<>>
    <3>1. PICK g : g = l + 1 /\ g \in Nat \ {0} /\ g > l /\ l <= Len(c)
      BY <1>2
    <3>2. SubSeq(c, g, l) = <<>>
      BY ONLY <1>1, <1>2, <3>1, SubSeqIsSeq
    <3> QED
      BY <3>1, <3>2
  <2>3. PICK f : f = SubSeq(c, end + 1, l) /\ f = <<>>
    BY <1>12, <2>2
  <2>4. v.acts = Live(f)
    BY <1>7, <2>3
  <2> QED
    BY <1>7, <1>12, <2>1, <2>3, <2>4, LiveIsSeq
<1>14. \A i \in 1..Len(c) : c[i].k \in {"echo", "nl"}
  <2>1. ASSUME NEW i \in 1..l PROVE c[i].k \in {"echo", "nl"}
    <3>1. i < end \/ i = end
      BY <1>12, <1>2
    <3> QED
      BY <1>8, <1>9, <3>1
  <2> QED
    BY <1>2, <2>1
<1>15. Held(m, c, q, w, r)
  BY <1>3, <1>5, <1>7, <1>9, <1>13, <1>14 DEF Held
<1>16. IF p = <<>> THEN at \in {"read", "done", "gone"} ELSE p[1].k \in Replies
  <2>1. CASE p = <<>>
    BY <1>2, <1>11, <1>12, <2>1
  <2>2. CASE p # <<>>
    <3>1. 1 \in 1..k /\ end # Len(q) /\ q[l + 1] = p[1]
      BY <1>2, <1>12, <2>2
    <3> QED
      BY <1>11, <1>12, <2>2, <3>1
  <2> QED
    BY <2>1, <2>2
<1> QED
  BY <1>3, <1>5, <1>7, <1>15, <1>16

\* A machine that holds an echo back after the chunk read a prompt, or the echo and not its end.
LEMMA StillHolds ==
  ASSUME NEW m, NEW c, NEW p, NEW q, NEW at, NEW v, NEW w, NEW r, NEW end, NEW n,
         Taking(m, c, p, q, at, v, w, r, end, n), r.m.swallow
  PROVE  \/ ((p = <<>> /\ at \in {"input", "gone"}) \/ OnlyToggles(p)) /\ (r.m.echo = <<>> \/ OnlyToggles(p))
         \/ LineFirst(p) /\ (r.m.echo = <<>> \/ Held(m, c, q, w, r))
<1>1. /\ IsSeq(c) /\ c # <<>> /\ IsSeq(p) /\ q = c \o p /\ PipeFits(q, at) /\ SwallowFits(m, q, at)
      /\ EchoMoves(v, m, c, end) /\ ScanMoves(w, v, c, Len(c), v.acts, n) /\ SettleMoves(r, w, Reply(m, c))
      /\ w = Scanned(v, c)
  BY DEF Taking
<1>0. PICK l, k : Places(c, p, q, l, k)
  BY ONLY <1>1, PlacesOf
<1>2. /\ l = Len(c) /\ k = Len(p) /\ 1 <= l /\ Len(q) = l + k /\ (p = <<>> <=> k = 0) /\ l \in Nat /\ k \in Nat
      /\ \A x \in 1..l : q[x] = c[x]
      /\ \A j \in 1..k : q[l + j] = p[j]
      /\ q # <<>> /\ (p = <<>> => q = c)
  BY <1>0 DEF Places
<1>3. w.m.swallow /\ (r.m.echo = <<>> \/ (~Repaints(w.m, Reply(m, c)) /\ r.m.echo = w.m.echo))
  BY <1>1 DEF SettleMoves
<1>4. CASE \E i \in 1..l : c[i].k = "B"
  <2>1. PICK i \in 1..l : c[i].k = "B"
    BY <1>4
  <2>2. c[i].k \in ToggleMarks
    BY <2>1 DEF ToggleMarks
  <2>3. (p = <<>> /\ at \in {"input", "gone"}) \/ OnlyToggles(p)
    BY <1>1, <1>2, <2>2, AfterB
  <2>4. w.m.echo = <<>>
    BY <1>1, <1>2, <1>4 DEF ScanMoves
  <2> QED
    BY <1>3, <2>3, <2>4
<1>5. CASE ~(\E i \in 1..l : c[i].k = "B")
  <2>1. v.m.swallow
    BY <1>1, <1>2, <1>3, <1>5 DEF ScanMoves
  <2>2. m.swallow /\ ~(end <= l) /\ v.acts = <<>> /\ v.m.echo = m.echo \o c
    BY <1>1, <1>2, <2>1 DEF EchoMoves
  <2>3. OnlyToggles(q) \/ LineFirst(q)
    BY <1>1, <1>2, <2>2 DEF SwallowFits
  <2>4. CASE OnlyToggles(q)
    <3>1. q[Len(q)].k = "B"
      BY <2>4, EndOfLine
    <3>2. p # <<>>
      <4>1. SUFFICES ASSUME p = <<>> PROVE FALSE
        OBVIOUS
      <4>2. Len(q) = l /\ l \in 1..l /\ c[l] = q[l]
        BY <1>2, <4>1
      <4> QED
        BY <1>5, <3>1, <4>2
    <3>3. ASSUME NEW j \in 1..k PROVE p[j].k \in ToggleMarks
      <4>1. l + j \in 1..Len(q)
        BY <1>2
      <4> QED
        BY <1>2, <2>4, <4>1 DEF OnlyToggles
    <3>4. OnlyToggles(p)
      BY <1>2, <3>2, <3>3 DEF OnlyToggles
    <3> QED
      BY <3>4
  <2>5. CASE LineFirst(q)
    <3>1. (\A i \in 1..Len(c) : c[i].k = "echo") /\ p # <<>> /\ p[1].k = "nl"
      BY <1>2, <2>2, <2>5, EndOfLine
    <3>2. LineFirst(p)
      BY <3>1 DEF LineFirst
    <3>3. w = v
      <4>1. \A i \in 1..Len(c) : c[i].k \in {"echo", "nl", "ps2"}
        BY <3>1
      <4>2. Whole(v)
        BY <1>1 DEF EchoMoves
      <4> QED
        BY <1>1, <4>1, <4>2, ScanFacts
    <3>4. r.m.echo = <<>> \/ Held(m, c, q, w, r)
      BY <1>3, <2>2, <2>5, <3>1, <3>3 DEF Held
    <3> QED
      BY <3>2, <3>4
  <2> QED
    BY <2>3, <2>4, <2>5
<1> QED
  BY <1>4, <1>5

\* A chunk keeps what fits, and what it leaves held back was added to nothing else.
LEMMA ChunkHolds ==
  ASSUME NEW m, NEW c, NEW p, NEW q, NEW at, NEW v, NEW w, NEW r, NEW end, NEW n,
         Taking(m, c, p, q, at, v, w, r, end, n)
  PROVE  SwallowFits(r.m, p, at) /\ (Holding(r.m, p) => r.m.echo = <<>> \/ Held(m, c, q, w, r))
<1>1. ASSUME r.m.submission = "awaiting"
      PROVE  /\ Held(m, c, q, w, r) /\ ~r.m.swallow
             /\ IF p = <<>> THEN at \in {"read", "done", "gone"} ELSE p[1].k \in Replies
  BY <1>1, AwaitsAnswer
<1>2. ASSUME r.m.swallow
      PROVE  \/ ((p = <<>> /\ at \in {"input", "gone"}) \/ OnlyToggles(p)) /\ (r.m.echo = <<>> \/ OnlyToggles(p))
             \/ LineFirst(p) /\ (r.m.echo = <<>> \/ Held(m, c, q, w, r))
  BY <1>2, StillHolds
<1> QED
  BY <1>1, <1>2 DEF SwallowFits, Holding

\* The numbers of a chunk c of what is unread, c and p, when n was read and n2 is read then
Numbered(c, p, n, n2) ==
  /\ n \in Nat /\ n2 \in Nat /\ n <= n2
  /\ Once(Painted(c), 0) /\ UpTo(Painted(c), n2) /\ Beyond(Painted(c), n)
  /\ Once(Painted(p), 0) /\ Beyond(Painted(p), n2)

\* The numbers of a chunk come before those left in the pipe.
LEMMA ChunkNumbers ==
  ASSUME NEW c, IsSeq(c), NEW p, IsSeq(p), NEW n \in Nat, NEW x, x = Painted(c), NEW u, u = Painted(c \o p),
         Once(u, 0), Beyond(u, n), NEW n2, n2 = (IF x = <<>> THEN n ELSE Last(x).n)
  PROVE  /\ Numbered(c, p, n, n2)
         /\ \A k \in Nat : n <= k /\ UpTo(u, k) => n2 <= k /\ UpTo(Painted(p), k)
<1>1. PICK y : y = Painted(p)
  OBVIOUS
<1>2. IsSeq(x) /\ IsSeq(y) /\ u = x \o y
  BY <1>1, PaintedFacts, PaintedConcat
<1>3. Once(x \o y, 0) /\ Beyond(x \o y, n)
  BY <1>2
<1>4. Once(x, 0) /\ Once(y, 0) /\ Later(x, y, 0) /\ Beyond(x, n) /\ Beyond(y, n)
  BY ONLY <1>2, <1>3, OfParts
<1>5. Len(x) \in Nat /\ (x = <<>> <=> Len(x) = 0)
  BY <1>2, SeqLen
<1>6. CASE x = <<>>
  <2>1. n2 = n /\ UpTo(x, n)
    BY <1>6, OfNothing
  <2>2. ASSUME NEW k \in Nat, n <= k, UpTo(u, k) PROVE n2 <= k /\ UpTo(y, k)
    <3>1. UpTo(x \o y, k)
      BY <1>2, <2>2
    <3>2. UpTo(y, k)
      BY ONLY <1>2, <3>1, OfParts
    <3> QED
      BY <2>1, <2>2, <3>2
  <2> QED
    BY <1>1, <1>4, <2>1, <2>2 DEF Numbered
<1>7. CASE x # <<>>
  <2>1. PICK l : l = Len(x) /\ l \in Nat /\ l \in 1..Len(x)
    BY <1>5, <1>7
  <2>2. n2 = x[l].n
    BY <1>7, <2>1 DEF Last
  <2>3. \A i \in 1..l : x[i].n \in Nat /\ x[i].n > n
    BY <1>4, <2>1 DEF Beyond
  <2>4. n2 \in Nat /\ n2 > n
    BY <2>1, <2>2, <2>3
  <2>5. ASSUME NEW i \in 1..l PROVE x[i].n \in 1..n2
    <3>1. CASE i = l
      BY <2>2, <2>3, <2>4, <3>1
    <3>2. CASE i # l
      <4>1. i < l
        BY <2>1, <3>2
      <4>2. Follows(x[i], x[l], 0)
        BY <1>4, <2>1, <4>1 DEF Once
      <4>3. x[i].n < x[l].n
        BY <2>2, <2>4, <4>2 DEF Follows
      <4> QED
        BY <2>2, <2>3, <2>4, <4>3
    <3> QED
      BY <3>1, <3>2
  <2>6. ASSUME NEW j \in 1..Len(y) PROVE y[j].n \in Nat /\ y[j].n > n2
    <3>1. Follows(x[l], y[j], 0)
      BY <1>4, <2>1 DEF Later
    <3>2. y[j].n \in Nat /\ y[j].n > n
      BY <1>4 DEF Beyond
    <3> QED
      BY <2>2, <2>4, <3>1, <3>2 DEF Follows
  <2>7. ASSUME NEW k \in Nat, n <= k, UpTo(u, k) PROVE n2 <= k /\ UpTo(y, k)
    <3>1. UpTo(x \o y, k)
      BY <1>2, <2>7
    <3>2. UpTo(x, k) /\ UpTo(y, k)
      BY ONLY <1>2, <3>1, OfParts
    <3>3. x[l].n \in 1..k
      BY <2>1, <3>2 DEF UpTo
    <3> QED
      BY <2>2, <3>2, <3>3
  <2> QED
    BY <1>1, <1>4, <2>1, <2>4, <2>5, <2>6, <2>7 DEF Numbered, UpTo, Beyond
<1> QED
  BY <1>6, <1>7

\* What every view shows was read, and comes before what may be sent as it is.
ShownUpTo(n) == \A v \in Views : UpTo(shown[v], n)

\* An echo that is held back comes after what the views show and what is queued.
EchoFits(e, b) ==
  /\ Once(e, 0) /\ Echoes(e) /\ Later(Painted(b), e, 0)
  /\ \A v \in Views : Later(shown[v], e, since[v])

\* What was read last may be sent.
LEMMA NewIsSendable ==
  ASSUME NEW n \in Nat, NEW n2, ShownUpTo(n), NEW c, IsSeq(c),
         Once(Painted(c), 0), UpTo(Painted(c), n2), Beyond(Painted(c), n)
  PROVE  /\ Sendable(c, n2) /\ Sendable(Painted(c), n2)
         /\ \A s : UpTo(s, n) => Later(s, Painted(c), 0)
<1>1. PICK x : x = Painted(c) /\ IsSeq(x)
  BY PaintedFacts
<1>2. Painted(x) = x
  BY <1>1, PaintedTwice
<1>3. ASSUME NEW s, UpTo(s, n), NEW b PROVE Later(s, x, b)
  <2>1. Beyond(x, n)
    BY <1>1
  <2> QED
    BY <1>3, <2>1, OfBounds
<1>4. \A v \in Views : Later(shown[v], x, since[v])
  BY <1>3 DEF ShownUpTo
<1> QED
  BY <1>1, <1>2, <1>3, <1>4 DEF Sendable

\* So may an echo that comes back.
LEMMA EchoIsSendable ==
  ASSUME NEW e, IsSeq(e), NEW b, EchoFits(Painted(e), b), NEW n, UpTo(Painted(e), n)
  PROVE  Sendable(Painted(e), n) /\ Sendable(e, n) /\ Painted(Painted(e)) = Painted(e)
<1>1. PICK x : x = Painted(e) /\ IsSeq(x) /\ Painted(x) = x
  BY PaintedFacts, PaintedTwice
<1> QED
  BY <1>1 DEF EchoFits, Sendable

\* What one action queues
LEMMA ApplyQueues ==
  ASSUME NEW s, HasShape(s), NEW x, x.do = "echo", NEW e, e = x.with, IsSeq(s.pending), IsSeq(e),
         NEW t, Later(Painted(s.pending), t, 0), Later(Painted(e), t, 0)
  PROVE  Later(Painted(Apply(s, x).pending), t, 0)
<1>1. PICK p, o, u : p = s.pending /\ o = s.pending \o e /\ u = [s EXCEPT !.pending = o]
  OBVIOUS
<1>2. u.pending = o
  BY <1>1 DEF HasShape
<1>3. Apply(s, x) = IF Attached(s) THEN u ELSE s
  BY <1>1 DEF Apply
<1>4. PICK y, z : y = Painted(p) /\ z = Painted(e) /\ IsSeq(y) /\ IsSeq(z)
  BY <1>1, PaintedFacts
<1>5. Painted(o) = y \o z
  BY <1>1, <1>4, PaintedConcat
<1>6. Later(y, t, 0) /\ Later(z, t, 0)
  BY <1>1, <1>4
<1>7. Later(y \o z, t, 0)
  BY ONLY <1>4, <1>6, OfParts
<1> QED
  BY <1>2, <1>3, <1>5, <1>7

\* What an echo paints is an echo.
LEMMA EchoesOf ==
  ASSUME NEW c, IsSeq(c), \A i \in 1..Len(c) : c[i].k \in {"echo", "nl"}
  PROVE  Echoes(Painted(c))
<1>1. PICK S : S = {c[i] : i \in 1..Len(c)}
  OBVIOUS
<1>2. c \in Seq(S)
  <2>1. PICK R : c \in Seq(R)
    BY DEF IsSeq
  <2>2. Len(c) \in Nat /\ c = [i \in 1..Len(c) |-> c[i]]
    BY <2>1
  <2>3. \A i \in 1..Len(c) : c[i] \in S
    BY <1>1
  <2>4. PICK n \in Nat : n = Len(c)
    BY <2>2
  <2>5. c \in [1..n -> S]
    BY <2>2, <2>3, <2>4
  <2> QED
    BY <2>4, <2>5, SeqDef
<1>3. PICK T : T = {x \in S : Paints(x)}
  OBVIOUS
<1>4. Painted(c) = Sel(c, T)
  BY <1>2, <1>3, PaintedIsSel
<1>5. Sel(c, T) \in Seq(T)
  BY SelType
<1>6. \A x \in T : x.k = "echo"
  BY <1>1, <1>3 DEF Paints
<1> QED
  BY <1>4, <1>5, <1>6 DEF Echoes

\* What of a chunk goes to the echo, and what to the screen
Parts(m, c, v, f, b) ==
  /\ IsSeq(f) /\ IsSeq(b) /\ c = f \o b /\ v.acts = Live(b)
  /\ v.m.echo = <<>> \/ v.m.echo = m.echo \o f

\* A chunk is what is swallowed of it and what is not.
LEMMA PartsOf ==
  ASSUME NEW m, NEW c, NEW v, NEW end, IsSeq(c), EchoMoves(v, m, c, end), end \in 1..(Len(c) + 1), IsSeq(m.echo)
  PROVE  \E f, b : Parts(m, c, v, f, b)
<1>1. PICK no : no = <<>>
  OBVIOUS
<1>2. IsSeq(no) /\ c = no \o c /\ c = c \o no /\ m.echo = m.echo \o no /\ Live(no) = no
  BY <1>1, EmptyIsSeq, LiveIsSeq
<1>3. CASE ~m.swallow
  <2>1. v.acts = Live(c) /\ v.m.echo = m.echo
    BY <1>3 DEF EchoMoves
  <2>2. Parts(m, c, v, no, c)
    BY <1>2, <2>1 DEF Parts
  <2> QED
    BY <2>2
<1>4. CASE m.swallow /\ end <= Len(c)
  <2>1. PICK f, b : f = SubSeq(c, 1, end) /\ b = SubSeq(c, end + 1, Len(c))
    OBVIOUS
  <2>2. v.acts = Live(b) /\ v.m.echo = m.echo \o f
    BY <1>4, <2>1 DEF EchoMoves
  <2>3. end \in 1..Len(c)
    BY <1>4, SeqLen
  <2>4. IsSeq(f) /\ IsSeq(b) /\ c = f \o b
    BY <2>1, <2>3, ChunkSplits
  <2>5. Parts(m, c, v, f, b)
    BY <2>2, <2>4 DEF Parts
  <2> QED
    BY <2>5
<1>5. CASE m.swallow /\ ~(end <= Len(c)) /\ v.acts = Live(c) /\ v.m.echo = <<>>
  <2>1. Parts(m, c, v, no, c)
    BY <1>2, <1>5 DEF Parts
  <2> QED
    BY <2>1
<1>6. CASE m.swallow /\ ~(end <= Len(c)) /\ v.acts = <<>> /\ v.m.echo = m.echo \o c
  <2>1. v.acts = Live(no)
    BY <1>1, <1>2, <1>6
  <2>2. Parts(m, c, v, c, no)
    BY <1>2, <1>6, <2>1 DEF Parts
  <2> QED
    BY <2>2
<1> QED
  BY <1>3, <1>4, <1>5, <1>6 DEF EchoMoves

\* What is sent of a chunk, on a screen in order
LEMMA LiveInOrder ==
  ASSUME NEW n, NEW s, InOrder(s, n), NEW b, IsSeq(b), Sendable(Painted(b), n),
         Later(Painted(s.pending), Painted(b), 0)
  PROVE  InOrder(Applied(s, Live(b)), n)
<1>1. PICK x, l : x = Act("live", Painted(b)) /\ l = Live(b)
  OBVIOUS
<1>2. x.do \in {"live", "echo"} /\ x.with = Painted(b)
  BY <1>1 DEF Act
<1>3. Painted(x.with) = Painted(b)
  BY <1>2, PaintedTwice
<1>4. InOrder(Apply(s, x), n)
  <2>1. Sendable(x.with, n) /\ Later(Painted(s.pending), Painted(x.with), 0)
    BY <1>2, <1>3
  <2> QED
    BY <1>2, <2>1, ApplyInOrder
<1>5. l = <<>> \/ l = <<x>>
  BY <1>1, LiveIsSeq
<1>6. Applied(s, <<>>) = s /\ Applied(s, <<x>>) = Apply(s, x)
  BY AppliedNothing, AppliedOne
<1> QED
  BY <1>1, <1>4, <1>5, <1>6

\* What was read last may be added to what is held back.
LEMMA EchoGrows ==
  ASSUME NEW n \in Nat, NEW n2 \in Nat, n <= n2, ShownUpTo(n), NEW e, IsSeq(e), UpTo(Painted(e), n),
         NEW b, UpTo(Painted(b), n), EchoFits(Painted(e), b),
         NEW f, IsSeq(f), Once(Painted(f), 0), UpTo(Painted(f), n2), Beyond(Painted(f), n)
  PROVE  /\ Sendable(Painted(e \o f), n2) /\ Later(Painted(b), Painted(e \o f), 0) /\ IsSeq(e \o f)
         /\ Echoes(Painted(f)) => EchoFits(Painted(e \o f), b)
<1>1. PICK x, y, z : x = Painted(e) /\ y = Painted(f) /\ z = Painted(b)
  OBVIOUS
<1>2. IsSeq(x) /\ IsSeq(y) /\ Painted(e \o f) = x \o y /\ IsSeq(e \o f)
  BY <1>1, PaintedFacts, PaintedConcat, SeqConcat
<1>3. /\ Once(x, 0) /\ Once(y, 0) /\ Echoes(x) /\ UpTo(x, n) /\ UpTo(y, n2) /\ Beyond(y, n) /\ UpTo(z, n) /\ Later(z, x, 0)
      /\ \A u \in Views : Later(shown[u], x, since[u]) /\ UpTo(shown[u], n)
  BY <1>1 DEF EchoFits, ShownUpTo
<1>4. \A s : UpTo(s, n) => \A k : Later(s, y, k)
  BY <1>3, OfBounds
<1>5. Later(x, y, 0) /\ Later(z, y, 0) /\ UpTo(x, n2)
  BY <1>3, <1>4, OfBounds
<1>6. Once(x \o y, 0) /\ UpTo(x \o y, n2) /\ Later(z, x \o y, 0)
  BY ONLY <1>2, <1>3, <1>5, OfParts
<1>7. ASSUME NEW u \in Views PROVE Later(shown[u], x \o y, since[u])
  <2>1. Later(shown[u], x, since[u]) /\ Later(shown[u], y, since[u])
    BY <1>3, <1>4
  <2> QED
    BY ONLY <1>2, <2>1, OfParts
<1>8. Echoes(y) => Echoes(x \o y)
  BY ONLY <1>2, <1>3, OfParts
<1>9. PICK g : g = x \o y
  OBVIOUS
<1>10. IsSeq(g) /\ Painted(g) = g
  <2>1. PICK h : h = e \o f
    OBVIOUS
  <2>2. IsSeq(h) /\ g = Painted(h)
    BY <1>2, <1>9, <2>1
  <2> QED
    BY <2>2, PaintedTwice, PaintedFacts
<1>11. Sendable(g, n2)
  BY <1>6, <1>7, <1>9, <1>10 DEF Sendable
<1>12. Echoes(y) => EchoFits(g, b)
  BY <1>1, <1>6, <1>7, <1>8, <1>9 DEF EchoFits
<1> QED
  BY <1>1, <1>2, <1>6, <1>9, <1>11, <1>12

-----------------------------------------------------------------------------
\* The numbers of a chunk, and of what was held back.

\* An echo that comes back was held back when the chunk came.
LEMMA ComesBack ==
  ASSUME NEW m, NEW c, NEW p, NEW q, NEW at, NEW v, NEW w, NEW r, NEW end, NEW n,
         Taking(m, c, p, q, at, v, w, r, end, n), Repaints(w.m, Reply(m, c))
  PROVE  Holding(m, q) /\ w.acts = v.acts /\ w.m.echo = v.m.echo
<1>1. /\ IsSeq(c) /\ c # <<>> /\ IsSeq(p) /\ q = c \o p /\ SwallowFits(m, q, at)
      /\ EchoMoves(v, m, c, end) /\ ScanMoves(w, v, c, Len(c), v.acts, n)
  BY DEF Taking
<1>2. q # <<>>
  BY ONLY <1>1, PlacesOf DEF Places
<1>3. w.m.submission = "awaiting"
  BY DEF Repaints
<1>4. v.m.submission = "awaiting" /\ (\A i \in 1..Len(c) : c[i].k \notin {"E", "C", "D", "B"}) /\ w.acts = v.acts
  BY <1>1, <1>3 DEF ScanMoves
<1>5. w.m.echo = v.m.echo
  <2>1. w.m.echo = v.m.echo \/ \E i \in 1..Len(c) : c[i].k \in {"B", "C"}
    BY <1>1 DEF ScanMoves
  <2>2. \A i \in 1..Len(c) : ~(c[i].k \in {"B", "C"})
    BY <1>4
  <2> QED
    BY <2>1, <2>2
<1>6. CASE m.submission = "awaiting"
  <2>1. q[1].k \in Replies
    BY <1>1, <1>2, <1>6 DEF SwallowFits
  <2>2. Len(q) \in Nat /\ 1 <= Len(q)
    BY ONLY <1>1, PlacesOf DEF Places
  <2>3. ~OnlyToggles(q)
    BY <2>1, <2>2 DEF OnlyToggles, ToggleMarks, Replies
  <2> QED
    BY <1>4, <1>5, <1>6, <2>3 DEF Holding
<1>7. CASE m.submission # "awaiting"
  <2>1. m.swallow /\ end <= Len(c)
    BY <1>1, <1>4, <1>7 DEF EchoMoves
  <2>2. ~OnlyToggles(q)
    BY <2>1, EndOfLine
  <2> QED
    BY <1>4, <1>5, <2>1, <2>2 DEF Holding
<1> QED
  BY <1>6, <1>7

\* What is queued, and what is held back, where a chunk is taken
ChunkReady(m, c, p, q, s, n, n2) ==
  /\ Numbered(c, p, n, n2) /\ ShownUpTo(n) /\ IsSeq(m.echo) /\ UpTo(Painted(m.echo), n)
  /\ HasShape(s) /\ InOrder(s, n2) /\ IsSeq(s.pending) /\ UpTo(Painted(s.pending), n)
  /\ Holding(m, q) => EchoFits(Painted(m.echo), s.pending)

\* The numbers of the two parts of a chunk
PartNumbers(f, b, n, n2) ==
  /\ n \in Nat /\ n2 \in Nat /\ n <= n2
  /\ Once(Painted(f), 0) /\ UpTo(Painted(f), n2) /\ Beyond(Painted(f), n)
  /\ Once(Painted(b), 0) /\ UpTo(Painted(b), n2) /\ Beyond(Painted(b), n)
  /\ Later(Painted(f), Painted(b), 0)

\* The numbers of the two parts of a chunk
LEMMA NumbersOfParts ==
  ASSUME NEW c, NEW p, NEW n, NEW n2, Numbered(c, p, n, n2), NEW f, IsSeq(f), NEW b, IsSeq(b), c = f \o b
  PROVE  PartNumbers(f, b, n, n2)
<1>1. PICK x, y : x = Painted(f) /\ y = Painted(b)
  OBVIOUS
<1>2. IsSeq(x) /\ IsSeq(y) /\ Painted(c) = x \o y
  BY <1>1, PaintedFacts, PaintedConcat
<1>3. Once(x \o y, 0) /\ UpTo(x \o y, n2) /\ Beyond(x \o y, n) /\ n \in Nat /\ n2 \in Nat /\ n <= n2
  BY <1>2 DEF Numbered
<1>4. Once(x, 0) /\ Once(y, 0) /\ Later(x, y, 0) /\ UpTo(x, n2) /\ UpTo(y, n2) /\ Beyond(x, n) /\ Beyond(y, n)
  BY ONLY <1>2, <1>3, OfParts
<1> QED
  BY <1>1, <1>3, <1>4 DEF PartNumbers

\* The live part of a chunk keeps the order.
LEMMA LivePart ==
  ASSUME NEW n, NEW n2, ShownUpTo(n), NEW f, NEW b, IsSeq(b), PartNumbers(f, b, n, n2),
         NEW s, InOrder(s, n2), NEW l, UpTo(l, n)
  PROVE  /\ Sendable(Painted(b), n2) /\ Later(l, Painted(b), 0)
         /\ Later(Painted(s.pending), Painted(b), 0) => InOrder(Applied(s, Live(b)), n2)
<1>1. /\ n \in Nat /\ n2 \in Nat /\ Once(Painted(b), 0) /\ UpTo(Painted(b), n2) /\ Beyond(Painted(b), n)
  BY DEF PartNumbers
<1>2. Sendable(Painted(b), n2) /\ \A t : UpTo(t, n) => Later(t, Painted(b), 0)
  BY ONLY <1>1, IsSeq(b), ShownUpTo(n), NewIsSendable
<1>3. ASSUME Later(Painted(s.pending), Painted(b), 0) PROVE InOrder(Applied(s, Live(b)), n2)
  BY ONLY <1>2, <1>3, IsSeq(b), InOrder(s, n2), LiveInOrder
<1> QED
  BY <1>2, <1>3

\* An echo that comes back, and what is live of the chunk after it, keep the order.
LEMMA RescueInOrder ==
  ASSUME NEW n, NEW n2, ShownUpTo(n), NEW f, NEW b, IsSeq(f), IsSeq(b), PartNumbers(f, b, n, n2),
         NEW s, HasShape(s), InOrder(s, n2), IsSeq(s.pending), UpTo(Painted(s.pending), n),
         NEW e, IsSeq(e), UpTo(Painted(e), n), EchoFits(Painted(e), s.pending),
         NEW x, x = Act("echo", Painted(e \o f))
  PROVE  InOrder(Applied(s, <<x>> \o Live(b)), n2)
<1>1. /\ n \in Nat /\ n2 \in Nat /\ n <= n2
      /\ Once(Painted(f), 0) /\ UpTo(Painted(f), n2) /\ Beyond(Painted(f), n) /\ Later(Painted(f), Painted(b), 0)
  BY DEF PartNumbers
<1>2. PICK d : d = s.pending
  OBVIOUS
<1>3. UpTo(Painted(d), n) /\ EchoFits(Painted(e), d)
  BY <1>2
<1>4. Sendable(Painted(e \o f), n2) /\ Later(Painted(d), Painted(e \o f), 0) /\ IsSeq(e \o f)
  BY ONLY <1>1, <1>3, ShownUpTo(n), IsSeq(e), IsSeq(f), UpTo(Painted(e), n), EchoGrows
<1>5. PICK g : g = e \o f
  OBVIOUS
<1>6. PICK h : h = Painted(g)
  OBVIOUS
<1>7. x.do = "echo" /\ x.with = h
  BY <1>5, <1>6 DEF Act
<1>8. IsSeq(h) /\ Painted(h) = h /\ Sendable(h, n2) /\ Later(Painted(d), h, 0)
  BY <1>4, <1>5, <1>6, PaintedFacts, PaintedTwice
<1>9. InOrder(Apply(s, x), n2)
  <2>1. Sendable(x.with, n2) /\ Later(Painted(s.pending), Painted(x.with), 0)
    BY <1>2, <1>7, <1>8
  <2> QED
    BY <1>7, <2>1, ApplyInOrder
<1>10. PICK y : y = Painted(b)
  OBVIOUS
<1>11. Sendable(y, n2) /\ Later(Painted(d), y, 0) /\ Later(Painted(e), y, 0)
  BY <1>3, <1>10, LivePart
<1>12. Later(h, y, 0)
  <2>1. PICK i, j : i = Painted(e) /\ j = Painted(f)
    OBVIOUS
  <2>2. IsSeq(i) /\ IsSeq(j) /\ h = i \o j
    BY <1>5, <1>6, <2>1, PaintedFacts, PaintedConcat
  <2>3. Later(i, y, 0) /\ Later(j, y, 0)
    BY <1>1, <1>10, <1>11, <2>1
  <2>4. Later(i \o j, y, 0)
    BY ONLY <2>2, <2>3, OfParts
  <2> QED
    BY <2>2, <2>4
<1>13. Later(Painted(Apply(s, x).pending), y, 0)
  <2>1. Later(Painted(s.pending), y, 0) /\ Later(Painted(h), y, 0)
    BY <1>2, <1>8, <1>11, <1>12
  <2> QED
    BY ONLY <1>7, <1>8, <2>1, HasShape(s), IsSeq(s.pending), ApplyQueues
<1>14. PICK t : t = Apply(s, x)
  OBVIOUS
<1>15. InOrder(Applied(t, Live(b)), n2)
  <2>1. InOrder(t, n2) /\ Later(Painted(t.pending), Painted(b), 0) /\ Sendable(Painted(b), n2)
    BY <1>9, <1>10, <1>11, <1>13, <1>14
  <2> QED
    BY ONLY <2>1, IsSeq(b), LiveInOrder
<1>16. Applied(s, <<x>> \o Live(b)) = Applied(Applied(s, <<x>>), Live(b))
  <2>1. IsSeq(<<x>>) /\ IsSeq(Live(b))
    BY OneIsSeq, LiveIsSeq
  <2> QED
    BY <2>1, AppliedConcat
<1> QED
  BY <1>14, <1>15, <1>16, AppliedOne

\* The parts of a chunk, with their numbers
Halves(m, c, v, f, b, n, n2) == Parts(m, c, v, f, b) /\ PartNumbers(f, b, n, n2)

\* Both at once: the parts of a chunk and their numbers
LEMMA HalvesOf ==
  ASSUME NEW m, NEW c, NEW p, NEW q, NEW at, NEW v, NEW w, NEW r, NEW end, NEW n, NEW n2, NEW s,
         Taking(m, c, p, q, at, v, w, r, end, n2), ChunkReady(m, c, p, q, s, n, n2)
  PROVE  \E f, b : Halves(m, c, v, f, b, n, n2)
<1>0. end \in 1..(Len(c) + 1)
  BY ONLY Taking(m, c, p, q, at, v, w, r, end, n2), EndOfLine
<1>1. IsSeq(c) /\ EchoMoves(v, m, c, end) /\ end \in 1..(Len(c) + 1) /\ IsSeq(m.echo) /\ Numbered(c, p, n, n2)
  BY <1>0 DEF Taking, ChunkReady
<1>2. PICK f, b : Parts(m, c, v, f, b)
  BY ONLY <1>1, PartsOf
<1>3. IsSeq(f) /\ IsSeq(b) /\ c = f \o b
  BY <1>2 DEF Parts
<1>4. PartNumbers(f, b, n, n2)
  BY ONLY <1>1, <1>3, NumbersOfParts
<1>5. Halves(m, c, v, f, b, n, n2)
  BY <1>2, <1>4 DEF Halves
<1> QED
  BY <1>5

\* What a chunk does to the screen, before it is told whether the line continues
LEMMA ChunkInOrder ==
  ASSUME NEW m, NEW c, NEW p, NEW q, NEW at, NEW v, NEW w, NEW r, NEW end, NEW n, NEW n2, NEW s,
         Taking(m, c, p, q, at, v, w, r, end, n2), ChunkReady(m, c, p, q, s, n, n2),
         NEW a, a = Rescue(w.m, Reply(m, c)) \o w.acts
  PROVE  IsSeq(a) /\ InOrder(Applied(s, a), n2)
<1>1. PICK f, b : Halves(m, c, v, f, b, n, n2)
  BY HalvesOf
<1>2. IsSeq(f) /\ IsSeq(b) /\ v.acts = Live(b) /\ (v.m.echo = <<>> \/ v.m.echo = m.echo \o f) /\ PartNumbers(f, b, n, n2)
  BY <1>1 DEF Halves, Parts
<1>3. ShownUpTo(n) /\ IsSeq(m.echo) /\ UpTo(Painted(m.echo), n) /\ HasShape(s) /\ InOrder(s, n2) /\ IsSeq(s.pending)
      /\ UpTo(Painted(s.pending), n) /\ (Holding(m, q) => EchoFits(Painted(m.echo), s.pending))
  BY DEF ChunkReady
<1>4. Harmless(v.acts, w.acts, n2)
  BY DEF Taking, ScanMoves
<1>5. IsSeq(w.acts)
  BY <1>4 DEF Harmless
<1>6. CASE Rescue(w.m, Reply(m, c)) = <<>>
  <2>1. a = w.acts
    BY <1>5, <1>6, EmptyIsSeq
  <2>2. PICK l : l = Painted(s.pending)
    OBVIOUS
  <2>3. UpTo(l, n)
    BY <1>3, <2>2
  <2>4. Later(l, Painted(b), 0) /\ (Later(Painted(s.pending), Painted(b), 0) => InOrder(Applied(s, Live(b)), n2))
    BY ONLY <1>2, <1>3, <2>3, LivePart
  <2>5. InOrder(Applied(s, v.acts), n2)
    BY <1>2, <2>2, <2>4
  <2>6. InOrder(Applied(s, w.acts), n2)
    BY <1>3, <1>4, <2>5 DEF Harmless
  <2> QED
    BY <1>5, <2>1, <2>6
<1>7. CASE Rescue(w.m, Reply(m, c)) # <<>>
  <2>1. Repaints(w.m, Reply(m, c)) /\ w.m.echo # <<>> /\ Rescue(w.m, Reply(m, c)) = <<Act("echo", Painted(w.m.echo))>>
    BY <1>7 DEF Rescue
  <2>2. Holding(m, q) /\ w.acts = v.acts /\ w.m.echo = v.m.echo
    BY <2>1, ComesBack
  <2>3. w.m.echo = m.echo \o f
    BY <1>2, <2>1, <2>2
  <2>4. PICK x : x = Act("echo", Painted(m.echo \o f))
    OBVIOUS
  <2>5. a = <<x>> \o Live(b)
    BY <1>2, <2>1, <2>2, <2>3, <2>4
  <2>6. PICK e : e = m.echo
    OBVIOUS
  <2>7. IsSeq(e) /\ UpTo(Painted(e), n) /\ EchoFits(Painted(e), s.pending) /\ x = Act("echo", Painted(e \o f))
    BY <1>3, <2>2, <2>4, <2>6
  <2>8. InOrder(Applied(s, <<x>> \o Live(b)), n2)
    BY ONLY <1>2, <1>3, <2>7, RescueInOrder
  <2>9. IsSeq(<<x>> \o Live(b))
    BY OneIsSeq, LiveIsSeq, SeqConcat
  <2> QED
    BY <2>5, <2>8, <2>9
<1> QED
  BY <1>6, <1>7

\* A chunk keeps the order of what is queued, and of what is held back.
LEMMA ChunkDraws ==
  ASSUME NEW m, NEW c, NEW p, NEW q, NEW at, NEW v, NEW w, NEW r, NEW end, NEW n, NEW n2, NEW s,
         Taking(m, c, p, q, at, v, w, r, end, n2), ChunkReady(m, c, p, q, s, n, n2)
  PROVE  /\ IsSeq(r.acts) /\ InOrder(Applied(s, r.acts), n2) /\ UpTo(Painted(r.m.echo), n2)
         /\ Holding(r.m, p) => EchoFits(Painted(r.m.echo), Applied(s, r.acts).pending)
<1>1. PICK a : a = Rescue(w.m, Reply(m, c)) \o w.acts
  OBVIOUS
<1>2. IsSeq(a) /\ InOrder(Applied(s, a), n2)
  BY <1>1, ChunkInOrder
<1>3. SettleMoves(r, w, Reply(m, c))
  BY DEF Taking
<1>4. r.acts = a \/ \E y : r.acts = Append(a, State(y))
  BY <1>1, <1>3 DEF SettleMoves
<1>5. ASSUME NEW y
      PROVE  /\ IsSeq(Append(a, State(y))) /\ InOrder(Applied(s, Append(a, State(y))), n2)
             /\ Applied(s, Append(a, State(y))).pending = Applied(s, a).pending
  <2>1. PICK z : z = State(y)
    OBVIOUS
  <2>2. z.do = "state"
    BY <2>1 DEF State, Act
  <2>3. PICK t : t = Applied(s, a)
    OBVIOUS
  <2>4. Applied(s, Append(a, z)) = Apply(t, z)
    BY <1>2, <2>3, AppliedAppend
  <2>5. Apply(t, z) = t
    BY <2>2 DEF Apply
  <2>6. IsSeq(Append(a, z))
    BY <1>2, SeqAppend
  <2> QED
    BY <1>2, <2>1, <2>3, <2>4, <2>5, <2>6
<1>6. IsSeq(r.acts) /\ InOrder(Applied(s, r.acts), n2) /\ Applied(s, r.acts).pending = Applied(s, a).pending
  BY <1>2, <1>4, <1>5
<1>7. PICK f, b : Halves(m, c, v, f, b, n, n2)
  BY HalvesOf
<1>8. IsSeq(f) /\ (v.m.echo = <<>> \/ v.m.echo = m.echo \o f) /\ UpTo(Painted(f), n2) /\ n \in Nat /\ n2 \in Nat /\ n <= n2
  BY <1>7 DEF Halves, Parts, PartNumbers
<1>9. IsSeq(c) /\ ShownUpTo(n) /\ IsSeq(m.echo) /\ UpTo(Painted(m.echo), n) /\ UpTo(Painted(s.pending), n)
      /\ (Holding(m, q) => EchoFits(Painted(m.echo), s.pending)) /\ Numbered(c, p, n, n2)
  BY DEF ChunkReady, Taking
<1>10. Painted(<<>>) = <<>>
  BY PaintedFacts
<1>11. UpTo(Painted(r.m.echo), n2)
  <2>1. r.m.echo = <<>> \/ r.m.echo = m.echo \o f
    <3>1. r.m.echo = <<>> \/ r.m.echo = w.m.echo
      BY <1>3 DEF SettleMoves
    <3>2. w.m.echo = v.m.echo \/ w.m.echo = <<>>
      BY DEF Taking, ScanMoves
    <3> QED
      BY <1>8, <3>1, <3>2
  <2>2. PICK x, y : x = Painted(m.echo) /\ y = Painted(f)
    OBVIOUS
  <2>3. IsSeq(x) /\ IsSeq(y) /\ Painted(m.echo \o f) = x \o y /\ UpTo(x, n) /\ UpTo(y, n2)
    BY <1>8, <1>9, <2>2, PaintedFacts, PaintedConcat
  <2>4. UpTo(x, n2)
    BY <1>8, <2>3, OfBounds
  <2>5. UpTo(x \o y, n2)
    BY ONLY <2>3, <2>4, OfParts
  <2> QED
    BY <1>10, <2>1, <2>3, <2>5, OfNothing
<1>12. ASSUME Holding(r.m, p) PROVE EchoFits(Painted(r.m.echo), Applied(s, r.acts).pending)
  <2>1. r.m.echo = <<>> \/ Held(m, c, q, w, r)
    BY <1>12, ChunkHolds
  <2>2. CASE r.m.echo = <<>>
    BY <1>10, <2>2, OfNothing DEF EchoFits
  <2>3. CASE Held(m, c, q, w, r)
    <3>1. /\ m.swallow /\ LineFirst(q) /\ r.m.echo = m.echo \o c /\ (\A i \in 1..Len(c) : c[i].k \in {"echo", "nl"})
          /\ w.acts = <<>> /\ ~Repaints(w.m, Reply(m, c))
      BY <2>3 DEF Held
    <3>2. a = <<>>
      <4>1. Rescue(w.m, Reply(m, c)) = <<>>
        BY <3>1 DEF Rescue
      <4> QED
        BY <1>1, <3>1, <4>1
    <3>3. Applied(s, r.acts).pending = s.pending
      BY <1>6, <3>2, AppliedNothing
    <3>4. ~OnlyToggles(q)
      <4>1. q # <<>> /\ (q[1].k = "nl" \/ (2 \in 1..Len(q) /\ q[2].k = "nl"))
        BY <3>1 DEF LineFirst
      <4>2. IsSeq(c) /\ c # <<>> /\ IsSeq(p) /\ q = c \o p
        BY DEF Taking
      <4>3. 1 \in 1..Len(q)
        BY ONLY <4>2, PlacesOf DEF Places
      <4> QED
        BY <4>1, <4>3 DEF OnlyToggles, ToggleMarks
    <3>5. Holding(m, q)
      BY <3>1, <3>4 DEF Holding
    <3>6. Echoes(Painted(c))
      BY <1>9, <3>1, EchoesOf
    <3>7. PICK e, d : e = m.echo /\ d = s.pending
      OBVIOUS
    <3>8. IsSeq(e) /\ UpTo(Painted(e), n) /\ UpTo(Painted(d), n) /\ EchoFits(Painted(e), d)
      BY <1>9, <3>5, <3>7
    <3>9. n \in Nat /\ n2 \in Nat /\ n <= n2 /\ Once(Painted(c), 0) /\ UpTo(Painted(c), n2) /\ Beyond(Painted(c), n)
      BY <1>9 DEF Numbered
    <3>10. Echoes(Painted(c)) => EchoFits(Painted(e \o c), d)
      BY ONLY <1>9, <3>8, <3>9, EchoGrows
    <3> QED
      BY <3>1, <3>3, <3>6, <3>7, <3>10
  <2> QED
    BY <2>1, <2>2, <2>3
<1> QED
  BY <1>6, <1>11, <1>12

-----------------------------------------------------------------------------
\* The invariant: what is shown, held back, and still in the pipe, in this order.

\* The inductive invariant: the stream in the order of its numbers, what was read of it in
\* the screen of the core, and what each view shows once at most. What is held back may
\* still be sent, as long as the line was not given up.
ViewsInOrder(n) ==
  /\ shown = [v \in Views |-> shown[v]] /\ since = [v \in Views |-> since[v]]
  /\ \A v \in Views : since[v] \in 0..n /\ IsSeq(shown[v]) /\ UpTo(shown[v], n) /\ Once(shown[v], since[v])

StreamInOrder ==
  /\ made \in Nat /\ read \in Nat /\ read <= made
  /\ Once(Painted(pipe), 0) /\ Beyond(Painted(pipe), read) /\ UpTo(Painted(pipe), made)

Listens == emitter \in {"receive", "report"}

EchoHolds == PipeFits(pipe, shell.at) /\ SwallowFits(machine, pipe, shell.at)

HeldInOrder ==
  /\ UpTo(Painted(machine.echo), read)
  /\ Listens /\ Holding(machine, pipe) => EchoFits(Painted(machine.echo), screen.pending)

DrawInv == EchoHolds /\ StreamInOrder /\ InOrder(screen, read) /\ ViewsInOrder(read) /\ HeldInOrder

\* What is sent to the views keeps them in order.
LEMMA SendKeeps ==
  ASSUME NEW n \in Nat, ViewsInOrder(n), NEW b, Sendable(b, n), NEW v \in Views,
         NEW d, d = Draw(shown[v], b) \/ d = shown[v]
  PROVE  /\ IsSeq(d) /\ UpTo(d, n) /\ Once(d, since[v])
         /\ \A e : UpTo(e, n) /\ Later(Painted(b), e, 0) /\ Later(shown[v], e, since[v]) => Later(d, e, since[v])
<1>1. PICK s, at, p : s = shown[v] /\ at = since[v] /\ p = Painted(b)
  OBVIOUS
<1>2. at \in Nat /\ IsSeq(s) /\ UpTo(s, n) /\ Once(s, at) /\ IsSeq(b) /\ UpTo(p, n) /\ Once(p, 0) /\ Later(s, p, at)
  BY <1>1 DEF ViewsInOrder, Sendable
<1>3. Once(p, at)
  BY <1>2, OfBounds
<1>4. ASSUME NEW e, UpTo(e, n), Later(p, e, 0) PROVE Later(p, e, at)
  BY <1>2, <1>4, OfBounds
<1>5. CASE d = Draw(s, b)
  <2>1. /\ UpTo(Painted(b), n) /\ Once(Painted(b), at) /\ Later(s, Painted(b), at)
    BY <1>1, <1>2, <1>3
  <2>2. /\ IsSeq(d) /\ UpTo(d, n) /\ Once(d, at)
        /\ \A r : Later(s, r, at) /\ Later(Painted(b), r, at) => Later(d, r, at)
    BY ONLY <1>2, <1>5, <2>1, DrawKeeps
  <2> QED
    BY <1>1, <1>4, <2>2
<1>6. CASE d = s
  BY <1>1, <1>2, <1>6
<1> QED
  BY <1>1, <1>5, <1>6

\* The screen is flushed to the views that listen.
LEMMA FlushTo ==
  ASSUME NEW n \in Nat, ViewsInOrder(n), NEW t, InOrder(t, n),
         shown' = Heard(Pending(t)), screen' = Emptied(t), since' = since
  PROVE  /\ ViewsInOrder(n)' /\ InOrder(screen, n)'
         /\ \A e : UpTo(e, n) /\ EchoFits(e, t.pending) => EchoFits(e, screen.pending)'
<1>1. PICK b : b = Pending(t)
  OBVIOUS
<1>2. Sendable(b, n) /\ (b = t.pending \/ b = <<>>)
  BY <1>1, NothingToSend DEF Pending, InOrder
<1>3. ASSUME NEW v \in Views
      PROVE  /\ shown'[v] = Draw(shown[v], b) \/ shown'[v] = shown[v]
  BY <1>1 DEF Heard
<1>4. ASSUME NEW v \in Views
      PROVE  /\ IsSeq(shown'[v]) /\ UpTo(shown'[v], n) /\ Once(shown'[v], since[v])
             /\ \A e : UpTo(e, n) /\ Later(Painted(b), e, 0) /\ Later(shown[v], e, since[v]) => Later(shown'[v], e, since[v])
  <2>1. PICK d : d = shown'[v]
    OBVIOUS
  <2>2. d = Draw(shown[v], b) \/ d = shown[v]
    BY <1>3, <2>1
  <2> QED
    BY <1>2, <2>1, <2>2, SendKeeps
<1>5. ViewsInOrder(n)'
  <2>1. shown' = [v \in Views |-> shown'[v]]
    BY DEF Heard
  <2> QED
    BY <1>4, <2>1 DEF ViewsInOrder
<1>6. HasShape(screen') /\ screen'.core = t.core /\ screen'.pending = <<>>
  <2>1. HasShape(t)
    BY DEF InOrder
  <2> QED
    BY <2>1 DEF Emptied, HasShape
<1>7. InOrder(screen, n)'
  <2>1. IsSeq(<<>>) /\ Painted(<<>>) = <<>>
    BY EmptyIsSeq, PaintedFacts
  <2>2. Sendable(screen.pending, n)'
    BY <1>6, <2>1, OfNothing DEF Sendable
  <2>3. IsSeq(t.core) /\ UpTo(Painted(t.core), n) /\ Once(Painted(t.core), 0)
    BY DEF InOrder
  <2> QED
    BY <1>6, <2>2, <2>3 DEF InOrder
<1>8. ASSUME NEW e, UpTo(e, n), EchoFits(e, t.pending) PROVE EchoFits(e, screen.pending)'
  <2>1. Later(Painted(b), e, 0)
    BY <1>2, <1>8, OfNothing, PaintedFacts DEF EchoFits
  <2>2. \A v \in Views : Later(shown'[v], e, since'[v])
    BY <1>4, <1>8, <2>1 DEF EchoFits
  <2>3. Later(Painted(screen'.pending), e, 0)
    BY <1>6, OfNothing, PaintedFacts
  <2> QED
    BY <1>8, <2>2, <2>3 DEF EchoFits
<1> QED
  BY <1>5, <1>7, <1>8

\* Flush
LEMMA FlushDraws ==
  ASSUME DrawInv, Flush
  PROVE  DrawInv'
<1>1. UNCHANGED <<shell, pipe, made, machine, emitter, read, since>> /\ shown' = Heard(Pending(screen)) /\ screen' = Emptied(screen)
  BY DEF Flush, child
<1>2. PICK n : n = read /\ n \in Nat
  BY DEF DrawInv, StreamInOrder
<1>3. PICK t : t = screen
  OBVIOUS
<1>4. ViewsInOrder(n) /\ InOrder(t, n)
  BY <1>2, <1>3 DEF DrawInv
<1>5. /\ ViewsInOrder(n)' /\ InOrder(screen, n)'
      /\ \A e : UpTo(e, n) /\ EchoFits(e, t.pending) => EchoFits(e, screen.pending)'
  <2>1. shown' = Heard(Pending(t)) /\ screen' = Emptied(t) /\ since' = since
    BY <1>1, <1>3
  <2> QED
    BY ONLY <1>2, <1>4, <2>1, FlushTo
<1>6. HeldInOrder'
  <2>1. PICK e : e = Painted(machine.echo)
    OBVIOUS
  <2>2. UpTo(e, n)
    BY <1>2, <2>1 DEF DrawInv, HeldInOrder
  <2>3. ASSUME Listens, Holding(machine, pipe) PROVE EchoFits(e, screen.pending)'
    BY <1>3, <1>5, <2>1, <2>2, <2>3 DEF DrawInv, HeldInOrder
  <2>4. e = Painted(machine'.echo) /\ (Listens' => Listens) /\ (Holding(machine, pipe)' => Holding(machine, pipe))
    BY <1>1, <2>1 DEF Listens, Holding
  <2>5. UpTo(Painted(machine.echo), read)'
    BY <1>1, <1>2, <2>2, <2>4
  <2>6. (Listens /\ Holding(machine, pipe) => EchoFits(Painted(machine.echo), screen.pending))'
    BY <2>3, <2>4 DEF EchoFits
  <2> QED
    BY <2>5, <2>6 DEF HeldInOrder
<1>7. EchoHolds' /\ StreamInOrder'
  BY <1>1 DEF DrawInv, EchoHolds, StreamInOrder
<1>8. InOrder(screen, read)' /\ ViewsInOrder(read)'
  BY <1>1, <1>2, <1>5 DEF InOrder, ViewsInOrder, Sendable
<1> QED
  BY <1>6, <1>7, <1>8 DEF DrawInv

\* What fits a stream fits the end of it.
LEMMA RestFits ==
  ASSUME NEW c, IsSeq(c), c # <<>>, NEW p, IsSeq(p), NEW q, q = c \o p, NEW at, PipeFits(q, at)
  PROVE  PipeFits(p, at)
<1>1. PICK l, k : Places(c, p, q, l, k)
  BY ONLY IsSeq(c), c # <<>>, IsSeq(p), q = c \o p, PlacesOf
<1>2. l \in Nat /\ k \in Nat /\ k = Len(p) /\ Len(q) = l + k /\ 1 <= l /\ \A j \in 1..k : q[l + j] = p[j]
  BY <1>1 DEF Places
<1>3. ASSUME NEW i \in 1..k, p[i].k \in ToggleMarks
      PROVE  p[k].k = "B" /\ at \in {"input", "gone"} /\ \A j \in 1..k : i <= j => p[j].k \in ToggleMarks
  <2>1. l + i \in 1..Len(q) /\ q[l + i].k \in ToggleMarks
    BY <1>2, <1>3
  <2>2. /\ q[Len(q)].k = "B" /\ at \in {"input", "gone"}
        /\ \A j \in 1..Len(q) : l + i <= j => q[j].k \in ToggleMarks
    BY <2>1 DEF PipeFits
  <2>3. k \in 1..k /\ q[l + k] = p[k]
    BY <1>2
  <2>4. ASSUME NEW j \in 1..k, i <= j PROVE p[j].k \in ToggleMarks
    <3>1. l + j \in 1..Len(q) /\ l + i <= l + j /\ q[l + j] = p[j]
      BY <1>2, <2>4
    <3> QED
      BY <2>2, <3>1
  <2> QED
    BY <1>2, <2>2, <2>3, <2>4
<1>4. ASSUME NEW i \in 1..k, p[i].k = "nl"
      PROVE  IF i = k THEN at \in {"read", "done", "gone"} ELSE p[i + 1].k \in Replies
  <2>1. l + i \in 1..Len(q) /\ q[l + i].k = "nl"
    BY <1>2, <1>4
  <2>2. IF l + i = Len(q) THEN at \in {"read", "done", "gone"} ELSE q[l + i + 1].k \in Replies
    BY <2>1 DEF PipeFits
  <2>3. CASE i = k
    BY <1>2, <2>2, <2>3
  <2>4. CASE i # k
    <3>1. i + 1 \in 1..k /\ q[l + (i + 1)] = p[i + 1] /\ l + (i + 1) = l + i + 1 /\ l + i # Len(q)
      BY <1>2, <2>4
    <3> QED
      BY <2>2, <2>4, <3>1
  <2> QED
    BY <2>3, <2>4
<1> QED
  BY <1>2, <1>3, <1>4 DEF PipeFits

\* A chunk on the screen of the core
LEMMA CoreGrows ==
  ASSUME NEW s, NEW n \in Nat, NEW n2 \in Nat, n <= n2, InOrder(s, n), NEW c, IsSeq(c),
         Once(Painted(c), 0), UpTo(Painted(c), n2), Beyond(Painted(c), n),
         NEW t, t = [s EXCEPT !.core = @ \o Painted(c)]
  PROVE  InOrder(t, n2) /\ HasShape(t) /\ t.pending = s.pending
<1>1. HasShape(s) /\ IsSeq(s.core) /\ UpTo(Painted(s.core), n) /\ Once(Painted(s.core), 0) /\ Sendable(s.pending, n)
  BY DEF InOrder
<1>2. PICK a, x, y : a = s.core /\ x = Painted(a) /\ y = Painted(c)
  OBVIOUS
<1>3. IsSeq(a) /\ IsSeq(x) /\ IsSeq(y) /\ UpTo(x, n) /\ Once(x, 0) /\ Once(y, 0) /\ UpTo(y, n2) /\ Beyond(y, n)
  BY <1>1, <1>2, PaintedFacts
<1>4. HasShape(t) /\ t.core = a \o y /\ t.pending = s.pending
  BY <1>1, <1>2 DEF HasShape
<1>5. Painted(a \o y) = x \o y /\ IsSeq(a \o y)
  <2>1. Painted(y) = y
    BY <1>2, PaintedTwice
  <2>2. Painted(a \o y) = Painted(a) \o Painted(y)
    BY ONLY <1>3, PaintedConcat
  <2> QED
    BY <1>2, <1>3, <2>1, <2>2, SeqConcat
<1>6. Later(x, y, 0) /\ UpTo(x, n2)
  BY <1>3, OfBounds
<1>7. Once(x \o y, 0) /\ UpTo(x \o y, n2)
  BY ONLY <1>3, <1>6, OfParts
<1>8. Sendable(s.pending, n2)
  BY <1>1, OfBounds DEF Sendable
<1> QED
  BY <1>4, <1>5, <1>7, <1>8 DEF InOrder

\* What was in order up to a number is in order up to a higher one.
LEMMA ViewsGrow ==
  ASSUME NEW n \in Nat, NEW n2 \in Nat, n <= n2, ViewsInOrder(n)
  PROVE  ViewsInOrder(n2) /\ ShownUpTo(n)
<1>1. ASSUME NEW v \in Views PROVE since[v] \in 0..n2 /\ UpTo(shown[v], n2) /\ UpTo(shown[v], n)
  <2>1. UpTo(shown[v], n) /\ since[v] \in 0..n
    BY DEF ViewsInOrder
  <2> QED
    BY <2>1, OfBounds
<1> QED
  BY <1>1 DEF ViewsInOrder, ShownUpTo

\* A chunk as the emitter takes it
Takes(k, c, p, r, n, n2, s, t) ==
  /\ k \in 1..Len(pipe) /\ c = SubSeq(pipe, 1, k) /\ p = SubSeq(pipe, k + 1, Len(pipe)) /\ r = OnChunk(machine, c)
  /\ pipe' = p /\ machine' = r.m /\ emitter = "receive"
  /\ n = read /\ n2 = (IF Painted(c) = <<>> THEN n ELSE Last(Painted(c)).n) /\ read' = n2
  /\ s = [screen EXCEPT !.core = @ \o Painted(c)] /\ t = ApplyAll(s, r.acts)
  /\ \/ screen' = t /\ shown' = shown
     \/ screen' = Emptied(t) /\ shown' = Heard(Pending(t))
  /\ UNCHANGED <<shell, made, since>>

\* `Ingest` with its parts named
LEMMA IngestTakes == Ingest => \E k, c, p, r, n, n2, s, t : Takes(k, c, p, r, n, n2, s, t)
<1> SUFFICES ASSUME Ingest PROVE \E k, c, p, r, n, n2, s, t : Takes(k, c, p, r, n, n2, s, t)
  OBVIOUS
<1>1. PICK k \in 1..Len(pipe) :
       LET chunk == SubSeq(pipe, 1, k)
           r     == OnChunk(machine, chunk)
           s     == Ingested(screen, chunk, r.acts)
       IN  /\ pipe' = SubSeq(pipe, k + 1, Len(pipe))
           /\ machine' = r.m
           /\ read' = IF Painted(chunk) = <<>> THEN read ELSE Last(Painted(chunk)).n
           /\ \/ screen' = s /\ UNCHANGED shown
              \/ screen' = Emptied(s) /\ shown' = Heard(Pending(s))
  BY DEF Ingest
<1>2. PICK c, p : c = SubSeq(pipe, 1, k) /\ p = SubSeq(pipe, k + 1, Len(pipe))
  OBVIOUS
<1>3. PICK r, n : r = OnChunk(machine, c) /\ n = read
  OBVIOUS
<1>4. PICK n2 : n2 = IF Painted(c) = <<>> THEN n ELSE Last(Painted(c)).n
  OBVIOUS
<1>5. PICK s : s = [screen EXCEPT !.core = @ \o Painted(c)]
  OBVIOUS
<1>6. PICK t : t = ApplyAll(s, r.acts)
  OBVIOUS
<1>7. Ingested(screen, c, r.acts) = t
  BY Zenon, <1>5, <1>6 DEF Ingested
<1>8. /\ pipe' = p /\ machine' = r.m /\ read' = n2
      /\ \/ screen' = t /\ shown' = shown
         \/ screen' = Emptied(t) /\ shown' = Heard(Pending(t))
  BY <1>1, <1>2, <1>3, <1>4, <1>7
<1>9. emitter = "receive" /\ UNCHANGED <<shell, made, since>>
  BY DEF Ingest
<1>10. Takes(k, c, p, r, n, n2, s, t)
  BY <1>1, <1>2, <1>3, <1>4, <1>5, <1>6, <1>8, <1>9 DEF Takes
<1> QED
  BY <1>10

\* What the emitter took, cut in two
LEMMA TakesCut ==
  ASSUME IsSeq(pipe), NEW k, NEW c, NEW p, NEW r, NEW n, NEW n2, NEW s, NEW t, Takes(k, c, p, r, n, n2, s, t)
  PROVE  IsSeq(c) /\ c # <<>> /\ IsSeq(p) /\ pipe = c \o p
<1>1. PICK q : q = pipe
  OBVIOUS
<1>2. IsSeq(q) /\ k \in 1..Len(q) /\ c = SubSeq(q, 1, k) /\ p = SubSeq(q, k + 1, Len(q))
  BY <1>1 DEF Takes
<1>3. IsSeq(c) /\ IsSeq(p) /\ q = c \o p
  BY ONLY <1>2, ChunkSplits
<1>4. c # <<>>
  <2>1. Len(q) \in Nat
    BY ONLY <1>2, SeqLen
  <2>2. Len(c) = k
    BY <1>2, <2>1, SubSeqIsSeq
  <2>3. k # 0
    BY <1>2
  <2> QED
    BY <1>3, <2>2, <2>3, SeqLen
<1> QED
  BY <1>1, <1>3, <1>4

\* A chunk that is taken keeps the order of the stream, the screen and what is held back.
Kept(p, r, n2, t) ==
  /\ InOrder(t, n2) /\ n2 \in Nat /\ n2 <= made
  /\ Once(Painted(p), 0) /\ Beyond(Painted(p), n2) /\ UpTo(Painted(p), made)
  /\ PipeFits(p, shell.at) /\ SwallowFits(r.m, p, shell.at)
  /\ UpTo(Painted(r.m.echo), n2) /\ ViewsInOrder(n2)
  /\ Holding(r.m, p) => EchoFits(Painted(r.m.echo), t.pending)

\* The chunk that is taken keeps the screen, the views and the rest in order.
LEMMA TakesKeeps ==
  ASSUME IsSeq(pipe), Fields(machine), IsSeq(machine.echo), DrawInv,
         NEW k, NEW c, NEW p, NEW r, NEW n, NEW n2, NEW s, NEW t, Takes(k, c, p, r, n, n2, s, t)
  PROVE  Kept(p, r, n2, t)
<1>1. IsSeq(c) /\ c # <<>> /\ IsSeq(p) /\ pipe = c \o p
  BY TakesCut
<1>2. /\ r = OnChunk(machine, c) /\ emitter = "receive" /\ n = read /\ n2 = (IF Painted(c) = <<>> THEN n ELSE Last(Painted(c)).n)
      /\ s = [screen EXCEPT !.core = @ \o Painted(c)] /\ t = ApplyAll(s, r.acts)
  BY DEF Takes
<1>3. PICK m, q, at : m = machine /\ q = pipe /\ at = shell.at
  OBVIOUS
<1>4. /\ n \in Nat /\ made \in Nat /\ n <= made
      /\ Once(Painted(q), 0) /\ Beyond(Painted(q), n) /\ UpTo(Painted(q), made)
      /\ PipeFits(q, at) /\ SwallowFits(m, q, at) /\ InOrder(screen, n) /\ ViewsInOrder(n)
      /\ UpTo(Painted(m.echo), n) /\ (Holding(m, q) => EchoFits(Painted(m.echo), screen.pending))
  BY <1>2, <1>3 DEF DrawInv, EchoHolds, StreamInOrder, HeldInOrder, Listens
<1>5. Numbered(c, p, n, n2) /\ n2 <= made /\ UpTo(Painted(p), made)
  <2>1. PICK x, u : x = Painted(c) /\ u = Painted(c \o p)
    OBVIOUS
  <2>2. /\ x = Painted(c) /\ u = Painted(c \o p) /\ Once(u, 0) /\ Beyond(u, n) /\ n2 = (IF x = <<>> THEN n ELSE Last(x).n)
        /\ n \in Nat /\ IsSeq(c) /\ IsSeq(p) /\ UpTo(u, made) /\ made \in Nat /\ n <= made
    BY <1>1, <1>2, <1>3, <1>4, <2>1
  <2>3. Numbered(c, p, n, n2) /\ \A j \in Nat : n <= j /\ UpTo(u, j) => n2 <= j /\ UpTo(Painted(p), j)
    BY ONLY <2>2, ChunkNumbers
  <2> QED
    BY <2>2, <2>3
<1>6. n2 \in Nat /\ n <= n2 /\ Once(Painted(c), 0) /\ UpTo(Painted(c), n2) /\ Beyond(Painted(c), n)
      /\ Once(Painted(p), 0) /\ Beyond(Painted(p), n2)
  BY <1>5 DEF Numbered
<1>7. ViewsInOrder(n2) /\ ShownUpTo(n)
  BY ONLY <1>4, <1>6, ViewsGrow
<1>8. Sendable(c, n2)
  BY ONLY <1>1, <1>4, <1>6, <1>7, NewIsSendable
<1>9. PICK v, w, end : Taking(m, c, p, q, at, v, w, r, end, n2)
  <2>1. /\ Fields(m) /\ Sendable(c, n2) /\ c # <<>> /\ IsSeq(p) /\ q = c \o p
        /\ PipeFits(q, at) /\ SwallowFits(m, q, at) /\ r = OnChunk(m, c)
    BY <1>1, <1>2, <1>3, <1>4, <1>8
  <2> QED
    BY ONLY <2>1, TakingIs
<1>10. SwallowFits(r.m, p, at)
  BY ONLY <1>9, ChunkHolds
<1>11. PipeFits(p, at)
  <2>1. q = c \o p
    BY <1>1, <1>3
  <2> QED
    BY ONLY <1>1, <1>4, <2>1, RestFits
<1>12. InOrder(s, n2) /\ HasShape(s) /\ s.pending = screen.pending
  <2>1. PICK z : z = screen
    OBVIOUS
  <2>2. s = [z EXCEPT !.core = @ \o Painted(c)] /\ InOrder(z, n)
    BY <1>2, <1>4, <2>1
  <2>3. /\ n \in Nat /\ n2 \in Nat /\ n <= n2 /\ InOrder(z, n) /\ IsSeq(c)
        /\ Once(Painted(c), 0) /\ UpTo(Painted(c), n2) /\ Beyond(Painted(c), n)
    BY <1>1, <1>4, <1>6, <2>2
  <2>4. \A y : y = [z EXCEPT !.core = @ \o Painted(c)] => InOrder(y, n2) /\ HasShape(y) /\ y.pending = z.pending
    BY ONLY <2>3, CoreGrows
  <2>5. InOrder(s, n2) /\ HasShape(s) /\ s.pending = z.pending
    BY ONLY <2>2, <2>4
  <2> QED
    BY <2>1, <2>5
<1>13. IsSeq(s.pending) /\ UpTo(Painted(s.pending), n)
  BY <1>4, <1>12 DEF InOrder, Sendable
<1>14. ChunkReady(m, c, p, q, s, n, n2)
  BY <1>3, <1>4, <1>5, <1>7, <1>12, <1>13 DEF ChunkReady
<1>15. PICK f : f = Applied(s, r.acts)
  OBVIOUS
<1>16. /\ IsSeq(r.acts) /\ InOrder(f, n2) /\ UpTo(Painted(r.m.echo), n2)
       /\ Holding(r.m, p) => EchoFits(Painted(r.m.echo), f.pending)
  BY ONLY <1>9, <1>14, <1>15, ChunkDraws
<1>17. t = f
  BY <1>2, <1>12, <1>15, <1>16, ApplyAllIs
<1> QED
  BY <1>3, <1>5, <1>6, <1>7, <1>10, <1>11, <1>16, <1>17 DEF Kept

\* `Ingest` keeps the invariant.
LEMMA IngestDraws ==
  ASSUME IsSeq(pipe), Fields(machine), IsSeq(machine.echo), DrawInv, Ingest
  PROVE  DrawInv'
<1>1. PICK k, c, p, r, n, n2, s, t : Takes(k, c, p, r, n, n2, s, t)
  BY IngestTakes
<1>2. Kept(p, r, n2, t)
  BY <1>1, TakesKeeps
<1>3. PICK e : e = Painted(r.m.echo)
  OBVIOUS
<1>4. /\ InOrder(t, n2) /\ n2 \in Nat /\ n2 <= made
      /\ Once(Painted(p), 0) /\ Beyond(Painted(p), n2) /\ UpTo(Painted(p), made)
      /\ PipeFits(p, shell.at) /\ SwallowFits(r.m, p, shell.at)
      /\ UpTo(e, n2) /\ ViewsInOrder(n2)
      /\ Holding(r.m, p) => EchoFits(e, t.pending)
  BY <1>2, <1>3 DEF Kept
<1>5. /\ pipe' = p /\ machine' = r.m /\ read' = n2 /\ UNCHANGED <<shell, made, since>>
      /\ \/ screen' = t /\ shown' = shown
         \/ screen' = Emptied(t) /\ shown' = Heard(Pending(t))
  BY <1>1 DEF Takes
<1>6. made \in Nat
  BY DEF DrawInv, StreamInOrder
<1>7. EchoHolds' /\ StreamInOrder'
  BY <1>4, <1>5, <1>6 DEF EchoHolds, StreamInOrder
<1>8. ViewsInOrder(n2)' /\ InOrder(screen, n2)' /\ (EchoFits(e, t.pending) => EchoFits(e, screen.pending)')
  <2>1. CASE screen' = t /\ shown' = shown
    <3>1. since' = since
      BY <1>5
    <3> QED
      BY <1>4, <2>1, <3>1 DEF ViewsInOrder, InOrder, Sendable, EchoFits
  <2>2. CASE screen' = Emptied(t) /\ shown' = Heard(Pending(t))
    <3>1. n2 \in Nat /\ ViewsInOrder(n2) /\ InOrder(t, n2) /\ shown' = Heard(Pending(t)) /\ screen' = Emptied(t) /\ since' = since
      BY <1>4, <1>5, <2>2
    <3>2. /\ ViewsInOrder(n2)' /\ InOrder(screen, n2)'
          /\ \A x : UpTo(x, n2) /\ EchoFits(x, t.pending) => EchoFits(x, screen.pending)'
      BY ONLY <3>1, FlushTo
    <3> QED
      BY <1>4, <3>2
  <2> QED
    BY <1>5, <2>1, <2>2
<1>9. HeldInOrder'
  <2>1. UpTo(Painted(machine.echo), read)'
    BY <1>3, <1>4, <1>5
  <2>2. (Holding(machine, pipe) => EchoFits(Painted(machine.echo), screen.pending))'
    <3>1. Holding(machine, pipe)' => Holding(r.m, p)
      BY <1>5
    <3>2. e = Painted(machine'.echo)
      BY <1>3, <1>5
    <3>3. EchoFits(e, screen.pending)' => EchoFits(Painted(machine.echo), screen.pending)'
      BY <3>2
    <3> QED
      BY <1>4, <1>8, <3>1, <3>3
  <2> QED
    BY <2>1, <2>2 DEF HeldInOrder
<1>10. InOrder(screen, read)' /\ ViewsInOrder(read)'
  BY <1>5, <1>8 DEF InOrder, ViewsInOrder, Sendable
<1> QED
  BY <1>7, <1>9, <1>10 DEF DrawInv

\* A step that only takes from what is queued keeps the order.
LEMMA QuietDraws ==
  ASSUME DrawInv, UNCHANGED <<shell, pipe, made, machine, read, shown, since>>, Listens' => Listens,
         HasShape(screen'), screen'.core = screen.core, screen'.pending = screen.pending \/ screen'.pending = <<>>
  PROVE  DrawInv'
<1>1. EchoHolds' /\ StreamInOrder' /\ ViewsInOrder(read)'
  BY DEF DrawInv, EchoHolds, StreamInOrder, ViewsInOrder
<1>2. IsSeq(<<>>) /\ Painted(<<>>) = <<>>
  BY EmptyIsSeq, PaintedFacts
<1>3. Sendable(screen'.pending, read)
  <2>1. Sendable(screen.pending, read) /\ Sendable(<<>>, read)
    BY NothingToSend DEF DrawInv, InOrder
  <2> QED
    BY <2>1
<1>4. InOrder(screen, read)'
  <2>1. Sendable(screen.pending, read)'
    BY <1>3 DEF Sendable
  <2> QED
    BY <2>1 DEF DrawInv, InOrder
<1>5. HeldInOrder'
  <2>1. ASSUME EchoFits(Painted(machine.echo), screen.pending) PROVE EchoFits(Painted(machine.echo), screen.pending)'
    <3>1. Later(Painted(screen'.pending), Painted(machine.echo), 0)
      BY <1>2, <2>1, OfNothing DEF EchoFits
    <3> QED
      BY <2>1, <3>1 DEF EchoFits
  <2>2. Holding(machine, pipe)' => Holding(machine, pipe)
    OBVIOUS
  <2>3. UpTo(Painted(machine.echo), read)'
    BY DEF DrawInv, HeldInOrder
  <2> QED
    BY <2>1, <2>2, <2>3 DEF DrawInv, HeldInOrder
<1> QED
  BY <1>1, <1>4, <1>5 DEF DrawInv

\* What is queued is thrown away with the last window, at most.
LEMMA DropsOnly ==
  ASSUME NEW s, HasShape(s), NEW w \in Windows, NEW t, t = DropWindow(s, w) \/ t = Detach(s, w)
  PROVE  HasShape(t) /\ t.core = s.core /\ (t.pending = s.pending \/ t.pending = <<>>)
<1>1. ASSUME NEW a, NEW x, x = [s EXCEPT !.attachers[w] = a], a \in Nat
      PROVE  HasShape(x) /\ x.core = s.core /\ x.pending = s.pending
  BY <1>1 DEF HasShape
<1>2. ASSUME NEW x, HasShape(x)
      PROVE  HasShape(Unheard(x)) /\ Unheard(x).core = x.core /\ (Unheard(x).pending = x.pending \/ Unheard(x).pending = <<>>)
  <2>1. PICK y : y = [x EXCEPT !.pending = <<>>]
    OBVIOUS
  <2>2. HasShape(y) /\ y.core = x.core /\ y.pending = <<>>
    BY <1>2, <2>1 DEF HasShape
  <2> QED
    BY <1>2, <2>1, <2>2 DEF Unheard
<1>3. PICK d : d = DropWindow(s, w)
  OBVIOUS
<1>4. HasShape(d) /\ d.core = s.core /\ (d.pending = s.pending \/ d.pending = <<>>)
  <2>1. PICK x : x = [s EXCEPT !.attachers[w] = 0]
    OBVIOUS
  <2>2. HasShape(x) /\ x.core = s.core /\ x.pending = s.pending
    BY <1>1, <2>1
  <2>3. d = Unheard(x)
    BY <1>3, <2>1 DEF DropWindow
  <2> QED
    BY <1>2, <2>2, <2>3
<1>5. CASE t = DropWindow(s, w)
  BY <1>3, <1>4, <1>5
<1>6. CASE t = Detach(s, w)
  <2>1. s.attachers[w] \in Nat
    BY DEF HasShape
  <2>2. PICK y : y = [s EXCEPT !.attachers[w] = s.attachers[w] - 1]
    OBVIOUS
  <2>3. s.attachers[w] > 1 => HasShape(y) /\ y.core = s.core /\ y.pending = s.pending
    BY <1>1, <2>1, <2>2
  <2>4. t = IF s.attachers[w] = 0 THEN s ELSE IF s.attachers[w] > 1 THEN y ELSE d
    BY <1>3, <1>6, <2>2 DEF Detach
  <2> QED
    BY <1>4, <2>3, <2>4
<1> QED
  BY <1>5, <1>6

\* `Unmount`, `DetachView` and `CloseWindow`: a view that leaves is shown nothing.
LEMMA LeavingDraws ==
  ASSUME DrawInv, windowOf \in [Views -> Windows],
         (\E v \in Views : Unmount(v) \/ DetachView(v)) \/ (\E w \in Windows : CloseWindow(w))
  PROVE  DrawInv'
<1>0. HasShape(screen)
  BY DEF DrawInv, InOrder
<1>1. CASE \E v \in Views : Unmount(v)
  <2>1. UNCHANGED <<shell, pipe, made, machine, emitter, read, shown, since, screen>>
    BY <1>1 DEF Unmount, Moves, child
  <2> QED
    BY <1>0, <2>1, QuietDraws DEF Listens
<1>2. CASE \E v \in Views : DetachView(v)
  <2>1. PICK v \in Views : DetachView(v)
    BY <1>2
  <2>2. UNCHANGED <<shell, pipe, made, machine, emitter, read, shown, since>> /\ screen' = Detach(screen, windowOf[v])
    BY <2>1 DEF DetachView, Moves, child
  <2>3. PICK w \in Windows : w = windowOf[v]
    OBVIOUS
  <2>4. HasShape(screen') /\ screen'.core = screen.core /\ (screen'.pending = screen.pending \/ screen'.pending = <<>>)
    <3>1. PICK s, t : s = screen /\ t = screen'
      OBVIOUS
    <3>2. HasShape(s) /\ (t = DropWindow(s, w) \/ t = Detach(s, w))
      BY <1>0, <2>2, <2>3, <3>1
    <3> QED
      BY <3>1, <3>2, DropsOnly
  <2> QED
    BY <2>2, <2>4, QuietDraws DEF Listens
<1>3. CASE \E w \in Windows : CloseWindow(w)
  <2>1. PICK w \in Windows : CloseWindow(w)
    BY <1>3
  <2>2. UNCHANGED <<shell, pipe, made, machine, emitter, read, shown, since>> /\ screen' = DropWindow(screen, w)
    BY <2>1 DEF CloseWindow, child
  <2>4. HasShape(screen') /\ screen'.core = screen.core /\ (screen'.pending = screen.pending \/ screen'.pending = <<>>)
    <3>1. PICK s, t : s = screen /\ t = screen'
      OBVIOUS
    <3>2. HasShape(s) /\ (t = DropWindow(s, w) \/ t = Detach(s, w))
      BY <1>0, <2>2, <3>1
    <3> QED
      BY <3>1, <3>2, DropsOnly
  <2> QED
    BY <2>2, <2>4, QuietDraws DEF Listens
<1> QED
  BY <1>1, <1>2, <1>3

\* `Report`, `LastWords` and `Inherit`: nothing is drawn.
LEMMA TellingDraws ==
  ASSUME DrawInv, Report \/ LastWords \/ Inherit \/ UNCHANGED vars
  PROVE  DrawInv'
<1>1. UNCHANGED <<shell, pipe, made, machine, read, shown, since, screen>>
  BY DEF Report, LastWords, Inherit, vars, core, child, views
<1>2. Listens' => Listens
  BY DEF Report, LastWords, Inherit, vars, core, Listens
<1>3. HasShape(screen)
  BY DEF DrawInv, InOrder
<1> QED
  BY <1>1, <1>2, <1>3, QuietDraws

-----------------------------------------------------------------------------
\* The steps of the emitter and of the views keep it.

\* A view that is mounted begins empty.
LEMMA MountDraws ==
  ASSUME DrawInv, NEW v \in Views, Mount(v)
  PROVE  DrawInv'
<1>1. UNCHANGED <<shell, pipe, made, machine, emitter, read, screen, since>> /\ shown' = [shown EXCEPT ![v] = <<>>]
  BY DEF Mount, Moves, child
<1>2. PICK n : n = read /\ n \in Nat /\ ViewsInOrder(n) /\ InOrder(screen, n)
  BY DEF DrawInv, StreamInOrder
<1>3. shown = [u \in Views |-> shown[u]]
  BY <1>2 DEF ViewsInOrder
<1>4. ASSUME NEW u \in Views PROVE shown'[u] = shown[u] \/ shown'[u] = <<>>
  BY <1>1, <1>3
<1>5. shown' = [u \in Views |-> shown'[u]]
  BY <1>1, <1>3
<1>6. IsSeq(<<>>) /\ UpTo(<<>>, n) /\ (\A b : Once(<<>>, b)) /\ \A e, b : Later(<<>>, e, b)
  BY EmptyIsSeq, OfNothing
<1>7. ASSUME NEW u \in Views
      PROVE  /\ IsSeq(shown'[u]) /\ UpTo(shown'[u], n) /\ Once(shown'[u], since[u])
             /\ \A e : Later(shown[u], e, since[u]) => Later(shown'[u], e, since[u])
  BY <1>2, <1>4, <1>6 DEF ViewsInOrder
<1>8. ViewsInOrder(read)'
  BY <1>1, <1>2, <1>5, <1>7 DEF ViewsInOrder
<1>9. InOrder(screen, read)'
  <2>1. Sendable(screen.pending, n)'
    BY <1>1, <1>2, <1>7 DEF InOrder, Sendable
  <2> QED
    BY <1>1, <1>2, <2>1 DEF InOrder
<1>10. ASSUME EchoFits(Painted(machine.echo), screen.pending) PROVE EchoFits(Painted(machine.echo), screen.pending)'
  BY <1>1, <1>7, <1>10 DEF EchoFits
<1>11. HeldInOrder'
  BY <1>1, <1>10 DEF DrawInv, HeldInOrder, Holding, Listens
<1> QED
  BY <1>1, <1>8, <1>9, <1>11 DEF DrawInv, EchoHolds, StreamInOrder

\* A view that attaches is sent the screen of the core, and the others of its window with
\* it: what is on it was read before, and an echo that is held back may come after.
LEMMA SnapshotDraws ==
  ASSUME NEW n \in Nat, NEW c, IsSeq(c), UpTo(Painted(c), n), Once(Painted(c), 0), NEW d, d = Draw(<<>>, c)
  PROVE  IsSeq(d) /\ UpTo(d, n) /\ Once(d, n) /\ \A e : UpTo(e, n) /\ Echoes(e) => Later(d, e, n)
<1>1. PICK no : no = <<>>
  OBVIOUS
<1>2. IsSeq(no) /\ UpTo(no, n) /\ Once(no, n) /\ Later(no, Painted(c), n) /\ d = Draw(no, c)
  BY <1>1, EmptyIsSeq, OfNothing
<1>3. Once(Painted(c), n)
  BY OfBounds
<1>4. IsSeq(d) /\ UpTo(d, n) /\ Once(d, n)
  BY ONLY <1>2, <1>3, IsSeq(c), UpTo(Painted(c), n), DrawKeeps
<1> QED
  BY <1>4, OfBounds

\* `AttachView`: the view is shown the screen, where the held-back echo is not.
LEMMA AttachDraws ==
  ASSUME DrawInv, windowOf \in [Views -> Windows], NEW v \in Views, AttachView(v)
  PROVE  DrawInv'
<1>1. PICK w \in Windows : w = windowOf[v]
  OBVIOUS
<1>2. UNCHANGED <<shell, pipe, made, machine, emitter, read>> /\ screen' = Attach(Emptied(screen), w)
  BY <1>1 DEF AttachView, Moves, child
<1>3. PICK n, b : n = read /\ n \in Nat /\ ViewsInOrder(n) /\ InOrder(screen, n) /\ b = Pending(screen)
  BY DEF DrawInv, StreamInOrder
<1>4. PICK core0 : core0 = screen.core /\ IsSeq(core0) /\ UpTo(Painted(core0), n) /\ Once(Painted(core0), 0)
  BY <1>3 DEF InOrder
<1>5. PICK d : d = Draw(<<>>, core0)
  OBVIOUS
<1>6. IsSeq(d) /\ UpTo(d, n) /\ Once(d, n) /\ \A e : UpTo(e, n) /\ Echoes(e) => Later(d, e, n)
  BY ONLY <1>3, <1>4, <1>5, SnapshotDraws
<1>7. /\ shown' = [u \in Views |-> IF Hears(u) /\ windowOf[u] = w THEN d ELSE Heard(b)[u]]
      /\ since' = [u \in Views |-> IF Hears(u) /\ windowOf[u] = w THEN n ELSE since[u]]
  BY <1>1, <1>3, <1>4, <1>5 DEF AttachView
<1>8. Sendable(b, n) /\ (b = screen.pending \/ b = <<>>)
  BY <1>3, NothingToSend DEF Pending, InOrder
<1>9. ASSUME NEW u \in Views
      PROVE  \/ shown'[u] = d /\ since'[u] = n
             \/ since'[u] = since[u] /\ (shown'[u] = Draw(shown[u], b) \/ shown'[u] = shown[u])
  BY <1>7 DEF Heard
<1>10. ASSUME NEW u \in Views
       PROVE  /\ since'[u] \in 0..n /\ IsSeq(shown'[u]) /\ UpTo(shown'[u], n) /\ Once(shown'[u], since'[u])
              /\ \A e : UpTo(e, n) /\ Echoes(e) /\ Later(Painted(b), e, 0) /\ Later(shown[u], e, since[u]) =>
                   Later(shown'[u], e, since'[u])
  <2>1. CASE shown'[u] = d /\ since'[u] = n
    <3>1. n \in 0..n
      BY <1>3
    <3> QED
      BY <1>6, <2>1, <3>1
  <2>2. CASE since'[u] = since[u] /\ (shown'[u] = Draw(shown[u], b) \/ shown'[u] = shown[u])
    <3>1. PICK f : f = shown'[u]
      OBVIOUS
    <3>2. f = Draw(shown[u], b) \/ f = shown[u]
      BY <2>2, <3>1
    <3>3. /\ IsSeq(f) /\ UpTo(f, n) /\ Once(f, since[u])
          /\ \A e : UpTo(e, n) /\ Later(Painted(b), e, 0) /\ Later(shown[u], e, since[u]) => Later(f, e, since[u])
      BY ONLY <1>3, <1>8, <3>2, u \in Views, SendKeeps
    <3>4. since[u] \in 0..n
      BY <1>3 DEF ViewsInOrder
    <3> QED
      BY <2>2, <3>1, <3>3, <3>4
  <2> QED
    BY <1>9, <2>1, <2>2
<1>11. ViewsInOrder(read)'
  <2>1. shown' = [u \in Views |-> shown'[u]] /\ since' = [u \in Views |-> since'[u]]
    BY <1>7
  <2> QED
    BY <1>2, <1>3, <1>10, <2>1 DEF ViewsInOrder
<1>12. HasShape(screen') /\ screen'.core = screen.core /\ screen'.pending = <<>>
  <2>1. PICK s : s = Emptied(screen)
    OBVIOUS
  <2>2. HasShape(s) /\ s.core = screen.core /\ s.pending = <<>>
    BY <1>3, <2>1 DEF InOrder, HasShape, Emptied
  <2>3. PICK t : t = Attach(s, w)
    OBVIOUS
  <2>4. HasShape(t)
    BY <2>2, <2>3, AttachFacts
  <2>5. t.core = s.core /\ t.pending = s.pending
    BY <2>2, <2>3 DEF Attach, HasShape
  <2>6. screen' = t
    BY <1>2, <2>1, <2>3
  <2> QED
    BY <2>2, <2>4, <2>5, <2>6
<1>13. IsSeq(<<>>) /\ Painted(<<>>) = <<>>
  BY EmptyIsSeq, PaintedFacts
<1>14. InOrder(screen, read)'
  <2>1. Sendable(screen.pending, read)'
    BY <1>12, <1>13, OfNothing DEF Sendable
  <2> QED
    BY <1>2, <1>3, <1>12, <2>1 DEF InOrder
<1>15. HeldInOrder'
  <2>1. PICK e : e = Painted(machine.echo)
    OBVIOUS
  <2>2. UpTo(e, n)
    BY <1>3, <2>1 DEF DrawInv, HeldInOrder
  <2>3. ASSUME EchoFits(e, screen.pending) PROVE EchoFits(e, screen.pending)'
    <3>1. Later(Painted(b), e, 0)
      BY <1>8, <1>13, <2>3, OfNothing DEF EchoFits
    <3>2. \A u \in Views : Later(shown'[u], e, since'[u])
      BY <1>10, <2>2, <2>3, <3>1 DEF EchoFits
    <3>3. Later(Painted(screen'.pending), e, 0)
      BY <1>12, <1>13, OfNothing
    <3> QED
      BY <2>3, <3>2, <3>3 DEF EchoFits
  <2>4. Painted(machine'.echo) = e /\ (Listens' => Listens) /\ (Holding(machine, pipe)' => Holding(machine, pipe))
    BY <1>2, <2>1 DEF Listens
  <2>5. EchoFits(e, screen.pending)' => EchoFits(Painted(machine.echo), screen.pending)'
    BY <2>4
  <2>6. UpTo(Painted(machine.echo), read)'
    BY <1>2, <1>3, <2>2, <2>4
  <2>7. Listens /\ Holding(machine, pipe) => EchoFits(e, screen.pending)
    BY <2>1 DEF DrawInv, HeldInOrder
  <2> QED
    BY <2>3, <2>4, <2>5, <2>6, <2>7 DEF HeldInOrder
<1> QED
  BY <1>2, <1>11, <1>14, <1>15 DEF DrawInv, EchoHolds, StreamInOrder

\* The end of the stream, on a machine
LEMMA EofIs ==
  ASSUME NEW m, Fields(m), NEW n, NEW r, r = OnEof(m)
  PROVE  /\ IsSeq(r.acts) /\ \A s : HasShape(s) /\ InOrder(s, n) => InOrder(Applied(s, r.acts), n)
         /\ r.m.swallow = m.swallow /\ r.m.echo = m.echo /\ r.m.submission = "idle"
<1>1. PICK no, r0 : no = <<>> /\ r0 = Carried(m, no, 1)
  OBVIOUS
<1>2. IsSeq(no) /\ Whole(r0) /\ r0.m = m /\ r0.acts = no
  BY <1>1, EmptyIsSeq, WholeOf
<1>3. r = Finish(r0)
  BY <1>1 DEF OnEof, Carried
<1>4. PICK a : a = Append(EndActs(r0), State(Quiet))
  OBVIOUS
<1>5. PICK fa, nc, qu, id : fa = FALSE /\ nc = NoCommand /\ qu = Quiet /\ id = "idle"
  OBVIOUS
<1>6. PICK q : q = Carried(Mach(fa, no, m.swallow, m.echo, id, nc, qu, m.mode), a, 1)
  OBVIOUS
<1>7. r = q
  <2>1. Finish(r0) = Carried(Mach(FALSE, <<>>, r0.m.swallow, r0.m.echo, "idle", NoCommand, Quiet, r0.m.mode),
                             Append(EndActs(r0), State(Quiet)), r0.scan)
    BY <1>2, FinishIs
  <2>2. r0.scan = 1
    BY <1>1 DEF Carried
  <2> QED
    BY <1>1, <1>2, <1>3, <1>4, <1>5, <1>6, <2>1, <2>2
<1>8. q.m.swallow = m.swallow /\ q.m.echo = m.echo /\ q.m.submission = id /\ q.acts = a
  BY ONLY <1>6, StepParts
<1>9. Harmless(no, a, n)
  <2>1. Harmless(no, no, n)
    BY <1>2, HarmlessItself
  <2>2. Harmless(no, r0.acts, n)
    BY <1>2, <2>1
  <2>3. Harmless(no, Append(EndActs(r0), State(Quiet)), n)
    BY ONLY <1>2, <2>2, EndIsHarmless
  <2> QED
    BY <1>4, <2>3
<1>10. ASSUME NEW s, HasShape(s), InOrder(s, n) PROVE InOrder(Applied(s, a), n)
  <2>1. Applied(s, no) = s
    BY <1>1, AppliedNothing
  <2> QED
    BY <1>9, <1>10, <2>1 DEF Harmless
<1> QED
  BY <1>5, <1>7, <1>8, <1>9, <1>10 DEF Harmless

\* `Eof`: the held-back echo is dropped, and what is left of the chunk is none.
LEMMA EofDraws ==
  ASSUME DrawInv, Fields(machine), Eof
  PROVE  DrawInv'
<1>1. PICK r : r = OnEof(machine)
  OBVIOUS
<1>2. PICK t : t = ApplyAll(screen, r.acts)
  OBVIOUS
<1>3. /\ machine' = r.m /\ screen' = Emptied(t) /\ shown' = Heard(Pending(t)) /\ emitter' = "last words"
      /\ shell.at = "gone" /\ pipe = <<>> /\ UNCHANGED <<shell, pipe, made, read, since>>
  BY <1>1, <1>2 DEF Eof, At, child
<1>4. PICK n : n = read /\ n \in Nat /\ ViewsInOrder(n) /\ InOrder(screen, n)
  BY DEF DrawInv, StreamInOrder
<1>5. /\ IsSeq(r.acts) /\ \A s : HasShape(s) /\ InOrder(s, n) => InOrder(Applied(s, r.acts), n)
      /\ r.m.swallow = machine.swallow /\ r.m.echo = machine.echo /\ r.m.submission = "idle"
  BY <1>1, EofIs
<1>6. InOrder(t, n)
  <2>1. HasShape(screen)
    BY <1>4 DEF InOrder
  <2>2. t = Applied(screen, r.acts)
    BY <1>2, <1>5, <2>1, ApplyAllIs
  <2> QED
    BY <1>4, <1>5, <2>1, <2>2
<1>7. ViewsInOrder(n)' /\ InOrder(screen, n)'
  <2>1. n \in Nat /\ ViewsInOrder(n) /\ InOrder(t, n) /\ shown' = Heard(Pending(t)) /\ screen' = Emptied(t) /\ since' = since
    BY <1>3, <1>4, <1>6
  <2> QED
    BY ONLY <2>1, FlushTo
<1>8. ViewsInOrder(read)' /\ InOrder(screen, read)'
  BY <1>3, <1>4, <1>7 DEF ViewsInOrder, InOrder, Sendable
<1>9. EchoHolds'
  <2>1. SwallowFits(machine, pipe, shell.at)'
    BY <1>3, <1>5 DEF SwallowFits
  <2> QED
    BY <1>3, <2>1 DEF DrawInv, EchoHolds
<1>10. HeldInOrder'
  <2>1. ~(Listens')
    BY <1>3 DEF Listens
  <2>2. UpTo(Painted(machine.echo), read)'
    BY <1>3, <1>5 DEF DrawInv, HeldInOrder
  <2> QED
    BY <2>1, <2>2 DEF HeldInOrder
<1> QED
  BY <1>3, <1>8, <1>9, <1>10 DEF DrawInv, StreamInOrder

\* A new process begins with nothing queued, nothing held back and nothing to read.
LEMMA RespawnDraws ==
  ASSUME DrawInv, Respawn, inherited \in [Windows -> Nat] \cup {NotStarting}, pipe = <<>>
  PROVE  DrawInv'
<1>1. /\ machine' = New /\ screen' = Blank(inherited) /\ inherited # NotStarting
      /\ UNCHANGED <<pipe, made, read, shown, since>>
  BY DEF Respawn, views
<1>2. PICK n : n = read /\ n \in Nat /\ ViewsInOrder(n)
  BY DEF DrawInv, StreamInOrder
<1>3. IsSeq(<<>>) /\ Painted(<<>>) = <<>>
  BY EmptyIsSeq, PaintedFacts
<1>4. HasShape(screen') /\ screen'.core = <<>> /\ screen'.pending = <<>>
  BY <1>1 DEF Blank, HasShape
<1>5. InOrder(screen, read)'
  BY <1>3, <1>4, OfNothing DEF InOrder, Sendable
<1>6. machine'.swallow = FALSE /\ machine'.submission = "idle" /\ machine'.echo = <<>>
  BY <1>1 DEF New
<1>7. EchoHolds'
  <2>1. pipe' = <<>> /\ Len(pipe') = 0
    BY <1>1
  <2>2. PipeFits(pipe, shell.at)'
    BY <2>1 DEF PipeFits
  <2>3. SwallowFits(machine, pipe, shell.at)'
    BY <1>6 DEF SwallowFits
  <2> QED
    BY <2>2, <2>3 DEF EchoHolds
<1>8. HeldInOrder'
  BY <1>3, <1>6, OfNothing DEF HeldInOrder, Holding
<1>9. ViewsInOrder(read)' /\ StreamInOrder'
  BY <1>1 DEF DrawInv, ViewsInOrder, StreamInOrder
<1> QED
  BY <1>5, <1>7, <1>8, <1>9 DEF DrawInv

-----------------------------------------------------------------------------
\* The steps of the shell keep it.

\* What is written goes after what was not read yet.
Joined(q, t, u, l, k) ==
  /\ l \in Nat /\ k \in Nat /\ l = Len(q) /\ k = Len(t) /\ 1 <= k /\ Len(u) = l + k /\ (q = <<>> <=> l = 0) /\ u # <<>>
  /\ \A i \in 1..l : u[i] = q[i]
  /\ \A j \in 1..k : u[l + j] = t[j]
  /\ \A i \in 1..(l + k) : i \in 1..l \/ \E j \in 1..k : i = l + j

\* The places of what was written and of what is written now
LEMMA JoinedIs ==
  ASSUME NEW q, IsSeq(q), NEW t, IsSeq(t), t # <<>>, NEW u, u = q \o t
  PROVE  \E l, k : Joined(q, t, u, l, k)
<1>1. PICK l, k : l = Len(q) /\ k = Len(t)
  OBVIOUS
<1>2. l \in Nat /\ k \in Nat /\ k # 0 /\ (q = <<>> <=> l = 0)
  BY <1>1, SeqLen
<1>3. /\ IsSeq(u) /\ Len(u) = l + k /\ \A i \in 1..l : u[i] = q[i]
      /\ \A j \in 1..k : u[l + j] = t[j]
  BY <1>1, SeqConcat
<1>4. u # <<>>
  BY <1>2, <1>3, EmptyIsSeq
<1>5. ASSUME NEW i \in 1..(l + k), ~(i \in 1..l) PROVE \E j \in 1..k : i = l + j
  <2>1. i - l \in 1..k /\ i = l + (i - l)
    BY <1>2, <1>5
  <2> QED
    BY <2>1
<1>6. Joined(q, t, u, l, k)
  BY <1>1, <1>2, <1>3, <1>4, <1>5 DEF Joined
<1> QED
  BY <1>6

\* A line that was typed stays the first.
LEMMA LineStaysFirst ==
  ASSUME NEW q, NEW t, NEW u, NEW l, NEW k, Joined(q, t, u, l, k), LineFirst(q)
  PROVE  LineFirst(u)
<1>1. /\ l \in Nat /\ k \in Nat /\ l = Len(q) /\ Len(u) = l + k /\ (q = <<>> <=> l = 0) /\ u # <<>>
      /\ \A i \in 1..l : u[i] = q[i]
  BY DEF Joined
<1>2. q # <<>> /\ (q[1].k = "nl" \/ (q[1].k = "echo" /\ 2 \in 1..l /\ q[2].k = "nl"))
  BY <1>1 DEF LineFirst
<1>3. 1 \in 1..l /\ u[1] = q[1]
  BY <1>1, <1>2
<1>4. 2 \in 1..l => 2 \in 1..Len(u) /\ u[2] = q[2]
  BY <1>1
<1> QED
  BY <1>1, <1>2, <1>3, <1>4 DEF LineFirst

\* What the shell writes where it reads no line, and answers one that was sent
LEMMA AnswerFits ==
  ASSUME NEW m, NEW q, IsSeq(q), NEW t, IsSeq(t), t # <<>>, NEW u, u = q \o t, NEW at, NEW at2,
         PipeFits(q, at), SwallowFits(m, q, at), at \notin {"input", "gone"},
         t[1].k \in Replies \/ at \notin {"read", "done"}, PipeFits(t, at2)
  PROVE  PipeFits(u, at2) /\ SwallowFits(m, u, at2) /\ (Holding(m, u) => Holding(m, q))
<1>1. PICK l, k : Joined(q, t, u, l, k)
  BY ONLY IsSeq(q), IsSeq(t), t # <<>>, u = q \o t, JoinedIs
<1>2. /\ l \in Nat /\ k \in Nat /\ l = Len(q) /\ k = Len(t) /\ 1 <= k /\ Len(u) = l + k /\ (q = <<>> <=> l = 0) /\ u # <<>>
      /\ \A i \in 1..l : u[i] = q[i]
      /\ \A j \in 1..k : u[l + j] = t[j]
      /\ \A i \in 1..(l + k) : i \in 1..l \/ \E j \in 1..k : i = l + j
  BY <1>1 DEF Joined
<1>3. \A i \in 1..l : ~(q[i].k \in ToggleMarks)
  BY <1>2 DEF PipeFits
<1>4. 1 \in 1..k /\ u[l + 1] = t[1]
  BY <1>2
<1>5. ASSUME NEW i \in 1..Len(u), u[i].k \in ToggleMarks
      PROVE  u[Len(u)].k = "B" /\ at2 \in {"input", "gone"} /\ \A j \in 1..Len(u) : i <= j => u[j].k \in ToggleMarks
  <2>1. PICK a \in 1..k : i = l + a
    BY <1>2, <1>3, <1>5
  <2>2. t[a].k \in ToggleMarks
    BY <1>2, <1>5, <2>1
  <2>3. t[k].k = "B" /\ at2 \in {"input", "gone"} /\ \A j \in 1..k : a <= j => t[j].k \in ToggleMarks
    BY <1>2, <2>2 DEF PipeFits
  <2>4. u[Len(u)] = t[k]
    BY <1>2
  <2>5. ASSUME NEW j \in 1..Len(u), i <= j PROVE u[j].k \in ToggleMarks
    <3>1. PICK b \in 1..k : j = l + b
      <4>1. ~(j \in 1..l)
        BY <1>2, <2>1, <2>5
      <4> QED
        BY <1>2, <4>1
    <3>2. a <= b /\ u[j] = t[b]
      BY <1>2, <2>1, <2>5, <3>1
    <3> QED
      BY <2>3, <3>2
  <2> QED
    BY <2>3, <2>4, <2>5
<1>6. ASSUME NEW i \in 1..Len(u), u[i].k = "nl"
      PROVE  IF i = Len(u) THEN at2 \in {"read", "done", "gone"} ELSE u[i + 1].k \in Replies
  <2>1. CASE i \in 1..l
    <3>1. q[i].k = "nl" /\ i # Len(u)
      BY <1>2, <1>6, <2>1
    <3>2. IF i = l THEN at \in {"read", "done", "gone"} ELSE q[i + 1].k \in Replies
      BY <1>2, <2>1, <3>1 DEF PipeFits
    <3>3. CASE i = l
      BY <1>4, <3>1, <3>2, <3>3
    <3>4. CASE i # l
      <4>1. i + 1 \in 1..l /\ u[i + 1] = q[i + 1]
        BY <1>2, <2>1, <3>4
      <4> QED
        BY <3>1, <3>2, <3>4, <4>1
    <3> QED
      BY <3>3, <3>4
  <2>2. CASE ~(i \in 1..l)
    <3>1. PICK a \in 1..k : i = l + a
      BY <1>2, <2>2
    <3>2. t[a].k = "nl"
      BY <1>2, <1>6, <3>1
    <3>3. IF a = k THEN at2 \in {"read", "done", "gone"} ELSE t[a + 1].k \in Replies
      BY <1>2, <3>2 DEF PipeFits
    <3>4. i = Len(u) <=> a = k
      <4>1. i = l + a /\ Len(u) = l + k /\ l \in Nat /\ k \in Nat /\ a \in 1..k
        BY <1>2, <3>1
      <4>2. PICK n : n = Len(u)
        OBVIOUS
      <4>3. i = l + a /\ n = l + k /\ l \in Nat /\ k \in Nat /\ a \in 1..k
        BY <4>1, <4>2
      <4>4. i = n <=> a = k
        BY ONLY <4>3
      <4> QED
        BY <4>2, <4>4
    <3>5. a # k => a + 1 \in 1..k /\ u[l + (a + 1)] = t[a + 1] /\ l + (a + 1) = i + 1
      BY <1>2, <3>1
    <3> QED
      BY <3>3, <3>4, <3>5
  <2> QED
    BY <2>1, <2>2
<1>7. PipeFits(u, at2)
  BY <1>5, <1>6 DEF PipeFits
<1>8. ~OnlyToggles(q)
  <2>1. OnlyToggles(q) => 1 \in 1..l /\ q[1].k \in ToggleMarks
    BY <1>2 DEF OnlyToggles
  <2> QED
    BY <1>3, <2>1
<1>9. m.swallow => LineFirst(u)
  <2>1. LineFirst(q) => LineFirst(u)
    BY <1>1, LineStaysFirst
  <2> QED
    BY <1>8, <2>1 DEF SwallowFits
<1>10. m.submission = "awaiting" => ~m.swallow /\ u[1].k \in Replies
  <2>1. CASE q = <<>>
    <3>1. u[1] = t[1]
      BY <1>2, <1>4, <2>1
    <3> QED
      BY <2>1, <3>1 DEF SwallowFits
  <2>2. CASE q # <<>>
    <3>1. 1 \in 1..l /\ u[1] = q[1]
      BY <1>2, <2>2
    <3> QED
      BY <2>2, <3>1 DEF SwallowFits
  <2> QED
    BY <2>1, <2>2
<1>11. SwallowFits(m, u, at2)
  BY <1>2, <1>9, <1>10 DEF SwallowFits
<1> QED
  BY <1>7, <1>8, <1>11 DEF Holding

\* A change of mode where a line is read
LEMMA TogglesFit ==
  ASSUME NEW m, NEW q, IsSeq(q), NEW t, IsSeq(t), t # <<>>, NEW u, u = q \o t,
         PipeFits(q, "input"), SwallowFits(m, q, "input"), \A j \in 1..Len(t) : t[j].k \in ToggleMarks, t[Len(t)].k = "B"
  PROVE  PipeFits(u, "input") /\ SwallowFits(m, u, "input") /\ (Holding(m, u) => Holding(m, q))
<1>1. PICK l, k : Joined(q, t, u, l, k)
  BY ONLY IsSeq(q), IsSeq(t), t # <<>>, u = q \o t, JoinedIs
<1>2. /\ l \in Nat /\ k \in Nat /\ l = Len(q) /\ k = Len(t) /\ 1 <= k /\ Len(u) = l + k /\ (q = <<>> <=> l = 0) /\ u # <<>>
      /\ \A i \in 1..l : u[i] = q[i]
      /\ \A j \in 1..k : u[l + j] = t[j]
      /\ \A i \in 1..(l + k) : i \in 1..l \/ \E j \in 1..k : i = l + j
  BY <1>1 DEF Joined
<1>3. u[Len(u)].k = "B"
  <2>1. k \in 1..k
    BY <1>2
  <2> QED
    BY <1>2, <2>1
<1>4. ASSUME NEW i \in 1..Len(u), u[i].k \in ToggleMarks, NEW j \in 1..Len(u), i <= j
      PROVE  u[j].k \in ToggleMarks
  <2>1. CASE j \in 1..l
    <3>1. i \in 1..l /\ q[i].k \in ToggleMarks
      BY <1>2, <1>4, <2>1
    <3>2. q[j].k \in ToggleMarks
      BY <1>2, <1>4, <2>1, <3>1 DEF PipeFits
    <3> QED
      BY <1>2, <2>1, <3>2
  <2>2. CASE ~(j \in 1..l)
    <3>1. PICK a \in 1..k : j = l + a
      BY <1>2, <2>2
    <3> QED
      BY <1>2, <3>1
  <2> QED
    BY <2>1, <2>2
<1>5. ASSUME NEW i \in 1..Len(u), u[i].k = "nl"
      PROVE  i # Len(u) /\ u[i + 1].k \in Replies
  <2>1. i \in 1..l
    <3>1. SUFFICES ASSUME ~(i \in 1..l) PROVE FALSE
      OBVIOUS
    <3>2. PICK a \in 1..k : i = l + a
      BY <1>2, <3>1
    <3>3. t[a].k = "nl" /\ t[a].k \in ToggleMarks
      BY <1>2, <1>5, <3>2
    <3> QED
      BY <3>3 DEF ToggleMarks
  <2>2. q[i].k = "nl"
    BY <1>2, <1>5, <2>1
  <2>3. i # l /\ q[i + 1].k \in Replies
    BY <1>2, <2>1, <2>2 DEF PipeFits
  <2>4. i + 1 \in 1..l /\ u[i + 1] = q[i + 1] /\ i # Len(u)
    BY <1>2, <2>1, <2>3
  <2> QED
    BY <2>3, <2>4
<1>6. PipeFits(u, "input")
  BY <1>3, <1>4, <1>5 DEF PipeFits
<1>7. q = <<>> \/ OnlyToggles(q) => OnlyToggles(u)
  <2>1. ASSUME q = <<>> \/ OnlyToggles(q), NEW i \in 1..Len(u) PROVE u[i].k \in ToggleMarks
    <3>1. CASE i \in 1..l
      BY <1>2, <2>1, <3>1 DEF OnlyToggles
    <3>2. CASE ~(i \in 1..l)
      <4>1. PICK a \in 1..k : i = l + a
        BY <1>2, <3>2
      <4> QED
        BY <1>2, <4>1
    <3> QED
      BY <3>1, <3>2
  <2> QED
    BY <1>2, <2>1 DEF OnlyToggles
<1>8. LineFirst(q) => LineFirst(u)
  BY <1>1, LineStaysFirst
<1>9. m.submission = "awaiting" => ~m.swallow /\ u[1].k \in Replies
  <2>1. q # <<>> => 1 \in 1..l /\ u[1] = q[1]
    BY <1>2
  <2> QED
    BY <2>1 DEF SwallowFits
<1>10. SwallowFits(m, u, "input")
  BY <1>2, <1>7, <1>8, <1>9 DEF SwallowFits
<1> QED
  BY <1>6, <1>7, <1>10 DEF Holding

\* A line that is typed after the prompt was read
LEMMA LineFits ==
  ASSUME NEW m, NEW q, q = <<>>, NEW t, IsSeq(t), NEW u, u = q \o t, NEW at, NEW at2,
         SwallowFits(m, q, at), at \in {"input", "more"}, LineFirst(t), PipeFits(t, at2)
  PROVE  PipeFits(u, at2) /\ SwallowFits(m, u, at2) /\ (Holding(m, u) => Holding(m, q))
<1>1. u = t
  BY EmptyIsSeq
<1>2. m.submission # "awaiting"
  BY DEF SwallowFits
<1>3. ~OnlyToggles(q)
  BY DEF OnlyToggles
<1> QED
  BY <1>1, <1>2, <1>3 DEF SwallowFits, Holding

\* What is written adds nothing to paint, or the next glyph.
Adds(t, n, n2) ==
  \/ Painted(t) = <<>> /\ n2 = n
  \/ \E g : Painted(t) = <<g>> /\ g.n = n + 1 /\ n2 = n + 1

\* What the shell writes keeps the invariant where it has new numbers and fits the pipe.
LEMMA WriteDraws ==
  ASSUME IsSeq(pipe), DrawInv, UNCHANGED <<core, views>>, NEW t, IsSeq(t), pipe' = pipe \o t, Adds(t, made, made'),
         EchoHolds', Holding(machine, pipe)' => Holding(machine, pipe)
  PROVE  DrawInv'
<1>1. UNCHANGED <<machine, screen, emitter, read, shown, since>>
  BY DEF core, views
<1>2. PICK x, y, n : x = Painted(pipe) /\ y = Painted(t) /\ n = made
  OBVIOUS
<1>3. /\ n \in Nat /\ read \in Nat /\ read <= n /\ Once(x, 0) /\ Beyond(x, read) /\ UpTo(x, n) /\ IsSeq(x) /\ IsSeq(y)
  BY <1>2, PaintedFacts DEF DrawInv, StreamInOrder
<1>4. Painted(pipe') = x \o y
  BY <1>2, PaintedConcat
<1>5. CASE y = <<>> /\ made' = n
  <2>1. Painted(pipe') = x
    BY <1>3, <1>4, <1>5, EmptyIsSeq
  <2>2. StreamInOrder'
    BY <1>1, <1>2, <1>3, <1>5, <2>1 DEF StreamInOrder
  <2> QED
    BY <1>1, <2>2 DEF DrawInv, InOrder, Sendable, ViewsInOrder, HeldInOrder, EchoFits, Listens
<1>6. CASE \E g : y = <<g>> /\ g.n = n + 1 /\ made' = n + 1
  <2>1. PICK g : y = <<g>> /\ g.n = n + 1 /\ made' = n + 1
    BY <1>6
  <2>2. PICK k : k = n + 1 /\ k \in Nat /\ n <= k /\ read <= k /\ k > read /\ k > n
    BY <1>3
  <2>3. Len(y) = 1 /\ y[1] = g
    BY <2>1, OneIsSeq
  <2>4. Once(y, 0) /\ UpTo(y, k) /\ Beyond(y, read) /\ Beyond(y, n)
    <3>1. \A i \in 1..Len(y) : i = 1 /\ y[i].n = k
      BY <2>1, <2>2, <2>3
    <3>2. k \in 1..k
      BY <1>3, <2>2
    <3>3. Once(y, 0)
      BY <3>1 DEF Once
    <3>4. UpTo(y, k)
      BY <3>1, <3>2 DEF UpTo
    <3>5. Beyond(y, read) /\ Beyond(y, n)
      BY <2>2, <3>1 DEF Beyond
    <3> QED
      BY <3>3, <3>4, <3>5
  <2>5. Later(x, y, 0) /\ UpTo(x, k)
    BY <1>3, <2>2, <2>4, OfBounds
  <2>6. Once(x \o y, 0) /\ UpTo(x \o y, k) /\ Beyond(x \o y, read)
    BY ONLY <1>3, <2>4, <2>5, OfParts
  <2>7. StreamInOrder'
    BY <1>1, <1>3, <1>4, <2>1, <2>2, <2>6 DEF StreamInOrder
  <2> QED
    BY <1>1, <2>7 DEF DrawInv, InOrder, Sendable, ViewsInOrder, HeldInOrder, EchoFits, Listens
<1> QED
  BY <1>2, <1>5, <1>6 DEF Adds

\* What only paints, or marks, fits wherever it is written.
LEMMA PlainFits ==
  ASSUME NEW t, \A i \in 1..Len(t) : ~(t[i].k \in ToggleMarks) /\ t[i].k # "nl", NEW at
  PROVE  PipeFits(t, at)
BY DEF PipeFits

\* What a glyph, and what follows it, adds
Put(kind, g, o, t, more) ==
  /\ g.k = kind /\ o = <<g>> /\ t = o \o more /\ IsSeq(o) /\ IsSeq(t) /\ pipe' = pipe \o t
  /\ Adds(t, made, made') /\ UNCHANGED <<core, views>>

\* What `Puts` writes has new numbers.
LEMMA PutsAdds ==
  ASSUME NEW kind, kind \in {"echo", "ps2", "out"}, NEW c, NEW more, IsSeq(more), Painted(more) = <<>>, Puts(kind, c, more)
  PROVE  \E g, o, t : Put(kind, g, o, t, more)
<1>1. PICK g : g = Glyph(kind, c, made + 1)
  OBVIOUS
<1>2. g.k = kind /\ g.n = made + 1 /\ Paints(g)
  BY <1>1 DEF Glyph, Paints
<1>3. PICK o : o = <<g>>
  OBVIOUS
<1>4. PICK t : t = o \o more
  OBVIOUS
<1>5. IsSeq(o) /\ IsSeq(t)
  BY <1>3, <1>4, OneIsSeq, SeqConcat
<1>6. Writes(t) /\ made' = made + 1
  BY <1>1, <1>3, <1>4 DEF Puts
<1>7. pipe' = pipe \o t /\ UNCHANGED <<core, views>>
  BY <1>6 DEF Writes
<1>8. Painted(t) = o
  <2>1. Painted(o) = o
    BY <1>2, <1>3, PaintedFacts
  <2>2. Painted(t) = Painted(o) \o Painted(more)
    BY <1>4, <1>5, PaintedConcat
  <2> QED
    BY <1>5, <2>1, <2>2, EmptyIsSeq
<1>9. Adds(t, made, made')
  BY <1>2, <1>3, <1>6, <1>8 DEF Adds
<1>10. Put(kind, g, o, t, more)
  BY <1>2, <1>3, <1>4, <1>5, <1>7, <1>9 DEF Put
<1> QED
  BY <1>10

\* The tokens of PS1 after a mark of the mode
LEMMA Ps1Adds ==
  ASSUME made \in Nat, NEW mode, NEW then, IsSeq(then), Painted(then) = <<>>, Ps1(mode, then)
  PROVE  /\ UNCHANGED <<core, views>>
         /\ \E tail, t : /\ IsSeq(tail) /\ tail # <<>> /\ t = then \o tail /\ IsSeq(t) /\ pipe' = pipe \o t
                         /\ \A i \in 1..Len(tail) : tail[i].k \in ToggleMarks
                         /\ tail[Len(tail)].k = "B" /\ Adds(t, made, made')
<1>1. PICK b, o : b = Mark("B") /\ o = <<b>>
  OBVIOUS
<1>2. b.k = "B" /\ b.k \in ToggleMarks /\ ~Paints(b)
  BY <1>1 DEF Mark, Paints, ToggleMarks
<1>3. IsSeq(o) /\ Len(o) = 1 /\ o[1] = b /\ Painted(o) = <<>> /\ o # <<>>
  BY <1>1, <1>2, OneIsSeq, PaintedFacts, EmptyIsSeq
<1>4. CASE mode
  <2>1. PICK t : t = then \o o
    OBVIOUS
  <2>2. Writes(t) /\ made' = made
    BY <1>1, <1>4, <2>1 DEF Ps1
  <2>3. IsSeq(t) /\ Painted(t) = <<>>
    <3>1. Painted(t) = Painted(then) \o Painted(o)
      BY <1>3, <2>1, PaintedConcat
    <3> QED
      BY <1>3, <2>1, <3>1, SeqConcat, EmptyIsSeq
  <2>4. Adds(t, made, made')
    BY <2>2, <2>3 DEF Adds
  <2>5. pipe' = pipe \o t /\ UNCHANGED <<core, views>>
    BY <2>2 DEF Writes
  <2>6. \A i \in 1..Len(o) : o[i].k \in ToggleMarks
    BY <1>2, <1>3
  <2>7. o[Len(o)].k = "B"
    BY <1>2, <1>3
  <2> QED
    BY <1>3, <2>1, <2>3, <2>4, <2>5, <2>6, <2>7
<1>5. CASE ~mode
  <2>1. PICK g, f, tail : g = Glyph("prompt", NoCommand, made + 1) /\ f = <<g>> /\ tail = <<g, b>>
    OBVIOUS
  <2>2. g.k = "prompt" /\ g.k \in ToggleMarks /\ g.n = made + 1 /\ Paints(g)
    BY <2>1 DEF Glyph, Paints, ToggleMarks
  <2>3. tail = f \o o /\ IsSeq(tail) /\ IsSeq(f) /\ Len(f) = 1 /\ f[1] = g /\ Painted(f) = f
    BY <1>1, <2>1, <2>2, TwoIsConcat, OneIsSeq, PaintedFacts
  <2>4. PICK t : t = then \o tail
    OBVIOUS
  <2>5. Writes(t) /\ made' = made + 1
    BY <1>1, <1>5, <2>1, <2>4 DEF Ps1
  <2>6. IsSeq(t) /\ Painted(t) = f
    <3>1. Painted(t) = Painted(then) \o Painted(tail)
      BY <2>3, <2>4, PaintedConcat
    <3>2. Painted(tail) = Painted(f) \o Painted(o)
      BY <1>3, <2>3, PaintedConcat
    <3> QED
      BY <1>3, <2>3, <2>4, <3>1, <3>2, SeqConcat, EmptyIsSeq
  <2>7. Adds(t, made, made')
    BY <2>1, <2>2, <2>5, <2>6 DEF Adds
  <2>8. pipe' = pipe \o t /\ UNCHANGED <<core, views>>
    BY <2>5 DEF Writes
  <2>9. Len(tail) = 2 /\ tail[1] = g /\ tail[2] = b
    BY <2>1
  <2>10. \A i \in 1..Len(tail) : tail[i].k \in ToggleMarks
    <3>1. \A i \in 1..2 : i = 1 \/ i = 2
      OBVIOUS
    <3> QED
      BY <1>2, <2>2, <2>9, <3>1
  <2>11. tail[Len(tail)].k = "B" /\ tail # <<>>
    BY <1>2, <2>9, <2>3, EmptyIsSeq
  <2> QED
    BY <2>3, <2>4, <2>6, <2>7, <2>8, <2>10, <2>11
<1> QED
  BY <1>4, <1>5

\* What is written keeps what fits.
StillFits(q, t, u, m, at, at2) ==
  u = q \o t /\ PipeFits(q, at) /\ SwallowFits(m, q, at) =>
    PipeFits(u, at2) /\ SwallowFits(m, u, at2) /\ (Holding(m, u) => Holding(m, q))

\* The same, from how what is written fits what was.
LEMMA WrittenDraws ==
  ASSUME IsSeq(pipe), DrawInv, UNCHANGED <<core, views>>, NEW t, IsSeq(t), pipe' = pipe \o t, Adds(t, made, made'),
         NEW at2, shell'.at = at2,
         \A q, u, m, at : q = pipe /\ m = machine /\ at = shell.at => StillFits(q, t, u, m, at, at2)
  PROVE  DrawInv'
<1>1. PICK q, u, m, at : q = pipe /\ u = q \o t /\ m = machine /\ at = shell.at
  OBVIOUS
<1>2. PipeFits(q, at) /\ SwallowFits(m, q, at)
  BY <1>1 DEF DrawInv, EchoHolds
<1>3. StillFits(q, t, u, m, at, at2)
  BY <1>1
<1>4. PipeFits(u, at2) /\ SwallowFits(m, u, at2) /\ (Holding(m, u) => Holding(m, q))
  BY <1>1, <1>2, <1>3 DEF StillFits
<1>5. pipe' = u /\ machine' = m
  BY <1>1 DEF core
<1>6. EchoHolds'
  BY <1>4, <1>5 DEF EchoHolds
<1>7. Holding(machine, pipe)' => Holding(machine, pipe)
  BY <1>1, <1>4, <1>5
<1> QED
  BY <1>6, <1>7, WriteDraws

\* What the shell writes after a line that was sent
LEMMA AnswerDraws ==
  ASSUME IsSeq(pipe), DrawInv, UNCHANGED <<core, views>>, NEW t, IsSeq(t), t # <<>>, pipe' = pipe \o t, Adds(t, made, made'),
         NEW at2, shell'.at = at2, shell.at \notin {"input", "gone"},
         t[1].k \in Replies \/ shell.at \notin {"read", "done"}, PipeFits(t, at2)
  PROVE  DrawInv'
<1>1. ASSUME NEW q, NEW u, NEW m, NEW at, q = pipe, m = machine, at = shell.at
      PROVE  StillFits(q, t, u, m, at, at2)
  <2>0. SUFFICES ASSUME u = q \o t, PipeFits(q, at), SwallowFits(m, q, at)
                 PROVE  PipeFits(u, at2) /\ SwallowFits(m, u, at2) /\ (Holding(m, u) => Holding(m, q))
    BY DEF StillFits
  <2>1. /\ IsSeq(q) /\ IsSeq(t) /\ t # <<>> /\ u = q \o t /\ PipeFits(q, at) /\ SwallowFits(m, q, at)
        /\ at \notin {"input", "gone"} /\ (t[1].k \in Replies \/ at \notin {"read", "done"}) /\ PipeFits(t, at2)
    BY <1>1, <2>0
  <2> QED
    BY ONLY <2>1, AnswerFits
<1> QED
  BY <1>1, WrittenDraws

\* What is typed after the prompt was read
LEMMA LineDraws ==
  ASSUME IsSeq(pipe), DrawInv, UNCHANGED <<core, views>>, NEW t, IsSeq(t), pipe' = pipe \o t, Adds(t, made, made'),
         NEW at2, shell'.at = at2, shell.at \in {"input", "more"}, pipe = <<>>, LineFirst(t), PipeFits(t, at2)
  PROVE  DrawInv'
<1>1. ASSUME NEW q, NEW u, NEW m, NEW at, q = pipe, m = machine, at = shell.at
      PROVE  StillFits(q, t, u, m, at, at2)
  <2>0. SUFFICES ASSUME u = q \o t, PipeFits(q, at), SwallowFits(m, q, at)
                 PROVE  PipeFits(u, at2) /\ SwallowFits(m, u, at2) /\ (Holding(m, u) => Holding(m, q))
    BY DEF StillFits
  <2>1. /\ q = <<>> /\ IsSeq(t) /\ u = q \o t /\ SwallowFits(m, q, at) /\ at \in {"input", "more"}
        /\ LineFirst(t) /\ PipeFits(t, at2)
    BY <1>1, <2>0
  <2> QED
    BY ONLY <2>1, LineFits
<1> QED
  BY <1>1, WrittenDraws

\* Where an action leads the shell
LEMMA GoesTo ==
  ASSUME ShellIsTyped, NEW to, Goes(to) \/ Types(to)
  PROVE  shell'.at = to
<1>1. PICK ah : ah = (shell.ahead \/ (pipe # <<>>))
  OBVIOUS
<1>2. shell' = [shell EXCEPT !.at = to] \/ shell' = [shell EXCEPT !.at = to, !.ahead = ah]
  BY Zenon, <1>1 DEF Goes, Types
<1> QED
  BY <1>2 DEF ShellIsTyped, ShellRec

\* `Submit` and `EmptyLine`: the echo of a line and its end
LEMMA TypedDraws ==
  ASSUME ~Typeahead, StreamInv, DrawInv, Submit \/ EmptyLine
  PROVE  DrawInv'
<1>1. IsSeq(pipe) /\ ShellIsTyped /\ made \in Nat
  BY DEF StreamInv, ShellIsTyped, DrawInv, StreamInOrder
<1>2. PICK nl, n : nl = Mark("nl") /\ n = <<nl>>
  OBVIOUS
<1>3. nl.k = "nl" /\ ~Paints(nl) /\ IsSeq(n) /\ Len(n) = 1 /\ n[1] = nl /\ Painted(n) = <<>> /\ n # <<>>
  <2>1. nl.k = "nl" /\ ~Paints(nl)
    BY <1>2 DEF Mark, Paints
  <2> QED
    BY <1>2, <2>1, OneIsSeq, PaintedFacts, EmptyIsSeq
<1>4. CASE Submit
  <2>1. Types("read") /\ Puts("echo", Coming, n)
    BY <1>2, <1>4 DEF Submit
  <2>2. shell'.at = "read" /\ pipe = <<>> /\ shell.at \in {"input", "more"}
    BY <1>1, <2>1, GoesTo DEF Types
  <2>3. PICK g, o, t : /\ g.k = "echo" /\ o = <<g>> /\ t = o \o n /\ IsSeq(o) /\ IsSeq(t) /\ pipe' = pipe \o t
                       /\ Adds(t, made, made') /\ UNCHANGED <<core, views>>
    <3>1. PICK kind, c : kind = "echo" /\ c = Coming
      OBVIOUS
    <3>2. kind \in {"echo", "ps2", "out"} /\ IsSeq(n) /\ Painted(n) = <<>> /\ Puts(kind, c, n)
      BY <1>3, <2>1, <3>1
    <3>3. \E g, o, t : Put(kind, g, o, t, n)
      BY ONLY <3>2, PutsAdds
    <3> QED
      BY <3>1, <3>3 DEF Put
  <2>4. Len(t) = 2 /\ t[1].k = "echo" /\ t[2].k = "nl"
    <3>1. Len(o) = 1 /\ o[1] = g
      BY <2>3, OneIsSeq
    <3>2. /\ IsSeq(t) /\ Len(t) = Len(o) + Len(n) /\ \A i \in 1..Len(o) : t[i] = o[i]
          /\ \A i \in 1..Len(n) : t[Len(o) + i] = n[i]
      <4>1. IsSeq(o) /\ IsSeq(n) /\ t = o \o n
        BY <1>3, <2>3
      <4> QED
        BY ONLY <4>1, SeqConcat
    <3>3. 1 \in 1..Len(o) /\ 1 \in 1..Len(n) /\ Len(o) + 1 = 2
      BY <1>3, <3>1
    <3> QED
      BY <1>3, <2>3, <3>1, <3>2, <3>3
  <2>5. LineFirst(t)
    <3>1. t # <<>>
      BY <2>3, <2>4, EmptyIsSeq
    <3> QED
      BY <2>4, <3>1 DEF LineFirst
  <2>6. PipeFits(t, "read")
    <3>1. \A i \in 1..Len(t) : (i = 1 /\ t[i].k = "echo") \/ (i = Len(t) /\ t[i].k = "nl")
      BY <2>4
    <3>2. \A i \in 1..Len(t) : ~(t[i].k \in ToggleMarks) /\ (t[i].k = "nl" => i = Len(t))
      BY <3>1 DEF ToggleMarks
    <3> QED
      BY <3>2 DEF PipeFits
  <2> QED
    BY <1>1, <2>2, <2>3, <2>5, <2>6, LineDraws
<1>5. CASE EmptyLine
  <2>1. Types("done") /\ Writes(n) /\ made' = made
    BY <1>2, <1>5 DEF EmptyLine
  <2>2. shell'.at = "done" /\ pipe = <<>> /\ shell.at \in {"input", "more"}
    BY <1>1, <2>1, GoesTo DEF Types
  <2>3. pipe' = pipe \o n /\ UNCHANGED <<core, views>> /\ Adds(n, made, made')
    BY <1>3, <2>1 DEF Writes, Adds
  <2>4. LineFirst(n)
    BY <1>3 DEF LineFirst
  <2>5. PipeFits(n, "done")
    <3>1. \A i \in 1..Len(n) : i = Len(n) /\ n[i].k = "nl"
      BY <1>3
    <3>2. \A i \in 1..Len(n) : ~(n[i].k \in ToggleMarks) /\ i = Len(n)
      BY <3>1 DEF ToggleMarks
    <3> QED
      BY <3>2 DEF PipeFits
  <2> QED
    BY <1>1, <1>3, <2>2, <2>3, <2>4, <2>5, LineDraws
<1> QED
  BY <1>4, <1>5

\* `Continue`, `Run`, `Output`
LEMMA RunningDraws ==
  ASSUME StreamInv, DrawInv, Continue \/ Run \/ Output
  PROVE  DrawInv'
<1>1. IsSeq(pipe) /\ ShellIsTyped /\ made \in Nat
  BY DEF StreamInv, ShellIsTyped, DrawInv, StreamInOrder
<1>2. PICK no : no = <<>>
  OBVIOUS
<1>3. IsSeq(no) /\ Painted(no) = <<>> /\ \A s : IsSeq(s) => s \o no = s
  BY <1>2, EmptyIsSeq, PaintedFacts
<1>4. ASSUME NEW kind, kind \in {"ps2", "out"}, NEW c, Puts(kind, c, no), shell.at \notin {"input", "gone"},
             kind = "ps2" \/ shell.at \notin {"read", "done"}, NEW at2, shell'.at = at2
      PROVE  DrawInv'
  <2>1. PICK g, o, t : /\ g.k = kind /\ o = <<g>> /\ t = o \o no /\ IsSeq(o) /\ IsSeq(t) /\ pipe' = pipe \o t
                       /\ Adds(t, made, made') /\ UNCHANGED <<core, views>>
    <3>1. kind \in {"echo", "ps2", "out"}
      BY <1>4
    <3>2. IsSeq(no) /\ Painted(no) = <<>> /\ Puts(kind, c, no)
      BY <1>3, <1>4
    <3>3. \E g, o, t : Put(kind, g, o, t, no)
      BY ONLY <3>1, <3>2, PutsAdds
    <3> QED
      BY <3>3 DEF Put
  <2>2. t = o
    BY <1>3, <2>1
  <2>3. Len(t) = 1 /\ t[1] = g /\ t # <<>>
    <3>1. Len(o) = 1 /\ o[1] = g
      BY <2>1, OneIsSeq
    <3>2. o # <<>>
      BY <2>1, <3>1, EmptyIsSeq
    <3> QED
      BY <2>2, <3>1, <3>2
  <2>4. PipeFits(t, at2)
    <3>1. \A i \in 1..Len(t) : t[i].k = kind
      BY <2>1, <2>3
    <3>2. ~(kind \in ToggleMarks) /\ kind # "nl"
      BY <1>4 DEF ToggleMarks
    <3>3. \A i \in 1..Len(t) : ~(t[i].k \in ToggleMarks) /\ t[i].k # "nl"
      BY <3>1, <3>2
    <3> QED
      BY <3>3, PlainFits
  <2>5. t[1].k \in Replies \/ shell.at \notin {"read", "done"}
    BY <1>4, <2>1, <2>3 DEF Replies
  <2> QED
    BY <1>1, <1>4, <2>1, <2>3, <2>4, <2>5, AnswerDraws
<1>5. CASE Continue
  <2>1. shell.at = "read" /\ Goes("more") /\ Puts("ps2", Coming, no)
    BY <1>2, <1>5 DEF Continue, At
  <2>2. shell'.at = "more"
    BY <1>1, <2>1, GoesTo
  <2> QED
    BY <1>4, <2>1, <2>2
<1>6. CASE Output
  <2>1. shell.at = "run" /\ shell' = shell /\ Puts("out", shell.commands, no)
    BY <1>2, <1>6 DEF Output, At
  <2>2. PICK c, kind : c = shell.commands /\ kind = "out"
    OBVIOUS
  <2>3. Puts(kind, c, no) /\ kind \in {"ps2", "out"} /\ shell.at \notin {"input", "gone"} /\ shell.at \notin {"read", "done"}
    BY <2>1, <2>2
  <2>4. PICK at2 : shell'.at = at2
    OBVIOUS
  <2> QED
    BY <1>4, <2>3, <2>4
<1>7. CASE Run
  <2>1. PICK e, z, t : e = CommandLine(Coming) /\ z = Mark("C") /\ t = <<e, z>>
    OBVIOUS
  <2>2. PICK ra : ra = IF shell.mode THEN shell.ran \cup {Coming} ELSE shell.ran
    OBVIOUS
  <2>3. shell.at = "read" /\ shell' = [shell EXCEPT !.at = "run", !.commands = Coming, !.ran = ra] /\ Writes(t) /\ made' = made
    <3>1. shell' = [shell EXCEPT !.at = "run", !.commands = Coming, !.ran = ra]
      BY Zenon, <1>7, <2>2 DEF Run
    <3> QED
      BY <1>7, <2>1, <3>1 DEF Run, At
  <2>4. shell'.at = "run"
    BY <1>1, <2>3 DEF ShellIsTyped, ShellRec
  <2>5. e.k = "E" /\ z.k = "C"
    BY <2>1 DEF CommandLine, Mark
  <2>6. ~Paints(e) /\ ~Paints(z)
    BY <2>5 DEF Paints
  <2>7. IsSeq(t) /\ Painted(t) = <<>>
    <3>1. PICK o, p : o = <<e>> /\ p = <<z>>
      OBVIOUS
    <3>2. t = o \o p /\ IsSeq(t) /\ IsSeq(o) /\ IsSeq(p)
      BY <2>1, <3>1, TwoIsConcat, OneIsSeq
    <3>3. Painted(o) = no /\ Painted(p) = no
      BY <1>2, <2>6, <3>1, PaintedFacts
    <3>4. Painted(t) = Painted(o) \o Painted(p)
      BY <3>2, PaintedConcat
    <3> QED
      BY <1>2, <1>3, <3>2, <3>3, <3>4
  <2>8. Len(t) = 2 /\ t[1] = e /\ t[2] = z
    BY <2>1
  <2>9. t # <<>>
    BY <2>7, <2>8, EmptyIsSeq
  <2>10. PipeFits(t, "run")
    <3>1. \A i \in 1..Len(t) : t[i].k = "E" \/ t[i].k = "C"
      BY <2>5, <2>8
    <3>2. \A i \in 1..Len(t) : ~(t[i].k \in ToggleMarks) /\ t[i].k # "nl"
      BY <3>1 DEF ToggleMarks
    <3> QED
      BY <3>2, PlainFits
  <2>11. pipe' = pipe \o t /\ UNCHANGED <<core, views>> /\ Adds(t, made, made')
    BY <2>3, <2>7 DEF Writes, Adds
  <2>12. t[1].k \in Replies
    BY <2>5, <2>8 DEF Replies
  <2> QED
    BY <1>1, <2>3, <2>4, <2>7, <2>9, <2>10, <2>11, <2>12, AnswerDraws
<1> QED
  BY <1>5, <1>6, <1>7

\* A prompt, or a change of mode
LEMMA PromptDraws ==
  ASSUME StreamInv, DrawInv, Prompt \/ Toggle
  PROVE  DrawInv'
<1>1. IsSeq(pipe) /\ ShellIsTyped /\ made \in Nat
  BY DEF StreamInv, ShellIsTyped, DrawInv, StreamInOrder
<1>2. ASSUME NEW on
      PROVE  \E p, o : /\ p = PromptMode(on) /\ o = <<p>> /\ p.k \in ToggleMarks /\ IsSeq(o) /\ Painted(o) = <<>>
                       /\ Len(o) = 1 /\ o[1] = p /\ o # <<>>
  <2>1. PICK p, o : p = PromptMode(on) /\ o = <<p>>
    OBVIOUS
  <2>2. p.k \in {"P0", "P1"}
    BY <2>1 DEF PromptMode, Mark
  <2>3. p.k \in ToggleMarks /\ ~Paints(p)
    BY <2>2 DEF ToggleMarks, Paints
  <2>4. IsSeq(o) /\ Painted(o) = <<>> /\ Len(o) = 1 /\ o[1] = p /\ o # <<>>
    BY <2>1, <2>3, OneIsSeq, PaintedFacts, EmptyIsSeq
  <2> QED
    BY <2>1, <2>3, <2>4
<1>3. ASSUME NEW o, IsSeq(o), Len(o) = 1, o[1].k \in ToggleMarks, NEW tail, IsSeq(tail), tail # <<>>,
             \A i \in 1..Len(tail) : tail[i].k \in ToggleMarks, tail[Len(tail)].k = "B"
      PROVE  LET s == o \o tail IN
             IsSeq(s) /\ s # <<>> /\ (\A i \in 1..Len(s) : s[i].k \in ToggleMarks) /\ s[Len(s)].k = "B"
  <2>1. PICK s : s = o \o tail
    OBVIOUS
  <2>2. PICK l, k : Joined(o, tail, s, l, k)
    BY ONLY <1>3, <2>1, JoinedIs
  <2>3. /\ l = 1 /\ k \in Nat /\ Len(s) = l + k /\ s # <<>> /\ s[1] = o[1]
        /\ k = Len(tail) /\ \A j \in 1..k : s[l + j] = tail[j]
        /\ \A i \in 1..(l + k) : i \in 1..l \/ \E j \in 1..k : i = l + j
    BY <1>3, <2>2 DEF Joined
  <2>4. ASSUME NEW i \in 1..Len(s) PROVE s[i].k \in ToggleMarks
    <3>1. i = 1 \/ \E j \in 1..k : i = l + j
      BY <2>3
    <3> QED
      BY <1>3, <2>3, <3>1
  <2>5. IsSeq(s) /\ s[Len(s)] = tail[Len(tail)]
    BY <1>3, <2>1, LastOfConcat, SeqConcat
  <2> QED
    BY <1>3, <2>1, <2>3, <2>4, <2>5
<1>4. CASE Toggle
  <2>1. PICK on, tg : on = ~shell.mode /\ tg = shell.toggles + 1
    OBVIOUS
  <2>2. /\ shell.at = "input" /\ shell' = [shell EXCEPT !.mode = ~@, !.toggles = @ + 1]
        /\ Ps1(on, <<PromptMode(on)>>)
    BY Zenon, <1>4, <2>1 DEF Toggle, At
  <2>3. shell'.at = "input"
    BY <1>1, <2>2 DEF ShellIsTyped, ShellRec
  <2>4. PICK p, o : /\ p = PromptMode(on) /\ o = <<p>> /\ p.k \in ToggleMarks /\ IsSeq(o) /\ Painted(o) = <<>>
                    /\ Len(o) = 1 /\ o[1] = p /\ o # <<>>
    BY <1>2
  <2>5. Ps1(on, o)
    BY <2>2, <2>4
  <2>6. /\ UNCHANGED <<core, views>>
        /\ \E tail, t : /\ IsSeq(tail) /\ tail # <<>> /\ t = o \o tail /\ IsSeq(t) /\ pipe' = pipe \o t
                        /\ \A i \in 1..Len(tail) : tail[i].k \in ToggleMarks
                        /\ tail[Len(tail)].k = "B" /\ Adds(t, made, made')
    BY <1>1, <2>4, <2>5, Ps1Adds
  <2>7. PICK tail, t : /\ IsSeq(tail) /\ tail # <<>> /\ t = o \o tail /\ IsSeq(t) /\ pipe' = pipe \o t
                       /\ \A i \in 1..Len(tail) : tail[i].k \in ToggleMarks
                       /\ tail[Len(tail)].k = "B" /\ Adds(t, made, made')
    BY <2>6
  <2>8. t # <<>> /\ (\A i \in 1..Len(t) : t[i].k \in ToggleMarks) /\ t[Len(t)].k = "B"
    BY <1>3, <2>4, <2>7
  <2>9. ASSUME NEW q, NEW u, NEW m, NEW at, q = pipe, m = machine, at = shell.at
        PROVE  StillFits(q, t, u, m, at, "input")
    <3>0. SUFFICES ASSUME u = q \o t, PipeFits(q, at), SwallowFits(m, q, at)
                   PROVE  PipeFits(u, "input") /\ SwallowFits(m, u, "input") /\ (Holding(m, u) => Holding(m, q))
      BY DEF StillFits
    <3>1. /\ IsSeq(q) /\ IsSeq(t) /\ t # <<>> /\ u = q \o t /\ PipeFits(q, "input") /\ SwallowFits(m, q, "input")
          /\ (\A j \in 1..Len(t) : t[j].k \in ToggleMarks) /\ t[Len(t)].k = "B"
      BY <1>1, <2>2, <2>7, <2>8, <2>9, <3>0
    <3> QED
      BY ONLY <3>1, TogglesFit
  <2> QED
    BY <1>1, <2>3, <2>6, <2>7, <2>9, WrittenDraws
<1>5. CASE Prompt
  <2>1. PICK d, on : d = Mark("D") /\ on = shell.mode
    OBVIOUS
  <2>2. PICK p, o : /\ p = PromptMode(on) /\ o = <<p>> /\ p.k \in ToggleMarks /\ IsSeq(o) /\ Painted(o) = <<>>
                    /\ Len(o) = 1 /\ o[1] = p /\ o # <<>>
    BY <1>2
  <2>3. PICK f, th : f = <<d>> /\ th = <<d, p>>
    OBVIOUS
  <2>4. d.k = "D" /\ ~Paints(d)
    BY <2>1 DEF Mark, Paints
  <2>5. IsSeq(f) /\ Len(f) = 1 /\ f[1] = d /\ Painted(f) = <<>> /\ th = f \o o /\ IsSeq(th)
    BY <2>2, <2>3, <2>4, OneIsSeq, TwoIsConcat, PaintedFacts
  <2>6. Painted(th) = <<>>
    <3>1. Painted(th) = Painted(f) \o Painted(o)
      BY <2>2, <2>5, PaintedConcat
    <3> QED
      BY <2>2, <2>5, <3>1, EmptyIsSeq
  <2>7. shell.at \in {"start", "run", "done"} /\ Goes("input") /\ Ps1(on, th)
    BY <1>5, <2>1, <2>2, <2>3 DEF Prompt
  <2>8. shell'.at = "input"
    BY <1>1, <2>7, GoesTo
  <2>9. /\ UNCHANGED <<core, views>>
        /\ \E tail, t : /\ IsSeq(tail) /\ tail # <<>> /\ t = th \o tail /\ IsSeq(t) /\ pipe' = pipe \o t
                        /\ \A i \in 1..Len(tail) : tail[i].k \in ToggleMarks
                        /\ tail[Len(tail)].k = "B" /\ Adds(t, made, made')
    BY <1>1, <2>5, <2>6, <2>7, Ps1Adds
  <2>10. PICK tail, t : /\ IsSeq(tail) /\ tail # <<>> /\ t = th \o tail /\ IsSeq(t) /\ pipe' = pipe \o t
                        /\ \A i \in 1..Len(tail) : tail[i].k \in ToggleMarks
                        /\ tail[Len(tail)].k = "B" /\ Adds(t, made, made')
    BY <2>9
  <2>11. PICK s : s = o \o tail
    OBVIOUS
  <2>12. IsSeq(s) /\ s # <<>> /\ (\A i \in 1..Len(s) : s[i].k \in ToggleMarks) /\ s[Len(s)].k = "B"
    BY <1>3, <2>2, <2>10, <2>11
  <2>13. t = f \o s
    <3>1. IsSeq(f) /\ IsSeq(o) /\ IsSeq(tail)
      BY <2>2, <2>5, <2>10
    <3>2. (f \o o) \o tail = f \o (o \o tail)
      BY ONLY <3>1, SeqAssociates
    <3> QED
      BY <2>5, <2>10, <2>11, <3>2
  <2>14. PipeFits(t, "input")
    <3>1. PICK m : m = New
      OBVIOUS
    <3>2. m.swallow = FALSE /\ m.submission = "idle"
      BY <3>1 DEF New
    <3>3. SwallowFits(m, f, "input")
      BY <3>2 DEF SwallowFits
    <3>4. PipeFits(f, "input")
      <4>1. \A i \in 1..Len(f) : f[i].k = "D"
        BY <2>4, <2>5
      <4>2. \A i \in 1..Len(f) : ~(f[i].k \in ToggleMarks) /\ f[i].k # "nl"
        BY <4>1 DEF ToggleMarks
      <4> QED
        BY <4>2, PlainFits
    <3> QED
      BY ONLY <2>5, <2>12, <2>13, <3>3, <3>4, TogglesFit
  <2>15. t # <<>> /\ t[1] = d
    <3>1. PICK l, k : Joined(f, s, t, l, k)
      BY ONLY <2>5, <2>12, <2>13, JoinedIs
    <3>2. l = 1 /\ t # <<>> /\ \A i \in 1..l : t[i] = f[i]
      BY <2>5, <3>1 DEF Joined
    <3> QED
      BY <2>5, <3>2
  <2>16. t[1].k \in Replies
    BY <2>4, <2>15 DEF Replies
  <2>17. shell.at \notin {"input", "gone"}
    BY <2>7
  <2> QED
    BY <1>1, <2>8, <2>9, <2>10, <2>14, <2>15, <2>16, <2>17, AnswerDraws
<1> QED
  BY <1>4, <1>5

-----------------------------------------------------------------------------
\* Nothing is drawn twice.

\* The shell may die wherever it is.
LEMMA DiesDraws == ASSUME StreamInv, DrawInv, Dies PROVE DrawInv'
<1>1. ShellIsTyped
  BY DEF StreamInv
<1>2. shell'.at = "gone" /\ UNCHANGED <<pipe, made, core, views>>
  BY <1>1, GoesTo DEF Dies
<1>3. UNCHANGED <<machine, screen, emitter, read, shown, since>>
  BY <1>2 DEF core, views
<1>4. EchoHolds'
  <2>1. PICK q, m : q = pipe /\ m = machine
    OBVIOUS
  <2>2. PipeFits(q, shell.at) /\ SwallowFits(m, q, shell.at)
    BY <2>1 DEF DrawInv, EchoHolds
  <2>3. PipeFits(q, "gone")
    BY <2>2 DEF PipeFits
  <2>4. SwallowFits(m, q, "gone")
    BY <2>2 DEF SwallowFits
  <2> QED
    BY <1>2, <1>3, <2>1, <2>3, <2>4 DEF EchoHolds
<1> QED
  BY <1>2, <1>3, <1>4 DEF DrawInv, StreamInOrder, InOrder, Sendable, ViewsInOrder, HeldInOrder, EchoFits, Listens

\* At first nothing is drawn.
LEMMA InitDraws == ASSUME Init PROVE DrawInv
<1>1. /\ pipe = <<>> /\ made = 0 /\ machine = New /\ screen = Blank(Nobody) /\ emitter = "receive" /\ read = 0
      /\ shown = [v \in Views |-> <<>>] /\ since = [v \in Views |-> 0]
  BY DEF Init
<1>2. IsSeq(<<>>) /\ Painted(<<>>) = <<>> /\ Len(<<>>) = 0
  BY EmptyIsSeq, PaintedFacts
<1>3. HasShape(screen) /\ screen.core = <<>> /\ screen.pending = <<>>
  BY <1>1 DEF Blank, HasShape, Nobody
<1>4. machine.swallow = FALSE /\ machine.submission = "idle" /\ machine.echo = <<>>
  BY <1>1 DEF New
<1>5. EchoHolds
  BY <1>1, <1>2, <1>4 DEF EchoHolds, PipeFits, SwallowFits
<1>6. StreamInOrder
  BY <1>1, <1>2, OfNothing DEF StreamInOrder
<1>7. InOrder(screen, read)
  BY <1>2, <1>3, OfNothing DEF InOrder, Sendable
<1>8. ViewsInOrder(read)
  BY <1>1, <1>2, OfNothing DEF ViewsInOrder
<1>9. HeldInOrder
  BY <1>2, <1>4, OfNothing DEF HeldInOrder, Holding
<1> QED
  BY <1>5, <1>6, <1>7, <1>8, <1>9 DEF DrawInv

\* Every step keeps the invariant.
LEMMA NextDraws ==
  ASSUME ~Typeahead, StreamInv, DrawInv, windowOf \in [Views -> Windows],
         inherited \in [Windows -> Nat] \cup {NotStarting}, [Next]_vars
  PROVE  DrawInv'
<1>1. IsSeq(pipe) /\ Fields(machine) /\ IsSeq(machine.echo)
  BY DEF StreamInv, ShellIsTyped, HearsAs, Sync
<1>2. CASE Shell
  BY <1>2, PromptDraws, TypedDraws, RunningDraws, DiesDraws DEF Shell
<1>3. CASE Emitter
  BY <1>1, <1>3, IngestDraws, FlushDraws, TellingDraws, EofDraws DEF Emitter
<1>4. CASE Inherit
  BY <1>4, TellingDraws
<1>5. CASE Respawn
  <2>1. inherited # NotStarting
    BY <1>5 DEF Respawn
  <2>2. pipe = <<>>
    BY <2>1 DEF StreamInv, EmitterIsTyped
  <2> QED
    BY <1>5, <2>2, RespawnDraws
<1>6. CASE \E v \in Views : Mount(v) \/ AttachView(v) \/ Unmount(v) \/ DetachView(v)
  BY <1>6, MountDraws, AttachDraws, LeavingDraws
<1>7. CASE \E w \in Windows : CloseWindow(w)
  BY <1>7, LeavingDraws
<1>8. CASE UNCHANGED vars
  BY <1>8, TellingDraws
<1> QED
  BY <1>2, <1>3, <1>4, <1>5, <1>6, <1>7, <1>8 DEF Next

\* What a view shows twice is an echo that was held back when it attached.
LEMMA InOrderIsOnce == ASSUME DrawInv PROVE DrawnOnce
<1>1. SUFFICES ASSUME NEW v \in Views, NEW i \in DOMAIN shown[v], NEW j \in DOMAIN shown[v], i < j, shown[v][i] = shown[v][j]
               PROVE  shown[v][i].k = "echo" /\ shown[v][i].n <= since[v]
  BY DEF DrawnOnce
<1>2. IsSeq(shown[v]) /\ UpTo(shown[v], read) /\ Once(shown[v], since[v]) /\ read \in Nat
  BY DEF DrawInv, ViewsInOrder, StreamInOrder
<1>3. DOMAIN shown[v] = 1..Len(shown[v])
  BY <1>2, SeqLen
<1>4. Follows(shown[v][i], shown[v][j], since[v]) /\ shown[v][i].n \in 1..read
  BY <1>1, <1>2, <1>3 DEF Once, UpTo
<1>5. ~(shown[v][i].n < shown[v][j].n)
  BY <1>1, <1>2, <1>4
<1> QED
  BY <1>1, <1>4, <1>5 DEF Follows

DrawStreamInv == StreamInv /\ CountInv /\ DrawInv

\* THEOREM 6. Nothing is drawn twice on one view, whatever attaches between two chunks or between
\* a chunk and its flush (`ingest_chunk`, pty/mod.rs), except an echo that was held back when the view
\* attached. As in the run of this property, a line is typed when the prompt before it was read: the
\* invariant says what follows a prompt in the pipe (PipeFits), which a line typed ahead changes.
THEOREM DrawnOnceHolds == ASSUME ~Typeahead PROVE Spec => []DrawnOnce
<1>1. Init => DrawStreamInv
  <2> SUFFICES ASSUME Init PROVE DrawStreamInv
    OBVIOUS
  <2> QED
    BY InitStream, InitDraws, InitCounts DEF DrawStreamInv
<1>2. DrawStreamInv /\ [Next]_vars => DrawStreamInv'
  <2> SUFFICES ASSUME DrawStreamInv, [Next]_vars PROVE DrawStreamInv'
    OBVIOUS
  <2>1. windowOf \in [Views -> Windows] /\ inherited \in [Windows -> Nat] \cup {NotStarting}
    BY DEF DrawStreamInv, CountInv, ViewsAreTyped
  <2>2. StreamInv'
    BY NextKeepsStream DEF DrawStreamInv
  <2>3. CountInv'
    BY NextCounts DEF DrawStreamInv
  <2>4. DrawInv'
    BY <2>1, NextDraws DEF DrawStreamInv
  <2> QED
    BY <2>2, <2>3, <2>4 DEF DrawStreamInv
<1>3. DrawStreamInv => DrawnOnce
  BY InOrderIsOnce DEF DrawStreamInv
<1> QED
  BY <1>1, <1>2, <1>3, PTL DEF Spec
=============================================================================
