--------------------------- MODULE CanoSessionProofs ---------------------------
(***************************************************************************)
(* Theorems about CanoSession, for any number of processes and of threads.   *)
(* They rest on one idea: whatever the threads do, at most one of them at a  *)
(* time holds the connection, and the cycle is in the phase it left it in.   *)
(***************************************************************************)
EXTENDS CanoSession, CanoLifecycleProofs, FiniteSetTheorems, TLAPS

\* A thread that will move the connection on by itself: a process whose end was not
\* applied yet, a wait, a probe, a respawn up to its PTY, and a decision on its way.
Spawns == {"target", "capture", "fork"}
Busy   == {"publish", "login", "up", "ended", "failed", "wait", "probe", "probing"} \cup Spawns
Holds(t) == at[t].pc \in Busy

AlwaysBorn == {"login", "up", "ended", "failed", "gone"}

\* Frames: which steps each kind of thread can be at, and what it keeps there.
Decisions == {"nothing", "wait", "probe", "respawn", "failed", "gave_up", "dispose"}
Frames ==
  /\ \A p \in Procs : at[p].pc \in {"unborn", "publish"} \cup AlwaysBorn
  /\ \A j \in Jobs : at[j].pc \in {"idle", "publish", "wait", "probe", "probing", "register",
                                   "close", "close_cycle", "kill"} \cup Spawns
  /\ \A t \in {main, opener} :
       at[t].pc \in {"idle", "retry", "publish", "register", "close", "close_cycle", "kill"}
                      \cup Spawns
  /\ at[opener].pc # "retry"
  /\ \A t \in Threads :
       /\ at[t].pc = "capture" => at[t].fresh \in {{}, {Connecting}, {ResumedDrop}}
       /\ at[t].pc \in {"capture", "fork"} /\ at[t].fresh # {} => t = opener
       /\ at[t].pc = "fork" => at[t].connection = "connecting"

\* A decision on its way, and what follows it.
Published ==
  \A t \in Threads : at[t].pc = "publish" =>
    LET f == at[t] IN
      /\ f.connection \in Phases /\ f.do \in Decisions
      /\ f.next = (IF t \notin Procs THEN "idle"
                   ELSE IF f.connection = "live" /\ f.do = "nothing" THEN "up" ELSE "gone")
      /\ f.do = "wait" => f.connection = "reconnecting"
      /\ f.do \in {"probe", "dispose"} => f.connection = "live"
      /\ f.do = "respawn" => f.connection = "connecting"
      /\ t \in Procs => f.do \notin {"respawn", "dispose"}

TypeInv ==
  /\ DOMAIN at = Threads /\ at = [t \in Threads |-> at[t]]
  /\ Frames /\ Published
  /\ shown \in Phases \cup {"none"}
  /\ canos \subseteq Cycles /\ \A c, d \in canos : c = d /\ ~c.disposed
  /\ alive \subseteq pty /\ pty \subseteq Procs
  /\ closed \in BOOLEAN /\ midSpawn \in BOOLEAN

\* One holder at a time.
OneHolder == \A t, u \in Threads : Holds(t) /\ Holds(u) => t = u

\* The phase in which a holder left the cycle.
PhaseOf(f) ==
  CASE f.pc = "publish" -> f.connection
    [] f.pc = "wait" -> "reconnecting"
    [] f.pc \in {"up", "ended", "probe", "probing"} -> "live"
    [] OTHER -> "connecting"

CycleAgrees ==
  \A t \in Threads : Holds(t) => \A c \in canos : c.state = PhaseOf(at[t])

\* What is alive belongs to a process that holds.
AliveHolds ==
  \A p \in alive : \/ at[p].pc \in {"login", "up"}
                   \/ at[p].pc = "publish" /\ at[p].next = "up"

\* A respawn that is to be registered was noted as connecting, and has its process.
RegisterIsConnecting ==
  \A t \in Threads : at[t].pc = "register" =>
    at[t].connection = "connecting" /\ \E p \in Procs : at[p].pc # "unborn"

\* A session on show as given up was given up, and the one that holds, if any, is the
\* owner's retry.
GivenUpIsOver ==
  shown \in {"failed", "dropped"} =>
    /\ \A t \in Threads : Holds(t) => t = main /\ at[t].pc = "publish"
    /\ ~Holds(main) => \A c \in canos : c.state \in {"failed", "dropped"}

\* A retry finds nobody at work and a cycle that was given up, if any.
RetryIsAlone ==
  at[main].pc = "retry" =>
    /\ \A t \in Threads : ~Holds(t)
    /\ \A c \in canos : c.state \in {"failed", "dropped"}

\* A session that boot kept and nobody brought back yet.
KeptIsFresh ==
  origin = "kept" /\ shown # "none" /\ (\A p \in Procs : at[p].pc = "unborn") =>
    /\ \A t \in Threads \ Procs : t # main => at[t].pc = "idle"
    /\ \A c \in canos : c.drop = Unset
    /\ at[main].pc \notin {"close_cycle", "kill"}
    /\ at[main].pc = "idle" => \A c \in canos : c.state = "failed"
    /\ at[main].pc = "publish" =>
         \/ at[main].do = "respawn"
         \/ at[main].do = "failed" /\ at[main].connection = "failed"

\* A respawn is not shown as live, and what is shown as live is, or is about to be
\* corrected.
ShownFollows ==
  origin # "boot" /\ shown = "live" =>
    /\ \A t \in Threads : at[t].pc \in Spawns => FALSE
    /\ \A c \in canos : c.state = "live" \/ \E t \in Threads : at[t].pc = "publish"

\* A session that was closed outside a spawn leaves nothing that lasts.
ClosedLeaves ==
  closed /\ ~midSpawn =>
    /\ shown = "none"
    /\ \A t \in Threads : at[t].pc \notin Spawning
    /\ canos = {} \/ \E t \in Threads : at[t].pc = "close_cycle"
    /\ alive = {} \/ \E t \in Threads : at[t].pc \in {"close_cycle", "kill"}

SessionInv ==
  /\ TypeInv /\ OneHolder /\ CycleAgrees /\ AliveHolds /\ RegisterIsConnecting
  /\ GivenUpIsOver /\ RetryIsAlone /\ KeptIsFresh /\ ShownFollows /\ ClosedLeaves

-----------------------------------------------------------------------------
(* Cycles as other threads find them.                                        *)

LEMMA OfAnyAgeFacts ==
  ASSUME NEW c \in Cycles, NEW k \in OfAnyAge(c)
  PROVE  /\ k \in Cycles /\ k.state = c.state /\ k.disposed = c.disposed
         /\ c.drop = Unset => k.drop = Unset
<1>1. PICK d \in AnyAge(c.drop), l \in AnyAge(c.live) : k = WithAges(c, d, l)
  BY DEF OfAnyAge
<1>2. d \in Ages \cup {Unset} /\ l \in Ages \cup {Unset} /\ (c.drop = Unset => d = Unset)
  BY AgeFacts DEF Ages, AnyAge
<1> QED
  BY <1>1, <1>2 DEF Cycles, WithAges

LEMMA TimelessFacts ==
  ASSUME NEW c \in Cycles
  PROVE  /\ Timeless(c) \in Cycles /\ Timeless(c).state = c.state
         /\ Timeless(c).disposed = c.disposed
         /\ c.drop = Unset => Timeless(c).drop = Unset
BY AgeFacts DEF Timeless, Cycles

-----------------------------------------------------------------------------
LEMMA SessionInit == Init => SessionInv
<1> SUFFICES ASSUME Init PROVE SessionInv
  OBVIOUS
<1>1. /\ DOMAIN at = Threads /\ at = [t \in Threads |-> at[t]]
      /\ \A t \in Threads : \/ t \in Procs /\ at[t].pc = "unborn"
                            \/ t \notin Procs /\ at[t].pc = "idle"
                            \/ /\ t = opener /\ at[t].pc = "capture" /\ origin # "kept"
                               /\ at[t].fresh \in {{Connecting}, {ResumedDrop}}
  BY ThreadsAssumption DEF Init, At, Idle, Threads
<1>2. TypeInv
  <2>1. Frames
    BY <1>1, ThreadsAssumption DEF Frames, Threads, Spawns, AlwaysBorn
  <2>2. Published
    BY <1>1 DEF Published
  <2> QED
    BY <1>1, <2>1, <2>2 DEF Init, TypeInv, Phases
<1>3. shown \in {"none", "live"} /\ canos = {} /\ alive = {} /\ closed = FALSE
      /\ (shown = "live" /\ origin # "boot" => at[opener].pc = "idle")
  BY ThreadsAssumption DEF Init, Threads, Idle, At
<1>4. OneHolder /\ CycleAgrees /\ AliveHolds /\ RegisterIsConnecting /\ ClosedLeaves
  BY <1>1, <1>3 DEF OneHolder, Holds, Busy, Spawns, CycleAgrees, AliveHolds,
     RegisterIsConnecting, ClosedLeaves
<1>5. GivenUpIsOver /\ RetryIsAlone /\ KeptIsFresh /\ ShownFollows
  BY <1>1, <1>3, ThreadsAssumption DEF GivenUpIsOver, RetryIsAlone, KeptIsFresh, ShownFollows, Threads,
     Spawns
<1> QED
  BY <1>2, <1>4, <1>5 DEF SessionInv

-----------------------------------------------------------------------------
(* The process ends by itself: nobody knows yet.                             *)
LEMMA EndsStep == ASSUME SessionInv, NEW p \in Procs, Ends(p) PROVE SessionInv'
<1>1. alive' \subseteq alive /\ UNCHANGED <<at, shown, canos, pty, origin, closed, midSpawn>>
  BY DEF Ends, ghosts
<1>2. TypeInv' /\ OneHolder' /\ CycleAgrees' /\ RegisterIsConnecting'
  BY <1>1 DEF SessionInv, TypeInv, Frames, Published, OneHolder, CycleAgrees,
     RegisterIsConnecting, Holds
<1>3. AliveHolds'
  BY <1>1 DEF SessionInv, AliveHolds
<1>4. GivenUpIsOver' /\ RetryIsAlone' /\ KeptIsFresh' /\ ShownFollows' /\ ClosedLeaves'
  BY <1>1 DEF SessionInv, GivenUpIsOver, RetryIsAlone, KeptIsFresh, ShownFollows,
     ClosedLeaves, Holds
<1> QED
  BY <1>2, <1>3, <1>4 DEF SessionInv

-----------------------------------------------------------------------------
(* An event, applied by the thread that holds the connection or by the retry of *)
(* the owner.                                                                  *)
LEMMA AppliedStep ==
  ASSUME SessionInv, NEW t \in Threads, NEW decided, NEW next,
         \/ Holds(t) /\ at[t].pc # "publish" /\ canos # {}
         \/ t = main /\ at[t].pc = "retry" /\ (canos = {} => shown # "none"),
         decided.cycle \in Cycles, decided.do \in Decisions,
         decided.do = "dispose" \/ ~decided.cycle.disposed,
         next = (IF t \notin Procs THEN "idle"
                 ELSE IF decided.cycle.state = "live" /\ decided.do = "nothing"
                      THEN "up" ELSE "gone"),
         t \in alive => next = "up",
         decided.do = "wait" => decided.cycle.state = "reconnecting",
         decided.do \in {"probe", "dispose"} => decided.cycle.state = "live",
         decided.do = "respawn" => decided.cycle.state = "connecting",
         t \in Procs => decided.do \notin {"respawn", "dispose"},
         t = main /\ (\A c \in canos : c.drop = Unset) =>
           /\ decided.cycle.drop = Unset
           /\ \/ decided.do = "respawn"
              \/ decided.do = "failed" /\ decided.cycle.state = "failed",
         Applied(t, decided, next)
  PROVE  SessionInv'
<1>1. /\ at' = [u \in Threads |-> IF u = t
                   THEN [pc |-> "publish", connection |-> decided.cycle.state,
                         do |-> decided.do, token |-> decided.cycle.token, next |-> next]
                   ELSE at[u]]
      /\ UNCHANGED <<shown, pty, alive, origin, closed, midSpawn>>
  BY DEF Applied, ghosts, SessionInv, TypeInv
<1>2. /\ at'[t].pc = "publish" /\ at'[t].connection = decided.cycle.state
      /\ at'[t].do = decided.do /\ at'[t].next = next
      /\ \A u \in Threads : u # t => at'[u] = at[u]
  BY <1>1
<1>3. /\ canos' \subseteq Cycles /\ (\A c, d \in canos' : c = d)
      /\ \A c \in canos' : /\ ~c.disposed /\ c.state = decided.cycle.state
                           /\ decided.cycle.drop = Unset => c.drop = Unset
  BY TimelessFacts DEF Applied
<1>4. main \in Threads /\ main \notin Procs /\ opener \in Threads /\ opener \notin Procs
  BY ThreadsAssumption DEF Threads
<1>5. (\A u \in Threads : u # t => ~Holds(u)) /\ at[t].pc \in Busy \cup {"retry"}
  BY DEF SessionInv, OneHolder, RetryIsAlone, Holds
<1>6. TypeInv'
  <2>1. Frames'
    BY <1>2, <1>5 DEF SessionInv, TypeInv, Frames, Threads
  <2>2. Published'
    BY <1>2, ThreadsAssumption DEF SessionInv, TypeInv, Published, Cycles, Phases
  <2> QED
    BY <1>1, <1>3, <2>1, <2>2 DEF SessionInv, TypeInv
<1>7. OneHolder' /\ CycleAgrees'
  BY <1>2, <1>3, <1>5 DEF OneHolder, CycleAgrees, Holds, PhaseOf
<1>8. AliveHolds' /\ RegisterIsConnecting'
  <2>1. AliveHolds /\ RegisterIsConnecting /\ alive \subseteq Procs /\ Procs \subseteq Threads
    BY DEF SessionInv, TypeInv, Threads
  <2>2. AliveHolds'
    BY <1>1, <1>2, <1>5, <2>1 DEF AliveHolds, Holds, Busy
  <2>3. RegisterIsConnecting'
    BY <1>1, <1>2, <1>4, <1>5, <2>1 DEF RegisterIsConnecting, Busy, Spawns
  <2> QED
    BY <2>2, <2>3
<1>9. GivenUpIsOver' /\ RetryIsAlone'
  BY <1>1, <1>2, <1>4, <1>5 DEF SessionInv, GivenUpIsOver, RetryIsAlone, Holds, Busy, Spawns
<1>10. KeptIsFresh'
  BY <1>1, <1>2, <1>3, <1>4, <1>5 DEF SessionInv, KeptIsFresh, Busy, Spawns, Threads
<1>11. ShownFollows'
  BY <1>1, <1>2 DEF SessionInv, ShownFollows, Spawns
<1>12. ClosedLeaves'
  BY <1>1, <1>2, <1>3, <1>5 DEF SessionInv, ClosedLeaves, Busy, Spawning, Spawns
<1> QED
  BY <1>6, <1>7, <1>8, <1>9, <1>10, <1>11, <1>12 DEF SessionInv

-----------------------------------------------------------------------------
(* A thread that holds and finds no cycle goes on, or stops.                  *)
LEMMA MovesOnStep ==
  ASSUME SessionInv, NEW t \in Threads, NEW step,
         Holds(t), at[t].pc # "publish",
         \/ t \in Procs /\ step = "up" /\ canos = {}
         \/ t \in Procs /\ step = "gone" /\ t \notin alive
         \/ t \in Procs /\ step = "ended" /\ t \notin alive /\ at[t].pc = "up"
         \/ t \in Procs /\ step = "failed" /\ t \notin alive /\ at[t].pc = "login"
         \/ /\ t \notin Procs /\ step = "idle"
            /\ t = main => canos = {} \/ shown = "none",
         at' = [at EXCEPT ![t] = At(step)],
         UNCHANGED <<state, ghosts>>
  PROVE  SessionInv'
<1>1. /\ at' = [u \in Threads |-> IF u = t THEN [pc |-> step] ELSE at[u]]
      /\ UNCHANGED <<shown, canos, pty, alive, origin, closed, midSpawn>>
  BY DEF state, ghosts, At, SessionInv, TypeInv
<1>2. at'[t].pc = step /\ \A u \in Threads : u # t => at'[u] = at[u]
  BY <1>1
<1>4. main \in Threads /\ main \notin Procs /\ opener \in Threads /\ opener \notin Procs
  BY ThreadsAssumption DEF Threads
<1>5. (\A u \in Threads : u # t => ~Holds(u)) /\ at[t].pc \in Busy
  BY DEF SessionInv, OneHolder, Holds
<1>6. TypeInv'
  <2>1. Frames'
    <3>1. Frames /\ Procs \subseteq Threads /\ Jobs \subseteq Threads
      BY DEF SessionInv, TypeInv, Threads
    <3>2. /\ t \in Procs => step \in AlwaysBorn
          /\ t \notin Procs => step = "idle"
      BY DEF AlwaysBorn
    <3> QED
      BY <1>2, <1>4, <3>1, <3>2, ThreadsAssumption DEF Frames, AlwaysBorn
  <2>2. Published'
    BY <1>2 DEF SessionInv, TypeInv, Published
  <2> QED
    BY <1>1, <2>1, <2>2 DEF SessionInv, TypeInv
<1>7. OneHolder' /\ CycleAgrees'
  BY <1>1, <1>2, <1>5 DEF SessionInv, OneHolder, CycleAgrees, Holds, PhaseOf, Busy, Spawns
<1>8. AliveHolds' /\ RegisterIsConnecting'
  <2>1. AliveHolds /\ RegisterIsConnecting /\ alive \subseteq Procs /\ Procs \subseteq Threads
    BY DEF SessionInv, TypeInv, Threads
  <2>2. AliveHolds'
    BY <1>1, <1>2, <1>5, <2>1 DEF AliveHolds, Holds, Busy
  <2>3. RegisterIsConnecting'
    BY <1>1, <1>2, <1>5, <2>1 DEF RegisterIsConnecting, Busy, Spawns
  <2> QED
    BY <2>2, <2>3
<1>9. GivenUpIsOver' /\ RetryIsAlone'
  BY <1>1, <1>2, <1>4, <1>5 DEF SessionInv, GivenUpIsOver, RetryIsAlone, Holds, Busy, Spawns
<1>10. KeptIsFresh'
  BY <1>1, <1>2, <1>4, <1>5 DEF SessionInv, KeptIsFresh, Busy, Spawns, Threads
<1>11. ShownFollows'
  BY <1>1, <1>2, <1>5 DEF SessionInv, ShownFollows, Spawns, Busy
<1>12. ClosedLeaves'
  BY <1>1, <1>2, <1>5 DEF SessionInv, ClosedLeaves, Busy, Spawning, Spawns
<1> QED
  BY <1>6, <1>7, <1>8, <1>9, <1>10, <1>11, <1>12 DEF SessionInv

-----------------------------------------------------------------------------
(* The events, by the threads that report them.                              *)

LEMMA MarkerStep == ASSUME SessionInv, NEW p \in Procs, MarkerSeen(p) PROVE SessionInv'
<1>1. p \in Threads /\ p # main /\ p \in alive /\ at[p].pc = "login" /\ Holds(p)
  BY ThreadsAssumption DEF MarkerSeen, At, Threads, Holds, Busy
<1>2. CASE NotApplied(p, "up")
  BY <1>1, <1>2, MovesOnStep DEF NotApplied
<1>3. ASSUME NEW c \in canos, Applied(p, Decided(LoggedIn(c), "nothing"), "up")
      PROVE  SessionInv'
  <2>1. c \in Cycles /\ ~c.disposed /\ c.state = "connecting"
    BY <1>1 DEF SessionInv, TypeInv, CycleAgrees, PhaseOf
  <2>2. LoggedIn(c) \in Cycles /\ LoggedIn(c).state = "live" /\ ~LoggedIn(c).disposed
    <3>1. LoggedIn(c) = [c EXCEPT !.state = "live", !.live = 0, !.failure = "none"]
      BY <2>1, LoginFacts
    <3>2. LoggedIn(c) \in Cycles
      BY ZenonT(40), <2>1, <3>1, CyclesClosed
    <3> QED
      BY <2>1, <3>1, <3>2 DEF Cycles
  <2> DEFINE decided == Decided(LoggedIn(c), "nothing")
  <2>3. /\ decided.cycle \in Cycles /\ decided.cycle.state = "live" /\ ~decided.cycle.disposed
        /\ decided.do = "nothing" /\ Applied(p, decided, "up")
    BY <1>3, <2>2 DEF Decided
  <2> HIDE DEF decided
  <2> QED
    BY <1>1, <2>3, AppliedStep DEF Decisions
<1> QED
  BY <1>2, <1>3 DEF MarkerSeen

LEMMA ExitSeenStep == ASSUME SessionInv, NEW p \in Procs, ExitSeen(p) PROVE SessionInv'
<1>1. p \in Threads /\ p # main /\ p \notin alive /\ at[p].pc \in {"login", "up"} /\ Holds(p)
  BY ThreadsAssumption DEF ExitSeen, Threads, Holds, Busy
<1> QED
  BY <1>1, MovesOnStep DEF ExitSeen

\* What an exit before the login decides, whoever reports it.
LEMMA EarlyExitDecides ==
  ASSUME SessionInv, NEW c \in canos, c.state = "connecting", NEW k \in OfAnyAge(c),
         NEW f \in Failures
  PROVE  LET decided == ExitedEarly(k, f) IN
         /\ decided.cycle \in Cycles /\ ~decided.cycle.disposed
         /\ \/ decided.do = "gave_up" /\ decided.cycle.state = "dropped" /\ c.drop # Unset
            \/ decided.do = "wait" /\ decided.cycle.state = "reconnecting" /\ c.drop # Unset
            \/ decided.do = "failed" /\ decided.cycle.state = "failed"
         /\ c.drop = Unset => decided.cycle.drop = Unset
<1>1. /\ k \in Cycles /\ k.state = "connecting" /\ ~k.disposed
      /\ c.drop = Unset => k.drop = Unset
  BY OfAnyAgeFacts DEF SessionInv, TypeInv
<1>2. PICK decided : decided = ExitedEarly(k, f)
  OBVIOUS
<1>3. \/ k.drop # Unset /\ decided = Decided([k EXCEPT !.live = Unset, !.state = "dropped"], "gave_up")
      \/ /\ k.drop # Unset
         /\ decided = Decided([k EXCEPT !.live = Unset, !.state = "reconnecting",
                                        !.attempt = k.attempt + 1,
                                        !.token = NextToken(k)], "wait")
      \/ decided = Decided([k EXCEPT !.live = Unset, !.state = "failed", !.failure = f], "failed")
  BY <1>1, <1>2, EarlyExitFacts
<1>4. /\ decided.cycle \in Cycles /\ ~decided.cycle.disposed /\ decided.cycle.drop = k.drop
      /\ \/ decided.do = "gave_up" /\ decided.cycle.state = "dropped" /\ k.drop # Unset
         \/ decided.do = "wait" /\ decided.cycle.state = "reconnecting" /\ k.drop # Unset
         \/ decided.do = "failed" /\ decided.cycle.state = "failed"
  <2> DEFINE dropped == [k EXCEPT !.live = Unset, !.state = "dropped"]
             waiting == [k EXCEPT !.live = Unset, !.state = "reconnecting",
                                  !.attempt = k.attempt + 1, !.token = NextToken(k)]
             failed  == [k EXCEPT !.live = Unset, !.state = "failed", !.failure = f]
  <2>1. dropped \in Cycles /\ waiting \in Cycles /\ failed \in Cycles
    BY <1>1, CyclesClosed, Zenon
  <2>2. /\ dropped.state = "dropped" /\ dropped.drop = k.drop /\ ~dropped.disposed
        /\ waiting.state = "reconnecting" /\ waiting.drop = k.drop /\ ~waiting.disposed
        /\ failed.state = "failed" /\ failed.drop = k.drop /\ ~failed.disposed
    BY <1>1 DEF Cycles
  <2>3. \/ k.drop # Unset /\ decided = Decided(dropped, "gave_up")
        \/ k.drop # Unset /\ decided = Decided(waiting, "wait")
        \/ decided = Decided(failed, "failed")
    BY <1>3, Zenon
  <2> HIDE DEF dropped, waiting, failed
  <2> QED
    BY <2>1, <2>2, <2>3 DEF Decided
<1> QED
  BY <1>1, <1>2, <1>4

LEMMA ExitAppliedStep == ASSUME SessionInv, NEW p \in Procs, ExitApplied(p) PROVE SessionInv'
<1>1. p \in Threads /\ p # main /\ at[p].pc \in {"ended", "failed"} /\ Holds(p) /\ p \notin alive
  BY ThreadsAssumption DEF ExitApplied, Threads, Holds, Busy, SessionInv, AliveHolds
<1>2. CASE NotApplied(p, "gone")
  BY <1>1, <1>2, MovesOnStep DEF NotApplied
<1>3. ASSUME NEW c \in canos, NEW k \in OfAnyAge(c), at[p].pc = "ended",
             Applied(p, ExitedLoggedIn(k), "gone")
      PROVE  SessionInv'
  <2>1. k \in Cycles /\ ~k.disposed /\ k.state = "live"
    BY <1>3, <1>1, OfAnyAgeFacts DEF SessionInv, TypeInv, CycleAgrees, PhaseOf
  <2>2. PICK decided : decided = ExitedLoggedIn(k)
    OBVIOUS
  <2>3. /\ decided.cycle \in Cycles /\ ~decided.cycle.disposed
        /\ decided.cycle.state = "live" /\ decided.do = "probe"
    <3> DEFINE fresh == [k EXCEPT !.live = Unset, !.drop = 0, !.attempt = 0,
                                  !.token = NextToken(k)]
               same  == [k EXCEPT !.live = Unset, !.token = NextToken(k)]
    <3>1. fresh \in Cycles /\ same \in Cycles
      BY <2>1, CyclesClosed, Zenon
    <3>2. fresh.state = "live" /\ ~fresh.disposed /\ same.state = "live" /\ ~same.disposed
      BY <2>1 DEF Cycles
    <3>3. decided = Decided(fresh, "probe") \/ decided = Decided(same, "probe")
      BY <2>1, <2>2, LostFacts, Zenon
    <3> HIDE DEF fresh, same
    <3> QED
      BY <3>1, <3>2, <3>3 DEF Decided
  <2> QED
    BY <1>1, <1>3, <2>2, <2>3, AppliedStep DEF Decisions
<1>4. ASSUME NEW c \in canos, NEW k \in OfAnyAge(c), NEW f \in Failures, at[p].pc = "failed",
             Applied(p, ExitedEarly(k, f), "gone")
      PROVE  SessionInv'
  <2>1. c.state = "connecting"
    BY <1>4, <1>1 DEF SessionInv, CycleAgrees, PhaseOf
  <2>2. PICK decided : decided = ExitedEarly(k, f)
    OBVIOUS
  <2>3. /\ decided.cycle \in Cycles /\ ~decided.cycle.disposed
        /\ \/ decided.do = "gave_up" /\ decided.cycle.state = "dropped"
           \/ decided.do = "wait" /\ decided.cycle.state = "reconnecting"
           \/ decided.do = "failed" /\ decided.cycle.state = "failed"
    BY <2>1, <2>2, EarlyExitDecides
  <2> QED
    BY <1>1, <1>4, <2>2, <2>3, AppliedStep DEF Decisions
<1> QED
  BY <1>2, <1>3, <1>4 DEF ExitApplied

LEMMA ProbeStartsStep == ASSUME SessionInv, NEW j \in Jobs, ProbeStarts(j) PROVE SessionInv'
<1>1. j \in Threads /\ j # main /\ j \notin Procs /\ at[j].pc = "probe" /\ Holds(j)
  BY ThreadsAssumption DEF ProbeStarts, Threads, Holds, Busy
<1>2. CASE shown = "none"
  BY <1>1, <1>2, MovesOnStep DEF ProbeStarts, Idle, At
<1>3. CASE shown # "none"
  <2>1. /\ at' = [u \in Threads |-> IF u = j THEN [pc |-> "probing", token |-> at[j].token]
                                    ELSE at[u]]
        /\ UNCHANGED <<shown, canos, pty, alive, origin, closed, midSpawn>>
    BY <1>3 DEF ProbeStarts, state, ghosts, SessionInv, TypeInv
  <2>2. at'[j].pc = "probing" /\ \A u \in Threads : u # j => at'[u] = at[u]
    BY <1>1, <2>1
  <2>3. TypeInv'
    <3>1. Frames'
      BY ZenonT(40), <1>1, <2>2, ThreadsAssumption DEF SessionInv, TypeInv, Frames, Threads
    <3>2. Published'
      BY <2>2 DEF SessionInv, TypeInv, Published
    <3> QED
      BY <2>1, <3>1, <3>2 DEF SessionInv, TypeInv
  <2>4. OneHolder' /\ CycleAgrees' /\ AliveHolds' /\ RegisterIsConnecting'
    BY ZenonT(40), <1>1, <2>1, <2>2 DEF SessionInv, TypeInv, OneHolder, CycleAgrees, AliveHolds,
       RegisterIsConnecting, Holds, Busy, PhaseOf, Threads
  <2>5. GivenUpIsOver' /\ RetryIsAlone' /\ KeptIsFresh' /\ ShownFollows' /\ ClosedLeaves'
    BY <1>1, <2>1, <2>2, ThreadsAssumption DEF SessionInv, GivenUpIsOver, RetryIsAlone, KeptIsFresh,
       ShownFollows, ClosedLeaves, Holds, Threads, Spawns, Spawning
  <2> QED
    BY <2>3, <2>4, <2>5 DEF SessionInv
<1> QED
  BY <1>2, <1>3

LEMMA ProbeAnswersStep == ASSUME SessionInv, NEW j \in Jobs, ProbeAnswers(j) PROVE SessionInv'
<1>1. /\ j \in Threads /\ j # main /\ j \notin Procs /\ at[j].pc = "probing" /\ Holds(j)
      /\ j \notin alive
  BY ThreadsAssumption DEF ProbeAnswers, Threads, Holds, Busy, SessionInv, TypeInv
<1>2. CASE NotApplied(j, "idle")
  BY <1>1, <1>2, MovesOnStep DEF NotApplied
<1>3. ASSUME NEW c \in canos, NEW k \in OfAnyAge(c), NEW v \in Verdicts,
             Applied(j, Probed(k, at[j].token, v), "idle")
      PROVE  SessionInv'
  <2>1. k \in Cycles /\ ~k.disposed /\ k.state = "live"
    BY <1>1, OfAnyAgeFacts DEF SessionInv, TypeInv, CycleAgrees, PhaseOf
  <2>2. PICK decided : decided = Probed(k, at[j].token, v)
    OBVIOUS
  <2>3. /\ decided.cycle \in Cycles
        /\ \/ decided.do = "nothing" /\ ~decided.cycle.disposed
           \/ decided.do = "dispose" /\ decided.cycle.state = "live"
           \/ decided.do = "wait" /\ decided.cycle.state = "reconnecting" /\ ~decided.cycle.disposed
    <3> DEFINE waiting == [k EXCEPT !.state = "reconnecting", !.attempt = k.attempt + 1,
                                    !.token = NextToken(k)]
               over    == [k EXCEPT !.disposed = TRUE]
    <3>1. waiting \in Cycles /\ over \in Cycles
      BY <2>1, CyclesClosed, Zenon
    <3>2. waiting.state = "reconnecting" /\ ~waiting.disposed /\ over.state = "live"
      BY <2>1 DEF Cycles
    <3>3. \/ decided = Decided(k, "nothing") \/ decided = Decided(waiting, "wait")
          \/ decided = Decided(over, "dispose")
      BY <2>1, <2>2, ProbeFacts, Zenon
    <3> HIDE DEF waiting, over
    <3> QED
      BY <2>1, <3>1, <3>2, <3>3 DEF Decided
  <2> QED
    BY <1>1, <1>3, <2>2, <2>3, AppliedStep DEF Decisions
<1> QED
  BY <1>2, <1>3 DEF ProbeAnswers

LEMMA WaitEndsStep == ASSUME SessionInv, NEW j \in Jobs, WaitEnds(j) PROVE SessionInv'
<1>1. /\ j \in Threads /\ j # main /\ j \notin Procs /\ at[j].pc = "wait" /\ Holds(j)
      /\ j \notin alive
  BY ThreadsAssumption DEF WaitEnds, Threads, Holds, Busy, SessionInv, TypeInv
<1>2. CASE NotApplied(j, "idle")
  BY <1>1, <1>2, MovesOnStep DEF NotApplied
<1>3. ASSUME NEW c \in canos, NEW k \in OfAnyAge(c),
             Applied(j, TimerFired(k, at[j].token), "idle")
      PROVE  SessionInv'
  <2>1. k \in Cycles /\ ~k.disposed /\ k.state = "reconnecting"
    BY <1>1, OfAnyAgeFacts DEF SessionInv, TypeInv, CycleAgrees, PhaseOf
  <2>2. PICK decided : decided = TimerFired(k, at[j].token)
    OBVIOUS
  <2>3. /\ decided.cycle \in Cycles /\ ~decided.cycle.disposed
        /\ \/ decided.do = "nothing"
           \/ decided.do = "gave_up"
           \/ decided.do = "respawn" /\ decided.cycle.state = "connecting"
    <3> DEFINE dropped == [k EXCEPT !.state = "dropped"]
               again   == [k EXCEPT !.state = "connecting"]
    <3>1. dropped \in Cycles /\ again \in Cycles
      BY <2>1, CyclesClosed DEF Phases
    <3>2. ~dropped.disposed /\ again.state = "connecting" /\ ~again.disposed
      BY <2>1 DEF Cycles
    <3>3. \/ decided = Decided(k, "nothing") \/ decided = Decided(dropped, "gave_up")
          \/ decided = Decided(again, "respawn")
      BY <2>1, <2>2, WaitFacts, Zenon
    <3> HIDE DEF dropped, again
    <3> QED
      BY <2>1, <3>1, <3>2, <3>3 DEF Decided
  <2> QED
    BY <1>1, <1>3, <2>2, <2>3, AppliedStep DEF Decisions
<1> QED
  BY <1>2, <1>3 DEF WaitEnds

-----------------------------------------------------------------------------
(* The second half of an event, and what it conducts.                        *)

LEMMA PublishStep == ASSUME SessionInv, NEW t \in Threads, Publish(t) PROVE SessionInv'
<1> DEFINE f == at[t]
<1>1. /\ f.pc = "publish" /\ f.connection \in Phases /\ f.do \in Decisions
      /\ f.next = (IF t \notin Procs THEN "idle"
                   ELSE IF f.connection = "live" /\ f.do = "nothing" THEN "up" ELSE "gone")
      /\ f.do = "wait" => f.connection = "reconnecting"
      /\ f.do \in {"probe", "dispose"} => f.connection = "live"
      /\ f.do = "respawn" => f.connection = "connecting"
      /\ t \in Procs => f.do \notin {"respawn", "dispose"}
  BY DEF Publish, SessionInv, TypeInv, Published
<1>2. /\ (\A u \in Threads : u # t => ~Holds(u)) /\ Holds(t)
      /\ \A c \in canos : c.state = f.connection
  BY <1>1 DEF SessionInv, OneHolder, CycleAgrees, Holds, Busy, PhaseOf
<1>3. /\ main \in Threads /\ main \notin Procs /\ opener \in Threads /\ opener \notin Procs
      /\ main # opener /\ main \notin Jobs /\ opener \notin Jobs
      /\ Procs \subseteq Threads /\ Jobs \subseteq Threads /\ \A j \in Jobs : j \notin Procs
  BY ThreadsAssumption DEF Threads
<1>4. shown' = (IF shown = "none" THEN shown ELSE f.connection)
      /\ UNCHANGED <<canos, pty, alive, origin, closed, midSpawn>>
  BY DEF Publish, ghosts
<1>5. CASE f.do \in {"wait", "probe"}
  <2>1. PICK j \in Jobs : /\ at[j] = Idle /\ j # t
                          /\ at' = [at EXCEPT ![t] = At(f.next),
                                              ![j] = [pc |-> f.do, token |-> f.token]]
    BY <1>5 DEF Publish
  <2>2. /\ at' = [u \in Threads |-> IF u = j THEN [pc |-> f.do, token |-> f.token]
                                    ELSE IF u = t THEN [pc |-> f.next] ELSE at[u]]
        /\ at[j].pc = "idle"
    BY <2>1, <1>3 DEF SessionInv, TypeInv, At, Idle
  <2>3. /\ at'[t].pc = f.next /\ at'[j].pc = f.do /\ j \in Threads /\ j # t
        /\ \A u \in Threads : u # t /\ u # j => at'[u] = at[u]
    BY <2>1, <2>2, <1>3
  <2>4. f.next = (IF t \in Procs THEN "gone" ELSE "idle")
    BY <1>1, <1>5
  <2>5. TypeInv'
    <3>1. Frames'
      <4>1. Frames /\ f.next \in {"gone", "idle"} /\ f.do \in {"wait", "probe"}
            /\ j \notin Procs /\ j # main /\ j # opener
        BY <1>3, <1>5, <2>4, Zenon DEF SessionInv, TypeInv
      <4>2. \A p \in Procs : at'[p].pc \in {"unborn", "publish"} \cup AlwaysBorn
        BY <1>3, <2>3, <2>4, <4>1 DEF Frames, AlwaysBorn
      <4>3. \A u \in Jobs : at'[u].pc \in {"idle", "publish", "wait", "probe", "probing", "register",
                                          "close", "close_cycle", "kill"} \cup Spawns
        BY <1>3, <2>3, <2>4, <4>1 DEF Frames
      <4>4. /\ \A u \in {main, opener} :
                  at'[u].pc \in {"idle", "retry", "publish", "register", "close", "close_cycle",
                                 "kill"} \cup Spawns
            /\ at'[opener].pc # "retry"
        BY <1>3, <2>3, <2>4, <4>1 DEF Frames
      <4>5. \A u \in Threads :
              /\ at'[u].pc = "capture" => at'[u].fresh \in {{}, {Connecting}, {ResumedDrop}}
              /\ at'[u].pc \in {"capture", "fork"} /\ at'[u].fresh # {} => u = opener
              /\ at'[u].pc = "fork" => at'[u].connection = "connecting"
        BY <2>3, <4>1 DEF Frames
      <4> QED
        BY <4>2, <4>3, <4>4, <4>5 DEF Frames
    <3>2. Published'
      BY <1>3, <1>5, <2>1, <2>3, <2>4 DEF SessionInv, TypeInv, Published
    <3> QED
      BY <1>1, <1>4, <2>2, <3>1, <3>2 DEF SessionInv, TypeInv
  <2>6. OneHolder' /\ CycleAgrees'
    BY <1>1, <1>2, <1>4, <1>5, <2>3, <2>4 DEF SessionInv, OneHolder, CycleAgrees, Holds, PhaseOf, Busy, Spawns
  <2>7. AliveHolds' /\ RegisterIsConnecting'
    BY <1>1, <1>2, <1>3, <1>4, <1>5, <2>3, <2>4 DEF SessionInv, TypeInv, AliveHolds, RegisterIsConnecting
  <2>8. GivenUpIsOver' /\ RetryIsAlone'
    BY <1>1, <1>2, <1>3, <1>4, <1>5, <2>3, <2>4 DEF SessionInv, GivenUpIsOver, RetryIsAlone, Holds, Busy
  <2>9. KeptIsFresh'
    BY <1>1, <1>3, <1>4, <1>5, <2>3, <2>4 DEF SessionInv, KeptIsFresh
  <2>10. ShownFollows'
    BY <1>1, <1>2, <1>3, <1>4, <1>5, <2>3, <2>4 DEF SessionInv, ShownFollows, Spawns, Holds, Busy
  <2>11. ClosedLeaves'
    BY <1>1, <1>3, <1>4, <1>5, <2>2, <2>3, <2>4 DEF SessionInv, ClosedLeaves, Spawning
  <2> QED
    BY <2>5, <2>6, <2>7, <2>8, <2>9, <2>10, <2>11 DEF SessionInv
<1>6. CASE f.do \notin {"wait", "probe"}
  <2>1. PICK step : /\ at' = [at EXCEPT ![t] = At(step)]
                    /\ step = (IF f.do = "respawn" THEN "target"
                               ELSE IF f.do = "dispose" THEN "close" ELSE f.next)
    BY <1>6 DEF Publish
  <2>2. at' = [u \in Threads |-> IF u = t THEN [pc |-> step] ELSE at[u]]
    BY <2>1 DEF SessionInv, TypeInv, At
  <2>3. at'[t].pc = step /\ \A u \in Threads : u # t => at'[u] = at[u]
    BY <2>2
  <2>4. /\ step = "target" => f.connection = "connecting" /\ t \notin Procs /\ f.do = "respawn"
        /\ step = "close" => f.connection = "live" /\ t \notin Procs /\ f.do = "dispose"
        /\ step = "up" => f.connection = "live" /\ t \in Procs /\ f.do = "nothing"
        /\ step = "gone" => t \in Procs
        /\ step = "idle" => t \notin Procs /\ f.do # "respawn"
        /\ step \in {"target", "close", "up", "gone", "idle"}
        /\ f.next = "up" => step = "up"
    BY <1>1, <2>1
  <2>5. TypeInv'
    <3>1. Frames'
      <4>1. Frames
        BY DEF SessionInv, TypeInv
      <4>2. \A p \in Procs : at'[p].pc \in {"unborn", "publish"} \cup AlwaysBorn
        BY <1>3, <2>3, <2>4, <4>1 DEF Frames, AlwaysBorn
      <4>3. \A u \in Jobs : at'[u].pc \in {"idle", "publish", "wait", "probe", "probing", "register",
                                          "close", "close_cycle", "kill"} \cup Spawns
        BY <1>3, <2>3, <2>4, <4>1 DEF Frames, Spawns
      <4>4. /\ \A u \in {main, opener} :
                  at'[u].pc \in {"idle", "retry", "publish", "register", "close", "close_cycle",
                                 "kill"} \cup Spawns
            /\ at'[opener].pc # "retry"
        BY <1>3, <2>3, <2>4, <4>1 DEF Frames, Spawns
      <4>5. \A u \in Threads :
              /\ at'[u].pc = "capture" => at'[u].fresh \in {{}, {Connecting}, {ResumedDrop}}
              /\ at'[u].pc \in {"capture", "fork"} /\ at'[u].fresh # {} => u = opener
              /\ at'[u].pc = "fork" => at'[u].connection = "connecting"
        BY <2>3, <2>4, <4>1 DEF Frames
      <4> QED
        BY <4>2, <4>3, <4>4, <4>5 DEF Frames
    <3>2. Published'
      BY <2>3, <2>4 DEF SessionInv, TypeInv, Published
    <3> QED
      BY <1>1, <1>4, <2>2, <3>1, <3>2 DEF SessionInv, TypeInv
  <2>6. OneHolder' /\ CycleAgrees'
    BY <1>2, <1>4, <2>3, <2>4 DEF OneHolder, CycleAgrees, Holds, PhaseOf, Busy, Spawns
  <2>7. AliveHolds' /\ RegisterIsConnecting'
    BY <1>1, <1>3, <1>4, <2>3, <2>4 DEF SessionInv, TypeInv, AliveHolds, RegisterIsConnecting
  <2>8. GivenUpIsOver' /\ RetryIsAlone'
    BY <1>2, <1>3, <1>4, <2>3, <2>4 DEF SessionInv, GivenUpIsOver, RetryIsAlone, Holds, Busy, Spawns
  <2>9. KeptIsFresh'
    BY <1>1, <1>2, <1>3, <1>4, <2>1, <2>3, <2>4 DEF SessionInv, KeptIsFresh
  <2>10. ShownFollows'
    BY <1>2, <1>3, <1>4, <2>3, <2>4 DEF SessionInv, ShownFollows, Spawns, Holds, Busy
  <2>11. ClosedLeaves'
    BY <1>1, <1>4, <2>3, <2>4 DEF SessionInv, ClosedLeaves, Spawning
  <2> QED
    BY <2>5, <2>6, <2>7, <2>8, <2>9, <2>10, <2>11 DEF SessionInv
<1> QED
  BY <1>5, <1>6

-----------------------------------------------------------------------------
(* The respawn, and the commands of the owner: steps of one thread that is not a *)
(* process.                                                                     *)

LEMMA ThreadFacts ==
  /\ main \in Threads /\ main \notin Procs /\ opener \in Threads /\ opener \notin Procs
  /\ main # opener /\ main \notin Jobs /\ opener \notin Jobs
  /\ Procs \subseteq Threads /\ Jobs \subseteq Threads /\ \A j \in Jobs : j \notin Procs
  /\ \A t \in Threads : t \in Procs \/ t \in Jobs \/ t = main \/ t = opener
BY ThreadsAssumption DEF Threads

LEMMA StepTypes ==
  ASSUME SessionInv, NEW t \in Threads, t \notin Procs, NEW f,
         at' = [at EXCEPT ![t] = f],
         \/ f.pc \in {"idle", "capture", "fork", "register", "close", "close_cycle", "kill"}
         \/ t = main /\ f.pc = "retry",
         f.pc = "capture" => f.fresh \in {{}, {Connecting}, {ResumedDrop}},
         f.pc \in {"capture", "fork"} /\ f.fresh # {} => t = opener,
         f.pc = "fork" => f.connection = "connecting"
  PROVE  /\ at' = [u \in Threads |-> IF u = t THEN f ELSE at[u]]
         /\ at'[t] = f /\ \A u \in Threads : u # t => at'[u] = at[u]
         /\ DOMAIN at' = Threads /\ at' = [u \in Threads |-> at'[u]]
         /\ Frames' /\ Published'
<1>1. at' = [u \in Threads |-> IF u = t THEN f ELSE at[u]]
  BY DEF SessionInv, TypeInv
<1>2. at'[t] = f /\ \A u \in Threads : u # t => at'[u] = at[u]
  BY <1>1
<1>3. Frames /\ Published
  BY DEF SessionInv, TypeInv
<1>4. Published'
  BY <1>2, <1>3 DEF Published
<1>5. Frames'
  <2>1. \A p \in Procs : at'[p].pc \in {"unborn", "publish"} \cup AlwaysBorn
    BY <1>2, <1>3, ThreadFacts DEF Frames
  <2>2. \A u \in Jobs : at'[u].pc \in {"idle", "publish", "wait", "probe", "probing", "register",
                                      "close", "close_cycle", "kill"} \cup Spawns
    BY <1>2, <1>3, ThreadFacts DEF Frames, Spawns
  <2>3. /\ \A u \in {main, opener} :
              at'[u].pc \in {"idle", "retry", "publish", "register", "close", "close_cycle",
                             "kill"} \cup Spawns
        /\ at'[opener].pc # "retry"
    BY <1>2, <1>3, ThreadFacts DEF Frames, Spawns
  <2>4. \A u \in Threads :
          /\ at'[u].pc = "capture" => at'[u].fresh \in {{}, {Connecting}, {ResumedDrop}}
          /\ at'[u].pc \in {"capture", "fork"} /\ at'[u].fresh # {} => u = opener
          /\ at'[u].pc = "fork" => at'[u].connection = "connecting"
    BY <1>2, <1>3 DEF Frames
  <2> QED
    BY <2>1, <2>2, <2>3, <2>4 DEF Frames
<1> QED
  BY <1>1, <1>2, <1>4, <1>5

LEMMA HasTargetStep == ASSUME SessionInv, NEW t \in Threads, HasTarget(t) PROVE SessionInv'
<1>1. at[t].pc = "target" /\ Holds(t) /\ t \notin Procs /\ UNCHANGED <<state, ghosts>>
  BY DEF HasTarget, Holds, Busy, Spawns, SessionInv, TypeInv, Frames, AlwaysBorn
<1>2. CASE shown = "none"
  BY <1>1, <1>2, MovesOnStep DEF HasTarget, Idle, At
<1>3. CASE shown # "none"
  <2> DEFINE f == [pc |-> "capture", fresh |-> {}]
  <2>1. at' = [at EXCEPT ![t] = f] /\ f.pc = "capture" /\ f.fresh = {}
    BY <1>3 DEF HasTarget
  <2> HIDE DEF f
  <2>2. /\ at'[t] = f /\ \A u \in Threads : u # t => at'[u] = at[u]
        /\ DOMAIN at' = Threads /\ at' = [u \in Threads |-> at'[u]]
        /\ Frames' /\ Published'
    BY <1>1, <2>1, StepTypes
  <2>3. UNCHANGED <<shown, canos, pty, alive, origin, closed, midSpawn>>
    BY <1>1 DEF state, ghosts
  <2>4. TypeInv' /\ OneHolder' /\ CycleAgrees'
    BY <1>1, <2>1, <2>2, <2>3 DEF SessionInv, TypeInv, OneHolder, CycleAgrees, Holds, PhaseOf,
       Busy, Spawns
  <2>5. AliveHolds' /\ RegisterIsConnecting'
    BY <1>1, <2>1, <2>2, <2>3, ThreadFacts DEF SessionInv, TypeInv, AliveHolds, RegisterIsConnecting
  <2>6. GivenUpIsOver' /\ RetryIsAlone' /\ KeptIsFresh'
    BY <1>1, <2>1, <2>2, <2>3, ThreadFacts DEF SessionInv, GivenUpIsOver, RetryIsAlone,
       KeptIsFresh, Holds
  <2>7. ShownFollows' /\ ClosedLeaves'
    BY <1>1, <1>3, <2>1, <2>2, <2>3 DEF SessionInv, ShownFollows, ClosedLeaves, Spawns
  <2> QED
    BY <2>4, <2>5, <2>6, <2>7 DEF SessionInv
<1> QED
  BY <1>2, <1>3

LEMMA CaptureStep == ASSUME SessionInv, NEW t \in Threads, Capture(t) PROVE SessionInv'
<1>1. /\ at[t].pc = "capture" /\ Holds(t) /\ t \notin Procs
      /\ at[t].fresh \in {{}, {Connecting}, {ResumedDrop}}
      /\ at[t].fresh # {} => t = opener
  BY DEF Capture, Holds, Busy, Spawns, SessionInv, TypeInv, Frames, AlwaysBorn
<1>2. /\ \A c \in canos : c \in Cycles /\ ~c.disposed /\ c.state = "connecting"
      /\ \A c, d \in canos : c = d
  BY <1>1 DEF SessionInv, TypeInv, CycleAgrees, PhaseOf
<1>3. /\ \A c \in canos' : c \in Cycles /\ ~c.disposed /\ c.state = "connecting"
      /\ \A c, d \in canos' : c = d
      /\ t # opener => \A c \in canos' : c \in canos \/ c.drop = Unset
  <2>1. /\ Connecting.state = "connecting" /\ ~Connecting.disposed /\ Connecting.drop = Unset
        /\ ResumedDrop.state = "connecting" /\ ~ResumedDrop.disposed
    BY DEF Connecting, ResumedDrop
  <2>2. canos' \in {{Connecting}, {ResumedDrop}, canos}
        /\ (t # opener => canos' \in {{Connecting}, canos})
    BY <1>1 DEF Capture
  <2> QED
    BY <1>2, <2>1, <2>2, ConnectingFacts
<1>4. PICK c \in canos' : at' = [at EXCEPT ![t] = [pc |-> "fork", connection |-> c.state,
                                                   fresh |-> at[t].fresh]]
  BY DEF Capture
<1> DEFINE f == [pc |-> "fork", connection |-> c.state, fresh |-> at[t].fresh]
<1>5. /\ at' = [at EXCEPT ![t] = f] /\ f.pc = "fork" /\ f.fresh = at[t].fresh
      /\ f.connection = "connecting"
  BY <1>3, <1>4
<1> HIDE DEF f
<1>6. /\ at'[t] = f /\ \A u \in Threads : u # t => at'[u] = at[u]
      /\ DOMAIN at' = Threads /\ at' = [u \in Threads |-> at'[u]]
      /\ Frames' /\ Published'
  BY <1>1, <1>5, StepTypes
<1>7. UNCHANGED <<shown, pty, alive, origin, closed, midSpawn>>
  BY DEF Capture, ghosts
<1>8. TypeInv'
  BY <1>3, <1>6, <1>7 DEF SessionInv, TypeInv
<1>9. OneHolder' /\ CycleAgrees'
  BY <1>1, <1>3, <1>5, <1>6 DEF SessionInv, OneHolder, CycleAgrees, Holds, PhaseOf, Busy, Spawns
<1>10. AliveHolds' /\ RegisterIsConnecting'
  BY <1>1, <1>5, <1>6, <1>7, ThreadFacts DEF SessionInv, TypeInv, AliveHolds, RegisterIsConnecting
<1>11. GivenUpIsOver' /\ RetryIsAlone'
  BY <1>1, <1>5, <1>6, <1>7, ThreadFacts DEF SessionInv, GivenUpIsOver, RetryIsAlone, Holds
<1>12. KeptIsFresh'
  BY <1>1, <1>3, <1>5, <1>6, <1>7, ThreadFacts DEF SessionInv, KeptIsFresh
<1>13. ShownFollows' /\ ClosedLeaves'
  BY <1>1, <1>5, <1>6, <1>7 DEF SessionInv, ShownFollows, ClosedLeaves, Spawns, Spawning
<1> QED
  BY <1>8, <1>9, <1>10, <1>11, <1>12, <1>13 DEF SessionInv

\* The hold passes from the respawn to its process, the only one alive.
LEMMA ForkStep == ASSUME SessionInv, NEW t \in Threads, Fork(t) PROVE SessionInv'
<1>1. /\ at[t].pc = "fork" /\ Holds(t) /\ t \notin Procs /\ at[t].connection = "connecting"
  BY DEF Fork, Holds, Busy, Spawns, SessionInv, TypeInv, Frames, AlwaysBorn
<1>2. PICK p \in Procs :
        /\ at[p] = At("unborn")
        /\ at' = [at EXCEPT ![p] = At("login"),
                            ![t] = [pc |-> "register", connection |-> at[t].connection]]
        /\ pty' = {p} /\ alive' = alive \cup {p}
  BY DEF Fork
<1>3. p \in Threads /\ p # t /\ p # main /\ p # opener /\ at[p].pc = "unborn"
  BY <1>1, <1>2, ThreadFacts DEF At
<1>4. at' = [u \in Threads |-> IF u = t THEN [pc |-> "register", connection |-> "connecting"]
                               ELSE IF u = p THEN [pc |-> "login"] ELSE at[u]]
  BY <1>1, <1>2, <1>3 DEF SessionInv, TypeInv, At
<1>5. /\ at'[t].pc = "register" /\ at'[t].connection = "connecting" /\ at'[p].pc = "login"
      /\ \A u \in Threads : u # t /\ u # p => at'[u] = at[u]
      /\ DOMAIN at' = Threads /\ at' = [u \in Threads |-> at'[u]]
  BY <1>3, <1>4
<1>6. UNCHANGED <<shown, canos, origin, closed, midSpawn>>
  BY DEF Fork, ghosts
<1>7. (\A u \in Threads : u # t => ~Holds(u)) /\ alive = {}
  BY <1>1, ThreadFacts DEF SessionInv, TypeInv, OneHolder, AliveHolds, Holds, Busy
<1>8. TypeInv'
  <2>1. Frames /\ Published
    BY DEF SessionInv, TypeInv
  <2>2. Published'
    BY <1>5, <2>1 DEF Published
  <2>3. \A q \in Procs : at'[q].pc \in {"unborn", "publish"} \cup AlwaysBorn
    BY <1>1, <1>5, <2>1, ThreadFacts DEF Frames, AlwaysBorn
  <2>4. \A u \in Jobs : at'[u].pc \in {"idle", "publish", "wait", "probe", "probing", "register",
                                      "close", "close_cycle", "kill"} \cup Spawns
    BY <1>3, <1>5, <2>1, ThreadFacts DEF Frames
  <2>5. /\ \A u \in {main, opener} :
              at'[u].pc \in {"idle", "retry", "publish", "register", "close", "close_cycle",
                             "kill"} \cup Spawns
        /\ at'[opener].pc # "retry"
    BY <1>3, <1>5, <2>1, ThreadFacts DEF Frames
  <2>6. \A u \in Threads :
          /\ at'[u].pc = "capture" => at'[u].fresh \in {{}, {Connecting}, {ResumedDrop}}
          /\ at'[u].pc \in {"capture", "fork"} /\ at'[u].fresh # {} => u = opener
          /\ at'[u].pc = "fork" => at'[u].connection = "connecting"
    BY <1>5, <2>1 DEF Frames
  <2>7. Frames'
    BY <2>3, <2>4, <2>5, <2>6 DEF Frames
  <2> QED
    BY <1>2, <1>5, <1>6, <1>7, <2>2, <2>7 DEF SessionInv, TypeInv
<1>9. OneHolder' /\ CycleAgrees'
  BY <1>1, <1>5, <1>6, <1>7 DEF SessionInv, OneHolder, CycleAgrees, Holds, PhaseOf, Busy, Spawns
<1>10. AliveHolds' /\ RegisterIsConnecting'
  BY <1>2, <1>3, <1>5, <1>7 DEF SessionInv, AliveHolds, RegisterIsConnecting
<1>11. GivenUpIsOver' /\ RetryIsAlone'
  BY <1>1, <1>3, <1>5, <1>6, <1>7, ThreadFacts DEF SessionInv, GivenUpIsOver, RetryIsAlone, Holds
<1>12. KeptIsFresh'
  BY <1>5 DEF KeptIsFresh
<1>13. ShownFollows' /\ ClosedLeaves'
  BY <1>1, <1>3, <1>5, <1>6 DEF SessionInv, ShownFollows, ClosedLeaves, Spawns, Spawning
<1> QED
  BY <1>8, <1>9, <1>10, <1>11, <1>12, <1>13 DEF SessionInv

LEMMA ForkFailsStep == ASSUME SessionInv, NEW t \in Threads, ForkFails(t) PROVE SessionInv'
<1>1. /\ at[t].pc = "fork" /\ Holds(t) /\ t \notin Procs /\ t \notin alive
      /\ at[t].fresh # {} => t = opener
  BY DEF ForkFails, Holds, Busy, Spawns, SessionInv, TypeInv, Frames, AlwaysBorn
<1>2. ASSUME at[t].fresh # {}, canos' = (IF origin = "first" THEN {} ELSE canos),
             at' = [at EXCEPT ![t] = Idle], UNCHANGED <<shown, pty, alive, ghosts>>
      PROVE  SessionInv'
  <2>1. Idle.pc = "idle" /\ at' = [at EXCEPT ![t] = Idle]
    BY <1>2 DEF Idle
  <2>2. /\ at'[t].pc = "idle" /\ \A u \in Threads : u # t => at'[u] = at[u]
        /\ DOMAIN at' = Threads /\ at' = [u \in Threads |-> at'[u]]
        /\ Frames' /\ Published'
    BY <1>1, <2>1, StepTypes
  <2>3. canos' \subseteq canos /\ UNCHANGED <<shown, pty, alive, origin, closed, midSpawn>>
    BY <1>2 DEF ghosts
  <2>4. t = opener /\ t # main
    BY <1>1, <1>2, ThreadFacts
  <2>5. TypeInv' /\ OneHolder' /\ CycleAgrees'
    BY <2>2, <2>3 DEF SessionInv, TypeInv, OneHolder, CycleAgrees, Holds, PhaseOf, Busy, Spawns
  <2>6. AliveHolds' /\ RegisterIsConnecting'
    BY <1>1, <2>2, <2>3, ThreadFacts DEF SessionInv, TypeInv, AliveHolds, RegisterIsConnecting
  <2>7. GivenUpIsOver' /\ RetryIsAlone' /\ KeptIsFresh'
    BY <1>1, <2>2, <2>3, <2>4, ThreadFacts DEF SessionInv, GivenUpIsOver, RetryIsAlone,
       KeptIsFresh, Holds
  <2>8. ShownFollows' /\ ClosedLeaves'
    BY <1>1, <2>2, <2>3 DEF SessionInv, ShownFollows, ClosedLeaves, Spawns, Spawning
  <2> QED
    BY <2>5, <2>6, <2>7, <2>8 DEF SessionInv
<1>3. ASSUME NEW c \in canos, NEW k \in OfAnyAge(c), NEW f \in Failures,
             Applied(t, ExitedEarly(k, f), "idle")
      PROVE  SessionInv'
  <2>1. c.state = "connecting" /\ \A d \in canos : d = c
    BY <1>1 DEF SessionInv, TypeInv, CycleAgrees, PhaseOf
  <2>2. PICK decided : decided = ExitedEarly(k, f)
    OBVIOUS
  <2>3. /\ decided.cycle \in Cycles /\ ~decided.cycle.disposed
        /\ \/ decided.do = "gave_up" /\ decided.cycle.state = "dropped" /\ c.drop # Unset
           \/ decided.do = "wait" /\ decided.cycle.state = "reconnecting" /\ c.drop # Unset
           \/ decided.do = "failed" /\ decided.cycle.state = "failed"
        /\ c.drop = Unset => decided.cycle.drop = Unset
    BY <2>1, <2>2, EarlyExitDecides
  <2>4. (\A d \in canos : d.drop = Unset) =>
          /\ decided.cycle.drop = Unset
          /\ decided.do = "failed" /\ decided.cycle.state = "failed"
    BY <2>1, <2>3
  <2> QED
    BY <1>1, <1>3, <2>2, <2>3, <2>4, AppliedStep DEF Decisions
<1>4. CASE at[t].fresh = {} /\ NotApplied(t, "idle")
  BY <1>1, <1>4, MovesOnStep DEF NotApplied
<1> QED
  BY <1>2, <1>3, <1>4 DEF ForkFails

LEMMA RegisterStep == ASSUME SessionInv, NEW t \in Threads, Register(t) PROVE SessionInv'
<1>1. /\ at[t].pc = "register" /\ t \notin Procs /\ ~Holds(t)
      /\ at[t].connection = "connecting" /\ \E p \in Procs : at[p].pc # "unborn"
  BY DEF Register, Holds, Busy, Spawns, SessionInv, TypeInv, Frames, AlwaysBorn,
     RegisterIsConnecting
<1>2. /\ at' = [at EXCEPT ![t] = Idle] /\ Idle.pc = "idle" /\ shown' = "connecting"
      /\ UNCHANGED <<canos, pty, alive, origin, closed, midSpawn>>
  BY <1>1 DEF Register, Idle, ghosts
<1>3. /\ at'[t].pc = "idle" /\ \A u \in Threads : u # t => at'[u] = at[u]
      /\ DOMAIN at' = Threads /\ at' = [u \in Threads |-> at'[u]]
      /\ Frames' /\ Published'
  BY <1>1, <1>2, StepTypes
<1>4. TypeInv' /\ OneHolder' /\ CycleAgrees'
  BY <1>2, <1>3 DEF SessionInv, TypeInv, OneHolder, CycleAgrees, Holds, PhaseOf, Busy, Spawns, Phases
<1>5. AliveHolds' /\ RegisterIsConnecting'
  BY <1>1, <1>2, <1>3, ThreadFacts DEF SessionInv, TypeInv, AliveHolds, RegisterIsConnecting
<1>6. GivenUpIsOver' /\ RetryIsAlone' /\ KeptIsFresh'
  BY <1>1, <1>2, <1>3, ThreadFacts DEF SessionInv, GivenUpIsOver, RetryIsAlone, KeptIsFresh, Holds,
     Busy, Spawns
<1>7. ShownFollows' /\ ClosedLeaves'
  BY <1>1, <1>2, <1>3 DEF SessionInv, ShownFollows, ClosedLeaves, Spawns, Spawning
<1> QED
  BY <1>4, <1>5, <1>6, <1>7 DEF SessionInv

LEMMA ReconnectStep == ASSUME SessionInv, Reconnect PROVE SessionInv'
<1>1. at[main].pc = "idle" /\ ~Holds(main)
  BY DEF Reconnect, Idle, Holds, Busy, Spawns
<1>2. /\ at' = [at EXCEPT ![main] = At("retry")] /\ At("retry").pc = "retry"
      /\ UNCHANGED <<shown, canos, pty, alive, origin, closed, midSpawn>>
  BY DEF Reconnect, At, state, ghosts
<1>3. /\ at'[main].pc = "retry" /\ \A u \in Threads : u # main => at'[u] = at[u]
      /\ DOMAIN at' = Threads /\ at' = [u \in Threads |-> at'[u]]
      /\ Frames' /\ Published'
  BY <1>2, StepTypes, ThreadFacts
<1>4. (\A t \in Threads : ~Holds(t)) /\ \A c \in canos : c.state \in {"failed", "dropped"}
  <2>1. CASE shown \in {"failed", "dropped"}
    BY <1>1, <2>1 DEF SessionInv, GivenUpIsOver
  <2>2. CASE KeptDead
    <3>1. \A p \in Procs : at[p].pc = "unborn"
      BY <2>2 DEF KeptDead, At
    <3>2. (\A t \in Threads \ Procs : t # main => at[t].pc = "idle")
          /\ \A c \in canos : c.state = "failed"
      BY <1>1, <2>2, <3>1 DEF KeptDead, SessionInv, KeptIsFresh
    <3> QED
      BY <1>1, <3>1, <3>2 DEF Holds, Busy, Spawns
  <2> QED
    BY <2>1, <2>2 DEF Reconnect
<1>5. TypeInv' /\ OneHolder' /\ CycleAgrees'
  BY <1>2, <1>3 DEF SessionInv, TypeInv, OneHolder, CycleAgrees, Holds, PhaseOf, Busy, Spawns
<1>6. AliveHolds' /\ RegisterIsConnecting'
  BY <1>2, <1>3, ThreadFacts DEF SessionInv, TypeInv, AliveHolds, RegisterIsConnecting
<1>7. GivenUpIsOver' /\ RetryIsAlone' /\ KeptIsFresh'
  BY <1>2, <1>3, <1>4, ThreadFacts DEF SessionInv, GivenUpIsOver, RetryIsAlone, KeptIsFresh, Holds,
     Busy, Spawns
<1>8. ShownFollows' /\ ClosedLeaves'
  BY <1>1, <1>2, <1>3 DEF SessionInv, ShownFollows, ClosedLeaves, Spawns, Spawning
<1> QED
  BY <1>5, <1>6, <1>7, <1>8 DEF SessionInv

\* The case of the retry.
LEMMA RetriedStep ==
  ASSUME SessionInv, at[main].pc = "retry", canos = {} => shown # "none", NEW decided,
         decided.cycle \in Cycles, ~decided.cycle.disposed, decided.do = "respawn",
         decided.cycle.state = "connecting", decided.cycle.drop = Unset,
         Applied(main, decided, "idle")
  PROVE  SessionInv'
<1>1. main \in Threads /\ main \notin Procs /\ main \notin alive
  BY ThreadFacts DEF SessionInv, TypeInv
<1>2. "idle" = (IF main \notin Procs THEN "idle"
                ELSE IF decided.cycle.state = "live" /\ decided.do = "nothing"
                     THEN "up" ELSE "gone")
  BY <1>1
<1>3. decided.do \in Decisions
  BY DEF Decisions
<1> QED
  BY <1>1, <1>2, <1>3, AppliedStep

LEMMA CanoRetryStep == ASSUME SessionInv, CanoRetry PROVE SessionInv'
<1>1. /\ at[main].pc = "retry" /\ main \in Threads /\ main \notin Procs /\ main \notin alive
      /\ \A t \in Threads : ~Holds(t)
  BY ThreadFacts DEF CanoRetry, SessionInv, RetryIsAlone, TypeInv
<1>2. ASSUME NEW c \in canos, Applied(main, Retry(c), "idle") PROVE SessionInv'
  <2>1. c \in Cycles /\ ~c.disposed /\ c.state \in {"failed", "dropped"}
    BY <1>1 DEF SessionInv, TypeInv, RetryIsAlone
  <2>2. PICK decided : decided = Retry(c)
    OBVIOUS
  <2> DEFINE again == [Connecting EXCEPT !.token = NextToken(c)]
  <2>3. again \in Cycles
    BY <2>1, CyclesClosed, Zenon
  <2>4. again.state = "connecting" /\ ~again.disposed /\ again.drop = Unset
    BY DEF Connecting
  <2>5. decided = Decided(again, "respawn")
    BY <2>1, <2>2, RetryFacts, Zenon
  <2> HIDE DEF again
  <2>6. /\ decided.cycle \in Cycles /\ ~decided.cycle.disposed /\ decided.do = "respawn"
        /\ decided.cycle.state = "connecting" /\ decided.cycle.drop = Unset
    BY <2>3, <2>4, <2>5 DEF Decided
  <2> QED
    BY <1>1, <1>2, <2>2, <2>6, RetriedStep
<1>3. ASSUME canos = {}, shown # "none", Applied(main, Decided(Connecting, "respawn"), "idle")
      PROVE  SessionInv'
  <2>1. PICK decided : decided = Decided(Connecting, "respawn")
    OBVIOUS
  <2>2. /\ decided.cycle \in Cycles /\ ~decided.cycle.disposed /\ decided.do = "respawn"
        /\ decided.cycle.state = "connecting" /\ decided.cycle.drop = Unset
    BY <2>1, ConnectingFacts DEF Decided, Connecting
  <2> QED
    BY <1>1, <1>3, <2>1, <2>2, RetriedStep
<1>4. ASSUME canos = {}, shown = "none", NotApplied(main, "idle") PROVE SessionInv'
  <2>1. /\ at' = [at EXCEPT ![main] = At("idle")] /\ At("idle").pc = "idle"
        /\ UNCHANGED <<shown, canos, pty, alive, origin, closed, midSpawn>>
    BY <1>4 DEF NotApplied, At, state, ghosts
  <2>2. /\ at'[main].pc = "idle" /\ \A u \in Threads : u # main => at'[u] = at[u]
        /\ DOMAIN at' = Threads /\ at' = [u \in Threads |-> at'[u]]
        /\ Frames' /\ Published'
    BY <2>1, StepTypes, ThreadFacts
  <2>3. TypeInv' /\ OneHolder' /\ CycleAgrees'
    BY <2>1, <2>2 DEF SessionInv, TypeInv, OneHolder, CycleAgrees, Holds, PhaseOf, Busy, Spawns
  <2>4. AliveHolds' /\ RegisterIsConnecting'
    BY <2>1, <2>2, ThreadFacts DEF SessionInv, TypeInv, AliveHolds, RegisterIsConnecting
  <2>5. GivenUpIsOver' /\ RetryIsAlone' /\ KeptIsFresh'
    BY <1>4, <2>1, <2>2, ThreadFacts DEF GivenUpIsOver, RetryIsAlone, KeptIsFresh
  <2>6. ShownFollows' /\ ClosedLeaves'
    BY <1>1, <1>4, <2>1, <2>2 DEF SessionInv, ShownFollows, ClosedLeaves, Spawning
  <2> QED
    BY <2>3, <2>4, <2>5, <2>6 DEF SessionInv
<1> QED
  BY <1>2, <1>3, <1>4 DEF CanoRetry

-----------------------------------------------------------------------------
(* Closing the session.                                                      *)

LEMMA CloseStep == ASSUME SessionInv, Close PROVE SessionInv'
<1>1. at[main].pc = "idle" /\ shown # "none"
  BY DEF Close, Idle
<1>2. /\ at' = [at EXCEPT ![main] = At("close")] /\ At("close").pc = "close"
      /\ UNCHANGED <<shown, canos, pty, alive, origin, closed, midSpawn>>
  BY DEF Close, At, state, ghosts
<1>3. /\ at'[main].pc = "close" /\ \A u \in Threads : u # main => at'[u] = at[u]
      /\ DOMAIN at' = Threads /\ at' = [u \in Threads |-> at'[u]]
      /\ Frames' /\ Published'
  BY <1>2, StepTypes, ThreadFacts
<1>4. TypeInv' /\ OneHolder' /\ CycleAgrees'
  BY <1>2, <1>3 DEF SessionInv, TypeInv, OneHolder, CycleAgrees, Holds, PhaseOf, Busy, Spawns
<1>5. AliveHolds' /\ RegisterIsConnecting'
  BY <1>2, <1>3, ThreadFacts DEF SessionInv, TypeInv, AliveHolds, RegisterIsConnecting
<1>6. GivenUpIsOver' /\ RetryIsAlone' /\ KeptIsFresh'
  BY <1>1, <1>2, <1>3, ThreadFacts DEF SessionInv, GivenUpIsOver, RetryIsAlone, KeptIsFresh, Holds,
     Busy, Spawns
<1>7. ShownFollows' /\ ClosedLeaves'
  BY <1>1, <1>2, <1>3 DEF SessionInv, ShownFollows, ClosedLeaves, Spawns, Spawning
<1> QED
  BY <1>4, <1>5, <1>6, <1>7 DEF SessionInv

LEMMA DisposeStep == ASSUME SessionInv, NEW t \in Threads, Dispose(t) PROVE SessionInv'
<1>1. PICK step \in {"close_cycle", "kill"} :
        /\ at' = [at EXCEPT ![t] = At(step)] /\ At(step).pc = step
        /\ at[t].pc \in {"close", "close_cycle"}
  BY DEF Dispose, At
<1>2. t \notin Procs /\ ~Holds(t)
  BY <1>1 DEF SessionInv, TypeInv, Frames, AlwaysBorn, Holds, Busy, Spawns
<1>3. /\ at'[t].pc = step /\ \A u \in Threads : u # t => at'[u] = at[u]
      /\ DOMAIN at' = Threads /\ at' = [u \in Threads |-> at'[u]]
      /\ Frames' /\ Published'
  BY <1>1, <1>2, StepTypes
<1>4. /\ UNCHANGED <<pty, alive, origin>> /\ canos' \subseteq canos /\ shown' \in {shown, "none"}
      /\ \/ at[t].pc = "close" /\ step = "close_cycle" /\ shown' = "none" /\ canos' = canos
         \/ /\ at[t].pc = "close_cycle" /\ step = "kill" /\ canos' = {}
            /\ UNCHANGED <<shown, closed, midSpawn>>
      /\ closed' \in BOOLEAN /\ midSpawn' \in BOOLEAN
  BY <1>1, <1>3 DEF Dispose, ghosts, At, SessionInv, TypeInv
<1>5. TypeInv' /\ OneHolder' /\ CycleAgrees'
  BY <1>1, <1>3, <1>4 DEF SessionInv, TypeInv, OneHolder, CycleAgrees, Holds, PhaseOf, Busy, Spawns
<1>6. AliveHolds' /\ RegisterIsConnecting'
  BY <1>1, <1>2, <1>3, <1>4, ThreadFacts DEF SessionInv, TypeInv, AliveHolds, RegisterIsConnecting
<1>7. GivenUpIsOver' /\ RetryIsAlone'
  BY <1>1, <1>3, <1>4, ThreadFacts DEF SessionInv, GivenUpIsOver, RetryIsAlone, Holds, Busy, Spawns
<1>8. KeptIsFresh'
  BY <1>1, <1>2, <1>3, <1>4, ThreadFacts DEF SessionInv, KeptIsFresh
<1>9. ShownFollows'
  BY <1>1, <1>3, <1>4 DEF SessionInv, ShownFollows, Spawns
<1>10. ClosedLeaves'
  <2>1. CASE at[t].pc = "close"
    <3>1. /\ shown' = "none" /\ canos' = canos /\ alive' = alive /\ at'[t].pc = "close_cycle"
          /\ midSpawn' = (midSpawn \/ \E u \in Threads : at[u].pc \in Spawning)
      BY <1>1, <1>3, <1>4, <2>1 DEF Dispose
    <3> QED
      BY <1>3, <3>1 DEF ClosedLeaves, Spawning
  <2>2. CASE at[t].pc = "close_cycle"
    <3>1. /\ canos' = {} /\ alive' = alive /\ at'[t].pc = "kill"
          /\ shown' = shown /\ closed' = closed /\ midSpawn' = midSpawn
      BY <1>3, <1>4, <2>2
    <3>2. \A u \in Threads : u # t => at'[u] = at[u]
      BY <1>3
    <3> QED
      BY <3>1, <3>2 DEF SessionInv, ClosedLeaves, Spawning
  <2> QED
    BY <1>1, <2>1, <2>2
<1> QED
  BY <1>5, <1>6, <1>7, <1>8, <1>9, <1>10 DEF SessionInv

LEMMA KillStep == ASSUME SessionInv, NEW t \in Threads, Kill(t) PROVE SessionInv'
<1>1. at[t].pc = "kill" /\ t \notin Procs /\ ~Holds(t)
  BY DEF Kill, SessionInv, TypeInv, Frames, AlwaysBorn, Holds, Busy, Spawns
<1>2. /\ at' = [at EXCEPT ![t] = Idle] /\ Idle.pc = "idle" /\ alive' = {} /\ pty' = {}
      /\ UNCHANGED <<shown, canos, origin, closed, midSpawn>>
  BY DEF Kill, Idle, ghosts, SessionInv, TypeInv
<1>3. /\ at'[t].pc = "idle" /\ \A u \in Threads : u # t => at'[u] = at[u]
      /\ DOMAIN at' = Threads /\ at' = [u \in Threads |-> at'[u]]
      /\ Frames' /\ Published'
  BY <1>1, <1>2, StepTypes
<1>4. TypeInv' /\ OneHolder' /\ CycleAgrees'
  BY <1>2, <1>3 DEF SessionInv, TypeInv, OneHolder, CycleAgrees, Holds, PhaseOf, Busy, Spawns
<1>5. AliveHolds' /\ RegisterIsConnecting'
  BY <1>1, <1>2, <1>3, ThreadFacts DEF SessionInv, AliveHolds, RegisterIsConnecting
<1>6. GivenUpIsOver' /\ RetryIsAlone' /\ KeptIsFresh'
  BY <1>1, <1>2, <1>3, ThreadFacts DEF SessionInv, GivenUpIsOver, RetryIsAlone, KeptIsFresh, Holds,
     Busy, Spawns
<1>7. ShownFollows' /\ ClosedLeaves'
  BY <1>1, <1>2, <1>3 DEF SessionInv, ShownFollows, ClosedLeaves, Spawns, Spawning
<1> QED
  BY <1>4, <1>5, <1>6, <1>7 DEF SessionInv

LEMMA StutterKeepsSession == ASSUME SessionInv, UNCHANGED vars PROVE SessionInv'
<1>1. UNCHANGED <<at, shown, canos, pty, alive, origin, closed, midSpawn>>
  BY DEF vars
<1>2. TypeInv'
  BY <1>1 DEF SessionInv, TypeInv, Frames, Published
<1>3. OneHolder' /\ CycleAgrees' /\ AliveHolds' /\ RegisterIsConnecting' /\ GivenUpIsOver'
  BY <1>1 DEF SessionInv, OneHolder, CycleAgrees, AliveHolds, RegisterIsConnecting, GivenUpIsOver,
     Holds
<1>4. RetryIsAlone' /\ KeptIsFresh' /\ ShownFollows' /\ ClosedLeaves'
  BY <1>1 DEF SessionInv, RetryIsAlone, KeptIsFresh, ShownFollows, ClosedLeaves, Holds
<1> QED
  BY <1>2, <1>3, <1>4 DEF SessionInv

-----------------------------------------------------------------------------
\* Whatever the threads of one SSH session do and in whatever order, one of them at
\* most holds the connection, and the cycle is in the phase it left it in.
THEOREM SessionInvariant == Spec => []SessionInv
<1>1. Init => SessionInv
  BY SessionInit
<1>2. SessionInv /\ [Next]_vars => SessionInv'
  <2> SUFFICES ASSUME SessionInv, [Next]_vars PROVE SessionInv'
    OBVIOUS
  <2>1. ASSUME NEW p \in Procs, MarkerSeen(p) \/ Ends(p) \/ ExitSeen(p) \/ ExitApplied(p)
        PROVE  SessionInv'
    BY <2>1, MarkerStep, EndsStep, ExitSeenStep, ExitAppliedStep
  <2>2. ASSUME NEW j \in Jobs, ProbeStarts(j) \/ ProbeAnswers(j) \/ WaitEnds(j)
        PROVE  SessionInv'
    BY <2>2, ProbeStartsStep, ProbeAnswersStep, WaitEndsStep
  <2>3. ASSUME NEW t \in Threads, \/ Publish(t) \/ HasTarget(t) \/ Capture(t) \/ Fork(t)
                                  \/ ForkFails(t) \/ Register(t) \/ Dispose(t) \/ Kill(t)
        PROVE  SessionInv'
    BY <2>3, PublishStep, HasTargetStep, CaptureStep, ForkStep, ForkFailsStep, RegisterStep,
       DisposeStep, KillStep
  <2>4. CASE Reconnect \/ CanoRetry \/ Close
    BY <2>4, ReconnectStep, CanoRetryStep, CloseStep
  <2>5. CASE UNCHANGED vars
    BY <2>5, StutterKeepsSession
  <2> QED
    BY <2>1, <2>2, <2>3, <2>4, <2>5 DEF Next
<1> QED
  BY <1>1, <1>2, PTL DEF Spec

\* One `ssh` process of the session is alive at most, however many processes, timers
\* and probes there were and however they, the exits and the owner interleave.
THEOREM OneProcess == Spec => []OneCano
<1>1. SessionInv => OneCano
  <2> SUFFICES ASSUME SessionInv PROVE OneCano
    OBVIOUS
  <2>1. \A p, q \in alive : p = q
    BY ThreadFacts DEF SessionInv, TypeInv, AliveHolds, OneHolder, Holds, Busy
  <2>2. CASE alive = {}
    BY <2>2, FS_EmptySet DEF OneCano
  <2>3. CASE alive # {}
    <3>1. PICK p \in alive : alive = {p}
      BY <2>1, <2>3
    <3> QED
      BY <3>1, FS_Singleton, Cardinality({p}) = 1 DEF OneCano
  <2> QED
    BY <2>2, <2>3
<1> QED
  BY <1>1, SessionInvariant, PTL

\* A pane closed while no respawn was past its check stays closed, and once the threads
\* are done leaves neither a process nor a cycle.
THEOREM ClosedStaysClosed == Spec => []ClosedWhileWaitingStaysClosed
<1>1. SessionInv => ClosedWhileWaitingStaysClosed
  BY DEF SessionInv, ClosedLeaves, ClosedWhileWaitingStaysClosed, Settled, Quiet
<1> QED
  BY <1>1, SessionInvariant, PTL

\* What is shown as live is live, in any session that boot did not bring back by itself.
THEOREM ShownLiveIsLive == Spec => []LiveIsTrue
<1>1. SessionInv => LiveIsTrue
  BY DEF SessionInv, ShownFollows, LiveIsTrue, Settled, Quiet
<1> QED
  BY <1>1, SessionInvariant, PTL
=============================================================================
