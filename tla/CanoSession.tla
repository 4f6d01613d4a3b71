----------------------------- MODULE CanoSession -----------------------------
(***************************************************************************)
(* One SSH session as the threads of the application share it: the map of   *)
(* sessions and the map of cycles of `SessionManager` (session/mod.rs), two *)
(* locks never held together, the PTY pool, and the threads that run        *)
(* `conduct` (session/cano.rs) - the main thread (commands), the thread     *)
(* that opens the session (create_session, or boot), one per wait or probe, *)
(* and the PTY threads of each `ssh`, which report its login and its exit.  *)
(* Time is left to Cano: here a wait may end, and an age be, at any moment. *)
(***************************************************************************)
EXTENDS CanoLifecycle, FiniteSets

CONSTANTS
  main, opener,  \* the main thread; the thread that opens or resumes
  Procs,         \* `ssh` processes, each with its PTY threads; bound on spawns
  Jobs,          \* threads of `background` and `after`
  Origins,       \* how the session came about: "first", "boot", "kept"
  SpawnMayFail   \* whether spawning a PTY can fail

ASSUME ThreadsAssumption ==
  /\ main # opener /\ main \notin Procs \cup Jobs /\ opener \notin Procs \cup Jobs
  /\ Procs \cap Jobs = {}
  /\ SpawnMayFail \in BOOLEAN

Threads == {main, opener} \cup Procs \cup Jobs

VARIABLES
  at,       \* where each thread is
  shown,    \* SessionManager.sessions: the connection shown, "none" if no session
  canos,    \* SessionManager.canos: the cycle of the session, or nothing
  pty,      \* PtyPool: the process the session's PTY belongs to, or nothing
  alive,    \* processes that have not ended
  origin,   \* how the session came about
  closed,   \* history: the session was closed
  midSpawn  \* history: it was closed when a respawn was past its check

vars == <<at, shown, canos, pty, alive, origin, closed, midSpawn>>
state == <<shown, canos, pty, alive>>
ghosts == <<origin, closed, midSpawn>>

Idle == [pc |-> "idle"]
At(step) == [pc |-> step]
Spawning == {"capture", "fork", "register"}

\* A cycle as another thread may find it: of any age.
AnyAge(age)        == IF age = Unset THEN {Unset} ELSE {0, MaxAge}
WithAges(c, d, l)  == [c EXCEPT !.drop = d, !.live = l]
OfAnyAge(c)        == {WithAges(c, d, l) : d \in AnyAge(c.drop), l \in AnyAge(c.live)}

\* Ages are chosen when they are looked at, and the length of a wait is not looked
\* at here: both are kept out of the state.
Timeless(c) == [c EXCEPT !.drop = IF c.drop = Unset THEN Unset ELSE 0,
                         !.live = IF c.live = Unset THEN Unset ELSE 0,
                         !.attempt = 0]

Init ==
  /\ origin \in Origins
  /\ shown = IF origin = "first" THEN "none" ELSE "live"
  /\ canos = {} /\ pty = {} /\ alive = {}
  /\ at = [t \in Threads |->
             CASE t = opener /\ origin = "first" ->
                    [pc |-> "capture", fresh |-> {Connecting}]
               [] t = opener /\ origin = "boot" ->
                    [pc |-> "capture", fresh |-> {ResumedDrop}]
               [] t \in Procs -> At("unborn")
               [] OTHER -> Idle]
  /\ closed = FALSE /\ midSpawn = FALSE

-----------------------------------------------------------------------------
(* `apply_cano`: an event under the lock of the cycles; the session is      *)
(* written after it was given back.                                         *)

\* Thread t runs an event that decided `decided`; `next` is where it goes on
\* once the decision is conducted.
Applied(t, decided, next) ==
  /\ canos' = IF decided.do = "dispose" THEN {} ELSE {Timeless(decided.cycle)}
  /\ at' = [at EXCEPT ![t] = [pc |-> "publish", connection |-> decided.cycle.state,
                              do |-> decided.do, token |-> decided.cycle.token,
                              next |-> next]]
  /\ UNCHANGED <<shown, pty, alive, ghosts>>

\* No cycle: the event decides nothing.
NotApplied(t, next) ==
  /\ canos = {}
  /\ at' = [at EXCEPT ![t] = At(next)]
  /\ UNCHANGED <<state, ghosts>>

\* The second half, and then `conduct`.
Publish(t) ==
  LET f == at[t]
  IN /\ f.pc = "publish"
     /\ shown' = IF shown = "none" THEN shown ELSE f.connection
     /\ CASE f.do \in {"wait", "probe"} ->
               \E j \in Jobs :
                 /\ at[j] = Idle /\ j # t
                 /\ at' = [at EXCEPT ![t] = At(f.next),
                                     ![j] = [pc |-> f.do, token |-> f.token]]
          [] f.do = "respawn" -> at' = [at EXCEPT ![t] = At("target")]
          [] f.do = "dispose" -> at' = [at EXCEPT ![t] = At("close")]
          [] OTHER -> at' = [at EXCEPT ![t] = At(f.next)]
     /\ UNCHANGED <<canos, pty, alive, ghosts>>

-----------------------------------------------------------------------------
(* The PTY threads of a process.                                            *)

MarkerSeen(p) ==
  /\ at[p] = At("login") /\ p \in alive
  /\ \/ \E c \in canos : Applied(p, Decided(LoggedIn(c), "nothing"), "up")
     \/ NotApplied(p, "up")

\* The process ends, on its own or killed.
Ends(p) ==
  /\ p \in alive /\ alive' = alive \ {p}
  /\ UNCHANGED <<at, shown, canos, pty, ghosts>>

\* `cano_exited`: the exit of a session that is not there is ignored.
ExitSeen(p) ==
  /\ at[p].pc \in {"login", "up"} /\ p \notin alive
  /\ at' = [at EXCEPT ![p] = IF shown = "none" THEN At("gone")
                             ELSE At(IF at[p].pc = "up" THEN "ended" ELSE "failed")]
  /\ UNCHANGED <<state, ghosts>>

ExitApplied(p) ==
  /\ at[p].pc \in {"ended", "failed"}
  /\ \/ \E c \in canos : \E k \in OfAnyAge(c) :
          \/ at[p].pc = "ended" /\ Applied(p, ExitedLoggedIn(k), "gone")
          \/ /\ at[p].pc = "failed"
             /\ \E f \in Failures : Applied(p, ExitedEarly(k, f), "gone")
     \/ NotApplied(p, "gone")

-----------------------------------------------------------------------------
(* The threads of waits and probes.                                         *)

\* The probe asks for the target first.
ProbeStarts(j) ==
  /\ at[j].pc = "probe"
  /\ at' = [at EXCEPT ![j] = IF shown = "none" THEN Idle
                             ELSE [pc |-> "probing", token |-> at[j].token]]
  /\ UNCHANGED <<state, ghosts>>

ProbeAnswers(j) ==
  /\ at[j].pc = "probing"
  /\ \/ \E c \in canos : \E k \in OfAnyAge(c), v \in Verdicts :
          Applied(j, Probed(k, at[j].token, v), "idle")
     \/ NotApplied(j, "idle")

WaitEnds(j) ==
  /\ at[j].pc = "wait"
  /\ \/ \E c \in canos : \E k \in OfAnyAge(c) :
          Applied(j, TimerFired(k, at[j].token), "idle")
     \/ NotApplied(j, "idle")

-----------------------------------------------------------------------------
(* `conduct` on Respawn, and `spawn_ssh`.                                   *)

HasTarget(t) ==
  /\ at[t].pc = "target"
  /\ at' = [at EXCEPT ![t] = IF shown = "none" THEN Idle
                             ELSE [pc |-> "capture", fresh |-> {}]]
  /\ UNCHANGED <<state, ghosts>>

\* The cycle is installed, or inherited, or made up; its phase is noted.
Capture(t) ==
  /\ at[t].pc = "capture"
  /\ canos' = IF at[t].fresh # {} THEN at[t].fresh
              ELSE IF canos # {} THEN canos ELSE {Connecting}
  /\ \E c \in canos' :
       at' = [at EXCEPT ![t] = [pc |-> "fork", connection |-> c.state,
                                fresh |-> at[t].fresh]]
  /\ UNCHANGED <<shown, pty, alive, ghosts>>

\* The PTY is spawned: its threads run from here on.
Fork(t) ==
  /\ at[t].pc = "fork"
  /\ \E p \in Procs :
       /\ at[p] = At("unborn")
       /\ at' = [at EXCEPT ![p] = At("login"),
                           ![t] = [pc |-> "register",
                                   connection |-> at[t].connection]]
       /\ pty' = {p} /\ alive' = alive \cup {p}
  /\ UNCHANGED <<shown, canos, ghosts>>

\* Mutant: a spawn that fails half-way leaves its process running.
ForkFailsHalfway(t) ==
  /\ SpawnMayFail
  /\ at[t].pc = "fork" /\ at[t].fresh = {}
  /\ \E p \in Procs, c \in canos : \E k \in OfAnyAge(c) :
       /\ at[p] = At("unborn")
       /\ alive' = alive \cup {p}
       /\ canos' = {Timeless(ExitedEarly(k, "network").cycle)}
       /\ at' = [at EXCEPT ![t] = [pc |-> "publish", next |-> "idle",
                                   connection |-> ExitedEarly(k, "network").cycle.state,
                                   do |-> ExitedEarly(k, "network").do,
                                   token |-> ExitedEarly(k, "network").cycle.token]]
  /\ UNCHANGED <<shown, pty, ghosts>>

\* It is not: an exit before login for `conduct`, an error for who opens, which
\* only `create_ssh_session` clears up after.
ForkFails(t) ==
  /\ SpawnMayFail
  /\ at[t].pc = "fork"
  /\ \/ /\ at[t].fresh # {}
        /\ canos' = IF origin = "first" THEN {} ELSE canos
        /\ at' = [at EXCEPT ![t] = Idle]
        /\ UNCHANGED <<shown, pty, alive, ghosts>>
     \/ /\ at[t].fresh = {}
        /\ \E c \in canos : \E k \in OfAnyAge(c), f \in Failures :
             Applied(t, ExitedEarly(k, f), "idle")
     \/ at[t].fresh = {} /\ NotApplied(t, "idle")

\* Mutant: the session is registered as a local one is.
RegisterAsLive(t) ==
  /\ at[t].pc = "register"
  /\ shown' = "live"
  /\ at' = [at EXCEPT ![t] = Idle]
  /\ UNCHANGED <<canos, pty, alive, ghosts>>

\* `register_spawned`: the session is written as it was noted.
Register(t) ==
  /\ at[t].pc = "register"
  /\ shown' = at[t].connection
  /\ at' = [at EXCEPT ![t] = Idle]
  /\ UNCHANGED <<canos, pty, alive, ghosts>>

-----------------------------------------------------------------------------
(* The commands of the owner, on the main thread.                           *)

\* The button is on a pane whose connection failed or was given up; a session
\* that boot kept without a process can be brought back as well.
KeptDead == origin = "kept" /\ shown # "none" /\ \A p \in Procs : at[p] = At("unborn")

Reconnect ==
  /\ at[main] = Idle
  /\ shown \in {"failed", "dropped"} \/ KeptDead
  /\ at' = [at EXCEPT ![main] = At("retry")]
  /\ UNCHANGED <<state, ghosts>>

\* `cano_retry`: the cycle's own retry, or a new cycle for a session without.
CanoRetry ==
  /\ at[main].pc = "retry"
  /\ \/ \E c \in canos : Applied(main, Retry(c), "idle")
     \/ /\ canos = {}
        /\ IF shown = "none" THEN NotApplied(main, "idle")
           ELSE Applied(main, Decided(Connecting, "respawn"), "idle")

\* `dispose_session`
Close ==
  /\ at[main] = Idle /\ shown # "none"
  /\ at' = [at EXCEPT ![main] = At("close")]
  /\ UNCHANGED <<state, ghosts>>

\* Mutant: the cycle goes before the session.
DisposeCycleFirst(t) ==
  \/ /\ at[t].pc = "close"
     /\ canos' = {} /\ closed' = TRUE
     /\ midSpawn' = (midSpawn \/ \E u \in Threads : at[u].pc \in Spawning)
     /\ at' = [at EXCEPT ![t] = At("close_cycle")]
     /\ UNCHANGED <<shown, pty, alive, origin>>
  \/ /\ at[t].pc = "close_cycle"
     /\ shown' = "none"
     /\ at' = [at EXCEPT ![t] = At("kill")]
     /\ UNCHANGED <<canos, pty, alive, ghosts>>

\* `dispose`: the session, then its cycle, then its PTY.
Dispose(t) ==
  \/ /\ at[t].pc = "close"
     /\ shown' = "none" /\ closed' = TRUE
     /\ midSpawn' = (midSpawn \/ \E u \in Threads : at[u].pc \in Spawning)
     /\ at' = [at EXCEPT ![t] = At("close_cycle")]
     /\ UNCHANGED <<canos, pty, alive, origin>>
  \/ /\ at[t].pc = "close_cycle"
     /\ canos' = {}
     /\ at' = [at EXCEPT ![t] = At("kill")]
     /\ UNCHANGED <<shown, pty, alive, ghosts>>

Kill(t) ==
  /\ at[t].pc = "kill"
  /\ alive' = alive \ pty /\ pty' = {}
  /\ at' = [at EXCEPT ![t] = Idle]
  /\ UNCHANGED <<shown, canos, ghosts>>

-----------------------------------------------------------------------------
Next ==
  \/ \E p \in Procs : MarkerSeen(p) \/ Ends(p) \/ ExitSeen(p) \/ ExitApplied(p)
  \/ \E j \in Jobs : ProbeStarts(j) \/ ProbeAnswers(j) \/ WaitEnds(j)
  \/ \E t \in Threads : \/ Publish(t) \/ HasTarget(t) \/ Capture(t)
                        \/ Fork(t) \/ ForkFails(t) \/ Register(t)
                        \/ Dispose(t) \/ Kill(t)
  \/ Reconnect \/ CanoRetry \/ Close

Spec == Init /\ [][Next]_vars

-----------------------------------------------------------------------------
\* Nothing is on its way: only processes, waits and probes are left.
Quiet == \A t \in Threads : at[t].pc \in {"idle", "unborn", "gone", "login", "up",
                                         "wait", "probing"}
Settled == Quiet /\ \A p \in Procs : at[p].pc \in {"login", "up"} => p \in alive

\* One session, one `ssh`: a respawn never starts a second process while another
\* of the same session is alive, although timers, probes, exits and the owner
\* all decide respawns and the PTY pool keeps only the last.
OneCano == Cardinality(alive) <= 1

\* A pane closed while the session waits or is probed stays closed: `dispose`
\* hides the session before it lets go of the cycle, and a respawn asks for the
\* session after the cycle (conduct's comment, cano.rs:340).
\* Once nothing is on its way, neither a process nor a cycle of it is left.
ClosedWhileWaitingStaysClosed ==
  closed /\ ~midSpawn => shown = "none" /\ (Settled => alive = {} /\ canos = {})

\* A pane the owner opened or brought back is shown as connected only when it is:
\* whatever order the threads write the session in, `live` on show is `live` in
\* the cycle. (The session of a boot keeps the status it was stored with until
\* its first process is registered.)
LiveIsTrue ==
  Settled /\ shown = "live" /\ origin # "boot" => \A c \in canos : c.state = "live"
=============================================================================
