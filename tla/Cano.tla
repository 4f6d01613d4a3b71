--------------------------------- MODULE Cano ---------------------------------
(***************************************************************************)
(* The connection of one SSH session over time: its `CanoLifecycle`, the    *)
(* local `ssh` process it speaks of, and the jobs `conduct` starts for it   *)
(* (src-tauri/src/session/cano.rs) - a probe in a thread of its own, a wait *)
(* in another. Each event is carried out to the end before the next; what   *)
(* happens when they overlap is CanoSession.                                *)
(***************************************************************************)
EXTENDS CanoLifecycle

VARIABLES
  cycle,    \* the session's CanoLifecycle
  ssh,      \* the process: being spawned, not logged in yet, logged in
  jobs,     \* waits and probes in course
  upFor,    \* history: how long the process has been logged in, or Unset
  downFor,  \* history: how long since a connection that lasted was lost
  retried   \* history: the phase the owner retried from, "no" after a login

history == <<upFor, downFor, retried>>
vars    == <<cycle, ssh, jobs, history>>

Tokens == 0..(TokenSpace - 1)
Jobs   == [kind : {"wait"}, token : Tokens, left : Nat]
            \cup [kind : {"probe"}, token : Tokens]

Init ==
  /\ \/ cycle = Connecting /\ downFor = Unset
     \/ cycle = ResumedDrop /\ downFor = 0
  /\ ssh = "login" /\ jobs = {} /\ upFor = Unset /\ retried = "no"

\* `conduct`: starts what the machine decided; `before` is the cycle it decided
\* on, which names the wait.
Conduct(decided, before, others) ==
  /\ cycle' = decided.cycle
  /\ jobs' = others \cup
       CASE decided.do = "wait"  -> {[kind |-> "wait", token |-> decided.cycle.token,
                                     left |-> Delay(before)]}
         [] decided.do = "probe" -> {[kind |-> "probe", token |-> decided.cycle.token]}
         [] OTHER -> {}

\* The process is spawned; or it is not, which counts as an exit before login.
Spawned ==
  /\ ssh = "spawning" /\ ssh' = "login"
  /\ UNCHANGED <<cycle, jobs, history>>

SpawnFails ==
  /\ ssh = "spawning" /\ ssh' = "none"
  /\ \E failure \in Failures : Conduct(ExitedEarly(cycle, failure), cycle, jobs)
  /\ UNCHANGED history

MarkerSeen ==
  /\ ssh = "login" /\ ssh' = "up"
  /\ cycle' = LoggedIn(cycle)
  /\ upFor' = 0 /\ retried' = "no"
  /\ UNCHANGED <<jobs, downFor>>

ExitBeforeLogin ==
  /\ ssh = "login" /\ ssh' = "none"
  /\ \E failure \in Failures : Conduct(ExitedEarly(cycle, failure), cycle, jobs)
  /\ UNCHANGED history

ExitAfterLogin ==
  /\ ssh = "up" /\ ssh' = "none"
  /\ Conduct(ExitedLoggedIn(cycle), cycle, jobs)
  /\ upFor' = Unset
  /\ downFor' = IF downFor = Unset \/ upFor >= StableLive THEN 0 ELSE downFor
  /\ UNCHANGED retried

ProbeAnswers(j) ==
  /\ j.kind = "probe"
  /\ \E verdict \in Verdicts :
       Conduct(Probed(cycle, j.token, verdict), cycle, jobs \ {j})
  /\ UNCHANGED <<ssh, history>>

\* The wait is over. The thread may be late; it is never early.
WaitEnds(j) ==
  LET decided == TimerFired(cycle, j.token)
  IN /\ j.kind = "wait" /\ j.left = 0
     /\ Conduct(decided, cycle, jobs \ {j})
     /\ ssh' = IF decided.do = "respawn" THEN "spawning" ELSE ssh
     /\ UNCHANGED history

\* `reconnect_ssh`
OwnerRetries ==
  LET decided == Retry(cycle)
  IN /\ decided.do = "respawn"
     /\ Conduct(decided, cycle, jobs)
     /\ ssh' = "spawning"
     /\ downFor' = Unset /\ retried' = cycle.state
     /\ UNCHANGED upFor

Tick ==
  /\ cycle' = Aged(cycle)
  /\ jobs' = {IF j.kind = "wait" /\ j.left > 0 THEN [j EXCEPT !.left = j.left - 1]
              ELSE j : j \in jobs}
  /\ upFor' = Older(upFor) /\ downFor' = Older(downFor)
  /\ UNCHANGED <<ssh, retried>>

Next ==
  \/ Spawned \/ SpawnFails \/ MarkerSeen \/ ExitBeforeLogin \/ ExitAfterLogin
  \/ \E j \in jobs : ProbeAnswers(j) \/ WaitEnds(j)
  \/ OwnerRetries \/ Tick

Spec == Init /\ [][Next]_vars

\* Time passes, a wait ends, a probe answers (it has a deadline of its own) and
\* a spawn returns. Neither the process nor the owner is obliged to anything.
Fairness ==
  /\ WF_vars(Tick)
  /\ WF_vars(\E j \in jobs : ProbeAnswers(j))
  /\ WF_vars(\E j \in jobs : WaitEnds(j))
  /\ WF_vars(Spawned \/ SpawnFails)

FairSpec == Spec /\ Fairness

-----------------------------------------------------------------------------
\* Type invariant: the machine's fields and the jobs in course.
TypeOK ==
  /\ cycle \in Cycles
  /\ ssh \in {"none", "spawning", "login", "up"}
  /\ jobs \subseteq Jobs
  /\ upFor \in Ages \cup {Unset} /\ downFor \in Ages \cup {Unset}
  /\ retried \in {"no", "failed", "dropped"}

\* No process: one wait or probe is under way, and it bears the current token.
WaitingFor(kind) ==
  /\ ssh = "none"
  /\ \E j \in jobs : jobs = {j} /\ j.kind = kind /\ j.token = cycle.token

\* Somebody drives: in every phase that is not the owner's turn there is exactly
\* one thing whose end moves the session on - a process, a probe or a wait - and
\* the machine will accept its token. Without it the pane says "connecting" or
\* "reconnecting" for ever; with two of them there are two `ssh` for one pane.
SomebodyDrives ==
  /\ cycle.disposed \/ cycle.state \in {"failed", "dropped"} => ssh = "none" /\ jobs = {}
  /\ ~cycle.disposed =>
       /\ cycle.state = "connecting"   => ssh \in {"spawning", "login"} /\ jobs = {}
       /\ cycle.state = "reconnecting" => WaitingFor("wait")
       /\ cycle.state = "live"         => (ssh = "up" /\ jobs = {}) \/ WaitingFor("probe")

\* Insistence ends: no attempt begins on its own later than the deadline after
\* the loss of the last connection that lasted, however many short logins came
\* between (rule 16; docs-site/en/ssh/persistence.mdx:66).
InsistsWithinDeadline ==
  [][ssh # "spawning" /\ ssh' = "spawning" /\ downFor' # Unset
       => downFor < ReconnectDeadline]_vars

\* The sum of the first n waits of a drop.
WaitSum[n \in Nat] ==
  IF n = 0 THEN 0
  ELSE WaitSum[n - 1] + BackoffSecs[IF n < Len(BackoffSecs) THEN n ELSE Len(BackoffSecs)]

\* Attempts are paced: the n-th wait of a drop never ends before the first n
\* waits of the table have passed since the drop began - a login that does not
\* last does not start the table anew.
AttemptsArePaced ==
  cycle.drop # Unset /\ cycle.drop < MaxAge =>
    \A j \in jobs : j.kind = "wait" => WaitSum[cycle.attempt] - j.left <= cycle.drop

\* A failure is on show exactly while the session waits for its owner because of
\* one: a later login, retry or disposal never leaves the reason behind.
FailureIsShown == (cycle.failure # "none") <=> (cycle.state = "failed")

\* The detailed machine keeps the promise of Reconnection.
Phase == IF cycle.disposed THEN "disposed" ELSE cycle.state
Promise == INSTANCE Reconnection WITH
  Deadline <- ReconnectDeadline, phase <- Phase, drop <- cycle.drop
KeepsPromise == Promise!Spec

\* A drop comes to an end: unless an attempt hangs for ever before its login,
\* insisting ends in a connection that lasts, in giving up, in a failure only
\* the owner can mend or in the end of the session - flapping included.
DropComesToAnEnd ==
  []<>(ssh # "login") =>
    ((downFor # Unset) ~>
       \/ upFor # Unset /\ upFor >= StableLive
       \/ cycle.state \in {"dropped", "failed"}
       \/ cycle.disposed)
=============================================================================
