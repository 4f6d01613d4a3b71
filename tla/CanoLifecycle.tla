---------------------------- MODULE CanoLifecycle ----------------------------
(***************************************************************************)
(* `CanoLifecycle` (src-tauri/src/session/cano.rs): the phase machine of    *)
(* the local `ssh` process that reaches an SSH session. The machine is      *)
(* pure, so it has no variables here: an event is an operator that takes a  *)
(* cycle and returns the next one with the decision the driver must carry   *)
(* out. `drop_started` and `live_since` are instants in the code, compared  *)
(* only with the present: here they are the seconds that have passed since, *)
(* or Unset.                                                                *)
(***************************************************************************)
EXTENDS Integers, Sequences

CONSTANTS
  ReconnectDeadline,  \* RECONNECT_DEADLINE: a drop is given up after this
  StableLive,         \* STABLE_LIVE: a login this old ends the drop
  BackoffSecs,        \* BACKOFF_SECS: the waits of a drop, the last repeats
  TokenSpace          \* bound: tokens before they wrap around (2^64 in the code)

ASSUME LifecycleAssumption ==
  /\ ReconnectDeadline \in Nat \ {0} /\ StableLive \in Nat \ {0}
  /\ BackoffSecs \in Seq(Nat \ {0}) /\ Len(BackoffSecs) > 0
  /\ TokenSpace \in Nat /\ TokenSpace > 1

Unset == -1

Phases   == {"connecting", "live", "reconnecting", "dropped", "failed"}
\* What `classify` makes of the output before the login: only a missing network
\* is worth insisting on.
Failures == {"network", "refused"}
Verdicts == {"alive", "gone", "no_tmux", "unknown"}

\* Ages beyond the longest one the machine compares with are not told apart.
MaxAge == IF ReconnectDeadline > StableLive THEN ReconnectDeadline ELSE StableLive
Ages   == 0..MaxAge

Cycles == [state : Phases, failure : Failures \cup {"none"}, token : 0..(TokenSpace - 1),
           drop : Ages \cup {Unset}, attempt : Nat, live : Ages \cup {Unset},
           disposed : BOOLEAN]

Connecting == [state |-> "connecting", failure |-> "none", token |-> 0,
               drop |-> Unset, attempt |-> 0, live |-> Unset, disposed |-> FALSE]

\* Session that was logged in when the application closed: a drop that starts
\* at boot.
ResumedDrop == [Connecting EXCEPT !.drop = 0]

\* A second passes.
Older(age)  == IF age = Unset \/ age = MaxAge THEN age ELSE age + 1
Aged(c)     == [c EXCEPT !.drop = Older(c.drop), !.live = Older(c.live)]

NextToken(c) == (c.token + 1) % TokenSpace

Decided(c, do) == [cycle |-> c, do |-> do]

TransitionTable ==
  {<<"connecting", "live">>, <<"connecting", "failed">>,
   <<"connecting", "reconnecting">>, <<"connecting", "dropped">>,
   <<"live", "reconnecting">>, <<"reconnecting", "connecting">>,
   <<"reconnecting", "dropped">>, <<"failed", "connecting">>,
   <<"dropped", "connecting">>}

\* `go`: the only write of the phase.
CanGo(c, to) ==
  /\ ~c.disposed
  /\ c.state = to \/ <<c.state, to>> \in TransitionTable

Go(c, to) == IF CanGo(c, to) THEN [c EXCEPT !.state = to] ELSE c

DeadlinePassed(c) == c.drop # Unset /\ c.drop >= ReconnectDeadline

\* Mutant: the first wait is taken twice.
DelayOffByOne(c) == BackoffSecs[IF c.attempt = 0 THEN 1
                                ELSE IF c.attempt < Len(BackoffSecs) THEN c.attempt
                                ELSE Len(BackoffSecs)]

\* The wait before the next attempt, by the waits the drop has already had.
Delay(c) == BackoffSecs[IF c.attempt < Len(BackoffSecs) THEN c.attempt + 1
                        ELSE Len(BackoffSecs)]

\* Mutant: the waits are counted down.
ScheduleCountingDown(c) ==
  Decided([Go(c, "reconnecting") EXCEPT !.attempt = c.attempt - 1,
                                        !.token = NextToken(c)], "wait")

\* Mutant: a live session is given up directly, which the table refuses.
ScheduleGivesUpLive(c) ==
  IF DeadlinePassed(c) THEN Decided(Go(c, "dropped"), "gave_up")
  ELSE Decided([Go(c, "reconnecting") EXCEPT !.attempt = c.attempt + 1,
                                             !.token = NextToken(c)], "wait")

\* `schedule`: the next wait of a drop, or the end of it.
Schedule(c) ==
  IF c.state = "connecting" /\ DeadlinePassed(c)
  THEN Decided(Go(c, "dropped"), "gave_up")
  ELSE Decided([Go(c, "reconnecting") EXCEPT !.attempt = c.attempt + 1,
                                           !.token = NextToken(c)],
               "wait")

\* `logged_in`: the marker came.
LoggedIn(c) ==
  IF CanGo(c, "live") THEN [Go(c, "live") EXCEPT !.live = 0, !.failure = "none"]
  ELSE c

\* `retryable_in_drop`
RetryableInDrop(failure) == failure = "network"

\* Mutant: the first connection is insisted on like a drop.
ExitedEarlyInsisting(c, failure) ==
  IF c.state = "connecting" /\ RetryableInDrop(failure)
  THEN Schedule([c EXCEPT !.live = Unset])
  ELSE Decided([Go(c, "failed") EXCEPT !.failure = failure], "failed")

\* `exited` before the marker, with the reason of the failure.
ExitedEarly(c, failure) ==
  LET k == [c EXCEPT !.live = Unset]
  IN IF c.state # "connecting" THEN Decided(k, "nothing")
     ELSE IF c.drop # Unset /\ RetryableInDrop(failure) THEN Schedule(k)
     ELSE Decided([Go(k, "failed") EXCEPT !.failure = failure], "failed")

\* A login that did not last belongs to the drop it interrupted.
DropBegins(c) == c.drop = Unset \/ c.live >= StableLive

\* `exited` after the marker: the host is asked what became of the session.
ExitedLoggedIn(c) ==
  LET k == [c EXCEPT !.live = Unset]
      d == IF DropBegins(c) THEN [k EXCEPT !.drop = 0, !.attempt = 0] ELSE k
  IN IF c.state # "live" THEN Decided(k, "nothing")
     ELSE Decided([d EXCEPT !.token = NextToken(c)], "probe")

ShouldReattach(verdict) == verdict \in {"alive", "unknown"}

\* `probed`: the answer of the host, if it is still the one asked for.
Probed(c, token, verdict) ==
  IF token # c.token \/ c.state # "live" \/ c.disposed THEN Decided(c, "nothing")
  ELSE IF ShouldReattach(verdict) THEN Schedule(c)
  ELSE Decided([c EXCEPT !.disposed = TRUE], "dispose")

\* Mutant: the deadline is not looked at when the wait ends.
TimerFiredRegardless(c, token) ==
  IF token # c.token \/ c.state # "reconnecting" THEN Decided(c, "nothing")
  ELSE Decided(Go(c, "connecting"), "respawn")

\* `timer_fired`: the end of a wait.
TimerFired(c, token) ==
  IF token # c.token \/ c.state # "reconnecting" THEN Decided(c, "nothing")
  ELSE IF DeadlinePassed(c) THEN Decided(Go(c, "dropped"), "gave_up")
  ELSE IF CanGo(c, "connecting") THEN Decided(Go(c, "connecting"), "respawn")
  ELSE Decided(c, "nothing")

\* Mutant: the reason of the last failure survives the retry.
RetryKeepsFailure(c) ==
  IF c.state \notin {"failed", "dropped"} THEN Decided(c, "nothing")
  ELSE Decided([Connecting EXCEPT !.token = NextToken(c), !.failure = c.failure],
               "respawn")

\* `retry`, asked for by the owner: a first connection again, outside any drop.
Retry(c) ==
  IF c.state \notin {"failed", "dropped"} \/ ~CanGo(c, "connecting")
  THEN Decided(c, "nothing")
  ELSE Decided([Connecting EXCEPT !.token = NextToken(c)], "respawn")
=============================================================================
