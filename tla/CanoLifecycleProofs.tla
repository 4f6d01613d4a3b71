-------------------------- MODULE CanoLifecycleProofs --------------------------
(* Lemmas about the operators of CanoLifecycle, for any table of waits, deadline *)
(* and token space: what each event makes of a cycle that accepts it.            *)
EXTENDS CanoLifecycle, TLAPS

-----------------------------------------------------------------------------
LEMMA AgeFacts ==
  /\ MaxAge \in Nat /\ Unset \notin Ages /\ 0 \in Ages
  /\ \A a \in Ages \cup {Unset} :
       /\ Older(a) \in Ages \cup {Unset}
       /\ Older(a) = Unset <=> a = Unset
       /\ Older(a) \in {a, a + 1}
BY LifecycleAssumption DEF MaxAge, Ages, Unset, Older

LEMMA TokenFacts == \A c \in Cycles : NextToken(c) \in 0..(TokenSpace - 1)
<1> SUFFICES ASSUME NEW c \in Cycles PROVE NextToken(c) \in 0..(TokenSpace - 1)
  OBVIOUS
<1>1. c.token \in Nat /\ TokenSpace \in Nat /\ TokenSpace > 0
  BY LifecycleAssumption DEF Cycles
<1> QED
  BY <1>1 DEF NextToken

LEMMA DelayFacts == \A c \in Cycles : Delay(c) \in Nat
<1> SUFFICES ASSUME NEW c \in Cycles PROVE Delay(c) \in Nat
  OBVIOUS
<1>1. c.attempt \in Nat
  BY DEF Cycles
<1>2. \A i \in 1..Len(BackoffSecs) : BackoffSecs[i] \in Nat
  BY LifecycleAssumption
<1>3. Len(BackoffSecs) \in Nat /\ Len(BackoffSecs) > 0
  BY LifecycleAssumption
<1> QED
  BY <1>1, <1>2, <1>3 DEF Delay

LEMMA ConnectingFacts == Connecting \in Cycles /\ ResumedDrop \in Cycles
<1>1. Connecting \in Cycles
  BY AgeFacts, LifecycleAssumption DEF Connecting, Cycles, Phases
<1> QED
  BY <1>1, AgeFacts DEF ResumedDrop, Cycles

\* The changes the events are made of keep a cycle in its type.
LEMMA CyclesClosed ==
  ASSUME NEW c \in Cycles
  PROVE  /\ \A p \in Phases : [c EXCEPT !.state = p] \in Cycles
         /\ [c EXCEPT !.live = Unset] \in Cycles
         /\ [c EXCEPT !.live = Unset, !.state = "dropped"] \in Cycles
         /\ \A f \in Failures :
              [c EXCEPT !.live = Unset, !.state = "failed", !.failure = f] \in Cycles
         /\ [c EXCEPT !.state = "reconnecting", !.attempt = c.attempt + 1,
                      !.token = NextToken(c)] \in Cycles
         /\ [c EXCEPT !.live = Unset, !.state = "reconnecting",
                      !.attempt = c.attempt + 1, !.token = NextToken(c)] \in Cycles
         /\ [c EXCEPT !.live = Unset, !.drop = 0, !.attempt = 0,
                      !.token = NextToken(c)] \in Cycles
         /\ [c EXCEPT !.live = Unset, !.token = NextToken(c)] \in Cycles
         /\ [c EXCEPT !.disposed = TRUE] \in Cycles
         /\ [c EXCEPT !.state = "live", !.live = 0, !.failure = "none"] \in Cycles
         /\ [Connecting EXCEPT !.token = NextToken(c)] \in Cycles
         /\ Aged(c) \in Cycles
<1>1. /\ NextToken(c) \in 0..(TokenSpace - 1)
      /\ Older(c.drop) \in Ages \cup {Unset} /\ Older(c.live) \in Ages \cup {Unset}
  BY TokenFacts, AgeFacts DEF Cycles
<1>2. c.attempt + 1 \in Nat /\ 0 \in Ages
  BY AgeFacts DEF Cycles
<1> QED
  BY ZenonT(40), <1>1, <1>2 DEF Cycles, Phases, Failures, Connecting, Aged

-----------------------------------------------------------------------------
\* From connecting, and from live, the table lets the machine wait.
LEMMA ScheduleFacts ==
  ASSUME NEW c \in Cycles, ~c.disposed, c.state \in {"connecting", "live"}
  PROVE  \/ /\ c.state = "connecting" /\ DeadlinePassed(c)
            /\ Schedule(c) = Decided([c EXCEPT !.state = "dropped"], "gave_up")
         \/ /\ c.state = "connecting" => ~DeadlinePassed(c)
            /\ Schedule(c) = Decided([c EXCEPT !.state = "reconnecting",
                                               !.attempt = c.attempt + 1,
                                               !.token = NextToken(c)], "wait")
<1>1. c.state = "connecting" => Go(c, "dropped") = [c EXCEPT !.state = "dropped"]
  BY DEF Go, CanGo, TransitionTable
<1>2. Go(c, "reconnecting") = [c EXCEPT !.state = "reconnecting"]
  BY DEF Go, CanGo, TransitionTable
<1>3. [Go(c, "reconnecting") EXCEPT !.attempt = c.attempt + 1, !.token = NextToken(c)]
        = [c EXCEPT !.state = "reconnecting", !.attempt = c.attempt + 1,
                    !.token = NextToken(c)]
  BY <1>2 DEF Cycles
<1> QED
  BY <1>1, <1>3 DEF Schedule

\* An exit before the login: the drop it belongs to waits or is given up, and outside
\* a drop the session has failed.
LEMMA EarlyExitFacts ==
  ASSUME NEW c \in Cycles, ~c.disposed, c.state = "connecting", NEW failure \in Failures
  PROVE  \/ /\ c.drop # Unset /\ DeadlinePassed(c)
            /\ ExitedEarly(c, failure)
                 = Decided([c EXCEPT !.live = Unset, !.state = "dropped"], "gave_up")
         \/ /\ c.drop # Unset /\ ~DeadlinePassed(c)
            /\ ExitedEarly(c, failure)
                 = Decided([c EXCEPT !.live = Unset, !.state = "reconnecting",
                                     !.attempt = c.attempt + 1,
                                     !.token = NextToken(c)], "wait")
         \/ ExitedEarly(c, failure)
              = Decided([c EXCEPT !.live = Unset, !.state = "failed",
                                  !.failure = failure], "failed")
<1> DEFINE k == [c EXCEPT !.live = Unset]
<1>1. k \in Cycles /\ k.state = "connecting" /\ ~k.disposed
  BY ZenonT(40), CyclesClosed DEF Cycles
<1>2. /\ DeadlinePassed(k) <=> DeadlinePassed(c)
      /\ NextToken(k) = NextToken(c) /\ k.attempt = c.attempt
  BY DEF Cycles, DeadlinePassed, NextToken
<1>3. CASE c.drop # Unset /\ RetryableInDrop(failure)
  <2>1. ExitedEarly(c, failure) = Schedule(k)
    BY <1>3 DEF ExitedEarly
  <2>2. \/ DeadlinePassed(k) /\ Schedule(k) = Decided([k EXCEPT !.state = "dropped"], "gave_up")
        \/ /\ ~DeadlinePassed(k)
           /\ Schedule(k) = Decided([k EXCEPT !.state = "reconnecting",
                                              !.attempt = k.attempt + 1,
                                              !.token = NextToken(k)], "wait")
    <3> HIDE DEF k
    <3> QED
      BY <1>1, ScheduleFacts
  <2>3. /\ [k EXCEPT !.state = "dropped"] = [c EXCEPT !.live = Unset, !.state = "dropped"]
        /\ [k EXCEPT !.state = "reconnecting", !.attempt = k.attempt + 1, !.token = NextToken(k)]
             = [c EXCEPT !.live = Unset, !.state = "reconnecting",
                         !.attempt = c.attempt + 1, !.token = NextToken(c)]
    BY <1>2 DEF Cycles
  <2> QED
    <3> HIDE DEF k
    <3> QED
      BY <1>2, <1>3, <2>1, <2>2, <2>3
<1>4. CASE ~(c.drop # Unset /\ RetryableInDrop(failure))
  <2>1. Go(k, "failed") = [k EXCEPT !.state = "failed"]
    BY <1>1 DEF Go, CanGo, TransitionTable
  <2>2. [Go(k, "failed") EXCEPT !.failure = failure]
          = [c EXCEPT !.live = Unset, !.state = "failed", !.failure = failure]
    BY <2>1 DEF Cycles
  <2> QED
    BY <1>4, <2>2 DEF ExitedEarly
<1> QED
  BY <1>3, <1>4

\* The end of a connection: the host is asked, in the drop it begins or interrupted.
LEMMA LostFacts ==
  ASSUME NEW c \in Cycles, c.state = "live"
  PROVE  \/ /\ DropBegins(c)
            /\ ExitedLoggedIn(c) = Decided([c EXCEPT !.live = Unset, !.drop = 0, !.attempt = 0,
                                                     !.token = NextToken(c)], "probe")
         \/ /\ ~DropBegins(c)
            /\ ExitedLoggedIn(c)
                 = Decided([c EXCEPT !.live = Unset, !.token = NextToken(c)], "probe")
<1> DEFINE k == [c EXCEPT !.live = Unset]
           d == IF DropBegins(c) THEN [k EXCEPT !.drop = 0, !.attempt = 0] ELSE k
<1>1. ExitedLoggedIn(c) = Decided([d EXCEPT !.token = NextToken(c)], "probe")
  BY DEF ExitedLoggedIn
<1>2. CASE DropBegins(c)
  <2>1. [d EXCEPT !.token = NextToken(c)]
          = [c EXCEPT !.live = Unset, !.drop = 0, !.attempt = 0, !.token = NextToken(c)]
    BY <1>2 DEF Cycles
  <2> QED
    BY <1>1, <1>2, <2>1
<1>3. CASE ~DropBegins(c)
  <2>1. [d EXCEPT !.token = NextToken(c)] = [c EXCEPT !.live = Unset, !.token = NextToken(c)]
    BY <1>3 DEF Cycles
  <2> QED
    BY <1>1, <1>3, <2>1
<1> QED
  BY <1>2, <1>3

\* The verdict of the probe that was asked for last.
LEMMA ProbeFacts ==
  ASSUME NEW c \in Cycles, c.state = "live", ~c.disposed, NEW token, NEW verdict
  PROVE  \/ token # c.token /\ Probed(c, token, verdict) = Decided(c, "nothing")
         \/ Probed(c, token, verdict)
              = Decided([c EXCEPT !.state = "reconnecting", !.attempt = c.attempt + 1,
                                  !.token = NextToken(c)], "wait")
         \/ Probed(c, token, verdict) = Decided([c EXCEPT !.disposed = TRUE], "dispose")
BY ScheduleFacts DEF Probed

\* The end of a wait: another attempt, or the end of the patience.
LEMMA WaitFacts ==
  ASSUME NEW c \in Cycles, c.state = "reconnecting", ~c.disposed, NEW token
  PROVE  \/ token # c.token /\ TimerFired(c, token) = Decided(c, "nothing")
         \/ /\ DeadlinePassed(c)
            /\ TimerFired(c, token) = Decided([c EXCEPT !.state = "dropped"], "gave_up")
         \/ /\ ~DeadlinePassed(c)
            /\ TimerFired(c, token) = Decided([c EXCEPT !.state = "connecting"], "respawn")
BY DEF TimerFired, Go, CanGo, TransitionTable

\* A login.
LEMMA LoginFacts ==
  ASSUME NEW c \in Cycles, c.state = "connecting", ~c.disposed
  PROVE  LoggedIn(c) = [c EXCEPT !.state = "live", !.live = 0, !.failure = "none"]
<1>1. CanGo(c, "live") /\ Go(c, "live") = [c EXCEPT !.state = "live"]
  BY DEF Go, CanGo, TransitionTable
<1> QED
  BY <1>1 DEF LoggedIn, Cycles

\* The owner starts over, with a machine as new but for its token.
LEMMA RetryFacts ==
  ASSUME NEW c \in Cycles, c.state \in {"failed", "dropped"}, ~c.disposed
  PROVE  Retry(c) = Decided([Connecting EXCEPT !.token = NextToken(c)], "respawn")
BY DEF Retry, CanGo, TransitionTable
=============================================================================
