------------------------------ MODULE CanoProofs ------------------------------
(* Theorems about Cano, for any table of waits, deadline and token space.    *)
EXTENDS Cano, CanoLifecycleProofs, WellFoundedInduction, TLAPS

\* What the machine needs besides to know that it may insist: a wait, and a probe
\* after a lost login, belong to a drop.
DropRuns ==
  cycle.state = "reconnecting" \/ (cycle.state = "live" /\ ssh = "none")
    => cycle.drop # Unset

\* The inductive invariant.
CanoInv == TypeOK /\ SomebodyDrives /\ FailureIsShown /\ DropRuns

-----------------------------------------------------------------------------
LEMMA CanoInit == Init => CanoInv
<1> SUFFICES ASSUME Init PROVE CanoInv
  OBVIOUS
<1>1. Connecting \in Cycles /\ ResumedDrop \in Cycles
  BY ConnectingFacts
<1>2. cycle.state = "connecting" /\ cycle.failure = "none" /\ ~cycle.disposed
  BY DEF Init, Connecting, ResumedDrop
<1>3. TypeOK
  BY <1>1, AgeFacts DEF Init, TypeOK
<1> QED
  BY <1>2, <1>3 DEF Init, CanoInv, SomebodyDrives, FailureIsShown, DropRuns

-----------------------------------------------------------------------------
(* What each event makes of the machine, in the states it can meet.          *)

\* Read backwards: what the process and the job in course say of the machine.
LEMMA DriverFacts ==
  ASSUME CanoInv
  PROVE  /\ cycle \in Cycles
         /\ ssh \in {"spawning", "login"} =>
              cycle.state = "connecting" /\ ~cycle.disposed /\ jobs = {}
         /\ ssh = "up" => cycle.state = "live" /\ ~cycle.disposed /\ jobs = {}
         /\ \A j \in jobs :
              /\ ~cycle.disposed /\ ssh = "none" /\ jobs = {j} /\ j.token = cycle.token
              /\ j.kind = "probe" => cycle.state = "live"
              /\ j.kind = "wait" => cycle.state = "reconnecting"
<1>1. cycle \in Cycles /\ cycle.state \in Phases /\ cycle.disposed \in BOOLEAN
  BY DEF CanoInv, TypeOK, Cycles
<1> QED
  BY <1>1 DEF CanoInv, SomebodyDrives, WaitingFor, Phases

\* A process that ends before its login ends the attempt: the drop it belongs to
\* waits again or is given up, and outside a drop the session has failed.
LEMMA EarlyExitOutcome ==
  ASSUME CanoInv, ssh \in {"spawning", "login"}, NEW failure \in Failures,
         Conduct(ExitedEarly(cycle, failure), cycle, jobs)
  PROVE  /\ cycle.state = "connecting" /\ ~cycle.disposed
         /\ \/ /\ DeadlinePassed(cycle) /\ jobs' = {}
               /\ cycle' = [cycle EXCEPT !.live = Unset, !.state = "dropped"]
            \/ /\ cycle.drop # Unset /\ ~DeadlinePassed(cycle)
               /\ cycle' = [cycle EXCEPT !.live = Unset, !.state = "reconnecting",
                                         !.attempt = cycle.attempt + 1,
                                         !.token = NextToken(cycle)]
               /\ jobs' = {[kind |-> "wait", token |-> cycle'.token,
                            left |-> Delay(cycle)]}
            \/ /\ jobs' = {}
               /\ cycle' = [cycle EXCEPT !.live = Unset, !.state = "failed",
                                         !.failure = failure]
<1>1. /\ cycle \in Cycles /\ cycle.state = "connecting" /\ ~cycle.disposed /\ jobs = {}
  BY DriverFacts
<1> DEFINE dropped == [cycle EXCEPT !.live = Unset, !.state = "dropped"]
           waiting == [cycle EXCEPT !.live = Unset, !.state = "reconnecting",
                                    !.attempt = cycle.attempt + 1, !.token = NextToken(cycle)]
           failed  == [cycle EXCEPT !.live = Unset, !.state = "failed", !.failure = failure]
           decided == ExitedEarly(cycle, failure)
<1>2. \/ DeadlinePassed(cycle) /\ decided = Decided(dropped, "gave_up")
      \/ cycle.drop # Unset /\ ~DeadlinePassed(cycle) /\ decided = Decided(waiting, "wait")
      \/ decided = Decided(failed, "failed")
  BY <1>1, EarlyExitFacts, Zenon
<1>3. Conduct(decided, cycle, {})
  BY <1>1
<1> HIDE DEF dropped, waiting, failed, decided
<1>4. \/ DeadlinePassed(cycle) /\ cycle' = dropped /\ jobs' = {}
      \/ /\ cycle.drop # Unset /\ ~DeadlinePassed(cycle) /\ cycle' = waiting
         /\ jobs' = {[kind |-> "wait", token |-> cycle'.token, left |-> Delay(cycle)]}
      \/ cycle' = failed /\ jobs' = {}
  BY <1>2, <1>3 DEF Conduct, Decided
<1> QED
  BY <1>1, <1>4, Zenon DEF dropped, waiting, failed

\* A connection that is lost is probed, in the drop it began or interrupted.
LEMMA LostOutcome ==
  ASSUME CanoInv, ssh = "up", Conduct(ExitedLoggedIn(cycle), cycle, jobs)
  PROVE  /\ cycle.state = "live" /\ ~cycle.disposed
         /\ jobs' = {[kind |-> "probe", token |-> cycle'.token]}
         /\ \/ cycle' = [cycle EXCEPT !.live = Unset, !.drop = 0, !.attempt = 0,
                                      !.token = NextToken(cycle)]
            \/ /\ cycle.drop # Unset
               /\ cycle' = [cycle EXCEPT !.live = Unset, !.token = NextToken(cycle)]
<1>1. cycle \in Cycles /\ cycle.state = "live" /\ ~cycle.disposed /\ jobs = {}
  BY DriverFacts
<1>2. \/ ExitedLoggedIn(cycle)
           = Decided([cycle EXCEPT !.live = Unset, !.drop = 0, !.attempt = 0,
                                   !.token = NextToken(cycle)], "probe")
      \/ /\ cycle.drop # Unset
         /\ ExitedLoggedIn(cycle)
              = Decided([cycle EXCEPT !.live = Unset, !.token = NextToken(cycle)], "probe")
  BY <1>1, LostFacts, Zenon DEF DropBegins
<1> QED
  BY <1>1, <1>2 DEF Conduct, Decided

\* The verdict of the probe: the session goes on waiting, or is over.
LEMMA ProbeOutcome ==
  ASSUME CanoInv, NEW j \in jobs, ProbeAnswers(j)
  PROVE  /\ cycle.state = "live" /\ ~cycle.disposed /\ cycle.drop # Unset
         /\ ssh = "none" /\ ssh' = "none"
         /\ \/ /\ cycle' = [cycle EXCEPT !.state = "reconnecting",
                                         !.attempt = cycle.attempt + 1,
                                         !.token = NextToken(cycle)]
               /\ jobs' = {[kind |-> "wait", token |-> cycle'.token,
                            left |-> Delay(cycle)]}
            \/ cycle' = [cycle EXCEPT !.disposed = TRUE] /\ jobs' = {}
<1>1. /\ cycle \in Cycles /\ cycle.state = "live" /\ ~cycle.disposed
      /\ ssh = "none" /\ jobs = {j} /\ j.token = cycle.token
  <2>1. j.kind = "probe"
    BY DEF ProbeAnswers
  <2> QED
    BY <2>1, DriverFacts
<1>2. cycle.drop # Unset /\ ssh' = "none"
  BY <1>1 DEF CanoInv, DropRuns, ProbeAnswers
<1>3. PICK verdict \in Verdicts :
        Conduct(Probed(cycle, j.token, verdict), cycle, jobs \ {j})
  BY DEF ProbeAnswers
<1>4. CASE ShouldReattach(verdict)
  <2>1. Probed(cycle, j.token, verdict) = Schedule(cycle)
    BY <1>1, <1>4 DEF Probed
  <2>2. Schedule(cycle) = Decided([cycle EXCEPT !.state = "reconnecting",
                                                !.attempt = cycle.attempt + 1,
                                                !.token = NextToken(cycle)], "wait")
    BY <1>1, ScheduleFacts
  <2> QED
    BY <1>1, <1>2, <1>3, <2>1, <2>2 DEF Conduct, Decided
<1>5. CASE ~ShouldReattach(verdict)
  <2>1. Probed(cycle, j.token, verdict)
          = Decided([cycle EXCEPT !.disposed = TRUE], "dispose")
    BY <1>1, <1>5 DEF Probed
  <2> QED
    BY <1>1, <1>2, <1>3, <2>1 DEF Conduct, Decided
<1> QED
  BY <1>1, <1>2, <1>4, <1>5

\* The end of a wait: another attempt, or the end of the patience.
LEMMA WaitOutcome ==
  ASSUME CanoInv, NEW j \in jobs, WaitEnds(j)
  PROVE  /\ cycle.state = "reconnecting" /\ ~cycle.disposed /\ cycle.drop # Unset
         /\ ssh = "none" /\ jobs' = {}
         /\ \/ /\ DeadlinePassed(cycle) /\ ssh' = "none"
               /\ cycle' = [cycle EXCEPT !.state = "dropped"]
            \/ /\ ~DeadlinePassed(cycle) /\ ssh' = "spawning"
               /\ cycle' = [cycle EXCEPT !.state = "connecting"]
<1>1. /\ cycle \in Cycles /\ cycle.state = "reconnecting" /\ ~cycle.disposed
      /\ ssh = "none" /\ jobs = {j} /\ j.token = cycle.token
  <2>1. j.kind = "wait"
    BY DEF WaitEnds
  <2> QED
    BY <2>1, DriverFacts
<1>2. cycle.drop # Unset
  BY <1>1 DEF CanoInv, DropRuns
<1>3. /\ CanGo(cycle, "connecting")
      /\ Go(cycle, "connecting") = [cycle EXCEPT !.state = "connecting"]
      /\ Go(cycle, "dropped") = [cycle EXCEPT !.state = "dropped"]
  BY <1>1 DEF Go, CanGo, TransitionTable
<1>4. TimerFired(cycle, j.token) =
        IF DeadlinePassed(cycle)
          THEN Decided([cycle EXCEPT !.state = "dropped"], "gave_up")
          ELSE Decided([cycle EXCEPT !.state = "connecting"], "respawn")
  BY <1>1, <1>3 DEF TimerFired
<1> QED
  BY <1>1, <1>2, <1>4 DEF WaitEnds, Conduct, Decided

\* The owner starts over, with a machine as new but for its token.
LEMMA RetryOutcome ==
  ASSUME CanoInv, OwnerRetries
  PROVE  /\ cycle.state \in {"failed", "dropped"} /\ ~cycle.disposed
         /\ cycle' = [Connecting EXCEPT !.token = NextToken(cycle)]
         /\ ssh' = "spawning" /\ jobs' = {}
<1>1. /\ cycle.state \in {"failed", "dropped"} /\ CanGo(cycle, "connecting")
      /\ Retry(cycle) = Decided([Connecting EXCEPT !.token = NextToken(cycle)], "respawn")
  BY DEF OwnerRetries, Retry, Decided
<1>2. ~cycle.disposed /\ jobs = {}
  BY <1>1 DEF CanGo, CanoInv, SomebodyDrives
<1> QED
  BY <1>1, <1>2 DEF OwnerRetries, Conduct, Decided

LEMMA LoginOutcome ==
  ASSUME CanoInv, MarkerSeen
  PROVE  /\ cycle.state = "connecting" /\ ~cycle.disposed /\ jobs = {}
         /\ cycle' = [cycle EXCEPT !.state = "live", !.live = 0, !.failure = "none"]
<1>1. cycle \in Cycles /\ cycle.state = "connecting" /\ ~cycle.disposed /\ jobs = {}
  BY DriverFacts DEF MarkerSeen
<1>2. CanGo(cycle, "live") /\ Go(cycle, "live") = [cycle EXCEPT !.state = "live"]
  BY <1>1 DEF Go, CanGo, TransitionTable
<1> QED
  BY <1>1, <1>2 DEF MarkerSeen, LoggedIn, Cycles

-----------------------------------------------------------------------------
(* The invariant.                                                            *)

\* The outcomes keep the machine in its type (CyclesClosed), and the jobs they start
\* in theirs.
LEMMA JobsClosed ==
  ASSUME NEW c \in Cycles, NEW d \in Cycles
  PROVE  /\ [kind |-> "wait", token |-> d.token, left |-> Delay(c)] \in Jobs
         /\ [kind |-> "probe", token |-> d.token] \in Jobs
BY DelayFacts DEF Jobs, Tokens, Cycles

LEMMA HistoryClosed ==
  ASSUME TypeOK
  PROVE  /\ 0 \in Ages \cup {Unset} /\ Unset \in Ages \cup {Unset}
         /\ Older(upFor) \in Ages \cup {Unset} /\ Older(downFor) \in Ages \cup {Unset}
BY AgeFacts DEF TypeOK

LEMMA EarlyExitStep ==
  ASSUME CanoInv, ssh \in {"spawning", "login"}, ssh' = "none", NEW failure \in Failures,
         Conduct(ExitedEarly(cycle, failure), cycle, jobs), UNCHANGED history
  PROVE  CanoInv'
<1>1. cycle \in Cycles /\ jobs = {}
  BY DriverFacts
<1>2. cycle.failure = "none" /\ cycle.state = "connecting" /\ ~cycle.disposed
  BY EarlyExitOutcome DEF CanoInv, FailureIsShown
<1>3. upFor' = upFor /\ downFor' = downFor /\ retried' = retried
  BY DEF history
<1>4. CASE /\ jobs' = {}
           /\ cycle' = [cycle EXCEPT !.live = Unset, !.state = "dropped"]
  <2>1. cycle' \in Cycles
    BY <1>1, <1>4, CyclesClosed
  <2>2. cycle'.state = "dropped" /\ cycle'.failure = "none" /\ ~cycle'.disposed
    BY <1>1, <1>2, <1>4 DEF Cycles
  <2> QED
    BY <1>3, <1>4, <2>1, <2>2
       DEF CanoInv, TypeOK, SomebodyDrives, FailureIsShown, DropRuns
<1>5. CASE /\ cycle.drop # Unset
           /\ cycle' = [cycle EXCEPT !.live = Unset, !.state = "reconnecting",
                                     !.attempt = cycle.attempt + 1,
                                     !.token = NextToken(cycle)]
           /\ jobs' = {[kind |-> "wait", token |-> cycle'.token, left |-> Delay(cycle)]}
  <2>1. cycle' \in Cycles /\ jobs' \subseteq Jobs
    BY <1>1, <1>5, CyclesClosed, JobsClosed
  <2>2. /\ cycle'.state = "reconnecting" /\ cycle'.failure = "none" /\ ~cycle'.disposed
        /\ cycle'.drop # Unset
    BY <1>1, <1>2, <1>5 DEF Cycles
  <2>3. WaitingFor("wait")'
    BY <1>5 DEF WaitingFor
  <2> QED
    BY <1>3, <2>1, <2>2, <2>3
       DEF CanoInv, TypeOK, SomebodyDrives, FailureIsShown, DropRuns
<1>6. CASE /\ jobs' = {}
           /\ cycle' = [cycle EXCEPT !.live = Unset, !.state = "failed",
                                     !.failure = failure]
  <2>1. cycle' \in Cycles
    BY <1>1, <1>6, CyclesClosed
  <2>2. cycle'.state = "failed" /\ cycle'.failure # "none" /\ ~cycle'.disposed
    BY <1>1, <1>2, <1>6 DEF Cycles, Failures
  <2> QED
    BY <1>3, <1>6, <2>1, <2>2
       DEF CanoInv, TypeOK, SomebodyDrives, FailureIsShown, DropRuns
<1> QED
  BY <1>4, <1>5, <1>6, EarlyExitOutcome

LEMMA CanoStep == CanoInv /\ [Next]_vars => CanoInv'
<1> SUFFICES ASSUME CanoInv, [Next]_vars PROVE CanoInv'
  OBVIOUS
<1> USE DEF history
<1>0. TypeOK /\ FailureIsShown /\ DropRuns /\ cycle \in Cycles
  BY DEF CanoInv, TypeOK
<1>1. CASE UNCHANGED vars
  BY <1>1 DEF vars, CanoInv, TypeOK, SomebodyDrives, WaitingFor, FailureIsShown, DropRuns
<1>2. CASE Spawned
  <2>1. cycle.state = "connecting" /\ ~cycle.disposed /\ jobs = {}
    BY <1>2, DriverFacts DEF Spawned
  <2> QED
    BY <1>0, <1>2, <2>1
       DEF Spawned, CanoInv, TypeOK, SomebodyDrives, FailureIsShown, DropRuns
<1>3. CASE SpawnFails
  <2>1. PICK failure \in Failures : Conduct(ExitedEarly(cycle, failure), cycle, jobs)
    BY <1>3 DEF SpawnFails
  <2>2. ssh \in {"spawning", "login"} /\ ssh' = "none" /\ UNCHANGED history
    BY <1>3 DEF SpawnFails
  <2> QED
    BY <2>1, <2>2, EarlyExitStep
<1>4. CASE ExitBeforeLogin
  <2>1. PICK failure \in Failures : Conduct(ExitedEarly(cycle, failure), cycle, jobs)
    BY <1>4 DEF ExitBeforeLogin
  <2>2. ssh \in {"spawning", "login"} /\ ssh' = "none" /\ UNCHANGED history
    BY <1>4 DEF ExitBeforeLogin
  <2> QED
    BY <2>1, <2>2, EarlyExitStep
<1>5. CASE MarkerSeen
  <2>1. /\ ~cycle.disposed /\ jobs = {}
        /\ cycle' = [cycle EXCEPT !.state = "live", !.live = 0, !.failure = "none"]
    BY <1>5, LoginOutcome
  <2>2. cycle' \in Cycles
    BY <1>0, <2>1, CyclesClosed
  <2>3. /\ cycle'.state = "live" /\ cycle'.failure = "none" /\ ~cycle'.disposed
        /\ ssh' = "up" /\ jobs' = {}
    BY <1>0, <1>5, <2>1 DEF Cycles, MarkerSeen
  <2>4. TypeOK'
    BY <1>0, <1>5, <2>2, <2>3, HistoryClosed DEF TypeOK, MarkerSeen
  <2> QED
    BY <2>3, <2>4 DEF CanoInv, SomebodyDrives, FailureIsShown, DropRuns
<1>6. CASE ExitAfterLogin
  <2>1. ssh = "up" /\ ssh' = "none" /\ Conduct(ExitedLoggedIn(cycle), cycle, jobs)
    BY <1>6 DEF ExitAfterLogin
  <2>2. cycle.state = "live" /\ ~cycle.disposed /\ cycle.failure = "none"
    BY <1>0, <2>1, LostOutcome DEF FailureIsShown
  <2>3. /\ cycle' \in Cycles /\ cycle'.state = "live" /\ ~cycle'.disposed
        /\ cycle'.failure = "none" /\ cycle'.drop # Unset
        /\ jobs' = {[kind |-> "probe", token |-> cycle'.token]}
    <3>1. CASE cycle' = [cycle EXCEPT !.live = Unset, !.drop = 0, !.attempt = 0,
                                      !.token = NextToken(cycle)]
      <4>1. cycle' \in Cycles
        BY <1>0, <3>1, CyclesClosed
      <4>2. /\ cycle'.state = cycle.state /\ cycle'.disposed = cycle.disposed
            /\ cycle'.failure = cycle.failure /\ cycle'.drop = 0
        BY <1>0, <3>1 DEF Cycles
      <4> QED
        BY <2>1, <2>2, <4>1, <4>2, LostOutcome DEF Unset
    <3>2. CASE /\ cycle.drop # Unset
               /\ cycle' = [cycle EXCEPT !.live = Unset, !.token = NextToken(cycle)]
      <4>1. cycle' \in Cycles
        BY <1>0, <3>2, CyclesClosed
      <4>2. /\ cycle'.state = cycle.state /\ cycle'.disposed = cycle.disposed
            /\ cycle'.failure = cycle.failure /\ cycle'.drop # Unset
        BY <1>0, <3>2 DEF Cycles
      <4> QED
        BY <2>1, <2>2, <4>1, <4>2, LostOutcome
    <3> QED
      BY <2>1, <3>1, <3>2, LostOutcome
  <2>4. jobs' \subseteq Jobs /\ WaitingFor("probe")'
    BY <2>1, <2>3, JobsClosed DEF WaitingFor
  <2>5. TypeOK'
    BY <1>0, <1>6, <2>1, <2>3, <2>4, HistoryClosed DEF TypeOK, ExitAfterLogin
  <2> QED
    BY <2>3, <2>4, <2>5 DEF CanoInv, SomebodyDrives, FailureIsShown, DropRuns
<1>7. ASSUME NEW j \in jobs, ProbeAnswers(j) PROVE CanoInv'
  <2>1. /\ cycle.state = "live" /\ ~cycle.disposed /\ cycle.drop # Unset
        /\ cycle.failure = "none" /\ ssh' = "none" /\ UNCHANGED history
    BY <1>0, <1>7, ProbeOutcome DEF FailureIsShown, ProbeAnswers
  <2>2. CASE /\ cycle' = [cycle EXCEPT !.state = "reconnecting",
                                       !.attempt = cycle.attempt + 1,
                                       !.token = NextToken(cycle)]
             /\ jobs' = {[kind |-> "wait", token |-> cycle'.token,
                          left |-> Delay(cycle)]}
    <3>1. cycle' \in Cycles /\ jobs' \subseteq Jobs
      BY <1>0, <2>2, CyclesClosed, JobsClosed
    <3>2. /\ cycle'.state = "reconnecting" /\ cycle'.failure = "none"
          /\ ~cycle'.disposed /\ cycle'.drop # Unset
      BY <1>0, <2>1, <2>2 DEF Cycles
    <3>3. WaitingFor("wait")'
      BY <2>1, <2>2 DEF WaitingFor
    <3> QED
      BY <1>0, <2>1, <3>1, <3>2, <3>3
         DEF CanoInv, TypeOK, SomebodyDrives, FailureIsShown, DropRuns
  <2>3. CASE cycle' = [cycle EXCEPT !.disposed = TRUE] /\ jobs' = {}
    <3>1. cycle' \in Cycles
      BY <1>0, <2>3, CyclesClosed
    <3>2. /\ cycle'.state = "live" /\ cycle'.failure = "none"
          /\ cycle'.disposed /\ cycle'.drop # Unset
      BY <1>0, <2>1, <2>3 DEF Cycles
    <3> QED
      BY <1>0, <2>1, <2>3, <3>1, <3>2
         DEF CanoInv, TypeOK, SomebodyDrives, FailureIsShown, DropRuns
  <2> QED
    BY <1>7, <2>2, <2>3, ProbeOutcome
<1>8. ASSUME NEW j \in jobs, WaitEnds(j) PROVE CanoInv'
  <2>1. /\ cycle.state = "reconnecting" /\ ~cycle.disposed
        /\ cycle.failure = "none" /\ jobs' = {} /\ UNCHANGED history
    BY <1>0, <1>8, WaitOutcome DEF FailureIsShown, WaitEnds
  <2>2. CASE ssh' = "none" /\ cycle' = [cycle EXCEPT !.state = "dropped"]
    <3>1. cycle' \in Cycles
      BY <1>0, <2>2, CyclesClosed DEF Phases
    <3>2. cycle'.state = "dropped" /\ cycle'.failure = "none" /\ ~cycle'.disposed
      BY <1>0, <2>1, <2>2 DEF Cycles
    <3> QED
      BY <1>0, <2>1, <2>2, <3>1, <3>2
         DEF CanoInv, TypeOK, SomebodyDrives, FailureIsShown, DropRuns
  <2>3. CASE ssh' = "spawning" /\ cycle' = [cycle EXCEPT !.state = "connecting"]
    <3>1. cycle' \in Cycles
      BY <1>0, <2>3, CyclesClosed DEF Phases
    <3>2. cycle'.state = "connecting" /\ cycle'.failure = "none" /\ ~cycle'.disposed
      BY <1>0, <2>1, <2>3 DEF Cycles
    <3> QED
      BY <1>0, <2>1, <2>3, <3>1, <3>2
         DEF CanoInv, TypeOK, SomebodyDrives, FailureIsShown, DropRuns
  <2> QED
    BY <1>8, <2>2, <2>3, WaitOutcome
<1>9. CASE OwnerRetries
  <2>1. /\ cycle' = [Connecting EXCEPT !.token = NextToken(cycle)]
        /\ ssh' = "spawning" /\ jobs' = {} /\ cycle.state \in {"failed", "dropped"}
    BY <1>9, RetryOutcome
  <2>2. cycle' \in Cycles
    BY <1>0, <2>1, CyclesClosed
  <2>3. cycle'.state = "connecting" /\ cycle'.failure = "none" /\ ~cycle'.disposed
    BY <2>1 DEF Connecting
  <2>4. TypeOK'
    BY <1>0, <1>9, <2>1, <2>2, HistoryClosed DEF TypeOK, OwnerRetries
  <2> QED
    BY <2>1, <2>3, <2>4 DEF CanoInv, SomebodyDrives, FailureIsShown, DropRuns
<1>10. CASE Tick
  <2>1. cycle' = Aged(cycle) /\ cycle' \in Cycles
    BY <1>0, <1>10, CyclesClosed DEF Tick
  <2>2. /\ cycle'.state = cycle.state /\ cycle'.failure = cycle.failure
        /\ cycle'.token = cycle.token /\ cycle'.disposed = cycle.disposed
        /\ cycle'.drop = Older(cycle.drop)
    BY <1>0, <2>1 DEF Aged, Cycles
  <2>3. (cycle'.drop = Unset) <=> (cycle.drop = Unset)
    BY <1>0, <2>2, AgeFacts DEF Cycles
  <2> DEFINE later(j) == IF j.kind = "wait" /\ j.left > 0
                         THEN [j EXCEPT !.left = j.left - 1] ELSE j
  <2>4. jobs' = {later(j) : j \in jobs}
    BY <1>10 DEF Tick
  <2>5. \A j \in Jobs : /\ later(j) \in Jobs
                        /\ later(j).kind = j.kind /\ later(j).token = j.token
    BY DEF Jobs
  <2>6. TypeOK'
    BY <1>0, <1>10, <2>1, <2>4, <2>5, HistoryClosed DEF TypeOK, Tick
  <2>7. jobs = {} => jobs' = {}
    BY <2>4
  <2>8. \A kind \in {"wait", "probe"} : WaitingFor(kind) => WaitingFor(kind)'
    <3> SUFFICES ASSUME NEW kind \in {"wait", "probe"}, WaitingFor(kind)
                 PROVE  WaitingFor(kind)'
      OBVIOUS
    <3>1. PICK j \in jobs : jobs = {j} /\ j.kind = kind /\ j.token = cycle.token
      BY DEF WaitingFor
    <3>2. j \in Jobs
      BY <1>0 DEF TypeOK
    <3>3. jobs' = {later(j)} /\ later(j).kind = kind /\ later(j).token = cycle'.token
      BY <2>2, <2>4, <2>5, <3>1, <3>2
    <3>4. ssh' = "none"
      BY <1>10 DEF WaitingFor, Tick
    <3> HIDE DEF later
    <3> QED
      BY <3>3, <3>4 DEF WaitingFor
  <2> HIDE DEF later
  <2>9. ssh' = ssh
    BY <1>10 DEF Tick
  <2> QED
    BY <1>0, <2>2, <2>3, <2>6, <2>7, <2>8, <2>9
       DEF CanoInv, SomebodyDrives, FailureIsShown, DropRuns
<1> QED
  BY <1>1, <1>2, <1>3, <1>4, <1>5, <1>6, <1>7, <1>8, <1>9, <1>10 DEF Next

\* The inductive invariant of the machine and its driver holds.
THEOREM CanoInvariant == Spec => []CanoInv
BY CanoInit, CanoStep, PTL DEF Spec

\* The machine's fields, its jobs and the histories keep their types.
THEOREM CanoTypeCorrect == Spec => []TypeOK
<1>1. CanoInv => TypeOK
  BY DEF CanoInv
<1> QED
  BY <1>1, CanoInvariant, PTL

\* In every phase that is not the owner's turn exactly one thing - a process, a
\* probe or a wait - will move the session on: `conduct` never loses the thread,
\* and never has two (cano.rs, the tokens of probed and timer_fired).
THEOREM SomebodyAlwaysDrives == Spec => []SomebodyDrives
<1>1. CanoInv => SomebodyDrives
  BY DEF CanoInv
<1> QED
  BY <1>1, CanoInvariant, PTL

\* The reason of a failure is on show exactly while the session is failed.
THEOREM FailureAlwaysShown == Spec => []FailureIsShown
<1>1. CanoInv => FailureIsShown
  BY DEF CanoInv
<1> QED
  BY <1>1, CanoInvariant, PTL

-----------------------------------------------------------------------------
(* The refinement.                                                           *)

LEMMA PromiseStep ==
  CanoInv /\ [Next]_vars => [Promise!Next]_<<Phase, cycle.drop>>
<1> SUFFICES ASSUME CanoInv, [Next]_vars
             PROVE  Promise!Next \/ UNCHANGED <<Phase, cycle.drop>>
  OBVIOUS
<1> USE DEF Phase, Promise!Next, Promise!InDrop, Promise!Patient, Unset
<1>0. /\ cycle \in Cycles /\ ReconnectDeadline \in Nat
      /\ cycle.drop \in Ages \cup {Unset} /\ Ages \subseteq Nat
  BY LifecycleAssumption, AgeFacts DEF CanoInv, TypeOK, Cycles, Ages
<1>early. ASSUME ssh \in {"spawning", "login"}, NEW failure \in Failures,
                 Conduct(ExitedEarly(cycle, failure), cycle, jobs)
          PROVE  Promise!Insist \/ Promise!GiveUp \/ Promise!Fail
  <2>1. cycle.state = "connecting" /\ ~cycle.disposed
    BY <1>early, EarlyExitOutcome
  <2>2. CASE /\ DeadlinePassed(cycle)
             /\ cycle' = [cycle EXCEPT !.live = Unset, !.state = "dropped"]
    <3>1. cycle'.state = "dropped" /\ ~cycle'.disposed /\ cycle'.drop = cycle.drop
      BY <1>0, <2>1, <2>2 DEF Cycles
    <3> QED
      BY <2>1, <2>2, <3>1 DEF Promise!GiveUp, DeadlinePassed
  <2>3. CASE /\ cycle.drop # Unset /\ ~DeadlinePassed(cycle)
             /\ cycle' = [cycle EXCEPT !.live = Unset, !.state = "reconnecting",
                                       !.attempt = cycle.attempt + 1,
                                       !.token = NextToken(cycle)]
    <3>1. cycle'.state = "reconnecting" /\ ~cycle'.disposed /\ cycle'.drop = cycle.drop
      BY <1>0, <2>1, <2>3 DEF Cycles
    <3>2. cycle.drop < ReconnectDeadline
      BY <1>0, <2>3 DEF DeadlinePassed
    <3> QED
      BY <2>1, <2>3, <3>1, <3>2 DEF Promise!Insist
  <2>4. CASE cycle' = [cycle EXCEPT !.live = Unset, !.state = "failed",
                                    !.failure = failure]
    <3>1. cycle'.state = "failed" /\ ~cycle'.disposed /\ cycle'.drop = cycle.drop
      BY <1>0, <2>1, <2>4 DEF Cycles
    <3> QED
      BY <2>1, <3>1 DEF Promise!Fail
  <2> QED
    BY <1>early, <2>2, <2>3, <2>4, EarlyExitOutcome
<1>1. CASE UNCHANGED vars
  BY <1>1 DEF vars
<1>2. CASE Spawned
  BY <1>2 DEF Spawned
<1>3. CASE SpawnFails
  BY <1>3, <1>early DEF SpawnFails
<1>4. CASE ExitBeforeLogin
  BY <1>4, <1>early DEF ExitBeforeLogin
<1>5. CASE MarkerSeen
  <2>1. /\ cycle.state = "connecting" /\ ~cycle.disposed
        /\ cycle' = [cycle EXCEPT !.state = "live", !.live = 0, !.failure = "none"]
    BY <1>5, LoginOutcome
  <2>2. cycle'.state = "live" /\ ~cycle'.disposed /\ cycle'.drop = cycle.drop
    BY <1>0, <2>1 DEF Cycles
  <2> QED
    BY <2>1, <2>2 DEF Promise!LogIn
<1>6. CASE ExitAfterLogin
  <2>1. ssh = "up" /\ Conduct(ExitedLoggedIn(cycle), cycle, jobs)
    BY <1>6 DEF ExitAfterLogin
  <2>2. cycle.state = "live" /\ ~cycle.disposed
    BY <2>1, LostOutcome
  <2>3. /\ cycle'.state = "live" /\ ~cycle'.disposed
        /\ cycle'.drop \in {0, cycle.drop}
    <3>1. CASE cycle' = [cycle EXCEPT !.live = Unset, !.drop = 0, !.attempt = 0,
                                      !.token = NextToken(cycle)]
      BY <1>0, <2>2, <3>1 DEF Cycles
    <3>2. CASE cycle' = [cycle EXCEPT !.live = Unset, !.token = NextToken(cycle)]
      BY <1>0, <2>2, <3>2 DEF Cycles
    <3> QED
      BY <2>1, <3>1, <3>2, LostOutcome
  <2> QED
    BY <2>2, <2>3 DEF Promise!Break
<1>7. ASSUME NEW j \in jobs, ProbeAnswers(j) PROVE Promise!Insist \/ Promise!End
  <2>1. cycle.state = "live" /\ ~cycle.disposed /\ cycle.drop # Unset
    BY <1>7, ProbeOutcome
  <2>2. CASE cycle' = [cycle EXCEPT !.state = "reconnecting",
                                    !.attempt = cycle.attempt + 1,
                                    !.token = NextToken(cycle)]
    <3>1. cycle'.state = "reconnecting" /\ ~cycle'.disposed /\ cycle'.drop = cycle.drop
      BY <1>0, <2>1, <2>2 DEF Cycles
    <3> QED
      BY <2>1, <3>1 DEF Promise!Insist
  <2>3. CASE cycle' = [cycle EXCEPT !.disposed = TRUE]
    <3>1. cycle'.disposed /\ cycle'.drop = cycle.drop
      BY <1>0, <2>3 DEF Cycles
    <3> QED
      BY <2>1, <3>1 DEF Promise!End
  <2> QED
    BY <1>7, <2>2, <2>3, ProbeOutcome
<1>8. ASSUME NEW j \in jobs, WaitEnds(j) PROVE Promise!Attempt \/ Promise!GiveUp
  <2>1. cycle.state = "reconnecting" /\ ~cycle.disposed /\ cycle.drop # Unset
    BY <1>8, WaitOutcome
  <2>2. CASE DeadlinePassed(cycle) /\ cycle' = [cycle EXCEPT !.state = "dropped"]
    <3>1. cycle'.state = "dropped" /\ ~cycle'.disposed /\ cycle'.drop = cycle.drop
      BY <1>0, <2>1, <2>2 DEF Cycles
    <3> QED
      BY <2>1, <2>2, <3>1 DEF Promise!GiveUp, DeadlinePassed
  <2>3. CASE ~DeadlinePassed(cycle) /\ cycle' = [cycle EXCEPT !.state = "connecting"]
    <3>1. cycle'.state = "connecting" /\ ~cycle'.disposed /\ cycle'.drop = cycle.drop
      BY <1>0, <2>1, <2>3 DEF Cycles
    <3>2. cycle.drop < ReconnectDeadline
      BY <1>0, <2>1, <2>3 DEF DeadlinePassed
    <3> QED
      BY <2>1, <3>1, <3>2 DEF Promise!Attempt
  <2> QED
    BY <1>8, <2>2, <2>3, WaitOutcome
<1>9. CASE OwnerRetries
  <2>1. /\ cycle.state \in {"failed", "dropped"} /\ ~cycle.disposed
        /\ cycle' = [Connecting EXCEPT !.token = NextToken(cycle)]
    BY <1>9, RetryOutcome
  <2>2. cycle'.state = "connecting" /\ ~cycle'.disposed /\ cycle'.drop = -1
    BY <2>1 DEF Connecting
  <2> QED
    BY <2>1, <2>2 DEF Promise!StartOver
<1>10. CASE Tick
  <2>1. /\ cycle'.state = cycle.state /\ cycle'.disposed = cycle.disposed
        /\ cycle'.drop = Older(cycle.drop)
    BY <1>0, <1>10 DEF Tick, Aged, Cycles
  <2>2. \/ cycle'.drop = cycle.drop
        \/ cycle.drop # -1 /\ cycle'.drop = cycle.drop + 1
    BY <2>1 DEF Older
  <2> QED
    BY <2>1, <2>2 DEF Promise!Pass
<1> QED
  BY <1>1, <1>2, <1>3, <1>4, <1>5, <1>6, <1>7, <1>8, <1>9, <1>10 DEF Next

\* The machine with its tokens, probes, waits and processes implements what
\* Reconnection promises of a connection (rules 13 to 17 of spec.md).
THEOREM MachineKeepsPromise == Spec => KeepsPromise
<1>1. Init => Promise!Init
  BY DEF Init, Promise!Init, Phase, Connecting, ResumedDrop, Unset
<1> QED
  BY <1>1, PromiseStep, CanoInvariant, PTL DEF Spec, KeepsPromise, Promise!Spec

-----------------------------------------------------------------------------
(* The deadline.                                                             *)

\* The machine's two ages are those of the world: how long the connection has been
\* up, and how long ago the last one that lasted was lost.
AgesAreTrue ==
  /\ upFor = cycle.live /\ downFor = cycle.drop
  /\ ssh # "up" => upFor = Unset

LEMMA AgesInit == Init => AgesAreTrue
BY DEF Init, AgesAreTrue, Connecting, ResumedDrop

LEMMA AgesStep == CanoInv /\ AgesAreTrue /\ [Next]_vars => AgesAreTrue'
<1> SUFFICES ASSUME CanoInv, AgesAreTrue, [Next]_vars PROVE AgesAreTrue'
  OBVIOUS
<1> USE DEF AgesAreTrue, history
<1>0. cycle \in Cycles
  BY DEF CanoInv, TypeOK
<1>early. ASSUME ssh \in {"spawning", "login"}, NEW failure \in Failures,
                 Conduct(ExitedEarly(cycle, failure), cycle, jobs)
          PROVE  cycle'.live = Unset /\ cycle'.drop = cycle.drop
  <2>1. CASE cycle' = [cycle EXCEPT !.live = Unset, !.state = "dropped"]
    BY <1>0, <2>1 DEF Cycles
  <2>2. CASE cycle' = [cycle EXCEPT !.live = Unset, !.state = "reconnecting",
                                    !.attempt = cycle.attempt + 1,
                                    !.token = NextToken(cycle)]
    BY <1>0, <2>2 DEF Cycles
  <2>3. CASE cycle' = [cycle EXCEPT !.live = Unset, !.state = "failed",
                                    !.failure = failure]
    BY <1>0, <2>3 DEF Cycles
  <2> QED
    BY <1>early, <2>1, <2>2, <2>3, EarlyExitOutcome
<1>1. CASE UNCHANGED vars
  BY <1>1 DEF vars
<1>2. CASE Spawned
  BY <1>2 DEF Spawned
<1>3. CASE SpawnFails
  BY <1>3, <1>early DEF SpawnFails
<1>4. CASE ExitBeforeLogin
  BY <1>4, <1>early DEF ExitBeforeLogin
<1>5. CASE MarkerSeen
  <2>1. cycle' = [cycle EXCEPT !.state = "live", !.live = 0, !.failure = "none"]
    BY <1>5, LoginOutcome
  <2>2. cycle'.live = 0 /\ cycle'.drop = cycle.drop
    BY <1>0, <2>1 DEF Cycles
  <2> QED
    BY <1>5, <2>2 DEF MarkerSeen
<1>6. CASE ExitAfterLogin
  <2>1. cycle.state = "live" /\ Conduct(ExitedLoggedIn(cycle), cycle, jobs)
    BY <1>6, LostOutcome DEF ExitAfterLogin
  <2>2. cycle'.live = Unset
        /\ cycle'.drop = IF DropBegins(cycle) THEN 0 ELSE cycle.drop
    <3>1. CASE DropBegins(cycle)
      BY <1>0, <2>1, <3>1 DEF Conduct, ExitedLoggedIn, Decided, Cycles
    <3>2. CASE ~DropBegins(cycle)
      BY <1>0, <2>1, <3>2 DEF Conduct, ExitedLoggedIn, Decided, Cycles
    <3> QED
      BY <3>1, <3>2
  <2> QED
    BY <1>6, <2>2 DEF ExitAfterLogin, DropBegins
<1>7. ASSUME NEW j \in jobs, ProbeAnswers(j) PROVE AgesAreTrue'
  <2>1. cycle'.live = cycle.live /\ cycle'.drop = cycle.drop
    <3>1. CASE cycle' = [cycle EXCEPT !.state = "reconnecting",
                                      !.attempt = cycle.attempt + 1,
                                      !.token = NextToken(cycle)]
      BY <1>0, <3>1 DEF Cycles
    <3>2. CASE cycle' = [cycle EXCEPT !.disposed = TRUE]
      BY <1>0, <3>2 DEF Cycles
    <3> QED
      BY <1>7, <3>1, <3>2, ProbeOutcome
  <2> QED
    BY <1>7, <2>1 DEF ProbeAnswers
<1>8. ASSUME NEW j \in jobs, WaitEnds(j) PROVE AgesAreTrue'
  <2>1. cycle'.live = cycle.live /\ cycle'.drop = cycle.drop
    <3>1. CASE cycle' = [cycle EXCEPT !.state = "dropped"]
      BY <1>0, <3>1 DEF Cycles
    <3>2. CASE cycle' = [cycle EXCEPT !.state = "connecting"]
      BY <1>0, <3>2 DEF Cycles
    <3> QED
      BY <1>8, <3>1, <3>2, WaitOutcome
  <2>2. ssh = "none" /\ ssh' # "up" /\ UNCHANGED history
    BY <1>8, WaitOutcome DEF WaitEnds
  <2> QED
    BY <2>1, <2>2
<1>9. CASE OwnerRetries
  <2>1. /\ cycle'.live = Unset /\ cycle'.drop = Unset /\ ssh' = "spawning"
        /\ cycle.state \in {"failed", "dropped"}
    BY <1>9, RetryOutcome DEF Connecting
  <2>2. ssh = "none"
    BY <2>1 DEF CanoInv, SomebodyDrives
  <2> QED
    BY <1>9, <2>1, <2>2 DEF OwnerRetries
<1>10. CASE Tick
  <2>1. cycle'.live = Older(cycle.live) /\ cycle'.drop = Older(cycle.drop)
    BY <1>0, <1>10 DEF Tick, Aged, Cycles
  <2>2. Older(Unset) = Unset
    BY DEF Older
  <2> QED
    BY <1>10, <2>1, <2>2 DEF Tick
<1> QED
  BY <1>1, <1>2, <1>3, <1>4, <1>5, <1>6, <1>7, <1>8, <1>9, <1>10 DEF Next

LEMMA InsistStep ==
  ASSUME CanoInv, AgesAreTrue, [Next]_vars,
         ssh # "spawning", ssh' = "spawning", downFor' # Unset
  PROVE  downFor < ReconnectDeadline
<1>1. \E j \in jobs : WaitEnds(j)
  <2>1. ~OwnerRetries
    BY DEF OwnerRetries
  <2>2. \A j \in jobs : ~ProbeAnswers(j)
    BY DEF ProbeAnswers
  <2>3. ~(Spawned \/ SpawnFails \/ MarkerSeen \/ ExitBeforeLogin \/ ExitAfterLogin)
    BY DEF Spawned, SpawnFails, MarkerSeen, ExitBeforeLogin, ExitAfterLogin
  <2>4. ~Tick /\ ~UNCHANGED vars
    BY DEF Tick, vars
  <2> QED
    BY <2>1, <2>2, <2>3, <2>4 DEF Next
<1>2. PICK j \in jobs : WaitEnds(j)
  BY <1>1
<1>3. ~DeadlinePassed(cycle) /\ cycle.drop # Unset
  BY <1>2, WaitOutcome
<1>4. cycle.drop \in Nat /\ ReconnectDeadline \in Nat
  BY <1>3, LifecycleAssumption, AgeFacts DEF CanoInv, TypeOK, Cycles, Ages
<1> QED
  BY <1>3, <1>4 DEF AgesAreTrue, DeadlinePassed

\* No attempt begins on its own once the deadline has passed since the loss of the
\* last connection that lasted, however many short logins came between: for any
\* deadline, table of waits and lateness of the threads (cano.rs timer_fired).
THEOREM InsistenceEnds == Spec => InsistsWithinDeadline
<1>1. CanoInv /\ AgesAreTrue /\ [Next]_vars
        => [ssh # "spawning" /\ ssh' = "spawning" /\ downFor' # Unset
              => downFor < ReconnectDeadline]_vars
  BY InsistStep
<1> QED
  BY <1>1, CanoInvariant, AgesInit, AgesStep, PTL DEF Spec, InsistsWithinDeadline

-----------------------------------------------------------------------------
(* The pace.                                                                 *)

\* Induction over the naturals, on a set: a number outside it would have a least one.
LEMMA SetInduction ==
  ASSUME NEW S, 0 \in S, \A n \in Nat : n \in S => n + 1 \in S
  PROVE  Nat \subseteq S
<1> SUFFICES ASSUME Nat \ S # {} PROVE FALSE
  OBVIOUS
<1> DEFINE R == {ss \in Nat \X Nat : ss[1] < ss[2]}
           T == Nat \ S
<1>1. IsWellFoundedOn(R, Nat)
  <2>1. OpToRel(<, Nat) = R
    BY DEF OpToRel
  <2> QED
    BY <2>1, NatLessThanWellFounded
<1>2. \A k, m \in Nat : k < m => <<k, m>> \in R
  OBVIOUS
<1>3. T \subseteq Nat /\ T # {}
  OBVIOUS
<1> HIDE DEF R, T
<1>4. PICK m \in T : \A k \in T : ~ (<<k, m>> \in R)
  BY <1>1, <1>3, WFMin
<1>5. m \in Nat /\ m \notin S
  BY <1>4 DEF T
<1>6. m # 0 /\ m - 1 \in Nat /\ m - 1 < m /\ (m - 1) + 1 = m
  BY <1>5
<1>7. m - 1 \in S
  BY <1>2, <1>4, <1>5, <1>6 DEF T
<1> QED
  BY <1>5, <1>6, <1>7

\* The n-th wait of the table, and a function that sums the first ones.
Due(n) == BackoffSecs[IF n < Len(BackoffSecs) THEN n ELSE Len(BackoffSecs)]
Sums(f, n) == f \in [0..n -> Nat] /\ f[0] = 0 /\ \A i \in 1..n : f[i] = f[i-1] + Due(i)

LEMMA DueNat == \A n \in Nat \ {0} : Due(n) \in Nat
<1> SUFFICES ASSUME NEW n \in Nat \ {0} PROVE Due(n) \in Nat
  OBVIOUS
<1>1. \A i \in 1..Len(BackoffSecs) : BackoffSecs[i] \in Nat
  BY LifecycleAssumption
<1>2. Len(BackoffSecs) \in Nat /\ Len(BackoffSecs) > 0
  BY LifecycleAssumption
<1> QED
  BY <1>1, <1>2 DEF Due

\* A recursive function is what its recursion says: partial sums exist and agree.
LEMMA WaitSumDef == \A n \in Nat : WaitSum[n] = IF n = 0 THEN 0 ELSE WaitSum[n-1] + Due(n)
<1> DEFINE F(g) == [n \in Nat |-> IF n = 0 THEN 0 ELSE g[n-1] + Due(n)]
<1>1. WaitSum = CHOOSE g : g = F(g)
  BY DEF WaitSum, Due
<1>2. \A n \in Nat : \E f : Sums(f, n)
  <2> DEFINE S == {n \in Nat : \E f : Sums(f, n)}
  <2>1. 0 \in S
    <3>1. Sums([i \in 0..0 |-> 0], 0)
      BY DEF Sums
    <3> QED
      BY <3>1
  <2>2. ASSUME NEW n \in Nat, n \in S PROVE n + 1 \in S
    <3>1. PICK f : Sums(f, n)
      BY <2>2
    <3> DEFINE g == [i \in 0..(n+1) |-> IF i = n + 1 THEN f[n] + Due(n+1) ELSE f[i]]
    <3>2. Sums(g, n+1)
      BY <3>1, DueNat DEF Sums
    <3> QED
      BY <3>2
  <2> HIDE DEF S
  <2>3. Nat \subseteq S
    BY <2>1, <2>2, SetInduction
  <2> QED
    BY <2>3 DEF S
<1>3. \A n \in Nat : \A f, g : Sums(f, n) /\ Sums(g, n+1) => g[n] = f[n]
  <2> DEFINE S == {n \in Nat : \A f, g : Sums(f, n) /\ Sums(g, n+1) => g[n] = f[n]}
  <2>1. 0 \in S
    BY DEF Sums
  <2>2. ASSUME NEW n \in Nat, n \in S PROVE n + 1 \in S
    <3> SUFFICES ASSUME NEW f, NEW g, Sums(f, n+1), Sums(g, n+1+1) PROVE g[n+1] = f[n+1]
      OBVIOUS
    <3> DEFINE ff == [i \in 0..n |-> f[i]]
               gg == [i \in 0..(n+1) |-> g[i]]
    <3>1. Sums(ff, n) /\ Sums(gg, n+1)
      BY DEF Sums
    <3>2. gg[n] = ff[n]
      BY <2>2, <3>1
    <3> QED
      BY <3>2 DEF Sums
  <2> HIDE DEF S
  <2>3. Nat \subseteq S
    BY <2>1, <2>2, SetInduction
  <2> QED
    BY <2>3 DEF S
<1> DEFINE w == [n \in Nat |-> (CHOOSE f : Sums(f, n))[n]]
<1>4. \A n \in Nat : Sums(CHOOSE f : Sums(f, n), n)
  BY <1>2
<1>5. \A n \in Nat : w[n] = IF n = 0 THEN 0 ELSE w[n-1] + Due(n)
  <2> SUFFICES ASSUME NEW n \in Nat PROVE w[n] = IF n = 0 THEN 0 ELSE w[n-1] + Due(n)
    OBVIOUS
  <2>1. CASE n = 0
    BY <1>4, <2>1 DEF Sums
  <2>2. CASE n # 0
    <3>1. PICK f : f = (CHOOSE e : Sums(e, n)) /\ Sums(f, n)
      BY <1>4
    <3>2. PICK g : g = (CHOOSE e : Sums(e, n-1)) /\ Sums(g, n-1)
      BY <1>4, <2>2
    <3>3. f[n-1] = g[n-1]
      BY <1>3, <2>2, <3>1, <3>2, n-1 \in Nat /\ (n-1)+1 = n
    <3>4. w[n] = f[n] /\ w[n-1] = g[n-1]
      BY <2>2, <3>1, <3>2
    <3>5. f[n] = f[n-1] + Due(n)
      <4>1. \A i \in 1..n : f[i] = f[i-1] + Due(i)
        BY <3>1, Zenon DEF Sums
      <4> QED
        BY <2>2, <4>1
    <3> QED
      BY <2>2, <3>3, <3>4, <3>5
  <2> QED
    BY <2>1, <2>2
<1>6. w = F(w)
  <2> DEFINE h == F(w)
  <2>1. \A n \in Nat : w[n] = h[n]
    BY <1>5
  <2>2. w = [n \in Nat |-> w[n]] /\ h = [n \in Nat |-> h[n]]
    OBVIOUS
  <2> HIDE DEF w, h
  <2>3. w = h
    BY <2>1, <2>2
  <2> QED
    BY <2>3 DEF h
<1>7. \E g : g = F(g)
  BY <1>6
<1> HIDE DEF w, F
<1>8. WaitSum = F(WaitSum)
  BY <1>1, <1>7
<1> QED
  BY <1>8 DEF F

LEMMA WaitSumFacts ==
  /\ WaitSum[0] = 0
  /\ \A n \in Nat : WaitSum[n] \in Nat /\ WaitSum[n + 1] = WaitSum[n] + Due(n + 1)
<1>1. WaitSum[0] = 0
  BY WaitSumDef
<1>2. \A n \in Nat : WaitSum[n + 1] = WaitSum[n] + Due(n + 1)
  <2> SUFFICES ASSUME NEW n \in Nat PROVE WaitSum[n + 1] = WaitSum[n] + Due(n + 1)
    OBVIOUS
  <2>1. n + 1 \in Nat /\ n + 1 # 0 /\ (n + 1) - 1 = n
    OBVIOUS
  <2> QED
    BY <2>1, WaitSumDef
<1>3. \A n \in Nat : WaitSum[n] \in Nat
  <2> DEFINE S == {n \in Nat : WaitSum[n] \in Nat}
  <2>1. 0 \in S /\ \A n \in Nat : n \in S => n + 1 \in S
    BY <1>1, <1>2, DueNat
  <2> HIDE DEF S
  <2>2. Nat \subseteq S
    BY <2>1, SetInduction
  <2> QED
    BY <2>2 DEF S
<1> QED
  BY <1>1, <1>2, <1>3

\* The wait that is started is the next of the table.
LEMMA DelayIsDue == ASSUME NEW c \in Cycles PROVE Delay(c) = Due(c.attempt + 1)
<1>1. c.attempt \in Nat /\ Len(BackoffSecs) \in Nat
  BY LifecycleAssumption DEF Cycles
<1> QED
  BY <1>1 DEF Delay, Due

\* Between two waits the drop has lasted for all the waits it had.
Paced ==
  cycle.drop # Unset /\ cycle.drop < MaxAge =>
    /\ cycle.state \in {"connecting", "live"} => WaitSum[cycle.attempt] <= cycle.drop
    /\ \A j \in jobs : j.kind = "wait" => WaitSum[cycle.attempt] - j.left <= cycle.drop

LEMMA PacedInit == Init => Paced
BY WaitSumFacts DEF Init, Paced, Connecting, ResumedDrop, Unset

\* What starts a wait pays for it in advance, and out of connecting or live only.
LEMMA WaitStartsPaced ==
  ASSUME CanoInv, Paced, cycle.state \in {"connecting", "live"},
         jobs' = {[kind |-> "wait", token |-> cycle'.token, left |-> Delay(cycle)]},
         cycle'.state = "reconnecting", cycle'.attempt = cycle.attempt + 1,
         cycle'.drop = cycle.drop
  PROVE  Paced'
<1>1. /\ cycle.attempt \in Nat /\ cycle.drop \in Ages \cup {Unset} /\ Delay(cycle) \in Nat
      /\ Delay(cycle) = Due(cycle.attempt + 1)
  BY DelayFacts, DelayIsDue DEF CanoInv, TypeOK, Cycles
<1>2. WaitSum[cycle'.attempt] - Delay(cycle) = WaitSum[cycle.attempt]
      /\ WaitSum[cycle.attempt] \in Nat
  <2>1. WaitSum[cycle.attempt + 1] = WaitSum[cycle.attempt] + Delay(cycle)
    BY <1>1, WaitSumFacts
  <2>2. WaitSum[cycle.attempt] \in Nat
    BY <1>1, WaitSumFacts
  <2> QED
    BY <1>1, <2>1, <2>2
<1>3. cycle.drop # Unset /\ cycle.drop < MaxAge => WaitSum[cycle.attempt] <= cycle.drop
  BY DEF Paced
<1> QED
  BY <1>2, <1>3 DEF Paced

\* Nothing to pay: no wait starts and the drop and its count are as they were.
LEMMA NoWaitPaced ==
  ASSUME CanoInv, Paced, cycle.state \in {"connecting", "live"},
         \A j \in jobs' : j.kind # "wait",
         cycle'.attempt = cycle.attempt, cycle'.drop = cycle.drop
  PROVE  Paced'
BY DEF Paced

LEMMA PacedStep == CanoInv /\ Paced /\ [Next]_vars => Paced'
<1> SUFFICES ASSUME CanoInv, Paced, [Next]_vars PROVE Paced'
  OBVIOUS
<1>0. /\ cycle \in Cycles /\ cycle.attempt \in Nat /\ cycle.drop \in Ages \cup {Unset}
      /\ jobs \subseteq Jobs /\ WaitSum[cycle.attempt] \in Nat
  BY WaitSumFacts DEF CanoInv, TypeOK, Cycles
<1>early. ASSUME ssh \in {"spawning", "login"}, NEW failure \in Failures,
                 Conduct(ExitedEarly(cycle, failure), cycle, jobs)
          PROVE  Paced'
  <2>1. cycle.state = "connecting"
    BY <1>early, EarlyExitOutcome
  <2>2. CASE jobs' = {} /\ cycle' = [cycle EXCEPT !.live = Unset, !.state = "dropped"]
    <3>1. cycle'.attempt = cycle.attempt /\ cycle'.drop = cycle.drop
      BY <1>0, <2>2 DEF Cycles
    <3> QED
      BY <2>1, <2>2, <3>1, NoWaitPaced
  <2>3. CASE /\ cycle' = [cycle EXCEPT !.live = Unset, !.state = "reconnecting",
                                       !.attempt = cycle.attempt + 1,
                                       !.token = NextToken(cycle)]
             /\ jobs' = {[kind |-> "wait", token |-> cycle'.token, left |-> Delay(cycle)]}
    <3>1. /\ cycle'.attempt = cycle.attempt + 1 /\ cycle'.drop = cycle.drop
          /\ cycle'.state = "reconnecting"
      BY <1>0, <2>3 DEF Cycles
    <3> QED
      BY <2>1, <2>3, <3>1, WaitStartsPaced
  <2>4. CASE /\ jobs' = {}
             /\ cycle' = [cycle EXCEPT !.live = Unset, !.state = "failed", !.failure = failure]
    <3>1. cycle'.attempt = cycle.attempt /\ cycle'.drop = cycle.drop
      BY <1>0, <2>4 DEF Cycles
    <3> QED
      BY <2>1, <2>4, <3>1, NoWaitPaced
  <2> QED
    BY <1>early, <2>2, <2>3, <2>4, EarlyExitOutcome
<1>1. CASE UNCHANGED vars
  BY <1>1 DEF vars, Paced
<1>2. CASE Spawned
  BY <1>2 DEF Spawned, Paced
<1>3. CASE SpawnFails
  BY <1>3, <1>early DEF SpawnFails
<1>4. CASE ExitBeforeLogin
  BY <1>4, <1>early DEF ExitBeforeLogin
<1>5. CASE MarkerSeen
  <2>1. /\ cycle.state = "connecting" /\ jobs' = {}
        /\ cycle' = [cycle EXCEPT !.state = "live", !.live = 0, !.failure = "none"]
    BY <1>5, LoginOutcome DEF MarkerSeen
  <2>2. cycle'.attempt = cycle.attempt /\ cycle'.drop = cycle.drop
    BY <1>0, <2>1 DEF Cycles
  <2> QED
    BY <2>1, <2>2, NoWaitPaced
<1>6. CASE ExitAfterLogin
  <2>1. ssh = "up" /\ Conduct(ExitedLoggedIn(cycle), cycle, jobs)
    BY <1>6 DEF ExitAfterLogin
  <2>2. cycle.state = "live" /\ jobs' = {[kind |-> "probe", token |-> cycle'.token]}
    BY <2>1, LostOutcome
  <2>3. CASE cycle' = [cycle EXCEPT !.live = Unset, !.drop = 0, !.attempt = 0,
                                    !.token = NextToken(cycle)]
    <3>1. cycle'.attempt = 0 /\ cycle'.drop = 0
      BY <1>0, <2>3 DEF Cycles
    <3> QED
      BY <2>2, <3>1, WaitSumFacts DEF Paced
  <2>4. CASE cycle' = [cycle EXCEPT !.live = Unset, !.token = NextToken(cycle)]
    <3>1. cycle'.attempt = cycle.attempt /\ cycle'.drop = cycle.drop
      BY <1>0, <2>4 DEF Cycles
    <3> QED
      BY <2>2, <3>1, NoWaitPaced
  <2> QED
    BY <2>1, <2>3, <2>4, LostOutcome
<1>7. ASSUME NEW j \in jobs, ProbeAnswers(j) PROVE Paced'
  <2>1. cycle.state = "live"
    BY <1>7, ProbeOutcome
  <2>2. CASE /\ cycle' = [cycle EXCEPT !.state = "reconnecting",
                                       !.attempt = cycle.attempt + 1,
                                       !.token = NextToken(cycle)]
             /\ jobs' = {[kind |-> "wait", token |-> cycle'.token, left |-> Delay(cycle)]}
    <3>1. /\ cycle'.attempt = cycle.attempt + 1 /\ cycle'.drop = cycle.drop
          /\ cycle'.state = "reconnecting"
      BY <1>0, <2>2 DEF Cycles
    <3> QED
      BY <2>1, <2>2, <3>1, WaitStartsPaced
  <2>3. CASE cycle' = [cycle EXCEPT !.disposed = TRUE] /\ jobs' = {}
    <3>1. cycle'.attempt = cycle.attempt /\ cycle'.drop = cycle.drop
      BY <1>0, <2>3 DEF Cycles
    <3> QED
      BY <2>1, <2>3, <3>1, NoWaitPaced
  <2> QED
    BY <1>7, <2>2, <2>3, ProbeOutcome
<1>8. ASSUME NEW j \in jobs, WaitEnds(j) PROVE Paced'
  <2>1. j.kind = "wait" /\ j.left = 0 /\ jobs' = {}
    BY <1>8, WaitOutcome DEF WaitEnds
  <2>2. cycle'.attempt = cycle.attempt /\ cycle'.drop = cycle.drop
    <3>1. CASE cycle' = [cycle EXCEPT !.state = "dropped"]
      BY <1>0, <3>1 DEF Cycles
    <3>2. CASE cycle' = [cycle EXCEPT !.state = "connecting"]
      BY <1>0, <3>2 DEF Cycles
    <3> QED
      BY <1>8, <3>1, <3>2, WaitOutcome
  <2>3. cycle.drop # Unset /\ cycle.drop < MaxAge => WaitSum[cycle.attempt] - 0 <= cycle.drop
    BY <1>8, <2>1 DEF Paced
  <2> QED
    BY <1>0, <2>1, <2>2, <2>3 DEF Paced
<1>9. CASE OwnerRetries
  <2>1. cycle' = [Connecting EXCEPT !.token = NextToken(cycle)]
    BY <1>9, RetryOutcome
  <2>2. cycle'.drop = Unset
    BY <2>1 DEF Connecting
  <2> QED
    BY <2>2 DEF Paced
<1>10. CASE Tick
  <2>1. /\ cycle'.state = cycle.state /\ cycle'.attempt = cycle.attempt
        /\ cycle'.drop = Older(cycle.drop)
    BY <1>0, <1>10 DEF Tick, Aged, Cycles
  <2> DEFINE later(j) == IF j.kind = "wait" /\ j.left > 0
                         THEN [j EXCEPT !.left = j.left - 1] ELSE j
  <2>2. jobs' = {later(j) : j \in jobs}
    BY <1>10 DEF Tick
  <2>3. \A j \in Jobs : /\ later(j).kind = j.kind
                        /\ j.kind = "wait" => /\ j.left \in Nat /\ later(j).left \in Nat
                                              /\ j.left <= later(j).left + 1
    BY DEF Jobs
  <2> HIDE DEF later
  <2>4. SUFFICES ASSUME cycle'.drop # Unset, cycle'.drop < MaxAge
                 PROVE  /\ cycle'.state \in {"connecting", "live"}
                             => WaitSum[cycle'.attempt] <= cycle'.drop
                        /\ \A j \in jobs' : j.kind = "wait"
                             => WaitSum[cycle'.attempt] - j.left <= cycle'.drop
    BY DEF Paced
  <2>5. /\ cycle.drop # Unset /\ cycle.drop < MaxAge /\ cycle'.drop = cycle.drop + 1
        /\ cycle.drop \in Int
    BY <1>0, <2>1, <2>4, AgeFacts DEF Older, Ages, Unset
  <2>6. cycle'.state \in {"connecting", "live"} => WaitSum[cycle'.attempt] <= cycle'.drop
    BY <1>0, <2>1, <2>5 DEF Paced
  <2>7. ASSUME NEW j \in jobs, later(j).kind = "wait"
        PROVE  WaitSum[cycle'.attempt] - later(j).left <= cycle'.drop
    <3>1. j.kind = "wait" /\ j.left \in Nat /\ later(j).left \in Nat /\ j.left <= later(j).left + 1
      BY <1>0, <2>3, <2>7
    <3>2. WaitSum[cycle.attempt] - j.left <= cycle.drop
      BY <2>5, <3>1 DEF Paced
    <3> QED
      BY <1>0, <2>1, <2>5, <3>1, <3>2
  <2> QED
    BY <2>2, <2>6, <2>7
<1> QED
  BY <1>1, <1>2, <1>3, <1>4, <1>5, <1>6, <1>7, <1>8, <1>9, <1>10 DEF Next

\* The attempts of a drop keep to the table, whatever the table: the n-th wait never
\* ends before the first n waits have passed since the drop began, short logins or not.
THEOREM PaceKept == Spec => []AttemptsArePaced
<1>1. Paced => AttemptsArePaced
  BY DEF Paced, AttemptsArePaced
<1> QED
  BY <1>1, CanoInvariant, PacedInit, PacedStep, PTL DEF Spec
=============================================================================
