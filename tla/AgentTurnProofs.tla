---------------------------- MODULE AgentTurnProofs ----------------------------
(* Theorems about AgentTurn, for any finite set of subagents of any types, any  *)
(* number of turns, and whether or not the threads of the core overlap.         *)
EXTENDS AgentTurn, FiniteSetTheorems, TLAPS

\* What the record says of a subagent, and what a transcript, a watcher or a handler of
\* SubagentStop has seen of it.
RecordIsTrue ==
  /\ \A a \in entry.done : sub[a] = "ended" \/ a \in cut
  /\ \A a \in entry.running : sub[a] \in {"working", "ended"}

EndWasSeen ==
  \A a \in Subagents :
    /\ file[a] = "final" \/ at[a] = "stop" => sub[a] = "ended"
    /\ late[a] # "none" => sub[a] = "ended" \/ a \in cut

\* Who is watched, or was cut off, had begun.
WatchedHaveBegun ==
  /\ \A a \in cut \cup slot.targets : sub[a] \in {"working", "ended"}
  /\ \A x \in Actors : \A a \in held[x] : sub[a] \in {"working", "ended"}

\* The orchestrator is idle in the record only from a Stop to the next tool call: the gate
\* that keeps a silent subagent of a reported turn from being cut off.
IdleIsTrue == entry.idle => known /\ ~InReportedTurn

\* Ending(x): the handler of the Stop of a turn is under way.
Ending == at[Orchestrator] \in {"ask", "hold", "idle", "arm"}

\* The end of a turn is armed once, so a turn that was not stopped has no thread yet.
TurnsInOrder ==
  /\ stopped <= turns
  /\ turn = "open" => stopped < turns
  /\ \A k \in Turns : k > stopped => timer[k] = "none"
  /\ Ending => stopped \in Turns /\ timer[stopped] = "none"

\* A turn that was swallowed will find another generation, and one that was announced
\* can no longer be swallowed.
SwallowedIsStale ==
  /\ \A k \in swallowed : timer[k] = "over" \/ (timer[k] = "asleep" /\ ~fresh[k])
  /\ \A k \in announced : timer[k] = "over"
  /\ NewWorkSwallowsAlert

\* The subagent a tool call asks for is not one the record was told of.
AsksOne ==
  /\ asks # NoOne => at[Orchestrator] \in {"show", "spawn"}
  /\ at[Orchestrator] = "spawn" => asks # NoOne
  /\ asks # NoOne /\ exit = "running" => sub[asks] = "asked"

\* The subagents of a type that were asked for, or work, and have no run of their own:
\* each has a Starting run of its type.
Unpaid(t) == {a \in Subagents : /\ TypeOf[a] = t /\ a # asks
                                /\ sub[a] \in {"asked", "working"} /\ a \notin cut
                                /\ a \notin entry.running}
EveryoneIsCounted ==
  exit = "running" => known /\ \A t \in Types : Cardinality(Unpaid(t)) <= entry.pending[t]

\* The inductive invariant
TurnInv == /\ TypeOK /\ RecordIsTrue /\ EndWasSeen /\ TurnsInOrder /\ SwallowedIsStale
           /\ AsksOne /\ EveryoneIsCounted /\ WatchedHaveBegun /\ IdleIsTrue
-----------------------------------------------------------------------------
\* The record, operation by operation.

LEMMA RearmedFacts ==
  ASSUME NEW e \in Entries
  PROVE  /\ Rearmed(e) \in Entries
         /\ Rearmed(e).running = e.running /\ Rearmed(e).pending = e.pending
         /\ Rearmed(e).done \subseteq e.done
<1>1. CASE e.done # {} /\ ~Active(e)
  <2>1. e.running = {} /\ \A t \in Types : e.pending[t] = 0
    BY <1>1 DEF Active, Entries
  <2>2. e.pending = [t \in Types |-> 0]
    BY <2>1 DEF Entries
  <2>3. Rearmed(e) = NoRuns
    BY <1>1 DEF Rearmed
  <2> QED
    BY <2>1, <2>2, <2>3 DEF NoRuns, Entries
<1>2. CASE ~(e.done # {} /\ ~Active(e))
  BY <1>2 DEF Rearmed
<1> QED
  BY <1>1, <1>2

LEMMA RequestedFacts ==
  ASSUME NEW e \in Entries, NEW t \in Types
  PROVE  /\ Requested(e, t) \in Entries
         /\ Requested(e, t).running = e.running /\ Requested(e, t).done \subseteq e.done
         /\ Requested(e, t).pending = [e.pending EXCEPT ![t] = @ + 1]
<1> DEFINE r == Rearmed(e)
<1>1. r \in Entries /\ r.running = e.running /\ r.pending = e.pending /\ r.done \subseteq e.done
  BY RearmedFacts
<1>2. Requested(e, t) = [r EXCEPT !.pending = [r.pending EXCEPT ![t] = r.pending[t] + 1]]
  BY <1>1 DEF Requested, Entries
<1> HIDE DEF r
<1>3. [r.pending EXCEPT ![t] = r.pending[t] + 1] \in [Types -> Nat]
  BY <1>1 DEF Entries
<1> QED
  BY <1>1, <1>2, <1>3 DEF Entries

LEMMA PromotedFacts ==
  ASSUME NEW e \in Entries, NEW a \in Subagents
  PROVE  /\ Promoted(e, a) \in Entries
         /\ Promoted(e, a).running = e.running \cup {a}
         /\ Promoted(e, a).done \subseteq e.done
         /\ \A t \in Types : Promoted(e, a).pending[t] =
              IF t = TypeOf[a] /\ e.pending[t] > 0 THEN e.pending[t] - 1 ELSE e.pending[t]
<1> DEFINE r == Rearmed(e)
           n == IF e.pending[TypeOf[a]] > 0 THEN e.pending[TypeOf[a]] - 1 ELSE 0
<1>1. r \in Entries /\ r.running = e.running /\ r.pending = e.pending /\ r.done \subseteq e.done
  BY RearmedFacts
<1>2. Promoted(e, a) = [r EXCEPT !.pending = [r.pending EXCEPT ![TypeOf[a]] = n],
                                 !.running = r.running \cup {a}]
  BY <1>1, SubagentAssumption DEF Promoted, Entries
<1>3. [r.pending EXCEPT ![TypeOf[a]] = n] \in [Types -> Nat]
  BY <1>1, SubagentAssumption DEF Entries
<1> DEFINE f == [r.pending EXCEPT ![TypeOf[a]] = n]
<1>4. f \in [Types -> Nat] /\ Promoted(e, a) = [r EXCEPT !.pending = f, !.running = r.running \cup {a}]
  BY <1>2, <1>3
<1>5. \A t \in Types : f[t] = IF t = TypeOf[a] THEN n ELSE r.pending[t]
  BY <1>1 DEF Entries
<1> HIDE DEF r, n, f
<1>6. Promoted(e, a) = [pending |-> f, running |-> e.running \cup {a}, done |-> r.done,
                        coordinated |-> r.coordinated, idle |-> r.idle]
  BY <1>1, <1>4 DEF Entries
<1>7. /\ Promoted(e, a) \in Entries /\ Promoted(e, a).running = e.running \cup {a}
      /\ Promoted(e, a).done \subseteq e.done /\ Promoted(e, a).pending = f
  BY <1>1, <1>4, <1>6 DEF Entries
<1>8. /\ e.pending \in [Types -> Nat] /\ TypeOf[a] \in Types
      /\ n = IF e.pending[TypeOf[a]] > 0 THEN e.pending[TypeOf[a]] - 1 ELSE 0
  BY SubagentAssumption DEF Entries, n
<1>9. \A t \in Types : Promoted(e, a).pending[t] = IF t = TypeOf[a] THEN n ELSE e.pending[t]
  BY <1>1, <1>5, <1>7
<1>10. \A t \in Types : Promoted(e, a).pending[t] =
         IF t = TypeOf[a] /\ e.pending[t] > 0 THEN e.pending[t] - 1 ELSE e.pending[t]
  BY <1>8, <1>9
<1> QED
  BY <1>7, <1>10

LEMMA StoppedFacts ==
  ASSUME NEW e \in Entries, NEW a \in Subagents
  PROVE  /\ Stopped(e, a) \in Entries
         /\ Stopped(e, a).running = e.running \ {a}
         /\ Stopped(e, a).done = e.done \cup {a}
         /\ Stopped(e, a).pending = e.pending
BY DEF Stopped, Entries

LEMMA AllEndedFacts ==
  ASSUME NEW e \in Entries
  PROVE  /\ AllEnded(e) \in Entries
         /\ AllEnded(e).running = {}
         /\ AllEnded(e).done = e.done \cup e.running
BY DEF AllEnded, Entries

LEMMA WithIdleFacts ==
  ASSUME NEW e \in Entries, NEW b \in BOOLEAN
  PROVE  /\ WithIdle(e, b) \in Entries
         /\ WithIdle(e, b).running = e.running /\ WithIdle(e, b).done = e.done
         /\ WithIdle(e, b).pending = e.pending
BY DEF WithIdle, Entries

LEMMA NoRunsFacts ==
  /\ NoRuns \in Entries
  /\ NoRuns.running = {} /\ NoRuns.done = {}
BY DEF NoRuns, Entries
-----------------------------------------------------------------------------
LEMMA NextCases ==
  Next =>
    \/ Prompt \/ SpawnRequested \/ AskPerson \/ EndTurn \/ HasActive \/ HoldRunning
    \/ ShowIdle \/ Arm \/ SessionEnded \/ Lose \/ WatchEnds
    \/ Exit \/ Unwatch \/ Forget \/ MarkExited
    \/ \E x \in Actors : CallTool(x) \/ ShowRunning(x) \/ ShowAwaiting(x) \/ Resume(x) \/ Sync(x)
    \/ \E a \in Subagents : CallSubagent(a) \/ Started(a) \/ Coordinate(a) \/ Finish(a)
                          \/ StopNoted(a) \/ Lower(a)
    \/ \E a \in Subagents : \/ Poll(a) \/ FinishTarget(a)
                           \/ CoordinatorReads(a) \/ CoordinatorWrites(a)
    \/ \E k \in Turns : SettleChecks(k) \/ SettleReads(k) \/ SettleNotifies(k)
BY DEF Next, TurnHook, Reaper, Hook, SubagentHook, Watcher, Settle

Slots == [on : BOOLEAN, targets : SUBSET Subagents, finished : SUBSET Subagents,
          thread : {"polling", "ending", "over"}]

LEMMA SlotFacts ==
  ASSUME NEW s \in Slots, NEW T \in SUBSET Subagents, NEW F \in SUBSET Subagents
  PROVE  /\ NoSlot \in Slots
         /\ s.on \in BOOLEAN /\ s.targets \subseteq Subagents /\ s.finished \subseteq Subagents
         /\ s.thread \in {"polling", "ending", "over"}
         /\ [s EXCEPT !.finished = F] \in Slots
         /\ [s EXCEPT !.targets = T, !.finished = F] \in Slots
         /\ [on |-> TRUE, targets |-> T, finished |-> {}, thread |-> "polling"] \in Slots
         /\ [s EXCEPT !.thread = "ending"] \in Slots /\ [s EXCEPT !.thread = "over"] \in Slots
BY DEF Slots, NoSlot

LEMMA TypeStep == TypeOK /\ AsksOne /\ [Next]_vars => TypeOK'
<1> SUFFICES ASSUME TypeOK, AsksOne, [Next]_vars PROVE TypeOK'
  OBVIOUS
<1> USE SubagentAssumption, TurnAssumption DEF TypeOK, Statuses, Steps, Actors, Turns
<1>Prompt. ASSUME Prompt PROVE TypeOK'
  <2>1. turns \in Nat /\ turns < MaxTurns /\ turns + 1 \in 0..MaxTurns
    BY <1>Prompt DEF Prompt
  <2> QED
    BY <2>1, <1>Prompt DEF Prompt, agent, threads, record, settle, watcher, history
<1>SpawnRequested. ASSUME SpawnRequested PROVE TypeOK'
  <2>1. asks \in Subagents /\ TypeOf[asks] \in Types
    BY <1>SpawnRequested DEF SpawnRequested, AsksOne
  <2>2. entry' \in Entries
    BY <2>1, <1>SpawnRequested, RequestedFacts DEF SpawnRequested
  <2> QED
    BY <2>2, <1>SpawnRequested DEF SpawnRequested, Goes, agent, threads, record, settle, watcher, history
<1>AskPerson. ASSUME AskPerson PROVE TypeOK'
  BY <1>AskPerson DEF AskPerson, Fires, Show, agent, threads, record, settle, watcher, history
<1>EndTurn. ASSUME EndTurn PROVE TypeOK'
  BY <1>EndTurn, WithIdleFacts DEF EndTurn, Fires, agent, threads, record, settle, watcher, history
<1>HasActive. ASSUME HasActive PROVE TypeOK'
  BY <1>HasActive DEF HasActive, Goes, Show, agent, threads, record, settle, watcher, history
<1>HoldRunning. ASSUME HoldRunning PROVE TypeOK'
  BY ZenonT(40), <1>HoldRunning DEF HoldRunning, Goes, Show, NextGeneration, Settling, agent, threads, record, settle, watcher, history
<1>ShowIdle. ASSUME ShowIdle PROVE TypeOK'
  BY <1>ShowIdle DEF ShowIdle, Goes, Show, agent, threads, record, settle, watcher, history
<1>Arm. ASSUME Arm PROVE TypeOK'
  <2>1. /\ timer' \in [Turns -> {"none", "asleep", "checked", "write", "over"}]
        /\ fresh' \in [Turns -> BOOLEAN] /\ swallowed' \subseteq Turns
    BY <1>Arm DEF Arm, Settling
  <2> QED
    BY <2>1, <1>Arm DEF Arm, Goes, agent, threads, record, settle, watcher, history
<1>SessionEnded. ASSUME SessionEnded PROVE TypeOK'
  BY <1>SessionEnded, AllEndedFacts DEF SessionEnded, Fires, Ended, agent, threads, record, settle, watcher, history
<1>Lose. ASSUME Lose PROVE TypeOK'
  <2>1. turn' \in {"none", "over", "open"}
    BY <1>Lose DEF Lose
  <2>0. \/ sub' = sub
        \/ \E a \in Subagents, v \in {"working", "ended"} : sub' = [sub EXCEPT ![a] = v]
    BY <1>Lose DEF Lose, Starts
  <2>2. sub' \in [Subagents -> {"unborn", "asked", "working", "ended"}]
    BY <2>0
  <2> QED
    BY <2>1, <2>2, <1>Lose DEF Lose, agent, threads, record, settle, watcher, history
<1>WatchEnds. ASSUME WatchEnds PROVE TypeOK'
  <2>1. /\ slot \in Slots
        /\ [slot EXCEPT !.thread = "ending"] \in Slots /\ [slot EXCEPT !.thread = "over"] \in Slots
    BY DEF Slots
  <2>2. slot' \in Slots
    BY ZenonT(40), <2>1, <1>WatchEnds DEF WatchEnds
  <2> QED
    BY <2>2, <1>WatchEnds DEF WatchEnds, Slots, agent, threads, record, settle, watcher, history
<1>Exit. ASSUME Exit PROVE TypeOK'
  BY <1>Exit DEF Exit, Ended, agent, threads, record, settle, watcher, history
<1>Unwatch. ASSUME Unwatch PROVE TypeOK'
  <2>1. slot' \in Slots
    BY <1>Unwatch, SlotFacts DEF Unwatch, Slots
  <2> QED
    BY <2>1, <1>Unwatch DEF Unwatch, Slots, agent, threads, record, settle, watcher, history
<1>Forget. ASSUME Forget PROVE TypeOK'
  BY <1>Forget, NoRunsFacts DEF Forget, Goes, Show, agent, threads, record, settle, watcher, history
<1>MarkExited. ASSUME MarkExited PROVE TypeOK'
  BY <1>MarkExited DEF MarkExited, Goes, Show, agent, threads, record, settle, watcher, history
<1>CallTool. ASSUME NEW x \in Actors, CallTool(x) PROVE TypeOK'
  BY ZenonT(40), <1>CallTool, WithIdleFacts DEF CallTool, Fires, NoteWorking, NextGeneration, Settling, agent, threads, record, settle, watcher, history
<1>ShowRunning. ASSUME NEW x \in Actors, ShowRunning(x) PROVE TypeOK'
  BY <1>ShowRunning DEF ShowRunning, Goes, Show, agent, threads, record, settle, watcher, history
<1>ShowAwaiting. ASSUME NEW x \in Actors, ShowAwaiting(x) PROVE TypeOK'
  BY <1>ShowAwaiting DEF ShowAwaiting, Goes, Show, agent, threads, record, settle, watcher, history
<1>Resume. ASSUME NEW x \in Actors, Resume(x) PROVE TypeOK'
  BY <1>Resume DEF Resume, Goes, Show, agent, threads, record, settle, watcher, history
<1>Sync. ASSUME NEW x \in Actors, Sync(x) PROVE TypeOK'
  <2>1. /\ slot \in Slots /\ held[x] \subseteq Subagents
        /\ slot.finished \cap held[x] \subseteq Subagents
    BY SlotFacts DEF Slots
  <2>2. slot' \in Slots
    BY <2>1, <1>Sync, SlotFacts DEF Sync
  <2>3. at' \in [Actors -> Steps]
    BY <1>Sync DEF Sync, Goes
  <2> QED
    BY <2>2, <2>3, <1>Sync DEF Sync, Slots, agent, threads, record, settle, watcher, history
<1>CallSubagent. ASSUME NEW a \in Subagents, CallSubagent(a) PROVE TypeOK'
  BY <1>CallSubagent, WithIdleFacts DEF CallSubagent, Fires, NoteWorking, NextGeneration, Settling, agent, threads, record, settle, watcher, history
<1>Started. ASSUME NEW a \in Subagents, Started(a) PROVE TypeOK'
  <2>1. known => entry' \in Entries
    BY <1>Started, PromotedFacts DEF Started
  <2>2. entry' \in Entries
    BY <2>1, <1>Started DEF Started
  <2>3. entry'.running \subseteq Subagents
    BY <2>2 DEF Entries
  <2>4. /\ sub' \in [Subagents -> {"unborn", "asked", "working", "ended"}]
        /\ at' \in [Actors -> Steps]
    BY <1>Started DEF Started, Starts, Fires
  <2>5. held' \in [Actors -> SUBSET Subagents]
    BY SMTT(30), <2>3, <1>Started DEF Started
  <2>6. then' \in [Actors -> {"reply", "coordinate", "lower"}]
    BY ZenonT(40), <1>Started DEF Started
  <2> QED
    BY <2>2, <2>4, <2>5, <2>6, <1>Started DEF Started, agent, threads, record, settle, watcher, history
<1>Coordinate. ASSUME NEW a \in Subagents, Coordinate(a) PROVE TypeOK'
  <2>1. \A e \in Entries : [e EXCEPT !.coordinated = TRUE] \in Entries
    BY DEF Entries
  <2>2. entry \in Entries /\ NoRuns \in Entries /\ known \in BOOLEAN
    BY NoRunsFacts
  <2>3. \/ known' = TRUE /\ entry' = [entry EXCEPT !.coordinated = TRUE]
        \/ known' = TRUE /\ entry' = [NoRuns EXCEPT !.coordinated = TRUE]
        \/ known' = known /\ entry' = entry
    BY <1>Coordinate DEF Coordinate, record
  <2>4. entry' \in Entries /\ known' \in BOOLEAN
    <3> DEFINE e == [entry EXCEPT !.coordinated = TRUE]
               f == [NoRuns EXCEPT !.coordinated = TRUE]
    <3>1. e \in Entries /\ f \in Entries
      BY <2>1, <2>2
    <3>2. (known' = TRUE /\ entry' = e) \/ (known' = TRUE /\ entry' = f) \/ (known' = known /\ entry' = entry)
      BY <2>3
    <3> HIDE DEF e, f
    <3> QED
      BY <2>2, <3>1, <3>2
  <2> QED
    BY <2>4, <1>Coordinate DEF Coordinate, Goes, agent, threads, record, settle, watcher, history
<1>Finish. ASSUME NEW a \in Subagents, Finish(a) PROVE TypeOK'
  <2>1. at' \in [Actors -> Steps]
    BY <1>Finish DEF Finish, Fires
  <2> QED
    BY <2>1, <1>Finish DEF Finish, agent, threads, record, settle, watcher, history
<1>StopNoted. ASSUME NEW a \in Subagents, StopNoted(a) PROVE TypeOK'
  <2>1. entry' \in Entries
    BY <1>StopNoted, StoppedFacts DEF StopNoted
  <2>2. entry'.running \subseteq Subagents
    BY <2>1 DEF Entries
  <2>3. held' \in [Actors -> SUBSET Subagents] /\ then' \in [Actors -> {"reply", "coordinate", "lower"}]
    BY <2>2, <1>StopNoted DEF StopNoted
  <2>4. at' \in [Actors -> Steps]
    <3>1. at' = [at EXCEPT ![a] = "sync"] \/ at' = [at EXCEPT ![a] = "none"]
      BY <1>StopNoted DEF StopNoted, Goes
    <3> QED
      BY <3>1
  <2> QED
    BY <2>1, <2>3, <2>4, <1>StopNoted DEF StopNoted, agent, settle, watcher, history
<1>Lower. ASSUME NEW a \in Subagents, Lower(a) PROVE TypeOK'
  BY <1>Lower DEF Lower, Goes, Show, agent, threads, record, settle, watcher, history
<1>Poll. ASSUME NEW a \in Subagents, Poll(a) PROVE TypeOK'
  <2>1. slot \in Slots /\ slot.finished \cup {a} \subseteq Subagents
    BY ZenonT(40), SlotFacts DEF Slots
  <2>2. slot' \in Slots
    BY <2>1, <1>Poll, SlotFacts DEF Poll, Marks
  <2>3. cut' \in SUBSET Subagents
    BY <1>Poll DEF Poll, Marks
  <2>4. late' \in [Subagents -> {"none", "finish", "read", "write"}]
    BY <1>Poll DEF Poll, Marks
  <2> QED
    BY <2>2, <2>3, <2>4, <1>Poll DEF Poll, Marks, Slots, agent, threads, record, settle
<1>FinishTarget. ASSUME NEW a \in Subagents, FinishTarget(a) PROVE TypeOK'
  <2>1. entry' \in Entries
    BY <1>FinishTarget, StoppedFacts DEF FinishTarget, FinishedByFile
  <2>2. late' \in [Subagents -> {"none", "finish", "read", "write"}]
    <3>1. late' = [late EXCEPT ![a] = "read"] \/ late' = [late EXCEPT ![a] = "none"]
      BY <1>FinishTarget DEF FinishTarget
    <3> QED
      BY <3>1
  <2> QED
    BY <2>1, <2>2, <1>FinishTarget DEF FinishTarget, agent, threads, record, settle, watcher, history
<1>CoordinatorReads. ASSUME NEW a \in Subagents, CoordinatorReads(a) PROVE TypeOK'
  BY <1>CoordinatorReads DEF CoordinatorReads, Goes, Show, agent, threads, record, settle, watcher, history
<1>CoordinatorWrites. ASSUME NEW a \in Subagents, CoordinatorWrites(a) PROVE TypeOK'
  BY <1>CoordinatorWrites DEF CoordinatorWrites, Goes, Show, agent, threads, record, settle, watcher, history
<1>SettleChecks. ASSUME NEW k \in Turns, SettleChecks(k) PROVE TypeOK'
  BY <1>SettleChecks DEF SettleChecks, Goes, Show, agent, threads, record, settle, watcher, history
<1>SettleReads. ASSUME NEW k \in Turns, SettleReads(k) PROVE TypeOK'
  BY <1>SettleReads DEF SettleReads, Goes, Show, agent, threads, record, settle, watcher, history
<1>SettleNotifies. ASSUME NEW k \in Turns, SettleNotifies(k) PROVE TypeOK'
  BY <1>SettleNotifies DEF SettleNotifies, Goes, Show, agent, threads, record, settle, watcher, history
<1>stutter. CASE UNCHANGED vars
  BY <1>stutter DEF vars, agent, threads, record, settle, watcher, history
<1> QED
  BY NextCases, <1>stutter, <1>Prompt, <1>SpawnRequested, <1>AskPerson, <1>EndTurn, <1>HasActive, <1>HoldRunning, <1>ShowIdle, <1>Arm, <1>SessionEnded, <1>Lose, <1>WatchEnds, <1>Exit, <1>Unwatch, <1>Forget, <1>MarkExited, <1>CallTool, <1>ShowRunning, <1>ShowAwaiting, <1>Resume, <1>Sync, <1>CallSubagent, <1>Started, <1>Coordinate, <1>Finish, <1>StopNoted, <1>Lower, <1>Poll, <1>FinishTarget, <1>CoordinatorReads, <1>CoordinatorWrites, <1>SettleChecks, <1>SettleReads, <1>SettleNotifies
-----------------------------------------------------------------------------
\* Who writes what.

LEMMA RecordWriters ==
  [Next]_vars =>
    \/ UNCHANGED <<known, entry>>
    \/ SpawnRequested \/ EndTurn \/ SessionEnded \/ Forget
    \/ \E x \in Actors : CallTool(x)
    \/ \E a \in Subagents : CallSubagent(a) \/ Started(a) \/ Coordinate(a) \/ StopNoted(a) \/ FinishTarget(a)
BY NextCases DEF vars, record, Prompt, AskPerson, HasActive, HoldRunning, NextGeneration,
   ShowIdle, Arm, Lose, WatchEnds, Exit, Unwatch, MarkExited, ShowRunning, ShowAwaiting,
   Resume, Sync, Finish, Lower, Poll, Marks, CoordinatorReads, CoordinatorWrites, SettleChecks,
   SettleReads, SettleNotifies

LEMMA SubWriters ==
  [Next]_vars =>
    \/ UNCHANGED <<sub>>
    \/ SessionEnded \/ Lose \/ Exit
    \/ \E a \in Subagents : CallSubagent(a) \/ Started(a) \/ Finish(a)
BY NextCases DEF vars, agent, Prompt, SpawnRequested, AskPerson, EndTurn, HasActive,
   HoldRunning, NextGeneration, ShowIdle, Arm, WatchEnds, Unwatch, Forget, MarkExited,
   CallTool, NoteWorking, ShowRunning, ShowAwaiting, Resume, Sync, Coordinate, StopNoted,
   Lower, Poll, Marks, FinishTarget, CoordinatorReads, CoordinatorWrites, SettleChecks, SettleReads,
   SettleNotifies

LEMMA ExitWriters ==
  [Next]_vars =>
    \/ UNCHANGED <<exit>>
    \/ Exit \/ Unwatch \/ Forget \/ MarkExited
BY NextCases DEF vars, Prompt, SpawnRequested, AskPerson, EndTurn, HasActive, HoldRunning,
   NextGeneration, ShowIdle, Arm, SessionEnded, Lose, WatchEnds, CallTool, NoteWorking,
   ShowRunning, ShowAwaiting, Resume, Sync, CallSubagent, Started, Coordinate, Finish,
   StopNoted, Lower, Poll, Marks, FinishTarget, CoordinatorReads, CoordinatorWrites, SettleChecks,
   SettleReads, SettleNotifies

LEMMA AsksWriters ==
  [Next]_vars =>
    \/ UNCHANGED <<asks>>
    \/ SpawnRequested
    \/ \E a \in Subagents : CallSubagent(a)
BY NextCases DEF vars, threads, Prompt, AskPerson, EndTurn, HasActive, HoldRunning,
   NextGeneration, ShowIdle, Arm, SessionEnded, Lose, WatchEnds, Exit, Unwatch, Forget,
   MarkExited, CallTool, NoteWorking, ShowRunning, ShowAwaiting, Resume, Sync, Started,
   Coordinate, Finish, StopNoted, Lower, Poll, Marks, FinishTarget, CoordinatorReads,
   CoordinatorWrites, SettleChecks, SettleReads, SettleNotifies

LEMMA TimerWriters ==
  [Next]_vars =>
    \/ UNCHANGED <<timer, fresh, swallowed, announced>>
    \/ HoldRunning \/ Arm
    \/ \E x \in Actors : CallTool(x)
    \/ \E a \in Subagents : CallSubagent(a)
    \/ \E k \in Turns : SettleChecks(k) \/ SettleReads(k) \/ SettleNotifies(k)
BY NextCases DEF vars, settle, history, Prompt, SpawnRequested, AskPerson, EndTurn, HasActive,
   ShowIdle, SessionEnded, Lose, WatchEnds, Exit, Unwatch, Forget, MarkExited, ShowRunning,
   ShowAwaiting, Resume, Sync, Started, Coordinate, Finish, StopNoted, Lower, Poll, Marks,
   FinishTarget, CoordinatorReads, CoordinatorWrites

LEMMA FileWriters ==
  [Next]_vars =>
    \/ UNCHANGED <<file>>
    \/ \E a \in Subagents : Finish(a)
BY NextCases DEF vars, agent, Prompt, SpawnRequested, AskPerson, EndTurn, HasActive,
   HoldRunning, NextGeneration, ShowIdle, Arm, SessionEnded, Lose, WatchEnds, Exit, Unwatch, Forget, MarkExited,
   CallTool, NoteWorking, ShowRunning, ShowAwaiting, Resume, Sync, CallSubagent, Started,
   Coordinate, StopNoted, Lower, Poll, Marks, FinishTarget, CoordinatorReads, CoordinatorWrites,
   SettleChecks, SettleReads, SettleNotifies

LEMMA LateWriters ==
  [Next]_vars =>
    \/ UNCHANGED <<late>>
    \/ \E a \in Subagents : Poll(a) \/ FinishTarget(a) \/ CoordinatorReads(a) \/ CoordinatorWrites(a)
BY NextCases DEF vars, watcher, Prompt, SpawnRequested, AskPerson, EndTurn, HasActive,
   HoldRunning, NextGeneration, ShowIdle, Arm, SessionEnded, Lose, WatchEnds, Exit, Unwatch,
   Forget, MarkExited, CallTool, NoteWorking, ShowRunning, ShowAwaiting, Resume, Sync,
   CallSubagent, Started, Coordinate, Finish, StopNoted, Lower, SettleChecks, SettleReads,
   SettleNotifies

LEMMA CutWriters ==
  [Next]_vars =>
    \/ UNCHANGED <<cut>>
    \/ \E a \in Subagents : Poll(a)
BY NextCases DEF vars, history, Prompt, SpawnRequested, AskPerson, EndTurn, HasActive,
   HoldRunning, NextGeneration, ShowIdle, Arm, SessionEnded, Lose, WatchEnds, Exit, Unwatch,
   Forget, MarkExited, CallTool, NoteWorking, ShowRunning, ShowAwaiting, Resume, Sync,
   CallSubagent, Started, Coordinate, Finish, StopNoted, Lower, FinishTarget,
   CoordinatorReads, CoordinatorWrites, SettleChecks, SettleReads, SettleNotifies

LEMMA SlotWriters ==
  [Next]_vars =>
    \/ UNCHANGED <<slot>>
    \/ WatchEnds \/ Unwatch
    \/ \E x \in Actors : Sync(x)
    \/ \E a \in Subagents : Poll(a)
BY NextCases DEF vars, watcher, Prompt, SpawnRequested, AskPerson, EndTurn, HasActive,
   HoldRunning, NextGeneration, ShowIdle, Arm, SessionEnded, Lose, Exit,
   Forget, MarkExited, CallTool, NoteWorking, ShowRunning, ShowAwaiting, Resume,
   CallSubagent, Started, Coordinate, Finish, StopNoted, Lower, FinishTarget,
   CoordinatorReads, CoordinatorWrites, SettleChecks, SettleReads, SettleNotifies

LEMMA HeldWriters ==
  [Next]_vars =>
    \/ UNCHANGED <<held>>
    \/ \E x \in Actors : Sync(x)
    \/ \E a \in Subagents : Started(a) \/ StopNoted(a)
BY NextCases DEF vars, threads, Prompt, SpawnRequested, AskPerson, EndTurn, HasActive,
   HoldRunning, NextGeneration, ShowIdle, Arm, SessionEnded, Lose, WatchEnds, Exit, Unwatch,
   Forget, MarkExited, CallTool, NoteWorking, ShowRunning, ShowAwaiting, Resume,
   CallSubagent, Coordinate, Finish, Lower, Poll, Marks, FinishTarget,
   CoordinatorReads, CoordinatorWrites, SettleChecks, SettleReads, SettleNotifies

\* Whoever was cut off stays so.
LEMMA CutStep == TypeOK /\ [Next]_vars => cut \subseteq cut'
BY CutWriters DEF Poll, Marks

LEMMA TurnWriters ==
  [Next]_vars =>
    \/ UNCHANGED <<turn, turns, stopped>>
    \/ Prompt \/ EndTurn \/ SessionEnded \/ Lose \/ Exit
BY NextCases DEF vars, agent, history, SpawnRequested, AskPerson, HasActive, HoldRunning,
   NextGeneration, ShowIdle, Arm, WatchEnds, Unwatch, Forget, MarkExited, CallTool,
   NoteWorking, ShowRunning, ShowAwaiting, Resume, Sync, CallSubagent, Started, Coordinate,
   Finish, StopNoted, Lower, Poll, Marks, FinishTarget, CoordinatorReads, CoordinatorWrites,
   SettleChecks, SettleReads, SettleNotifies

\* A subagent that has ended stays ended, and one that works goes on or ends.
LEMMA SubStep ==
  ASSUME TypeOK, [Next]_vars, NEW a \in Subagents
  PROVE  /\ sub[a] = "ended" => sub'[a] = "ended"
         /\ sub[a] \in {"working", "ended"} => sub'[a] \in {"working", "ended"}
<1> USE DEF TypeOK
<1>CallSubagent. ASSUME NEW b \in Subagents, CallSubagent(b)
                 PROVE  sub[a] \in {"working", "ended"} => sub'[a] = sub[a]
  BY <1>CallSubagent DEF CallSubagent
<1>Started. ASSUME NEW b \in Subagents, Started(b)
            PROVE  sub[a] \in {"working", "ended"} => sub'[a] = sub[a]
  BY <1>Started DEF Started, Starts
<1>Finish. ASSUME NEW b \in Subagents, Finish(b) PROVE sub'[a] = sub[a] \/ sub'[a] = "ended"
  BY <1>Finish DEF Finish
<1>SessionEnded. ASSUME SessionEnded PROVE sub'[a] = sub[a] \/ sub'[a] = "ended"
  BY <1>SessionEnded DEF SessionEnded, Ended
<1>Lose. ASSUME Lose
         PROVE  \/ sub'[a] = sub[a] \/ sub'[a] = "ended"
                \/ sub[a] = "asked" /\ sub'[a] = "working"
  BY <1>Lose DEF Lose, Starts
<1>Exit. ASSUME Exit PROVE sub'[a] = sub[a] \/ sub'[a] = "ended"
  BY <1>Exit DEF Exit, Ended
<1> QED
  BY SubWriters, <1>CallSubagent, <1>Started, <1>Finish, <1>SessionEnded, <1>Lose, <1>Exit

LEMMA RecordStep ==
  TypeOK /\ RecordIsTrue /\ EndWasSeen /\ AsksOne /\ [Next]_vars => RecordIsTrue'
<1> SUFFICES ASSUME TypeOK, RecordIsTrue, EndWasSeen, AsksOne, [Next]_vars
             PROVE  RecordIsTrue'
  OBVIOUS
<1> DEFINE Kept == /\ \A a \in entry'.done : a \in entry.done \/ sub'[a] = "ended" \/ a \in cut'
                   /\ \A a \in entry'.running : a \in entry.running \/ sub'[a] = "working"
<1>0. /\ entry \in Entries /\ entry.done \subseteq Subagents /\ entry.running \subseteq Subagents
      /\ \A a \in Subagents : sub[a] = "ended" => sub'[a] = "ended"
      /\ \A a \in Subagents : sub[a] \in {"working", "ended"} => sub'[a] \in {"working", "ended"}
      /\ cut \subseteq cut'
  BY SubStep, CutStep DEF TypeOK, Entries
<1>1. SUFFICES Kept
  BY <1>0, <1>1 DEF RecordIsTrue
<1>CallTool. ASSUME NEW x \in Actors, CallTool(x) PROVE Kept
  BY <1>0, <1>CallTool, WithIdleFacts DEF CallTool, NoteWorking
<1>CallSubagent. ASSUME NEW a \in Subagents, CallSubagent(a) PROVE Kept
  BY <1>0, <1>CallSubagent, WithIdleFacts DEF CallSubagent, NoteWorking
<1>SpawnRequested. ASSUME SpawnRequested PROVE Kept
  <2>1. TypeOf[asks] \in Types
    BY <1>SpawnRequested, SubagentAssumption DEF SpawnRequested, AsksOne, TypeOK
  <2> QED
    BY <1>0, <2>1, <1>SpawnRequested, RequestedFacts DEF SpawnRequested
<1>EndTurn. ASSUME EndTurn PROVE Kept
  BY <1>0, <1>EndTurn, WithIdleFacts DEF EndTurn
<1>Started. ASSUME NEW a \in Subagents, Started(a) PROVE Kept
  <2>1. sub'[a] = "working"
    BY <1>Started DEF Started, Starts, TypeOK
  <2> QED
    BY <1>0, <2>1, <1>Started, PromotedFacts DEF Started
<1>Coordinate. ASSUME NEW a \in Subagents, Coordinate(a) PROVE Kept
  <2>1. \A e \in Entries : LET f == [e EXCEPT !.coordinated = TRUE]
                           IN  f.done = e.done /\ f.running = e.running
    BY DEF Entries
  <2> QED
    BY <1>0, <2>1, <1>Coordinate, NoRunsFacts DEF Coordinate, record
<1>StopNoted. ASSUME NEW a \in Subagents, StopNoted(a) PROVE Kept
  <2>1. sub[a] = "ended"
    BY <1>StopNoted DEF StopNoted, EndWasSeen
  <2> QED
    BY <1>0, <2>1, <1>StopNoted, StoppedFacts DEF StopNoted
<1>SessionEnded. ASSUME SessionEnded PROVE Kept
  <2>1. \A a \in entry.running : sub'[a] = "ended"
    BY <1>0, <1>SessionEnded DEF SessionEnded, Ended, RecordIsTrue
  <2> QED
    BY <1>0, <2>1, <1>SessionEnded, AllEndedFacts DEF SessionEnded
<1>FinishTarget. ASSUME NEW a \in Subagents, FinishTarget(a) PROVE Kept
  <2>1. sub[a] = "ended" \/ a \in cut
    BY <1>FinishTarget DEF FinishTarget, EndWasSeen
  <2> QED
    BY <1>0, <2>1, <1>FinishTarget, StoppedFacts DEF FinishTarget, FinishedByFile
<1>Forget. ASSUME Forget PROVE Kept
  BY <1>0, <1>Forget, NoRunsFacts DEF Forget
<1> QED
  BY RecordWriters, <1>CallTool, <1>CallSubagent, <1>SpawnRequested, <1>EndTurn, <1>Started,
     <1>Coordinate, <1>StopNoted, <1>SessionEnded, <1>FinishTarget, <1>Forget

LEMMA HandlerWriters ==
  [Next]_vars =>
    \/ UNCHANGED <<at>>
    \/ SpawnRequested \/ AskPerson \/ EndTurn \/ HasActive \/ HoldRunning \/ ShowIdle \/ Arm \/ SessionEnded
    \/ \E x \in Actors : CallTool(x) \/ ShowRunning(x) \/ ShowAwaiting(x) \/ Resume(x) \/ Sync(x)
    \/ \E a \in Subagents : CallSubagent(a) \/ Started(a) \/ Coordinate(a) \/ Finish(a) \/ StopNoted(a) \/ Lower(a)
BY NextCases DEF vars, threads, Prompt, Lose, WatchEnds, Exit, Unwatch, Forget, MarkExited,
   Poll, Marks, FinishTarget, CoordinatorReads, CoordinatorWrites, SettleChecks, SettleReads,
   SettleNotifies

\* A handler comes to the steps of Stop, of the start of a subagent and of SubagentStop
\* from the step before.
LEMMA HandlerSteps ==
  ASSUME TypeOK, [Next]_vars, NEW x \in Actors
  PROVE  \/ at'[x] = at[x]
         \/ at'[x] \in {"none", "gate", "await", "sync", "coordinate", "lower"}
         \/ at'[x] = "stop" /\ x \in Subagents /\ Finish(x)
         \/ at'[x] = "show" /\ at[x] = "none"
         \/ x = Orchestrator /\ at'[x] = "spawn" /\ ShowRunning(x)
         \/ x = Orchestrator /\ at'[x] = "ask" /\ EndTurn
         \/ x = Orchestrator /\ at'[x] \in {"hold", "idle"} /\ HasActive
         \/ x = Orchestrator /\ at'[x] = "arm" /\ ShowIdle
<1> DEFINE Moves == \/ at'[x] = at[x]
                    \/ at'[x] \in {"none", "gate", "await", "sync", "coordinate", "lower"}
<1> USE TurnAssumption DEF TypeOK, Actors, Fires, Goes
<1>1. ASSUME NEW y \in Actors, CallTool(y) PROVE at'[x] = at[x] \/ (at'[x] = "show" /\ at[x] = "none")
  BY <1>1 DEF CallTool
<1>2. ASSUME NEW y \in Actors, ShowRunning(y)
      PROVE Moves \/ (x = Orchestrator /\ at'[x] = "spawn" /\ ShowRunning(x))
  BY <1>2 DEF ShowRunning
<1>3. ASSUME NEW y \in Actors, ShowAwaiting(y) \/ Resume(y) PROVE Moves
  BY <1>3 DEF ShowAwaiting, Resume
<1>4. ASSUME NEW y \in Actors, Sync(y) PROVE Moves
  BY <1>4 DEF Sync
<1>5. ASSUME NEW a \in Subagents, CallSubagent(a)
      PROVE at'[x] = at[x] \/ (at'[x] = "show" /\ at[x] = "none")
  BY <1>5 DEF CallSubagent
<1>6. ASSUME NEW a \in Subagents, Started(a) PROVE Moves
  BY <1>6 DEF Started
<1>7. ASSUME NEW a \in Subagents, Coordinate(a) \/ StopNoted(a) \/ Lower(a) PROVE Moves
  BY <1>7 DEF Coordinate, StopNoted, Lower
<1>8. ASSUME NEW a \in Subagents, Finish(a)
      PROVE at'[x] = at[x] \/ (at'[x] = "stop" /\ x \in Subagents /\ Finish(x))
  BY ZenonT(40), <1>8 DEF Finish
<1>9. ASSUME SpawnRequested \/ AskPerson \/ HoldRunning \/ Arm \/ SessionEnded PROVE Moves
  BY <1>9 DEF SpawnRequested, AskPerson, HoldRunning, Arm, SessionEnded
<1>10. ASSUME EndTurn PROVE at'[x] = at[x] \/ (x = Orchestrator /\ at'[x] = "ask" /\ EndTurn)
  BY <1>10 DEF EndTurn
<1>11. ASSUME HasActive
       PROVE at'[x] = at[x] \/ (x = Orchestrator /\ at'[x] \in {"hold", "idle"} /\ HasActive)
  BY <1>11 DEF HasActive
<1>12. ASSUME ShowIdle PROVE at'[x] = at[x] \/ (x = Orchestrator /\ at'[x] = "arm" /\ ShowIdle)
  BY <1>12 DEF ShowIdle
<1> HIDE DEF Fires, Goes, TypeOK, Actors
<1> QED
  BY HandlerWriters, <1>1, <1>2, <1>3, <1>4, <1>5, <1>6, <1>7, <1>8, <1>9, <1>10, <1>11, <1>12

LEMMA SeenStep ==
  TypeOK /\ EndWasSeen /\ WatchedHaveBegun /\ IdleIsTrue /\ [Next]_vars => EndWasSeen'
<1> SUFFICES ASSUME TypeOK, EndWasSeen, WatchedHaveBegun, IdleIsTrue, [Next]_vars,
                    NEW a \in Subagents
             PROVE  /\ file'[a] = "final" \/ at'[a] = "stop" => sub'[a] = "ended"
                    /\ late'[a] # "none" => sub'[a] = "ended" \/ a \in cut'
  BY DEF EndWasSeen
<1>1. /\ sub[a] = "ended" => sub'[a] = "ended"
      /\ cut \subseteq cut'
  BY SubStep, CutStep
<1>2. /\ file[a] = "final" \/ at[a] = "stop" => sub[a] = "ended"
      /\ late[a] # "none" => sub[a] = "ended" \/ a \in cut
  BY DEF EndWasSeen
<1>3. file'[a] = file[a] \/ sub'[a] = "ended"
  <2>1. ASSUME NEW b \in Subagents, Finish(b) PROVE file'[a] = file[a] \/ sub'[a] = "ended"
    BY <2>1 DEF Finish, TypeOK
  <2> QED
    BY FileWriters, <2>1
<1>4. late'[a] = late[a] \/ late[a] # "none" \/ sub[a] = "ended" \/ a \in cut'
  <2>1. ASSUME NEW b \in Subagents, Poll(b)
        PROVE  late'[a] = late[a] \/ sub[a] = "ended" \/ a \in cut'
    <3>1. late'[a] = late[a] \/ b = a
      BY <2>1 DEF Poll, Marks, TypeOK
    <3>2. CASE b = a
      <4>1. sub[a] \in {"working", "ended"}
        BY <2>1, <3>2 DEF Poll, Marks, WatchedHaveBegun
      <4>2. file[a] = "final" \/ ~InReportedTurn
        BY <2>1, <3>2 DEF Poll, IdleIsTrue
      <4> QED
        BY <1>2, <2>1, <3>2, <4>1, <4>2 DEF Poll, Marks
    <3> QED
      BY <3>1, <3>2
  <2>2. ASSUME NEW b \in Subagents, FinishTarget(b) PROVE late'[a] = late[a] \/ late[a] # "none"
    BY <2>2 DEF FinishTarget, TypeOK
  <2>3. ASSUME NEW b \in Subagents, CoordinatorReads(b) PROVE late'[a] = late[a] \/ late[a] # "none"
    BY <2>3 DEF CoordinatorReads, TypeOK
  <2>4. ASSUME NEW b \in Subagents, CoordinatorWrites(b) PROVE late'[a] = late[a] \/ late[a] # "none"
    BY <2>4 DEF CoordinatorWrites, TypeOK
  <2> QED
    BY LateWriters, <2>1, <2>2, <2>3, <2>4
<1>5. at'[a] # "stop" \/ at[a] = "stop" \/ sub'[a] = "ended"
  <2>1. a \in Actors /\ a # Orchestrator
    BY TurnAssumption DEF Actors
  <2>2. Finish(a) => sub'[a] = "ended"
    BY DEF Finish, TypeOK
  <2> QED
    BY <2>1, <2>2, HandlerSteps
<1> QED
  BY <1>1, <1>2, <1>3, <1>4, <1>5

\* What a handler hands to the watchers were the running ones of the record.
LEMMA BegunStep ==
  TypeOK /\ RecordIsTrue /\ RecordIsTrue' /\ WatchedHaveBegun /\ [Next]_vars => WatchedHaveBegun'
<1> SUFFICES ASSUME TypeOK, RecordIsTrue, RecordIsTrue', WatchedHaveBegun, [Next]_vars
             PROVE  WatchedHaveBegun'
  OBVIOUS
<1>1. /\ \A a \in Subagents : sub[a] \in {"working", "ended"} => sub'[a] \in {"working", "ended"}
      /\ cut \subseteq Subagents /\ slot \in Slots /\ slot.targets \subseteq Subagents
      /\ \A x \in Actors : held[x] \subseteq Subagents
  BY SubStep DEF TypeOK, Slots
<1>2. ASSUME NEW a \in cut' PROVE sub'[a] \in {"working", "ended"}
  <2>1. a \in cut \/ (a \in Subagents /\ sub[a] = "working")
    BY <1>2, CutWriters DEF Poll, Marks
  <2> QED
    BY <1>1, <2>1 DEF WatchedHaveBegun
<1>3. ASSUME NEW a \in slot'.targets PROVE sub'[a] \in {"working", "ended"}
  <2>1. a \in slot.targets \/ \E x \in Actors : a \in held[x]
    <3>1. ASSUME NEW x \in Actors, Sync(x) PROVE a \in slot.targets \/ a \in held[x]
      <4>1. \/ slot' = NoSlot
            \/ slot' = [slot EXCEPT !.targets = held[x], !.finished = @ \cap held[x]]
            \/ slot' = [on |-> TRUE, targets |-> held[x], finished |-> {}, thread |-> "polling"]
        BY <3>1 DEF Sync
      <4>2. NoSlot.targets = {}
        BY DEF NoSlot
      <4>3. [slot EXCEPT !.targets = held[x], !.finished = @ \cap held[x]].targets = held[x]
        BY <1>1 DEF Slots
      <4> QED
        <5>1. CASE slot' = NoSlot
          BY <1>3, <4>2, <5>1
        <5>2. CASE slot' = [slot EXCEPT !.targets = held[x], !.finished = @ \cap held[x]]
          BY <1>3, <4>3, <5>2
        <5>3. CASE slot' = [on |-> TRUE, targets |-> held[x], finished |-> {}, thread |-> "polling"]
          BY <1>3, <5>3
        <5> QED
          BY <4>1, <5>1, <5>2, <5>3
    <3>2. ASSUME NEW b \in Subagents, Poll(b) PROVE a \in slot.targets
      BY <1>1, <1>3, <3>2 DEF Poll, Marks, Slots
    <3>3. ASSUME WatchEnds PROVE a \in slot.targets
      BY <1>1, <1>3, <3>3 DEF WatchEnds, Slots
    <3>4. ASSUME Unwatch PROVE FALSE
      BY <1>3, <3>4 DEF Unwatch, NoSlot
    <3> QED
      BY <1>3, <3>1, <3>2, <3>3, <3>4, SlotWriters
  <2> QED
    BY <1>1, <2>1 DEF WatchedHaveBegun
<1>4. ASSUME NEW x \in Actors, NEW a \in held'[x] PROVE sub'[a] \in {"working", "ended"}
  <2>1. a \in held[x] \/ a \in entry'.running
    <3>1. ASSUME NEW y \in Actors, Sync(y) PROVE a \in held[x]
      BY <1>4, <3>1 DEF Sync, TypeOK
    <3>2. ASSUME NEW b \in Subagents, Started(b) PROVE a \in held[x] \/ a \in entry'.running
      BY <1>4, <3>2 DEF Started, TypeOK
    <3>3. ASSUME NEW b \in Subagents, StopNoted(b) PROVE a \in held[x] \/ a \in entry'.running
      BY <1>4, <3>3 DEF StopNoted, TypeOK
    <3> QED
      BY <1>4, <3>1, <3>2, <3>3, HeldWriters
  <2> QED
    BY <1>1, <2>1 DEF WatchedHaveBegun, RecordIsTrue
<1> QED
  BY <1>2, <1>3, <1>4 DEF WatchedHaveBegun

LEMMA AsksStep ==
  TypeOK /\ AsksOne /\ [Next]_vars => AsksOne'
<1> SUFFICES ASSUME TypeOK, AsksOne, [Next]_vars PROVE AsksOne'
  OBVIOUS
<1> DEFINE o == Orchestrator
<1>1. /\ asks' # NoOne => at'[o] \in {"show", "spawn"}
      /\ at'[o] = "spawn" => asks' # NoOne
  <2>1. ASSUME NEW a \in Subagents, CallSubagent(a)
        PROVE  asks' # NoOne /\ at'[o] = "show"
    BY <2>1, SubagentAssumption DEF CallSubagent, Fires, TypeOK, Actors
  <2>2. ASSUME SpawnRequested PROVE asks' = NoOne /\ at'[o] = "none"
    BY <2>2 DEF SpawnRequested, Goes, TypeOK, Actors
  <2>3. ASSUME asks' = asks, at'[o] # at[o]
        PROVE  /\ asks' # NoOne => at'[o] \in {"show", "spawn"}
               /\ at'[o] = "spawn" => asks' # NoOne
    <3>1. o \in Actors /\ o \notin Subagents
      BY TurnAssumption DEF Actors
    <3>2. asks # NoOne => at[o] \in {"show", "spawn"}
      BY DEF AsksOne
    <3>3. ASSUME NEW x \in Actors, CallTool(x) \/ ShowRunning(x) \/ ShowAwaiting(x) \/ Resume(x) \/ Sync(x)
          PROVE  /\ asks # NoOne => at'[o] \in {"show", "spawn"}
                 /\ at'[o] = "spawn" => asks # NoOne
      BY <2>3, <3>1, <3>2, <3>3 DEF CallTool, ShowRunning, ShowAwaiting, Resume, Sync, Fires, Goes, TypeOK
    <3>4. ASSUME NEW a \in Subagents,
                 Started(a) \/ Coordinate(a) \/ StopNoted(a) \/ Lower(a) \/ Finish(a)
          PROVE  at'[o] = at[o]
      BY <3>1, <3>4 DEF Started, Coordinate, StopNoted, Lower, Finish, Fires, Goes, TypeOK
    <3>5. ASSUME \/ AskPerson \/ HoldRunning \/ Arm \/ SessionEnded \/ EndTurn \/ HasActive \/ ShowIdle
          PROVE  at[o] \notin {"show", "spawn"} /\ at'[o] # "spawn"
      BY ZenonT(40), <3>1, <3>5 DEF AskPerson, HoldRunning, Arm, SessionEnded, EndTurn, HasActive, ShowIdle,
                        Fires, Goes, TypeOK
    <3> QED
      BY <2>3, <2>1, <2>2, <3>2, <3>3, <3>4, <3>5, HandlerWriters
  <2>4. ASSUME asks' = asks, at'[o] = at[o]
        PROVE  /\ asks' # NoOne => at'[o] \in {"show", "spawn"}
               /\ at'[o] = "spawn" => asks' # NoOne
    BY <2>4 DEF AsksOne
  <2> QED
    BY <2>1, <2>2, <2>3, <2>4, AsksWriters
<1>2. asks' # NoOne /\ exit' = "running" => sub'[asks'] = "asked"
  <2> SUFFICES ASSUME asks' # NoOne, exit' = "running" PROVE sub'[asks'] = "asked"
    OBVIOUS
  <2>1. exit = "running"
    BY ExitWriters DEF Exit, Unwatch, Forget, MarkExited
  <2>2. ASSUME NEW a \in Subagents, CallSubagent(a) PROVE sub'[asks'] = "asked"
    BY <2>2 DEF CallSubagent, TypeOK
  <2>3. ~SpawnRequested
    BY DEF SpawnRequested
  <2>4. ASSUME asks' = asks, \A a \in Subagents : ~CallSubagent(a) PROVE sub'[asks'] = "asked"
    <3>1. asks \in Subagents /\ sub[asks] = "asked" /\ at[o] \in {"show", "spawn"}
      BY <2>1, <2>4 DEF AsksOne, TypeOK
    <3>2. ~SessionEnded /\ ~Exit
      BY <3>1, <2>1 DEF SessionEnded, Exit, Actors, TypeOK
    <3>3. ASSUME NEW a \in Subagents, Started(a) \/ Finish(a) PROVE sub'[asks] = sub[asks]
      BY <3>1, <3>3 DEF Started, Starts, Finish, TypeOK
    <3>4. ASSUME Lose PROVE sub'[asks] = sub[asks]
      BY <3>1, <3>4 DEF Lose, Starts, TypeOK
    <3> QED
      BY <2>4, <3>1, <3>2, <3>3, <3>4, SubWriters
  <2> QED
    BY <2>2, <2>3, <2>4, AsksWriters
<1> QED
  BY <1>1, <1>2 DEF AsksOne

LEMMA TurnsStep ==
  TypeOK /\ TurnsInOrder /\ [Next]_vars => TurnsInOrder'
<1> SUFFICES ASSUME TypeOK, TurnsInOrder, [Next]_vars PROVE TurnsInOrder'
  OBVIOUS
<1>0. /\ stopped \in Nat /\ turns \in Nat /\ stopped <= turns /\ turns <= MaxTurns /\ MaxTurns \in Nat
      /\ Orchestrator \in Actors
  BY TurnAssumption DEF TurnsInOrder, TypeOK, Actors
<1>1. ASSUME EndTurn
      PROVE  stopped' = turns /\ turns' = turns /\ turn' # "open" /\ stopped < turns
  BY <1>1 DEF EndTurn, TurnsInOrder
<1>2. stopped' <= turns' /\ (turn' = "open" => stopped' < turns')
  <2>1. ASSUME Prompt PROVE stopped' = stopped /\ turns' = turns + 1
    BY <2>1 DEF Prompt
  <2>2. ASSUME SessionEnded \/ Lose \/ Exit
        PROVE  stopped' = stopped /\ turns' = turns /\ (turn' = "open" => turn = "open")
    BY <2>2 DEF SessionEnded, Lose, Exit, history
  <2> QED
    BY <1>0, <1>1, <2>1, <2>2, TurnWriters DEF TurnsInOrder
<1>3. stopped' >= stopped /\ (stopped' = stopped \/ EndTurn)
  BY <1>0, <1>1, TurnWriters DEF Prompt, SessionEnded, Lose, Exit, history
<1>4. ASSUME NEW k \in Turns, timer[k] = "none", timer'[k] # "none" PROVE Arm /\ k = stopped
  <2>1. Arm => k = stopped
    BY <1>4 DEF Arm, TypeOK
  <2>2. ASSUME NEW j \in Turns, SettleChecks(j) \/ SettleReads(j) \/ SettleNotifies(j) PROVE FALSE
    BY <1>4, <2>2 DEF SettleChecks, SettleReads, SettleNotifies, TypeOK
  <2>3. ASSUME HoldRunning PROVE FALSE
    BY <1>4, <2>3 DEF HoldRunning
  <2>4. ASSUME NEW x \in Actors, CallTool(x) PROVE FALSE
    BY <1>4, <2>4 DEF CallTool, NoteWorking
  <2>5. ASSUME NEW a \in Subagents, CallSubagent(a) PROVE FALSE
    BY <1>4, <2>5 DEF CallSubagent, NoteWorking
  <2> QED
    BY <1>4, <2>1, <2>2, <2>3, <2>4, <2>5, TimerWriters
<1>5. ASSUME NEW k \in Turns, k > stopped' PROVE timer'[k] = "none"
  <2>1. k > stopped /\ k \in Nat
    BY <1>0, <1>3, <1>5, <1>1 DEF Turns
  <2>2. timer[k] = "none" /\ k # stopped
    BY <2>1, <1>0 DEF TurnsInOrder
  <2> QED
    BY <2>2, <1>4
<1>6. ASSUME Ending' PROVE stopped' \in Turns /\ timer'[stopped'] = "none"
  <2>1. CASE EndTurn
    <3>1. stopped' \in Turns /\ timer[turns] = "none" /\ timer' = timer
      BY <1>0, <1>1, <2>1 DEF EndTurn, TurnsInOrder, Turns, settle
    <3> QED
      BY <3>1, <1>1, <2>1
  <2>2. CASE ~EndTurn
    <3>1. ~Arm
      BY <1>0, <1>6 DEF Arm, Goes, Ending, TypeOK
    <3>2. Ending
      BY <1>0, <1>6, <2>2, HandlerSteps DEF Ending, HasActive, ShowIdle
    <3>3. stopped \in Turns /\ timer[stopped] = "none" /\ stopped' = stopped
      BY <3>2, <1>3, <2>2 DEF TurnsInOrder
    <3> QED
      BY <3>1, <3>3, <1>4
  <2> QED
    BY <2>1, <2>2
<1> QED
  BY <1>2, <1>5, <1>6 DEF TurnsInOrder

LEMMA SwallowedStep ==
  TypeOK /\ TurnsInOrder /\ SwallowedIsStale /\ [Next]_vars => SwallowedIsStale'
<1> SUFFICES ASSUME TypeOK, TurnsInOrder, SwallowedIsStale, [Next]_vars PROVE SwallowedIsStale'
  OBVIOUS
<1> USE DEF TypeOK, SwallowedIsStale, NewWorkSwallowsAlert
<1>1. ASSUME NextGeneration, timer' = timer, announced' = announced PROVE SwallowedIsStale'
  BY <1>1 DEF NextGeneration, Settling
<1>2. ASSUME NEW x \in Actors, CallTool(x) PROVE SwallowedIsStale'
  BY <1>1, <1>2 DEF CallTool, NoteWorking
<1>3. ASSUME NEW a \in Subagents, CallSubagent(a) PROVE SwallowedIsStale'
  BY <1>1, <1>3 DEF CallSubagent, NoteWorking
<1>4. ASSUME HoldRunning PROVE SwallowedIsStale'
  BY <1>1, <1>4 DEF HoldRunning
<1>5. ASSUME Arm PROVE SwallowedIsStale'
  <2>1. stopped \in Turns /\ timer[stopped] = "none"
    BY <1>5 DEF Arm, TurnsInOrder, Ending
  <2>2. stopped \notin swallowed /\ stopped \notin announced /\ stopped \notin Settling
    BY <2>1 DEF Settling
  <2>3. /\ \A k \in Turns : k # stopped => timer'[k] = timer[k] /\ ~fresh'[k]
        /\ swallowed' = swallowed \cup Settling /\ announced' = announced
    BY ZenonT(40), <2>1, <1>5 DEF Arm
  <2>4. \A k \in swallowed' : timer'[k] = "over" \/ (timer'[k] = "asleep" /\ ~fresh'[k])
    BY <2>2, <2>3 DEF Settling
  <2>5. \A k \in announced' : timer'[k] = "over"
    BY <2>2, <2>3
  <2>6. announced' \cap swallowed' = {}
    BY <2>3 DEF Settling
  <2> QED
    BY <2>4, <2>5, <2>6
<1>6. ASSUME NEW k \in Turns, SettleChecks(k) PROVE SwallowedIsStale'
  BY <1>6 DEF SettleChecks, history
<1>7. ASSUME NEW k \in Turns, SettleReads(k) PROVE SwallowedIsStale'
  BY <1>7 DEF SettleReads, history
<1>8. ASSUME NEW k \in Turns, SettleNotifies(k) PROVE SwallowedIsStale'
  BY <1>8 DEF SettleNotifies
<1>9. ASSUME UNCHANGED <<timer, fresh, swallowed, announced>> PROVE SwallowedIsStale'
  BY <1>9
<1> QED
  BY TimerWriters, <1>2, <1>3, <1>4, <1>5, <1>6, <1>7, <1>8, <1>9

LEMMA ReportedWriters ==
  [Next]_vars =>
    \/ UNCHANGED reported
    \/ Prompt
    \/ \E x \in Actors : CallTool(x)
    \/ \E a \in Subagents : CallSubagent(a)
BY NextCases DEF vars, history, SpawnRequested, AskPerson, EndTurn, HasActive,
   HoldRunning, NextGeneration, ShowIdle, Arm, SessionEnded, Lose, WatchEnds, Exit, Unwatch,
   Forget, MarkExited, ShowRunning, ShowAwaiting, Resume, Sync, Started,
   Coordinate, Finish, StopNoted, Lower, Poll, Marks, FinishTarget, CoordinatorReads,
   CoordinatorWrites, SettleChecks, SettleReads, SettleNotifies

\* The record says that the orchestrator is idle only if it is.
LEMMA IdleStep ==
  TypeOK /\ AsksOne /\ IdleIsTrue /\ [Next]_vars => IdleIsTrue'
<1> SUFFICES ASSUME TypeOK, AsksOne, IdleIsTrue, [Next]_vars, entry'.idle
             PROVE  known' /\ ~InReportedTurn'
  BY DEF IdleIsTrue
<1>0. entry \in Entries /\ (entry.idle => known /\ ~InReportedTurn)
  BY DEF TypeOK, IdleIsTrue
<1>1. \A e \in Entries : Rearmed(e).idle => e.idle
  BY DEF Rearmed, NoRuns
<1>2. \A e \in Entries, t \in Types : Requested(e, t).idle => e.idle
  <2> SUFFICES ASSUME NEW e \in Entries, NEW t \in Types PROVE Requested(e, t).idle = Rearmed(e).idle
    BY <1>1
  <2> DEFINE r == Rearmed(e)
  <2>1. r \in Entries
    BY RearmedFacts
  <2>2. Requested(e, t) = [r EXCEPT !.pending = [r.pending EXCEPT ![t] = r.pending[t] + 1]]
    BY <2>1 DEF Requested, Entries
  <2> HIDE DEF r
  <2>3. Requested(e, t).idle = r.idle
    BY <2>1, <2>2 DEF Entries
  <2> QED
    BY <2>3 DEF r
<1>3. \A e \in Entries, a \in Subagents : Promoted(e, a).idle => e.idle
  <2> SUFFICES ASSUME NEW e \in Entries, NEW a \in Subagents PROVE Promoted(e, a).idle = Rearmed(e).idle
    BY <1>1
  <2> DEFINE r == Rearmed(e)
             n == IF r.pending[TypeOf[a]] > 0 THEN r.pending[TypeOf[a]] - 1 ELSE 0
             f == [r.pending EXCEPT ![TypeOf[a]] = n]
  <2>1. r \in Entries
    BY RearmedFacts
  <2>2. Promoted(e, a) = [r EXCEPT !.pending = f, !.running = r.running \cup {a}]
    BY <2>1, SubagentAssumption DEF Promoted, Entries
  <2> HIDE DEF r, n, f
  <2>3. Promoted(e, a).idle = r.idle
    BY <2>1, <2>2 DEF Entries
  <2> QED
    BY <2>3 DEF r
<1>4. \A e \in Entries, a \in Subagents : Stopped(e, a).idle = e.idle
  BY DEF Stopped, Entries
<1>5. \A e \in Entries : AllEnded(e).idle = e.idle /\ [e EXCEPT !.coordinated = TRUE].idle = e.idle
  BY DEF AllEnded, Entries
<1>6. \A e \in Entries : ~WithIdle(e, FALSE).idle
  BY DEF WithIdle, Entries
<1>t. ASSUME NEW x \in Actors, CallTool(x) PROVE FALSE
  BY <1>0, <1>6, <1>t DEF CallTool, NoteWorking
<1>s. ASSUME NEW a \in Subagents, CallSubagent(a) PROVE FALSE
  BY <1>0, <1>6, <1>s DEF CallSubagent, NoteWorking
<1>e. ASSUME EndTurn PROVE known' /\ turn' # "open"
  BY <1>0, <1>e DEF EndTurn
<1>i. ASSUME ~EndTurn PROVE entry.idle /\ known'
  <2>1. ASSUME SpawnRequested PROVE entry.idle /\ known'
    <3>1. TypeOf[asks] \in Types
      BY <2>1, SubagentAssumption DEF SpawnRequested, AsksOne, TypeOK
    <3> QED
      BY <1>0, <1>2, <2>1, <3>1 DEF SpawnRequested
  <2>2. ASSUME SessionEnded PROVE entry.idle /\ known'
    BY <1>0, <1>5, <2>2 DEF SessionEnded
  <2>3. ~Forget
    BY DEF Forget, NoRuns
  <2>4. ASSUME NEW a \in Subagents, Started(a) PROVE entry.idle /\ known'
    BY <1>0, <1>3, <2>4 DEF Started
  <2>5. ASSUME NEW a \in Subagents, Coordinate(a) PROVE entry.idle /\ known'
    <3>1. ~[NoRuns EXCEPT !.coordinated = TRUE].idle
      BY DEF NoRuns
    <3>2. \/ known' = TRUE /\ known /\ entry' = [entry EXCEPT !.coordinated = TRUE]
          \/ known' = TRUE /\ entry' = [NoRuns EXCEPT !.coordinated = TRUE]
          \/ known' = known /\ entry' = entry
      BY <2>5 DEF Coordinate, record
    <3> QED
      BY <1>0, <1>5, <3>1, <3>2
  <2>6. ASSUME NEW a \in Subagents, StopNoted(a) PROVE entry.idle /\ known'
    BY <1>0, <1>4, <2>6 DEF StopNoted
  <2>7. ASSUME NEW a \in Subagents, FinishTarget(a) PROVE entry.idle /\ known'
    BY <1>0, <1>4, <2>7 DEF FinishTarget, FinishedByFile
  <2>8. ASSUME UNCHANGED <<known, entry>> PROVE entry.idle /\ known'
    BY <1>0, <2>8
  <2> QED
    BY RecordWriters, <1>i, <1>t, <1>s, <2>1, <2>2, <2>3, <2>4, <2>5, <2>6, <2>7, <2>8
<1>r. reported' => reported
  BY <1>t, <1>s, ReportedWriters DEF Prompt
<1>o. turn' = "open" => turn = "open" \/ ~reported'
  BY TurnWriters DEF Prompt, EndTurn, SessionEnded, Lose, Exit
<1> QED
  BY <1>0, <1>e, <1>i, <1>r, <1>o DEF InReportedTurn

\* What keeps a subagent counted: nobody comes to be unpaid for, or its run was added.
LEMMA CountedStep ==
  TypeOK /\ RecordIsTrue /\ EndWasSeen /\ AsksOne /\ EveryoneIsCounted /\ WatchedHaveBegun
  /\ [Next]_vars => EveryoneIsCounted'
<1> SUFFICES ASSUME TypeOK, RecordIsTrue, EndWasSeen, AsksOne, EveryoneIsCounted,
                    WatchedHaveBegun, [Next]_vars, exit' = "running"
             PROVE  known' /\ \A t \in Types : Cardinality(Unpaid(t)') <= entry'.pending[t]
  BY DEF EveryoneIsCounted
<1> DEFINE Counted == known' /\ \A t \in Types : Cardinality(Unpaid(t)') <= entry'.pending[t]
<1>1. /\ exit = "running" /\ known /\ entry \in Entries /\ entry.pending \in [Types -> Nat]
      /\ \A t \in Types : Cardinality(Unpaid(t)) <= entry.pending[t]
  BY ExitWriters DEF EveryoneIsCounted, TypeOK, Entries, Exit, Unwatch, Forget, MarkExited
<1>c. cut \subseteq cut'
  BY CutStep
<1>2. \A t \in Types : IsFiniteSet(Unpaid(t)) /\ Cardinality(Unpaid(t)) \in Nat
  <2>1. \A t \in Types : Unpaid(t) \subseteq Subagents
    BY DEF Unpaid
  <2> QED
    BY <2>1, FS_Subset, FS_CardinalityType, SubagentAssumption
<1>3. ASSUME known', entry'.pending = entry.pending,
             \A t \in Types : Unpaid(t)' \subseteq Unpaid(t)
      PROVE  Counted
  <2>1. \A t \in Types : Cardinality(Unpaid(t)') <= Cardinality(Unpaid(t)) /\ Cardinality(Unpaid(t)') \in Nat
    BY <1>2, <1>3, FS_Subset, FS_CardinalityType
  <2> QED
    BY <1>1, <1>2, <1>3, <2>1
\* No subagent becomes unpaid for when no run is taken from the running ones, none is asked
\* for and none begins.
<1>4. ASSUME \A a \in Subagents :
               /\ (sub'[a] \in {"asked", "working"} => sub[a] \in {"asked", "working"} \/ a = asks')
               /\ (a = asks => a = asks' \/ sub'[a] = "ended")
               /\ (a \in entry.running => a \in entry'.running \/ sub'[a] = "ended" \/ a \in cut')
      PROVE  \A t \in Types : Unpaid(t)' \subseteq Unpaid(t)
  BY <1>c, <1>4 DEF Unpaid
<1>CallTool. ASSUME NEW x \in Actors, CallTool(x) PROVE Counted
  BY <1>1, <1>3, <1>4, <1>CallTool, WithIdleFacts DEF CallTool, NoteWorking, agent
<1>CallSubagent. ASSUME NEW a \in Subagents, CallSubagent(a) PROVE Counted
  <2>1. asks = NoOne /\ NoOne \notin Subagents
    BY <1>CallSubagent, SubagentAssumption DEF CallSubagent, Fires, AsksOne
  <2>2. entry'.pending = entry.pending /\ entry'.running = entry.running /\ known'
    BY <1>1, <1>CallSubagent, WithIdleFacts DEF CallSubagent, NoteWorking
  <2>3. \A t \in Types : Unpaid(t)' \subseteq Unpaid(t)
    BY <1>c, <2>1, <2>2, <1>CallSubagent DEF CallSubagent, Unpaid, TypeOK
  <2> QED
    BY <1>3, <2>2, <2>3
<1>SpawnRequested. ASSUME SpawnRequested PROVE Counted
  <2>1. asks \in Subagents /\ TypeOf[asks] \in Types
    BY <1>SpawnRequested, SubagentAssumption DEF SpawnRequested, AsksOne, TypeOK
  <2>2. /\ known' /\ entry'.running = entry.running /\ sub' = sub /\ asks' = NoOne
        /\ entry'.pending = [entry.pending EXCEPT ![TypeOf[asks]] = @ + 1]
    BY <1>1, <2>1, <1>SpawnRequested, RequestedFacts DEF SpawnRequested, agent
  <2>3. ASSUME NEW t \in Types PROVE Cardinality(Unpaid(t)') <= entry'.pending[t]
    <3>1. CASE t = TypeOf[asks]
      <4>1. Unpaid(t)' \subseteq Unpaid(t) \cup {asks}
        BY <1>c, <2>2 DEF Unpaid
      <4>2. /\ IsFiniteSet(Unpaid(t) \cup {asks})
            /\ Cardinality(Unpaid(t) \cup {asks}) <= Cardinality(Unpaid(t)) + 1
            /\ Cardinality(Unpaid(t) \cup {asks}) \in Nat
        BY <1>2, FS_AddElement, FS_CardinalityType
      <4>3. /\ Cardinality(Unpaid(t)') <= Cardinality(Unpaid(t) \cup {asks})
            /\ Cardinality(Unpaid(t)') \in Nat
        BY <4>1, <4>2, FS_Subset, FS_CardinalityType
      <4>4. entry'.pending[t] = entry.pending[t] + 1
        BY <1>1, <2>2, <3>1
      <4> QED
        BY <1>1, <1>2, <4>2, <4>3, <4>4
    <3>2. CASE t # TypeOf[asks]
      <4>1. Unpaid(t)' \subseteq Unpaid(t)
        BY <1>c, <2>2, <3>2 DEF Unpaid
      <4>2. Cardinality(Unpaid(t)') <= Cardinality(Unpaid(t)) /\ Cardinality(Unpaid(t)') \in Nat
        BY <1>2, <4>1, FS_Subset, FS_CardinalityType
      <4>3. entry'.pending[t] = entry.pending[t]
        BY <1>1, <2>1, <2>2, <3>2
      <4> QED
        BY <1>1, <1>2, <4>2, <4>3
    <3> QED
      BY <3>1, <3>2
  <2> QED
    BY <2>2, <2>3
<1>EndTurn. ASSUME EndTurn PROVE Counted
  BY <1>1, <1>3, <1>4, <1>EndTurn, WithIdleFacts DEF EndTurn
<1>Started. ASSUME NEW a \in Subagents, Started(a) PROVE Counted
  <2>1. /\ sub[a] = "asked" /\ asks # a /\ asks' = asks /\ known' = known
        /\ sub' = [sub EXCEPT ![a] = "working"] /\ TypeOf[a] \in Types
    BY <1>Started, SubagentAssumption DEF Started, Starts
  <2>2. a \notin entry.running /\ a \notin cut
    BY <2>1 DEF RecordIsTrue, WatchedHaveBegun
  <2>3. /\ entry'.running = entry.running \cup {a}
        /\ \A t \in Types : entry'.pending[t] =
             IF t = TypeOf[a] /\ entry.pending[t] > 0 THEN entry.pending[t] - 1 ELSE entry.pending[t]
    BY <1>1, <1>Started, PromotedFacts DEF Started
  <2>4. ASSUME NEW t \in Types PROVE Cardinality(Unpaid(t)') <= entry'.pending[t]
    <3>1. CASE t = TypeOf[a]
      <4>1. a \in Unpaid(t) /\ Unpaid(t)' \subseteq Unpaid(t) \ {a}
        BY <1>c, <2>1, <2>2, <2>3, <3>1 DEF Unpaid, TypeOK
      <4>2. /\ IsFiniteSet(Unpaid(t) \ {a})
            /\ Cardinality(Unpaid(t) \ {a}) = Cardinality(Unpaid(t)) - 1
            /\ Cardinality(Unpaid(t) \ {a}) \in Nat
        BY <1>2, <4>1, FS_RemoveElement, FS_CardinalityType
      <4>3. /\ Cardinality(Unpaid(t)') <= Cardinality(Unpaid(t) \ {a})
            /\ Cardinality(Unpaid(t)') \in Nat
        BY <4>1, <4>2, FS_Subset, FS_CardinalityType
      <4>4. entry.pending[t] \in Nat /\ Cardinality(Unpaid(t)) <= entry.pending[t]
        BY <1>1
      <4> QED
        BY <1>2, <2>3, <3>1, <4>2, <4>3, <4>4
    <3>2. CASE t # TypeOf[a]
      <4>1. Unpaid(t)' \subseteq Unpaid(t)
        BY <1>c, <2>1, <2>3, <3>2 DEF Unpaid, TypeOK
      <4>2. Cardinality(Unpaid(t)') <= Cardinality(Unpaid(t)) /\ Cardinality(Unpaid(t)') \in Nat
        BY <1>2, <4>1, FS_Subset, FS_CardinalityType
      <4>3. entry'.pending[t] = entry.pending[t] /\ entry.pending[t] \in Nat
        BY <1>1, <2>3, <3>2
      <4> QED
        BY <1>1, <1>2, <4>2, <4>3
    <3> QED
      BY <3>1, <3>2
  <2> QED
    BY <1>1, <2>1, <2>4
<1>Coordinate. ASSUME NEW a \in Subagents, Coordinate(a) PROVE Counted
  <2>1. LET f == [entry EXCEPT !.coordinated = TRUE]
        IN  f.pending = entry.pending /\ f.running = entry.running
    BY <1>1 DEF Entries
  <2>2. known' /\ entry'.pending = entry.pending /\ entry'.running = entry.running
    BY <1>1, <2>1, <1>Coordinate DEF Coordinate, record
  <2> QED
    BY <1>3, <1>4, <2>2, <1>Coordinate DEF Coordinate, agent
<1>StopNoted. ASSUME NEW a \in Subagents, StopNoted(a) PROVE Counted
  <2>1. sub[a] = "ended"
    BY <1>StopNoted DEF StopNoted, EndWasSeen
  <2>2. known' /\ entry'.pending = entry.pending /\ entry.running \ {a} \subseteq entry'.running
    BY <1>1, <1>StopNoted, StoppedFacts DEF StopNoted
  <2> QED
    BY <1>3, <1>4, <2>1, <2>2, <1>StopNoted DEF StopNoted, agent
<1>SessionEnded. ASSUME SessionEnded PROVE Counted
  <2>1. \A t \in Types : Unpaid(t)' = {}
    BY <1>SessionEnded DEF SessionEnded, Ended, Unpaid, TypeOK
  <2>2. known' /\ entry'.pending \in [Types -> Nat]
    BY <1>1, <1>SessionEnded, AllEndedFacts DEF SessionEnded, Entries
  <2> QED
    BY <2>1, <2>2, FS_EmptySet
<1>FinishTarget. ASSUME NEW a \in Subagents, FinishTarget(a) PROVE Counted
  <2>1. sub[a] = "ended" \/ a \in cut'
    BY <1>c, <1>FinishTarget DEF FinishTarget, EndWasSeen
  <2>2. known' /\ entry'.pending = entry.pending /\ entry.running \ {a} \subseteq entry'.running
    BY <1>1, <1>FinishTarget, StoppedFacts DEF FinishTarget, FinishedByFile
  <2> QED
    BY <1>3, <1>4, <2>1, <2>2, <1>FinishTarget DEF FinishTarget, agent, threads
<1>Forget. ASSUME Forget PROVE FALSE
  BY <1>1, <1>Forget DEF Forget
<1>5. ASSUME UNCHANGED <<known, entry>> PROVE Counted
  <2>1. CASE SpawnRequested \/ \E a \in Subagents : CallSubagent(a) \/ Started(a)
    BY <2>1, <1>SpawnRequested, <1>CallSubagent, <1>Started
  <2>2. CASE asks' = asks /\ \A a \in Subagents : sub'[a] \in {sub[a], "ended"}
    BY <1>1, <1>3, <1>4, <1>5, <2>2
  <2>3. CASE Lose
    <3>1. \A a \in Subagents :
            sub'[a] = sub[a] \/ sub'[a] = "ended" \/ (sub[a] = "asked" /\ sub'[a] = "working")
      BY <2>3 DEF Lose, Starts, TypeOK
    <3>2. asks' = asks
      BY <2>3 DEF Lose, threads
    <3> QED
      BY <1>1, <1>3, <1>4, <1>5, <3>1, <3>2
  <2>4. ASSUME NEW a \in Subagents, Finish(a)
        PROVE  \A b \in Subagents : sub'[b] \in {sub[b], "ended"}
    BY <2>4 DEF Finish, TypeOK
  <2>5. SessionEnded \/ Exit => \A b \in Subagents : sub'[b] \in {sub[b], "ended"}
    BY DEF SessionEnded, Exit, Ended
  <2> QED
    BY AsksWriters, SubWriters, <2>1, <2>2, <2>3, <2>4, <2>5
<1> QED
  BY RecordWriters, <1>CallTool, <1>CallSubagent, <1>SpawnRequested, <1>EndTurn, <1>Started,
     <1>Coordinate, <1>StopNoted, <1>SessionEnded, <1>FinishTarget, <1>Forget, <1>5

-----------------------------------------------------------------------------
\* TurnInv holds at the start, and no step of an agent, a handler, a watcher, a settling
\* thread or the reaper breaks it.
THEOREM TurnInvariant == Spec => []TurnInv
<1>1. Init => TurnInv
  <2> SUFFICES ASSUME Init PROVE TurnInv
    OBVIOUS
  <2>1. slot \in Slots /\ entry \in Entries
    BY NoRunsFacts DEF Init, Slots, NoSlot
  <2>2. TypeOK
    <3>1. /\ 0 \in 0..MaxTurns /\ turns \in 0..MaxTurns /\ stopped \in 0..MaxTurns
      BY TurnAssumption DEF Init
    <3>2. /\ at \in [Actors -> Steps] /\ held \in [Actors -> SUBSET Subagents]
          /\ then \in [Actors -> {"reply", "coordinate", "lower"}]
      BY DEF Init, Steps
    <3> QED
      BY <2>1, <3>1, <3>2 DEF Init, TypeOK, Slots, Statuses
  <2>3. RecordIsTrue /\ EndWasSeen /\ AsksOne /\ SwallowedIsStale
    BY NoRunsFacts, TurnAssumption
    DEF Init, RecordIsTrue, EndWasSeen, AsksOne, SwallowedIsStale, NewWorkSwallowsAlert, Actors
  <2>7. WatchedHaveBegun /\ IdleIsTrue
    BY DEF Init, NoRuns, NoSlot, WatchedHaveBegun, IdleIsTrue
  <2>4. TurnsInOrder
    BY TurnAssumption DEF Init, TurnsInOrder, Ending, Actors, Turns
  <2>5. \A t \in Types : Unpaid(t) = {}
    BY DEF Init, Unpaid
  <2>6. EveryoneIsCounted
    <3>1. known /\ \A t \in Types : entry.pending[t] = 0
      BY DEF Init, NoRuns
    <3> QED
      BY <2>5, <3>1, FS_EmptySet DEF EveryoneIsCounted
  <2> QED
    BY <2>2, <2>3, <2>4, <2>6, <2>7 DEF TurnInv
<1>2. TurnInv /\ [Next]_vars => TurnInv'
  BY TypeStep, RecordStep, SeenStep, TurnsStep, SwallowedStep, AsksStep, CountedStep,
     BegunStep, IdleStep DEF TurnInv
<1> QED
  BY <1>1, <1>2, PTL DEF Spec

\* Every variable keeps the type its declaration in agent/session.rs, agent/subagents.rs or
\* status/subagent_transcript.rs gives it.
THEOREM TypeCorrect == Spec => []TypeOK
<1>1. TurnInv => TypeOK
  BY DEF TurnInv
<1> QED
  BY <1>1, TurnInvariant, PTL

\* A subagent that was asked for or works has a run of its own that is active, but for the
\* one the handler of a tool call is just asking for and those that were cut off.
LEMMA AllAreActive ==
  TypeOK /\ EveryoneIsCounted /\ exit = "running" =>
    \A a \in Subagents \ cut : sub[a] \in {"asked", "working"} /\ a # asks => Active(entry)
<1> SUFFICES ASSUME TypeOK, EveryoneIsCounted, exit = "running",
                    NEW a \in Subagents \ cut, sub[a] \in {"asked", "working"}, a # asks
             PROVE  Active(entry)
  OBVIOUS
<1>1. CASE a \in entry.running
  BY <1>1 DEF Active
<1>2. CASE a \notin entry.running
  <2> DEFINE t == TypeOf[a]
  <2>1. t \in Types /\ a \in Unpaid(t) /\ Unpaid(t) \subseteq Subagents
    BY <1>2, SubagentAssumption DEF Unpaid
  <2>2. /\ IsFiniteSet(Unpaid(t)) /\ Cardinality(Unpaid(t)) \in Nat
        /\ Cardinality(Unpaid(t)) # 0
    BY <2>1, FS_Subset, FS_CardinalityType, FS_EmptySet, SubagentAssumption
  <2>3. Cardinality(Unpaid(t)) <= entry.pending[t] /\ entry.pending[t] \in Nat
    BY <2>1 DEF EveryoneIsCounted, TypeOK, Entries
  <2>4. entry.pending[t] > 0
    BY <2>2, <2>3
  <2> QED
    BY <2>1, <2>4 DEF Active
<1> QED
  BY <1>1, <1>2

\* A subagent that works is active in the record (WorkIsCounted), unless it was silent for
\* 120 s while no reported turn was open: a Stop never takes the session for idle because a
\* SubagentStart was lost, a round was rearmed, a conversation ended or a watcher was late.
THEOREM WorkCounted == Spec => []WorkIsCounted
<1>1. TurnInv => WorkIsCounted
  <2> SUFFICES ASSUME TurnInv, known, exit = "running", NEW a \in Subagents, AtWork(a)
               PROVE  Active(entry)
    BY DEF WorkIsCounted
  <2>1. a # asks /\ a \notin cut /\ sub[a] = "working"
    BY SubagentAssumption DEF TurnInv, AsksOne, AtWork
  <2> QED
    BY <2>1, AllAreActive DEF TurnInv
<1> QED
  BY <1>1, TurnInvariant, PTL

\* A run is Done only when its subagent has ended or was cut off while no reported turn was
\* open (DoneIsOver), whichever of its stop, its transcript and the end of the conversation
\* was applied first: the idle gate of the poll covers every subagent that works while the
\* orchestrator does.
THEOREM DoneOver == Spec => []DoneIsOver
<1>1. TurnInv => DoneIsOver
  BY DEF TurnInv, RecordIsTrue, DoneIsOver
<1> QED
  BY <1>1, TurnInvariant, PTL

\* A turn that was settling when a tool was called or another turn ended is never notified
\* (NewWorkSwallowsAlert), however the sleeping threads of several turns interleave.
THEOREM AlertSwallowed == Spec => []NewWorkSwallowsAlert
<1>1. TurnInv => NewWorkSwallowsAlert
  BY DEF TurnInv, SwallowedIsStale
<1> QED
  BY <1>1, TurnInvariant, PTL
-----------------------------------------------------------------------------
(* Work is shown, where the threads of the core run one after the other.       *)

Settles(k) == timer[k] \in {"checked", "write"}

OneAtATime ==
  /\ \A x, y \in Actors : at[x] # "none" /\ at[y] # "none" => x = y
  /\ \A k, l \in Turns : Settles(k) /\ Settles(l) => k = l
  /\ \A a, b \in Subagents : late[a] # "none" /\ late[b] # "none" => a = b
  /\ \A x \in Actors, k \in Turns : at[x] = "none" \/ ~Settles(k)
  /\ \A x \in Actors, a \in Subagents : at[x] = "none" \/ late[a] = "none"
  /\ \A k \in Turns, a \in Subagents : ~Settles(k) \/ late[a] = "none"

\* Work that is under way, or asked for.
Outstanding == \/ InReportedTurn
               \/ \E a \in Subagents \ cut : sub[a] \in {"asked", "working"}

\* A thread has decided that nothing works, and is about to write Idle.
Lowering ==
  \/ at[Orchestrator] = "idle"
  \/ \E x \in Actors : at[x] = "lower" \/ then[x] = "lower"
  \/ \E a \in Subagents : late[a] \in {"read", "write"}

\* What holds of the status while the process runs: whoever lowers it saw the end of all
\* work, and while work is shown Idle a handler is about to show it.
Shown ==
  /\ OneAtATime
  /\ \A x \in Actors : then[x] # "reply" => at[x] = "sync"
  /\ Lowering => ~Outstanding
  /\ status = "idle" /\ Outstanding => \E x \in Actors : at[x] = "show"
  /\ Ending => turn # "open"
  /\ \A k \in Turns : timer[k] = "write" => status = "idle"

ShownInv == exit = "running" => Shown

LEMMA StatusWriters ==
  [Next]_vars =>
    \/ UNCHANGED status
    \/ AskPerson \/ HoldRunning \/ ShowIdle \/ MarkExited
    \/ \E x \in Actors : ShowRunning(x) \/ ShowAwaiting(x) \/ Resume(x)
    \/ \E a \in Subagents : Lower(a) \/ CoordinatorWrites(a)
    \/ \E k \in Turns : SettleNotifies(k)
BY NextCases DEF vars, Prompt, SpawnRequested, EndTurn, HasActive, Arm, SessionEnded, Lose,
   WatchEnds, Exit, Unwatch, Forget, CallTool, NoteWorking, Sync, CallSubagent, Started,
   Coordinate, Finish, StopNoted, Poll, Marks, FinishTarget, CoordinatorReads, SettleChecks, SettleReads

LEMMA ThenWriters ==
  [Next]_vars =>
    \/ UNCHANGED then
    \/ \E x \in Actors : Sync(x)
    \/ \E a \in Subagents : Started(a) \/ StopNoted(a)
BY NextCases DEF vars, threads, Prompt, SpawnRequested, AskPerson, EndTurn, HasActive,
   HoldRunning, NextGeneration, ShowIdle, Arm, SessionEnded, Lose, WatchEnds, Exit, Unwatch,
   Forget, MarkExited, CallTool, NoteWorking, ShowRunning, ShowAwaiting, Resume, CallSubagent,
   Coordinate, Finish, Lower, Poll, Marks, FinishTarget, CoordinatorReads, CoordinatorWrites,
   SettleChecks, SettleReads, SettleNotifies

\* New work begins with a handler that is about to show it, and alone.
LEMMA WorkBegins ==
  ASSUME ~Overlap, TypeOK, [Next]_vars, exit' = "running", Outstanding', ~Outstanding
  PROVE  /\ ~Deciding /\ then' = then /\ late' = late /\ timer' = timer
         /\ \E x \in Actors : at[x] = "none" /\ at' = [at EXCEPT ![x] = "show"]
<1> DEFINE Goal == /\ ~Deciding /\ then' = then /\ late' = late /\ timer' = timer
                   /\ \E x \in Actors : at[x] = "none" /\ at' = [at EXCEPT ![x] = "show"]
<1>1. ASSUME NEW x \in Actors, CallTool(x) PROVE Goal
  BY <1>1 DEF CallTool, Fires, MayBegin, NoteWorking, watcher
<1>2. ASSUME NEW a \in Subagents, CallSubagent(a) PROVE Goal
  <2>1. Orchestrator \in Actors
    BY DEF Actors
  <2> QED
    BY <1>2, <2>1 DEF CallSubagent, Fires, MayBegin, NoteWorking, watcher
<1>3. ASSUME \A x \in Actors : ~CallTool(x), \A a \in Subagents : ~CallSubagent(a) PROVE FALSE
  <2>1. reported' => reported
    BY <1>3, ReportedWriters DEF Prompt
  <2>2. turn' = "open" => turn = "open" \/ ~reported'
    BY TurnWriters DEF Prompt, EndTurn, SessionEnded, Lose, Exit
  <2>3. ASSUME NEW a \in Subagents \ cut', sub'[a] \in {"asked", "working"}
        PROVE  a \notin cut /\ sub[a] \in {"asked", "working"}
    <3>0. a \notin cut
      BY CutStep
    <3>1. ASSUME SessionEnded PROVE FALSE
      BY <2>3, <3>1 DEF SessionEnded, Ended
    <3>2. ASSUME Exit PROVE FALSE
      BY <2>3, <3>2 DEF Exit
    <3>3. ASSUME NEW b \in Subagents, Started(b) PROVE sub[a] \in {"asked", "working"}
      BY <2>3, <3>3 DEF Started, Starts, TypeOK
    <3>4. ASSUME NEW b \in Subagents, Finish(b) PROVE sub[a] \in {"asked", "working"}
      BY <2>3, <3>4 DEF Finish, TypeOK
    <3>5. ASSUME Lose PROVE sub[a] \in {"asked", "working"}
      BY <2>3, <3>5 DEF Lose, Starts, TypeOK
    <3> QED
      BY <1>3, <2>3, <3>0, <3>1, <3>2, <3>3, <3>4, <3>5, SubWriters
  <2> QED
    BY <2>1, <2>2, <2>3 DEF Outstanding, InReportedTurn
<1> QED
  BY <1>1, <1>2, <1>3

\* A thread begins alone, or those that are under way go on.
LEMMA ThreadBegins ==
  ASSUME ~Overlap, TypeOK, [Next]_vars
  PROVE  \/ /\ \A x \in Actors : at'[x] # "none" => at[x] # "none"
            /\ \A k \in Turns : Settles(k)' => Settles(k)
            /\ \A a \in Subagents : late'[a] # "none" => late[a] # "none"
         \/ /\ ~Deciding /\ timer' = timer /\ late' = late
            /\ \E x \in Actors : \A y \in Actors : y # x => at'[y] = at[y]
         \/ /\ ~Deciding /\ timer' = timer /\ at' = at
            /\ \E a \in Subagents : \A b \in Subagents : b # a => late'[b] = late[b]
         \/ /\ ~Deciding /\ late' = late /\ at' = at
            /\ \E k \in Turns : \A l \in Turns : l # k => timer'[l] = timer[l]
<1> DEFINE A == \A x \in Actors : at'[x] # "none" => at[x] # "none"
           B == /\ ~Deciding /\ timer' = timer /\ late' = late
                /\ \E x \in Actors : \A y \in Actors : y # x => at'[y] = at[y]
<1> USE DEF TypeOK, Settles
<1>o. Orchestrator \in Actors /\ Subagents \subseteq Actors
  BY DEF Actors
<1>1. A \/ B
  <2> USE <1>o DEF Fires, Goes, MayBegin
  <2>1. ASSUME NEW x \in Actors, CallTool(x) PROVE B
    BY <2>1 DEF CallTool, NoteWorking, watcher
  <2>2. ASSUME NEW x \in Actors, ShowRunning(x) \/ ShowAwaiting(x) \/ Resume(x) \/ Sync(x) PROVE A
    BY <2>2 DEF ShowRunning, ShowAwaiting, Resume, Sync
  <2>3. ASSUME NEW a \in Subagents, CallSubagent(a) PROVE B
    BY <2>3 DEF CallSubagent, NoteWorking, watcher
  <2>4. ASSUME NEW a \in Subagents, Started(a) PROVE B
    BY <2>4 DEF Started, settle, watcher
  <2>5. ASSUME NEW a \in Subagents, Finish(a) PROVE A \/ B
    BY <2>5 DEF Finish, settle, watcher
  <2>6. ASSUME NEW a \in Subagents, Coordinate(a) \/ StopNoted(a) \/ Lower(a) PROVE A
    BY <2>6 DEF Coordinate, StopNoted, Lower
  <2>7. ASSUME EndTurn \/ SessionEnded PROVE B
    BY ZenonT(40), <2>7 DEF EndTurn, SessionEnded, settle, watcher
  <2>8. ASSUME SpawnRequested \/ AskPerson \/ HasActive \/ HoldRunning \/ ShowIdle \/ Arm PROVE A
    BY <2>8 DEF SpawnRequested, AskPerson, HasActive, HoldRunning, ShowIdle, Arm
  <2> HIDE DEF Fires, Goes, MayBegin
  <2> QED
    BY HandlerWriters, <2>1, <2>2, <2>3, <2>4, <2>5, <2>6, <2>7, <2>8
<1>2. \/ \A k \in Turns : Settles(k)' => Settles(k)
      \/ /\ ~Deciding /\ late' = late /\ at' = at
         /\ \E k \in Turns : \A l \in Turns : l # k => timer'[l] = timer[l]
  <2>1. ASSUME NEW k \in Turns, SettleChecks(k)
        PROVE  /\ ~Deciding /\ late' = late /\ at' = at
               /\ \A l \in Turns : l # k => timer'[l] = timer[l]
    BY <2>1 DEF SettleChecks, MayBegin, threads, watcher
  <2>2. ASSUME NEW k \in Turns, SettleReads(k) \/ SettleNotifies(k)
        PROVE  \A l \in Turns : Settles(l)' => Settles(l)
    BY <2>2 DEF SettleReads, SettleNotifies
  <2>3. ASSUME Arm PROVE \A l \in Turns : Settles(l)' => Settles(l)
    BY <2>3 DEF Arm
  <2>4. ASSUME timer' = timer PROVE \A l \in Turns : Settles(l)' => Settles(l)
    BY <2>4
  <2> QED
    BY ZenonT(40), TimerWriters, <2>1, <2>2, <2>3, <2>4 DEF HoldRunning, CallTool, CallSubagent, NoteWorking
<1>3. \/ \A a \in Subagents : late'[a] # "none" => late[a] # "none"
      \/ /\ ~Deciding /\ timer' = timer /\ at' = at
         /\ \E a \in Subagents : \A b \in Subagents : b # a => late'[b] = late[b]
  <2>1. ASSUME NEW a \in Subagents, Poll(a)
        PROVE  /\ ~Deciding /\ timer' = timer /\ at' = at
               /\ \A b \in Subagents : b # a => late'[b] = late[b]
    BY <2>1 DEF Poll, Marks, MayBegin, threads, settle
  <2>2. ASSUME NEW a \in Subagents, FinishTarget(a) \/ CoordinatorReads(a) \/ CoordinatorWrites(a)
        PROVE  \A b \in Subagents : late'[b] # "none" => late[b] # "none"
    BY <2>2 DEF FinishTarget, CoordinatorReads, CoordinatorWrites
  <2> QED
    BY LateWriters, <2>1, <2>2
<1> HIDE DEF A, TypeOK, Settles
<1> QED
  BY <1>1, <1>2, <1>3 DEF A

LEMMA OneStep == ~Overlap /\ TypeOK /\ OneAtATime /\ [Next]_vars => OneAtATime'
<1> SUFFICES ASSUME ~Overlap, TypeOK, OneAtATime, [Next]_vars PROVE OneAtATime'
  OBVIOUS
<1>1. ASSUME \A x \in Actors : at'[x] # "none" => at[x] # "none",
             \A k \in Turns : Settles(k)' => Settles(k),
             \A a \in Subagents : late'[a] # "none" => late[a] # "none"
      PROVE  OneAtATime'
  BY <1>1 DEF OneAtATime
<1>2. ASSUME ~Deciding
      PROVE  /\ \A x \in Actors : at[x] = "none"
             /\ \A k \in Turns : ~Settles(k)
             /\ \A a \in Subagents : late[a] = "none"
  BY <1>2 DEF Deciding, Settles
<1>3. ASSUME ~Deciding, timer' = timer, late' = late,
             NEW x \in Actors, \A y \in Actors : y # x => at'[y] = at[y]
      PROVE  OneAtATime'
  BY <1>2, <1>3 DEF OneAtATime, Settles
<1>4. ASSUME ~Deciding, timer' = timer, at' = at,
             NEW a \in Subagents, \A b \in Subagents : b # a => late'[b] = late[b]
      PROVE  OneAtATime'
  BY <1>2, <1>4 DEF OneAtATime, Settles
<1>5. ASSUME ~Deciding, late' = late, at' = at,
             NEW k \in Turns, \A l \in Turns : l # k => timer'[l] = timer[l]
      PROVE  OneAtATime'
  BY <1>2, <1>5 DEF OneAtATime, Settles
<1> QED
  BY ThreadBegins, <1>1, <1>3, <1>4, <1>5

\* A handler keeps its next step until it takes it.
LEMMA ShowStep ==
  ASSUME TypeOK, [Next]_vars, NEW x \in Actors, at[x] = "show"
  PROVE  at'[x] = "show" \/ ShowRunning(x)
<1> USE DEF TypeOK, Fires, Goes
<1>o. Orchestrator \in Actors /\ Subagents \subseteq Actors
  BY DEF Actors
<1>1. ASSUME NEW y \in Actors, CallTool(y) \/ ShowAwaiting(y) \/ Resume(y) \/ Sync(y)
      PROVE  at'[x] = at[x]
  BY <1>1 DEF CallTool, ShowAwaiting, Resume, Sync
<1>2. ASSUME NEW y \in Actors, ShowRunning(y) PROVE at'[x] = at[x] \/ y = x
  BY <1>2 DEF ShowRunning
<1>3. ASSUME NEW a \in Subagents, CallSubagent(a) \/ Started(a) \/ Coordinate(a) \/ Finish(a) \/ StopNoted(a) \/ Lower(a)
      PROVE  at'[x] = at[x]
  BY <1>o, <1>3 DEF CallSubagent, Started, Coordinate, Finish, StopNoted, Lower
<1>4. ASSUME SpawnRequested \/ AskPerson \/ EndTurn \/ HasActive \/ HoldRunning \/ ShowIdle \/ Arm \/ SessionEnded
      PROVE  at'[x] = at[x]
  BY ZenonT(40), <1>o, <1>4 DEF SpawnRequested, AskPerson, EndTurn, HasActive, HoldRunning, ShowIdle, Arm, SessionEnded
<1> HIDE DEF Fires, Goes, TypeOK
<1> QED
  BY HandlerWriters, <1>1, <1>2, <1>3, <1>4

LEMMA ThenStep ==
  ASSUME TypeOK, [Next]_vars, \A x \in Actors : then[x] # "reply" => at[x] = "sync"
  PROVE  \A x \in Actors : then'[x] # "reply" => at'[x] = "sync"
<1> USE DEF TypeOK, Fires, Goes
<1>o. Orchestrator \in Actors /\ Subagents \subseteq Actors
  BY DEF Actors
<1> DEFINE Kept == \A x \in Actors : then'[x] # "reply" => at'[x] = "sync"
<1>1. ASSUME NEW x \in Actors, Sync(x) PROVE Kept
  BY <1>1 DEF Sync
<1>2. ASSUME NEW a \in Subagents, Started(a) PROVE Kept
  BY <1>o, <1>2 DEF Started
<1>3. ASSUME NEW a \in Subagents, StopNoted(a) PROVE Kept
  BY <1>o, <1>3 DEF StopNoted
<1>4. ASSUME then' = then, NEW x \in Actors, at[x] = "sync" PROVE at'[x] = "sync" \/ Sync(x)
  <2>1. ASSUME NEW y \in Actors, CallTool(y) \/ ShowRunning(y) \/ ShowAwaiting(y) \/ Resume(y)
        PROVE  at'[x] = at[x]
    BY <1>4, <2>1 DEF CallTool, ShowRunning, ShowAwaiting, Resume
  <2>2. ASSUME NEW y \in Actors, Sync(y) PROVE at'[x] = at[x] \/ y = x
    BY <2>2 DEF Sync
  <2>3. ASSUME NEW a \in Subagents, CallSubagent(a) \/ Started(a) \/ Coordinate(a) \/ Finish(a) \/ StopNoted(a) \/ Lower(a)
        PROVE  at'[x] = at[x]
    BY <1>o, <1>4, <2>3 DEF CallSubagent, Started, Coordinate, Finish, StopNoted, Lower
  <2>4. ASSUME SpawnRequested \/ AskPerson \/ EndTurn \/ HasActive \/ HoldRunning \/ ShowIdle \/ Arm \/ SessionEnded
        PROVE  at'[x] = at[x]
    BY ZenonT(40), <1>o, <1>4, <2>4 DEF SpawnRequested, AskPerson, EndTurn, HasActive, HoldRunning, ShowIdle, Arm, SessionEnded
  <2> HIDE DEF Fires, Goes, TypeOK
  <2> QED
    BY <1>4, HandlerWriters, <2>1, <2>2, <2>3, <2>4
<1> QED
  BY <1>1, <1>2, <1>3, <1>4, ThenWriters

\* A thread comes to lower the status when it found no subagent active.
LEMMA LoweringBegins ==
  ASSUME TypeOK, [Next]_vars, Lowering', ~Lowering
  PROVE  \/ HasActive /\ ~(known /\ Active(entry))
         \/ \E a \in Subagents : (StopNoted(a) \/ FinishTarget(a)) /\ MayLower(entry')
<1> DEFINE Goal == \/ HasActive /\ ~(known /\ Active(entry))
                   \/ \E a \in Subagents : (StopNoted(a) \/ FinishTarget(a)) /\ MayLower(entry')
<1>o. Orchestrator \in Actors /\ Subagents \subseteq Actors
  BY DEF Actors
<1>1. ASSUME at'[Orchestrator] = "idle" PROVE Goal
  <2>1. at[Orchestrator] # "idle"
    BY DEF Lowering
  <2>2. HasActive
    BY <1>o, <1>1, <2>1, HandlerSteps
  <2> QED
    BY <1>o, <1>1, <2>2 DEF HasActive, Goes, TypeOK
<1>2. ASSUME NEW x \in Actors, then'[x] = "lower" PROVE Goal
  <2>1. then[x] # "lower"
    BY DEF Lowering
  <2>2. ASSUME NEW y \in Actors, Sync(y) PROVE FALSE
    BY <1>2, <2>1, <2>2 DEF Sync, TypeOK
  <2>3. ASSUME NEW a \in Subagents, Started(a) PROVE FALSE
    BY <1>o, <1>2, <2>1, <2>3 DEF Started, TypeOK
  <2>4. ASSUME NEW a \in Subagents, StopNoted(a) PROVE MayLower(entry')
    BY <1>o, <1>2, <2>1, <2>4 DEF StopNoted, TypeOK
  <2> QED
    BY <1>2, <2>1, <2>2, <2>3, <2>4, ThenWriters
<1>3. ASSUME NEW x \in Actors, at'[x] = "lower" PROVE FALSE
  <2>1. at[x] # "lower" /\ then[x] # "lower"
    BY DEF Lowering
  <2> USE <1>o, <1>3, <2>1 DEF TypeOK, Fires, Goes
  <2>2. ASSUME NEW y \in Actors, CallTool(y) \/ ShowRunning(y) \/ ShowAwaiting(y) \/ Resume(y) PROVE FALSE
    BY <2>2 DEF CallTool, ShowRunning, ShowAwaiting, Resume
  <2>3. ASSUME NEW y \in Actors, Sync(y) PROVE FALSE
    BY <2>3 DEF Sync
  <2>4. ASSUME NEW a \in Subagents, CallSubagent(a) \/ Started(a) \/ Coordinate(a) \/ Finish(a) \/ StopNoted(a) \/ Lower(a)
        PROVE  FALSE
    BY <2>4 DEF CallSubagent, Started, Coordinate, Finish, StopNoted, Lower
  <2>5. ASSUME SpawnRequested \/ HoldRunning \/ ShowIdle \/ Arm PROVE FALSE
    BY <2>5 DEF SpawnRequested, HoldRunning, ShowIdle, Arm
  <2>8. ASSUME AskPerson \/ EndTurn PROVE FALSE
    BY ZenonT(40), <2>8 DEF AskPerson, EndTurn
  <2>6. ASSUME HasActive PROVE FALSE
    BY <2>6 DEF HasActive
  <2>7. ASSUME SessionEnded PROVE FALSE
    BY <2>7 DEF SessionEnded
  <2> HIDE DEF Fires, Goes, TypeOK
  <2> QED
    BY HandlerWriters, <2>2, <2>3, <2>4, <2>5, <2>6, <2>7, <2>8
<1>4. ASSUME NEW a \in Subagents, late'[a] \in {"read", "write"} PROVE Goal
  <2>1. late[a] \notin {"read", "write"}
    BY DEF Lowering
  <2> USE <1>4, <2>1 DEF TypeOK
  <2>2. ASSUME NEW b \in Subagents, Poll(b) \/ CoordinatorReads(b) \/ CoordinatorWrites(b) PROVE FALSE
    BY <2>2 DEF Poll, Marks, CoordinatorReads, CoordinatorWrites
  <2>3. ASSUME NEW b \in Subagents, FinishTarget(b) PROVE MayLower(entry')
    BY <2>3 DEF FinishTarget
  <2> QED
    BY <2>2, <2>3, LateWriters
<1> QED
  BY <1>1, <1>2, <1>3, <1>4 DEF Lowering

\* While a thread lowers the status, it is the only one.
LEMMA LoweringAlone ==
  ASSUME TypeOK, Shown, Lowering
  PROVE  Deciding
BY DEF Lowering, Shown, Deciding, Actors, TypeOK

LEMMA AllAreActiveNext ==
  TypeOK' /\ EveryoneIsCounted' /\ exit' = "running" =>
    \A a \in Subagents \ cut' : sub'[a] \in {"asked", "working"} /\ a # asks' => Active(entry')
<1>1. (TypeOK /\ EveryoneIsCounted /\ exit = "running" =>
        \A a \in Subagents \ cut : sub[a] \in {"asked", "working"} /\ a # asks => Active(entry))'
  BY AllAreActive, PTL
<1> QED
  BY <1>1

LEMMA LoweringStep ==
  ASSUME ~Overlap, TurnInv, TurnInv', Shown, [Next]_vars, exit = "running", exit' = "running",
         Lowering'
  PROVE  ~Outstanding'
<1>o. Orchestrator \in Actors /\ Subagents \subseteq Actors /\ Orchestrator \notin Subagents
  BY TurnAssumption DEF Actors
<1>1. TypeOK /\ TypeOK' /\ AsksOne /\ EveryoneIsCounted' /\ AsksOne'
  BY DEF TurnInv
<1>2. CASE Lowering
  BY <1>1, <1>2, WorkBegins, LoweringAlone DEF Shown
<1>3. CASE ~Lowering
  <2>1. asks' = NoOne
    <3>1. at[Orchestrator] \notin {"show", "spawn"} /\ asks' = asks
      <4>1. ASSUME HasActive PROVE at[Orchestrator] \notin {"show", "spawn"} /\ asks' = asks
        BY <4>1 DEF HasActive
      <4>2. ASSUME NEW a \in Subagents, StopNoted(a) PROVE at[Orchestrator] = "none" /\ asks' = asks
        BY <1>o, <4>2 DEF StopNoted, Shown, OneAtATime
      <4>3. ASSUME NEW a \in Subagents, FinishTarget(a) PROVE at[Orchestrator] = "none" /\ asks' = asks
        BY <1>o, <4>3 DEF FinishTarget, Shown, OneAtATime, threads
      <4> QED
        BY <1>1, <1>3, <4>1, <4>2, <4>3, LoweringBegins
    <3> QED
      BY <1>1, <3>1 DEF AsksOne
  <2>2. ~Active(entry') /\ ~InReportedTurn'
    <3>1. ASSUME HasActive, ~(known /\ Active(entry)) PROVE ~Active(entry') /\ turn' # "open"
      BY <3>1 DEF HasActive, record, agent, TurnInv, EveryoneIsCounted, Shown, Ending
    <3>2. ASSUME MayLower(entry') PROVE ~Active(entry') /\ ~InReportedTurn'
      BY <3>2 DEF MayLower, IdleIsTrue, TurnInv
    <3> QED
      BY <1>1, <1>3, <3>1, <3>2, LoweringBegins DEF InReportedTurn
  <2>3. ASSUME NEW a \in Subagents \ cut', sub'[a] \in {"asked", "working"} PROVE FALSE
    <3>1. a # asks'
      BY <2>1, SubagentAssumption
    <3>2. Active(entry')
      BY <1>1, <2>3, <3>1, AllAreActiveNext
    <3> QED
      BY <3>2, <2>2
  <2> QED
    BY <2>2, <2>3 DEF Outstanding
<1> QED
  BY <1>2, <1>3

LEMMA ShownStep ==
  ~Overlap /\ TurnInv /\ TurnInv' /\ ShownInv /\ [Next]_vars => ShownInv'
<1> SUFFICES ASSUME ~Overlap, TurnInv, TurnInv', ShownInv, [Next]_vars, exit' = "running"
             PROVE  Shown'
  BY DEF ShownInv
<1>o. Orchestrator \in Actors /\ Subagents \subseteq Actors /\ Orchestrator \notin Subagents
  BY TurnAssumption DEF Actors
<1>1. exit = "running" /\ Shown
  BY ExitWriters DEF Exit, Unwatch, Forget, MarkExited, ShownInv
<1>2. TypeOK /\ TypeOK' /\ AsksOne /\ EveryoneIsCounted
  BY DEF TurnInv
<1>3. OneAtATime'
  BY <1>1, <1>2, OneStep DEF Shown
<1>4. \A x \in Actors : then'[x] # "reply" => at'[x] = "sync"
  BY <1>1, <1>2, ThenStep DEF Shown
<1>5. Lowering' => ~Outstanding'
  BY <1>1, <1>2, LoweringStep
<1>7. ASSUME Ending' PROVE turn' # "open"
  <2>1. CASE Prompt
    BY <1>7, <2>1 DEF Prompt, Ending, threads
  <2>2. CASE EndTurn
    BY <2>2 DEF EndTurn
  <2>3. CASE ~Prompt /\ ~EndTurn
    <3>1. Ending
      BY <1>o, <1>2, <1>7, <2>3, HandlerSteps DEF Ending, HasActive, ShowIdle
    <3>2. turn' = "open" => turn = "open"
      BY <2>3, TurnWriters DEF SessionEnded, Lose, Exit
    <3> QED
      BY <1>1, <3>1, <3>2 DEF Shown
  <2> QED
    BY <2>1, <2>2, <2>3
<1>8. ASSUME status' = "idle", Outstanding' PROVE \E x \in Actors : at'[x] = "show"
  <2>1. CASE ~Outstanding
    <3>1. PICK x \in Actors : at[x] = "none" /\ at' = [at EXCEPT ![x] = "show"]
      BY <1>2, <1>8, <2>1, WorkBegins
    <3> QED
      BY <1>2, <3>1 DEF TypeOK
  <2>2. CASE Outstanding
    <3>1. status = "idle"
      <4>1. ~ShowIdle
        BY <1>1, <2>2 DEF ShowIdle, Lowering, Shown
      <4>2. \A a \in Subagents : ~Lower(a) /\ ~CoordinatorWrites(a)
        BY <1>o, <1>1, <2>2 DEF Lower, CoordinatorWrites, Lowering, Shown
      <4>3. \A k \in Turns : SettleNotifies(k) => status = "idle"
        BY <1>1 DEF SettleNotifies, Shown
      <4> QED
        BY <1>8, <4>1, <4>2, <4>3, StatusWriters
        DEF AskPerson, HoldRunning, MarkExited, ShowRunning, ShowAwaiting, Resume, Show
    <3>2. PICK x \in Actors : at[x] = "show"
      BY <1>1, <2>2, <3>1 DEF Shown
    <3>3. ~ShowRunning(x)
      BY <1>8 DEF ShowRunning, Show
    <3> QED
      BY <1>2, <3>2, <3>3, ShowStep
  <2> QED
    BY <2>1, <2>2
<1>9. ASSUME NEW k \in Turns, timer'[k] = "write" PROVE status' = "idle"
  <2>1. CASE timer[k] = "write"
    <3>1. Settles(k) /\ status = "idle"
      BY <1>1, <2>1 DEF Settles, Shown
    <3>2. /\ \A x \in Actors : at[x] = "none"
          /\ \A a \in Subagents : late[a] = "none"
      BY <1>1, <3>1 DEF Shown, OneAtATime
    <3>3. Deciding
      BY <2>1 DEF Deciding
    <3>4. ASSUME NEW x \in Actors, ShowRunning(x) \/ ShowAwaiting(x) \/ Resume(x) PROVE FALSE
      BY <3>2, <3>4 DEF ShowRunning, ShowAwaiting, Resume
    <3>5. ASSUME NEW a \in Subagents, Lower(a) \/ CoordinatorWrites(a) PROVE FALSE
      BY <1>o, <3>2, <3>5 DEF Lower, CoordinatorWrites
    <3>6. ~AskPerson
      BY <3>3 DEF AskPerson, Fires, MayBegin
    <3>7. ~HoldRunning /\ ~ShowIdle
      BY <1>o, <3>2 DEF HoldRunning, ShowIdle
    <3>8. ASSUME NEW l \in Turns, SettleNotifies(l) PROVE status' = "idle"
      BY <3>1, <3>8 DEF SettleNotifies, Show
    <3> QED
      BY <3>1, <3>4, <3>5, <3>6, <3>7, <3>8, StatusWriters DEF MarkExited
  <2>2. CASE timer[k] # "write"
    <3>1. ASSUME NEW l \in Turns, SettleReads(l) PROVE status' = "idle"
      BY <1>2, <1>9, <2>2, <3>1 DEF SettleReads, TypeOK
    <3>2. ASSUME NEW l \in Turns, SettleChecks(l) \/ SettleNotifies(l) PROVE FALSE
      BY <1>2, <1>9, <2>2, <3>2 DEF SettleChecks, SettleNotifies, TypeOK
    <3>3. ~Arm
      BY <1>2, <1>9, <2>2 DEF Arm, TypeOK
    <3>4. timer' # timer
      BY <1>9, <2>2
    <3> QED
      BY <3>1, <3>2, <3>3, <3>4, TimerWriters DEF HoldRunning, CallTool, CallSubagent, NoteWorking
  <2> QED
    BY <2>1, <2>2
<1> QED
  BY <1>3, <1>4, <1>5, <1>7, <1>8, <1>9 DEF Shown

\* Where the threads of the core run one after the other, a session whose agent works is not
\* shown Idle between them (WorkIsShown): each of the five writers of Idle saw, before it,
\* the end of all work but that of subagents cut off after 120 s of silence outside a
\* reported turn, and no work begins until it wrote.
THEOREM WorkShown == ASSUME ~Overlap PROVE Spec => []WorkIsShown
<1>1. Init => ShownInv
  <2> SUFFICES ASSUME Init PROVE Shown
    BY DEF ShownInv
  <2>1. Orchestrator \in Actors
    BY DEF Actors
  <2>2. OneAtATime
    BY DEF Init, OneAtATime, Settles
  <2>3. ~Outstanding /\ ~Lowering /\ ~Ending
    BY <2>1 DEF Init, Outstanding, Lowering, Ending, InReportedTurn
  <2> QED
    BY <2>2, <2>3 DEF Init, Shown, NoRuns
<1>2. TurnInv /\ TurnInv' /\ ShownInv /\ [Next]_vars => ShownInv'
  BY ShownStep
<1>3. ShownInv => WorkIsShown
  <2> SUFFICES ASSUME ShownInv, exit = "running", ~Deciding, Busy, status = "idle" PROVE FALSE
    BY DEF WorkIsShown
  <2>1. Outstanding
    BY DEF Busy, AtWork, Outstanding
  <2>2. \E x \in Actors : at[x] = "show"
    BY <2>1 DEF ShownInv, Shown
  <2> QED
    BY <2>2 DEF Deciding
<1> QED
  BY <1>1, <1>2, <1>3, TurnInvariant, PTL DEF Spec
=============================================================================
