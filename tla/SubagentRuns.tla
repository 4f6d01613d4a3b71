----------------------------- MODULE SubagentRuns -----------------------------
(***************************************************************************)
(* `SessionSubagents` (src-tauri/src/agent/subagents.rs): what the core     *)
(* knows of the subagents of one session. The code keeps a vector of runs   *)
(* with a status each; a run that is Starting has no agent id yet, so here  *)
(* the vector is the number of Starting runs of each type and the sets of   *)
(* agents whose run is Running or Done. Texts, times, transcript paths, the *)
(* order of the runs in the panel, the run it has in focus, and whether the *)
(* person closed it, are left out.                                          *)
(***************************************************************************)
EXTENDS Integers, FiniteSets

CONSTANTS
  Subagents,  \* the agent ids
  Types,      \* the types a subagent is asked for by
  TypeOf,     \* the type of each
  NoOne       \* no subagent

ASSUME SubagentAssumption ==
  /\ TypeOf \in [Subagents -> Types]
  /\ NoOne \notin Subagents
  /\ IsFiniteSet(Subagents)

Entries == [pending : [Types -> Nat], running : SUBSET Subagents, done : SUBSET Subagents,
            coordinated : BOOLEAN, idle : BOOLEAN]

\* `register_session`: the entry of a session that has had no subagent.
NoRuns == [pending |-> [t \in Types |-> 0], running |-> {}, done |-> {},
           coordinated |-> FALSE, idle |-> FALSE]

\* Mutant: only Running runs count.
ActiveIgnoresStarting(e) == e.running # {}

\* `active_count() > 0`
Active(e) == e.running # {} \/ \E t \in Types : e.pending[t] > 0

\* `rearm_for_new_round`: a subagent that comes when all before it are Done
\* begins a round with nothing in it.
Rearmed(e) == IF e.done # {} /\ ~Active(e) THEN NoRuns ELSE e

\* `push_pending`
Requested(e, type) ==
  LET r == Rearmed(e) IN [r EXCEPT !.pending[type] = @ + 1]

\* `promote`: the first Starting run of its type becomes Running, or a new run.
Promoted(e, a) ==
  LET r == Rearmed(e) IN
  [r EXCEPT !.pending[TypeOf[a]] = IF @ > 0 THEN @ - 1 ELSE 0,
            !.running = @ \cup {a}]

\* `mark_stopped`: whether there was anything to mark. An agent nobody knows gets
\* a run that is Done.
IsNews(e, a) == a \in e.running \/ a \notin e.done

\* Mutant: the stop also takes the Starting run of its type.
StoppedTwice(e, a) == [e EXCEPT !.running = @ \ {a}, !.done = @ \cup {a},
                                !.pending[TypeOf[a]] = @ - 1]

Stopped(e, a) == [e EXCEPT !.running = @ \ {a}, !.done = @ \cup {a}]

\* `finish_running_by_file`, `finish_running_interrupted`
FinishedByFile(e, a) == IF a \in e.running THEN Stopped(e, a) ELSE e

\* `end_all`
AllEnded(e) == [e EXCEPT !.pending = [t \in Types |-> 0],
                         !.running = {}, !.done = @ \cup e.running]

\* `note_orchestrator_working`, `note_orchestrator_idle`
WithIdle(e, b) == [e EXCEPT !.idle = b]

\* `idle_transition` is Some
MayLower(e) == e.idle /\ ~Active(e)
=============================================================================
