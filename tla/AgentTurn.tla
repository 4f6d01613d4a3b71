------------------------------ MODULE AgentTurn ------------------------------
(***************************************************************************)
(* The status of one agent session: what the handlers of its hooks          *)
(* (agent/session.rs), the thread that settles the end of a turn, the       *)
(* watchers of the subagents' transcripts (status/subagent_transcript.rs)   *)
(* and the reaper (lib.rs) make of it. Each handler runs on a thread of its *)
(* own and takes one lock at a time, so a step here is what it does under   *)
(* one lock.                                                                *)
(*                                                                         *)
(* The agent is outside: `turn` and `sub` say what it does, `file` what is  *)
(* in the transcripts. It waits for the reply of a hook (hook_ipc/client),  *)
(* so the orchestrator and each subagent have one hook at most under way.   *)
(* Any hook but PreToolUse may be lost: refused beyond MAX_INFLIGHT         *)
(* (hook_ipc/server.rs:88) or never fired, and the agent goes on.           *)
(***************************************************************************)
EXTENDS SubagentRuns

CONSTANTS
  Orchestrator,  \* the agent of the session itself
  MaxTurns,      \* bound: turns
  Overlap        \* a hook may arrive, or a timer end, while another thread of
                 \* the core is between what it read and what it writes

ASSUME TurnAssumption ==
  /\ Orchestrator \notin Subagents
  /\ MaxTurns \in Nat
  /\ Overlap \in BOOLEAN

Actors == {Orchestrator} \cup Subagents
Turns  == 1..MaxTurns

VARIABLES
  turn,       \* the turn of the orchestrator: "open", "over", or "none" so far
  turns,      \* how many turns there were
  sub,        \* of each subagent: "unborn", "asked", "working" or "ended"
  file,       \* its transcript: "final" (it ends with the answer) or "partial"
  at,         \* where the handler of each actor is
  asks,       \* the subagent the orchestrator's tool call asks for
  held,       \* the targets a handler took from the entry, for the watchers
  then,       \* what it does after the watchers: "reply", "coordinate" or "lower"
  known,      \* the tracker has an entry for the session
  entry,      \* that entry
  status,     \* SessionStatus
  timer,      \* the thread that settles the end of each turn
  fresh,      \* turn_settle still has the generation of that thread
  slot,       \* the watcher of the session
  late,       \* completions found by a watcher thread and not yet applied
  exit,       \* the reaper: "running", "unwatch", "forget", "mark" or "over"
  reported,   \* history: a tool call of the open turn was reported
  stopped,    \* history: the last turn whose Stop arrived
  swallowed,  \* history: turns that were still settling when something newer came
  announced,  \* history: the turns whose end was notified
  cut         \* history: subagents taken for dead while they worked

agent   == <<turn, turns, sub, file>>
threads == <<at, asks, held, then>>
record  == <<known, entry>>
settle  == <<timer, fresh>>
watcher == <<slot, late>>
history == <<reported, stopped, swallowed, announced, cut>>
vars == <<agent, threads, record, status, settle, watcher, exit, history>>

Statuses == {"running", "awaiting", "idle", "exited"}
Steps == {"none", "show", "spawn", "gate", "await", "ask", "hold", "idle", "arm",
          "stop", "sync", "coordinate", "lower"}

NoSlot == [on |-> FALSE, targets |-> {}, finished |-> {}, thread |-> "over"]

TypeOK ==
  /\ turn \in {"none", "over", "open"} /\ turns \in 0..MaxTurns
  /\ sub \in [Subagents -> {"unborn", "asked", "working", "ended"}]
  /\ file \in [Subagents -> {"partial", "final"}]
  /\ at \in [Actors -> Steps] /\ asks \in Subagents \cup {NoOne}
  /\ held \in [Actors -> SUBSET Subagents]
  /\ then \in [Actors -> {"reply", "coordinate", "lower"}]
  /\ known \in BOOLEAN /\ entry \in Entries /\ status \in Statuses
  /\ timer \in [Turns -> {"none", "asleep", "checked", "write", "over"}]
  /\ fresh \in [Turns -> BOOLEAN]
  /\ slot \in [on : BOOLEAN, targets : SUBSET Subagents, finished : SUBSET Subagents,
               thread : {"polling", "ending", "over"}]
  /\ late \in [Subagents -> {"none", "finish", "read", "write"}]
  /\ exit \in {"running", "unwatch", "forget", "mark", "over"}
  /\ reported \in BOOLEAN /\ stopped \in 0..MaxTurns /\ swallowed \in SUBSET Turns
  /\ announced \in SUBSET Turns /\ cut \in SUBSET Subagents

Init ==
  /\ turn = "none" /\ turns = 0
  /\ sub = [a \in Subagents |-> "unborn"] /\ file = [a \in Subagents |-> "partial"]
  /\ at = [x \in Actors |-> "none"] /\ asks = NoOne
  /\ held = [x \in Actors |-> {}] /\ then = [x \in Actors |-> "reply"]
  /\ known = TRUE /\ entry = NoRuns /\ status = "running"
  /\ timer = [k \in Turns |-> "none"] /\ fresh = [k \in Turns |-> FALSE]
  /\ slot = NoSlot /\ late = [a \in Subagents |-> "none"]
  /\ exit = "running"
  /\ reported = FALSE /\ stopped = 0 /\ swallowed = {} /\ announced = {} /\ cut = {}

-----------------------------------------------------------------------------
\* A thread of the core is between its first step and its last one.
Deciding ==
  \/ \E x \in Actors : at[x] # "none"
  \/ \E k \in Turns : timer[k] \in {"checked", "write"}
  \/ \E a \in Subagents : late[a] # "none"

MayBegin == Overlap \/ ~Deciding

\* The agent.

Fires(x, step) ==
  /\ exit = "running" /\ at[x] = "none" /\ MayBegin
  /\ at' = [at EXCEPT ![x] = step]

\* A prompt of the person, or the end of a subagent, opens a turn.
Prompt ==
  /\ exit = "running" /\ turn # "open" /\ turns < MaxTurns
  /\ at[Orchestrator] = "none"
  /\ turn' = "open" /\ turns' = turns + 1 /\ reported' = FALSE
  /\ UNCHANGED <<sub, file, threads, record, status, settle, watcher, exit,
                 stopped, swallowed, announced, cut>>

Works(x) == IF x = Orchestrator THEN turn = "open" ELSE sub[x] = "working"

Goes(x, step) == at' = [at EXCEPT ![x] = step]

\* `set_status`: a session that was marked exited stays in the map, so a late
\* write is seen.
Show(s) == status' = s

\* Turns whose thread has not yet looked at the generation.
Settling == {k \in Turns : timer[k] = "asleep"}

NextGeneration == /\ fresh' = [k \in Turns |-> FALSE]
                  /\ swallowed' = swallowed \cup Settling

\* PreToolUse: `note_orchestrator_working`, whoever calls the tool, and the next
\* generation.
NoteWorking(x) ==
  /\ entry' = IF known THEN WithIdle(entry, FALSE) ELSE entry
  /\ reported' = (reported \/ x = Orchestrator)
  /\ NextGeneration
  /\ UNCHANGED <<known, timer, stopped, announced, cut>>

\* PreToolUse of a tool that a person may have to allow
CallTool(x) ==
  /\ Works(x) /\ Fires(x, "show") /\ NoteWorking(x)
  /\ UNCHANGED <<agent, asks, held, then, status, watcher, exit>>

\* PreToolUse of the tool that starts a subagent
CallSubagent(a) ==
  /\ turn = "open" /\ sub[a] = "unborn" /\ Fires(Orchestrator, "show")
  /\ asks' = a /\ sub' = [sub EXCEPT ![a] = "asked"]
  /\ NoteWorking(Orchestrator)
  /\ UNCHANGED <<turn, turns, file, held, then, status, watcher, exit>>

\* Running; then the call passes, or must wait for a person.
ShowRunning(x) ==
  /\ at[x] = "show" /\ Show("running")
  /\ IF x = Orchestrator /\ asks # NoOne THEN Goes(x, "spawn")
     ELSE Goes(x, "none") \/ Goes(x, "gate")
  /\ UNCHANGED <<agent, asks, held, then, record, settle, watcher, exit, history>>

\* `on_spawn_requested`; starting a subagent is green, so it is not asked for.
SpawnRequested ==
  /\ at[Orchestrator] = "spawn" /\ Goes(Orchestrator, "none")
  /\ entry' = IF known THEN Requested(entry, TypeOf[asks]) ELSE entry
  /\ asks' = NoOne
  /\ UNCHANGED <<agent, held, then, known, status, settle, watcher, exit, history>>

ShowAwaiting(x) ==
  /\ at[x] = "gate" /\ Goes(x, "await") /\ Show("awaiting")
  /\ UNCHANGED <<agent, asks, held, then, record, settle, watcher, exit, history>>

\* Answered, by a person or by the teardown.
Resume(x) ==
  /\ at[x] = "await" /\ Goes(x, "none") /\ Show("running")
  /\ UNCHANGED <<agent, asks, held, then, record, settle, watcher, exit, history>>

\* Notification (idle_prompt): the agent waits for the person.
AskPerson ==
  /\ turn # "open" /\ Fires(Orchestrator, "none") /\ Show("awaiting")
  /\ UNCHANGED <<agent, asks, held, then, record, settle, watcher, exit, history>>

-----------------------------------------------------------------------------
\* Stop.

\* `note_orchestrator_idle`
EndTurn ==
  /\ turn = "open" /\ Fires(Orchestrator, "ask")
  /\ entry' = IF known THEN WithIdle(entry, TRUE) ELSE entry
  /\ turn' = "over" /\ stopped' = turns
  /\ UNCHANGED <<turns, sub, file, asks, held, then, known, status, settle, watcher,
                 exit, reported, swallowed, announced, cut>>

\* Mutant: the end of a turn does not look at the subagents.
HasActiveIgnored ==
  /\ at[Orchestrator] = "ask" /\ Goes(Orchestrator, "idle")
  /\ UNCHANGED <<agent, asks, held, then, record, status, settle, watcher, exit, history>>

\* `has_active`: a subagent at work holds the session in Running.
HasActive ==
  /\ at[Orchestrator] = "ask"
  /\ Goes(Orchestrator, IF known /\ Active(entry) THEN "hold" ELSE "idle")
  /\ UNCHANGED <<agent, asks, held, then, record, status, settle, watcher, exit, history>>

HoldRunning ==
  /\ at[Orchestrator] = "hold" /\ Goes(Orchestrator, "none") /\ Show("running")
  /\ NextGeneration
  /\ UNCHANGED <<agent, asks, held, then, record, timer, watcher, exit,
                 reported, stopped, announced, cut>>

ShowIdle ==
  /\ at[Orchestrator] = "idle" /\ Goes(Orchestrator, "arm") /\ Show("idle")
  /\ UNCHANGED <<agent, asks, held, then, record, settle, watcher, exit, history>>

\* `notify_turn_ended` takes the next generation and starts its thread.
Arm ==
  /\ at[Orchestrator] = "arm" /\ Goes(Orchestrator, "none")
  /\ timer' = [timer EXCEPT ![stopped] = "asleep"]
  /\ fresh' = [k \in Turns |-> k = stopped] /\ swallowed' = swallowed \cup Settling
  /\ UNCHANGED <<agent, asks, held, then, record, status, watcher, exit,
                 reported, stopped, announced, cut>>

-----------------------------------------------------------------------------
\* Subagents.

Starts(a) == /\ exit = "running" /\ sub[a] = "asked" /\ asks # a
             /\ sub' = [sub EXCEPT ![a] = "working"]

\* SubagentStart: `on_subagent_started`, under its lock. The watchers follow, and
\* the first subagent of a round opens the viewer.
Started(a) ==
  /\ Starts(a) /\ Fires(a, IF known THEN "sync" ELSE "none")
  /\ IF known
     THEN /\ entry' = Promoted(entry, a) /\ held' = [held EXCEPT ![a] = entry'.running]
          /\ then' = [then EXCEPT ![a] = IF entry'.coordinated THEN "reply" ELSE "coordinate"]
     ELSE UNCHANGED <<entry, held, then>>
  /\ UNCHANGED <<turn, turns, file, asks, known, status, settle, watcher, exit, history>>

\* `coordinate_subagent_viewer`: the layout had something to open, or not.
Coordinate(a) ==
  /\ at[a] = "coordinate" /\ Goes(a, "none")
  /\ \/ /\ known' = TRUE
        /\ entry' = [(IF known THEN entry ELSE NoRuns) EXCEPT !.coordinated = TRUE]
     \/ UNCHANGED record
  /\ UNCHANGED <<agent, asks, held, then, status, settle, watcher, exit, history>>

\* The answer is in the transcript before SubagentStop comes, or gets lost.
Finish(a) ==
  /\ exit = "running" /\ sub[a] = "working" /\ at[a] = "none"
  /\ sub' = [sub EXCEPT ![a] = "ended"] /\ file' = [file EXCEPT ![a] = "final"]
  /\ Fires(a, "stop") \/ UNCHANGED at
  /\ UNCHANGED <<turn, turns, asks, held, then, record, status, settle, watcher,
                 exit, history>>

\* `on_subagent_stopped`, under its lock
StopNoted(a) ==
  /\ at[a] = "stop"
  /\ IF known /\ IsNews(entry, a)
     THEN /\ entry' = Stopped(entry, a) /\ held' = [held EXCEPT ![a] = entry'.running]
          /\ then' = [then EXCEPT ![a] = IF MayLower(entry') THEN "lower" ELSE "reply"]
          /\ Goes(a, "sync")
     ELSE Goes(a, "none") /\ UNCHANGED <<entry, held, then>>
  /\ UNCHANGED <<agent, asks, known, status, settle, watcher, exit, history>>

Lower(a) ==
  /\ at[a] = "lower" /\ Goes(a, "none") /\ Show("idle")
  /\ UNCHANGED <<agent, asks, held, then, record, settle, watcher, exit, history>>

Ended == [a \in Subagents |-> IF sub[a] = "unborn" THEN "unborn" ELSE "ended"]

\* SessionEnd: the conversation is over, and its subagents with it.
\* `on_session_ended`, under its lock
SessionEnded ==
  /\ turn # "open" /\ turn' = "none" /\ (\A x \in Actors : at[x] = "none")
  /\ Fires(Orchestrator, IF known THEN "sync" ELSE "none")
  /\ entry' = IF known THEN AllEnded(entry) ELSE entry
  /\ sub' = Ended
  /\ UNCHANGED <<turns, file, asks, held, then, known, status, settle, watcher, exit, history>>

\* What the core is not told: a hook that is lost, a subagent that is killed.
Lose ==
  /\ exit = "running"
  /\ \/ turn = "open" /\ at[Orchestrator] = "none" /\ turn' = "over" /\ UNCHANGED sub
     \/ \E a \in Subagents : Starts(a) /\ UNCHANGED turn
     \/ \E a \in Subagents : /\ sub[a] = "working" /\ at[a] = "none"
                            /\ sub' = [sub EXCEPT ![a] = "ended"] /\ UNCHANGED turn
  /\ UNCHANGED <<turns, file, threads, record, status, settle, watcher, exit, history>>

-----------------------------------------------------------------------------
\* The watchers.

\* `TranscriptWatchers::sync` with the targets a handler took some time ago.
Sync(x) ==
  /\ at[x] = "sync" /\ Goes(x, IF then[x] = "reply" THEN "none" ELSE then[x])
  /\ slot' = IF held[x] = {} THEN NoSlot
             ELSE IF slot.on /\ slot.thread # "over"
             THEN [slot EXCEPT !.targets = held[x], !.finished = @ \cap held[x]]
             ELSE [on |-> TRUE, targets |-> held[x], finished |-> {}, thread |-> "polling"]
  /\ held' = [held EXCEPT ![x] = {}] /\ then' = [then EXCEPT ![x] = "reply"]
  /\ UNCHANGED <<agent, asks, record, status, settle, late, exit, history>>

\* The orchestrator waits for a tool it called: a subagent it started and waits for
\* (a synchronous one) works in such a turn only.
InReportedTurn == turn = "open" /\ reported

\* A poll marks a target as finished, at work or not.
Marks(a) ==
  /\ MayBegin /\ slot.thread = "polling" /\ a \in slot.targets \ slot.finished /\ late[a] = "none"
  /\ slot' = [slot EXCEPT !.finished = @ \cup {a}]
  /\ late' = [late EXCEPT ![a] = "finish"]
  /\ cut' = IF sub[a] = "working" /\ ~InReportedTurn THEN cut \cup {a} ELSE cut
  /\ UNCHANGED <<agent, threads, record, status, settle, exit,
                 reported, stopped, swallowed, announced>>

\* Mutant: a silent file ends its subagent whatever the orchestrator does.
PollAnyFile(a) == Marks(a)

\* A poll of `watch_loop` finds the answer at the end of the transcript of a target;
\* or (`stall_is_dead`) finds that it did not grow for DEAD_SUBAGENT_STALL_CYCLES
\* (120 s) and that the orchestrator is idle. No time is counted here: any transcript
\* without an answer may have been silent that long, that of a subagent in a long tool
\* too, which the poll cannot tell from a dead one.
Poll(a) == (file[a] = "final" \/ (known /\ entry.idle)) /\ Marks(a)

\* `finish_target`: under the lock of the tracker, then the coordinator.
FinishTarget(a) ==
  /\ late[a] = "finish"
  /\ IF known /\ a \in entry.running
     THEN /\ entry' = FinishedByFile(entry, a)
          /\ late' = [late EXCEPT ![a] = IF MayLower(entry') THEN "read" ELSE "none"]
     ELSE late' = [late EXCEPT ![a] = "none"] /\ UNCHANGED entry
  /\ UNCHANGED <<agent, threads, known, status, settle, slot, exit, history>>

\* The coordinator of lib.rs lowers a session that is Running, ...
CoordinatorReads(a) ==
  /\ late[a] = "read"
  /\ late' = [late EXCEPT ![a] = IF status = "running" THEN "write" ELSE "none"]
  /\ UNCHANGED <<agent, threads, record, status, settle, slot, exit, history>>

\* ... which it was.
CoordinatorWrites(a) ==
  /\ late[a] = "write" /\ late' = [late EXCEPT ![a] = "none"] /\ Show("idle")
  /\ UNCHANGED <<agent, threads, record, settle, slot, exit, history>>

\* The loop ends once all its targets are finished, and says so a moment later.
WatchEnds ==
  /\ slot.on
  /\ \/ /\ slot.thread = "polling" /\ slot.targets \subseteq slot.finished
        /\ \A a \in slot.targets : late[a] = "none"
        /\ slot' = [slot EXCEPT !.thread = "ending"]
     \/ slot.thread = "ending" /\ slot' = [slot EXCEPT !.thread = "over"]
  /\ UNCHANGED <<agent, threads, record, status, settle, late, exit, history>>

-----------------------------------------------------------------------------
\* The end of a turn settles.

\* Mutant: the thread does not look at the generation.
SettleAnyGeneration(k) ==
  /\ MayBegin /\ timer[k] = "asleep" /\ timer' = [timer EXCEPT ![k] = "checked"]
  /\ fresh' = [fresh EXCEPT ![k] = FALSE]
  /\ UNCHANGED <<agent, threads, record, status, watcher, exit, history>>

\* Two seconds later: another generation ends the thread.
SettleChecks(k) ==
  /\ MayBegin /\ timer[k] = "asleep"
  /\ timer' = [timer EXCEPT ![k] = IF fresh[k] THEN "checked" ELSE "over"]
  /\ fresh' = [fresh EXCEPT ![k] = FALSE]
  /\ UNCHANGED <<agent, threads, record, status, watcher, exit, history>>

\* So does any status but Idle.
SettleReads(k) ==
  /\ timer[k] = "checked"
  /\ timer' = [timer EXCEPT ![k] = IF status = "idle" THEN "write" ELSE "over"]
  /\ UNCHANGED <<agent, threads, record, status, fresh, watcher, exit, history>>

\* The summary may have become another, then Idle is written again; and the
\* person is notified.
SettleNotifies(k) ==
  /\ timer[k] = "write" /\ timer' = [timer EXCEPT ![k] = "over"]
  /\ Show("idle") \/ UNCHANGED status
  /\ announced' = announced \cup {k}
  /\ UNCHANGED <<agent, threads, record, fresh, watcher, exit, reported, stopped, swallowed, cut>>

-----------------------------------------------------------------------------
\* The process exits: `session_exited`.

Exit ==
  /\ exit = "running" /\ exit' = "unwatch"
  /\ turn' = "none" /\ sub' = Ended
  /\ UNCHANGED <<turns, file, threads, record, status, settle, watcher, history>>

\* `remove_session`: the watcher, then the entry.
Unwatch ==
  /\ exit = "unwatch" /\ exit' = "forget" /\ slot' = NoSlot
  /\ UNCHANGED <<agent, threads, record, status, settle, late, history>>

Forget ==
  /\ exit = "forget" /\ exit' = "mark" /\ known' = FALSE /\ entry' = NoRuns
  /\ UNCHANGED <<agent, threads, status, settle, watcher, history>>

MarkExited ==
  /\ exit = "mark" /\ exit' = "over" /\ Show("exited")
  /\ UNCHANGED <<agent, threads, record, settle, watcher, history>>

-----------------------------------------------------------------------------
Hook(x) == CallTool(x) \/ ShowRunning(x) \/ ShowAwaiting(x) \/ Resume(x) \/ Sync(x)
TurnHook == \/ SpawnRequested \/ AskPerson \/ EndTurn \/ HasActive \/ HoldRunning
            \/ ShowIdle \/ Arm \/ SessionEnded
SubagentHook(a) == \/ CallSubagent(a) \/ Started(a) \/ Coordinate(a) \/ Finish(a)
                   \/ StopNoted(a) \/ Lower(a)
Watcher(a) == Poll(a) \/ FinishTarget(a) \/ CoordinatorReads(a) \/ CoordinatorWrites(a)
Settle(k)  == SettleChecks(k) \/ SettleReads(k) \/ SettleNotifies(k)
Reaper     == Exit \/ Unwatch \/ Forget \/ MarkExited

Next == \/ Prompt \/ TurnHook \/ Lose \/ WatchEnds \/ Reaper
        \/ \E x \in Actors : Hook(x)
        \/ \E a \in Subagents : SubagentHook(a) \/ Watcher(a)
        \/ \E k \in Turns : Settle(k)

Spec == Init /\ [][Next]_vars

-----------------------------------------------------------------------------
\* The one case in which the core takes a subagent at work for over, by design
\* (status/subagent_transcript.rs:37): it was silent for 120 s while no reported turn
\* was open. The properties say that there is no other, and that a subagent the
\* orchestrator waits for, or any one while the orchestrator works, is never cut off.
AtWork(a) == sub[a] = "working" /\ a \notin cut

\* A subagent works, or the orchestrator in a turn of which a tool call was reported.
Busy == InReportedTurn \/ \E a \in Subagents : AtWork(a)

\* Work is shown: as long as the handlers, the watchers and the settling thread run
\* one after the other, a session whose agent works is not shown Idle between them.
\* (Idle has five writers, each of which decided before that nothing works.) A session
\* left with nothing but subagents that were cut off may be shown Idle.
WorkIsShown == (exit = "running" /\ ~Deciding /\ Busy) => status # "idle"

\* A subagent at work is active in the record, whether its start was reported or
\* lost, whatever rounds, conversations and watchers came between: a Stop that asks
\* `has_active` does not miss it, unless it was cut off.
WorkIsCounted ==
  (known /\ exit = "running") => \A a \in Subagents : AtWork(a) => Active(entry)

\* A subagent is Done in the record only when it has ended or was cut off outside a
\* reported turn, though its transcript, its stop and the end of the conversation are
\* three writers of it: the idle gate covers the synchronous subagent.
DoneIsOver == known => \A a \in entry.done \ entry.running : sub[a] = "ended" \/ a \in cut

\* A turn that was still settling when a tool was called, or when another turn ended,
\* is never notified: its thread finds another generation after the sleep.
NewWorkSwallowsAlert == announced \cap swallowed = {}
=============================================================================
