# Tyba Terminal: specifications of the core

Tyba is a desktop terminal for people who run coding agents: panes with shells,
SSH sessions that survive a lost network, and agent sessions (Claude Code,
Codex) whose tool calls the core may hold until a person answers. The core is a
Tauri application in Rust (`src/src-tauri/src`), one process with a few dozen
kinds of threads; the React front end (`src/src`) calls its commands and listens
to its events. This directory models the parts of the core in which several of
those threads decide something together, checks the models with TLC and proves
theorems about them with TLAPS. Paths below are relative to `src/src-tauri/src`
unless they begin with `docs-site`, `.pipeline` or `src`.

    tlc -workers 2 -config <run>.cfg <MC module>     # a run of the table below
    tlapm <Component>Proofs.tla                      # the proofs

## 1. Inventory

`PROJECT.json` lists every component with its sources and status, and every
hazard with its line. What follows is what one needs to read the models.

| Component | State it keeps | Operations | Talks to |
|---|---|---|---|
| **Approval gate** `approvals/mod.rs` | `pending` (the inbox), `waiters` (a channel per blocked hook thread), the per-session allowlist: three locks | `request`, `resolve`, `expire_session`, `is_session_allowed` | called by hook threads, by the UI, by teardown |
| **Agent session** `agent/session.rs` | status of each session, `orchestrator_idle`, settle threads, the registry of hook servers | `on_pre_tool_use`, `on_stop`, `on_subagent_stopped`, `prepare_*_agent` | hook channel, gate, subagents, registry |
| **Hook channel** `hook_ipc/` | a Unix socket per session, an accept thread, `inflight`, `shutdown` | bind, accept, refuse, stop; client: connect, retry, print | hook processes of the agent; handlers in `agent/session.rs` |
| **Host channel and shim** `hook_ipc/channel.rs`, `agent/channel_host.rs` | one socket for the application, resolution of a pane | host a `claude` typed in a shell | agent session, hook channel |
| **Subagents** `agent/subagents.rs` | runs of each session, watchers on their transcripts | started, stopped, coordinated, sync of watchers | agent session, notifications |
| **Connection cycle** `session/cano.rs` | a `CanoLifecycle` per SSH session: phase, attempt, ages, token | logged in, exited, probed, wait ended, retry; `conduct` runs what they decide | session registry, SSH probe, PTYs |
| **Session registry** `session/mod.rs` | maps `sessions` and `canos`, persistence | `spawn_ssh`, `register_spawned`, `apply_cano`, `apply_status`, `dispose` | everyone |
| **Application wiring** `lib.rs` | the reapers and the Tauri commands | `session_exited`, `dispose_session`, `teardown_agent_session`, boot | everyone |
| **PTY pool and capture** `pty/` | per terminal a capture machine, the screen of the core, what is queued for the views, how many are attached in each window | ingest a chunk, flush, attach, detach, end of the stream, start again on the same screen | registry, terminal blocks, front end |
| **Layout** `layout/mod.rs` | workspaces, tabs, trees of panes, side panels, what is active; the rows stored | two dozen commands, `session_disposed`, viewers of subagents, `persist`, `load_remapped` | front end, registry, store |
| **SSH** `ssh/` | a query multiplexer per host, tunnels per session | probe, query, tunnels, classification of failures | connection cycle, files panel |
| **Language servers** `lsp/` | a client per workspace, documents, restart budget | open, change, restart | editor |
| **Files panel** `files/` | none of its own: reads, and writes that first verify what is on disk | read, write | editor, SSH |
| **Store, history, sandbox, worktrees, forges, detection of unmanaged agents, front end** | see `PROJECT.json` | sequential code, drivers of external programs, parsers | |

What makes this code hard is that nearly every decision spans an unlock: the
allowlist is read and later used, a request leaves the inbox and is later
answered, a session is looked up and later respawned, a socket is removed and
later bound. The threads on the other side of the gap are a person in the front
end, the reaper of a process, an agent that fires hooks in parallel, a probe or a
timer that answers late. Per component, what makes it correct:

* **Approval gate**: no tool runs without the consent of a person for that
  session and that command; what the core refuses stays refused; a blocked hook
  thread can always be reached by an answer or by the teardown; an answer is
  given once; consent dies with its session.
* **Hook channel**: an agent that gets no answer takes it for consent, so the
  hook must fail closed; slots are neither lost nor exceeded; stopping a server
  terminates although its handlers may be blocked on a person, and the registered
  server is the reachable one.
* **Connection cycle**: in each phase exactly one thing moves it on; it insists
  for the promised time and no longer; attempts follow the table; a drop ends in
  `live` or in the owner's hands; a stale verdict or timer is ignored.
* **Session registry with the cycle**: never two processes for a session; a
  closed pane stays closed; what is shown live has a process that logged in.
* **Agent turn**: a session that works is shown working and not announced as
  done; a subagent at work is counted, one that is done has ended, however many of the hooks about it
  were lost and whoever noticed first.
* **Layout**: a terminal is shown once; what is active exists; what was disposed leaves nothing; what is
  stored is what is shown, can be read back, and survives a restart.
* **Pane**: a view shows each byte once and misses none; the block of a command is what the command wrote; the
  front end knows what runs.

## 2. Modules

| Module | Models | Uses |
|---|---|---|
| `ApprovalGate` | the gate, the hook threads in it, the UI, the teardown | |
| `ApprovalGateProofs` | theorems about it | `ApprovalGate` |
| `CanoLifecycle` | the transition function of `session/cano.rs`, as operators on a record | |
| `Cano` | the machine with its driver `conduct`: processes, probes and waits of one session, one clock | `CanoLifecycle`, `Reconnection` |
| `Reconnection` | the abstract specification: what a user of an SSH pane is promised | |
| `CanoProofs` | theorems about `Cano`, the refinement included | `Cano` |
| `CanoLifecycleProofs` | lemmas: what each method of the cycle can end in, at any age | `CanoLifecycle` |
| `CanoSession` | the same cycle in the registry: threads between locks, spawn in steps, close of the pane | `CanoLifecycle` |
| `CanoSessionProofs` | theorems about it | `CanoSession`, `CanoLifecycleProofs` |
| `HookChannel` | client, servers of one session, the stop, the registry, opening and teardown | |
| `HookChannelProofs` | theorems about it | `HookChannel` |
| `SubagentRuns` | the record of the subagents of a session (agent/subagents.rs), as operators | |
| `AgentTurn` | the status of one session: handlers, settle threads, watchers, reaper | `SubagentRuns` |
| `AgentTurnProofs` | theorems about it | `AgentTurn` |
| `PaneTree` | the tree of a tab: split, prune, rows | |
| `Layout` | the methods of `LayoutManager`, as operators on a layout | `PaneTree` |
| `LayoutManager` | the layout under its threads, with the store, the boot and restarts | `Layout` |
| `LayoutProofs` | theorems about it | `LayoutManager` |
| `CaptureMachine` | `pty/capture.rs`: what a chunk of a shell's output means | |
| `PtyScreen` | `ScreenState` of `pty/mod.rs`, section by section | `CaptureMachine` |
| `Pane` | a terminal with its shell, emitter, views and the process started again | `PtyScreen` |
| `PaneProofs` | theorems about it | `Pane` |
| `MC*` | constants of the runs | |

### ApprovalGate

A hook thread is a handler of `on_pre_tool_use` (agent/session.rs:308-355). Its
steps are the code between two acquisitions of a lock: `Accept` begins it,
`ReportWorking` and `ReportAwaiting` write the status, `AllowedUnasked` and `Classify`
read the policy and the allowlist, `Ask` pushes the request and its waiter
(`AskRefused` finds that the core refuses it), `Wake` receives from the channel,
`Settle` writes `Running` and answers. A command is a model value; the policy that
colours it (`Risk`) and the refusals of the core (`Refused`) are constants, so the
proofs hold for every colouring. The main thread resolves as `resolve_inner` does
(`Resolve` takes from `pending`, `ResolveRemember` records an "always", `ResolveSend`
finds the waiter), one command at a time. Teardowns come from the thread that reports the exit of
the process (`Reaper*`) and from `dispose_session` (`Dispose*`), in the order of `lib.rs`: stop the server,
forget the allowlist, expire the requests, mark or remove the session. `Resume` starts the
session again under the same id, as `resume_agent_session` does. `approved` and `standing`
are history variables: which requests a person approved, and which commands for the rest of which session.

### CanoLifecycle, Cano, Reconnection

`CanoLifecycle` has one operator per method of the Rust type, on a record with its
fields (phase, attempt, drop, live, token, failure); times are ages in seconds,
cut at `MaxAge`. `Cano` adds what `conduct` starts: a process of ssh in stages,
probes and waits carrying the token they were started with, and the `Tick` of one
clock. Anything the world may do - log in, exit before or after login with any
class of failure, answer a probe with any verdict, at any age - is an action.
Tokens wrap at `TokenSpace` instead of at 2^64; `SomebodyDrives` shows that at most one job is
out at a time, so four tokens tell old from new as well as 2^64 do.

`Reconnection` says in forty lines what a user of an SSH pane is promised: what `docs-site/en/ssh/persistence.mdx` and the
code agree on, and the code where they do not (the Reconnect button, section 4): a session is connecting, live, in a drop that began some time ago, or in its
owner's hands; a drop is given up only once the deadline has passed, or for a reason that
retrying cannot cure. `Cano` maps onto it by `Promise`, with the abstract age of
the drop bound to `cycle.drop`.

### CanoSession

The composition of the cycle with the two maps of `session/mod.rs`, each behind its own
lock. Threads (the reaper of each process, each probe, each wait, the command of the owner)
advance by one lock at a time: decide under the lock of `canos`, publish under that of
`sessions`, look for a target, spawn, register. Ages are arbitrary (`OfAnyAge`): whatever
clock a process meets, a result here does not depend on the table. `Close` takes
`dispose` apart as the code does: session, cycle, PTY, process.

### HookChannel

All servers of a session bind the same path, because `runtime_dir` is a function of the
session id. A connection is named by the hook that made it, or by the server whose stop
made it. `AcceptEnds` is the loop seeing the flag on a connection: the
listener closes and what waited in its backlog reads end of file. `Overlap` chooses
between two worlds: openings and teardowns of a session one after another - what the
comments in the code assume - and openings in any order, which the host channel permits, since it
handles each connection on a thread (hook_ipc/channel.rs:216). What a handler
decides is `ApprovalGate`'s subject; here `Answer` happens some time or never, or is the end of file of a connection whose request
could not be read or whose handler panicked.

### SubagentRuns, AgentTurn

The record keeps a vector of runs; here it is the number of Starting runs of each type, which have no agent id yet, and the
sets of agents that are Running or Done. `AgentTurn` puts it under the handlers of `handle_event`: `at[x]` is where the handler of an
agent's hook stands between two locks, `held` the watch targets it took from the record and hands to the watchers later (`Sync`), `timer` the
thread that settles the end of each turn, `fresh` whether its generation is still the current one. The agent is outside: `turn` and `sub` say what it
really does, `Lose` that a hook is refused or a subagent killed, `file` what a transcript shows. A tool call of any
actor clears `idle` as `note_orchestrator_working` does. `exit` walks through `session_exited`. `Overlap` chooses whether a hook may arrive while another
thread is between what it read and what it writes.

A transcript is assumed to end with an answer only when its subagent has ended. How long a transcript was silent is not counted: any without an answer may have been silent for the 120 s after which `stall_is_dead`
(status/subagent_transcript.rs:616) ends its run, provided the orchestrator is idle, and the model lets it be so at any poll, be the subagent dead or in a tool that takes minutes. By the comment at 37-41 that is the
intent: the idle gate protects the subagent its orchestrator waits for. The history `cut` holds the subagents that worked when a poll ended their run and no turn with a reported tool call was open; the three properties about
work except those (`AtWork`) and no others, so they would fail if the gate let through a subagent of a reported turn, or if anything but this silence ended a run at work. The mutant `PollAnyFile` drops the gate.

### PaneTree, Layout, LayoutManager

A pane is a record of its kind and session. A tree is a function from places to panes, a place being the way from the root (0 for the first side of a
split, 1 for the second): the splits are where ways part, and a split that loses a side is a step that no way needs any more. A row of the store is named by the
tab and the place, as a uuid names it, and `BuildNode` follows parents and positions level by level. No definition recurs over a tree, so that theorems can be stated of it. `Layout` has one operator per
method, without its guard; `LayoutManager` has the commands of `lib.rs`, which are taken one at a time as on the main thread, the thread of
the core that disposes of a session (`find`, `close`, `sides`: one lock each) or coordinates the viewer of a subagent, and the boot. Each write is followed by
`persist` in its three steps: `Snapshot`, `SaveRows`, `SaveActive`. `Restart` may come between any two steps and leaves what is stored.

No command waits for the boot: the splash gives up after 4 s and the window can then be used, `create_session` and `resume_agent_session` go on after ten seconds, and the others do not ask. What limits an early command is what the window can name:
a session it has started itself (`mine`) or one that is shown (`Named`), since the others are announced when the boot has ended. `load_remapped` is two steps: `ReadStored` takes what is stored, or an empty layout when that cannot be read
(`unwrap_or_default`), and `Load` puts it in the place of whatever is shown by then. Rows and active workspace are read in one step; the code reads the latter a statement later, and drops it when it names no workspace of the rows.
A container gets its tab from `open_container_tab`: in the workspace of the containers, or in one of its own when it is on another host (`PlaceInWorkspace`, as for a Docker project); when its process exits it stays listed as exited, as an agent does.
A page has a tree without panes. `Saved`, what the first start finds, is any layout an earlier run may have left (`IsStored`): each name and pane once, no tab that is neither a page nor has a pane.
Ids are numbers nobody holds.

### CaptureMachine, PtyScreen, Pane

A chunk is a sequence of tokens: the marks of the shell integration, the line feed that ends an echo, glyphs. `CaptureMachine.OnChunk` is the Rust function with its
order of scanning; `PtyScreen` applies its actions to the screen of the core and to what is queued for the views. In `Pane` the shell writes as
`session/tyba-zsh-rc.sh` makes it write, `Ingest` takes any prefix of what is not yet read - the reader, the hold-back of split sequences and the channel only decide the cut -
`Flush` is the 16 ms timer, and `Report` what `ActionSink` does after the unlock. A view listens, then attaches, and detaches in the reverse order; windows close with
their views; `Inherit` and `Respawn` are the two halves of starting a process again on the same screen.

## 3. Runs

| Run | Checks | Shows |
|---|---|---|
| `gate_scope` | `TypeOK`, `ConsentRequired`, `RefusedNeverAllowed`, `BlockedIsReachable`, `InboxIsOpen`, `AnsweredOnce` | two sessions, two hook threads, a yellow, a green and a refused red command, both teardowns. No consent crosses sessions, commands or colours; no answer is lost or doubled |
| `gate_live` | `TeardownReleasesBlocked` | a blocked hook thread is freed by the teardown, also when its request is just then being resolved |
| `gate_allowlist` | `AllowlistDiesWithSession`, **violated** | finding 1 |
| `cano_machine` | `TypeOK`, `SomebodyDrives`, `AttemptsArePaced`, `FailureIsShown`, `InsistsWithinDeadline`, `KeepsPromise`, `DropComesToAnEnd` | the machine with the code's own table (1, 2, 4, 8, 16, 30 s), deadline (300 s) and stability (30 s); the refinement of `Reconnection`; a drop ends, also when the connection logs in and falls over and over |
| `cano_close` | `OneCano`, `ClosedWhileWaitingStaysClosed`, `LiveIsTrue` | sessions begun, restored at boot or kept by tmux; spawns that fail at any of their steps |
| `hook_overlap` | `TypeOK`, `FailClosed`, `SlotsAreExact` | even when openings overlap, a hook prints a decision and slots are exact |
| `hook_serial` | `WakeReachesOwner`, `ServerIsReachable`, `StopReturns`, `HookIsServedOrEnds` | when they do not, stops end, the registered server is the reachable one, no hook hangs |
| `turn` | `TypeOK`, `WorkIsShown`, `WorkIsCounted`, `DoneIsOver`, `NewWorkSwallowsAlert` | three subagents of one type, two turns, lost hooks and the exit. Handlers, watchers and timers run one after another, each in several steps |
| `layout` | `PlacedOnce`, `FocusExists`, `DisposedLeavesNothing`, `SavedIsCurrent`, `RoundTrip`, `BootKeepsLayout` | any two commands of the window, hooks or restarts, before and after the boot, against the core's disposal of sessions, its viewers and the store |
| `layout_boot` | `LayoutSurvivesBoot`, **violated** | finding 2 |
| `pane_capture` | `NothingLost`, `BlocksAreFaithful`, `CommandStateIsTrue` | two commands in both modes, continued lines, lines typed ahead, the death of the shell at any moment, the stream cut anywhere |
| `pane_views` | `DrawnOnce`, `AttachedIsHeard` | two views of one or two windows mount, attach, detach and are closed while the shell writes, changes its mode, dies and is started again |

### Bounds, and why they are enough

* Gate: the properties relate at most two hook threads (one whose answer could be
  used for the other) and two sessions; three commands give each class of colour
  against each other. A session begins and ends once in `gate_scope`; `MaxResumes = 1`
  elsewhere gives a life after death. `MaxUiRequests` bounds requests of the
  front end (`request_approval`), which wait on no hook. `gate_live` has one session and two commands: a
  second session takes no part in the release of a thread.
* Cycle: no bound of ours but `MaxAge`, past which no comparison changes.
* Session: four processes and three jobs allow a boot, a drop, a wait, a respawn, another
  drop and a retry; a spawn beyond these repeats one of them.
* Hook channel: two servers (the old one and the next), one hook, a single slot for 32 and
  two attempts for 5: the slot is contended by the hook and the two wake-up connections,
  and the comparisons with `MaxInflight` and `Attempts` are reached from both sides.
* Turn: two turns let a settling thread meet the next one; three subagents of the same type let two Starting runs be confused while
  a third works. Runs of several types do not interact but in `Active`; the theorems hold for any types.
* Layout: two shells and an agent with its viewer, at most two tabs when one is to be added, two events: a command or hook that meets another, the boot, an exit (which is not counted) or the disposal it began,
  or that is cut by a restart. Commands before the boot count too. The stored layout is a tab with a shell beside an agent, which a viewer or a second shell splits again. No session is remote or, in `layout`, a container: what `Ssh` adds is one more kind of panel, and a container is placed as the Docker project of a shell is and exits as an agent does. The theorems hold for any number of each, of events and of tabs.
* Pane: three glyphs and two commands put an echo, a continuation and an output in any of the chunks that nine unread tokens can be cut into;
  `MaxEcho = 4` is reached by a line of echo with its marks. For the views one command, two glyphs, four tokens, two mounts and a second process.
* Symmetry is used in safety runs only.
* Deadlock is checked in `cano_machine`, which never stops, and not where everything may be over:
  every hook done and every session gone, every bound spent.

### Fairness, and why the code justifies it

Weak fairness, and only of steps that a running thread makes by itself: a hook thread between its
locks, the reaper and the command that tear a session down, a UI command that has begun
(`gate_live`); the clock, the answer of a probe (it has a timeout of its own), the
end of a wait (`thread::sleep`) and the spawn that returns, in `cano_machine`; client, accept, connection,
opening and teardown threads in `hook_serial`. Nothing obliges a person to answer a request, a
process to log in or to exit, an agent to fire a hook, or anyone to open, close
or resume a session. The machine sets no limit to an attempt that hangs before its login - `ssh` has
a connect timeout, and a password prompt may wait for ever - so `DropComesToAnEnd` is about behaviours in which
no attempt does (`[]<>(ssh # "login")` is its premise, stated in the property).

## 4. Findings

1. **An "always" outlives its session** (`gate_allowlist`). `resolve_inner` takes the request, unlocks, and
   then remembers the command; a teardown between the two clears the allowlist first. The entry then
   belongs to a dead session and works again once it is resumed. `docs-site/en/security/risk-classification.mdx:122`
   and the test at approvals/mod.rs:2315 say the contrary.
2. **A command before the boot has ended wipes the stored layout** (`layout_boot`). Once the splash has given up, a command adds to the empty layout in memory and
   `persist` stores it before `load_remapped` has read what was there. `open_view_tab` (lib.rs:4639), `docker_open_dashboard` (4657), `create_workspace` (3971), `docker_open_project` (4702), `docker_open_logs` and
   `docker_open_shell` (through 4415) and `docker_compose_op` (4667) do not wait; `create_session` and `resume_agent_session` drop the result of a wait of ten seconds (102, 1159, 4970), and the workspace of the new session
   is then a command that does not wait. boot.rs:91 and lib.rs:117 give this very case as the reason to wait. `BootKeepsLayout` is the half that holds, and is proved: what the boot did read is kept.

### Divergences seen while modelling

They happen in the models, and the properties are stated so as to leave them out by name; none has a run of its own.

*Gate.*
* A handler past the allowlist check when its session dies pushes its request after `expire_session`: nobody denies it
  (lib.rs:982, `risk-classification.mdx:144`).
* agent/session.rs:348 writes `Running` after an answer although the session may have been marked exited meanwhile, and the first of two concurrent
  tool calls to be answered overwrites the `AwaitingInput` of the other (338, 348; `docs-site/en/agents/claude-code-and-codex.mdx:67,76`). `Settle` and `Resume` are the writes.

*Connection.*
* The Reconnect button begins a first connection, which fails at once without a network (session/cano.rs:245), where `persistence.mdx:75` promises the same machine
  with its backoff; `.pipeline/ssh-conexao-confiavel/spec.md:118` agrees with the code. `KeepsPromise` holds for what the code does.
* A pane closed between the check of `conduct` and `register_spawned` comes back with a live ssh and no place in the layout
  (session/mod.rs:617; the comments at session/cano.rs:316 and :340 exclude it). `ClosedWhileWaitingStaysClosed` is the half that holds.
* A reattached session whose login mark comes before `register_spawned` stays shown as connecting (session/mod.rs:617-630); `LiveIsTrue` is the half that holds.
* A process that exits before it is registered is reported to nobody on a first connection (lib.rs:845); a respawn that fails at boot leaves a cycle in `Connecting` which
  `retry` ignores (lib.rs:1071); so does a host row deleted while a session waits (lib.rs:625).

*Hook channel.*
* Two `claude` hosted at once in a pane, or one while the pane exits: the stop of one server wakes the other, and its join never returns
  (agent/session.rs:913, hook_ipc/channel.rs:216; the comment at agent/session.rs:911 excludes it). With `Overlap = TRUE` `WakeReachesOwner` fails after a dozen steps.
* A `PermissionRequest` of Codex whose channel fails prints nothing (hook_ipc/client.rs:145) where `hooks.mdx:115` says deny. Events
  refused beyond `MAX_INFLIGHT` include the end of a turn, which no agent repeats.

*Turn.*
* A `PreToolUse` of a subagent clears `orchestrator_idle` like one of the orchestrator (agent/session.rs:486), so the end of the last subagent does not lower the session,
  which then stays Running until the next hook; the comment at 501-503 says the last one lowers it.
* A Stop that found a subagent active writes Running a step later; if the last one ended in between nothing lowers the session (504).
* With overlapping threads `WorkIsShown` fails: idle is decided under one lock and written under another (247, 463; lib.rs:6519-6530). A tool call or a subagent that begins in between is shown Idle.
* A subagent in the background whose tool writes nothing for 120 s after the turn is marked Done (interrupted) while it works, and its session may be shown Idle (status/subagent_transcript.rs:37-41, 616, 692): by design, and the exception `cut` of the properties.
* A handler that stood between its lock and `sync` may hand the watchers an older set of targets (agent/subagents.rs:575).

*Layout.*
* `session_disposed` (layout/mod.rs:1172-1187) closes the panels of three kinds; the panel of the tunnels of a session stays, though 330-332 say a panel dies with its session. `close_tab`
  and `close_pane` of a shell end it without `session_disposed`, so that a panel of another tab stays too.
* `open_docker_dashboard`, `open_view_tab` and `open_agent_viewer` change the focus without the sweep that the comment at 531-533 asks of every change.
* `open_session` finds a pane under one lock and focuses it under another (911): what it focuses may be gone (`slipped`). A process that exits before `create_tab` gets a tab nobody closes (lib.rs:4575-4601).
* Two threads may store their snapshots in the reverse order of taking them (`crossed`); a workspace of containers alone leaves nothing active; a failing `load_layout` is an empty layout, which is shown and stored next (577, `ReadStored`): what was stored is lost.

*Pane.*
* A line typed ahead that comes in the chunk of the mark B leaves the swallow on (pty/capture.rs:266-300, against its comment): a continuation prompt is then held back and not announced.
  `NothingLost` and `CommandStateIsTrue` leave out a shell that was typed ahead (`ahead`).
* `ClearCoreScreen` is applied after the parser saw the whole chunk (pty/mod.rs:510, 575): output in the chunk of the mark C is missing from the snapshot of a view
  that attaches while the command runs. A view that attaches between an echo and its rescue shows the echo twice.
* A view that attaches or detaches between `inherited_screen` (817) and the insertion of the new handle is not counted: the pane is mute, or a window is counted for ever (`raced`).
* Turning prompt mode off holds back the prompt that is drawn for it.

## 5. Proofs

TLAPS proves the following for every value of the constants: any sets of sessions, hooks and commands and any colouring of them,
any table of waits and deadline, any number of servers. The assumptions are `RiskAssumption`, `RefusedAssumption`, `BoundsAssumption`, `LifecycleAssumption`, `ThreadsAssumption`, `ChannelAssumption`, `SubagentAssumption`, `TurnAssumption`, `LayoutAssumption`, `PaneAssumption` and `EchoAssumption` (an echo holds at least one element; `MAX_ECHO_BYTES` is 8 KiB),
stated where the constants are declared; TLC evaluates each on the runs.

**ApprovalGateProofs.** `GateInvariant`: `Spec => []GateInv`. What one wants (`ConsentRequired`, `BlockedIsReachable`, `InboxIsOpen`) is not
inductive. `WaitersMatch` ties each waiter to the hook thread that asked; `HooksInOrder` says what a thread holds at each of its steps; `IdsAreUnique`
that an id names one request in the inbox, in the hands of `resolve` and among the waiters; `DecisionsAreHuman` that an entry of the allowlist, or an
"allow" on its way, stems from a decision of a person for that session and command. Each action then touches one or two conjuncts.
From it: `TypeCorrect`, `Consent`, `RefusedStaysRefused`, `NoLostWakeUp`, `InboxIsHonest`, and the action property `AnsweredAtMostOnce`.

**CanoProofs.** `CanoInvariant`: `TypeOK`, `SomebodyDrives` and `FailureIsShown` with `DropRuns` (a phase of reconnection has a drop that began). Lemmas
give the outcome of each method of the lifecycle - the phases, tokens and decision it can end in - so that a step of the driver is a case analysis on
a lemma and not on the code. From it: `CanoTypeCorrect`, `SomebodyAlwaysDrives`, `FailureAlwaysShown`; `MachineKeepsPromise`, that `Cano` implements
`Reconnection` (initial states map to initial states, each step to a step or a stutter); and `InsistenceEnds`, for which the history of
ages is shown equal to the ages the machine keeps.

**HookChannelProofs.** `ChannelInvariant` adds to `TypeOK`, `FailClosed` and `SlotsAreExact` what they rest on: `HooksInOrder` (a reply exists only once
the server's side has sent it, and fits the event), `PeersKnown`, and `StoppedOnce` - a server is taken out of the registry by one thread, once, so the
connection that wakes its accept thread is made once and counted once. Cardinalities follow from the library's facts about adding and removing an element. From it: `ChannelTypeCorrect`,
`HookFailsClosed`, `SlotsStayExact`, which need no assumption on how openings interleave. `SerialInvariant`, under `~Overlap`, says where an opening is: `OneWorks` (an opening is alone; only
the reaper and the disposer may work at once), `OpensAlone` (what is registered is what the path names and what accepts, except inside a stop and between bind and insert, and what holds
there), `DeadHasNone` (a dead or disposed session has no server or is losing it, which is why opening one again may ignore the registry). From it: `StopWakesOwner` and
`RegisteredIsReachable`. The same statements without `~Overlap` are false, so the hypothesis is exactly what the code lacks.

**AgentTurnProofs.** `TurnInvariant`: `Spec => []TurnInv`, for any finite set of subagents of any types, any number of turns, and whether or not threads overlap. `WorkIsCounted` is
not inductive: a subagent may work while its run is still Starting, and nothing in the record says whose run that is. `EveryoneIsCounted` counts instead: the subagents of a type that were asked for or
work and have no run of their own (`Unpaid`) are at most the Starting runs of that type. A request adds one to both sides; `promote` takes one from both, even when it takes the run that was
meant for another. `AsksOne` keeps the subagent a tool call is about to ask for out of the count until the record is told. `RecordIsTrue` and `EndWasSeen` say
that whoever writes Done - the stop, a watcher, the end of the conversation - has seen the end, or a silence outside a reported turn, which `cut` remembers. `IdleIsTrue` is why no subagent of a reported turn is cut off:
the record shows the orchestrator idle only from a Stop to the next tool call, through every rearming, coordination and end of the session. `TurnsInOrder` says that a turn is armed once, so that
`SwallowedIsStale` holds: a turn that was swallowed finds another generation. The lemmas give what each operation makes of the record and which actions write a variable at all
(`RecordWriters`, `TimerWriters`, ...), so that a conjunct is shown against these only. From it: `TypeCorrect`, `WorkCounted`, `DoneOver`, `AlertSwallowed`. That a transcript ends with an answer only when its subagent has ended
is taken from the agent, which is outside.

**CanoSessionProofs.** `SessionInvariant`: `Spec => []SessionInv`, for any number of processes, jobs and cycles. The decision to spawn is taken under the lock of one map and carried out under that
of another, by whichever thread happened to come first; what makes it safe is that the connection of a cycle has one holder at a time, a process, a job or the thread between them. The invariant
names the holder; the lemmas of `CanoLifecycleProofs` say for each method, at any ages, who holds it next. From it: `OneProcess`, `ClosedStaysClosed`, `ShownLiveIsLive`.

**Pacing.** `PaceKept` (in `CanoProofs`) bounds the age of a drop below by the sum of the waits that were served. The sum is a recursive function; `WaitSumDef` unfolds it by the least number at which no
function satisfying its equation exists, and the rest is arithmetic on one more term.

**Work is shown.** `WorkShown` (in `AgentTurnProofs`), under `~Overlap`. The write of Idle is decided under one lock and made under another. `ShownInv` says that at most one thread is lowering the session at a time, that while it is nothing
has begun to work since it looked, and that work which nobody has announced yet has a thread that will. Without the hypothesis the statement is false (section 4).

**PaneProofs.** `ViewsHeard`: `Spec => []AttachedIsHeard`. `CountInv` adds where a view that has been counted may be, and that the screen inherited by a new process counts what the old one did unless the two raced.

`StreamIsHeard`: `Spec => []StreamInv`. The reader may cut the stream between any two elements, and the emitter may be at any of its steps when the shell writes. So the invariant does not speak of chunks. What a stream says - which mode
it left, which command runs, which blocks ended - is a fold over its elements (`HeardAll`), and hearing two parts one after the other is hearing the whole (`HeardConcat`), however it was cut. `StreamInv` says
that the machine is where the stream is: what the emitter knows, followed by the actions it has still to carry out and the elements still to be read, is what the shell did. Then `on_chunk`
is shown to agree with the fold, event by event, and each step of the shell, reader and emitter to keep the sum. From it `BlocksAreFaithfulHolds`, that is `BlocksAreFaithful`.

`LinesAreSeen`: `Spec => []LineStreamInv`. What the stream says does not determine whether the shell waits for the rest of a line: the machine infers that from an echo and the end of a line, which may come in one chunk or in several.
`LineInv` relates how much of a line the machine has seen (`Saw`) to how much is still in the pipe (`Left`), in four stages, while nothing is typed ahead. From it `CommandStateHolds`, that is `CommandStateIsTrue`.

`DrawnOnceHolds`: `~Typeahead` implies `Spec => []DrawnOnce`. The tokens that paint are numbered as they are written, and that nothing is drawn twice is a statement about order: what a view shows (`ViewsInOrder`), what the core shows and what
is queued (`InOrder`), and what is still in the pipe (`StreamInOrder`) have growing numbers, each of them before the next. The exception is what the machine holds back: an echo that was read, is on the screen of the core, and may come back after a view has
attached. `HeldInOrder` keeps it after all that a view shows, but for a view that attached since, which is the exception of the property. It does so only while the echo can still come back (`Holding`); a line that was given up leaves an old echo
behind. Whether it can come back is a question about the pipe, so `EchoHolds` says which tokens can follow which: after a change of the prompt only such changes, after the end of a line what answers it, and a machine that waits for either finds it
there. `NextDraws` goes through the steps; those of the views use `CountInv`, those of the shell `StreamInv`. The hypothesis is that of the run `pane_views`: a line is typed after its prompt was read. A line typed ahead stands behind the prompt in the pipe,
which `PipeFits` excludes. On small instances TLC finds `DrawnOnce` true with lines typed ahead too, so the hypothesis is one of this proof and not known to be needed.

The folds of `Pane`, `PtyScreen` and `CaptureMachine` are recursive functions. What they compute is shown by induction over sets of naturals: the least number at which a function does not satisfy its equation does not
exist. No induction theorem with an operator for a parameter is needed.

**LayoutProofs.** `LayoutIsWhole`: `Spec => []WholeInv`, for any sessions, any stored layout that `LayoutAssumption` admits and any number of tabs. The argument has five parts, and a sixth for what is disposed of.

1. *Trees.* A set of ways is a tree when any two part and each step of each is a side of a split with two (`IsPlan`). Splitting a leaf, keeping some panes and reading back the rows of a tree each give a tree again,
   with the panes one expects. Nothing here recurs: what would be an induction over a tree is an argument on the least or the longest way with a property, by well-foundedness of `<` or by finiteness.
2. *Methods.* `Sound(L)` says that each workspace, tab and pane of `L` is there once and that all fields have their types; `Focused(L)` that what is active is there. `Becomes(L, M, S)` is the contract of a method: from
   a sound `L` it makes a sound `M` that shows no pane beside those of `L` and `S`, and is focused when `L` is. Each of the two dozen methods of `Layout` is shown to meet its contract.
3. *Rows.* `LoadedFacts`: what `load_remapped` makes of the rows of a sound layout is sound and focused, and shows a pane if and only if it was stored and its session, or the one opened in its place, is valid.
   `LoadedSame`: with all sessions valid it is the layout that was stored.
4. *Threads.* `WholeInv` carries soundness through the locks. `LayoutsOK` has it of memory, store and what waits to be loaded; `HeldOK` of each snapshot a thread is still to store, with what a thread knows of the session and
   the place it will use; `FoundOK` of the pane it will close; `Born` keeps sessions never started out of every layout, without which opening a shell again under a new id could show it twice. The window does not wait for the boot, so the boot loads over anything: `Unshown`, the sessions never started and those
   the boot has opened and not yet placed, only shrinks, and no layout, snapshot or started session of the window is in it; `FreshOK` says which sessions the boot has opened.
5. *Store.* `StoreInv` follows the one snapshot there is while none has met another: it is the layout in memory unless a thread has written since, which then stands before a snapshot of its own.
6. *Disposal.* `ForgottenInv` says that the layout in memory is free of the panes and of the three panels of each disposed session. `Becomes` bounds the panes a method shows; `Opens(L, M, X)`, its companion for the panels, says that `M`
   has the panels of `L`, some of them closed, and those of `X`. Only three methods have an `X`: the panel a user opens and the one a hook opens belong to a session whose terminal is placed, and a placed session is not a disposed one;
   the queue of the agents belongs to nobody. The load is the hard step: `LoadedFacts` and `LoadedSides` bound what comes back to the sessions the boot found valid.

From it: `EachPaneOnce`, `WhatIsActiveExists`, `RowsReadBack`, `StoredIsShown`, `ForgottenStaysForgotten` and `BootKeepsWhatIsStored`. The last is about a boot that has read what was stored when the program ended (`snap = left`) and holds whatever happens
between the read and the load; that the boot reads it, which is `LayoutSurvivesBoot`, is false (finding 2). `StoredAgain` shows that what is stored
at any step meets `LayoutAssumption` again, so that this assumption need only hold of the first start, where nothing is stored.

**Only model-checked.** Every liveness property (`TeardownReleasesBlocked`, `DropComesToAnEnd`, `StopReturns`, `HookIsServedOrEnds`): fairness is out of the
prover's reach. `NothingLost`, which compares what a view shows with all that was written since it attached, and `DrawnOnce` where lines are typed ahead.

## 6. Not modelled, and the plan

The policy that colours a command (`approvals/tool_action.rs`, `tool_risk.rs` and the first part of `approvals/mod.rs`) is a large pure case analysis with a table of tests; the models quantify over its
result. The store, sandbox profiles, git and forges, history and completion, and the front end are I/O, construction of arguments or parsing:
`PROJECT.json` says so for each. Windows' named pipe and job objects mirror the Unix code that is modelled.
Text, titles, persistence of columns and notifications are left out of what is modelled. Of the gate: `normalize_tool_use` cuts a description at 500 characters (approvals/tool_action.rs:98-101), so that
the colour comes from the whole command and the key of the allowlist from its first 500 characters; a command of the model is both, which is exact for commands up to that length. Of the pane: the protocol of tmux, resizes, observation of the screen, the gate of the line
editor, and reattaching during an alternate screen. Of the layout: names, colours, ratios, groups, launch configurations.

Next, in this order:

1. `LspClient` (lsp/: the restart budget, and the versions of a document across a restart of the server).
2. `FileWrite` (files/: a save that verifies what changed on disk) and `Tunnels` (ssh/: the multiplexer of a host and the tunnels of a session).
3. `HostChannel`: the resolution of the pane of a typed `claude`, the shim's fallback, on top of `HookChannel`'s openings.
4. `SessionIncarnation`: the ids of sessions and processes across exit, resume and dispose, with the exit that precedes its registration.
5. `TerminalBlocks`: the bounded buffer of finished blocks and its rows, behind `Pane`'s reports.

Theorems worth proving next: `NothingLost`, for which the order of `DrawInv` has to become an equation between what was made, shown, queued, held back and unread; and that `CanoSession` without its race implements `Reconnection` as seen by the user.
