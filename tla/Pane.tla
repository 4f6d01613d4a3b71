--------------------------------- MODULE Pane ---------------------------------
(***************************************************************************)
(* One terminal of `PtyPool` (src-tauri/src/pty/mod.rs) with its threads: the *)
(* shell that writes, the thread that takes its chunks, parses them and flushes *)
(* the live screen every 16 ms, the views of the frontend that attach and       *)
(* detach, and the thread that starts the process again on the same screen.    *)
(*                                                                           *)
(* The reader thread, its retention of incomplete sequences and the channel to  *)
(* the emitter only decide how the stream is cut, so a chunk is any prefix of    *)
(* what was written and not yet read.                                          *)
(***************************************************************************)
EXTENDS PtyScreen

CONSTANTS
  Views,         \* terminals of the frontend
  Typeahead,     \* a line may be typed before the prompt was read
  MaxCommands, MaxGlyphs, MaxPipe,  \* bounds: commands, glyphs, tokens not yet read
  MaxToggles, MaxMounts, MaxSpawns  \* bounds: changes of mode, views, processes

ASSUME PaneAssumption ==
  /\ Typeahead \in BOOLEAN /\ IsFiniteSet(Views)
  /\ {MaxCommands, MaxGlyphs, MaxPipe, MaxToggles, MaxMounts, MaxSpawns} \subseteq Nat

VARIABLES
  shell,      \* what the shell does: [at, mode, commands, toggles, ran, ahead]
  pipe,       \* what it wrote and nobody has read
  made,       \* the number of the last glyph it wrote
  machine,    \* CaptureMachine of the emitter
  screen,     \* ScreenState
  emitter,    \* its next step: "receive", "report", "last words" or "over"
  queued,     \* it will wake up to flush
  acts,       \* what it has to report once the screen is unlocked
  front,      \* what the frontend was last told of the command
  blocks,     \* the blocks that were finalized
  view,       \* each view: "off", "hears", "attached" or "leaves"
  shown,      \* the screen of each
  windowOf,   \* its window
  inherited,  \* the attachers a new process takes over, while it starts
  count,      \* mounts and processes so far
  written,    \* history: what each command put on the screen, in order
  read,       \* history: the number of the last glyph that was ingested
  since,      \* history: that number when a view attached
  raced       \* history: a view came or went while a new process started

child == <<shell, pipe, made, written>>
core  == <<machine, screen, emitter, queued, acts, read>>
told  == <<front, blocks>>
views == <<view, shown, windowOf, since>>
vars  == <<child, core, told, views, inherited, count, raced>>

NotStarting == <<>>

-----------------------------------------------------------------------------
\* The shell, with the integration of session/tyba-zsh-rc.sh.

Writes(tokens) ==
  /\ Len(pipe) + Len(tokens) <= MaxPipe
  /\ pipe' = pipe \o tokens
  /\ UNCHANGED <<core, told, views, inherited, count, raced>>

At(where) == shell.at = where
Goes(to)  == shell' = [shell EXCEPT !.at = to]

\* A glyph on the screen that belongs to command c.
Puts(kind, c, more) ==
  /\ made < MaxGlyphs /\ made' = made + 1
  /\ Writes(<<Glyph(kind, c, made + 1)>> \o more)
  /\ written' = [written EXCEPT ![c] = Append(@, Glyph(kind, c, made + 1))]

\* The line that is being typed is the next command.
Coming == shell.commands + 1

\* In prompt mode PS1 is nothing but the mark B.
Ps1(mode, then) ==
  IF mode THEN /\ Writes(then \o <<Mark("B")>>) /\ UNCHANGED made
  ELSE /\ made < MaxGlyphs /\ made' = made + 1
       /\ Writes(then \o <<Glyph("prompt", NoCommand, made + 1), Mark("B")>>)

Prompt ==
  /\ shell.at \in {"start", "run", "done"} /\ Goes("input")
  /\ Ps1(shell.mode, <<Mark("D"), PromptMode(shell.mode)>>)
  /\ UNCHANGED written

Toggle ==
  /\ At("input") /\ shell.toggles < MaxToggles
  /\ shell' = [shell EXCEPT !.mode = ~@, !.toggles = @ + 1]
  /\ Ps1(~shell.mode, <<PromptMode(~shell.mode)>>)
  /\ UNCHANGED written

\* A line is typed when the user saw the prompt; before, only where Typeahead says so.
Types(to) ==
  /\ shell.at \in {"input", "more"} /\ (Typeahead \/ pipe = <<>>)
  /\ shell' = [shell EXCEPT !.at = to, !.ahead = @ \/ (pipe # <<>>)]

Submit ==
  /\ Types("read") /\ shell.commands < MaxCommands
  /\ Puts("echo", Coming, <<Mark("nl")>>)

EmptyLine ==
  /\ Types("done")
  /\ Writes(<<Mark("nl")>>) /\ UNCHANGED <<made, written>>

Continue ==
  /\ At("read") /\ Goes("more") /\ Puts("ps2", Coming, <<>>)

Run ==
  /\ At("read")
  /\ shell' = [shell EXCEPT !.at = "run", !.commands = Coming,
                            !.ran = IF shell.mode THEN @ \cup {Coming} ELSE @]
  /\ Writes(<<CommandLine(Coming), Mark("C")>>)
  /\ written' = [written EXCEPT ![Coming] = <<>>] /\ UNCHANGED made

Output == At("run") /\ Puts("out", shell.commands, <<>>) /\ UNCHANGED shell

Dies ==
  /\ ~At("gone") /\ Goes("gone")
  /\ UNCHANGED <<pipe, made, written, core, told, views, inherited, count, raced>>

Shell == Prompt \/ Toggle \/ Submit \/ EmptyLine \/ Continue \/ Run \/ Output \/ Dies

-----------------------------------------------------------------------------
\* The emitter.

Hears(v) == view[v] \in {"hears", "attached"}

\* `emit_pending`: every view that listens hears it.
Heard(bytes) == [v \in Views |-> IF Hears(v) THEN Draw(shown[v], bytes) ELSE shown[v]]

\* The actions of these kinds
Only(kinds, actions) == Picked(actions, {i \in DOMAIN actions : actions[i].do \in kinds})
Reports(actions)     == Only({"state", "block"}, actions)

\* One chunk under one lock, flushed if 16 ms are over.
Ingest ==
  /\ emitter = "receive" /\ pipe # <<>>
  /\ \E k \in 1..Len(pipe) :
       LET chunk == SubSeq(pipe, 1, k)
           r     == OnChunk(machine, chunk)
           s     == Ingested(screen, chunk, r.acts)
       IN  /\ pipe' = SubSeq(pipe, k + 1, Len(pipe))
           /\ machine' = r.m
           /\ read' = IF Painted(chunk) = <<>> THEN read ELSE Last(Painted(chunk)).n
           /\ \/ screen' = s /\ UNCHANGED shown
              \/ screen' = Emptied(s) /\ shown' = Heard(Pending(s))
           /\ acts' = Reports(r.acts)
  /\ queued' = (screen'.pending # <<>>)
  /\ emitter' = IF acts' = <<>> THEN "receive" ELSE "report"
  /\ UNCHANGED <<shell, made, written, told, view, windowOf, since, inherited, count, raced>>

\* `recv_timeout`
Flush ==
  /\ emitter = "receive" /\ queued
  /\ shown' = Heard(Pending(screen)) /\ screen' = Emptied(screen) /\ queued' = FALSE
  /\ UNCHANGED <<child, machine, emitter, acts, read, told, view, windowOf, since,
                 inherited, count, raced>>

\* `ActionSink::run`, outside the lock.
Told ==
  /\ LET states == Only({"state"}, acts)
         ended  == Only({"block"}, acts)
     IN  /\ front' = IF states = <<>> THEN front ELSE Last(states).with
         /\ blocks' = blocks \o [i \in DOMAIN ended |-> ended[i].with]
  /\ acts' = <<>>

Report ==
  /\ emitter = "report" /\ emitter' = "receive" /\ Told
  /\ UNCHANGED <<child, machine, screen, queued, read, views, inherited, count, raced>>

\* The stream has ended: `on_eof`, a last flush, then the report and the exit.
Eof ==
  /\ emitter = "receive" /\ At("gone") /\ pipe = <<>>
  /\ LET r == OnEof(machine)
         s == ApplyAll(screen, r.acts)
     IN  /\ machine' = r.m /\ acts' = Reports(r.acts)
         /\ screen' = Emptied(s) /\ shown' = Heard(Pending(s))
  /\ emitter' = "last words"
  /\ UNCHANGED <<child, queued, read, told, view, windowOf, since, inherited, count, raced>>

LastWords ==
  /\ emitter = "last words" /\ emitter' = "over" /\ Told
  /\ UNCHANGED <<child, machine, screen, queued, read, views, inherited, count, raced>>

Emitter == Ingest \/ Flush \/ Report \/ Eof \/ LastWords

-----------------------------------------------------------------------------
\* The views. A terminal listens, then attaches; it stops to listen, then detaches.

Moves(v, to) ==
  /\ view' = [view EXCEPT ![v] = to]
  /\ UNCHANGED <<child, machine, emitter, queued, acts, read, told, windowOf, inherited>>

Mount(v) ==
  /\ view[v] = "off" /\ count.mounts < MaxMounts
  /\ count' = [count EXCEPT !.mounts = @ + 1]
  /\ shown' = [shown EXCEPT ![v] = <<>>]
  /\ Moves(v, "hears") /\ UNCHANGED <<screen, since, raced>>

\* Mutant: a view attaches and what is queued stays queued.
AttachViewQueued(v) ==
  /\ view[v] = "hears"
  /\ LET w == windowOf[v] IN
     /\ shown' = [u \in Views |-> IF Hears(u) /\ windowOf[u] = w
                                  THEN Draw(<<>>, screen.core) ELSE shown[u]]
     /\ screen' = Attach(screen, w)
     /\ since' = [u \in Views |-> IF Hears(u) /\ windowOf[u] = w THEN read ELSE since[u]]
  /\ raced' = (raced \/ inherited # NotStarting)
  /\ Moves(v, "attached") /\ UNCHANGED count

\* `PtyPool::attach`: what is queued goes out to all, the screen of the core to the
\* window, and the window is counted.
AttachView(v) ==
  /\ view[v] = "hears"
  /\ LET w == windowOf[v] IN
     /\ shown' = [u \in Views |-> IF Hears(u) /\ windowOf[u] = w
                                  THEN Draw(<<>>, screen.core)
                                  ELSE Heard(Pending(screen))[u]]
     /\ screen' = Attach(Emptied(screen), w)
     /\ since' = [u \in Views |-> IF Hears(u) /\ windowOf[u] = w THEN read ELSE since[u]]
  /\ raced' = (raced \/ inherited # NotStarting)
  /\ Moves(v, "attached") /\ UNCHANGED count

Unmount(v) ==
  /\ view[v] = "attached"
  /\ Moves(v, "leaves") /\ UNCHANGED <<screen, shown, since, count, raced>>

DetachView(v) ==
  /\ view[v] = "leaves"
  /\ screen' = Detach(screen, windowOf[v])
  /\ raced' = (raced \/ inherited # NotStarting)
  /\ Moves(v, "off") /\ UNCHANGED <<shown, since, count>>

\* The window is closed, with all its views.
CloseWindow(w) ==
  /\ \E v \in Views : windowOf[v] = w /\ view[v] # "off"
  /\ screen' = DropWindow(screen, w)
  /\ view' = [v \in Views |-> IF windowOf[v] = w THEN "off" ELSE view[v]]
  /\ raced' = (raced \/ inherited # NotStarting)
  /\ UNCHANGED <<child, machine, emitter, queued, acts, read, told, shown, windowOf, since,
                 inherited, count>>

-----------------------------------------------------------------------------
\* A connection that is made again keeps its screen's windows: `inherited_screen`, then,
\* once the process exists, the new handle.

Inherit ==
  /\ emitter = "over" /\ inherited = NotStarting /\ count.spawns < MaxSpawns
  /\ inherited' = screen.attachers
  /\ UNCHANGED <<child, core, told, views, count, raced>>

\* Mutant: a new process starts on a screen nobody watches.
RespawnUnwatched ==
  /\ inherited # NotStarting /\ inherited' = NotStarting
  /\ count' = [count EXCEPT !.spawns = @ + 1]
  /\ shell' = [shell EXCEPT !.at = "start"]
  /\ machine' = New /\ screen' = Blank(Nobody)
  /\ emitter' = "receive" /\ queued' = FALSE /\ acts' = <<>>
  /\ UNCHANGED <<pipe, made, written, read, told, views, raced>>

Respawn ==
  /\ inherited # NotStarting /\ inherited' = NotStarting
  /\ count' = [count EXCEPT !.spawns = @ + 1]
  /\ shell' = [shell EXCEPT !.at = "start"]
  /\ machine' = New /\ screen' = Blank(inherited)
  /\ emitter' = "receive" /\ queued' = FALSE /\ acts' = <<>>
  /\ UNCHANGED <<pipe, made, written, read, told, views, raced>>

-----------------------------------------------------------------------------
Init ==
  /\ \E mode \in BOOLEAN :
       shell = [at |-> "start", mode |-> mode, commands |-> 0, toggles |-> 0, ran |-> {},
               ahead |-> FALSE]
  /\ pipe = <<>> /\ made = 0 /\ written = [c \in 1..MaxCommands |-> <<>>]
  /\ machine = New /\ screen = Blank(Nobody)
  /\ emitter = "receive" /\ queued = FALSE /\ acts = <<>> /\ read = 0
  /\ front = Quiet /\ blocks = <<>>
  /\ view = [v \in Views |-> "off"] /\ shown = [v \in Views |-> <<>>]
  /\ windowOf \in [Views -> Windows] /\ since = [v \in Views |-> 0]
  /\ inherited = NotStarting /\ count = [mounts |-> 0, spawns |-> 1] /\ raced = FALSE

Next ==
  \/ Shell \/ Emitter \/ Inherit \/ Respawn
  \/ \E v \in Views : Mount(v) \/ AttachView(v) \/ Unmount(v) \/ DetachView(v)
  \/ \E w \in Windows : CloseWindow(w)

Spec == Init /\ [][Next]_vars

-----------------------------------------------------------------------------
\* Nothing is drawn twice on one view, whatever attaches between two chunks or between a
\* chunk and its flush (the comment above `ingest_chunk`). What is left out is an echo
\* that was held back when the view attached: the snapshot has it, and so has the rescue.
DrawnOnce ==
  \A v \in Views : \A i, j \in DOMAIN shown[v] :
    i < j /\ shown[v][i] = shown[v][j] => shown[v][i].k = "echo" /\ shown[v][i].n <= since[v]

Drained == emitter = "receive" /\ screen.pending = <<>>

\* Nothing is kept from a view: of the output of the command that runs, and of a line the
\* shell waits to see continued, all that came since the view attached is on it, in order.
NothingLost ==
  Drained /\ pipe = <<>> /\ shell.at \in {"run", "more"} /\ ~raced /\ ~shell.ahead =>
    \A v \in Views : view[v] = "attached" =>
      LET Due(t) == t.n > since[v] /\ t.c = (IF At("run") THEN shell.commands ELSE Coming)
                    /\ (At("run") => t.k = "out")
          Those(seq) == Picked(seq, {i \in DOMAIN seq : Due(seq[i])})
      IN  Those(shown[v]) = Those(written[IF At("run") THEN shell.commands ELSE Coming])

\* The block of a command holds what the command wrote, no less and nothing else, wherever
\* the stream was cut; and each command that ran in prompt mode has one, the one that ran
\* when the process died included.
BlocksAreFaithful ==
  /\ \A i \in DOMAIN blocks : blocks[i].bytes = written[blocks[i].command]
  /\ \A i, j \in DOMAIN blocks : blocks[i].command = blocks[j].command => i = j
  /\ pipe = <<>> /\ (emitter = "over" \/ (emitter = "receive" /\ At("input"))) =>
       shell.ran = {blocks[i].command : i \in DOMAIN blocks}

\* When all was read, the frontend knows whether a command runs, whose it is, and whether
\* the shell waits for the rest of a line; a process that died runs nothing.
CommandStateIsTrue ==
  pipe = <<>> /\ (emitter = "receive" \/ emitter = "over") /\ ~shell.ahead =>
    /\ shell.at # "gone" \/ emitter = "over" => front.running = At("run")
    /\ At("run") => front.command = shell.commands
    /\ shell.at \in {"input", "run", "more"} => front.continuation = (At("more") /\ machine.mode)

\* The screen counts the views that are attached, and no others, across every process that
\* is started on it: a view that is not counted stays mute. Left out is a view that comes
\* or goes while the new process starts.
AttachedIsHeard ==
  ~raced => \A w \in Windows :
    screen.attachers[w] =
      Cardinality({v \in Views : windowOf[v] = w /\ view[v] \in {"attached", "leaves"}})
=============================================================================
