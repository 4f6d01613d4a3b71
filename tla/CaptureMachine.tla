---------------------------- MODULE CaptureMachine ----------------------------
(***************************************************************************)
(* `CaptureMachine` (src-tauri/src/pty/capture.rs): what the core makes of   *)
(* the bytes of a shell, chunk by chunk: what goes to the live screen, what   *)
(* into the block of a command, and what the frontend is told of it.         *)
(*                                                                         *)
(* A chunk is a sequence of tokens: the marks of the shell integration (B, C, *)
(* D, E, P), the line feed that ends an echo, and glyphs. D stands for D and A, *)
(* which a prompt writes together and which do the same. A mark is never split  *)
(* over two chunks (pty/holdback.rs). Exit codes, times, directories, what the  *)
(* shell reports of its commands, the history and the alternate screen are      *)
(* left out.                                                                  *)
(***************************************************************************)
EXTENDS Naturals, SequencesExt

CONSTANT MaxEcho     \* MAX_ECHO_BYTES, in tokens

ASSUME EchoAssumption == MaxEcho \in Nat \ {0}

NoCommand == 0

\* k: the kind; c: the command it belongs to; n: the number of a glyph, never used twice.
Mark(k)        == [k |-> k, c |-> NoCommand, n |-> 0]
Glyph(k, c, n) == [k |-> k, c |-> c, n |-> n]
CommandLine(c) == [k |-> "E", c |-> c, n |-> 0]
PromptMode(on) == Mark(IF on THEN "P1" ELSE "P0")

\* What a sequence has at these positions, in order.
Picked(seq, at) ==
  LET from[i \in 0..Len(seq)] ==
        IF i = 0 THEN <<>> ELSE IF i \in at THEN Append(from[i - 1], seq[i]) ELSE from[i - 1]
  IN  from[Len(seq)]

\* `paints_glyph`
Paints(t)    == t.k \in {"echo", "ps2", "out", "prompt"}
Painted(seq) == Picked(seq, {i \in DOMAIN seq : Paints(seq[i])})

\* `command_start_at`, `command_end_at` from a position; past the end if there is none.
NextMark(chunk, k, from) ==
  LET at == {i \in from..Len(chunk) : chunk[i].k = k}
  IN  IF at = {} THEN Len(chunk) + 1 ELSE Min(at)
Rest(chunk, from) == SubSeq(chunk, from, Len(chunk))

\* What the frontend has in hands: `SessionCommandPayload`.
Quiet == [command |-> NoCommand, running |-> FALSE, continuation |-> FALSE]

New == [capturing |-> FALSE, captured |-> <<>>, swallow |-> FALSE, echo |-> <<>>,
        submission |-> "idle", command |-> NoCommand, told |-> Quiet, mode |-> FALSE]

Act(do, with) == [do |-> do, with |-> with]

-----------------------------------------------------------------------------
\* r: the machine m, the actions so far and how far the marks of the chunk were scanned.

\* `announce`
Announce(r, told) ==
  [r EXCEPT !.m.told = told, !.acts = Append(@, Act("state", told))]

\* `finish`: by the end of the command, by a new prompt or by the end of the stream.
Finish(r) ==
  LET m     == r.m
      block == IF m.command = NoCommand THEN <<>>
               ELSE <<Act("block", [command |-> m.command, bytes |-> Painted(m.captured)])>>
  IN  Announce([r EXCEPT
        !.acts = IF m.capturing THEN @ \o block \o <<Act("reset", <<>>)>> ELSE @,
        !.m    = [m EXCEPT !.command = NoCommand, !.capturing = FALSE, !.captured = <<>>,
                           !.submission = "idle"]], Quiet)

\* Mutant: the marks of every command are looked for from the beginning of the chunk.
StartScanningAgain(r, chunk) ==
  LET m    == r.m
      from == NextMark(chunk, "C", 1)
      end  == NextMark(chunk, "D", from)
  IN  Announce([scan |-> end,
        acts |-> IF m.mode THEN r.acts \o <<Act("clear core", <<>>),
                                             Act("restart", Painted(Rest(chunk, from)))>>
                 ELSE r.acts,
        m    |-> [m EXCEPT !.capturing = m.mode, !.swallow = FALSE, !.echo = <<>>,
                           !.submission = "idle",
                           !.captured = IF m.mode THEN SubSeq(chunk, from, end - 1) ELSE <<>>]],
        [command |-> m.command, running |-> TRUE, continuation |-> FALSE])

\* The command starts: the live screen and the block start with it, at its mark.
Start(r, chunk) ==
  LET m    == r.m
      at   == NextMark(chunk, "C", r.scan)
      from == IF at > Len(chunk) THEN r.scan ELSE at
      end  == NextMark(chunk, "D", from)
  IN  Announce([scan |-> end,
        acts |-> IF m.mode THEN r.acts \o <<Act("clear core", <<>>),
                                             Act("restart", Painted(Rest(chunk, from)))>>
                 ELSE r.acts,
        m    |-> [m EXCEPT !.capturing = m.mode, !.swallow = FALSE, !.echo = <<>>,
                           !.submission = "idle",
                           !.captured = IF m.mode THEN SubSeq(chunk, from, end - 1) ELSE <<>>]],
        [command |-> m.command, running |-> TRUE, continuation |-> FALSE])

Event(r, chunk, t) ==
  CASE t.k = "E" -> [r EXCEPT !.m.command = t.c, !.m.submission = "idle"]
    [] t.k = "C" -> Start(r, chunk)
    [] t.k = "D" -> Finish(r)
    [] t.k = "B" -> [r EXCEPT !.m.swallow = r.m.mode, !.m.echo = <<>>, !.m.submission = "idle"]
    [] t.k \in {"P0", "P1"} -> [r EXCEPT !.m.mode = (t.k = "P1")]
    [] OTHER -> r

\* What the chunk adds to the block of the command that was running already.
Captured(m, chunk) ==
  IF m.capturing
  THEN [m |-> [m EXCEPT !.captured = @ \o SubSeq(chunk, 1, NextMark(chunk, "D", 1) - 1)],
        acts |-> <<>>, scan |-> NextMark(chunk, "D", 1)]
  ELSE [m |-> m, acts |-> <<>>, scan |-> 1]

\* The echo of the line that was submitted stays off the live screen, up to its line feed.
Live(bytes) == IF bytes = <<>> THEN <<>> ELSE <<Act("live", Painted(bytes))>>

EchoEnd(m, chunk) == NextMark(chunk, "nl", 1)
Echoed(r, chunk) ==
  LET m    == r.m
      end  == EchoEnd(m, chunk)
      echo == m.echo \o SubSeq(chunk, 1, end)
  IN  IF ~m.swallow THEN [r EXCEPT !.acts = @ \o Live(chunk)]
      ELSE IF end <= Len(chunk)
      THEN [r EXCEPT !.m.swallow = FALSE, !.m.submission = "awaiting", !.m.echo = echo,
                     !.acts = @ \o Live(Rest(chunk, end + 1))]
      ELSE IF Len(m.echo) + Len(chunk) > MaxEcho
      THEN [r EXCEPT !.m.swallow = FALSE, !.m.echo = <<>>, !.acts = @ \o Live(chunk)]
      ELSE [r EXCEPT !.m.echo = @ \o chunk]

\* What the shell itself wrote in the chunk
Reply(m, chunk) == IF ~m.swallow THEN chunk ELSE Rest(chunk, EchoEnd(m, chunk) + 1)

\* Mutant: the echo of a line that continues does not come back.
SettledWithoutEcho(r, reply) ==
  LET painted    == r.m.submission = "awaiting" /\ Painted(reply) # <<>>
      submission == IF painted THEN "continuing" ELSE r.m.submission
      told       == submission = "continuing" /\ ~r.m.told.running
      s          == [r EXCEPT !.m.submission = submission]
  IN  IF told = r.m.told.continuation THEN s
      ELSE Announce(s, [r.m.told EXCEPT !.continuation = told])

\* The shell painted something instead of running the line: the line continues, and its
\* echo comes back to the live screen, before what was painted.
Settled(r, reply) ==
  LET painted   == r.m.submission = "awaiting" /\ Painted(reply) # <<>>
      submission == IF painted THEN "continuing" ELSE r.m.submission
      rescue    == IF painted /\ r.m.echo # <<>>
                   THEN <<Act("echo", Painted(r.m.echo))>> ELSE <<>>
      told      == submission = "continuing" /\ ~r.m.told.running
      s         == [r EXCEPT !.m.submission = submission,
                             !.m.echo = IF painted THEN <<>> ELSE @,
                             !.acts = rescue \o @]
  IN  IF told = r.m.told.continuation THEN s
      ELSE Announce(s, [r.m.told EXCEPT !.continuation = told])

\* The events of the chunk, in order.
Scanned(r, chunk) ==
  LET after[i \in 0..Len(chunk)] ==
        IF i = 0 THEN r ELSE Event(after[i - 1], chunk, chunk[i])
  IN  after[Len(chunk)]

\* `on_chunk`
OnChunk(m, chunk) == Settled(Scanned(Echoed(Captured(m, chunk), chunk), chunk), Reply(m, chunk))

\* Mutant: the end of the stream ends no command.
OnEofSilent(m) == [m |-> m, acts |-> <<>>, scan |-> 1]

\* `on_eof`
OnEof(m) == Finish([m |-> m, acts |-> <<>>, scan |-> 1])
=============================================================================
