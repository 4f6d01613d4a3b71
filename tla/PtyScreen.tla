------------------------------- MODULE PtyScreen -------------------------------
(***************************************************************************)
(* `ScreenState` (src-tauri/src/pty/mod.rs): what the core keeps of one      *)
(* terminal under one lock, and what each critical section makes of it. A     *)
(* screen is the sequence of glyphs on it since it was last cleared. Sizes,    *)
(* modes and the observers of the screen are left out.                        *)
(***************************************************************************)
EXTENDS CaptureMachine, FiniteSets

CONSTANT Windows

Clear == Mark("clear")

\* What a terminal shows after these bytes.
Draw(screen, bytes) ==
  LET clears == {i \in DOMAIN bytes : bytes[i] = Clear}
  IN  IF clears = {} THEN screen \o Painted(bytes)
      ELSE Painted(SubSeq(bytes, Max(clears) + 1, Len(bytes)))

Blank(attachers) == [core |-> <<>>, pending |-> <<>>, attachers |-> attachers]

Nobody == [w \in Windows |-> 0]
Attached(s) == s.attachers # Nobody

\* `attach`, `detach`, `drop_window`
Attach(s, w) == [s EXCEPT !.attachers[w] = @ + 1]

Unheard(s) == IF Attached(s) THEN s ELSE [s EXCEPT !.pending = <<>>]
DropWindow(s, w) == Unheard([s EXCEPT !.attachers[w] = 0])
Detach(s, w) ==
  IF s.attachers[w] = 0 THEN s
  ELSE IF s.attachers[w] > 1 THEN [s EXCEPT !.attachers[w] = @ - 1] ELSE DropWindow(s, w)

\* `take_pending`
Pending(s)   == IF Attached(s) THEN s.pending ELSE <<>>
Emptied(s)   == [s EXCEPT !.pending = <<>>]

\* `apply_screen`
Apply(s, act) ==
  CASE act.do \in {"live", "echo"} ->
         IF Attached(s) THEN [s EXCEPT !.pending = @ \o act.with] ELSE s
    [] act.do = "restart" ->
         IF Attached(s) THEN [s EXCEPT !.pending = <<Clear>> \o act.with] ELSE s
    [] act.do = "clear core" -> [s EXCEPT !.core = <<>>]
    [] act.do = "reset" ->
         [s EXCEPT !.core = <<>>, !.pending = IF Attached(s) THEN <<Clear>> ELSE <<>>]
    [] OTHER -> s

\* Who is attached is only read.
ApplyAll(s, acts) ==
  LET after[i \in 0..Len(acts)] == IF i = 0 THEN s ELSE Apply(after[i - 1], acts[i])
      last == after[Len(acts)]
  IN  [core |-> last.core, pending |-> last.pending, attachers |-> s.attachers]

\* `ingest_chunk`: the screen of the core sees the whole chunk.
Ingested(s, chunk, acts) ==
  ApplyAll([s EXCEPT !.core = @ \o Painted(chunk)], acts)
=============================================================================
