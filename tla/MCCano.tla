-------------------------------- MODULE MCCano --------------------------------
(* Instances of Cano.                                                       *)
EXTENDS Cano

\* The table of the code, in seconds.
MCBackoff == <<1, 2, 4, 8, 16, 30>>

=============================================================================
