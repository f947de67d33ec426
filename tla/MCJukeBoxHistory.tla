-------------------------- MODULE MCJukeBoxHistory --------------------------
(* JukeBoxHistory with the constants of MCJukeBox, for TLC.                 *)
EXTENDS JukeBoxHistory, MCJukeBox

=============================================================================
