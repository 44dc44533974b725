--------------------------- MODULE MCAnswerPanel ---------------------------
(* A finite instance of AnswerPanel for TLC.                               *)
EXTENDS AnswerPanel
=============================================================================
