------------------------- MODULE MCTerminalSession --------------------------
(* TerminalSession with sizes below, at and above the bounds.              *)
EXTENDS TerminalSession

MCDim == 0..3
=============================================================================
