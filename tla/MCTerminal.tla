----------------------------- MODULE MCTerminal -----------------------------
(***************************************************************************)
(* The line discipline for TLC: lines of a few cells, so that every test   *)
(* of the end of the line is met.                                          *)
(***************************************************************************)
EXTENDS Terminal
=============================================================================
