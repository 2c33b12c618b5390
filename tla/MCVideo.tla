------------------------------ MODULE MCVideo ------------------------------
(***************************************************************************)
(* Small screens for TLC.  One column and two rows are enough to wrap, to  *)
(* scroll, to go back to the row above and, from there, to write past the  *)
(* edge.  The two levels of the refinement share putc(), so it is the      *)
(* pages and the saved cursors that the runs are about.                    *)
(***************************************************************************)
EXTENDS Video
=============================================================================
