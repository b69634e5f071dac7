---------------------------- MODULE MCJobPages ----------------------------
(***************************************************************************)
(* Each of the three pages with two selections, two failed polls before a  *)
(* handler gives up, and four acts: enough to preview one selection, move  *)
(* to the other, and apply twice.                                          *)
(***************************************************************************)
EXTENDS JobPages
=============================================================================
