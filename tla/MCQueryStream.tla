--------------------------- MODULE MCQueryStream ----------------------------
(***************************************************************************)
(* Instances of QueryStream for TLC.                                       *)
(***************************************************************************)
EXTENDS QueryStream

\* Two rows fill the limit exactly, separator included; the third is too much.
ThreeRows == <<3, 2, 1>>
=============================================================================
