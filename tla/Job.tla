--------------------------------- MODULE Job ---------------------------------
(***************************************************************************)
(* What the pure parts of the gateway are put to: a behaviour is one use,     *)
(* of one part, and the job says which and how far it is.                    *)
(***************************************************************************)
VARIABLE job

Idle == [kind |-> "idle"]

\* A step of a use that has no job of these kinds.
OtherUse(kinds) == job'.kind \notin kinds
=============================================================================
