----------------------------- MODULE MCGateway ------------------------------
(***************************************************************************)
(* Instances of Gateway for TLC.                                           *)
(***************************************************************************)
EXTENDS Gateway

CONSTANTS p1, p2, q1, q2, q3

\* Two requests of one principal and one of another.
FirstOwnsMost == [r \in Requests |-> IF r = q3 THEN p2 ELSE p1]

\* A query or mutation, a discovery call; and q3, which executes.
MixedNeeds == [r \in Requests |-> IF r = q2 THEN 1 ELSE 2]
=============================================================================
