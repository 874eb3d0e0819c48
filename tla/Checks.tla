------------------------------- MODULE Checks -------------------------------
(***************************************************************************)
(* Checks made one after the other that return at the first failure, as the *)
(* ? operator of the code does: an error is a name, "none" is success.       *)
(***************************************************************************)
EXTENDS Naturals, Sequences

Check(holds, error) == IF holds THEN "none" ELSE error

\* The second check is not made after the first has failed.
Then(first, second) == IF first # "none" THEN first ELSE second

\* The first failure of a sequence of checks.
FirstOf(errors) ==
    LET failed == {i \in DOMAIN errors : errors[i] # "none"}
    IN  IF failed = {} THEN "none"
        ELSE errors[CHOOSE i \in failed : \A j \in failed : i <= j]

\* Some failure of a set of checks whose order is that of their names.
SomeOf(errors) ==
    IF errors \subseteq {"none"} THEN "none"
    ELSE CHOOSE e \in errors : e # "none"
=============================================================================
