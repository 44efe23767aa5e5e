----------------------------- MODULE MCReality -----------------------------
(* Two nodes that may be applied at once, and one name to ask for. *)
EXTENDS Reality, TLC

CONSTANTS n1, n2

AnyNode == Permutations(Nodes)

\* A constraint: what follows once parts of two pairs were mixed is left out,
\* the step that mixes them is not.
Untorn == ~torn

\* States that differ in what an unsound link says alone are explored once:
\* no step reads it, and no property but the type.
Seen == <<rows, runs, applier, admin, gens, blind, clean, fresh, torn, faults,
          crashes, sound,
          IF sound THEN <<at, share>>
          ELSE <<IF at = "done" THEN "idle" ELSE at, NoShare>> >>
=============================================================================
