----------------------------- MODULE MCMembers -----------------------------
(* Members for TLC: who is created into which group. *)
EXTENDS Members, TLC

CONSTANTS g1, g2, u1, u2

Together == [u \in Users |-> g1]

AnyActor == Permutations(Requests) \cup Permutations(Users)
=============================================================================
