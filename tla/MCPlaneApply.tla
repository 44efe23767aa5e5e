---------------------------- MODULE MCPlaneApply ----------------------------
(* PlaneApply for TLC: the tables of small deployments. *)
EXTENDS PlaneApply, TLC

CONSTANTS g1, g2, n1, n2, u1, u2

\* Requests differ in nothing but their name (safety runs only).
AnyRequest == Permutations(Requests)

\* A group for each user; n1 serves both groups, n2 the first.
TwoGroups == u1 :> g1 @@ u2 :> g2
OneGroup == u1 :> g1
SharedGroup == u1 :> g1 @@ u2 :> g1
OneOn == n1 :> {g1}
TwoNodes == n1 :> {g1, g2} @@ n2 :> {g1}

\* Instant 0 is 31 May 2026, a Sunday: the day, the week and the month end.
May31 == 20604

\* A user with a quota of 1, and one that may expire at instant 0.
Quota == [Blank EXCEPT !.status = "active", !.total = 1]
Weekly == [Quota EXCEPT !.reset = "week", !.period = -6]
Spent == [Quota EXCEPT !.reset = "month", !.period = -30, !.used = 1]
Trial == [Blank EXCEPT !.status = "active", !.expire = 0]

\* PATCH bodies: disable, enable, set an expiry, give a quota back, a note.
Disable == "status" :> "disabled"
Enable == "status" :> "active"
Refill == "used" :> 0
Extend == "extend" :> 1
Reset == "reset" :> "day"
Note == <<>>

MCRows == {Weekly, Trial}
MCPatches == {Disable, Enable, Reset, Extend, Note}
TrialRows == {Trial}
SweepRows == {Trial, Spent}
QuietPatches == {Enable, Note}
LoudPatches == {Disable, Enable, Refill}
=============================================================================
