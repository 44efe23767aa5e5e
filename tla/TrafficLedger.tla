---------------------------- MODULE TrafficLedger ----------------------------
(***************************************************************************)
(* Traffic accounting: CollectTraffic polls the nodes' counters and        *)
(* ApplyTraffic credits each reading to its user against a stored cursor. *)
(*                                                                         *)
(* A stream is the key of the traffic_cursor table: <<node, user,         *)
(* source>>.  A source ("xray", "hy2") is one daemon of the node, and the *)
(* counters live in that daemon, so they start again from 0 when it is    *)
(* restarted.  Upload and download are two streams that the code handles  *)
(* alike, so one direction stands for both.                               *)
(*                                                                         *)
(* Collectors are the goroutines inside CollectTraffic: the loop that     *)
(* main starts, and every POST /v1/traffic/collect.                       *)
(***************************************************************************)
EXTENDS Integers, FiniteSetsExt

CONSTANTS Nodes,            \* enrolled nodes with a vless or hy2 family
          Users,            \* users with a row in the users table
          Sources,          \* daemons of a node that count per user
          Collectors,       \* goroutines that may be in CollectTraffic
          NoEdit,           \* no patchUser request holds the user's row
          MaxBytes,         \* bound: bytes a stream carries
          MaxRestarts,      \* bound: restarts of each daemon
          MaxFaults         \* bound: polls, credits and planes that fail

ASSUME LedgerAssumption ==
    /\ MaxBytes \in Nat /\ MaxRestarts \in Nat /\ MaxFaults \in Nat
    /\ NoEdit \notin Nat

Streams == Nodes \X Users \X Sources

VARIABLES counter,          \* the daemon's byte counter, per stream
          epoch,            \* how often the stream's daemon was restarted
          cursor,           \* traffic_cursor: the last reading credited
          used,             \* users.upload, per user
          edit,             \* users.upload as a patchUser request read it
          plan,             \* nodes a collector has still to poll
          held,             \* streams a collector holds a reading of
          reading,          \* the readings of its last poll
          taken,            \* history: epoch of each reading
          marked,           \* history: epoch of the reading in cursor
          carried,          \* history: bytes carried, over all epochs
          credited,         \* history: bytes ever added to users.upload
          faults            \* failures so far

store   == <<cursor, used, edit>>
agents  == <<counter, epoch>>
passes  == <<plan, held, reading>>
history == <<taken, marked, carried, credited>>
vars    == <<store, agents, passes, history, faults>>

TypeOK ==
    /\ counter \in [Streams -> Nat]
    /\ epoch \in [Streams -> Nat]
    /\ cursor \in [Streams -> Nat]
    /\ used \in [Users -> Nat]
    /\ edit \in [Users -> Nat \cup {NoEdit}]
    /\ plan \in [Collectors -> SUBSET Nodes]
    /\ held \in [Collectors -> SUBSET Streams]
    /\ reading \in [Collectors -> [Streams -> Nat]]
    /\ taken \in [Collectors -> [Streams -> Nat]]
    /\ marked \in [Streams -> Nat]
    /\ carried \in [Streams -> Nat]
    /\ credited \in [Streams -> Nat]
    /\ faults \in Nat

Init ==
    /\ counter = [k \in Streams |-> 0]
    /\ epoch = [k \in Streams |-> 0]
    /\ cursor = [k \in Streams |-> 0]
    /\ used = [u \in Users |-> 0]
    /\ edit = [u \in Users |-> NoEdit]
    /\ plan = [c \in Collectors |-> {}]
    /\ held = [c \in Collectors |-> {}]
    /\ reading = [c \in Collectors |-> [k \in Streams |-> 0]]
    /\ taken = [c \in Collectors |-> [k \in Streams |-> 0]]
    /\ marked = [k \in Streams |-> 0]
    /\ carried = [k \in Streams |-> 0]
    /\ credited = [k \in Streams |-> 0]
    /\ faults = 0

-----------------------------------------------------------------------------
(* The nodes *)

\* The daemon carries one more unit of traffic.
Carry(k) ==
    /\ carried[k] < MaxBytes
    /\ counter' = [counter EXCEPT ![k] = @ + 1]
    /\ carried' = [carried EXCEPT ![k] = @ + 1]
    /\ UNCHANGED <<store, epoch, passes, taken, marked, credited, faults>>

\* A daemon restarts (an Apply does that): its counters start from 0 again.
RestartDaemon(n, src) ==
    LET mine == {k \in Streams : k[1] = n /\ k[3] = src}
    IN  /\ \A k \in mine : epoch[k] < MaxRestarts
        /\ counter' = [k \in Streams |-> IF k \in mine THEN 0 ELSE counter[k]]
        /\ epoch' = [k \in Streams |-> IF k \in mine THEN epoch[k] + 1
                                                     ELSE epoch[k]]
        /\ UNCHANGED <<store, passes, history, faults>>

-----------------------------------------------------------------------------
(* The collectors *)

\* CollectTraffic starts with the list of nodes.
BeginPass(c) ==
    /\ plan[c] = {} /\ held[c] = {}
    /\ plan' = [plan EXCEPT ![c] = Nodes]
    /\ UNCHANGED <<store, agents, held, reading, history, faults>>

\* GET /v1/stats of the next node: both daemons' counters at one instant.
Poll(c, n) ==
    LET mine == {k \in Streams : k[1] = n}
    IN  /\ held[c] = {} /\ n \in plan[c]
        /\ plan' = [plan EXCEPT ![c] = @ \ {n}]
        /\ held' = [held EXCEPT ![c] = mine]
        /\ reading' = [reading EXCEPT ![c] =
                           [k \in Streams |-> IF k \in mine THEN counter[k]
                                                            ELSE @[k]]]
        /\ taken' = [taken EXCEPT ![c] =
                         [k \in Streams |-> IF k \in mine THEN epoch[k]
                                                          ELSE @[k]]]
        /\ UNCHANGED <<store, agents, marked, carried, credited, faults>>

\* The agent does not answer in time: the node is skipped in this pass.
PollFails(c, n) ==
    /\ held[c] = {} /\ n \in plan[c]
    /\ faults < MaxFaults
    /\ faults' = faults + 1
    /\ plan' = [plan EXCEPT ![c] = @ \ {n}]
    /\ UNCHANGED <<store, agents, held, reading, history>>

\* The delta ApplyTraffic computes from a reading and the stored cursor: a
\* reading below the cursor is taken as a counter that started from 0 again.
\* (The Mutant operators here and below are wrong on purpose: each property
\* is checked to fail with one of them in place of the definition after it.)
MutantAddedSigned(cur, prev) == cur - prev
MutantAddedWhole(cur, prev) == cur
Added(cur, prev) == IF cur - prev < 0 THEN cur ELSE cur - prev

\* ApplyTraffic of one row, one transaction with the user's row locked.
CreditRow(c, k, added, next) ==
    /\ k \in held[c]
    /\ held' = [held EXCEPT ![c] = @ \ {k}]
    /\ cursor' = [cursor EXCEPT ![k] = next]
    /\ marked' = [marked EXCEPT ![k] = taken[c][k]]
    /\ used' = [used EXCEPT ![k[2]] = @ + added]
    /\ credited' = [credited EXCEPT ![k] = @ + added]
    /\ UNCHANGED <<edit, agents, plan, reading, taken, carried, faults>>

MutantCreditMaxCursor(c, k) ==
    CreditRow(c, k, Added(reading[c][k], cursor[k]),
              IF reading[c][k] < cursor[k] THEN cursor[k] ELSE reading[c][k])
Credit(c, k) ==
    CreditRow(c, k, Added(reading[c][k], cursor[k]), reading[c][k])

\* The transaction fails: nothing is written and the row is dropped.
MutantCreditFailsHalfway(c, k) ==
    /\ k \in held[c]
    /\ faults < MaxFaults
    /\ faults' = faults + 1
    /\ held' = [held EXCEPT ![c] = @ \ {k}]
    /\ cursor' = [cursor EXCEPT ![k] = reading[c][k]]
    /\ marked' = [marked EXCEPT ![k] = taken[c][k]]
    /\ UNCHANGED <<used, edit, agents, plan, reading, taken, carried, credited>>
CreditFails(c, k) ==
    /\ k \in held[c]
    /\ faults < MaxFaults
    /\ faults' = faults + 1
    /\ held' = [held EXCEPT ![c] = @ \ {k}]
    /\ UNCHANGED <<store, agents, plan, reading, history>>

-----------------------------------------------------------------------------
(* The other writers of the users row *)

\* SweepEntitlement opens a new period: ResetQuotaPeriod with zeroCounters.
\* traffic_cursor is left alone.
MutantResetCursorToo(u) ==
    /\ used[u] > 0
    /\ used' = [used EXCEPT ![u] = 0]
    /\ cursor' = [k \in Streams |-> IF k[2] = u THEN 0 ELSE cursor[k]]
    /\ UNCHANGED <<edit, agents, passes, history, faults>>

ResetQuotaPeriod(u) ==
    /\ used[u] > 0
    /\ used' = [used EXCEPT ![u] = 0]
    /\ UNCHANGED <<cursor, edit, agents, passes, history, faults>>

\* patchUser reads the whole row ...
PatchRead(u) ==
    /\ edit[u] = NoEdit
    /\ edit' = [edit EXCEPT ![u] = used[u]]
    /\ UNCHANGED <<cursor, used, agents, passes, history, faults>>

\* ... and UpdateUser writes the whole row back, upload included, when the
\* request names other fields only.
PatchWrite(u) ==
    /\ edit[u] # NoEdit
    /\ used' = [used EXCEPT ![u] = edit[u]]
    /\ edit' = [edit EXCEPT ![u] = NoEdit]
    /\ UNCHANGED <<cursor, agents, passes, history, faults>>

\* The plane restarts: its goroutines are gone, the tables stay.
RestartPlane ==
    /\ faults < MaxFaults
    /\ faults' = faults + 1
    /\ plan' = [c \in Collectors |-> {}]
    /\ held' = [c \in Collectors |-> {}]
    /\ edit' = [u \in Users |-> NoEdit]
    /\ UNCHANGED <<cursor, used, agents, reading, history>>

-----------------------------------------------------------------------------
NodeStep == \/ \E k \in Streams : Carry(k)
            \/ \E n \in Nodes, src \in Sources : RestartDaemon(n, src)

CollectorStep(c) == \/ BeginPass(c)
                    \/ \E n \in Nodes : Poll(c, n)
                    \/ \E k \in Streams : Credit(c, k)

FaultStep == \/ \E c \in Collectors, n \in Nodes : PollFails(c, n)
             \/ \E c \in Collectors, k \in Streams : CreditFails(c, k)
             \/ RestartPlane

RowStep == \E u \in Users : ResetQuotaPeriod(u) \/ PatchRead(u) \/ PatchWrite(u)

Next == \/ NodeStep
        \/ \E c \in Collectors : CollectorStep(c)
        \/ FaultStep
        \/ RowStep

Spec == Init /\ [][Next]_vars

\* CollectTrafficLoop runs a pass on every tick, and a pass ends.
FairSpec == Spec /\ \A c \in Collectors : WF_vars(CollectorStep(c))

-----------------------------------------------------------------------------
(* Properties *)

\* No stream is credited more bytes than its node carried: a poll credits
\* the delta and no more (store.go, ApplyTraffic and ResetQuotaPeriod).
\* It is the claim of store.go:703 about the poll after a period reset.
NeverOverCredited == \A k \in Streams : credited[k] <= carried[k]

\* Only a restart of the daemon can lose bytes: before the first one, what
\* has been credited is exactly what was carried up to the cursor, whatever
\* polls failed, transactions were dropped or planes restarted.
ExactWithoutRestart ==
    \A k \in Streams : epoch[k] = 0 => /\ credited[k] = cursor[k]
                                       /\ cursor[k] <= carried[k]

\* The streams of a user, and the sum of what they carried.
StreamsOf(u) == {k \in Streams : k[2] = u}
CarriedFor(u) == SumFunctionOnSet(carried, StreamsOf(u))

\* However the row's writers interleave (credits, period resets, stale
\* patchUser write-backs), users.upload never shows more than was carried.
UsedWithinCarried == \A u \in Users : used[u] <= CarriedFor(u)

\* Accounting implements Metering: a collector's step never credits a byte
\* twice and never takes a credit back.
Abstract == INSTANCE Metering WITH Streams <- Streams,
                                  carried <- carried, credited <- credited
ImplementsMetering == Abstract!Spec

\* Again and again everything the daemon counted has been credited.
EveryByteCredited == \A k \in Streams : []<>(cursor[k] = counter[k])
=============================================================================
