-------------------------- MODULE PlaneApplyProofs --------------------------
(***************************************************************************)
(* Proofs about PlaneApply, for every set of users, groups, nodes and     *)
(* requests, every row and patch, and every bound.                        *)
(***************************************************************************)
EXTENDS PlaneApply, TLAPS

-----------------------------------------------------------------------------
(* Usage periods, for every day, every length of a day and every kind of  *)
(* period.  MCPeriods compares the months with a calendar; here is what   *)
(* the plane relies on, whatever the year.                                *)

\* The day of the month is a number of at least 1, in every month of every
\* year (Time.Day).
LEMMA MonthDayPositive == \A d \in Int : MonthDay(d) \in Nat \ {0}
<1>. SUFFICES ASSUME NEW d \in Int
              PROVE  MonthDay(d) \in Nat \ {0}
    OBVIOUS
<1>. DEFINE z == (d + 719468) % 146097
            year == (z - z \div 1460 + z \div 36524 - z \div 146096) \div 365
            yday == z - 365 * year - year \div 4 + year \div 100
            month == (5 * yday + 2) \div 153
<1>1. z \in Int
    OBVIOUS
<1>2. year \in Int
    <2>. HIDE DEF z
    <2>. QED  BY <1>1
<1>3. yday \in Int
    <2>. HIDE DEF z, year
    <2>. QED  BY <1>1, <1>2
<1>. HIDE DEF yday
<1>4. month \in Int /\ 153 * month <= 5 * yday + 2
    BY <1>3
<1>. HIDE DEF month
<1>5. (153 * month + 2) \div 5 <= yday /\ (153 * month + 2) \div 5 \in Int
    BY <1>3, <1>4
<1>6. MonthDay(d) = yday - (153 * month + 2) \div 5 + 1
    BY DEF MonthDay, month, yday
<1>. QED  BY <1>3, <1>5, <1>6

\* A period that contains a day began on it or before.
LEMMA DaysBackNat == \A kind, d : d \in Int => DaysBack(kind, d) \in Nat
<1>. SUFFICES ASSUME NEW kind, NEW d \in Int
              PROVE  DaysBack(kind, d) \in Nat
    OBVIOUS
<1>1. Weekday(d) \in 0 .. 6
    BY DEF Weekday
<1>2. MonthDay(d) - 1 \in Nat
    BY MonthDayPositive
<1>3. (IF Weekday(d) = 0 THEN 7 ELSE Weekday(d)) - 1 \in Nat
    BY <1>1
<1>. QED  BY <1>2, <1>3, Zenon DEF DaysBack

\* A week begins on a Monday, no later than the day it is asked for and less
\* than seven days before it: a Sunday closes the week of the Monday before
\* (PeriodStart, where Weekday counts a Sunday as 0).
THEOREM WeekBeginsOnMonday ==
    \A d \in Int :
        LET back == DaysBack("week", d)
        IN  back \in 0 .. 6 /\ Weekday(d - back) = 1
<1>. SUFFICES ASSUME NEW d \in Int
              PROVE  /\ DaysBack("week", d) \in 0 .. 6
                     /\ Weekday(d - DaysBack("week", d)) = 1
    OBVIOUS
<1>1. DaysBack("week", d) = (IF Weekday(d) = 0 THEN 7 ELSE Weekday(d)) - 1
    BY DEF DaysBack
<1>. QED  BY <1>1 DEF Weekday

\* The boundary is an instant, and not one of the future (PeriodStart).
THEOREM PeriodStartsBefore ==
    \A kind, instant : instant \in Int => /\ PeriodStart(kind, instant) \in Int
                                  /\ PeriodStart(kind, instant) <= instant
<1>. SUFFICES ASSUME NEW kind, NEW instant \in Int
              PROVE  /\ PeriodStart(kind, instant) \in Int
                     /\ PeriodStart(kind, instant) <= instant
    OBVIOUS
<1>1. Day(instant) \in Int
    BY CalendarAssumption DEF Day
<1>. DEFINE back == DaysBack(kind, Day(instant))
<1>2. back \in Nat
    BY <1>1, DaysBackNat
<1>. HIDE DEF back
<1>3. instant % DayLen \in Nat
    BY CalendarAssumption
<1>4. back * DayLen \in Nat
    BY <1>2, CalendarAssumption
<1>5. PeriodStart(kind, instant) = instant - (instant % DayLen) - back * DayLen
    BY DEF PeriodStart, Midnight, back
<1>. QED  BY <1>3, <1>4, <1>5

-----------------------------------------------------------------------------
(* Rows *)

USE DEF Live, table, memory, agents, grouping, applying, others, budgets, history,
        excuses

LEMMA BlankRow == Blank \in Rows
BY TimeAssumption DEF Blank, Rows, Statuses, Kinds, Instants

LEMMA UsedNat == \A r \in Rows : r.used \in Nat
BY DEF Rows

LEMMA UsedRow ==
    ASSUME NEW r \in Rows, NEW k \in Nat
    PROVE  [r EXCEPT !.used = k] \in Rows
BY DEF Rows

LEMMA ZeroedRow == \A r \in Rows : Zeroed(r) \in Rows
BY UsedRow DEF Zeroed

LEMMA FreshRow ==
    ASSUME NEW r \in Rows, NEW p \in Instants
    PROVE  [r EXCEPT !.used = 0, !.period = p] \in Rows
BY DEF Rows

LEMMA MakeRow ==
    ASSUME NEW a \in Statuses, NEW b \in Nat, NEW c \in Nat,
           NEW d \in Instants, NEW e \in Kinds, NEW f \in Instants
    PROVE  [status |-> a, used |-> b, total |-> c, expire |-> d,
            reset |-> e, period |-> f] \in Rows
BY DEF Rows

LEMMA PatchedRow ==
    ASSUME now \in Nat, NEW r \in Rows, NEW p \in Patches
    PROVE  Patched(r, p) \in Rows
<1>1. \A kind : PeriodStart(kind, now) \in Int
    BY PeriodStartsBefore
<1>2. /\ r.status \in Statuses /\ r.used \in Nat /\ r.total \in Nat
      /\ r.expire \in Instants /\ r.reset \in Kinds /\ r.period \in Instants
    BY DEF Rows
<1>. DEFINE column(f) == IF f \in DOMAIN p THEN p[f] ELSE r[f]
            base == IF column("expire") # Never /\ column("expire") > now
                      THEN column("expire") ELSE now
<1>3. /\ column("status") \in Statuses /\ column("used") \in Nat
      /\ column("total") \in Nat /\ column("expire") \in Instants
      /\ column("reset") \in Kinds
    BY <1>2, PatchAssumption DEF Statuses
<1>4. base \in Int
    BY <1>3 DEF Instants
<1>5. "extend" \in DOMAIN p => base + p["extend"] \in Instants
    <2>1. "extend" \in DOMAIN p => p["extend"] \in Nat
        BY PatchAssumption
    <2>. HIDE DEF base
    <2>. QED  BY <1>4, <2>1 DEF Instants
<1>. DEFINE e == IF "extend" \in DOMAIN p THEN base + p["extend"]
                                          ELSE column("expire")
            d == IF "reset" \notin DOMAIN p THEN r.period
                 ELSE IF p["reset"] = "" THEN Never
                 ELSE IF r.period = Never THEN PeriodStart(p["reset"], now)
                 ELSE r.period
<1>6. e \in Instants
    BY <1>3, <1>5
<1>7. d \in Instants
    BY <1>1, <1>2 DEF Instants
<1>8. Patched(r, p) = [status |-> column("status"), used |-> column("used"),
                       total |-> column("total"), expire |-> e,
                       reset |-> column("reset"), period |-> d]
    BY DEF Patched
<1>. HIDE DEF column, base, e, d
<1>9. [status |-> column("status"), used |-> column("used"),
       total |-> column("total"), expire |-> e,
       reset |-> column("reset"), period |-> d] \in Rows
    BY <1>3, <1>6, <1>7, MakeRow
<1>. QED  BY <1>8, <1>9

-----------------------------------------------------------------------------
(* What holds whatever fails *)

Born(u) == life[u] # "unborn"

\* A PUT the agent of n has done or may still do lets u in.
Held(u, n) == \/ u \in installed[n]
              \/ \E i \in DOMAIN late[n] : u \in late[n][i]

\* A thread that works on a user knows which.
Serving == \A t \in Threads : pc[t] \in {"patch", "credit"} => who[t] \in Users

\* Who is inside applyStoredNode holds the mutex of the node, and only who is.
Locked ==
    /\ \A t \in Threads : pc[t] = "read" =>
           node[t] \in Nodes /\ holder[node[t]] = t
    /\ \A n \in Nodes : holder[n] # None =>
           pc[holder[n]] = "read" /\ node[holder[n]] = n

\* A list of users is kept only there, and it is about groups of the node.
Listing ==
    \A t \in Threads :
        /\ pc[t] # "read" => push[t] = {} /\ gleft[t] = {}
        /\ pc[t] = "read" =>
               /\ gleft[t] \subseteq Serves[node[t]]
               /\ \A u \in push[t] : Born(u) /\ GroupOf[u] \in Serves[node[t]]

\* Groups and nodes are left to a thread only while it applies.
Queued ==
    \A t \in Threads :
        /\ pc[t] \notin {"nodes", "read"} => left[t] = {}
        /\ pc[t] \in {"idle", "patch"} => todo[t] = {}

\* A node has been sent users of its groups only.
Sent == \A n \in Nodes, u \in Users :
            Held(u, n) => Born(u) /\ GroupOf[u] \in Serves[n]

\* The sweep knows nobody who does not exist yet.
Unseen == \A u \in Users : ~Born(u) => ent[u] = "unseen" /\ u \notin slist

Shape == Serving /\ Locked /\ Listing /\ Queued /\ Sent /\ Unseen

-----------------------------------------------------------------------------
(* Types *)

LEMMA InitType == Init => TypeOK
<1>. SUFFICES ASSUME Init PROVE TypeOK
    OBVIOUS
<1>1. row \in [Users -> Rows] /\ listed \in [Users -> Rows]
      /\ copy \in [Requests -> Rows]
    <2>1. NewRows \cup {Blank} \subseteq Rows
        BY BlankRow, PlaneAssumption
    <2>2. row \in [Users -> NewRows \cup {Blank}]
        BY DEF Init
    <2>3. row \in [Users -> Rows]
        BY <2>1, <2>2
    <2>. QED  BY <2>3, BlankRow DEF Init
<1>2. late \in [Nodes -> Seq(SUBSET Users)]
    <2>1. <<>> \in Seq(SUBSET Users)
        OBVIOUS
    <2>. QED  BY <2>1 DEF Init
<1>3. installed \in [Nodes -> SUBSET Users]
    BY PlaneAssumption DEF Init
<1>4. /\ failed \in [Threads -> BOOLEAN] /\ was \in BOOLEAN
    BY DEF Init
<1>5. /\ now \in Nat /\ ops \in Nat /\ faults \in Nat /\ crashes \in Nat
      /\ at \in [Threads -> Nat]
    BY DEF Init
<1>6. /\ life \in [Users -> {"unborn", "live", "gone"}]
      /\ ent \in [Users -> {"unseen", "yes", "no"}]
      /\ pc \in [Threads -> {"idle", "patch", "collect", "credit", "listed",
                             "reset", "groups", "nodes", "read"}]
    BY DEF Init
<1>7. /\ pending \subseteq Groups /\ slist \subseteq Users
      /\ sleft \subseteq Users /\ blind \subseteq Users
      /\ missed \subseteq Users /\ crossed \subseteq Threads
      /\ forgotten \subseteq Nodes
      /\ holder \in [Nodes -> Threads \cup {None}]
      /\ todo \in [Threads -> SUBSET Groups]
      /\ grp \in [Threads -> Groups \cup {None}]
      /\ left \in [Threads -> SUBSET Nodes]
      /\ node \in [Threads -> Nodes \cup {None}]
      /\ gleft \in [Threads -> SUBSET Groups]
      /\ push \in [Threads -> SUBSET Users]
      /\ who \in [Threads -> Users \cup {None}]
    BY DEF Init
<1>. QED  BY <1>1, <1>2, <1>3, <1>4, <1>5, <1>6, <1>7 DEF TypeOK

\* What a return from applyStoredNode leaves typed or alone.
ReturnedOK ==
    /\ holder' \in [Nodes -> Threads \cup {None}]
    /\ failed' \in [Threads -> BOOLEAN]
    /\ node' \in [Threads -> Nodes \cup {None}]
    /\ at' \in [Threads -> Nat]
    /\ gleft' \in [Threads -> SUBSET Groups]
    /\ push' \in [Threads -> SUBSET Users]
    /\ pc' \in [Threads -> {"idle", "patch", "collect", "credit", "listed",
                            "reset", "groups", "nodes", "read"}]
    /\ UNCHANGED <<now, table, pending, ent, todo, grp, left, others, blind>>

LEMMA ReturnType ==
    ASSUME TypeOK, NEW t \in Threads, NEW err \in BOOLEAN, Return(t, err)
    PROVE  ReturnedOK
<1>1. failed' \in [Threads -> BOOLEAN]
    <2>1. failed \in [Threads -> BOOLEAN] /\ (failed[t] \/ err) \in BOOLEAN
        BY DEF TypeOK
    <2>2. failed' = [failed EXCEPT ![t] = failed[t] \/ err]
        BY DEF Return
    <2>. QED  BY <2>1, <2>2
<1>. QED  BY <1>1 DEF TypeOK, Return, ReturnedOK

LEMMA LockedNode ==
    ASSUME TypeOK, Locked, NEW t \in Threads, pc[t] = "read"
    PROVE  node[t] \in Nodes
BY DEF Locked

\* What an apply that may be lost sight of leaves typed or alone.
ForgetOK == /\ forgotten' \subseteq Nodes /\ forgotten \subseteq forgotten'
            /\ UNCHANGED <<crossed, missed>>

LEMMA ForgetType ==
    ASSUME TypeOK, NEW t \in Threads, node[t] \in Nodes, NEW lost, Forget(t, lost)
    PROVE  ForgetOK
BY DEF TypeOK, Forget, ForgetOK

LEMMA MarkType ==
    ASSUME TypeOK, NEW t \in Threads, NEW g \in Groups \cup {None},
           g # None, Mark(t, g)
    PROVE  /\ pending' \subseteq Groups
           /\ crossed' \subseteq Threads /\ forgotten' \subseteq Nodes
           /\ missed' \subseteq Users /\ UNCHANGED blind
BY DEF TypeOK, Mark, Remember

LEMMA ApplyType ==
    ASSUME TypeOK, Locked, NEW t \in Threads, ApplyStep(t)
    PROVE  TypeOK'
<1>1. CASE \E g \in Groups : NextGroup(t, g)
    BY <1>1 DEF TypeOK, NextGroup, NodesOf, Remember
<1>2. CASE \E g \in Groups : ReadGroup(t, g)
    BY <1>2 DEF TypeOK, ReadGroup, Allowed
<1>3. CASE \E n \in Nodes : Lock(t, n)
    <2>1. PICK n \in Nodes : Lock(t, n)
        BY <1>3
    <2>2. Serves[n] \subseteq Groups
        BY PlaneAssumption
    <2>3. /\ left' \in [Threads -> SUBSET Nodes]
          /\ node' \in [Threads -> Nodes \cup {None}]
          /\ holder' \in [Nodes -> Threads \cup {None}]
          /\ at' \in [Threads -> Nat]
          /\ gleft' \in [Threads -> SUBSET Groups]
        BY <2>1, <2>2 DEF TypeOK, Lock
    <2>. QED  BY <2>1, <2>3 DEF TypeOK, Lock
<1>4. CASE PutOk(t)
    <2>1. ReturnedOK /\ Forget(t, late[node[t]] # <<>>)
        BY <1>4, ReturnType DEF PutOk
    <2>2. node[t] \in Nodes
        BY <1>4, LockedNode DEF PutOk
    <2>3. ForgetOK
        BY <2>1, <2>2, ForgetType
    <2>4. installed' \in [Nodes -> SUBSET Users] /\ UNCHANGED <<late, budgets>>
        BY <1>4 DEF PutOk, TypeOK
    <2>. QED  BY <2>1, <2>3, <2>4 DEF TypeOK, ReturnedOK, ForgetOK
<1>5. CASE EndGroup(t)
    <2>1. /\ pending' \subseteq Groups
          /\ crossed' \subseteq Threads /\ forgotten' \subseteq Nodes
          /\ missed' \subseteq Users /\ UNCHANGED blind
        <3>1. CASE grp[t] # None /\ failed[t] /\ Mark(t, grp[t])
            BY <3>1, MarkType DEF TypeOK
        <3>2. CASE ~(grp[t] # None /\ failed[t] /\ Mark(t, grp[t]))
            BY <1>5, <3>2 DEF TypeOK, EndGroup, NodesOf
        <3>. QED  BY <3>1, <3>2
    <2>. QED  BY <1>5, <2>1 DEF TypeOK, EndGroup
<1>6. CASE EndApply(t)
    BY <1>6 DEF TypeOK, EndApply
<1>. QED  BY <1>1, <1>2, <1>3, <1>4, <1>5, <1>6 DEF ApplyStep

LEMMA RewriteType ==
    ASSUME TypeOK, NEW u \in Users, NEW r \in Rows, Rewrite(u, r)
    PROVE  row' \in [Users -> Rows] /\ blind' \subseteq Users
BY DEF TypeOK, Rewrite

LEMMA RequestType ==
    ASSUME TypeOK, NEW t \in Requests, RequestStep(t)
    PROVE  TypeOK'
<1>1. t \in Threads /\ \A u \in Users : GroupOf[u] \in Groups /\ row[u] \in Rows
    BY PlaneAssumption DEF Threads, TypeOK
<1>2. ASSUME NEW u \in Users, NEW r \in NewRows, CreateUser(t, u, r)
      PROVE  TypeOK'
    <2>1. NewRow(r) \in Rows
        <3>1. r \in Rows /\ now \in Nat
            BY PlaneAssumption DEF TypeOK
        <3>2. (IF r.reset = "" THEN Never
                                  ELSE PeriodStart(r.reset, now)) \in Instants
            <4>1. PeriodStart(r.reset, now) \in Int
                BY <3>1, PeriodStartsBefore
            <4>. QED  BY <4>1 DEF Instants
        <3>. QED  BY <3>1, <3>2, FreshRow DEF NewRow
    <2>. HIDE DEF NewRow
    <2>. QED  BY <1>1, <1>2, <2>1 DEF TypeOK, CreateUser, Request, ThenApply
<1>3. ASSUME NEW u \in Users, RevokeUser(t, u)
      PROVE  TypeOK'
    <2>1. [row[u] EXCEPT !.status = "revoked"] \in Rows
        BY <1>1 DEF Rows, Statuses
    <2>2. row' \in [Users -> Rows] /\ blind' \subseteq Users
        BY <1>3, <2>1, RewriteType DEF RevokeUser
    <2>. QED  BY <1>1, <1>3, <2>2 DEF TypeOK, RevokeUser, Request, ThenApply
<1>4. ASSUME NEW u \in Users, DeleteUser(t, u)
      PROVE  TypeOK'
    BY <1>1, <1>4, BlankRow DEF TypeOK, DeleteUser, Request, ThenApply
<1>5. ASSUME NEW u \in Users, PatchRead(t, u)
      PROVE  TypeOK'
    BY <1>1, <1>5 DEF TypeOK, PatchRead, Request
<1>6. ASSUME NEW some \in SUBSET Nodes, ApplyNodes(t, some)
      PROVE  TypeOK'
    BY <1>1, <1>6 DEF TypeOK, ApplyNodes, Request
<1>. QED  BY <1>2, <1>3, <1>4, <1>5, <1>6 DEF RequestStep

LEMMA PatchType ==
    ASSUME TypeOK, Serving, NEW t \in Requests, PatchStep(t)
    PROVE  TypeOK'
<1>1. t \in Threads /\ \A u \in Users : GroupOf[u] \in Groups /\ row[u] \in Rows
    BY PlaneAssumption DEF Threads, TypeOK
<1>2. CASE PatchFails(t)
    BY <1>1, <1>2, BlankRow DEF TypeOK, PatchFails
<1>3. ASSUME NEW p \in Patches, PatchWrite(t, p)
      PROVE  TypeOK'
    <2>1. /\ copy' \in [Requests -> Rows] /\ who' \in [Threads -> Users \cup {None}]
          /\ UNCHANGED <<now, life, memory, agents, grouping, applying, was,
                         slist, listed, sleft, crossed, forgotten, budgets>>
        BY <1>1, <1>3, BlankRow DEF TypeOK, PatchWrite
    <2>2. CASE ~Live(who[t])
        BY <1>1, <1>3, <2>1, <2>2 DEF TypeOK, PatchWrite
    <2>3. CASE Live(who[t])
        <3>. who[t] \in Users
            BY <1>1, <1>3 DEF Serving, PatchWrite
        <3>1. Patched(copy[t], p) \in Rows
            BY <1>1, PatchedRow DEF TypeOK
        <3>2. row' \in [Users -> Rows] /\ blind' \subseteq Users
            BY <1>3, <2>3, <3>1, RewriteType DEF PatchWrite
        <3>3. \/ ThenApply(t, GroupOf[who[t]])
              \/ pc' = [pc EXCEPT ![t] = "idle"] /\ todo' = todo
            BY <1>3, <2>3 DEF PatchWrite
        <3>4. /\ todo' \in [Threads -> SUBSET Groups]
              /\ pc' \in [Threads -> {"idle", "patch", "collect", "credit", "listed",
                                     "reset", "groups", "nodes", "read"}]
            <4>1. {GroupOf[who[t]]} \in SUBSET Groups
                BY <1>1
            <4>2. CASE ThenApply(t, GroupOf[who[t]])
                BY <4>1, <4>2 DEF TypeOK, ThenApply
            <4>3. CASE pc' = [pc EXCEPT ![t] = "idle"] /\ todo' = todo
                BY <4>3 DEF TypeOK
            <4>. QED  BY <3>3, <4>2, <4>3
        <3>5. missed' \subseteq Users
            BY <1>3, <2>3 DEF TypeOK, PatchWrite, UnseenReturn
        <3>. QED  BY <2>1, <3>2, <3>4, <3>5 DEF TypeOK
    <2>. QED  BY <2>2, <2>3
<1>. QED  BY <1>2, <1>3 DEF PatchStep

LEMMA SweepType ==
    ASSUME TypeOK, SweepStep
    PROVE  TypeOK'
<1>1. Sweeper \in Threads /\ \A u \in Users : GroupOf[u] \in Groups
    BY PlaneAssumption DEF Threads
<1>2. CASE SweepList
    BY <1>1, <1>2 DEF TypeOK, SweepList
<1>3. CASE SweepClock
    BY <1>1, <1>3 DEF TypeOK, SweepClock
<1>4. CASE SweepSwap
    <2>1. /\ \A says : Changed(says) \subseteq Groups
          /\ listed' \in [Users -> Rows]
        BY <1>1, <1>4, BlankRow DEF Changed, SweepSwap
    <2>2. todo' \in [Threads -> SUBSET Groups]
        BY <1>1, <1>4, <2>1 DEF TypeOK, SweepSwap
    <2>3. ent' \in [Users -> {"unseen", "yes", "no"}]
        BY <1>4 DEF SweepSwap
    <2>. QED  BY <1>1, <1>4, <2>1, <2>2, <2>3 DEF TypeOK, SweepSwap
<1>5. ASSUME NEW u \in Users, SweepReset(u)
      PROVE  TypeOK'
    <2>. DEFINE start == PeriodStart(listed[u].reset, at[Sweeper])
                once == [row[u] EXCEPT !.used = 0, !.period = start]
                adopted == [row[u] EXCEPT !.period = start]
    <2>1. start \in Int /\ row[u] \in Rows /\ listed[u] \in Rows
        BY <1>1, PeriodStartsBefore DEF TypeOK
    <2>2. once \in Rows /\ adopted \in Rows /\ Zeroed(listed[u]) \in Rows
        <3>. HIDE DEF start
        <3>. QED  BY <2>1, ZeroedRow DEF Rows, Instants
    <2>3. CASE Live(u)
        <3>1. row' \in [Users -> Rows] /\ blind' \subseteq Users
            <4>1. Rewrite(u, once) \/ Rewrite(u, adopted)
                BY <1>5, <2>3 DEF SweepReset
            <4>. HIDE DEF once, adopted
            <4>. QED  BY <2>2, <4>1, RewriteType
        <3>2. /\ listed' = [listed EXCEPT ![u] = Zeroed(@)] \/ listed' = listed
              /\ \/ todo' = [todo EXCEPT ![Sweeper] = @ \cup {GroupOf[u]}]
                 \/ todo' = todo
            BY <1>5, <2>3 DEF SweepReset
        <3>3. listed' \in [Users -> Rows]
            BY <2>2, <3>2 DEF TypeOK
        <3>4. todo' \in [Threads -> SUBSET Groups]
            <4>1. /\ todo \in [Threads -> SUBSET Groups]
                  /\ todo[Sweeper] \cup {GroupOf[u]} \in SUBSET Groups
                BY <1>1 DEF TypeOK
            <4>. QED  BY <3>2, <4>1
        <3>5. /\ sleft' \subseteq Users
              /\ UNCHANGED <<now, life, memory, agents, pc, grouping, applying,
                             who, copy, was, slist, excuses, budgets>>
            BY <1>5 DEF SweepReset, TypeOK
        <3>. QED  BY <3>1, <3>3, <3>4, <3>5 DEF TypeOK
    <2>4. CASE ~Live(u)
        BY <1>5, <2>4 DEF TypeOK, SweepReset
    <2>. QED  BY <2>3, <2>4
<1>. QED  BY <1>2, <1>4, <1>5, <1>3 DEF SweepStep

LEMMA CollectType ==
    ASSUME TypeOK, Serving, CollectStep
    PROVE  TypeOK'
<1>1. /\ Collector \in Threads /\ \A u \in Users : GroupOf[u] \in Groups
    BY PlaneAssumption DEF Threads
<1>2. CASE CollectBegin
    BY <1>1, <1>2 DEF TypeOK, CollectBegin
<1>3. ASSUME NEW u \in Users, CollectRead(u)
      PROVE  TypeOK'
    <2>1. was' \in BOOLEAN
        BY <1>3 DEF CollectRead, Entitled
    <2>. QED  BY <1>1, <1>3, <2>1 DEF TypeOK, CollectRead
<1>4. CASE CollectCredit
    <2>. DEFINE u == who[Collector]
                after == [row[u] EXCEPT !.used = @ + 1]
    <2>1. u \in Users
        BY <1>1, <1>4 DEF Serving, CollectCredit
    <2>2. after \in Rows
        <3>1. row[u] \in Rows
            BY <2>1 DEF TypeOK
        <3>2. row[u].used + 1 \in Nat
            BY <3>1, UsedNat
        <3>. HIDE DEF u
        <3>. QED  BY <3>1, <3>2, UsedRow
    <2>3. /\ row' = [row EXCEPT ![u] = after] \/ row' = row
          /\ \/ todo' = [todo EXCEPT ![Collector] = @ \cup {GroupOf[u]}]
             \/ todo' = todo
        BY <1>4 DEF CollectCredit
    <2>4. row' \in [Users -> Rows]
        <3>. HIDE DEF after
        <3>. QED  BY <2>1, <2>2, <2>3 DEF TypeOK
    <2>5. todo' \in [Threads -> SUBSET Groups]
        <3>1. /\ todo \in [Threads -> SUBSET Groups]
              /\ todo[Collector] \cup {GroupOf[u]} \in SUBSET Groups
            BY <1>1, <2>1 DEF TypeOK
        <3>. QED  BY <2>3, <3>1
    <2>. QED  BY <1>1, <1>4, <2>4, <2>5 DEF TypeOK, CollectCredit
<1>5. CASE CollectEnd
    BY <1>1, <1>5 DEF TypeOK, CollectEnd
<1>. QED  BY <1>2, <1>3, <1>4, <1>5 DEF CollectStep

LEMMA FaultType ==
    ASSUME TypeOK, Locked, FaultStep
    PROVE  TypeOK'
<1>1. Collector \in Threads
    BY DEF Threads
<1>2. ASSUME NEW t \in Threads, NEW g \in Groups, NextGroupFails(t, g)
      PROVE  TypeOK'
    <2>1. /\ pending' \subseteq Groups
          /\ crossed' \subseteq Threads /\ forgotten' \subseteq Nodes
          /\ missed' \subseteq Users /\ UNCHANGED blind
        BY <1>2, MarkType, PlaneAssumption DEF NextGroupFails
    <2>. QED  BY <1>2, <2>1 DEF TypeOK, NextGroupFails, Fault
<1>3. ASSUME NEW t \in Threads, NEW n \in Nodes, NextNodeFails(t, n)
      PROVE  TypeOK'
    BY <1>3 DEF TypeOK, NextNodeFails, Fault
<1>4. ASSUME NEW t \in Threads, ReadFails(t) \/ PutRefused(t) \/ PutPartial(t)
      PROVE  TypeOK'
    <2>1. Return(t, TRUE) \/ Return(t, FALSE)
        BY <1>4 DEF ReadFails, PutRefused, PutPartial
    <2>2. ReturnedOK
        BY <2>1, ReturnType
    <2>3. UNCHANGED agents /\ Fault
        BY <1>4 DEF ReadFails, PutRefused, PutPartial
    <2>4. faults' \in Nat /\ UNCHANGED <<ops, crashes>>
        BY <2>3 DEF TypeOK, Fault
    <2>5. /\ forgotten' \subseteq Nodes /\ UNCHANGED <<crossed, missed>>
        <3>1. node[t] \in Nodes
            BY <1>4, LockedNode DEF ReadFails, PutRefused, PutPartial
        <3>2. UNCHANGED excuses \/ Forget(t, TRUE)
            BY <1>4 DEF ReadFails, PutRefused, PutPartial
        <3>. QED  BY <3>1, <3>2, ForgetType DEF TypeOK, ForgetOK
    <2>. QED  BY <2>2, <2>3, <2>4, <2>5 DEF TypeOK, ReturnedOK
<1>5. ASSUME NEW t \in Threads, PutTimesOut(t)
      PROVE  TypeOK'
    <2>1. \A q \in Seq(SUBSET Users) : Append(q, push[t]) \in Seq(SUBSET Users)
        BY DEF TypeOK
    <2>2. late' \in [Nodes -> Seq(SUBSET Users)]
        BY <1>5, <2>1 DEF TypeOK, PutTimesOut
    <2>3. ReturnedOK
        BY <1>5, ReturnType DEF PutTimesOut
    <2>4. /\ UNCHANGED <<installed, excuses>> /\ faults' \in Nat
          /\ UNCHANGED <<ops, crashes>>
        BY <1>5 DEF TypeOK, PutTimesOut, Fault
    <2>. QED  BY <2>2, <2>3, <2>4 DEF TypeOK, ReturnedOK
<1>6. ASSUME NEW t \in Threads, PutUnsaved(t)
      PROVE  TypeOK'
    <2>1. installed' \in [Nodes -> SUBSET Users] /\ Return(t, TRUE)
        BY <1>6 DEF TypeOK, PutUnsaved
    <2>2. ReturnedOK
        BY <2>1, ReturnType
    <2>3. /\ UNCHANGED <<late, excuses>> /\ faults' \in Nat
          /\ UNCHANGED <<ops, crashes>>
        BY <1>6 DEF TypeOK, PutUnsaved, Fault
    <2>. QED  BY <2>1, <2>2, <2>3 DEF TypeOK, ReturnedOK
<1>7. ASSUME NEW u \in Users, SweepResetFails(u)
      PROVE  TypeOK'
    BY <1>7 DEF TypeOK, SweepResetFails, Fault
<1>8. ASSUME NEW u \in Users, CollectReadFails(u)
      PROVE  TypeOK'
    BY <1>1, <1>8 DEF TypeOK, CollectReadFails, Fault
<1>9. CASE CollectCreditFails
    <2>1. was' \in BOOLEAN
        BY <1>9 DEF CollectCreditFails
    <2>. QED  BY <1>1, <1>9, <2>1 DEF TypeOK, CollectCreditFails, Fault
<1>. QED  BY <1>2, <1>3, <1>4, <1>5, <1>6, <1>7, <1>8, <1>9 DEF FaultStep

\* Taking one PUT off an agent's list leaves the others.
LEMMA WithoutFacts ==
    ASSUME NEW S, NEW s \in Seq(S), NEW i \in DOMAIN s
    PROVE  /\ Without(s, i) \in Seq(S)
           /\ \A j \in DOMAIN Without(s, i) :
                 \E k \in DOMAIN s : Without(s, i)[j] = s[k]
<1>1. DOMAIN s = 1 .. Len(s) /\ Len(s) \in Nat /\ Len(s) >= 1
    OBVIOUS
<1>. DEFINE m == Len(s) - 1
<1>2. m \in Nat
    BY <1>1
<1>3. \A j \in 1 .. m : (IF j < i THEN j ELSE j + 1) \in DOMAIN s
    BY <1>1
<1>4. \A k \in DOMAIN s : s[k] \in S
    OBVIOUS
<1>5. Without(s, i) \in [1 .. m -> S]
    BY <1>3, <1>4 DEF Without
<1>6. Without(s, i) \in Seq(S)
    BY <1>2, <1>5
<1>7. DOMAIN Without(s, i) = 1 .. m
    BY DEF Without
<1>. QED  BY <1>3, <1>6, <1>7 DEF Without

LEMMA AgentType ==
    ASSUME TypeOK, NEW n \in Nodes, AgentStep(n)
    PROVE  TypeOK'
<1>1. PICK i \in DOMAIN late[n] : LateApplied(n, i) \/ LateDropped(n, i)
    BY DEF AgentStep
<1>2. late[n] \in Seq(SUBSET Users)
    BY DEF TypeOK
<1>3. late[n][i] \in SUBSET Users /\ Without(late[n], i) \in Seq(SUBSET Users)
    BY <1>2, WithoutFacts
<1>4. /\ installed' \in [Nodes -> SUBSET Users]
      /\ late' \in [Nodes -> Seq(SUBSET Users)]
    BY <1>1, <1>3 DEF TypeOK, LateApplied, LateDropped
<1>. QED  BY <1>1, <1>4 DEF TypeOK, LateApplied, LateDropped

LEMMA RestartType ==
    ASSUME TypeOK, RestartPlane
    PROVE  TypeOK'
<1>1. late' \in [Nodes -> Seq(SUBSET Users)]
    <2>1. \A t \in Threads, n \in Nodes :
              Append(late[n], push[t]) \in Seq(SUBSET Users)
        BY DEF TypeOK
    <2>2. PICK sent \in SUBSET {n \in Nodes : /\ holder[n] # None
                                              /\ gleft[holder[n]] = {}} :
              late' = [n \in Nodes |-> IF n \in sent
                                        THEN Append(late[n], push[holder[n]])
                                        ELSE late[n]]
        BY DEF RestartPlane
    <2>3. \A n \in sent : holder[n] \in Threads
        BY <2>2 DEF TypeOK
    <2>. QED  BY <2>1, <2>2, <2>3 DEF TypeOK
<1>2. /\ copy' \in [Requests -> Rows] /\ listed' \in [Users -> Rows]
    BY BlankRow DEF RestartPlane
<1>3. was' \in BOOLEAN /\ failed' \in [Threads -> BOOLEAN]
    BY DEF RestartPlane
<1>4. /\ at' \in [Threads -> Nat] /\ crashes' \in Nat
    BY DEF TypeOK, RestartPlane
<1>5. /\ ent' \in [Users -> {"unseen", "yes", "no"}]
      /\ pc' \in [Threads -> {"idle", "patch", "collect", "credit", "listed",
                              "reset", "groups", "nodes", "read"}]
    BY DEF RestartPlane
<1>6. /\ pending' \subseteq Groups /\ slist' \subseteq Users
      /\ sleft' \subseteq Users /\ blind' \subseteq Users
      /\ holder' \in [Nodes -> Threads \cup {None}]
      /\ todo' \in [Threads -> SUBSET Groups]
      /\ grp' \in [Threads -> Groups \cup {None}]
      /\ left' \in [Threads -> SUBSET Nodes]
      /\ node' \in [Threads -> Nodes \cup {None}]
      /\ gleft' \in [Threads -> SUBSET Groups]
      /\ push' \in [Threads -> SUBSET Users]
      /\ who' \in [Threads -> Users \cup {None}]
      /\ crossed' \subseteq Threads /\ forgotten' \subseteq Nodes
    BY DEF RestartPlane
<1>8. missed' \subseteq Users
    BY DEF RestartPlane, TypeOK
<1>7. UNCHANGED <<now, table, installed, ops, faults>>
    BY DEF RestartPlane
<1>. QED  BY <1>1, <1>2, <1>3, <1>4, <1>5, <1>6, <1>7, <1>8 DEF TypeOK

-----------------------------------------------------------------------------
(* Shape *)

LEMMA InitShape == Init => Shape
<1>. SUFFICES ASSUME Init PROVE Shape
    OBVIOUS
<1>1. Serving /\ Locked /\ Listing /\ Queued /\ Unseen
    BY PlaneAssumption DEF Init, Serving, Locked, Listing, Queued, Unseen, Born
<1>2. Sent
    BY PlaneAssumption DEF Init, Sent, Held, Born
<1>. QED  BY <1>1, <1>2 DEF Shape

\* Steps that leave alone who is inside applyStoredNode and what it has done.
LEMMA ShapeFrame ==
    ASSUME TypeOK, Locked, Listing, Sent,
           UNCHANGED <<agents, holder, node, gleft, push>>,
           \A t \in Threads : pc[t] = "read" <=> pc'[t] = "read",
           \A u \in Users : Born(u) => Born(u)'
    PROVE  Locked' /\ Listing' /\ Sent'
<1>1. Locked'
    BY PlaneAssumption DEF Locked, TypeOK
<1>2. Listing'
    BY DEF Listing, TypeOK
<1>3. Sent'
    BY DEF Sent, Held
<1>. QED  BY <1>1, <1>2, <1>3

\* What an admin request does to the thread that serves it.
Served(t) ==
    /\ pc'[t] \in {"groups", "patch", "nodes"}
    /\ \A s \in Threads \ {t} : /\ pc'[s] = pc[s] /\ todo'[s] = todo[s]
                                /\ left'[s] = left[s] /\ who'[s] = who[s]
    /\ pc'[t] = "patch" => who'[t] \in Users /\ todo'[t] = {}
    /\ pc'[t] # "nodes" => left'[t] = {}
    /\ UNCHANGED <<agents, holder, node, gleft, push, ent, slist>>
    /\ \A u \in Users : Born(u) => Born(u)'

LEMMA RequestServed ==
    ASSUME TypeOK, Shape, NEW t \in Requests, RequestStep(t)
    PROVE  Served(t)
<1>1. t \in Threads /\ (pc[t] = "idle" => todo[t] = {} /\ left[t] = {})
    BY DEF Threads, Shape, Queued
<1>2. ASSUME NEW u \in Users, NEW r \in NewRows, CreateUser(t, u, r)
      PROVE  Served(t)
    BY <1>1, <1>2 DEF CreateUser, Request, ThenApply, TypeOK, Served, Born
<1>3. ASSUME NEW u \in Users, RevokeUser(t, u)
      PROVE  Served(t)
    BY <1>1, <1>3 DEF RevokeUser, Request, ThenApply, TypeOK, Served, Born
<1>4. ASSUME NEW u \in Users, DeleteUser(t, u)
      PROVE  Served(t)
    BY <1>1, <1>4 DEF DeleteUser, Request, ThenApply, TypeOK, Served, Born
<1>5. ASSUME NEW u \in Users, PatchRead(t, u)
      PROVE  Served(t)
    BY <1>1, <1>5 DEF PatchRead, Request, TypeOK, Served, Born
<1>6. ASSUME NEW some \in SUBSET Nodes, ApplyNodes(t, some)
      PROVE  Served(t)
    BY <1>1, <1>6 DEF ApplyNodes, Request, TypeOK, Served, Born
<1>. QED  BY <1>2, <1>3, <1>4, <1>5, <1>6 DEF RequestStep

LEMMA RequestShape ==
    ASSUME TypeOK, Shape, NEW t \in Requests, RequestStep(t)
    PROVE  Shape'
<1>1. t \in Threads /\ pc[t] = "idle"
    BY DEF Threads, RequestStep, CreateUser, RevokeUser, DeleteUser, PatchRead,
           ApplyNodes, Request
<1>2. Served(t)
    BY RequestServed
<1>3. Serving' /\ Queued'
    BY <1>1, <1>2 DEF Shape, Serving, Queued, Served
<1>4. Unseen'
    BY <1>2 DEF Shape, Unseen, Served
<1>5. Locked' /\ Listing' /\ Sent'
    BY <1>1, <1>2, ShapeFrame DEF Shape, Served
<1>. QED  BY <1>3, <1>4, <1>5 DEF Shape

LEMMA PatchShape ==
    ASSUME TypeOK, Shape, NEW t \in Requests, PatchStep(t)
    PROVE  Shape'
<1>1. t \in Threads /\ pc[t] = "patch"
    BY DEF Threads, PatchStep, PatchFails, PatchWrite
<1>2. /\ pc'[t] \in {"idle", "groups"}
      /\ pc'[t] = "idle" => todo'[t] = {}
      /\ \A s \in Threads \ {t} : /\ pc'[s] = pc[s] /\ todo'[s] = todo[s]
                                  /\ who'[s] = who[s]
    BY <1>1 DEF PatchStep, PatchFails, PatchWrite, ThenApply, TypeOK, Shape, Queued
<1>3. UNCHANGED <<life, left, agents, holder, node, gleft, push, ent, slist>>
    BY DEF PatchStep, PatchFails, PatchWrite
<1>4. Serving' /\ Queued'
    BY <1>1, <1>2, <1>3 DEF Shape, Serving, Queued
<1>5. Unseen'
    BY <1>3 DEF Shape, Unseen, Born
<1>6. Locked' /\ Listing' /\ Sent'
    BY <1>1, <1>2, <1>3, ShapeFrame DEF Shape, Born
<1>. QED  BY <1>4, <1>5, <1>6 DEF Shape

LEMMA SweepShape ==
    ASSUME TypeOK, Shape, SweepStep \/ \E u \in Users : SweepResetFails(u)
    PROVE  Shape'
<1>1. Sweeper \in Threads /\ pc[Sweeper] \in {"idle", "listed", "reset"}
    BY DEF Threads, SweepStep, SweepList, SweepClock, SweepReset, SweepSwap,
           SweepResetFails
<1>2. /\ pc'[Sweeper] \in {"listed", "reset", "groups"}
      /\ \A s \in Threads \ {Sweeper} : pc'[s] = pc[s] /\ todo'[s] = todo[s]
    BY <1>1, ZenonT(60) DEF SweepStep, SweepList, SweepClock, SweepReset, SweepSwap,
                          SweepResetFails, TypeOK
<1>3. UNCHANGED <<life, left, agents, holder, node, gleft, push, who>>
    BY DEF SweepStep, SweepList, SweepClock, SweepReset, SweepSwap,
           SweepResetFails
<1>4. Serving' /\ Queued'
    BY <1>1, <1>2, <1>3 DEF Shape, Serving, Queued
<1>5. Unseen'
    BY <1>3 DEF Shape, Unseen, Born, SweepStep, SweepList, SweepClock,
                SweepReset, SweepSwap, SweepResetFails
<1>6. Locked' /\ Listing' /\ Sent'
    BY <1>1, <1>2, <1>3, ShapeFrame DEF Shape, Born
<1>. QED  BY <1>4, <1>5, <1>6, SMTT(30) DEF Shape

LEMMA CollectShape ==
    ASSUME TypeOK, Shape,
           CollectStep \/ CollectCreditFails \/ \E u \in Users : CollectReadFails(u)
    PROVE  Shape'
<1>1. Collector \in Threads /\ pc[Collector] \in {"idle", "collect", "credit"}
    BY DEF Threads, CollectStep, CollectBegin, CollectRead, CollectCredit,
           CollectEnd, CollectReadFails, CollectCreditFails
<1>2. /\ pc'[Collector] \in {"collect", "credit", "groups"}
      /\ pc'[Collector] = "credit" => who'[Collector] \in Users
      /\ \A s \in Threads \ {Collector} : /\ pc'[s] = pc[s] /\ todo'[s] = todo[s]
                                          /\ who'[s] = who[s]
    BY <1>1 DEF CollectStep, CollectBegin, CollectRead, CollectCredit,
                CollectEnd, CollectReadFails, CollectCreditFails, TypeOK
<1>3. UNCHANGED <<life, left, agents, holder, node, gleft, push, ent, slist>>
    BY DEF CollectStep, CollectBegin, CollectRead, CollectCredit,
           CollectEnd, CollectReadFails, CollectCreditFails
<1>4. Serving' /\ Queued'
    BY <1>1, <1>2, <1>3 DEF Shape, Serving, Queued
<1>5. Unseen'
    BY <1>3 DEF Shape, Unseen, Born
<1>6. Locked' /\ Listing' /\ Sent'
    BY <1>1, <1>2, <1>3, ShapeFrame DEF Shape, Born
<1>. QED  BY <1>4, <1>5, <1>6 DEF Shape

\* Steps of applyGroupNodes outside of applyStoredNode.
LEMMA GroupShape ==
    ASSUME TypeOK, Shape, NEW t \in Threads,
           \/ \E g \in Groups : NextGroup(t, g) \/ NextGroupFails(t, g)
           \/ \E n \in Nodes : NextNodeFails(t, n)
           \/ EndGroup(t) \/ EndApply(t)
    PROVE  Shape'
<1>1. /\ pc[t] \in {"groups", "nodes"} /\ pc'[t] \in {"groups", "nodes", "idle"}
      /\ \A s \in Threads \ {t} : /\ pc'[s] = pc[s] /\ todo'[s] = todo[s]
                                  /\ left'[s] = left[s]
      /\ pc'[t] = "idle" => todo'[t] = {}
      /\ pc'[t] # "nodes" => left'[t] = {}
    BY ZenonT(60) DEF NextGroup, NextGroupFails, NextNodeFails, EndGroup, EndApply, TypeOK,
           Shape, Queued
<1>2. UNCHANGED <<life, agents, holder, node, gleft, push, who, ent, slist>>
    BY DEF NextGroup, NextGroupFails, NextNodeFails, EndGroup, EndApply
<1>3. Serving' /\ Queued'
    BY <1>1, <1>2 DEF Shape, Serving, Queued
<1>4. Unseen'
    BY <1>2 DEF Shape, Unseen, Born
<1>5. Locked' /\ Listing' /\ Sent'
    BY <1>1, <1>2, ShapeFrame DEF Shape, Born
<1>. QED  BY <1>3, <1>4, <1>5 DEF Shape

LEMMA LockShape ==
    ASSUME TypeOK, Shape, NEW t \in Threads, NEW n \in Nodes, Lock(t, n)
    PROVE  Shape'
<1>1. /\ pc[t] = "nodes" /\ pc' = [pc EXCEPT ![t] = "read"]
      /\ UNCHANGED <<life, agents, todo, push, who, ent, slist>>
    BY DEF Lock
<1>2. Serving' /\ Queued' /\ Unseen' /\ Sent'
    BY <1>1 DEF Shape, Serving, Queued, Unseen, Sent, Held, Born, Lock, TypeOK
<1>3. Locked'
    BY PlaneAssumption DEF Shape, Locked, Lock, TypeOK
<1>4. Listing'
    BY <1>1 DEF Shape, Listing, Lock, TypeOK, Born
<1>. QED  BY <1>2, <1>3, <1>4 DEF Shape

LEMMA ReadShape ==
    ASSUME TypeOK, Shape, NEW t \in Threads, NEW g \in Groups, ReadGroup(t, g)
    PROVE  Shape'
<1>1. /\ pc[t] = "read"
      /\ UNCHANGED <<life, agents, pc, todo, left, node, holder, who, ent, slist>>
    BY DEF ReadGroup
<1>2. Serving' /\ Queued' /\ Unseen' /\ Sent' /\ Locked'
    BY <1>1 DEF Shape, Serving, Queued, Unseen, Sent, Held, Born, Locked
<1>3. Listing'
    BY <1>1 DEF Shape, Listing, ReadGroup, Allowed, TypeOK, Born
<1>. QED  BY <1>2, <1>3 DEF Shape

\* However applyStoredNode returns, what the agent has been sent are users it
\* held already or users of the list.
LEMMA ReturnShape ==
    ASSUME TypeOK, Shape, NEW t \in Threads, NEW err, pc[t] = "read",
           Return(t, err),
           \A u \in Users, n \in Nodes :
               Held(u, n)' => Held(u, n) \/ (node[t] = n /\ u \in push[t]),
           UNCHANGED slist
    PROVE  Shape'
<1>1. /\ pc' = [pc EXCEPT ![t] = "nodes"]
      /\ UNCHANGED <<life, todo, left, who, ent, slist>>
    BY DEF Return
<1>2. Serving' /\ Queued' /\ Unseen'
    BY <1>1 DEF Shape, Serving, Queued, Unseen, Born, TypeOK
<1>3. Locked'
    BY PlaneAssumption DEF Shape, Locked, Return, TypeOK
<1>4. Listing'
    BY <1>1 DEF Shape, Listing, Return, TypeOK, Born
<1>5. Sent'
    BY <1>1 DEF Shape, Sent, Listing, Born
<1>. QED  BY <1>2, <1>3, <1>4, <1>5 DEF Shape

\* What an agent has been sent by a PUT is what it held already or the list.
LEMMA PutHeld ==
    ASSUME TypeOK, NEW t \in Threads,
           \/ ReadFails(t) \/ PutOk(t) \/ PutRefused(t) \/ PutTimesOut(t)
           \/ PutPartial(t) \/ PutUnsaved(t),
           NEW u \in Users, NEW n \in Nodes, Held(u, n)'
    PROVE  Held(u, n) \/ (node[t] = n /\ u \in push[t])
<1>1. CASE UNCHANGED agents
    BY <1>1 DEF Held
<1>2. CASE /\ installed' = [installed EXCEPT ![node[t]] = push[t]]
           /\ UNCHANGED late
    BY <1>2 DEF Held, TypeOK
<1>3. CASE /\ late' = [late EXCEPT ![node[t]] = Append(@, push[t])]
           /\ UNCHANGED installed
    <2>1. late[n] \in Seq(SUBSET Users) /\ push[t] \in SUBSET Users
        BY DEF TypeOK
    <2>2. CASE node[t] = n
        <3>1. late'[n] = Append(late[n], push[t])
            BY <1>3, <2>2 DEF TypeOK
        <3>. QED  BY <1>3, <2>1, <2>2, <3>1 DEF Held
    <2>3. CASE node[t] # n
        BY <1>3, <2>3 DEF Held, TypeOK
    <2>. QED  BY <2>2, <2>3
<1>. QED  BY <1>1, <1>2, <1>3 DEF ReadFails, PutOk, PutRefused, PutTimesOut,
                                  PutPartial, PutUnsaved

LEMMA PutShape ==
    ASSUME TypeOK, Shape, NEW t \in Threads,
           \/ ReadFails(t) \/ PutOk(t) \/ PutRefused(t) \/ PutTimesOut(t)
           \/ PutPartial(t) \/ PutUnsaved(t)
    PROVE  Shape'
<1>1. pc[t] = "read" /\ UNCHANGED slist
    BY DEF ReadFails, PutOk, PutRefused, PutTimesOut, PutPartial, PutUnsaved,
           Return
<1>2. PICK err \in BOOLEAN : Return(t, err)
    BY DEF ReadFails, PutOk, PutRefused, PutTimesOut, PutPartial, PutUnsaved
<1>. QED  BY <1>1, <1>2, PutHeld, ReturnShape

LEMMA AgentHeld ==
    ASSUME TypeOK, NEW n \in Nodes, AgentStep(n), NEW u \in Users, NEW m \in Nodes,
           Held(u, m)'
    PROVE  Held(u, m)
<1>1. PICK i \in DOMAIN late[n] :
          /\ late' = [late EXCEPT ![n] = Without(@, i)]
          /\ \/ installed' = [installed EXCEPT ![n] = late[n][i]]
             \/ UNCHANGED installed
    BY DEF AgentStep, LateApplied, LateDropped
<1>2. CASE m = n
    <2>1. late'[n] = Without(late[n], i)
        BY <1>1 DEF TypeOK
    <2>2. installed'[n] = late[n][i] \/ installed'[n] = installed[n]
        BY <1>1 DEF TypeOK
    <2>3. late[n] \in Seq(SUBSET Users)
        BY DEF TypeOK
    <2>4. \A j \in DOMAIN Without(late[n], i) :
              \E k \in DOMAIN late[n] : Without(late[n], i)[j] = late[n][k]
        BY <2>3, WithoutFacts
    <2>. QED  BY <1>2, <2>1, <2>2, <2>4 DEF Held
<1>3. CASE m # n
    BY <1>1, <1>3 DEF Held, TypeOK
<1>. QED  BY <1>2, <1>3

LEMMA AgentShape ==
    ASSUME TypeOK, Shape, NEW n \in Nodes, AgentStep(n)
    PROVE  Shape'
<1>1. UNCHANGED <<life, pc, todo, left, node, holder, gleft, push, who, ent, slist>>
    BY DEF AgentStep, LateApplied, LateDropped
<1>2. Sent'
    BY <1>1, AgentHeld DEF Shape, Sent, Born
<1>. QED  BY <1>1, <1>2 DEF Shape, Serving, Locked, Listing, Queued, Unseen, Born

LEMMA RestartShape ==
    ASSUME TypeOK, Shape, RestartPlane
    PROVE  Shape'
<1>1. /\ \A t \in Threads : /\ pc'[t] = "idle" /\ todo'[t] = {}
                            /\ left'[t] = {} /\ push'[t] = {} /\ gleft'[t] = {}
      /\ \A n \in Nodes : holder'[n] = None
      /\ \A u \in Users : ent'[u] = "unseen" /\ u \notin slist'
      /\ UNCHANGED <<life, installed>>
    BY DEF RestartPlane
<1>2. PICK sent \in SUBSET {n \in Nodes : /\ holder[n] # None
                                          /\ gleft[holder[n]] = {}} :
          late' = [n \in Nodes |-> IF n \in sent
                                    THEN Append(late[n], push[holder[n]])
                                    ELSE late[n]]
    BY DEF RestartPlane
<1>3. ASSUME NEW u \in Users, NEW n \in Nodes, Held(u, n)'
      PROVE  Born(u) /\ GroupOf[u] \in Serves[n]
    <2>1. CASE Held(u, n)
        BY <2>1 DEF Shape, Sent
    <2>2. CASE ~Held(u, n)
        <3>1. n \in sent
            BY <1>1, <1>2, <1>3, <2>2 DEF Held
        <3>2. /\ late'[n] = Append(late[n], push[holder[n]])
              /\ holder[n] \in Threads /\ holder[n] # None
            BY <1>2, <3>1 DEF TypeOK
        <3>3. late[n] \in Seq(SUBSET Users) /\ push[holder[n]] \in SUBSET Users
            BY <3>2 DEF TypeOK
        <3>4. u \in push[holder[n]]
            BY <1>1, <1>3, <2>2, <3>2, <3>3 DEF Held
        <3>. QED  BY <3>2, <3>4 DEF Shape, Locked, Listing
    <2>. QED  BY <2>1, <2>2
<1>4. Sent'
    BY <1>1, <1>3 DEF Sent, Born
<1>. QED  BY <1>1, <1>4 DEF Shape, Serving, Locked, Listing, Queued, Unseen, Born

-----------------------------------------------------------------------------
(* Types and shape together *)

LEMMA NextShape ==
    ASSUME TypeOK, Shape, [Next]_vars
    PROVE  TypeOK' /\ Shape'
<1>1. Serving
    BY DEF Shape
<1>2. CASE Tick
    BY <1>2 DEF Tick, TypeOK, Shape, Serving, Locked, Listing, Queued, Sent,
                Unseen, Held, Born
<1>3. ASSUME NEW t \in Threads, ApplyStep(t)
      PROVE  TypeOK' /\ Shape'
    BY <1>3, ApplyType, GroupShape, LockShape, ReadShape, PutShape
       DEF ApplyStep, Shape
<1>4. ASSUME NEW t \in Requests, RequestStep(t) \/ PatchStep(t)
      PROVE  TypeOK' /\ Shape'
    BY <1>1, <1>4, RequestType, RequestShape, PatchType, PatchShape
<1>5. CASE SweepStep
    BY <1>5, SweepType, SweepShape
<1>6. CASE CollectStep
    BY <1>1, <1>6, CollectType, CollectShape
<1>7. ASSUME NEW n \in Nodes, AgentStep(n)
      PROVE  TypeOK' /\ Shape'
    BY <1>7, AgentType, AgentShape
<1>8. CASE FaultStep
    BY <1>8, FaultType, GroupShape, PutShape, SweepShape, CollectShape
       DEF FaultStep, Shape
<1>9. CASE RestartPlane
    BY <1>9, RestartType, RestartShape
<1>10. CASE UNCHANGED vars
    BY <1>10 DEF vars, TypeOK, Shape, Serving, Locked, Listing, Queued, Sent,
                 Unseen, Held, Born
<1>. QED  BY <1>2, <1>3, <1>4, <1>5, <1>6, <1>7, <1>8, <1>9, <1>10 DEF Next

LEMMA ShapeHolds == Spec => [](TypeOK /\ Shape)
<1>1. Init => TypeOK /\ Shape
    BY InitType, InitShape
<1>2. TypeOK /\ Shape /\ [Next]_vars => (TypeOK /\ Shape)'
    BY NextShape
<1>. QED  BY <1>1, <1>2, PTL DEF Spec

\* Type correctness: no interleaving of requests, loops, failures and restarts
\* gives a row, a map or a list a value that the code could not hold.
THEOREM TypeCorrect == Spec => []TypeOK
BY ShapeHolds, PTL

-----------------------------------------------------------------------------
(* No usage period begins in the future *)

Begun(r, i) == r.period = Never \/ r.period <= i

\* The rows, the copies that will be written back, and the clocks that threads
\* have read and take boundaries from.
PeriodInv ==
    /\ \A u \in Users : Begun(row[u], now)
    /\ \A t \in Requests : Begun(copy[t], now)
    /\ \A t \in Threads : at[t] <= now

\* What most steps do: rows and copies stay, a clock is read or dropped.
ClockOnly ==
    /\ row' = row /\ copy' = copy /\ now' = now
    /\ \/ at' = at
       \/ \E t \in Threads, i \in {0, now} : at' = [at EXCEPT ![t] = i]

LEMMA ClockPeriod ==
    ASSUME TypeOK, PeriodInv, ClockOnly
    PROVE  PeriodInv'
<1>1. \A t \in Threads : at'[t] \in {at[t], 0, now}
    BY DEF ClockOnly, TypeOK
<1>2. now \in Nat
    BY DEF TypeOK
<1>3. \A t \in Threads : at'[t] <= now'
    BY <1>1, <1>2 DEF ClockOnly, PeriodInv
<1>. QED  BY <1>3 DEF ClockOnly, PeriodInv, Begun

LEMMA BlankBegun == \A i : Begun(Blank, i)
BY DEF Begun, Blank

LEMMA StartBegun ==
    ASSUME NEW r \in Rows, NEW kind, NEW i \in Int, NEW j \in Int, i <= j
    PROVE  Begun([r EXCEPT !.period = PeriodStart(kind, i)], j)
<1>1. PeriodStart(kind, i) \in Int /\ PeriodStart(kind, i) <= i
    BY PeriodStartsBefore
<1>2. [r EXCEPT !.period = PeriodStart(kind, i)].period = PeriodStart(kind, i)
    BY DEF Rows
<1>. QED  BY <1>1, <1>2 DEF Begun

LEMMA RequestPeriod ==
    ASSUME TypeOK, PeriodInv, NEW t \in Requests, RequestStep(t)
    PROVE  PeriodInv'
<1>0. /\ t \in Threads /\ now \in Nat /\ row \in [Users -> Rows]
      /\ copy \in [Requests -> Rows]
    BY DEF Threads, TypeOK
<1>1. ASSUME NEW u \in Users, NEW r \in NewRows, CreateUser(t, u, r)
      PROVE  PeriodInv'
    <2>1. r \in Rows
        BY PlaneAssumption
    <2>2. Begun(NewRow(r), now)
        <3>1. NewRow(r).period = IF r.reset = "" THEN Never
                                 ELSE PeriodStart(r.reset, now)
            BY <2>1 DEF NewRow, Rows
        <3>2. PeriodStart(r.reset, now) <= now
            BY <1>0, PeriodStartsBefore
        <3>. QED  BY <3>1, <3>2 DEF Begun
    <2>3. row' = [row EXCEPT ![u] = NewRow(r)]
          /\ copy' = copy /\ now' = now /\ at' = at
        BY <1>1 DEF CreateUser
    <2>. HIDE DEF NewRow
    <2>4. \A v \in Users : Begun(row'[v], now)
        BY <1>0, <2>2, <2>3 DEF PeriodInv
    <2>. QED  BY <2>3, <2>4 DEF PeriodInv
<1>2. ASSUME NEW u \in Users, RevokeUser(t, u)
      PROVE  PeriodInv'
    <2>. DEFINE revoked == [row[u] EXCEPT !.status = "revoked"]
    <2>1. row' = [row EXCEPT ![u] = revoked]
          /\ copy' = copy /\ now' = now /\ at' = at
        BY <1>2 DEF RevokeUser, Rewrite
    <2>2. revoked.period = row[u].period
        BY <1>0 DEF Rows
    <2>. HIDE DEF revoked
    <2>3. \A v \in Users : Begun(row'[v], now)
        BY <1>0, <2>1, <2>2 DEF PeriodInv, Begun
    <2>. QED  BY <2>1, <2>3 DEF PeriodInv
<1>3. ASSUME NEW u \in Users, DeleteUser(t, u)
      PROVE  PeriodInv'
    <2>1. row' = [row EXCEPT ![u] = Blank]
          /\ copy' = copy /\ now' = now /\ at' = at
        BY <1>3 DEF DeleteUser
    <2>2. \A v \in Users : Begun(row'[v], now)
        BY <1>0, <2>1, BlankBegun DEF PeriodInv
    <2>. QED  BY <2>1, <2>2 DEF PeriodInv
<1>4. ASSUME NEW u \in Users, PatchRead(t, u)
      PROVE  PeriodInv'
    <2>1. copy' = [copy EXCEPT ![t] = row[u]]
          /\ row' = row /\ now' = now /\ at' = at
        BY <1>4 DEF PatchRead
    <2>2. \A s \in Requests : Begun(copy'[s], now)
        BY <1>0, <2>1 DEF PeriodInv
    <2>. QED  BY <2>1, <2>2 DEF PeriodInv
<1>5. ASSUME NEW some \in SUBSET Nodes, ApplyNodes(t, some)
      PROVE  PeriodInv'
    <2>1. ClockOnly
        BY <1>5 DEF ApplyNodes, ClockOnly
    <2>. QED  BY <2>1, ClockPeriod
<1>. QED  BY <1>1, <1>2, <1>3, <1>4, <1>5 DEF RequestStep

LEMMA PatchPeriod ==
    ASSUME TypeOK, Serving, PeriodInv, NEW t \in Requests, PatchStep(t)
    PROVE  PeriodInv'
<1>0. /\ t \in Threads /\ now \in Nat /\ row \in [Users -> Rows]
      /\ copy \in [Requests -> Rows]
    BY DEF Threads, TypeOK
<1>1. CASE PatchFails(t)
    <2>1. copy' = [copy EXCEPT ![t] = Blank]
          /\ row' = row /\ now' = now /\ at' = at
        BY <1>1 DEF PatchFails
    <2>2. \A s \in Requests : Begun(copy'[s], now)
        BY <1>0, <2>1, BlankBegun DEF PeriodInv
    <2>. QED  BY <2>1, <2>2 DEF PeriodInv
<1>2. ASSUME NEW p \in Patches, PatchWrite(t, p)
      PROVE  PeriodInv'
    <2>1. copy' = [copy EXCEPT ![t] = Blank] /\ now' = now /\ at' = at
        BY <1>2 DEF PatchWrite
    <2>2. \A s \in Requests : Begun(copy'[s], now)
        BY <1>0, <2>1, BlankBegun DEF PeriodInv
    <2>3. CASE ~Live(who[t])
        <3>1. row' = row
            BY <1>2, <2>3 DEF PatchWrite
        <3>. QED  BY <2>1, <2>2, <3>1 DEF PeriodInv
    <2>4. CASE Live(who[t])
        <3>1. row' = [row EXCEPT ![who[t]] = Patched(copy[t], p)]
            BY <1>2, <2>4 DEF PatchWrite, Rewrite
        <3>2. Begun(Patched(copy[t], p), now)
            <4>1. PeriodStart(p["reset"], now) <= now
                BY <1>0, PeriodStartsBefore
            <4>2. Patched(copy[t], p).period \in
                      {copy[t].period, Never, PeriodStart(p["reset"], now)}
                BY DEF Patched
            <4>. QED  BY <4>1, <4>2 DEF PeriodInv, Begun
        <3>. HIDE DEF Patched
        <3>3. \A v \in Users : Begun(row'[v], now)
            BY <1>0, <3>1, <3>2 DEF PeriodInv
        <3>. QED  BY <2>1, <2>2, <3>3 DEF PeriodInv
    <2>. QED  BY <2>3, <2>4
<1>. QED  BY <1>1, <1>2 DEF PatchStep

LEMMA SweepPeriod ==
    ASSUME TypeOK, PeriodInv, SweepStep
    PROVE  PeriodInv'
<1>0. /\ Sweeper \in Threads /\ now \in Nat /\ row \in [Users -> Rows]
      /\ at \in [Threads -> Nat]
    BY DEF Threads, TypeOK
<1>1. CASE SweepList
    <2>1. ClockOnly
        BY <1>0, <1>1 DEF SweepList, ClockOnly
    <2>. QED  BY <2>1, ClockPeriod
<1>2. CASE SweepClock
    <2>1. ClockOnly
        BY <1>0, <1>2 DEF SweepClock, ClockOnly
    <2>. QED  BY <2>1, ClockPeriod
<1>3. CASE SweepSwap
    <2>1. ClockOnly
        BY <1>0, <1>3 DEF SweepSwap, ClockOnly
    <2>. QED  BY <2>1, ClockPeriod
<1>4. ASSUME NEW u \in Users, SweepReset(u)
      PROVE  PeriodInv'
    <2>. DEFINE start == PeriodStart(listed[u].reset, at[Sweeper])
                once == [[row[u] EXCEPT !.used = 0] EXCEPT !.period = start]
                adopted == [row[u] EXCEPT !.period = start]
    <2>1. copy' = copy /\ now' = now /\ at' = at
        BY <1>4 DEF SweepReset
    <2>2. row' = row \/ row' = [row EXCEPT ![u] = once]
          \/ row' = [row EXCEPT ![u] = adopted]
        BY <1>4 DEF SweepReset, Rewrite
    <2>3. Begun(once, now) /\ Begun(adopted, now)
        <3>1. at[Sweeper] \in Int /\ at[Sweeper] <= now /\ row[u] \in Rows
            BY <1>0 DEF PeriodInv
        <3>2. [row[u] EXCEPT !.used = 0] \in Rows
            BY <3>1, UsedRow
        <3>3. \A r \in Rows : Begun([r EXCEPT !.period = start], now)
            BY <1>0, <3>1, StartBegun
        <3>. HIDE DEF start
        <3>. QED  BY <3>1, <3>2, <3>3
    <2>. HIDE DEF once, adopted
    <2>4. \A v \in Users : Begun(row'[v], now)
        BY <1>0, <2>2, <2>3 DEF PeriodInv
    <2>. QED  BY <2>1, <2>4 DEF PeriodInv
<1>. QED  BY <1>1, <1>3, <1>4, <1>2 DEF SweepStep

LEMMA CollectPeriod ==
    ASSUME TypeOK, Serving, PeriodInv, CollectStep
    PROVE  PeriodInv'
<1>0. Collector \in Threads /\ now \in Nat /\ row \in [Users -> Rows]
    BY DEF Threads, TypeOK
<1>1. ASSUME CollectBegin \/ CollectEnd \/ \E u \in Users : CollectRead(u)
      PROVE  PeriodInv'
    <2>1. ClockOnly
        BY <1>0, <1>1 DEF CollectBegin, CollectEnd, CollectRead, ClockOnly
    <2>. QED  BY <2>1, ClockPeriod
<1>2. CASE CollectCredit
    <2>. DEFINE u == who[Collector]
                after == [row[u] EXCEPT !.used = @ + 1]
    <2>1. copy' = copy /\ now' = now /\ at' = at
        BY <1>2 DEF CollectCredit
    <2>2. u \in Users
        BY <1>0, <1>2 DEF Serving, CollectCredit
    <2>3. row' = row \/ row' = [row EXCEPT ![u] = after]
        BY <1>2 DEF CollectCredit
    <2>4. after.period = row[u].period
        BY <1>0, <2>2 DEF Rows
    <2>. HIDE DEF after
    <2>5. \A v \in Users : Begun(row'[v], now)
        BY <1>0, <2>2, <2>3, <2>4 DEF PeriodInv, Begun
    <2>. QED  BY <2>1, <2>5 DEF PeriodInv
<1>. QED  BY <1>1, <1>2 DEF CollectStep

LEMMA NextPeriod ==
    ASSUME TypeOK, Serving, PeriodInv, [Next]_vars
    PROVE  PeriodInv'
<1>0. /\ now \in Nat /\ row \in [Users -> Rows] /\ copy \in [Requests -> Rows]
      /\ at \in [Threads -> Nat]
    BY DEF TypeOK
<1>1. CASE Tick
    <2>1. row' = row /\ copy' = copy /\ at' = at /\ now' = now + 1
        BY <1>1 DEF Tick
    <2>2. ASSUME NEW r \in Rows, Begun(r, now)
          PROVE  Begun(r, now + 1)
        BY <1>0, <2>2 DEF Begun, Rows, Instants
    <2>3. \A t \in Threads : at[t] <= now + 1
        BY <1>0 DEF PeriodInv
    <2>. QED  BY <1>0, <2>1, <2>2, <2>3 DEF PeriodInv
<1>2. ASSUME NEW t \in Threads, ApplyStep(t)
      PROVE  PeriodInv'
    <2>1. ClockOnly
        BY <1>2 DEF ApplyStep, NextGroup, ReadGroup, Lock, PutOk, Return,
                    EndGroup, EndApply, ClockOnly
    <2>. QED  BY <2>1, ClockPeriod
<1>3. ASSUME NEW t \in Requests, RequestStep(t) \/ PatchStep(t)
      PROVE  PeriodInv'
    BY <1>3, RequestPeriod, PatchPeriod
<1>4. ASSUME NEW n \in Nodes, AgentStep(n)
      PROVE  PeriodInv'
    <2>1. ClockOnly
        BY <1>4 DEF AgentStep, LateApplied, LateDropped, ClockOnly
    <2>. QED  BY <2>1, ClockPeriod
<1>5. CASE FaultStep
    <2>1. ClockOnly
        BY <1>5 DEF FaultStep, NextGroupFails, NextNodeFails, ReadFails,
                    PutRefused, PutTimesOut, PutPartial, PutUnsaved, Return,
                    SweepResetFails, CollectReadFails, CollectCreditFails,
                    ClockOnly
    <2>. QED  BY <2>1, ClockPeriod
<1>6. CASE RestartPlane
    <2>1. /\ row' = row /\ now' = now
          /\ copy' = [t \in Requests |-> Blank]
          /\ at' = [t \in Threads |-> 0]
        BY <1>6 DEF RestartPlane
    <2>. QED  BY <1>0, <2>1, BlankBegun DEF PeriodInv
<1>7. CASE UNCHANGED vars
    BY <1>7 DEF vars, PeriodInv, Begun
<1>. QED  BY <1>1, <1>2, <1>3, <1>4, <1>5, <1>6, <1>7, SweepPeriod,
             CollectPeriod DEF Next

\* On a database whose periods have begun no interleaving of requests, sweeps,
\* failures and restarts stores a period that has not (createUser, patchUser,
\* ResetQuotaPeriod).
THEOREM PeriodsBegun ==
    ASSUME \A r \in NewRows : r.period = Never \/ r.period <= 0
    PROVE  Spec => []PeriodBegun
<1>1. Init => PeriodInv
    <2>. SUFFICES ASSUME Init
                  PROVE  PeriodInv
        OBVIOUS
    <2>1. now = 0 /\ row \in [Users -> NewRows \cup {Blank}]
          /\ copy = [t \in Requests |-> Blank] /\ at = [t \in Threads |-> 0]
        BY DEF Init
    <2>2. \A r \in NewRows \cup {Blank} : Begun(r, 0)
        BY BlankBegun DEF Begun
    <2>. QED  BY <2>1, <2>2 DEF PeriodInv
<1>2. TypeOK /\ Shape /\ PeriodInv /\ [Next]_vars => PeriodInv'
    BY NextPeriod DEF Shape
<1>3. PeriodInv => PeriodBegun
    BY DEF PeriodInv, Begun, PeriodBegun
<1>. QED  BY <1>1, <1>2, <1>3, ShapeHolds, PTL DEF Spec

-----------------------------------------------------------------------------
(* No kick is forgotten but where the plane takes an apply for done        *)

\* Time and traffic only take entitlement away.
LEMMA EntitledMono ==
    ASSUME NEW r \in Rows, NEW a \in Nat, NEW b \in Nat, a <= b, Entitled(r, b)
    PROVE  Entitled(r, a)
<1>1. r.expire \in Instants
    BY DEF Rows
<1>. QED  BY <1>1, TimeAssumption DEF Entitled, Instants

LEMMA UsedMono ==
    ASSUME NEW r \in Rows, NEW k \in Nat, r.used <= k, NEW a \in Nat,
           Entitled([r EXCEPT !.used = k], a)
    PROVE  Entitled(r, a)
<1>1. /\ r.used \in Nat /\ r.total \in Nat
      /\ [r EXCEPT !.used = k].used = k
      /\ [r EXCEPT !.used = k].status = r.status
      /\ [r EXCEPT !.used = k].expire = r.expire
      /\ [r EXCEPT !.used = k].total = r.total
    BY DEF Rows
<1>. HIDE DEF Rows
<1>. QED  BY <1>1 DEF Entitled

LEMMA ZeroedMono ==
    ASSUME NEW r \in Rows, NEW a \in Nat, Entitled(r, a)
    PROVE  Entitled(Zeroed(r), a)
<1>1. /\ r.used \in Nat /\ r.total \in Nat
      /\ Zeroed(r).used = 0
      /\ Zeroed(r).status = r.status
      /\ Zeroed(r).expire = r.expire
      /\ Zeroed(r).total = r.total
    BY DEF Rows, Zeroed
<1>. HIDE DEF Rows
<1>. QED  BY <1>1 DEF Entitled

\* Only who is in applyGroupNodes has a group, or an apply that failed.
Grouped == \A t \in Threads :
               grp[t] # None \/ failed[t] => pc[t] \in {"nodes", "read"}

\* A user that the sweep has, or will have, recorded as out is out, unless it
\* was let in again behind its back.
OutStays ==
    \A u \in Users :
        Live(u) /\ u \notin blind /\ RecordedOut(u) => ~Entitled(row[u], now)

\* Thread t is about to send u to node n.
WillSend(t, u, n) ==
    /\ node[t] = n /\ pc[t] = "read"
    /\ \/ u \in push[t]
       \/ GroupOf[u] \in gleft[t] /\ Entitled(row[u], at[t])

Threat(u, n) == Held(u, n) \/ \E t \in Threads : WillSend(t, u, n)

\* Thread t will drop u from n, or leave a mark that it did not.
WillKick(t, u, n) ==
    \/ todo[t] \cap Serves[n] # {}
    \/ /\ grp[t] \in Serves[n]
       /\ \/ n \in left[t]
          \/ failed[t]
          \/ /\ node[t] = n /\ pc[t] = "read" /\ u \notin push[t]
             /\ GroupOf[u] \in gleft[t] => ~Entitled(row[u], at[t])

\* A mark that nobody can clear without being noticed.
Marked(n) == \E g \in pending \cap Serves[n] :
                 \A t \in Threads : grp[t] = g => t \in crossed

Backed(u, n) == \/ ent[u] # "no" \/ Marked(n)
                \/ \E t \in Threads : WillKick(t, u, n)

\* Not only a user that is in, but one that is about to be let in, is owed a
\* kick when it is not entitled; and a mark counts only while no thread that
\* may have been at the node already takes it for its own.
KickDue ==
    \A u \in Users, n \in Nodes :
        /\ Live(u) /\ ~Entitled(row[u], now) /\ u \notin blind
        /\ n \notin forgotten /\ Threat(u, n)
        => Backed(u, n)

KickInv == TypeOK /\ Shape /\ Grouped /\ OutStays /\ KickDue

LEMMA BackedOwed ==
    ASSUME NEW u \in Users, NEW n \in Nodes, Backed(u, n) PROVE Owed(u, n)
BY DEF Backed, Marked, Owed, WillKick, WillDrop

LEMMA InitKick == Init => KickInv
<1>. SUFFICES ASSUME Init PROVE KickInv
    OBVIOUS
<1>1. TypeOK /\ Shape
    BY InitType, InitShape
<1>2. Grouped
    BY DEF Init, Grouped
<1>3. OutStays
    BY PlaneAssumption DEF Init, OutStays, RecordedOut, Threads
<1>4. KickDue
    BY DEF Init, KickDue, Backed
<1>. QED  BY <1>1, <1>2, <1>3, <1>4 DEF KickInv

LEMMA RewriteWorse ==
    ASSUME TypeOK, NEW u \in Users, NEW r \in Rows, Rewrite(u, r)
    PROVE  /\ \A v \in Users \ {u} : row'[v] = row[v]
           /\ blind \subseteq blind'
           /\ \A v \in Users : RecordedOut(v) /\ v \notin blind' =>
                  \A a \in Nat : Entitled(row'[v], a) => Entitled(row[v], a)
<1>1. row' = [row EXCEPT ![u] = r] /\ blind \subseteq blind'
    BY DEF Rewrite
<1>2. \A v \in Users \ {u} : row'[v] = row[v]
    BY <1>1 DEF TypeOK
<1>3. ASSUME RecordedOut(u), u \notin blind', NEW a \in Nat, Entitled(row'[u], a)
      PROVE  FALSE
    <2>1. ~Entitled(r, 0)
        BY <1>3 DEF Rewrite, TypeOK
    <2>2. row'[u] = r
        BY <1>1 DEF TypeOK
    <2>. QED  BY <1>3, <2>1, <2>2, EntitledMono
<1>. QED  BY <1>1, <1>2, <1>3

\* Rows only get worse for users the sweep has recorded as out.
Worse ==
    /\ now <= now'
    /\ blind \subseteq blind'
    /\ \A v \in Users :
           /\ Live(v)' /\ ent[v] # "unseen" => Live(v)
           /\ Live(v)' /\ v \in slist => Live(v)
           /\ Live(v)' /\ RecordedOut(v) /\ v \notin blind' =>
                  \A a \in Nat : Entitled(row'[v], a) => Entitled(row[v], a)

\* The sweep and what it knows stay as they are.
SweepRests ==
    /\ UNCHANGED <<ent, slist, listed, sleft>>
    /\ pc'[Sweeper] = "reset" =>
           pc[Sweeper] = "reset" /\ at'[Sweeper] = at[Sweeper]

LEMMA OutStep ==
    ASSUME TypeOK, TypeOK', OutStays, Worse,
           \A v \in Users : Live(v)' /\ RecordedOut(v)' => RecordedOut(v)
    PROVE  OutStays'
<1>. SUFFICES ASSUME NEW v \in Users, Live(v)', v \notin blind',
                     RecordedOut(v)', Entitled(row'[v], now')
              PROVE  FALSE
    BY DEF OutStays
<1>1. RecordedOut(v)
    OBVIOUS
<1>2. Live(v) /\ v \notin blind
    BY <1>1 DEF Worse, RecordedOut
<1>3. Entitled(row[v], now')
    BY <1>1 DEF Worse, TypeOK
<1>4. Entitled(row[v], now)
    BY <1>3, EntitledMono DEF Worse, TypeOK
<1>. QED  BY <1>1, <1>2, <1>4 DEF OutStays

LEMMA SweepRestsOut ==
    ASSUME SweepRests
    PROVE  \A v \in Users : RecordedOut(v)' => RecordedOut(v)
BY DEF SweepRests, RecordedOut, SweepSays, Entitled, Zeroed

\* Steps that change no thread's part in an apply but may write rows.
LEMMA RowStep ==
    ASSUME TypeOK, TypeOK', OutStays, KickDue, Worse,
           UNCHANGED <<pending, ent, agents, grp, left, failed, node, gleft, push,
                       crossed, forgotten>>,
           \A t \in Threads : /\ pc[t] = "read" <=> pc'[t] = "read"
                              /\ pc[t] = "read" => at'[t] = at[t]
                              /\ todo[t] \subseteq todo'[t]
    PROVE  KickDue'
<1>. SUFFICES ASSUME NEW u \in Users, NEW n \in Nodes, Live(u)',
                     ~Entitled(row'[u], now'), u \notin blind', n \notin forgotten,
                     Threat(u, n)'
              PROVE  Backed(u, n)'
    BY DEF KickDue
<1>1. CASE ent[u] # "no"
    BY <1>1 DEF Backed
<1>2. CASE ent[u] = "no"
    <2>1. /\ Live(u) /\ RecordedOut(u) /\ u \notin blind
          /\ \A a \in Nat : Entitled(row'[u], a) => Entitled(row[u], a)
        BY <1>2 DEF Worse, RecordedOut
    <2>2. ~Entitled(row[u], now)
        BY <2>1 DEF OutStays
    <2>3. Threat(u, n)
        <3>1. Held(u, n)' => Held(u, n)
            BY DEF Held
        <3>2. ASSUME NEW t \in Threads, WillSend(t, u, n)'
              PROVE  WillSend(t, u, n)
            <4>1. /\ node[t] = n /\ pc[t] = "read" /\ at'[t] = at[t]
                  /\ \/ u \in push[t]
                     \/ GroupOf[u] \in gleft[t] /\ Entitled(row'[u], at[t])
                BY <3>2 DEF WillSend
            <4>2. at[t] \in Nat
                BY DEF TypeOK
            <4>. QED  BY <2>1, <4>1, <4>2 DEF WillSend
        <3>. QED  BY <3>1, <3>2 DEF Threat
    <2>4. Marked(n) \/ \E t \in Threads : WillKick(t, u, n)
        BY <1>2, <2>1, <2>2, <2>3 DEF KickDue, Backed
    <2>5. Marked(n) => Marked(n)'
        BY DEF Marked
    <2>6. ASSUME NEW t \in Threads, WillKick(t, u, n)
          PROVE  WillKick(t, u, n)'
        <3>1. CASE todo[t] \cap Serves[n] # {}
                   \/ (grp[t] \in Serves[n] /\ (n \in left[t] \/ failed[t]))
            BY <3>1 DEF WillKick
        <3>2. CASE /\ grp[t] \in Serves[n]
                   /\ node[t] = n /\ pc[t] = "read" /\ u \notin push[t]
                   /\ GroupOf[u] \in gleft[t] => ~Entitled(row[u], at[t])
            <4>1. at[t] \in Nat /\ at'[t] = at[t]
                BY <3>2 DEF TypeOK
            <4>2. ~Entitled(row[u], at[t]) => ~Entitled(row'[u], at'[t])
                BY <2>1, <4>1
            <4>. QED  BY <3>2, <4>2 DEF WillKick
        <3>. QED  BY <2>6, <3>1, <3>2 DEF WillKick
    <2>. QED  BY <2>4, <2>5, <2>6 DEF Backed
<1>. QED  BY <1>1, <1>2

LEMMA TickKick ==
    ASSUME KickInv, TypeOK', Tick
    PROVE  OutStays' /\ KickDue'
<1>. USE DEF KickInv
<1>1. /\ UNCHANGED <<table, memory, agents, pc, todo, grouping, applying,
                     others, history>>
      /\ now <= now'
    BY DEF Tick, TypeOK
<1>2. Worse /\ SweepRests
    BY <1>1 DEF Worse, SweepRests
<1>3. OutStays'
    BY <1>2, OutStep, SweepRestsOut
<1>4. KickDue'
    BY <1>1, <1>2, RowStep
<1>. QED  BY <1>3, <1>4

\* The same for one thread outside of applyStoredNode.
LEMMA RowKick ==
    ASSUME KickInv, TypeOK', Worse,
           NEW t \in Threads, pc[t] # "read", pc'[t] # "read",
           todo[t] \subseteq todo'[t],
           \A s \in Threads \ {t} : /\ pc'[s] = pc[s] /\ todo'[s] = todo[s]
                                    /\ at'[s] = at[s],
           UNCHANGED <<memory, agents, grp, left, failed, node, gleft, push,
                       crossed, forgotten>>,
           \A v \in Users : Live(v)' /\ RecordedOut(v)' => RecordedOut(v)
    PROVE  OutStays' /\ KickDue'
<1>. USE DEF KickInv
<1>1. OutStays'
    BY OutStep
<1>2. KickDue'
    BY RowStep
<1>. QED  BY <1>1, <1>2

\* Requests and the collector do not touch what the sweep knows.
LEMMA OthersRest ==
    ASSUME TypeOK, NEW t \in Threads \ {Sweeper},
           \A s \in Threads \ {t} : pc'[s] = pc[s] /\ at'[s] = at[s],
           UNCHANGED <<ent, slist, listed, sleft>>
    PROVE  \A v \in Users : Live(v)' /\ RecordedOut(v)' => RecordedOut(v)
<1>1. SweepRests
    BY DEF SweepRests, Threads
<1>. QED  BY <1>1, SweepRestsOut

LEMMA RequestKick ==
    ASSUME KickInv, TypeOK', NEW t \in Requests,
           \E u \in Users : \/ \E r \in NewRows : CreateUser(t, u, r)
                            \/ RevokeUser(t, u) \/ DeleteUser(t, u)
                            \/ PatchRead(t, u)
    PROVE  OutStays' /\ KickDue'
<1>. USE DEF KickInv
<1>1. /\ t \in Threads \ {Sweeper} /\ pc[t] = "idle" /\ todo[t] = {}
    BY PlaneAssumption DEF Threads, Shape, Queued, CreateUser, RevokeUser,
                           DeleteUser, PatchRead, Request
<1>2. /\ pc'[t] # "read"
      /\ \A s \in Threads \ {t} : pc'[s] = pc[s] /\ todo'[s] = todo[s]
      /\ UNCHANGED <<now, memory, agents, grouping, applying, slist, listed, sleft,
                     excuses>>
    BY <1>1, SMTT(30) DEF CreateUser, RevokeUser, DeleteUser, PatchRead, Request, ThenApply,
                TypeOK
<1>3. Worse
    <2>1. ASSUME NEW u \in Users, NEW r \in NewRows, CreateUser(t, u, r)
          PROVE  Worse
        <3>1. ent[u] = "unseen" /\ u \notin slist
            BY <2>1 DEF CreateUser, Shape, Unseen, Born
        <3>2. \A v \in Users \ {u} : life'[v] = life[v] /\ row'[v] = row[v]
            BY <2>1 DEF CreateUser, TypeOK
        <3>. QED  BY <1>2, <2>1, <3>1, <3>2
                  DEF Worse, RecordedOut, CreateUser, TypeOK
    <2>2. ASSUME NEW u \in Users, RevokeUser(t, u)
          PROVE  Worse
        <3>1. row[u] \in Rows
            BY DEF TypeOK
        <3>2. [row[u] EXCEPT !.status = "revoked"] \in Rows
            BY <3>1 DEF Rows, Statuses
        <3>3. UNCHANGED life /\ now <= now'
            BY <1>2, <2>2 DEF RevokeUser, TypeOK
        <3>. QED  BY <2>2, <3>2, <3>3, RewriteWorse DEF Worse, RevokeUser
    <2>3. ASSUME NEW u \in Users, DeleteUser(t, u)
          PROVE  Worse
        <3>1. /\ life'[u] = "gone"
              /\ \A v \in Users \ {u} : life'[v] = life[v] /\ row'[v] = row[v]
            BY <2>3 DEF DeleteUser, TypeOK
        <3>. QED  BY <1>2, <2>3, <3>1 DEF Worse, DeleteUser, TypeOK
    <2>4. ASSUME NEW u \in Users, PatchRead(t, u)
          PROVE  Worse
        BY <1>2, <2>4 DEF Worse, PatchRead, TypeOK
    <2>. QED  BY <2>1, <2>2, <2>3, <2>4
<1>. QED  BY <1>1, <1>2, <1>3, RowKick, OthersRest

LEMMA PatchKick ==
    ASSUME KickInv, TypeOK', NEW t \in Requests, PatchStep(t)
    PROVE  OutStays' /\ KickDue'
<1>. USE DEF KickInv
<1>1. /\ t \in Threads \ {Sweeper} /\ pc[t] = "patch" /\ todo[t] = {}
    BY PlaneAssumption DEF Threads, Shape, Queued, PatchStep, PatchFails, PatchWrite
<1>2. /\ pc'[t] # "read"
      /\ \A s \in Threads \ {t} : pc'[s] = pc[s] /\ todo'[s] = todo[s]
      /\ UNCHANGED <<now, life, memory, agents, grouping, applying, slist, listed,
                     sleft, crossed, forgotten>>
    BY <1>1 DEF PatchStep, PatchFails, PatchWrite, ThenApply, TypeOK
<1>3. Worse
    <2>1. now <= now' /\ UNCHANGED life
        BY <1>2 DEF TypeOK
    <2>2. CASE UNCHANGED <<row, blind>>
        BY <2>1, <2>2 DEF Worse
    <2>3. ASSUME NEW p \in Patches, Rewrite(who[t], Patched(copy[t], p))
          PROVE  Worse
        <3>1. who[t] \in Users /\ Patched(copy[t], p) \in Rows
            BY <1>1, PatchedRow DEF Shape, Serving, TypeOK
        <3>. QED  BY <2>1, <2>3, <3>1, RewriteWorse DEF Worse
    <2>. QED  BY <2>2, <2>3 DEF PatchStep, PatchFails, PatchWrite
<1>. QED  BY <1>1, <1>2, <1>3, RowKick, OthersRest

LEMMA CollectKick ==
    ASSUME KickInv, TypeOK', CollectStep
    PROVE  OutStays' /\ KickDue'
<1>. USE DEF KickInv
<1>1. /\ Collector \in Threads \ {Sweeper}
      /\ pc[Collector] \in {"idle", "collect", "credit"}
    BY PlaneAssumption DEF Threads, CollectStep, CollectBegin, CollectRead,
                           CollectCredit, CollectEnd
<1>2. /\ pc'[Collector] # "read" /\ todo[Collector] \subseteq todo'[Collector]
      /\ \A s \in Threads \ {Collector} : /\ pc'[s] = pc[s] /\ todo'[s] = todo[s]
                                          /\ at'[s] = at[s]
    BY <1>1 DEF CollectStep, CollectBegin, CollectRead, CollectCredit,
                CollectEnd, TypeOK
<1>3. UNCHANGED <<now, life, memory, agents, grouping, node, gleft, push, slist,
                  listed, sleft, history>>
    BY DEF CollectStep, CollectBegin, CollectRead, CollectCredit, CollectEnd
<1>4. Worse
    <2>1. now <= now' /\ UNCHANGED <<life, blind>>
        BY <1>3 DEF TypeOK
    <2>2. CASE UNCHANGED row
        BY <2>1, <2>2 DEF Worse
    <2>3. ASSUME NEW u \in Users, row' = [row EXCEPT ![u] =
                                           [row[u] EXCEPT !.used = @ + 1]]
          PROVE  Worse
        <3>1. /\ row[u] \in Rows /\ row[u].used \in Nat
              /\ row[u].used <= row[u].used + 1 /\ row[u].used + 1 \in Nat
            BY UsedNat DEF TypeOK
        <3>2. row'[u] = [row[u] EXCEPT !.used = row[u].used + 1]
            BY <2>3 DEF TypeOK
        <3>3. \A a \in Nat : Entitled(row'[u], a) => Entitled(row[u], a)
            BY <3>1, <3>2, UsedMono
        <3>4. \A v \in Users \ {u} : row'[v] = row[v]
            BY <2>3 DEF TypeOK
        <3>. QED  BY <2>1, <3>3, <3>4 DEF Worse
    <2>4. UNCHANGED row \/ \E u \in Users :
              row' = [row EXCEPT ![u] = [row[u] EXCEPT !.used = @ + 1]]
        <3>1. CASE CollectCredit
            BY <1>1, <3>1 DEF CollectCredit, Shape, Serving
        <3>2. CASE ~CollectCredit
            BY <3>2 DEF CollectStep, CollectBegin, CollectRead, CollectEnd
        <3>. QED  BY <3>1, <3>2
    <2>. QED  BY <2>2, <2>3, <2>4
<1>. QED  BY <1>1, <1>2, <1>3, <1>4, RowKick, OthersRest

\* A step of an apply: it makes no threat, and what backs the kick still does,
\* or the threat is gone.
LEMMA ApplyKick ==
    ASSUME KickInv, TypeOK',
           UNCHANGED <<now, table, ent, blind, slist, listed, sleft>>,
           pc'[Sweeper] = "reset" =>
               pc[Sweeper] = "reset" /\ at'[Sweeper] = at[Sweeper],
           \A u \in Users, n \in Nodes :
               ~Entitled(row[u], now) /\ Threat(u, n)' => Threat(u, n),
           \A n \in Nodes : n \in forgotten \/ Marked(n) =>
               n \in forgotten' \/ Marked(n)' \/ \A u \in Users : Backed(u, n)',
           \A u \in Users, n \in Nodes, t \in Threads :
               ~Entitled(row[u], now) /\ Threat(u, n)' /\ WillKick(t, u, n)
                   => Backed(u, n)' \/ n \in forgotten'
    PROVE  OutStays' /\ KickDue'
<1>. USE DEF KickInv
<1>1. OutStays'
    <2>1. Worse /\ SweepRests
        BY DEF Worse, SweepRests, TypeOK
    <2>. QED  BY <2>1, OutStep, SweepRestsOut
<1>2. KickDue'
    <2>. SUFFICES ASSUME NEW u \in Users, NEW n \in Nodes, Live(u)',
                         ~Entitled(row'[u], now'), u \notin blind',
                         n \notin forgotten', Threat(u, n)'
                  PROVE  Backed(u, n)'
        BY DEF KickDue
    <2>1. ~Entitled(row[u], now) /\ Threat(u, n)
        OBVIOUS
    <2>2. n \in forgotten \/ Backed(u, n)
        BY <2>1 DEF KickDue
    <2>3. CASE ent[u] # "no"
        BY <2>3 DEF Backed
    <2>4. CASE n \in forgotten \/ Marked(n)
        BY <2>4 DEF Backed
    <2>5. ASSUME NEW t \in Threads, WillKick(t, u, n)
          PROVE  Backed(u, n)'
        BY <2>1, <2>5
    <2>. QED  BY <2>2, <2>3, <2>4, <2>5 DEF Backed
<1>. QED  BY <1>1, <1>2

\* A thread other than t does not see the step of t.
Aside(t) == \A s \in Threads \ {t} :
                /\ pc'[s] = pc[s] /\ todo'[s] = todo[s] /\ grp'[s] = grp[s]
                /\ left'[s] = left[s] /\ failed'[s] = failed[s]
                /\ node'[s] = node[s] /\ at'[s] = at[s]
                /\ gleft'[s] = gleft[s] /\ push'[s] = push[s]

LEMMA AsideKick ==
    ASSUME NEW t \in Threads, Aside(t), UNCHANGED row,
           NEW u \in Users, NEW n \in Nodes, NEW s \in Threads \ {t}
    PROVE  /\ WillSend(s, u, n)' <=> WillSend(s, u, n)
           /\ WillKick(s, u, n)' <=> WillKick(s, u, n)
<1>1. Entitled(row[u], at[s])' = Entitled(row[u], at[s])
    BY DEF Aside, Entitled
<1>. QED  BY <1>1 DEF Aside, WillSend, WillKick

\* The same for one thread, whose own part is what has to be shown.
LEMMA OneKick ==
    ASSUME KickInv, TypeOK', NEW t \in Threads, Aside(t),
           UNCHANGED <<now, table, ent, blind, slist, listed, sleft>>,
           pc[t] # "reset", pc'[t] # "reset",
           \A u \in Users, n \in Nodes :
               ~Entitled(row[u], now) /\ Threat(u, n)' => Threat(u, n),
           \A n \in Nodes : n \in forgotten \/ Marked(n) =>
               \/ n \in forgotten' \/ Marked(n)'
               \/ \A u \in Users : WillKick(t, u, n)',
           \A u \in Users, n \in Nodes :
               ~Entitled(row[u], now) /\ Threat(u, n)' /\ WillKick(t, u, n)
                   => WillKick(t, u, n)' \/ Marked(n)' \/ n \in forgotten'
    PROVE  OutStays' /\ KickDue'
<1>1. pc'[Sweeper] = "reset" => pc[Sweeper] = "reset" /\ at'[Sweeper] = at[Sweeper]
    BY DEF Aside, Threads
<1>2. ASSUME NEW n \in Nodes, n \in forgotten \/ Marked(n)
      PROVE  n \in forgotten' \/ Marked(n)' \/ \A u \in Users : Backed(u, n)'
    BY <1>2 DEF Backed
<1>3. ASSUME NEW u \in Users, NEW n \in Nodes, NEW s \in Threads,
             ~Entitled(row[u], now), Threat(u, n)', WillKick(s, u, n)
      PROVE  Backed(u, n)' \/ n \in forgotten'
    <2>1. CASE s # t
        BY <1>3, <2>1, AsideKick DEF Backed
    <2>2. CASE s = t
        BY <1>3, <2>2 DEF Backed
    <2>. QED  BY <2>1, <2>2
<1>. QED  BY <1>1, <1>2, <1>3, ApplyKick

\* Thread t has the apply of node n for a group of n before it, or has failed it.
WillApply(t, n) == \/ todo[t] \cap Serves[n] # {}
                   \/ grp[t] \in Serves[n] /\ (n \in left[t] \/ failed[t])

\* A step of applyGroupNodes outside of applyStoredNode: a mark is kept, the
\* group applied or the loss noted, the apply of a node is kept or the group
\* marked, and what had been lost is made up for where it is no longer noted.
HandsOn(t) ==
    /\ Aside(t)
    /\ UNCHANGED <<now, table, ent, agents, blind, slist, listed, sleft>>
    /\ pc[t] \notin {"read", "listed", "reset"}
    /\ pc'[t] \notin {"read", "listed", "reset"}
    /\ \A n \in Nodes : n \in forgotten \/ Marked(n) =>
           n \in forgotten' \/ Marked(n)' \/ WillApply(t, n)'
    /\ \A n \in Nodes : WillApply(t, n) => WillApply(t, n)' \/ Marked(n)'
    /\ \A u \in missed, n \in Nodes : GroupOf[u] \in Serves[n] =>
           u \in missed' \/ Marked(n)' \/ WillApply(t, n)'

\* A group that is taken keeps the promises of its mark: the nodes are left.
LEMMA NextGroupHands ==
    ASSUME TypeOK, Grouped, NEW t \in Threads, NEW h \in Groups, NextGroup(t, h)
    PROVE  HandsOn(t)
<1>1. /\ pc[t] = "groups" /\ pc'[t] = "nodes" /\ grp[t] = None
      /\ grp'[t] = h /\ left'[t] = NodesOf(h) /\ todo'[t] = todo[t] \ {h}
    BY DEF NextGroup, Grouped, TypeOK
<1>2. Aside(t)
    BY DEF Aside, NextGroup, TypeOK
<1>3. /\ UNCHANGED <<now, table, pending, ent, agents, blind, crossed, slist,
                     listed, sleft>>
      /\ Remember(h)
    BY DEF NextGroup
<1>4. ASSUME NEW n \in Nodes, h \in Serves[n]
      PROVE  WillApply(t, n)'
    BY <1>1, <1>4 DEF WillApply, NodesOf
<1>5. ASSUME NEW n \in Nodes, Marked(n)
      PROVE  Marked(n)' \/ WillApply(t, n)'
    <2>1. PICK g \in pending \cap Serves[n] :
              \A s \in Threads : grp[s] = g => s \in crossed
        BY <1>5 DEF Marked
    <2>2. CASE g = h
        BY <1>4, <2>1, <2>2
    <2>3. CASE g # h
        <3>1. \A s \in Threads : grp'[s] = g => s \in crossed'
            BY <1>1, <1>2, <1>3, <2>1, <2>3 DEF Aside
        <3>. QED  BY <1>3, <2>1, <3>1 DEF Marked
    <2>. QED  BY <2>2, <2>3
<1>6. ASSUME NEW n \in Nodes, WillApply(t, n)
      PROVE  WillApply(t, n)'
    <2>1. todo[t] \cap Serves[n] # {}
        BY <1>1, <1>6, PlaneAssumption DEF WillApply
    <2>. QED  BY <1>1, <1>4, <2>1 DEF WillApply
<1>7. ASSUME NEW n \in Nodes
      PROVE  /\ n \in forgotten => n \in forgotten' \/ WillApply(t, n)'
             /\ \A u \in missed : GroupOf[u] \in Serves[n] =>
                    u \in missed' \/ WillApply(t, n)'
    BY <1>3, <1>4 DEF Remember, NodesOf
<1>. QED  BY <1>1, <1>2, <1>3, <1>5, <1>6, <1>7 DEF HandsOn

\* markKick: the mark counts, whoever else applies the group; t itself has let
\* go of it.
LEMMA MarkMarks ==
    ASSUME TypeOK, NEW t \in Threads, NEW h \in Groups, Mark(t, h),
           grp'[t] = None, \A s \in Threads \ {t} : grp'[s] = grp[s]
    PROVE  /\ \A n \in Nodes : Marked(n) \/ h \in Serves[n] => Marked(n)'
           /\ \A n \in Nodes : n \in forgotten => n \in forgotten' \/ Marked(n)'
           /\ \A u \in missed, n \in Nodes : GroupOf[u] \in Serves[n] =>
                  u \in missed' \/ Marked(n)'
<1>1. /\ pending' = pending \cup {h}
      /\ crossed' = (crossed \cup {s \in Threads : grp[s] = h}) \ {t}
      /\ Remember(h)
    BY DEF Mark
<1>2. \A g \in Groups : g # None
    BY PlaneAssumption
<1>3. ASSUME NEW n \in Nodes, h \in Serves[n]
      PROVE  Marked(n)'
    <2>1. \A s \in Threads : grp'[s] = h => s \in crossed'
        BY <1>1, <1>2
    <2>. QED  BY <1>1, <1>3, <2>1 DEF Marked
<1>4. ASSUME NEW n \in Nodes, Marked(n)
      PROVE  Marked(n)'
    <2>1. PICK g \in pending \cap Serves[n] :
              \A s \in Threads : grp[s] = g => s \in crossed
        BY <1>4 DEF Marked
    <2>2. g # None
        BY <1>2, <2>1 DEF TypeOK
    <2>3. \A s \in Threads : grp'[s] = g => s \in crossed'
        BY <1>1, <2>1, <2>2
    <2>. QED  BY <1>1, <2>1, <2>3 DEF Marked
<1>. QED  BY <1>1, <1>3, <1>4 DEF Remember, NodesOf

\* A group that cannot be read is marked.
LEMMA NextGroupFailsHands ==
    ASSUME TypeOK, Grouped, NEW t \in Threads, NEW h \in Groups,
           NextGroupFails(t, h)
    PROVE  HandsOn(t)
<1>1. /\ pc[t] = "groups" /\ pc'[t] = "groups" /\ todo'[t] = todo[t] \ {h}
      /\ grp[t] = None /\ Mark(t, h)
    BY DEF NextGroupFails, Grouped, TypeOK
<1>2. Aside(t)
    BY DEF Aside, NextGroupFails, TypeOK
<1>3. UNCHANGED <<now, table, ent, agents, grp, blind, slist, listed, sleft>>
    BY DEF NextGroupFails, Mark
<1>4. /\ \A n \in Nodes : Marked(n) \/ h \in Serves[n] => Marked(n)'
      /\ \A n \in Nodes : n \in forgotten => n \in forgotten' \/ Marked(n)'
      /\ \A u \in missed, n \in Nodes : GroupOf[u] \in Serves[n] =>
             u \in missed' \/ Marked(n)'
    BY <1>1, <1>3, MarkMarks
<1>5. ASSUME NEW n \in Nodes, WillApply(t, n)
      PROVE  WillApply(t, n)' \/ Marked(n)'
    <2>1. todo[t] \cap Serves[n] # {}
        BY <1>1, <1>5, PlaneAssumption DEF WillApply
    <2>2. CASE h \in Serves[n]
        BY <1>4, <2>2
    <2>3. CASE h \notin Serves[n]
        BY <1>1, <2>1, <2>3 DEF WillApply
    <2>. QED  BY <2>2, <2>3
<1>. QED  BY <1>1, <1>2, <1>3, <1>4, <1>5 DEF HandsOn

\* A node that cannot be read makes the group fail.
LEMMA NextNodeFailsHands ==
    ASSUME TypeOK, NEW t \in Threads, NEW m \in Nodes, NextNodeFails(t, m)
    PROVE  HandsOn(t)
<1>1. pc[t] = "nodes" /\ pc'[t] = "nodes" /\ failed'[t] = TRUE
    BY DEF NextNodeFails, TypeOK
<1>2. Aside(t)
    BY DEF Aside, NextNodeFails, TypeOK
<1>3. UNCHANGED <<now, table, pending, ent, agents, todo, grp, history, slist,
                  listed, sleft>>
    BY DEF NextNodeFails
<1>4. \A n \in Nodes : WillApply(t, n) => WillApply(t, n)'
    BY <1>1, <1>3 DEF WillApply
<1>. QED  BY <1>1, <1>2, <1>3, <1>4 DEF HandsOn, Marked

\* An apply of some nodes promises nothing.
LEMMA ApplyNodesHands ==
    ASSUME TypeOK, Grouped, NEW t \in Requests, NEW some \in SUBSET Nodes,
           ApplyNodes(t, some)
    PROVE  HandsOn(t)
<1>1. t \in Threads /\ pc[t] = "idle" /\ pc'[t] = "nodes" /\ grp[t] = None
    BY DEF Threads, ApplyNodes, Request, Grouped, TypeOK
<1>2. Aside(t)
    BY <1>1 DEF Aside, ApplyNodes, TypeOK
<1>3. UNCHANGED <<now, table, pending, ent, agents, todo, grp, history, slist,
                  listed, sleft>>
    BY DEF ApplyNodes
<1>4. ASSUME NEW n \in Nodes, WillApply(t, n)
      PROVE  WillApply(t, n)'
    <2>1. None \notin Serves[n]
        BY PlaneAssumption
    <2>. QED  BY <1>1, <1>3, <1>4, <2>1 DEF WillApply
<1>. QED  BY <1>1, <1>2, <1>3, <1>4 DEF HandsOn, Marked

\* A group that failed is marked.  One that succeeded promises nothing any more;
\* if it takes the mark of another thread away, that is noted.
LEMMA EndGroupHands ==
    ASSUME TypeOK, NEW t \in Threads, EndGroup(t)
    PROVE  HandsOn(t)
<1>1. /\ pc[t] = "nodes" /\ pc'[t] = "groups" /\ left[t] = {} /\ grp'[t] = None
      /\ left'[t] = {} /\ todo'[t] = todo[t]
    BY DEF EndGroup, TypeOK
<1>2. Aside(t)
    BY DEF Aside, EndGroup, TypeOK
<1>3. UNCHANGED <<now, table, ent, agents, todo, blind, slist, listed, sleft>>
    BY DEF EndGroup, Mark
<1>4. CASE grp[t] # None /\ failed[t] /\ Mark(t, grp[t])
    <2>1. grp[t] \in Groups
        BY <1>4 DEF TypeOK
    <2>2. /\ \A n \in Nodes : Marked(n) \/ grp[t] \in Serves[n] => Marked(n)'
          /\ \A n \in Nodes : n \in forgotten => n \in forgotten' \/ Marked(n)'
          /\ \A u \in missed, n \in Nodes : GroupOf[u] \in Serves[n] =>
                 u \in missed' \/ Marked(n)'
        BY <1>1, <1>2, <1>4, <2>1, MarkMarks DEF Aside
    <2>3. \A n \in Nodes : WillApply(t, n) => WillApply(t, n)' \/ Marked(n)'
        BY <1>1, <2>2 DEF WillApply
    <2>. QED  BY <1>1, <1>2, <1>3, <2>2, <2>3 DEF HandsOn
<1>5. CASE ~(grp[t] # None /\ failed[t] /\ Mark(t, grp[t]))
    <2>1. /\ grp[t] = None \/ ~failed[t]
          /\ pending' = pending \ {grp[t]}
          /\ forgotten' = IF t \in crossed /\ grp[t] \in pending
                            THEN forgotten \cup NodesOf(grp[t]) ELSE forgotten
          /\ crossed' = crossed \ {t} /\ missed' = missed
        BY <1>5 DEF EndGroup
    <2>2. ASSUME NEW n \in Nodes, Marked(n)
          PROVE  n \in forgotten' \/ Marked(n)'
        <3>1. PICK g \in pending \cap Serves[n] :
                  \A s \in Threads : grp[s] = g => s \in crossed
            BY <2>2 DEF Marked
        <3>2. CASE g = grp[t]
            BY <2>1, <3>1, <3>2 DEF NodesOf
        <3>3. CASE g # grp[t]
            <4>1. g # None
                BY <3>1, PlaneAssumption DEF TypeOK
            <4>2. \A s \in Threads : grp'[s] = g => s \in crossed'
                BY <1>1, <1>2, <2>1, <3>1, <4>1 DEF Aside
            <4>. QED  BY <2>1, <3>1, <3>3, <4>2 DEF Marked
        <3>. QED  BY <3>2, <3>3
    <2>3. \A n \in Nodes : WillApply(t, n) => WillApply(t, n)'
        BY <1>1, <2>1, PlaneAssumption DEF WillApply
    <2>4. forgotten \subseteq forgotten'
        BY <2>1
    <2>. QED  BY <1>1, <1>2, <1>3, <2>1, <2>2, <2>3, <2>4 DEF HandsOn
<1>. QED  BY <1>4, <1>5

LEMMA EndApplyHands ==
    ASSUME TypeOK, Grouped, NEW t \in Threads, EndApply(t)
    PROVE  HandsOn(t)
<1>1. pc[t] = "groups" /\ pc'[t] = "idle" /\ grp[t] = None /\ todo[t] = {}
    BY DEF EndApply, Grouped, TypeOK
<1>2. Aside(t)
    BY DEF Aside, EndApply, TypeOK
<1>3. UNCHANGED <<now, table, pending, ent, agents, todo, grp, history, slist,
                  listed, sleft>>
    BY DEF EndApply
<1>4. \A n \in Nodes : ~WillApply(t, n)
    BY <1>1, PlaneAssumption DEF WillApply
<1>. QED  BY <1>1, <1>2, <1>3, <1>4 DEF HandsOn, Marked

\* Steps of applyGroupNodes outside of applyStoredNode threaten nobody.
LEMMA HandsOnKick ==
    ASSUME KickInv, TypeOK', NEW t \in Threads, HandsOn(t)
    PROVE  OutStays' /\ KickDue'
<1>1. ASSUME NEW u \in Users, NEW n \in Nodes, Threat(u, n)'
      PROVE  Threat(u, n)
    <2>1. Held(u, n)' => Held(u, n)
        BY DEF Held, HandsOn
    <2>2. \A s \in Threads \ {t} : WillSend(s, u, n)' => WillSend(s, u, n)
        BY AsideKick DEF HandsOn
    <2>3. ~WillSend(t, u, n)'
        BY DEF WillSend, HandsOn
    <2>. QED  BY <1>1, <2>1, <2>2, <2>3 DEF Threat
<1>2. ASSUME NEW u \in Users, NEW n \in Nodes
      PROVE  /\ WillKick(t, u, n) <=> WillApply(t, n)
             /\ WillKick(t, u, n)' <=> WillApply(t, n)'
    BY DEF WillKick, WillApply, HandsOn
<1>. QED  BY <1>1, <1>2, OneKick DEF HandsOn

\* Whoever locks the node reads the clock then: it lets in nobody that is out.
LEMMA LockKick ==
    ASSUME KickInv, TypeOK', NEW t \in Threads, NEW m \in Nodes, Lock(t, m)
    PROVE  OutStays' /\ KickDue'
<1>. USE DEF KickInv
<1>1. /\ pc[t] = "nodes" /\ pc'[t] = "read" /\ push'[t] = {} /\ todo'[t] = todo[t]
      /\ node'[t] = m /\ left'[t] = left[t] \ {m} /\ at'[t] = now
    <2>1. pc[t] = "nodes" /\ push[t] = {} /\ UNCHANGED <<push, todo>>
        BY DEF Lock, Shape, Listing
    <2>. QED  BY <2>1 DEF Lock, TypeOK
<1>2. Aside(t)
    BY DEF Aside, Lock, TypeOK
<1>3. UNCHANGED <<now, table, pending, ent, agents, grp, failed, history, slist,
                  listed, sleft>>
    BY DEF Lock
<1>4. \A n \in Nodes : Marked(n) => Marked(n)'
    BY <1>3 DEF Marked
<1>5. ASSUME NEW u \in Users, NEW n \in Nodes, ~Entitled(row[u], now), Threat(u, n)'
      PROVE  Threat(u, n)
    <2>1. Held(u, n)' => Held(u, n)
        BY <1>3 DEF Held
    <2>2. ~WillSend(t, u, n)'
        BY <1>1, <1>3, <1>5 DEF WillSend
    <2>3. \A s \in Threads \ {t} : WillSend(s, u, n)' => WillSend(s, u, n)
        BY <1>2, <1>3, AsideKick
    <2>. QED  BY <1>5, <2>1, <2>2, <2>3 DEF Threat
<1>6. ASSUME NEW u \in Users, NEW n \in Nodes, ~Entitled(row[u], now),
             WillKick(t, u, n)
      PROVE  WillKick(t, u, n)'
    <2>1. ~Entitled(row'[u], at'[t])
        BY <1>1, <1>3, <1>6
    <2>2. \/ todo[t] \cap Serves[n] # {}
          \/ grp[t] \in Serves[n] /\ (n \in left[t] \/ failed[t])
        BY <1>1, <1>6 DEF WillKick
    <2>. QED  BY <1>1, <1>3, <2>1, <2>2 DEF WillKick
<1>. QED  BY <1>1, <1>2, <1>3, <1>4, <1>5, <1>6, OneKick

LEMMA ReadKick ==
    ASSUME KickInv, TypeOK', NEW t \in Threads, NEW g \in Groups, ReadGroup(t, g)
    PROVE  OutStays' /\ KickDue'
<1>. USE DEF KickInv
<1>1. /\ pc[t] = "read" /\ g \in gleft[t] /\ gleft'[t] = gleft[t] \ {g}
      /\ push'[t] = push[t] \cup Allowed(g, at[t])
    BY DEF ReadGroup, TypeOK
<1>2. Aside(t)
    BY DEF Aside, ReadGroup, TypeOK
<1>3. UNCHANGED <<now, table, pending, ent, agents, pc, todo, grp, left, failed,
                  node, at, history, slist, listed, sleft>>
    BY DEF ReadGroup
<1>4. \A u \in Users : u \in Allowed(g, at[t]) =>
                           GroupOf[u] = g /\ Entitled(row[u], at[t])
    BY DEF Allowed
<1>5. ASSUME NEW u \in Users, NEW n \in Nodes, Threat(u, n)'
      PROVE  Threat(u, n)
    <2>1. Held(u, n)' => Held(u, n)
        BY <1>3 DEF Held
    <2>2. WillSend(t, u, n)' => WillSend(t, u, n)
        BY <1>1, <1>3, <1>4 DEF WillSend
    <2>3. \A s \in Threads \ {t} : WillSend(s, u, n)' => WillSend(s, u, n)
        BY <1>2, <1>3, AsideKick
    <2>. QED  BY <1>5, <2>1, <2>2, <2>3 DEF Threat
<1>6. ASSUME NEW u \in Users, NEW n \in Nodes, WillKick(t, u, n)
      PROVE  WillKick(t, u, n)'
    BY <1>1, <1>3, <1>4, <1>6 DEF WillKick
<1>7. \A n \in Nodes : Marked(n) => Marked(n)'
    BY <1>3 DEF Marked
<1>. QED  BY <1>1, <1>2, <1>3, <1>5, <1>6, <1>7, OneKick

\* However applyStoredNode returns to a group: with an error, the group is going
\* to be marked; without one, the PUT was done and nothing was left to the agent,
\* or the loss is noted.
LEMMA ReturnFacts ==
    ASSUME TypeOK, Shape, NEW t \in Threads,
           \/ ReadFails(t) \/ PutOk(t) \/ PutRefused(t) \/ PutTimesOut(t)
           \/ PutPartial(t) \/ PutUnsaved(t)
    PROVE  /\ Aside(t)
           /\ pc[t] = "read" /\ pc'[t] = "nodes" /\ node[t] \in Nodes
           /\ UNCHANGED <<now, table, pending, ent, todo, grp, left, blind, slist,
                          listed, sleft, crossed, missed>>
           /\ failed[t] => failed'[t]
           /\ forgotten \subseteq forgotten'
           /\ grp[t] # None => \/ failed'[t] \/ node[t] \in forgotten'
                               \/ PutOk(t) /\ late[node[t]] = <<>>
<1>1. PICK err \in BOOLEAN : Return(t, err)
    BY DEF ReadFails, PutOk, PutRefused, PutTimesOut, PutPartial, PutUnsaved
<1>2. /\ pc[t] = "read" /\ pc'[t] = "nodes" /\ node[t] \in Nodes
      /\ UNCHANGED <<now, table, pending, ent, todo, grp, left, blind, slist,
                     listed, sleft>>
    <2>1. pc[t] = "read" /\ UNCHANGED <<row, slist, listed, sleft>>
        BY <1>1 DEF ReadFails, PutOk, PutRefused, PutTimesOut, PutPartial,
                    PutUnsaved, Return, table, others
    <2>. QED  BY <1>1, <2>1 DEF Return, TypeOK, Shape, Locked, table, others
<1>3. Aside(t)
    BY <1>1 DEF Aside, Return, TypeOK
<1>4. failed'[t] = (failed[t] \/ err)
    BY <1>1 DEF Return, TypeOK
<1>5. \/ UNCHANGED excuses /\ Return(t, TRUE)
      \/ PutPartial(t) /\ Forget(t, TRUE)
      \/ PutOk(t) /\ Forget(t, late[node[t]] # <<>>)
    BY DEF ReadFails, PutOk, PutRefused, PutTimesOut, PutPartial, PutUnsaved
<1>6. Return(t, TRUE) => failed'[t] = (failed[t] \/ TRUE)
    BY DEF Return, TypeOK
<1>7. /\ UNCHANGED <<crossed, missed>> /\ forgotten \subseteq forgotten'
      /\ grp[t] # None => \/ failed'[t] \/ node[t] \in forgotten'
                          \/ PutOk(t) /\ late[node[t]] = <<>>
    BY <1>5, <1>6 DEF Forget
<1>. QED  BY <1>2, <1>3, <1>4, <1>7

\* Only the holder of the mutex sends to the node: whoever was left out is in no
\* danger of being let in.
LEMMA ReturnKick ==
    ASSUME KickInv, TypeOK', NEW t \in Threads,
           \/ ReadFails(t) \/ PutOk(t) \/ PutRefused(t) \/ PutTimesOut(t)
           \/ PutPartial(t) \/ PutUnsaved(t)
    PROVE  OutStays' /\ KickDue'
<1>. USE DEF KickInv
<1>1. Aside(t)
    BY ReturnFacts
<1>2. /\ pc[t] = "read" /\ pc'[t] = "nodes" /\ node[t] \in Nodes
      /\ UNCHANGED <<now, table, pending, ent, todo, grp, left, blind, slist,
                     listed, sleft, crossed>>
      /\ failed[t] => failed'[t]
      /\ forgotten \subseteq forgotten'
      /\ grp[t] # None => \/ failed'[t] \/ node[t] \in forgotten'
                          \/ PutOk(t) /\ late[node[t]] = <<>>
    BY ReturnFacts
<1>3. ASSUME NEW u \in Users, NEW n \in Nodes
      PROVE  /\ ~WillSend(t, u, n)'
             /\ \A s \in Threads \ {t} : WillSend(s, u, n)' => WillSend(s, u, n)
    BY <1>1, <1>2, AsideKick DEF WillSend
<1>4. ASSUME NEW u \in Users, NEW n \in Nodes, Threat(u, n)'
      PROVE  Threat(u, n)
    <2>1. u \in push[t] /\ node[t] = n => WillSend(t, u, n)
        BY <1>2 DEF WillSend
    <2>2. Held(u, n)' => Held(u, n) \/ WillSend(t, u, n)
        BY <2>1, PutHeld
    <2>. QED  BY <1>3, <1>4, <2>2 DEF Threat
<1>5. ASSUME NEW u \in Users, NEW n \in Nodes, Threat(u, n)', WillKick(t, u, n)
      PROVE  WillKick(t, u, n)' \/ n \in forgotten'
    <2>1. CASE todo[t] \cap Serves[n] # {}
               \/ (grp[t] \in Serves[n] /\ (n \in left[t] \/ failed'[t]))
        BY <1>2, <2>1 DEF WillKick
    <2>2. CASE /\ grp[t] \in Serves[n] /\ node[t] = n /\ u \notin push[t]
               /\ PutOk(t) /\ late[n] = <<>>
        <3>1. UNCHANGED late /\ installed'[n] = push[t]
            BY <2>2 DEF PutOk, TypeOK
        <3>2. ~Held(u, n)'
            BY <2>2, <3>1 DEF Held
        <3>3. PICK q \in Threads \ {t} : WillSend(q, u, n)
            BY <1>3, <1>5, <3>2 DEF Threat
        <3>4. holder[n] = q /\ holder[n] = t
            BY <1>2, <2>2, <3>3 DEF WillSend, Shape, Locked
        <3>. QED  BY <3>3, <3>4
    <2>3. grp[t] \in Serves[n] => grp[t] # None
        BY PlaneAssumption
    <2>. QED  BY <1>2, <1>5, <2>1, <2>2, <2>3 DEF WillKick
<1>6. \A n \in Nodes : Marked(n) => Marked(n)'
    BY <1>2 DEF Marked
<1>. QED  BY <1>1, <1>2, <1>4, <1>5, <1>6, OneKick

LEMMA AgentKick ==
    ASSUME KickInv, TypeOK', NEW m \in Nodes, AgentStep(m)
    PROVE  OutStays' /\ KickDue'
<1>. USE DEF KickInv
<1>1. UNCHANGED <<now, table, memory, pc, todo, grouping, applying, slist, listed,
                  sleft, history>>
    BY DEF AgentStep, LateApplied, LateDropped
<1>2. ASSUME NEW u \in Users, NEW n \in Nodes, NEW t \in Threads
      PROVE  /\ WillSend(t, u, n)' <=> WillSend(t, u, n)
             /\ WillKick(t, u, n)' <=> WillKick(t, u, n)
    BY <1>1 DEF WillSend, WillKick, Entitled
<1>3. ASSUME NEW u \in Users, NEW n \in Nodes, Threat(u, n)'
      PROVE  Threat(u, n)
    BY <1>2, <1>3, AgentHeld DEF Threat
<1>4. \A n \in Nodes : Marked(n) => Marked(n)'
    BY <1>1 DEF Marked
<1>. QED  BY <1>1, <1>2, <1>3, <1>4, ApplyKick DEF Backed

\* What the sweep has listed is nothing it will record yet.
LEMMA ListKick ==
    ASSUME KickInv, TypeOK', SweepList
    PROVE  OutStays' /\ KickDue'
<1>. USE DEF KickInv
<1>1. /\ UNCHANGED <<now, table, memory, agents, todo, grouping, applying, history>>
      /\ Sweeper \in Threads /\ pc[Sweeper] = "idle" /\ pc'[Sweeper] = "listed"
      /\ \A t \in Threads \ {Sweeper} : pc'[t] = pc[t]
    BY DEF SweepList, TypeOK, Threads
<1>2. Worse
    BY <1>1 DEF Worse, TypeOK
<1>3. \A v \in Users : RecordedOut(v)' => RecordedOut(v)
    BY <1>1 DEF RecordedOut
<1>. QED  BY <1>1, <1>2, <1>3, RowKick

\* A user that came back since it was listed did so behind the sweep's back.
LEMMA ClockKick ==
    ASSUME KickInv, TypeOK', SweepClock
    PROVE  OutStays' /\ KickDue'
<1>. USE DEF KickInv
<1>. DEFINE due == {u \in slist : PeriodDue(listed[u], now)}
            says(u) == Entitled(IF u \in due /\ listed[u].period # Never
                                  THEN Zeroed(listed[u]) ELSE listed[u], now)
<1>1. /\ UNCHANGED <<now, table, memory, agents, todo, grouping, node, gleft,
                     push, slist, listed, excuses>>
      /\ Sweeper \in Threads /\ pc[Sweeper] = "listed" /\ pc'[Sweeper] = "reset"
      /\ at'[Sweeper] = now /\ sleft' = due
      /\ blind' = blind \cup {u \in slist : ~says(u) /\ Entitled(row[u], now)}
      /\ \A t \in Threads \ {Sweeper} : pc'[t] = pc[t] /\ at'[t] = at[t]
    BY DEF SweepClock, TypeOK, Threads
<1>2. \A v \in Users : SweepSays(v)' = says(v)
    <2>. HIDE DEF due
    <2>. QED  BY <1>1 DEF SweepSays, Entitled, Zeroed
<1>. HIDE DEF due, says
<1>3. OutStays'
    <2>. SUFFICES ASSUME NEW v \in Users, Live(v), v \notin blind',
                         RecordedOut(v)', Entitled(row[v], now)
                  PROVE  FALSE
        BY <1>1 DEF OutStays, Entitled
    <2>1. ent[v] # "no"
        BY <1>1 DEF OutStays, RecordedOut
    <2>. QED  BY <1>1, <1>2, <2>1 DEF RecordedOut
<1>4. KickDue'
    <2>1. Worse
        BY <1>1 DEF Worse, TypeOK
    <2>2. \A t \in Threads : /\ pc[t] = "read" <=> pc'[t] = "read"
                             /\ pc[t] = "read" => at'[t] = at[t]
                             /\ todo[t] \subseteq todo'[t]
        BY <1>1 DEF Threads
    <2>. QED  BY <1>1, <2>1, <2>2, RowStep
<1>. QED  BY <1>3, <1>4

\* A reset does not change what the sweep will record.
LEMMA ResetSays ==
    ASSUME TypeOK, NEW u \in Users, SweepReset(u)
    PROVE  \A v \in Users : Live(v) => (SweepSays(v)' <=> SweepSays(v))
<1>. DEFINE zero == listed[u].period # Never
<1>1. sleft' = sleft \ {u} /\ u \in sleft /\ at'[Sweeper] = at[Sweeper]
    BY DEF SweepReset
<1>2. CASE Live(u)
    <2>1. listed' = IF zero THEN [listed EXCEPT ![u] = Zeroed(@)] ELSE listed
        BY <1>2 DEF SweepReset
    <2>2. \A v \in Users \ {u} : listed'[v] = listed[v]
        BY <2>1 DEF TypeOK
    <2>3. listed'[u] = IF zero THEN Zeroed(listed[u]) ELSE listed[u]
        BY <2>1 DEF TypeOK
    <2>4. ASSUME NEW v \in Users \ {u} PROVE SweepSays(v)' <=> SweepSays(v)
        BY <1>1, <2>2 DEF SweepSays, Entitled, Zeroed
    <2>5. SweepSays(u)' <=> SweepSays(u)
        BY <1>1, <2>3 DEF SweepSays, Entitled
    <2>. QED  BY <2>4, <2>5
<1>3. CASE ~Live(u)
    <2>1. UNCHANGED listed
        BY <1>3 DEF SweepReset
    <2>2. ASSUME NEW v \in Users \ {u} PROVE SweepSays(v)' <=> SweepSays(v)
        BY <1>1, <2>1 DEF SweepSays, Entitled, Zeroed
    <2>. QED  BY <1>3, <2>2
<1>. QED  BY <1>2, <1>3

\* A reset that lets a user in again does so behind the back of a sweep that
\* has the user recorded as out, and is noted.
LEMMA ResetKick ==
    ASSUME KickInv, TypeOK', NEW u \in Users, SweepReset(u)
    PROVE  OutStays' /\ KickDue'
<1>. USE DEF KickInv
<1>. DEFINE start == PeriodStart(listed[u].reset, at[Sweeper])
            zero == listed[u].period # Never
            wiped == IF zero THEN [row[u] EXCEPT !.used = 0, !.period = start]
                             ELSE [row[u] EXCEPT !.period = start]
<1>1. /\ Sweeper \in Threads /\ pc[Sweeper] = "reset" /\ u \in sleft
      /\ UNCHANGED <<now, life, memory, agents, pc, grouping, applying, slist,
                     excuses>>
      /\ sleft' = sleft \ {u}
    BY DEF Threads, SweepReset
<1>2. \A v \in Users : Live(v)' /\ RecordedOut(v)' => RecordedOut(v)
    BY <1>1, ResetSays DEF RecordedOut
<1>3. /\ todo[Sweeper] \subseteq todo'[Sweeper]
      /\ \A s \in Threads \ {Sweeper} : todo'[s] = todo[s]
    BY <1>1 DEF SweepReset, TypeOK
<1>4. CASE Live(u)
    <2>1. Rewrite(u, wiped)
        BY <1>4 DEF SweepReset
    <2>2. wiped \in Rows
        <3>1. row[u] \in Rows /\ start \in Instants
            <4>1. at[Sweeper] \in Nat
                BY <1>1 DEF TypeOK
            <4>. QED  BY <4>1, PeriodStartsBefore DEF TypeOK, Instants
        <3>. HIDE DEF start, zero
        <3>. QED  BY <3>1 DEF Rows
    <2>3. Worse
        <3>. HIDE DEF wiped
        <3>. QED  BY <1>1, <2>1, <2>2, RewriteWorse DEF Worse, TypeOK
    <2>. QED  BY <1>1, <1>3, <1>2, <2>3, RowKick
<1>5. CASE ~Live(u)
    <2>1. UNCHANGED <<row, blind, listed>>
        BY <1>5 DEF SweepReset
    <2>2. Worse
        BY <1>1, <2>1 DEF Worse, TypeOK
    <2>. QED  BY <1>1, <1>3, <1>2, <2>2, RowKick
<1>. QED  BY <1>4, <1>5

\* The sweep that records a user as out takes the user's group along, and
\* whoever threatens to let the user in does so on a node of that group.
LEMMA SwapKick ==
    ASSUME KickInv, TypeOK', SweepSwap
    PROVE  OutStays' /\ KickDue'
<1>. USE DEF KickInv
<1>. DEFINE says == [u \in Users |-> IF u \notin slist THEN "unseen"
                                     ELSE IF SweepSays(u) THEN "yes" ELSE "no"]
<1>1. /\ Sweeper \in Threads /\ pc[Sweeper] = "reset" /\ pc'[Sweeper] = "groups"
      /\ todo'[Sweeper] = todo[Sweeper] \cup Changed(says) \cup pending
      /\ ent' = says /\ blind' = {u \in blind : says[u] # "yes"}
    BY DEF Threads, SweepSwap, TypeOK
<1>2. \A t \in Threads \ {Sweeper} :
          pc'[t] = pc[t] /\ todo'[t] = todo[t] /\ at'[t] = at[t]
    BY DEF SweepSwap, TypeOK
<1>3. UNCHANGED <<now, table, pending, agents, grouping, node, gleft, push,
                  excuses>>
    BY DEF SweepSwap
<1>4. ASSUME NEW v \in Users, ent'[v] = "no"
      PROVE  RecordedOut(v) /\ (v \notin blind' => v \notin blind)
    <2>1. says[v] = IF v \notin slist THEN "unseen"
                    ELSE IF SweepSays(v) THEN "yes" ELSE "no"
        OBVIOUS
    <2>. HIDE DEF says
    <2>2. v \in slist /\ ~SweepSays(v)
        BY <1>1, <1>4, <2>1
    <2>. QED  BY <1>1, <1>4, <2>2 DEF RecordedOut
<1>. HIDE DEF says
<1>5. OutStays'
    <2>. SUFFICES ASSUME NEW v \in Users, Live(v), v \notin blind', RecordedOut(v)'
                  PROVE  ~Entitled(row[v], now)
        BY <1>3 DEF OutStays, Entitled
    <2>1. ent'[v] = "no"
        BY <1>1 DEF RecordedOut
    <2>. QED  BY <1>4, <2>1 DEF OutStays
<1>6. KickDue'
    <2>. SUFFICES ASSUME NEW u \in Users, NEW n \in Nodes, Live(u),
                         ~Entitled(row[u], now), u \notin blind',
                         n \notin forgotten, Threat(u, n)'
                  PROVE  Backed(u, n)'
        BY <1>3 DEF KickDue, Entitled
    <2>1. Threat(u, n)
        BY <1>1, <1>2, <1>3 DEF Threat, Held, WillSend, Entitled
    <2>2. CASE ent'[u] # "no"
        BY <2>2 DEF Backed
    <2>3. CASE ent'[u] = "no" /\ ent[u] # "no"
        <3>1. GroupOf[u] \in Serves[n]
            BY <2>1, PlaneAssumption DEF Threat, WillSend, Shape, Sent, Listing
        <3>2. GroupOf[u] \in Changed(says)
            BY <1>1, <2>3 DEF Changed, TypeOK
        <3>. QED  BY <1>1, <3>1, <3>2 DEF Backed, WillKick
    <2>4. CASE ent'[u] = "no" /\ ent[u] = "no"
        <3>1. Marked(n) \/ \E t \in Threads : WillKick(t, u, n)
            BY <1>4, <2>1, <2>4 DEF KickDue, Backed
        <3>2. Marked(n) => Marked(n)'
            BY <1>3 DEF Marked
        <3>3. ASSUME NEW t \in Threads, WillKick(t, u, n)
              PROVE  WillKick(t, u, n)'
            <4>1. CASE t = Sweeper
                BY <1>1, <1>3, <3>3, <4>1 DEF WillKick, Entitled
            <4>2. CASE t # Sweeper
                BY <1>2, <1>3, <3>3, <4>2 DEF WillKick, Entitled
            <4>. QED  BY <4>1, <4>2
        <3>. QED  BY <3>1, <3>2, <3>3 DEF Backed
    <2>. QED  BY <2>2, <2>3, <2>4
<1>. QED  BY <1>5, <1>6

\* A reset that fails leaves the sweep with what it listed.  If the row has come
\* back since, that happened behind the back of the sweep.
LEMMA ResetFailsKick ==
    ASSUME KickInv, TypeOK', NEW u \in Users, SweepResetFails(u)
    PROVE  OutStays' /\ KickDue'
<1>. USE DEF KickInv
<1>1. /\ pc[Sweeper] = "reset" /\ u \in sleft /\ sleft' = sleft \ {u}
      /\ blind \subseteq blind'
      /\ UNCHANGED <<now, table, memory, agents, pc, todo, grouping, applying,
                     slist, listed, excuses>>
    BY DEF SweepResetFails
<1>2. ASSUME NEW v \in Users \ {u}
      PROVE  RecordedOut(v)' => RecordedOut(v)
    BY <1>1, <1>2 DEF RecordedOut, SweepSays, Entitled, Zeroed
<1>3. SweepSays(u)' <=> Entitled(listed[u], at[Sweeper])
    BY <1>1 DEF SweepSays, Entitled
<1>4. OutStays'
    <2>. SUFFICES ASSUME NEW v \in Users, Live(v), v \notin blind',
                         RecordedOut(v)', Entitled(row[v], now)
                  PROVE  FALSE
        BY <1>1 DEF OutStays, Entitled
    <2>1. ~RecordedOut(v)
        BY <1>1 DEF OutStays
    <2>2. v = u
        BY <1>2, <2>1
    <2>3. ~Entitled(listed[u], at[Sweeper])
        BY <1>1, <1>3, <2>1, <2>2 DEF RecordedOut
    <2>. QED  BY <2>2, <2>3 DEF SweepResetFails
<1>5. KickDue'
    <2>1. Worse
        BY <1>1 DEF Worse, TypeOK
    <2>. QED  BY <1>1, <2>1, RowStep
<1>. QED  BY <1>4, <1>5

\* A failing query of the collector changes no row.
LEMMA CollectFailsKick ==
    ASSUME KickInv, TypeOK',
           CollectCreditFails \/ \E u \in Users : CollectReadFails(u)
    PROVE  OutStays' /\ KickDue'
<1>. USE DEF KickInv
<1>1. /\ Collector \in Threads \ {Sweeper}
      /\ pc[Collector] \in {"collect", "credit"}
    BY PlaneAssumption DEF Threads, CollectReadFails, CollectCreditFails
<1>2. /\ pc'[Collector] # "read"
      /\ \A s \in Threads \ {Collector} : pc'[s] = pc[s]
      /\ UNCHANGED <<now, table, memory, agents, todo, grouping, applying, slist,
                     listed, sleft, history>>
    BY <1>1 DEF CollectReadFails, CollectCreditFails, TypeOK
<1>3. Worse
    BY <1>2 DEF Worse, TypeOK
<1>. QED  BY <1>1, <1>2, <1>3, RowKick, OthersRest

\* A restarted plane has recorded nobody as out.
LEMMA RestartKick ==
    ASSUME KickInv, TypeOK', RestartPlane
    PROVE  OutStays' /\ KickDue'
<1>1. /\ \A t \in Threads : pc'[t] = "idle"
      /\ \A u \in Users : ent'[u] = "unseen"
    BY DEF RestartPlane
<1>2. Sweeper \in Threads
    BY DEF Threads
<1>. QED  BY <1>1, <1>2 DEF OutStays, KickDue, RecordedOut, Backed

LEMMA NoFault ==
    ASSUME MaxFaults = 0, TypeOK
    PROVE  ~FaultStep
<1>1. ~Fault
    BY DEF Fault, TypeOK
<1>. QED  BY <1>1 DEF FaultStep, NextGroupFails, NextNodeFails, ReadFails,
                      PutRefused, PutTimesOut, PutPartial, PutUnsaved,
                      SweepResetFails, CollectReadFails, CollectCreditFails

-----------------------------------------------------------------------------
(* Who has a group *)

\* What a step may do to the group of a thread.
Regrouped(t) ==
    /\ failed'[t] => failed[t] \/ FaultStep
    /\ \/ /\ grp'[t] = grp[t] /\ failed'[t] = failed[t]
          /\ \/ pc'[t] = pc[t]
             \/ pc[t] \notin {"nodes", "read"}
             \/ pc'[t] \in {"nodes", "read"}
       \/ grp'[t] = grp[t] /\ pc'[t] \in {"nodes", "read"}
       \/ grp'[t] = None /\ failed'[t] = FALSE
       \/ pc[t] = "groups" /\ pc'[t] = "nodes" /\ \E g \in Groups : NextGroup(t, g)

LEMMA NextGrouped ==
    ASSUME TypeOK, Grouped, [Next]_vars
    PROVE  \A t \in Threads : Regrouped(t)
<1>1. CASE Tick \/ UNCHANGED vars
    BY <1>1 DEF Tick, vars, Regrouped
<1>2. ASSUME NEW t \in Threads, ApplyStep(t)
      PROVE  \A s \in Threads : Regrouped(s)
    <2>1. ASSUME NEW g \in Groups, NextGroup(t, g)
          PROVE  \A s \in Threads : Regrouped(s)
        <3>1. /\ pc[t] = "groups" /\ pc'[t] = "nodes" /\ failed'[t] = FALSE
            BY <2>1 DEF NextGroup, TypeOK
        <3>2. \A s \in Threads \ {t} :
                 pc'[s] = pc[s] /\ grp'[s] = grp[s] /\ failed'[s] = failed[s]
            BY <2>1 DEF NextGroup, TypeOK
        <3>. QED  BY <2>1, <3>1, <3>2 DEF Regrouped
    <2>2. CASE EndGroup(t)
        BY <2>2 DEF EndGroup, Regrouped, TypeOK
    <2>3. CASE EndApply(t)
        BY <2>3 DEF EndApply, Regrouped, TypeOK
    <2>4. CASE \E n \in Nodes : Lock(t, n)
        BY <2>4 DEF Lock, Regrouped, TypeOK
    <2>5. CASE \E g \in Groups : ReadGroup(t, g)
        BY <2>5 DEF ReadGroup, Regrouped, TypeOK
    <2>6. CASE PutOk(t)
        BY <2>6 DEF PutOk, Return, Regrouped, TypeOK
    <2>. QED  BY <1>2, <2>1, <2>2, <2>3, <2>4, <2>5, <2>6 DEF ApplyStep
<1>3. ASSUME NEW t \in Requests, RequestStep(t) \/ PatchStep(t)
      PROVE  \A s \in Threads : Regrouped(s)
    <2>1. pc[t] \in {"idle", "patch"} /\ UNCHANGED <<grp, failed>>
        BY <1>3 DEF RequestStep, PatchStep, CreateUser, RevokeUser, DeleteUser,
                    PatchRead, ApplyNodes, Request, PatchFails, PatchWrite
    <2>2. \A s \in Threads \ {t} : pc'[s] = pc[s]
        BY <1>3 DEF RequestStep, PatchStep, CreateUser, RevokeUser, DeleteUser,
                    PatchRead, ApplyNodes, Request, PatchFails, PatchWrite,
                    ThenApply, TypeOK
    <2>. QED  BY <2>1, <2>2 DEF Regrouped
<1>4. CASE SweepStep
    <2>1. pc[Sweeper] \in {"idle", "listed", "reset"} /\ UNCHANGED <<grp, failed>>
        BY <1>4 DEF SweepStep, SweepList, SweepClock, SweepReset, SweepSwap
    <2>2. \A s \in Threads \ {Sweeper} : pc'[s] = pc[s]
        BY <1>4 DEF SweepStep, SweepList, SweepClock, SweepReset, SweepSwap, TypeOK
    <2>. QED  BY <2>1, <2>2 DEF Regrouped
<1>5. CASE \/ CollectStep \/ CollectCreditFails
           \/ \E u \in Users : CollectReadFails(u) \/ SweepResetFails(u)
    <2>1. /\ UNCHANGED <<grp, failed>>
          /\ pc' = pc \/ pc[Collector] \in {"idle", "collect", "credit"}
        BY <1>5 DEF CollectStep, CollectBegin, CollectRead, CollectCredit,
                    CollectEnd, CollectReadFails, CollectCreditFails,
                    SweepResetFails
    <2>2. \A s \in Threads \ {Collector} : pc'[s] = pc[s]
        BY <1>5 DEF CollectStep, CollectBegin, CollectRead, CollectCredit,
                    CollectEnd, CollectReadFails, CollectCreditFails,
                    SweepResetFails, TypeOK
    <2>. QED  BY <2>1, <2>2 DEF Regrouped
<1>6. ASSUME NEW n \in Nodes, AgentStep(n)
      PROVE  \A s \in Threads : Regrouped(s)
    BY <1>6 DEF AgentStep, LateApplied, LateDropped, Regrouped
<1>7. ASSUME NEW t \in Threads,
             \/ \E g \in Groups : NextGroupFails(t, g)
             \/ \E n \in Nodes : NextNodeFails(t, n)
      PROVE  \A s \in Threads : Regrouped(s)
    <2>1. FaultStep
        BY <1>7 DEF FaultStep
    <2>. QED  BY <1>7, <2>1 DEF NextGroupFails, NextNodeFails, Regrouped, TypeOK
<1>8. ASSUME NEW t \in Threads,
             \/ ReadFails(t) \/ PutRefused(t) \/ PutTimesOut(t)
             \/ PutPartial(t) \/ PutUnsaved(t)
      PROVE  \A s \in Threads : Regrouped(s)
    <2>1. FaultStep
        BY <1>8 DEF FaultStep
    <2>. QED  BY <1>8, <2>1 DEF ReadFails, PutRefused, PutTimesOut, PutPartial,
                                PutUnsaved, Return, Regrouped, TypeOK
<1>9. CASE RestartPlane
    BY <1>9 DEF RestartPlane, Regrouped
<1>. QED  BY <1>1, <1>2, <1>3, <1>4, <1>5, <1>6, <1>7, <1>8, <1>9
          DEF Next, FaultStep

LEMMA GroupedStep ==
    ASSUME TypeOK, Grouped, [Next]_vars
    PROVE  Grouped'
BY NextGrouped DEF Grouped, Regrouped

-----------------------------------------------------------------------------
(* All steps *)

LEMMA NextKick ==
    ASSUME KickInv, [Next]_vars
    PROVE  KickInv'
<1>1. TypeOK' /\ Shape' /\ Grouped'
    BY NextShape, GroupedStep DEF KickInv
<1>2. CASE Tick
    BY <1>1, <1>2, TickKick DEF KickInv
<1>3. ASSUME NEW t \in Threads, ApplyStep(t)
      PROVE  OutStays' /\ KickDue'
    <2>1. HandsOn(t) => OutStays' /\ KickDue'
        BY <1>1, HandsOnKick
    <2>. QED  BY <1>1, <1>3, <2>1, NextGroupHands, EndGroupHands, EndApplyHands,
                 LockKick, ReadKick, ReturnKick DEF ApplyStep, KickInv
<1>4. ASSUME NEW t \in Requests, RequestStep(t)
      PROVE  OutStays' /\ KickDue'
    <2>1. CASE \E u \in Users : \/ \E r \in NewRows : CreateUser(t, u, r)
                                \/ RevokeUser(t, u) \/ DeleteUser(t, u)
                                \/ PatchRead(t, u)
        BY <1>1, <2>1, RequestKick
    <2>2. CASE \E some \in SUBSET Nodes : ApplyNodes(t, some)
        BY <1>1, <2>2, ApplyNodesHands, HandsOnKick DEF Threads, KickInv
    <2>. QED  BY <1>4, <2>1, <2>2 DEF RequestStep
<1>5. ASSUME NEW t \in Requests, PatchStep(t)
      PROVE  OutStays' /\ KickDue'
    BY <1>1, <1>5, PatchKick
<1>6. CASE SweepStep
    BY <1>1, <1>6, ListKick, ClockKick, ResetKick, SwapKick DEF SweepStep, KickInv
<1>7. CASE CollectStep
    BY <1>1, <1>7, CollectKick DEF KickInv
<1>8. ASSUME NEW n \in Nodes, AgentStep(n)
      PROVE  OutStays' /\ KickDue'
    BY <1>1, <1>8, AgentKick
<1>9. CASE FaultStep
    <2>1. ASSUME NEW t \in Threads, NEW g \in Groups, NextGroupFails(t, g)
          PROVE  OutStays' /\ KickDue'
        BY <1>1, <2>1, NextGroupFailsHands, HandsOnKick DEF KickInv
    <2>2. ASSUME NEW t \in Threads, NEW n \in Nodes, NextNodeFails(t, n)
          PROVE  OutStays' /\ KickDue'
        BY <1>1, <2>2, NextNodeFailsHands, HandsOnKick DEF KickInv
    <2>3. ASSUME NEW t \in Threads,
                 \/ ReadFails(t) \/ PutRefused(t) \/ PutTimesOut(t)
                 \/ PutPartial(t) \/ PutUnsaved(t)
          PROVE  OutStays' /\ KickDue'
        BY <1>1, <2>3, ReturnKick
    <2>4. ASSUME NEW u \in Users, SweepResetFails(u)
          PROVE  OutStays' /\ KickDue'
        BY <1>1, <2>4, ResetFailsKick
    <2>5. ASSUME CollectCreditFails \/ \E u \in Users : CollectReadFails(u)
          PROVE  OutStays' /\ KickDue'
        BY <1>1, <2>5, CollectFailsKick
    <2>. QED  BY <1>1, <1>9, <2>1, <2>2, <2>3, <2>4, <2>5 DEF FaultStep, KickInv
<1>10. CASE RestartPlane
    BY <1>1, <1>10, RestartKick DEF KickInv
<1>11. CASE UNCHANGED vars
    <2>1. UNCHANGED <<now, table, memory, agents, pc, todo, grouping, applying,
                      others, history>>
        BY <1>11 DEF vars
    <2>2. Worse /\ SweepRests
        BY <2>1 DEF Worse, SweepRests, KickInv, TypeOK
    <2>3. OutStays'
        BY <1>1, <2>2, OutStep, SweepRestsOut DEF KickInv
    <2>4. KickDue'
        BY <1>1, <2>1, <2>2, RowStep DEF KickInv
    <2>. QED  BY <1>1, <2>3, <2>4 DEF KickInv
<1>. QED  BY <1>1, <1>2, <1>3, <1>4, <1>5, <1>6, <1>7, <1>8, <1>9, <1>10, <1>11
          DEF Next, KickInv

LEMMA KickInvImplies == KickInv => KicksSurvive
BY BackedOwed DEF KickInv, KickDue, KicksSurvive, Stale, Threat, Held

LEMMA KickHolds == Spec => []KickInv
BY NextKick, InitKick, PTL DEF Spec

\* Whatever fails, however requests, sweep and collector overlap, and however often
\* the plane is restarted: whoever a node still lets in without being entitled is
\* owed a kick by a thread, by the mark of a failed apply or by the sweep, unless
\* the plane has taken an apply for done that was not and no group of the node has
\* been applied since (markKick, clearKick, applyGroupNodes, SweepEntitlement).
THEOREM KicksSurviveFailures == Spec => []KicksSurvive
BY KickHolds, KickInvImplies, PTL

\* The sweep is the only worker that has anything to do.
SweepAlone == /\ \A t \in Threads \ {Sweeper} : pc[t] = "idle"
              /\ MaxOps = 0 /\ MaxUsed = 0

LEMMA SweepStaysAlone ==
    ASSUME TypeOK, SweepAlone, [Next]_vars
    PROVE  SweepAlone'
<1>1. ~CollectStep /\ ~CollectCreditFails /\ \A u \in Users : ~CollectReadFails(u)
    <2>1. Collector \in Threads \ {Sweeper}
        BY PlaneAssumption DEF Threads
    <2>2. \A u \in Users : ~(row[u].used < MaxUsed)
        BY DEF SweepAlone, TypeOK, Rows
    <2>. QED  BY <2>1, <2>2 DEF SweepAlone, CollectStep, CollectBegin, CollectRead,
                                CollectCredit, CollectEnd, CollectReadFails,
                                CollectCreditFails
<1>2. \A t \in Requests : ~RequestStep(t) /\ ~PatchStep(t)
    <2>1. \A t \in Requests : t \in Threads \ {Sweeper} /\ ~Request(t)
        BY PlaneAssumption DEF Threads, SweepAlone, Request, TypeOK
    <2>. QED  BY <2>1 DEF SweepAlone, RequestStep, CreateUser, RevokeUser,
                          DeleteUser, PatchRead, ApplyNodes, PatchStep, PatchFails,
                          PatchWrite
<1>3. CASE Tick \/ UNCHANGED vars \/ \E n \in Nodes : AgentStep(n)
    BY <1>3 DEF Tick, vars, AgentStep, LateApplied, LateDropped, SweepAlone
<1>4. CASE \E t \in Threads : ApplyStep(t)
    BY <1>4 DEF ApplyStep, NextGroup, ReadGroup, Lock, PutOk, Return, EndGroup,
                EndApply, SweepAlone, TypeOK
<1>5. CASE SweepStep
    BY <1>5 DEF SweepStep, SweepList, SweepClock, SweepReset, SweepSwap, SweepAlone,
                TypeOK
<1>6. CASE FaultStep
    <2>. USE DEF SweepAlone, TypeOK
    <2>1. ASSUME NEW t \in Threads, NEW g \in Groups, NextGroupFails(t, g)
          PROVE  SweepAlone'
        BY <2>1 DEF NextGroupFails
    <2>2. ASSUME NEW t \in Threads, NEW n \in Nodes, NextNodeFails(t, n)
          PROVE  SweepAlone'
        BY <2>2 DEF NextNodeFails
    <2>3. ASSUME NEW t \in Threads, \/ ReadFails(t) \/ PutRefused(t) \/ PutTimesOut(t)
                                   \/ PutPartial(t) \/ PutUnsaved(t)
          PROVE  SweepAlone'
        BY <2>3 DEF ReadFails, PutRefused, PutTimesOut, PutPartial, PutUnsaved, Return
    <2>4. ASSUME NEW u \in Users, SweepResetFails(u) PROVE SweepAlone'
        BY <2>4 DEF SweepResetFails
    <2>. HIDE DEF SweepAlone, TypeOK
    <2>. QED  BY <1>1, <1>6, <2>1, <2>2, <2>3, <2>4 DEF FaultStep
<1>7. CASE RestartPlane
    BY <1>7 DEF RestartPlane, SweepAlone
<1>. QED  BY <1>1, <1>2, <1>3, <1>4, <1>5, <1>6, <1>7 DEF Next

-----------------------------------------------------------------------------
(* Where the plane never takes an apply for done that was not *)

Calm == /\ crossed = {} /\ forgotten = {}
        /\ MaxFaults = 0 => \A t \in Threads : failed[t] = FALSE
        /\ InOrder \/ \A n \in Nodes : late[n] = <<>>

\* Nothing fails; or the sweep is alone, and no family covers up for another.
Reliable == /\ InOrder \/ (MaxFaults = 0 /\ MaxCrashes = 0)
            /\ MaxFaults = 0 \/ (SweepAlone /\ SiblingNodes = {})

\* A mark crosses no other thread.
LEMMA MarkCalm ==
    ASSUME TypeOK, Grouped, Calm, MaxFaults = 0 \/ SweepAlone,
           NEW t \in Threads, NEW g \in Groups, Mark(t, g),
           pc[t] \in {"groups", "nodes"}, MaxFaults = 0 => FALSE
    PROVE  crossed' = {} /\ forgotten' = {}
<1>1. t = Sweeper /\ \A s \in Threads \ {t} : grp[s] # g
    BY PlaneAssumption DEF SweepAlone, Grouped
<1>. QED  BY <1>1 DEF Mark, Remember, Calm

LEMMA CalmStep ==
    ASSUME TypeOK, Shape, Grouped, Calm, Reliable, [Next]_vars
    PROVE  Calm'
<1>1. MaxFaults = 0 => ~FaultStep
    BY NoFault
<1>2. MaxFaults = 0 => \A t \in Threads : failed'[t] = FALSE
    <2>1. \A t \in Threads : failed'[t] \in BOOLEAN
        BY NextShape DEF TypeOK
    <2>2. \A t \in Threads : failed'[t] => failed[t] \/ FaultStep
        BY NextGrouped DEF Regrouped
    <2>. QED  BY <1>1, <2>1, <2>2 DEF Calm
<1>3. \A n \in Nodes, t \in Threads : PutOk(t) => late[node[t]] = <<>>
    BY DEF Calm, PutOk, AgentFree, Shape, Locked
<1>4. InOrder \/ \A n \in Nodes : late'[n] = <<>>
    <2>1. CASE InOrder
        BY <2>1
    <2>2. CASE ~InOrder
        <3>1. ~RestartPlane /\ ~FaultStep
            BY <1>1, <2>2 DEF Reliable, RestartPlane, TypeOK
        <3>2. \A n \in Nodes : ~AgentStep(n)
            BY <2>2 DEF Calm, AgentStep
        <3>3. UNCHANGED late
            BY <3>1, <3>2 DEF Next, Tick, ApplyStep, NextGroup, ReadGroup, Lock,
                PutOk, EndGroup, EndApply, RequestStep, CreateUser, RevokeUser,
                DeleteUser, PatchRead, ApplyNodes, PatchStep, PatchFails,
                PatchWrite, SweepStep, SweepList, SweepClock, SweepReset,
                SweepSwap, CollectStep, CollectBegin, CollectRead, CollectCredit,
                CollectEnd, vars
        <3>. QED  BY <2>2, <3>3 DEF Calm
    <2>. QED  BY <2>1, <2>2
<1>5. crossed' = {} /\ forgotten' = {}
    <2>1. ASSUME NEW t \in Threads, ApplyStep(t)
          PROVE  crossed' = {} /\ forgotten' = {}
        <3>1. CASE \E g \in Groups : NextGroup(t, g)
            BY <3>1 DEF NextGroup, Remember, Calm
        <3>2. CASE PutOk(t)
            BY <1>3, <3>2 DEF PutOk, Forget, Calm, Shape, Locked
        <3>3. CASE EndGroup(t)
            <4>1. CASE grp[t] # None /\ failed[t] /\ Mark(t, grp[t])
                <5>1. grp[t] \in Groups /\ MaxFaults # 0
                    BY <4>1 DEF TypeOK, Calm
                <5>. QED  BY <3>3, <4>1, <5>1, MarkCalm DEF EndGroup, Reliable
            <4>2. CASE ~(grp[t] # None /\ failed[t] /\ Mark(t, grp[t]))
                BY <3>3, <4>2 DEF EndGroup, Calm
            <4>. QED  BY <4>1, <4>2
        <3>4. CASE \/ \E g \in Groups : ReadGroup(t, g)
                   \/ \E n \in Nodes : Lock(t, n)
                   \/ EndApply(t)
            BY <3>4 DEF ReadGroup, Lock, EndApply, Calm
        <3>. QED  BY <2>1, <3>1, <3>2, <3>3, <3>4 DEF ApplyStep
    <2>2. CASE FaultStep
        <3>1. MaxFaults # 0 /\ SweepAlone /\ SiblingNodes = {}
            BY <1>1, <2>2 DEF Reliable
        <3>2. ASSUME NEW t \in Threads, NEW g \in Groups, NextGroupFails(t, g)
              PROVE  crossed' = {} /\ forgotten' = {}
            BY <3>1, <3>2, MarkCalm DEF NextGroupFails
        <3>3. ASSUME UNCHANGED excuses
              PROVE  crossed' = {} /\ forgotten' = {}
            BY <3>3 DEF Calm
        <3>4. \/ UNCHANGED excuses
              \/ \E t \in Threads, g \in Groups : NextGroupFails(t, g)
            BY <2>2, <3>1 DEF FaultStep, NextNodeFails, ReadFails, PutRefused,
                PutTimesOut, PutPartial, PutUnsaved, SweepResetFails,
                CollectReadFails, CollectCreditFails
        <3>. QED  BY <3>2, <3>3, <3>4
    <2>3. CASE RestartPlane
        BY <2>3 DEF RestartPlane
    <2>4. CASE ~RestartPlane /\ ~FaultStep /\ ~\E t \in Threads : ApplyStep(t)
        <3>1. UNCHANGED <<crossed, forgotten>>
            BY <2>4 DEF Next, Tick, RequestStep, CreateUser, RevokeUser,
                DeleteUser, PatchRead, ApplyNodes, PatchStep, PatchFails,
                PatchWrite, SweepStep, SweepList, SweepClock, SweepReset,
                SweepSwap, CollectStep, CollectBegin, CollectRead, CollectCredit,
                CollectEnd, AgentStep, LateApplied, LateDropped, vars
        <3>. QED  BY <3>1 DEF Calm
    <2>. QED  BY <2>1, <2>2, <2>3, <2>4
<1>. QED  BY <1>2, <1>4, <1>5 DEF Calm

LEMMA InitCalm == Init => Calm
BY DEF Init, Calm

\* Without failures of the database and the agents, and if agents take PUTs in
\* the order they were sent (a restart leaves one behind), no interleaving of admin
\* requests, sweep, collector and restarts forgets a kick: whoever a node still
\* lets in without being entitled is owed a kick by a thread, or is not yet
\* recorded as out by the sweep.
THEOREM NoKickForgotten ==
    ASSUME MaxFaults = 0, InOrder
    PROVE  Spec => []NoForgottenKick
<1>1. KickInv /\ Calm /\ [Next]_vars => Calm'
    BY CalmStep DEF KickInv, Reliable
<1>2. KickInv /\ Calm => NoForgottenKick
    BY KickInvImplies DEF Calm, KicksSurvive, NoForgottenKick
<1>. QED  BY <1>1, <1>2, InitCalm, KickHolds, PTL DEF Spec

\* And the sweep on its own retries what has failed until it succeeds, whatever
\* fails in between: TestSweepRetriesFailedKick, for any groups, nodes and users
\* and any number of failures and restarts.
THEOREM SweepForgetsNoKick ==
    ASSUME InOrder, SiblingNodes = {}, MaxOps = 0, MaxUsed = 0
    PROVE  Spec => []NoForgottenKick
<1>1. Init => Calm /\ SweepAlone
    BY InitCalm DEF Init, SweepAlone
<1>2. KickInv /\ Calm /\ SweepAlone /\ [Next]_vars => Calm' /\ SweepAlone'
    BY CalmStep, SweepStaysAlone DEF KickInv, Reliable
<1>3. KickInv /\ Calm => NoForgottenKick
    BY KickInvImplies DEF Calm, KicksSurvive, NoForgottenKick
<1>. QED  BY <1>1, <1>2, <1>3, KickHolds, PTL DEF Spec

-----------------------------------------------------------------------------
(* Who may use a node is let in, but where the plane takes an apply for     *)
(* done that was not                                                        *)

\* Who is inside applyStoredNode read the clock before.
ClockRead == \A t \in Threads : pc[t] = "read" => at[t] <= now

\* The sweep has listed whoever it knew before, unless it is gone.
Knows == pc[Sweeper] \in {"listed", "reset"} =>
             \A u \in Users : Live(u) /\ ent[u] # "unseen" => u \in slist

\* Node n lets u in, and so does every PUT its agent may still do.
Stored(u, n) == u \in installed[n] /\ \A i \in DOMAIN late[n] : u \in late[n][i]

\* Thread t is about to send node n a list without u.
WillOmit(t, u, n) == /\ node[t] = n /\ pc[t] = "read"
                     /\ u \notin push[t] /\ GroupOf[u] \notin gleft[t]

\* Thread t will let u in on n, or leave a mark that it did not.
WillServe(t, u, n) ==
    \/ WillApply(t, n)
    \/ /\ grp[t] \in Serves[n]
       /\ node[t] = n /\ pc[t] = "read"
       /\ u \in push[t] \/ (GroupOf[u] \in gleft[t] /\ Entitled(row[u], at[t]))

Promised(u, n) == \/ RecordedOut(u) \/ Marked(n)
                  \/ \E t \in Threads : WillServe(t, u, n)

\* Not only a user that is out, but one that somebody is about to leave out, is
\* owed a place when it is entitled.
In(u, n) == Stored(u, n) /\ \A t \in Threads : ~WillOmit(t, u, n)
ServeDue == \A u \in Users, n \in Nodes :
                Due(u, n) /\ u \notin missed /\ n \notin forgotten =>
                    In(u, n) \/ Promised(u, n)

ServeInv == TypeOK /\ Shape /\ Grouped /\ ClockRead /\ Knows /\ ServeDue

\* What a step has to keep of it beside the shape of the threads.
Kept == ClockRead' /\ Knows' /\ ServeDue'

LEMMA InitServe == Init => ServeInv
<1>. SUFFICES ASSUME Init PROVE ServeInv
    OBVIOUS
<1>1. TypeOK /\ Shape
    BY InitType, InitShape
<1>2. Grouped
    BY DEF Init, Grouped
<1>3. ClockRead /\ Knows
    BY DEF Init, ClockRead, Knows, Threads
<1>4. ServeDue
    <2>1. /\ \A u \in Users : Live(u) => u \in Founders
          /\ \A t \in Threads : pc[t] = "idle"
          /\ \A n \in Nodes :
                 /\ installed[n] = {u \in Founders : GroupOf[u] \in Serves[n]}
                 /\ DOMAIN late[n] = {}
        BY DEF Init, Live
    <2>. QED  BY <2>1 DEF ServeDue, Due, In, Stored, WillOmit
<1>. QED  BY <1>1, <1>2, <1>3, <1>4 DEF ServeInv

\* What the sweep has recorded, and what it will record, stays.
LEMMA SweepAlike ==
    ASSUME UNCHANGED <<ent, slist, listed, sleft>>,
           pc'[Sweeper] = "reset" <=> pc[Sweeper] = "reset",
           pc[Sweeper] = "reset" => at'[Sweeper] = at[Sweeper]
    PROVE  \A v \in Users : RecordedOut(v) => RecordedOut(v)'
BY DEF RecordedOut, SweepSays, Entitled, Zeroed

\* Steps that change no thread's part in an apply but may write rows: whoever
\* is entitled after one was before, or its group is to be applied.
LEMMA RowServe ==
    ASSUME TypeOK, TypeOK', ServeDue, ClockRead',
           UNCHANGED <<pending, left, failed, grp, node, gleft, push, crossed,
                       forgotten>>,
           missed \subseteq missed',
           \A v \in Users, n \in Nodes : Stored(v, n) => Stored(v, n)',
           \A t \in Threads : /\ pc[t] = "read" <=> pc'[t] = "read"
                              /\ pc[t] = "read" => at'[t] = at[t]
                              /\ todo[t] \subseteq todo'[t],
           \A v \in Users : Live(v)' /\ RecordedOut(v) => RecordedOut(v)',
           \A v \in Users : Live(v)' /\ Entitled(row'[v], now') =>
               \/ Live(v) /\ Entitled(row[v], now)
               \/ \E t \in Threads : GroupOf[v] \in todo'[t]
               \/ v \in missed' \/ RecordedOut(v)'
    PROVE  ServeDue'
<1>. SUFFICES ASSUME NEW u \in Users, NEW n \in Nodes, Due(u, n)',
                     u \notin missed', n \notin forgotten', ~RecordedOut(u)'
              PROVE  In(u, n)' \/ Promised(u, n)'
    BY DEF ServeDue, Promised
<1>1. Live(u)' /\ Entitled(row'[u], now') /\ GroupOf[u] \in Serves[n]
    BY DEF Due
<1>2. CASE \E t \in Threads : GroupOf[u] \in todo'[t]
    BY <1>1, <1>2 DEF Promised, WillServe, WillApply
<1>3. CASE Live(u) /\ Entitled(row[u], now)
    <2>1. In(u, n) \/ Promised(u, n)
        BY <1>1, <1>3 DEF ServeDue, Due
    <2>2. In(u, n) => In(u, n)'
        BY DEF In, WillOmit
    <2>3. RecordedOut(u) => RecordedOut(u)'
        BY <1>1
    <2>4. Marked(n) => Marked(n)'
        BY DEF Marked
    <2>5. ASSUME NEW t \in Threads, WillServe(t, u, n)
          PROVE  WillServe(t, u, n)'
        <3>1. CASE WillApply(t, n)
            BY <3>1 DEF WillServe, WillApply
        <3>2. CASE /\ grp[t] \in Serves[n] /\ node[t] = n /\ pc[t] = "read"
                   /\ u \in push[t] \/ GroupOf[u] \in gleft[t]
            <4>1. pc'[t] = "read" /\ at'[t] \in Nat /\ at'[t] <= now' /\ now' \in Nat
                BY <3>2 DEF ClockRead, TypeOK
            <4>2. Entitled(row'[u], at'[t])
                BY <1>1, <4>1, EntitledMono DEF TypeOK
            <4>. QED  BY <3>2, <4>1, <4>2 DEF WillServe
        <3>. QED  BY <2>5, <3>1, <3>2 DEF WillServe
    <2>. QED  BY <2>1, <2>2, <2>3, <2>4, <2>5 DEF Promised
<1>. QED  BY <1>1, <1>2, <1>3

\* The same for one thread outside of applyStoredNode.
LEMMA OneServe ==
    ASSUME ServeInv, TypeOK', now <= now',
           NEW t \in Threads, pc[t] # "read", pc'[t] # "read",
           todo[t] \subseteq todo'[t],
           \A s \in Threads \ {t} : /\ pc'[s] = pc[s] /\ todo'[s] = todo[s]
                                    /\ at'[s] = at[s],
           UNCHANGED <<pending, agents, left, failed, grp, node, gleft, push,
                       crossed, forgotten>>,
           missed \subseteq missed', Knows',
           \A v \in Users : Live(v)' /\ RecordedOut(v) => RecordedOut(v)',
           \A v \in Users : Live(v)' /\ Entitled(row'[v], now') =>
               \/ Live(v) /\ Entitled(row[v], now)
               \/ GroupOf[v] \in todo'[t]
               \/ v \in missed' \/ RecordedOut(v)'
    PROVE  Kept
<1>. USE DEF ServeInv
<1>2. ClockRead'
    <2>. SUFFICES ASSUME NEW s \in Threads, pc'[s] = "read"
                  PROVE  at'[s] <= now'
        BY DEF ClockRead
    <2>1. at'[s] = at[s] /\ at[s] <= now
        BY DEF ClockRead
    <2>2. at[s] \in Nat /\ now \in Nat /\ now' \in Nat
        BY DEF TypeOK
    <2>. QED  BY <2>1, <2>2
<1>3. ServeDue'
    <2>1. \A v \in Users, n \in Nodes : Stored(v, n) => Stored(v, n)'
        BY DEF Stored
    <2>. QED  BY <1>2, <2>1, RowServe
<1>. QED  BY <1>2, <1>3 DEF Kept

LEMMA RequestServe ==
    ASSUME ServeInv, TypeOK', NEW t \in Requests,
           \E u \in Users : \/ \E r \in NewRows : CreateUser(t, u, r)
                            \/ RevokeUser(t, u) \/ DeleteUser(t, u)
                            \/ PatchRead(t, u)
    PROVE  Kept
<1>. USE DEF ServeInv
<1>1. /\ t \in Threads \ {Sweeper} /\ pc[t] = "idle" /\ todo[t] = {}
    BY PlaneAssumption DEF Threads, Shape, Queued, CreateUser, RevokeUser,
                           DeleteUser, PatchRead, Request
<1>2. /\ pc'[t] # "read"
      /\ \A s \in Threads \ {t} : pc'[s] = pc[s] /\ todo'[s] = todo[s]
      /\ UNCHANGED <<now, memory, agents, grouping, applying, slist, listed, sleft,
                     excuses>>
    BY <1>1, SMTT(30) DEF CreateUser, RevokeUser, DeleteUser, PatchRead, Request, ThenApply,
                TypeOK
<1>3. \A v \in Users : RecordedOut(v) => RecordedOut(v)'
    BY <1>1, <1>2, SweepAlike DEF Threads
<1>4. PICK u \in Users : \/ \E r \in NewRows : CreateUser(t, u, r)
                         \/ RevokeUser(t, u) \/ DeleteUser(t, u)
                         \/ PatchRead(t, u)
    OBVIOUS
<1>. DEFINE Fair == /\ \A v \in Users \ {u} : life'[v] = life[v] /\ row'[v] = row[v]
                    /\ Live(u)' => \/ Live(u) /\ row'[u] = row[u]
                                   \/ GroupOf[u] \in todo'[t]
                    /\ Live(u)' /\ ~Live(u) => ~Born(u)
<1>5. Fair
    <2>1. ASSUME NEW r \in NewRows, CreateUser(t, u, r)
          PROVE  Fair
        BY <1>1, <2>1 DEF CreateUser, ThenApply, TypeOK, Born
    <2>2. CASE RevokeUser(t, u)
        BY <1>1, <2>2 DEF RevokeUser, Rewrite, ThenApply, TypeOK
    <2>3. CASE DeleteUser(t, u)
        BY <1>1, <2>3 DEF DeleteUser, TypeOK
    <2>4. CASE PatchRead(t, u)
        BY <2>4 DEF PatchRead
    <2>. QED  BY <1>4, <2>1, <2>2, <2>3, <2>4
<1>6. Knows'
    BY <1>1, <1>2, <1>5 DEF Knows, Threads, Shape, Unseen
<1>7. \A v \in Users : Live(v)' /\ Entitled(row'[v], now') =>
          \/ Live(v) /\ Entitled(row[v], now)
          \/ GroupOf[v] \in todo'[t]
    BY <1>2, <1>5 DEF Entitled
<1>8. now <= now'
    BY <1>2 DEF TypeOK
<1>. QED  BY <1>1, <1>2, <1>3, <1>6, <1>7, <1>8, OneServe

\* A patch that names a column that decides who is entitled applies the group;
\* where one that does not lets a user in again, that is noted.
LEMMA PatchServe ==
    ASSUME ServeInv, TypeOK', NEW t \in Requests, PatchStep(t)
    PROVE  Kept
<1>. USE DEF ServeInv
<1>1. /\ t \in Threads \ {Sweeper} /\ pc[t] = "patch" /\ todo[t] = {}
      /\ who[t] \in Users
    BY PlaneAssumption DEF Threads, Shape, Queued, Serving, PatchStep, PatchFails,
                           PatchWrite
<1>2. /\ pc'[t] # "read"
      /\ \A s \in Threads \ {t} : pc'[s] = pc[s] /\ todo'[s] = todo[s]
      /\ UNCHANGED <<now, life, memory, agents, grouping, applying, slist, listed,
                     sleft, crossed, forgotten>>
    BY <1>1 DEF PatchStep, PatchFails, PatchWrite, ThenApply, TypeOK
<1>3. \A v \in Users : RecordedOut(v) => RecordedOut(v)'
    BY <1>1, <1>2, SweepAlike DEF Threads
<1>4. /\ \A v \in Users \ {who[t]} : row'[v] = row[v]
      /\ missed \subseteq missed'
      /\ \/ UNCHANGED row \/ GroupOf[who[t]] \in todo'[t]
         \/ UnseenReturn(who[t], row'[who[t]]) \subseteq missed'
    <2>1. CASE PatchFails(t)
        BY <2>1 DEF PatchFails
    <2>2. ASSUME NEW p \in Patches, PatchWrite(t, p)
          PROVE  /\ \A v \in Users \ {who[t]} : row'[v] = row[v]
                 /\ missed \subseteq missed'
                 /\ \/ UNCHANGED row \/ GroupOf[who[t]] \in todo'[t]
                    \/ UnseenReturn(who[t], row'[who[t]]) \subseteq missed'
        <3>. DEFINE r == Patched(copy[t], p)
        <3>1. CASE ~Live(who[t])
            BY <2>2, <3>1 DEF PatchWrite
        <3>2. CASE Live(who[t])
            <4>1. row' = [row EXCEPT ![who[t]] = r]
                BY <2>2, <3>2 DEF PatchWrite, Rewrite
            <4>. HIDE DEF r
            <4>2. /\ row'[who[t]] = r
                  /\ \A v \in Users \ {who[t]} : row'[v] = row[v]
                BY <1>1, <4>1 DEF TypeOK
            <4>3. \/ GroupOf[who[t]] \in todo'[t] /\ UNCHANGED missed
                  \/ missed' = missed \cup UnseenReturn(who[t], r)
                BY <1>1, <2>2, <3>2 DEF PatchWrite, ThenApply, TypeOK, r
            <4>. QED  BY <4>2, <4>3
        <3>. QED  BY <3>1, <3>2
    <2>. QED  BY <2>1, <2>2 DEF PatchStep
<1>5. Knows'
    BY <1>1, <1>2 DEF Knows, Threads
<1>6. ASSUME NEW v \in Users, Live(v)', Entitled(row'[v], now')
      PROVE  \/ Live(v) /\ Entitled(row[v], now)
             \/ GroupOf[v] \in todo'[t]
             \/ v \in missed' \/ RecordedOut(v)'
    <2>1. Live(v) /\ now' = now
        BY <1>2, <1>6 DEF Live
    <2>2. CASE v # who[t] \/ UNCHANGED row \/ GroupOf[who[t]] \in todo'[t]
        BY <1>4, <1>6, <2>1, <2>2
    <2>3. CASE v = who[t] /\ UnseenReturn(who[t], row'[who[t]]) \subseteq missed'
        BY <1>3, <1>6, <2>1, <2>3 DEF UnseenReturn
    <2>. QED  BY <1>4, <2>2, <2>3
<1>7. now <= now'
    BY <1>2 DEF TypeOK
<1>. QED  BY <1>1, <1>2, <1>3, <1>4, <1>5, <1>6, <1>7, OneServe

\* Traffic takes entitlement away, and a failing query of the collector changes
\* no row.
LEMMA CollectServe ==
    ASSUME ServeInv, TypeOK',
           \/ CollectStep \/ CollectCreditFails
           \/ \E u \in Users : CollectReadFails(u)
    PROVE  Kept
<1>. USE DEF ServeInv
<1>1. /\ Collector \in Threads \ {Sweeper}
      /\ pc[Collector] \in {"idle", "collect", "credit"}
    BY PlaneAssumption DEF Threads, CollectStep, CollectBegin, CollectRead,
                           CollectCredit, CollectEnd, CollectReadFails,
                           CollectCreditFails
<1>2. /\ pc'[Collector] # "read" /\ todo[Collector] \subseteq todo'[Collector]
      /\ \A s \in Threads \ {Collector} : /\ pc'[s] = pc[s] /\ todo'[s] = todo[s]
                                          /\ at'[s] = at[s]
    BY <1>1 DEF CollectStep, CollectBegin, CollectRead, CollectCredit,
                CollectEnd, CollectReadFails, CollectCreditFails, TypeOK
<1>3. UNCHANGED <<now, life, memory, agents, grouping, node, gleft, push, slist,
                  listed, sleft, history>>
    BY DEF CollectStep, CollectBegin, CollectRead, CollectCredit, CollectEnd,
           CollectReadFails, CollectCreditFails
<1>4. \A v \in Users : Entitled(row'[v], now') => Entitled(row[v], now)
    <2>1. CASE UNCHANGED row
        BY <1>3, <2>1 DEF Entitled
    <2>2. ASSUME NEW u \in Users, row' = [row EXCEPT ![u] =
                                           [row[u] EXCEPT !.used = @ + 1]]
          PROVE  \A v \in Users : Entitled(row'[v], now') => Entitled(row[v], now)
        <3>1. /\ row[u] \in Rows /\ row[u].used \in Nat
              /\ row[u].used <= row[u].used + 1 /\ row[u].used + 1 \in Nat
            BY UsedNat DEF TypeOK
        <3>2. /\ row'[u] = [row[u] EXCEPT !.used = row[u].used + 1]
              /\ \A v \in Users \ {u} : row'[v] = row[v]
            BY <2>2 DEF TypeOK
        <3>3. \A a \in Nat : Entitled(row'[u], a) => Entitled(row[u], a)
            BY <3>1, <3>2, UsedMono
        <3>4. now' = now /\ now \in Nat
            BY <1>3 DEF TypeOK
        <3>5. ASSUME NEW v \in Users, Entitled(row'[v], now')
              PROVE  Entitled(row[v], now)
            BY <3>2, <3>3, <3>4, <3>5
        <3>. QED  BY <3>5
    <2>3. CASE CollectCredit
        <3>1. who[Collector] \in Users
            BY <1>1, <2>3 DEF CollectCredit, Shape, Serving
        <3>. QED  BY <2>1, <2>2, <2>3, <3>1 DEF CollectCredit
    <2>. QED  BY <2>1, <2>3 DEF CollectStep, CollectBegin, CollectRead, CollectEnd,
                                 CollectReadFails, CollectCreditFails
<1>5. \A v \in Users : RecordedOut(v) => RecordedOut(v)'
    BY <1>1, <1>2, <1>3, SweepAlike DEF Threads
<1>6. Knows'
    BY <1>1, <1>2, <1>3 DEF Knows, Threads
<1>7. now <= now'
    BY <1>3 DEF TypeOK
<1>. QED  BY <1>1, <1>2, <1>3, <1>4, <1>5, <1>6, <1>7, OneServe

\* Another thread's part does not depend on the step of t.
LEMMA AsideServe ==
    ASSUME NEW t \in Threads, Aside(t), UNCHANGED row,
           NEW u \in Users, NEW n \in Nodes, NEW s \in Threads \ {t}
    PROVE  /\ WillServe(s, u, n)' <=> WillServe(s, u, n)
           /\ WillOmit(s, u, n)' <=> WillOmit(s, u, n)
<1>1. Entitled(row[u], at[s])' = Entitled(row[u], at[s])
    BY DEF Aside, Entitled
<1>. QED  BY <1>1 DEF Aside, WillServe, WillApply, WillOmit

\* A step of an apply: whoever has a place keeps it, and a promise is kept,
\* handed on or marked.
LEMMA ApplyServe ==
    ASSUME ServeInv, TypeOK', NEW t \in Threads, Aside(t),
           pc[t] # "reset", pc'[t] # "reset",
           pc[t] # "listed", pc'[t] # "listed",
           UNCHANGED <<now, table, ent, slist, listed, sleft>>,
           pc'[t] = "read" => at'[t] <= now,
           \A n \in Nodes : n \in forgotten \/ Marked(n) =>
               \/ n \in forgotten' \/ Marked(n)'
               \/ \A u \in Users : WillServe(t, u, n)',
           \A u \in missed, n \in Nodes : GroupOf[u] \in Serves[n] =>
               u \in missed' \/ Marked(n)' \/ WillServe(t, u, n)',
           \A u \in Users, n \in Nodes : Due(u, n) =>
               /\ Stored(u, n) /\ ~WillOmit(t, u, n) =>
                      Stored(u, n)' /\ ~WillOmit(t, u, n)'
               /\ WillServe(t, u, n) =>
                      \/ In(u, n)' \/ Marked(n)' \/ WillServe(t, u, n)'
                      \/ n \in forgotten'
    PROVE  Kept
<1>. USE DEF ServeInv
<1>2. ClockRead'
    BY DEF ClockRead, Aside
<1>3. /\ pc'[Sweeper] = "reset" <=> pc[Sweeper] = "reset"
      /\ pc'[Sweeper] = "listed" <=> pc[Sweeper] = "listed"
      /\ pc[Sweeper] = "reset" => at'[Sweeper] = at[Sweeper]
    BY DEF Aside, Threads
<1>4. Knows'
    BY <1>3 DEF Knows
<1>5. \A v \in Users : RecordedOut(v) => RecordedOut(v)'
    BY <1>3, SweepAlike
<1>6. ASSUME NEW u \in Users, NEW n \in Nodes, Due(u, n), u \notin missed',
             n \notin forgotten'
      PROVE  In(u, n)' \/ Promised(u, n)'
    <2>1. In(u, n) => In(u, n)'
        <3>1. \A s \in Threads \ {t} : WillOmit(s, u, n)' <=> WillOmit(s, u, n)
            BY AsideServe
        <3>. QED  BY <1>6, <3>1 DEF In
    <2>2. CASE n \in forgotten \/ Marked(n)
        BY <1>6, <2>2 DEF Promised
    <2>3. CASE u \in missed
        BY <1>6, <2>3 DEF Promised, Due
    <2>4. ASSUME NEW s \in Threads, WillServe(s, u, n)
          PROVE  In(u, n)' \/ Promised(u, n)'
        <3>1. CASE s = t
            BY <1>6, <2>4, <3>1 DEF Promised
        <3>2. CASE s # t
            BY <2>4, <3>2, AsideServe DEF Promised
        <3>. QED  BY <3>1, <3>2
    <2>5. CASE u \notin missed /\ n \notin forgotten
        <3>1. In(u, n) \/ Promised(u, n)
            BY <1>6, <2>5 DEF ServeDue
        <3>. QED  BY <1>5, <2>1, <2>2, <2>4, <3>1 DEF Promised
    <2>. QED  BY <2>2, <2>3, <2>5
<1>7. ServeDue'
    <2>. SUFFICES ASSUME NEW u \in Users, NEW n \in Nodes, Due(u, n)',
                         u \notin missed', n \notin forgotten'
                  PROVE  In(u, n)' \/ Promised(u, n)'
        BY DEF ServeDue
    <2>1. Due(u, n)
        BY DEF Due, Entitled
    <2>. QED  BY <1>6, <2>1
<1>. QED  BY <1>2, <1>4, <1>7 DEF Kept

\* Outside of applyStoredNode nobody is left out.
LEMMA HandsOnServe ==
    ASSUME ServeInv, TypeOK', NEW t \in Threads, HandsOn(t)
    PROVE  Kept
<1>1. ASSUME NEW u \in Users, NEW n \in Nodes
      PROVE  /\ ~WillOmit(t, u, n)'
             /\ Stored(u, n) => Stored(u, n)'
             /\ WillServe(t, u, n) <=> WillApply(t, n)
             /\ WillServe(t, u, n)' <=> WillApply(t, n)'
    BY DEF WillOmit, Stored, WillServe, WillApply, HandsOn
<1>2. missed \subseteq Users
    BY DEF ServeInv, TypeOK
<1>. QED  BY <1>1, <1>2, ApplyServe DEF HandsOn

\* Whoever locks the node reads the clock and then the rows: it omits nobody
\* that is entitled.
LEMMA LockServe ==
    ASSUME ServeInv, TypeOK', NEW t \in Threads, NEW m \in Nodes, Lock(t, m)
    PROVE  Kept
<1>. USE DEF ServeInv
<1>1. /\ pc[t] = "nodes" /\ pc'[t] = "read" /\ todo'[t] = todo[t]
      /\ node'[t] = m /\ left'[t] = left[t] \ {m} /\ at'[t] = now
      /\ gleft'[t] = Serves[m]
    BY DEF Lock, TypeOK
<1>2. Aside(t)
    BY DEF Aside, Lock, TypeOK
<1>3. UNCHANGED <<now, table, pending, ent, agents, grp, failed, slist, listed,
                  sleft, history>>
    BY DEF Lock
<1>4. at'[t] <= now
    BY <1>1 DEF TypeOK
<1>5. \A n \in Nodes : Marked(n) => Marked(n)'
    BY <1>2, <1>3 DEF Marked
<1>6. ASSUME NEW u \in Users, NEW n \in Nodes, Due(u, n)
      PROVE  /\ ~WillOmit(t, u, n)'
             /\ Stored(u, n) => Stored(u, n)'
             /\ WillServe(t, u, n) => WillServe(t, u, n)'
    <2>1. ~WillOmit(t, u, n)'
        BY <1>1, <1>6 DEF WillOmit, Due
    <2>2. Stored(u, n) => Stored(u, n)'
        BY <1>3 DEF Stored
    <2>3. ASSUME WillServe(t, u, n) PROVE WillServe(t, u, n)'
        <3>1. WillApply(t, n)
            BY <1>1, <2>3 DEF WillServe
        <3>2. CASE n = m
            <4>1. GroupOf[u] \in gleft'[t] /\ Entitled(row'[u], at'[t])
                BY <1>1, <1>3, <1>6, <3>2 DEF Due, Entitled
            <4>. QED  BY <1>1, <1>3, <3>1, <3>2, <4>1 DEF WillServe, WillApply
        <3>3. CASE n # m
            BY <1>1, <1>3, <3>1, <3>3 DEF WillServe, WillApply
        <3>. QED  BY <3>2, <3>3
    <2>. QED  BY <2>1, <2>2, <2>3
<1>. QED  BY <1>1, <1>2, <1>3, <1>4, <1>5, <1>6, ApplyServe

LEMMA ReadServe ==
    ASSUME ServeInv, TypeOK', NEW t \in Threads, NEW g \in Groups, ReadGroup(t, g)
    PROVE  Kept
<1>. USE DEF ServeInv
<1>1. /\ pc[t] = "read" /\ gleft'[t] = gleft[t] \ {g}
      /\ push'[t] = push[t] \cup Allowed(g, at[t])
    BY DEF ReadGroup, TypeOK
<1>2. Aside(t)
    BY DEF Aside, ReadGroup, TypeOK
<1>3. UNCHANGED <<now, table, pending, ent, agents, pc, todo, grp, left, failed,
                  node, at, slist, listed, sleft, history>>
    BY DEF ReadGroup
<1>4. at'[t] <= now /\ at[t] \in Nat /\ now \in Nat /\ at[t] <= now
    BY <1>1, <1>3 DEF TypeOK, ClockRead
<1>5. \A n \in Nodes : Marked(n) => Marked(n)'
    BY <1>3 DEF Marked
<1>6. ASSUME NEW u \in Users, NEW n \in Nodes, Due(u, n)
      PROVE  /\ WillOmit(t, u, n)' => WillOmit(t, u, n)
             /\ Stored(u, n) => Stored(u, n)'
             /\ WillServe(t, u, n) => WillServe(t, u, n)'
    <2>1. Entitled(row[u], at[t])
        BY <1>4, <1>6, EntitledMono DEF Due, TypeOK
    <2>2. GroupOf[u] = g => u \in push'[t]
        BY <1>1, <1>6, <2>1 DEF Allowed, Due
    <2>3. Entitled(row'[u], at'[t])
        BY <1>3, <2>1 DEF Entitled
    <2>4. WillOmit(t, u, n)' => WillOmit(t, u, n)
        BY <1>1, <1>3, <2>2 DEF WillOmit
    <2>5. Stored(u, n) => Stored(u, n)'
        BY <1>3 DEF Stored
    <2>6. ASSUME WillServe(t, u, n) PROVE WillServe(t, u, n)'
        <3>1. CASE WillApply(t, n)
            BY <1>3, <3>1 DEF WillServe, WillApply
        <3>2. CASE /\ grp[t] \in Serves[n] /\ node[t] = n
                   /\ u \in push[t] \/ GroupOf[u] \in gleft[t]
            BY <1>1, <1>3, <2>2, <2>3, <3>2 DEF WillServe
        <3>. QED  BY <2>6, <3>1, <3>2 DEF WillServe
    <2>. QED  BY <2>4, <2>5, <2>6
<1>. QED  BY <1>1, <1>2, <1>3, <1>4, <1>5, <1>6, ApplyServe

\* A PUT leaves out only whom the list left out.
LEMMA PutStored ==
    ASSUME TypeOK, NEW t \in Threads,
           \/ ReadFails(t) \/ PutOk(t) \/ PutRefused(t) \/ PutTimesOut(t)
           \/ PutPartial(t) \/ PutUnsaved(t),
           NEW u \in Users, NEW n \in Nodes, Stored(u, n), ~WillOmit(t, u, n)
    PROVE  Stored(u, n)'
<1>1. CASE UNCHANGED agents
    BY <1>1 DEF Stored
<1>2. gleft[t] = {} /\ pc[t] = "read" => node[t] # n \/ u \in push[t]
    BY DEF WillOmit
<1>3. CASE /\ gleft[t] = {} /\ pc[t] = "read"
           /\ installed' = [installed EXCEPT ![node[t]] = push[t]]
           /\ UNCHANGED late
    BY <1>2, <1>3 DEF Stored, TypeOK
<1>4. CASE /\ gleft[t] = {} /\ pc[t] = "read"
           /\ late' = [late EXCEPT ![node[t]] = Append(@, push[t])]
           /\ UNCHANGED installed
    <2>1. late[n] \in Seq(SUBSET Users) /\ push[t] \in SUBSET Users
        BY DEF TypeOK
    <2>2. CASE node[t] = n
        <3>1. late'[n] = Append(late[n], push[t])
            BY <1>4, <2>2 DEF TypeOK
        <3>2. \A i \in DOMAIN late'[n] :
                  late'[n][i] = push[t] \/ (i \in DOMAIN late[n]
                                            /\ late'[n][i] = late[n][i])
            BY <2>1, <3>1
        <3>. QED  BY <1>2, <1>4, <2>2, <3>2 DEF Stored
    <2>3. CASE node[t] # n
        BY <1>4, <2>3 DEF Stored, TypeOK
    <2>. QED  BY <2>2, <2>3
<1>. QED  BY <1>1, <1>3, <1>4 DEF ReadFails, PutOk, PutRefused, PutTimesOut,
                                  PutPartial, PutUnsaved

\* Only the holder of the mutex sends to the node: whoever is on its list is let
\* in, and nobody is about to leave it out.
LEMMA ReturnServe ==
    ASSUME ServeInv, TypeOK', NEW t \in Threads,
           \/ ReadFails(t) \/ PutOk(t) \/ PutRefused(t) \/ PutTimesOut(t)
           \/ PutPartial(t) \/ PutUnsaved(t)
    PROVE  Kept
<1>. USE DEF ServeInv
<1>1. Aside(t)
    BY ReturnFacts
<1>2. /\ pc[t] = "read" /\ pc'[t] = "nodes" /\ node[t] \in Nodes
      /\ UNCHANGED <<now, table, pending, ent, todo, grp, left, slist, listed,
                     sleft, crossed, missed>>
      /\ failed[t] => failed'[t]
      /\ forgotten \subseteq forgotten'
      /\ grp[t] # None => \/ failed'[t] \/ node[t] \in forgotten'
                          \/ PutOk(t) /\ late[node[t]] = <<>>
    BY ReturnFacts
<1>3. \A n \in Nodes : Marked(n) => Marked(n)'
    BY <1>2 DEF Marked
<1>4. ASSUME NEW u \in Users, NEW n \in Nodes
      PROVE  ~WillOmit(t, u, n)'
    BY <1>2 DEF WillOmit
<1>5. ASSUME NEW u \in Users, NEW n \in Nodes, WillServe(t, u, n)
      PROVE  In(u, n)' \/ WillServe(t, u, n)' \/ n \in forgotten'
    <2>1. CASE WillApply(t, n)
        BY <1>2, <2>1 DEF WillServe, WillApply
    <2>2. CASE grp[t] \in Serves[n] /\ failed'[t]
        BY <1>2, <2>2 DEF WillServe, WillApply
    <2>3. CASE PutOk(t) /\ node[t] = n /\ u \in push[t] /\ late[n] = <<>>
        <3>1. UNCHANGED late /\ installed'[n] = push[t]
            BY <2>3 DEF PutOk, TypeOK
        <3>2. Stored(u, n)'
            BY <2>3, <3>1 DEF Stored
        <3>3. ASSUME NEW s \in Threads, WillOmit(s, u, n)'
              PROVE  FALSE
            <4>1. s # t /\ WillOmit(s, u, n)
                BY <1>1, <1>2, <1>4, <3>3, AsideServe
            <4>2. holder[n] = s /\ holder[n] = t
                BY <1>2, <2>3, <4>1 DEF WillOmit, Shape, Locked
            <4>. QED  BY <4>1, <4>2
        <3>. QED  BY <3>2, <3>3 DEF In
    <2>4. PutOk(t) => gleft[t] = {}
        BY DEF PutOk
    <2>5. CASE ~WillApply(t, n)
        <3>1. /\ grp[t] \in Serves[n] /\ node[t] = n
              /\ u \in push[t] \/ GroupOf[u] \in gleft[t]
            BY <1>5, <2>5 DEF WillServe
        <3>2. grp[t] # None
            BY <3>1, PlaneAssumption
        <3>. QED  BY <1>2, <2>2, <2>3, <2>4, <3>1, <3>2
    <2>. QED  BY <2>1, <2>5
<1>. QED  BY <1>1, <1>2, <1>3, <1>4, <1>5, PutStored, ApplyServe

\* What an agent still has lets in whoever has a place.
LEMMA AgentServe ==
    ASSUME ServeInv, TypeOK', NEW m \in Nodes, AgentStep(m)
    PROVE  Kept
<1>. USE DEF ServeInv
<1>1. UNCHANGED <<now, table, memory, pc, todo, grouping, applying, slist, listed,
                  sleft, history>>
    BY DEF AgentStep, LateApplied, LateDropped
<1>2. PICK i \in DOMAIN late[m] :
          /\ late' = [late EXCEPT ![m] = Without(@, i)]
          /\ \/ installed' = [installed EXCEPT ![m] = late[m][i]]
             \/ UNCHANGED installed
    BY DEF AgentStep, LateApplied, LateDropped
<1>4. ASSUME NEW u \in Users, NEW n \in Nodes, Stored(u, n)
      PROVE  Stored(u, n)'
    <2>1. CASE n = m
        <3>1. late'[m] = Without(late[m], i)
            BY <1>2 DEF TypeOK
        <3>2. installed'[m] = late[m][i] \/ installed'[m] = installed[m]
            BY <1>2 DEF TypeOK
        <3>3. late[m] \in Seq(SUBSET Users)
            BY DEF TypeOK
        <3>4. \A j \in DOMAIN Without(late[m], i) :
                  \E k \in DOMAIN late[m] : Without(late[m], i)[j] = late[m][k]
            BY <3>3, WithoutFacts
        <3>5. \A j \in DOMAIN late'[m] : u \in late'[m][j]
            BY <1>4, <2>1, <3>1, <3>4 DEF Stored
        <3>. QED  BY <1>4, <2>1, <3>2, <3>5 DEF Stored
    <2>2. CASE n # m
        BY <1>2, <1>4, <2>2 DEF Stored, TypeOK
    <2>. QED  BY <2>1, <2>2
<1>5. ClockRead' /\ Knows'
    BY <1>1 DEF ClockRead, Knows
<1>6. \A v \in Users : RecordedOut(v) => RecordedOut(v)'
    BY <1>1, SweepAlike
<1>7. \A v \in Users : Entitled(row'[v], now') => Entitled(row[v], now)
    BY <1>1 DEF Entitled
<1>8. ServeDue'
    BY <1>1, <1>4, <1>5, <1>6, <1>7, RowServe
<1>. QED  BY <1>5, <1>8 DEF Kept

LEMMA ListServe ==
    ASSUME ServeInv, TypeOK', SweepList
    PROVE  Kept
<1>. USE DEF ServeInv
<1>1. /\ UNCHANGED <<now, table, memory, agents, todo, grouping, applying, history>>
      /\ Sweeper \in Threads /\ pc[Sweeper] = "idle" /\ pc'[Sweeper] = "listed"
      /\ slist' = {u \in Users : Live(u)}
      /\ \A t \in Threads \ {Sweeper} : pc'[t] = pc[t]
    BY DEF SweepList, TypeOK, Threads
<1>2. Knows'
    BY <1>1 DEF Knows
<1>3. \A v \in Users : RecordedOut(v) => RecordedOut(v)'
    BY <1>1 DEF RecordedOut
<1>4. \A v \in Users : Entitled(row'[v], now') => Entitled(row[v], now)
    BY <1>1 DEF Entitled
<1>5. now <= now'
    BY <1>1 DEF TypeOK
<1>. QED  BY <1>1, <1>2, <1>3, <1>4, <1>5, OneServe

LEMMA ClockServe ==
    ASSUME ServeInv, TypeOK', SweepClock
    PROVE  Kept
<1>. USE DEF ServeInv
<1>1. /\ UNCHANGED <<now, table, memory, agents, todo, grouping, node, gleft, push,
                     slist, excuses>>
      /\ Sweeper \in Threads /\ pc[Sweeper] = "listed" /\ pc'[Sweeper] = "reset"
      /\ \A t \in Threads \ {Sweeper} : pc'[t] = pc[t] /\ at'[t] = at[t]
    BY DEF SweepClock, TypeOK, Threads
<1>2. Knows'
    BY <1>1 DEF Knows
<1>3. \A v \in Users : RecordedOut(v) => RecordedOut(v)'
    BY <1>1 DEF RecordedOut
<1>4. \A v \in Users : Entitled(row'[v], now') => Entitled(row[v], now)
    BY <1>1 DEF Entitled
<1>5. now <= now'
    BY <1>1 DEF TypeOK
<1>. QED  BY <1>1, <1>2, <1>3, <1>4, <1>5, OneServe

\* A reset that gives a quota back applies the user's group.
LEMMA ResetServe ==
    ASSUME ServeInv, TypeOK', NEW u \in Users, SweepReset(u)
    PROVE  Kept
<1>. USE DEF ServeInv
<1>1. /\ Sweeper \in Threads /\ pc[Sweeper] = "reset"
      /\ UNCHANGED <<now, life, memory, agents, pc, grouping, applying, slist,
                     excuses>>
      /\ todo[Sweeper] \subseteq todo'[Sweeper]
      /\ \A s \in Threads \ {Sweeper} : todo'[s] = todo[s]
    BY DEF Threads, SweepReset, TypeOK
<1>2. Knows'
    BY <1>1 DEF Knows
<1>3. \A v \in Users : Live(v)' /\ RecordedOut(v) => RecordedOut(v)'
    BY <1>1, ResetSays DEF RecordedOut
<1>4. ASSUME NEW v \in Users, Live(v), Entitled(row'[v], now)
      PROVE  Entitled(row[v], now) \/ GroupOf[v] \in todo'[Sweeper]
    <2>1. CASE v # u \/ ~Live(u)
        BY <1>4, <2>1 DEF SweepReset, Rewrite, TypeOK
    <2>2. CASE v = u /\ Live(u) /\ listed[u].period # Never
        BY <1>1, <2>2 DEF SweepReset, TypeOK
    <2>3. CASE v = u /\ Live(u) /\ listed[u].period = Never
        <3>. DEFINE start == PeriodStart(listed[u].reset, at[Sweeper])
        <3>1. row'[u] = [row[u] EXCEPT !.period = start]
            BY <2>3 DEF SweepReset, Rewrite, TypeOK
        <3>2. row[u] \in Rows
            BY DEF TypeOK
        <3>. HIDE DEF start
        <3>3. /\ row'[u].status = row[u].status /\ row'[u].used = row[u].used
              /\ row'[u].total = row[u].total /\ row'[u].expire = row[u].expire
            BY <3>1, <3>2 DEF Rows
        <3>. QED  BY <1>4, <2>3, <3>3 DEF Entitled
    <2>. QED  BY <2>1, <2>2, <2>3
<1>5. now <= now' /\ now' = now
    BY <1>1 DEF TypeOK
<1>. QED  BY <1>1, <1>2, <1>3, <1>4, <1>5, OneServe

\* A reset that fails takes the quota back from a user only in what the sweep
\* will record.
LEMMA ResetFailsServe ==
    ASSUME ServeInv, TypeOK', NEW u \in Users, SweepResetFails(u)
    PROVE  Kept
<1>. USE DEF ServeInv
<1>1. /\ Sweeper \in Threads /\ pc[Sweeper] = "reset" /\ sleft' = sleft \ {u}
      /\ UNCHANGED <<now, table, memory, agents, pc, todo, grouping, applying,
                     slist, listed, excuses>>
    BY DEF Threads, SweepResetFails
<1>2. Knows'
    BY <1>1 DEF Knows
<1>3. ASSUME NEW v \in Users, RecordedOut(v)
      PROVE  RecordedOut(v)'
    <2>1. CASE ent[v] = "no"
        BY <1>1, <2>1 DEF RecordedOut
    <2>2. CASE v \in slist /\ ~SweepSays(v)
        <3>1. Entitled(listed[v], at[Sweeper]) => Entitled(Zeroed(listed[v]), at[Sweeper])
            <4>1. listed[v] \in Rows /\ at[Sweeper] \in Nat
                BY <1>1 DEF TypeOK
            <4>. QED  BY <4>1, ZeroedMono
        <3>2. ~Entitled(listed[v], at[Sweeper])
            BY <2>2, <3>1 DEF SweepSays
        <3>3. ~SweepSays(v)'
            BY <1>1, <2>2, <3>2 DEF SweepSays, Entitled, Zeroed
        <3>. QED  BY <1>1, <2>2, <3>3 DEF RecordedOut
    <2>. QED  BY <1>3, <2>1, <2>2 DEF RecordedOut
<1>4. \A v \in Users : Entitled(row'[v], now') => Entitled(row[v], now)
    BY <1>1 DEF Entitled
<1>5. now <= now'
    BY <1>1 DEF TypeOK
<1>. QED  BY <1>1, <1>2, <1>3, <1>4, <1>5, OneServe

\* The sweep that no longer has a user recorded as out applies its group.
LEMMA SwapServe ==
    ASSUME ServeInv, TypeOK', SweepSwap
    PROVE  Kept
<1>. USE DEF ServeInv
<1>. DEFINE says == [u \in Users |-> IF u \notin slist THEN "unseen"
                                     ELSE IF SweepSays(u) THEN "yes" ELSE "no"]
<1>1. /\ Sweeper \in Threads /\ pc[Sweeper] = "reset" /\ pc'[Sweeper] = "groups"
      /\ todo'[Sweeper] = todo[Sweeper] \cup Changed(says) \cup pending
      /\ ent' = says
    BY DEF Threads, SweepSwap, TypeOK
<1>2. \A t \in Threads \ {Sweeper} :
          pc'[t] = pc[t] /\ todo'[t] = todo[t] /\ at'[t] = at[t]
    BY DEF SweepSwap, TypeOK
<1>3. UNCHANGED <<now, table, pending, agents, grouping, node, gleft, push, excuses>>
    BY DEF SweepSwap
<1>4. \A v \in Users : says[v] = IF v \notin slist THEN "unseen"
                                 ELSE IF SweepSays(v) THEN "yes" ELSE "no"
    OBVIOUS
<1>. HIDE DEF says
<1>5. ClockRead'
    BY <1>1, <1>2, <1>3 DEF ClockRead
<1>6. Knows'
    BY <1>1 DEF Knows
<1>7. ServeDue'
    <2>. SUFFICES ASSUME NEW u \in Users, NEW n \in Nodes, Due(u, n),
                         u \notin missed, n \notin forgotten
                  PROVE  In(u, n)' \/ Promised(u, n)'
        BY <1>3 DEF ServeDue, Due, Entitled
    <2>1. In(u, n) => In(u, n)'
        BY <1>1, <1>2, <1>3 DEF In, Stored, WillOmit
    <2>2. ASSUME NEW t \in Threads, WillServe(t, u, n)
          PROVE  WillServe(t, u, n)'
        <3>1. CASE t = Sweeper
            BY <1>1, <1>3, <2>2, <3>1 DEF WillServe, WillApply
        <3>2. CASE t # Sweeper
            BY <1>2, <1>3, <2>2, <3>2 DEF WillServe, WillApply, Entitled
        <3>. QED  BY <3>1, <3>2
    <2>3. Marked(n) => Marked(n)'
        BY <1>3 DEF Marked
    <2>4. ASSUME RecordedOut(u)
          PROVE  Promised(u, n)'
        <3>1. CASE says[u] = "no"
            BY <1>1, <3>1 DEF Promised, RecordedOut
        <3>2. CASE says[u] # "no"
            <4>1. ent[u] = "no"
                BY <1>4, <2>4, <3>2 DEF RecordedOut
            <4>2. u \in slist
                BY <1>1, <4>1 DEF Knows, Due
            <4>3. says[u] = "yes"
                BY <1>4, <3>2, <4>2
            <4>4. GroupOf[u] \in Changed(says)
                BY <4>1, <4>3 DEF Changed
            <4>. QED  BY <1>1, <4>4 DEF Promised, WillServe, WillApply, Due
        <3>. QED  BY <3>1, <3>2
    <2>. QED  BY <2>1, <2>2, <2>3, <2>4 DEF ServeDue, Promised
<1>. QED  BY <1>5, <1>6, <1>7 DEF Kept

LEMMA TickServe ==
    ASSUME ServeInv, TypeOK', Tick \/ UNCHANGED vars
    PROVE  Kept
<1>. USE DEF ServeInv
<1>1. /\ UNCHANGED <<table, memory, agents, pc, todo, grouping, applying, others,
                     history>>
      /\ now <= now'
    BY DEF Tick, vars, TypeOK
<1>2. Knows'
    BY <1>1 DEF Knows
<1>3. ClockRead'
    <2>. SUFFICES ASSUME NEW t \in Threads, pc[t] = "read"
                  PROVE  at[t] <= now'
        BY <1>1 DEF ClockRead
    <2>1. at[t] <= now /\ at[t] \in Nat /\ now \in Nat /\ now' \in Nat
        BY DEF ClockRead, TypeOK
    <2>. QED  BY <1>1, <2>1
<1>4. \A v \in Users : RecordedOut(v) => RecordedOut(v)'
    BY <1>1, SweepAlike
<1>5. \A v \in Users : Entitled(row'[v], now') => Entitled(row[v], now)
    <2>1. now \in Nat /\ now' \in Nat /\ \A v \in Users : row[v] \in Rows
        BY DEF TypeOK
    <2>. QED  BY <1>1, <2>1, EntitledMono
<1>6. ServeDue'
    <2>1. \A v \in Users, n \in Nodes : Stored(v, n) => Stored(v, n)'
        BY <1>1 DEF Stored
    <2>. QED  BY <1>1, <1>3, <1>4, <1>5, <2>1, RowServe
<1>. QED  BY <1>2, <1>3, <1>6 DEF Kept

\* A restart notes whoever was recorded as out and every apply that was due; the
\* others have their place, and every PUT on its way gives it to them.
LEMMA RestartServe ==
    ASSUME ServeInv, TypeOK', RestartPlane
    PROVE  Kept
<1>. USE DEF ServeInv
<1>1. /\ UNCHANGED <<now, table, installed>>
      /\ \A t \in Threads : pc'[t] = "idle"
    BY DEF RestartPlane
<1>2. ClockRead' /\ Knows'
    BY <1>1 DEF ClockRead, Knows, Threads
<1>3. ServeDue'
    <2>. SUFFICES ASSUME NEW u \in Users, NEW n \in Nodes, Due(u, n)',
                         u \notin missed'
                  PROVE  In(u, n)'
        BY DEF ServeDue
    <2>1. Due(u, n)
        BY <1>1 DEF Due, Entitled, Live
    <2>2. u \notin missed /\ ~RecordedOut(u) /\ ~AtWork(n)
        BY <2>1 DEF RestartPlane, Due, NodesOf
    <2>3. ~Promised(u, n) /\ n \notin forgotten
        BY <2>2 DEF AtWork, Promised, Marked, WillServe, WillApply
    <2>4. In(u, n)
        BY <2>1, <2>2, <2>3 DEF ServeDue
    <2>5. PICK sent \in SUBSET {m \in Nodes : /\ holder[m] # None
                                             /\ gleft[holder[m]] = {}} :
              late' = [m \in Nodes |-> IF m \in sent
                                         THEN Append(late[m], push[holder[m]])
                                         ELSE late[m]]
        BY DEF RestartPlane
    <2>6. CASE n \notin sent
        BY <1>1, <2>4, <2>5, <2>6 DEF In, Stored, WillOmit
    <2>7. CASE n \in sent
        <3>. DEFINE t == holder[n]
        <3>1. t \in Threads /\ pc[t] = "read" /\ node[t] = n /\ gleft[t] = {}
            BY <2>7 DEF Shape, Locked, TypeOK
        <3>2. u \in push[t]
            BY <2>4, <3>1 DEF In, WillOmit
        <3>3. late'[n] = Append(late[n], push[t])
            BY <2>5, <2>7
        <3>4. late[n] \in Seq(SUBSET Users) /\ push[t] \in SUBSET Users
            BY <3>1 DEF TypeOK
        <3>. HIDE DEF t
        <3>5. \A i \in DOMAIN late'[n] :
                  late'[n][i] = push[t] \/ (i \in DOMAIN late[n]
                                            /\ late'[n][i] = late[n][i])
            BY <3>3, <3>4
        <3>6. Stored(u, n)'
            BY <1>1, <2>4, <3>2, <3>5 DEF In, Stored
        <3>. QED  BY <1>1, <3>6 DEF In, WillOmit
    <2>. QED  BY <2>6, <2>7
<1>. QED  BY <1>2, <1>3 DEF Kept

LEMMA NextServe ==
    ASSUME ServeInv, [Next]_vars
    PROVE  ServeInv'
<1>1. TypeOK' /\ Shape' /\ Grouped'
    BY NextShape, GroupedStep DEF ServeInv
<1>2. CASE Tick \/ UNCHANGED vars
    BY <1>1, <1>2, TickServe DEF Kept, ServeInv
<1>3. ASSUME NEW t \in Threads, ApplyStep(t)
      PROVE  Kept
    <2>1. HandsOn(t) => Kept
        BY <1>1, HandsOnServe
    <2>. QED  BY <1>1, <1>3, <2>1, NextGroupHands, EndGroupHands, EndApplyHands,
                 LockServe, ReadServe, ReturnServe DEF ApplyStep, ServeInv
<1>4. ASSUME NEW t \in Requests, RequestStep(t)
      PROVE  Kept
    <2>1. CASE \E u \in Users : \/ \E r \in NewRows : CreateUser(t, u, r)
                                \/ RevokeUser(t, u) \/ DeleteUser(t, u)
                                \/ PatchRead(t, u)
        BY <1>1, <2>1, RequestServe
    <2>2. CASE \E some \in SUBSET Nodes : ApplyNodes(t, some)
        BY <1>1, <2>2, ApplyNodesHands, HandsOnServe DEF Threads, ServeInv
    <2>. QED  BY <1>4, <2>1, <2>2 DEF RequestStep
<1>5. ASSUME NEW t \in Requests, PatchStep(t)
      PROVE  Kept
    BY <1>1, <1>5, PatchServe
<1>6. CASE SweepStep
    BY <1>1, <1>6, ListServe, ClockServe, ResetServe, SwapServe
       DEF SweepStep, Kept, ServeInv
<1>7. CASE CollectStep
    BY <1>1, <1>7, CollectServe DEF Kept, ServeInv
<1>8. ASSUME NEW n \in Nodes, AgentStep(n)
      PROVE  Kept
    BY <1>1, <1>8, AgentServe
<1>9. CASE FaultStep
    <2>1. ASSUME NEW t \in Threads, NEW g \in Groups, NextGroupFails(t, g)
          PROVE  Kept
        BY <1>1, <2>1, NextGroupFailsHands, HandsOnServe DEF ServeInv
    <2>2. ASSUME NEW t \in Threads, NEW n \in Nodes, NextNodeFails(t, n)
          PROVE  Kept
        BY <1>1, <2>2, NextNodeFailsHands, HandsOnServe DEF ServeInv
    <2>3. ASSUME NEW t \in Threads,
                 \/ ReadFails(t) \/ PutRefused(t) \/ PutTimesOut(t)
                 \/ PutPartial(t) \/ PutUnsaved(t)
          PROVE  Kept
        BY <1>1, <2>3, ReturnServe
    <2>4. ASSUME NEW u \in Users, SweepResetFails(u)
          PROVE  Kept
        BY <1>1, <2>4, ResetFailsServe
    <2>5. ASSUME CollectCreditFails \/ \E u \in Users : CollectReadFails(u)
          PROVE  Kept
        BY <1>1, <2>5, CollectServe
    <2>. QED  BY <1>1, <1>9, <2>1, <2>2, <2>3, <2>4, <2>5
              DEF FaultStep, Kept, ServeInv
<1>10. CASE RestartPlane
    BY <1>1, <1>10, RestartServe DEF Kept, ServeInv
<1>. QED  BY <1>1, <1>2, <1>3, <1>4, <1>5, <1>6, <1>7, <1>8, <1>9, <1>10
          DEF Next, ServeInv, Kept

LEMMA ServeInvImplies == ServeInv => PlacesSurvive
<1>. SUFFICES ASSUME ServeInv, NEW u \in Users, NEW n \in Nodes, Due(u, n),
                     u \notin missed, n \notin forgotten
              PROVE  Placed(u, n)
    BY DEF PlacesSurvive
<1>1. In(u, n) \/ Promised(u, n)
    BY DEF ServeInv, ServeDue
<1>2. Marked(n) => pending \cap Serves[n] # {}
    BY DEF Marked
<1>3. \A t \in Threads : WillServe(t, u, n) => WillLetIn(t, u, n)
    BY DEF WillServe, WillApply, WillLetIn
<1>. QED  BY <1>1, <1>2, <1>3 DEF In, Stored, Promised, Placed

LEMMA ServeHolds == Spec => []ServeInv
<1>1. ServeInv /\ [Next]_vars => ServeInv'
    BY NextServe
<1>. QED  BY <1>1, InitServe, PTL DEF Spec

\* The other direction: whatever fails, overlaps or restarts, a user that may use
\* a node is let in by it, or a thread has that apply before it, or its mark is
\* left, or the sweep has the user recorded as out and will see it come back,
\* but where the plane has taken an apply for done that was not, a restart found
\* the apply under way, or a patch that applies nothing let the user in again.
THEOREM PlacesSurviveFailures == Spec => []PlacesSurvive
BY ServeHolds, ServeInvImplies, PTL

\* Only a restart, or a patch that applies nothing, misses a user.
NoneMissed == missed = {}

LEMMA NobodyMissed ==
    ASSUME TypeOK, MaxCrashes = 0, NoneMissed, [Next]_vars,
           \A t \in Requests, p \in Patches :
               PatchWrite(t, p) => DOMAIN p \cap Entitling # {}
    PROVE  NoneMissed'
<1>1. ~RestartPlane
    BY DEF RestartPlane, TypeOK
<1>. USE DEF NoneMissed
<1>2. ASSUME NEW t \in Threads, ApplyStep(t)
      PROVE  NoneMissed'
    BY <1>2 DEF ApplyStep, NextGroup, ReadGroup, Lock, PutOk, Forget, EndGroup,
                EndApply, Mark, Remember, history, excuses
<1>3. CASE FaultStep
    BY <1>3 DEF FaultStep, NextGroupFails, NextNodeFails, ReadFails, PutRefused,
                PutTimesOut, PutPartial, PutUnsaved, Forget, Mark, Remember,
                SweepResetFails, CollectReadFails, CollectCreditFails, history,
                excuses
<1>4. ASSUME NEW t \in Requests, PatchStep(t)
      PROVE  NoneMissed'
    BY <1>4 DEF PatchStep, PatchFails, PatchWrite, history, excuses
<1>5. CASE \/ Tick \/ UNCHANGED vars \/ SweepStep \/ CollectStep
           \/ \E t \in Requests : RequestStep(t)
           \/ \E n \in Nodes : AgentStep(n)
    BY <1>5 DEF Tick, RequestStep, CreateUser, RevokeUser, DeleteUser, PatchRead,
        ApplyNodes, SweepStep, SweepList, SweepClock, SweepReset, SweepSwap,
        CollectStep, CollectBegin, CollectRead, CollectCredit, CollectEnd,
        AgentStep, LateApplied, LateDropped, vars, history, excuses
<1>. QED  BY <1>1, <1>2, <1>3, <1>4, <1>5 DEF Next

\* While nothing fails and the plane is not restarted, and if every patch names
\* a column that decides who is entitled (one that does not is written back
\* without an apply, over whatever changed since it read the row), no
\* interleaving of requests, sweep and collector leaves out a user for good.
THEOREM EntitledServed ==
    ASSUME MaxFaults = 0, MaxCrashes = 0,
           \A p \in Patches : DOMAIN p \cap Entitling # {}
    PROVE  Spec => []EntitledAreServed
<1>1. Init => Calm /\ NoneMissed
    BY InitCalm DEF Init, NoneMissed
<1>2. ServeInv /\ Calm /\ NoneMissed /\ [Next]_vars => Calm' /\ NoneMissed'
    BY CalmStep, NobodyMissed DEF ServeInv, Reliable
<1>3. ServeInv /\ Calm /\ NoneMissed => EntitledAreServed
    BY ServeInvImplies DEF Calm, NoneMissed, PlacesSurvive, EntitledAreServed
<1>. QED  BY <1>1, <1>2, <1>3, ServeHolds, PTL DEF Spec

\* And by the sweep on its own: a user whose quota it gives back is let in again
\* by every node of its group, or is still to be, whatever fails in between.
THEOREM SweepServesEntitled ==
    ASSUME InOrder, SiblingNodes = {}, MaxCrashes = 0, MaxOps = 0, MaxUsed = 0
    PROVE  Spec => []EntitledAreServed
<1>1. Init => Calm /\ SweepAlone /\ NoneMissed
    BY InitCalm DEF Init, SweepAlone, NoneMissed
<1>2. ASSUME ServeInv, Calm, SweepAlone, NoneMissed, [Next]_vars
      PROVE  Calm' /\ SweepAlone' /\ NoneMissed'
    <2>1. \A t \in Requests, p \in Patches : ~PatchWrite(t, p)
        <3>1. Requests \subseteq Threads \ {Sweeper}
            BY PlaneAssumption DEF Threads
        <3>. QED  BY <1>2, <3>1 DEF SweepAlone, PatchWrite
    <2>2. NoneMissed'
        BY <1>2, <2>1, NobodyMissed DEF ServeInv
    <2>. QED  BY <1>2, <2>2, CalmStep, SweepStaysAlone DEF ServeInv, Reliable
<1>3. ServeInv /\ Calm /\ NoneMissed => EntitledAreServed
    BY ServeInvImplies DEF Calm, NoneMissed, PlacesSurvive, EntitledAreServed
<1>. QED  BY <1>1, <1>2, <1>3, ServeHolds, PTL DEF Spec
=============================================================================
