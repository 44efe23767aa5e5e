------------------------- MODULE TrafficLedgerProofs -------------------------
(***************************************************************************)
(* With one collector at a time, TrafficLedger never credits more than    *)
(* was carried, loses bytes at daemon restarts only, implements Metering, *)
(* and never shows a user more than their streams carried: for every set  *)
(* of nodes, users and sources and all bounds.                            *)
(*                                                                         *)
(* The inductive invariant compares epochs.  Of the bytes the current     *)
(* daemon counted, those below the cursor are credited if the cursor was  *)
(* read from this daemon, and none of them otherwise (Below); a reading   *)
(* that a collector holds is never older than the cursor.  The row of a   *)
(* user, and a copy of it that a patch holds, stay below the sum of what  *)
(* was credited to the user's streams (UsageInv); that part rests on      *)
(* lemmas about sums, proved by induction on the subsets of a finite set. *)
(***************************************************************************)
EXTENDS TrafficLedger, FiniteSetTheorems, WellFoundedInduction, TLAPS

\* One CollectTraffic at a time: the loop alone, no concurrent POST.
OneCollector == \A c, d \in Collectors : c = d

\* Bytes of the current epoch that the cursor accounts for.
Below(k) == IF marked[k] = epoch[k] THEN cursor[k] ELSE 0

\* The cursor is not ahead of the daemon it was read from, and what is not
\* accounted for yet still fits into what was carried.
StreamInv(k) ==
    /\ marked[k] <= epoch[k]
    /\ marked[k] = epoch[k] => cursor[k] <= counter[k]
    /\ credited[k] + counter[k] - Below(k) <= carried[k]
    /\ epoch[k] = 0 => credited[k] = cursor[k] /\ counter[k] = carried[k]

\* A reading that is held is not older than the cursor, and if the daemon was
\* restarted since it was taken, there is room for crediting it.
HeldInv(c, k) ==
    /\ marked[k] <= taken[c][k] /\ taken[c][k] <= epoch[k]
    /\ marked[k] = taken[c][k] => cursor[k] <= reading[c][k]
    /\ taken[c][k] = epoch[k] => reading[c][k] <= counter[k]
    /\ taken[c][k] < epoch[k] =>
          credited[k] + Added(reading[c][k], cursor[k]) + counter[k] <= carried[k]

LedgerInv ==
    /\ TypeOK
    /\ \A k \in Streams : StreamInv(k)
    /\ \A c \in Collectors : \A k \in held[c] : HeldInv(c, k)

-----------------------------------------------------------------------------
\* What ApplyTraffic adds is never negative, never more than the reading, and
\* the plain difference when the counter did not go back.
LEMMA AddedBounds ==
    ASSUME NEW cur \in Nat, NEW prev \in Nat
    PROVE  /\ Added(cur, prev) \in Nat
           /\ Added(cur, prev) <= cur
           /\ prev <= cur => Added(cur, prev) = cur - prev
BY DEF Added

LEMMA InitInv == Init => LedgerInv
<1> SUFFICES ASSUME Init PROVE LedgerInv
  OBVIOUS
<1>1. TypeOK
  BY DEF Init, TypeOK
<1>2. \A k \in Streams : StreamInv(k)
  BY DEF Init, StreamInv, Below
<1>3. \A c \in Collectors : held[c] = {}
  BY DEF Init
<1> QED
  BY <1>1, <1>2, <1>3 DEF LedgerInv

\* Types are preserved by every step, whatever the number of collectors.
LEMMA NextType == TypeOK /\ [Next]_vars => TypeOK'
<1> SUFFICES ASSUME TypeOK, [Next]_vars PROVE TypeOK'
  OBVIOUS
<1> USE LedgerAssumption DEF TypeOK
<1>1. ASSUME NEW k \in Streams, Carry(k) PROVE TypeOK'
  BY <1>1 DEF Carry, store, passes
<1>2. ASSUME NEW n \in Nodes, NEW src \in Sources, RestartDaemon(n, src)
      PROVE  TypeOK'
  BY <1>2 DEF RestartDaemon, store, passes, history
<1>3. ASSUME NEW c \in Collectors, BeginPass(c) PROVE TypeOK'
  BY <1>3 DEF BeginPass, store, agents, history
<1>4. ASSUME NEW c \in Collectors, NEW n \in Nodes, Poll(c, n) PROVE TypeOK'
  BY <1>4 DEF Poll, store, agents
<1>5. ASSUME NEW c \in Collectors, NEW n \in Nodes, PollFails(c, n)
      PROVE  TypeOK'
  BY <1>5 DEF PollFails, store, agents, history
<1>6. ASSUME NEW c \in Collectors, NEW k \in Streams, Credit(c, k)
      PROVE  TypeOK'
  <2>1. Added(reading[c][k], cursor[k]) \in Nat
    <3>1. reading[c][k] \in Nat /\ cursor[k] \in Nat
      OBVIOUS
    <3> HIDE DEF TypeOK
    <3> QED
      BY <3>1, AddedBounds
  <2>2. k[2] \in Users
    BY DEF Streams
  <2> QED
    BY <1>6, <2>1, <2>2 DEF Credit, CreditRow, agents
<1>7. ASSUME NEW c \in Collectors, NEW k \in Streams, CreditFails(c, k)
      PROVE  TypeOK'
  BY <1>7 DEF CreditFails, store, agents, history
<1>8. ASSUME NEW u \in Users, ResetQuotaPeriod(u) PROVE TypeOK'
  BY <1>8 DEF ResetQuotaPeriod, agents, passes, history
<1>9. ASSUME NEW u \in Users, PatchRead(u) PROVE TypeOK'
  BY <1>9 DEF PatchRead, agents, passes, history
<1>10. ASSUME NEW u \in Users, PatchWrite(u) PROVE TypeOK'
  BY <1>10 DEF PatchWrite, agents, passes, history
<1>11. CASE RestartPlane
  BY <1>11 DEF RestartPlane, agents, history
<1>12. CASE UNCHANGED vars
  BY <1>12 DEF vars, store, agents, passes, history
<1> QED
  BY <1>1, <1>2, <1>3, <1>4, <1>5, <1>6, <1>7, <1>8, <1>9, <1>10, <1>11, <1>12
     DEF Next, NodeStep, CollectorStep, FaultStep, RowStep

\* Every reachable state has the types TypeOK states.
THEOREM TypeCorrect == Spec => []TypeOK
<1>1. Init => TypeOK
  BY DEF Init, TypeOK
<1> QED
  BY <1>1, NextType, PTL DEF Spec

-----------------------------------------------------------------------------
(* LedgerInv is inductive when at most one collector runs. *)

\* A step that leaves stream k, and the readings of it, as they are.
SameStream(k) ==
    /\ counter'[k] = counter[k] /\ epoch'[k] = epoch[k]
    /\ cursor'[k] = cursor[k] /\ marked'[k] = marked[k]
    /\ carried'[k] = carried[k] /\ credited'[k] = credited[k]

SameReading(c, k) ==
    reading'[c][k] = reading[c][k] /\ taken'[c][k] = taken[c][k]

LEMMA StreamFrame ==
    ASSUME NEW k, StreamInv(k), SameStream(k)
    PROVE  StreamInv(k)'
BY DEF StreamInv, Below, SameStream

LEMMA HeldFrame ==
    ASSUME NEW c, NEW k, HeldInv(c, k), SameStream(k), SameReading(c, k)
    PROVE  HeldInv(c, k)'
BY DEF HeldInv, Added, SameStream, SameReading

\* A step that changes neither streams nor readings and holds no new one.
LEMMA QuietStep ==
    ASSUME LedgerInv, TypeOK',
           \A k \in Streams : SameStream(k),
           UNCHANGED <<reading, taken>>,
           \A c \in Collectors : held'[c] \subseteq held[c]
    PROVE  LedgerInv'
<1>1. \A k \in Streams : StreamInv(k)'
  BY StreamFrame DEF LedgerInv
<1>2. ASSUME NEW c \in Collectors, NEW k \in held'[c] PROVE HeldInv(c, k)'
  <2>1. k \in held[c] /\ k \in Streams
    BY DEF LedgerInv, TypeOK
  <2> QED
    BY <2>1, HeldFrame DEF LedgerInv, SameReading
<1> QED
  BY <1>1, <1>2 DEF LedgerInv

LEMMA CarryInv ==
    ASSUME LedgerInv, TypeOK', NEW k \in Streams, Carry(k)
    PROVE  LedgerInv'
<1> USE DEF Carry, store, passes
<1>1. ASSUME NEW j \in Streams PROVE StreamInv(j)'
  <2>1. CASE j = k
    BY <2>1 DEF LedgerInv, TypeOK, StreamInv, Below
  <2>2. CASE j # k
    BY <2>2, StreamFrame DEF LedgerInv, TypeOK, SameStream
  <2> QED
    BY <2>1, <2>2
<1>2. ASSUME NEW c \in Collectors, NEW j \in held'[c] PROVE HeldInv(c, j)'
  <2>1. j \in held[c] /\ j \in Streams /\ HeldInv(c, j)
    BY DEF LedgerInv, TypeOK
  <2>2. CASE j = k
    <3>0. reading[c][j] \in Nat /\ cursor[j] \in Nat
      BY <2>1 DEF LedgerInv, TypeOK
    <3>1. Added(reading[c][j], cursor[j]) \in Nat
      BY <3>0, AddedBounds
    <3>2. Added(reading[c][j], cursor[j])' = Added(reading[c][j], cursor[j])
      BY DEF Added
    <3> QED
      BY <2>1, <2>2, <3>1, <3>2 DEF LedgerInv, TypeOK, HeldInv
  <2>3. CASE j # k
    BY <2>1, <2>3, HeldFrame DEF LedgerInv, TypeOK, SameStream, SameReading
  <2> QED
    BY <2>2, <2>3
<1> QED
  BY <1>1, <1>2 DEF LedgerInv

LEMMA RestartDaemonInv ==
    ASSUME LedgerInv, TypeOK', NEW n \in Nodes, NEW src \in Sources,
           RestartDaemon(n, src)
    PROVE  LedgerInv'
<1> USE DEF RestartDaemon, store, passes, history
<1> DEFINE mine == {k \in Streams : k[1] = n /\ k[3] = src}
<1>1. ASSUME NEW j \in Streams PROVE StreamInv(j)'
  <2>1. CASE j \in mine
    <3>1. counter'[j] = 0 /\ epoch'[j] = epoch[j] + 1
      BY <2>1 DEF LedgerInv, TypeOK
    <3>2. StreamInv(j) /\ marked[j] \in Nat /\ epoch[j] \in Nat
          /\ cursor[j] \in Nat /\ counter[j] \in Nat
          /\ credited[j] \in Nat /\ carried[j] \in Nat
      BY DEF LedgerInv, TypeOK
    <3> QED
      BY <3>1, <3>2 DEF StreamInv, Below
  <2>2. CASE j \notin mine
    BY <2>2, StreamFrame DEF LedgerInv, TypeOK, SameStream
  <2> QED
    BY <2>1, <2>2
<1>2. ASSUME NEW c \in Collectors, NEW j \in held'[c] PROVE HeldInv(c, j)'
  <2>1. j \in held[c] /\ j \in Streams /\ HeldInv(c, j) /\ StreamInv(j)
    BY DEF LedgerInv, TypeOK
  <2>2. CASE j \in mine
    <3>1. counter'[j] = 0 /\ epoch'[j] = epoch[j] + 1
      BY <2>2 DEF LedgerInv, TypeOK
    <3>2. /\ marked[j] \in Nat /\ epoch[j] \in Nat /\ cursor[j] \in Nat
          /\ counter[j] \in Nat /\ credited[j] \in Nat /\ carried[j] \in Nat
          /\ reading[c][j] \in Nat /\ taken[c][j] \in Nat
      BY <2>1 DEF LedgerInv, TypeOK
    <3> DEFINE add == Added(reading[c][j], cursor[j])
    <3>3. /\ add \in Nat /\ add <= reading[c][j]
          /\ cursor[j] <= reading[c][j] => add = reading[c][j] - cursor[j]
      BY <3>2, AddedBounds
    <3>4. add' = add
      BY DEF Added
    <3> HIDE DEF add
    <3>5. credited[j] + add + 0 <= carried[j]
      BY <2>1, <3>2, <3>3 DEF StreamInv, HeldInv, Below, add
    <3> QED
      BY <2>1, <3>1, <3>2, <3>4, <3>5 DEF HeldInv, add
  <2>3. CASE j \notin mine
    BY <2>1, <2>3, HeldFrame DEF LedgerInv, TypeOK, SameStream, SameReading
  <2> QED
    BY <2>2, <2>3
<1> QED
  BY <1>1, <1>2 DEF LedgerInv

LEMMA PollInv ==
    ASSUME LedgerInv, TypeOK', NEW c \in Collectors, NEW n \in Nodes,
           Poll(c, n), OneCollector
    PROVE  LedgerInv'
<1> USE DEF Poll, store, agents
<1>1. \A k \in Streams : StreamInv(k)'
  BY StreamFrame DEF LedgerInv, SameStream
<1>2. ASSUME NEW d \in Collectors, NEW k \in held'[d] PROVE HeldInv(d, k)'
  <2>1. d = c
    BY DEF OneCollector
  <2>2. k \in Streams /\ k[1] = n
    BY <2>1 DEF LedgerInv, TypeOK
  <2>3. reading'[c][k] = counter[k] /\ taken'[c][k] = epoch[k]
    BY <2>2 DEF LedgerInv, TypeOK
  <2>4. StreamInv(k) /\ marked[k] \in Nat /\ epoch[k] \in Nat
        /\ cursor[k] \in Nat /\ counter[k] \in Nat
    BY <2>2 DEF LedgerInv, TypeOK
  <2> QED
    BY <2>1, <2>3, <2>4 DEF HeldInv, StreamInv
<1> QED
  BY <1>1, <1>2 DEF LedgerInv

LEMMA CreditInv ==
    ASSUME LedgerInv, TypeOK', NEW c \in Collectors, NEW k \in Streams,
           Credit(c, k), OneCollector
    PROVE  LedgerInv'
<1> USE DEF Credit, CreditRow, agents
<1> DEFINE add == Added(reading[c][k], cursor[k])
<1>1. /\ k \in held[c] /\ HeldInv(c, k) /\ StreamInv(k)
      /\ marked[k] \in Nat /\ epoch[k] \in Nat /\ cursor[k] \in Nat
      /\ counter[k] \in Nat /\ credited[k] \in Nat /\ carried[k] \in Nat
      /\ reading[c][k] \in Nat /\ taken[c][k] \in Nat
  BY DEF LedgerInv, TypeOK
<1>2. /\ add \in Nat /\ add <= reading[c][k]
      /\ cursor[k] <= reading[c][k] => add = reading[c][k] - cursor[k]
  BY <1>1, AddedBounds
<1>3. /\ cursor'[k] = reading[c][k] /\ marked'[k] = taken[c][k]
      /\ credited'[k] = credited[k] + add
      /\ UNCHANGED <<counter, epoch, carried, reading, taken>>
  BY DEF LedgerInv, TypeOK
<1>4. ASSUME NEW j \in Streams PROVE StreamInv(j)'
  <2>1. CASE j = k
    <3> HIDE DEF add
    <3>1. credited'[k] + counter[k] - Below(k)' <= carried[k]
      BY <1>1, <1>2, <1>3 DEF StreamInv, HeldInv, Below, add
    <3>2. epoch[k] = 0 => credited'[k] = cursor'[k]
      BY <1>1, <1>2, <1>3 DEF StreamInv, HeldInv
    <3> QED
      BY <2>1, <1>1, <1>3, <3>1, <3>2 DEF StreamInv, HeldInv
  <2>2. CASE j # k
    BY <2>2, StreamFrame DEF LedgerInv, TypeOK, SameStream
  <2> QED
    BY <2>1, <2>2
<1>5. ASSUME NEW d \in Collectors, NEW j \in held'[d] PROVE HeldInv(d, j)'
  <2>1. d = c /\ j \in held[d] /\ j \in Streams /\ j # k
    BY DEF OneCollector, LedgerInv, TypeOK
  <2> QED
    BY <2>1, HeldFrame DEF LedgerInv, TypeOK, SameStream, SameReading
<1> QED
  BY <1>4, <1>5 DEF LedgerInv

\* Every step of Next keeps LedgerInv.
LEMMA NextInv ==
    ASSUME LedgerInv, [Next]_vars, OneCollector
    PROVE  LedgerInv'
<1>1. TypeOK'
  BY NextType DEF LedgerInv
<1> USE <1>1
<1>2. ASSUME NEW k \in Streams, Carry(k) PROVE LedgerInv'
  BY <1>2, CarryInv
<1>3. ASSUME NEW n \in Nodes, NEW src \in Sources, RestartDaemon(n, src)
      PROVE  LedgerInv'
  BY <1>3, RestartDaemonInv
<1>4. ASSUME NEW c \in Collectors, BeginPass(c) PROVE LedgerInv'
  BY <1>4, QuietStep DEF BeginPass, store, agents, history, SameStream
<1>5. ASSUME NEW c \in Collectors, NEW n \in Nodes, Poll(c, n)
      PROVE  LedgerInv'
  BY <1>5, PollInv
<1>6. ASSUME NEW c \in Collectors, NEW n \in Nodes, PollFails(c, n)
      PROVE  LedgerInv'
  BY <1>6, QuietStep DEF PollFails, store, agents, history, SameStream
<1>7. ASSUME NEW c \in Collectors, NEW k \in Streams, Credit(c, k)
      PROVE  LedgerInv'
  BY <1>7, CreditInv
<1>8. ASSUME NEW c \in Collectors, NEW k \in Streams, CreditFails(c, k)
      PROVE  LedgerInv'
  <2>1. \A d \in Collectors : held'[d] \subseteq held[d]
    BY <1>8 DEF CreditFails, LedgerInv, TypeOK
  <2> QED
    BY <1>8, <2>1, QuietStep
       DEF CreditFails, store, agents, history, SameStream
<1>9. ASSUME NEW u \in Users,
             ResetQuotaPeriod(u) \/ PatchRead(u) \/ PatchWrite(u)
      PROVE  LedgerInv'
  BY <1>9, QuietStep DEF ResetQuotaPeriod, PatchRead, PatchWrite,
                         agents, passes, history, SameStream
<1>10. CASE RestartPlane
  BY <1>10, QuietStep DEF RestartPlane, agents, history, SameStream
<1>11. CASE UNCHANGED vars
  BY <1>11, QuietStep DEF vars, store, agents, passes, history, SameStream
<1> QED
  BY <1>2, <1>3, <1>4, <1>5, <1>6, <1>7, <1>8, <1>9, <1>10, <1>11
     DEF Next, NodeStep, CollectorStep, FaultStep, RowStep

-----------------------------------------------------------------------------
(* What follows from LedgerInv *)

LEMMA InvImplies ==
    ASSUME LedgerInv
    PROVE  NeverOverCredited /\ ExactWithoutRestart
<1> SUFFICES ASSUME NEW k \in Streams
             PROVE  /\ credited[k] <= carried[k]
                    /\ epoch[k] = 0 => /\ credited[k] = cursor[k]
                                       /\ cursor[k] <= carried[k]
  BY DEF NeverOverCredited, ExactWithoutRestart
<1>1. StreamInv(k) /\ marked[k] \in Nat /\ epoch[k] \in Nat
      /\ cursor[k] \in Nat /\ counter[k] \in Nat
      /\ credited[k] \in Nat /\ carried[k] \in Nat
  BY DEF LedgerInv, TypeOK
<1> QED
  BY <1>1 DEF StreamInv, Below

\* LedgerInv holds in every reachable state of a plane with one collector.
LEMMA InvHolds == ASSUME OneCollector PROVE Spec => []LedgerInv
<1>1. LedgerInv /\ [Next]_vars => LedgerInv'
  BY NextInv
<1> QED
  BY InitInv, <1>1, PTL DEF Spec

\* A single collector never credits a stream more than it carried, whatever
\* restarts, failed polls and dropped transactions it meets (ApplyTraffic).
THEOREM OneCollectorNeverOverCredits ==
    ASSUME OneCollector PROVE Spec => []NeverOverCredited
BY InvHolds, InvImplies, PTL

\* And before the first restart of a daemon it loses nothing either.
THEOREM OneCollectorExact ==
    ASSUME OneCollector PROVE Spec => []ExactWithoutRestart
BY InvHolds, InvImplies, PTL

\* A single collector implements Metering: every step of TrafficLedger maps
\* to bytes carried, to bytes credited once, or to a stutter.
THEOREM OneCollectorImplementsMetering ==
    ASSUME OneCollector PROVE Spec => ImplementsMetering
<1>1. Init => Abstract!Init
  BY DEF Init, Abstract!Init
<1>2. ASSUME LedgerInv, LedgerInv', [Next]_vars
      PROVE  [Abstract!Next]_(Abstract!vars)
  <2>1. ASSUME NEW k \in Streams, Carry(k) PROVE Abstract!Next
    <3>1. /\ carried' = [carried EXCEPT ![k] = carried[k] + 1]
          /\ UNCHANGED credited
          /\ carried[k] \in Nat /\ carried'[k] = carried[k] + 1
      BY <1>2, <2>1 DEF Carry, LedgerInv, TypeOK
    <3>2. carried'[k] \in Nat /\ carried'[k] > carried[k]
      BY <3>1
    <3>3. carried' = [carried EXCEPT ![k] = carried'[k]]
      BY <3>1
    <3>4. Abstract!Carry(k)
      BY <3>1, <3>2, <3>3 DEF Abstract!Carry
    <3> QED
      BY <3>4 DEF Abstract!Next
  <2>2. ASSUME NEW c \in Collectors, NEW k \in Streams, Credit(c, k)
        PROVE  [Abstract!Next]_(Abstract!vars)
    <3> DEFINE add == Added(reading[c][k], cursor[k])
    <3>1. reading[c][k] \in Nat /\ cursor[k] \in Nat
      BY <1>2 DEF LedgerInv, TypeOK
    <3>2. add \in Nat
      BY <3>1, AddedBounds
    <3>3. credited' = [credited EXCEPT ![k] = @ + add] /\ UNCHANGED carried
      BY <2>2 DEF Credit, CreditRow
    <3> HIDE DEF add
    <3>4. /\ credited \in [Streams -> Nat] /\ carried[k] \in Nat
          /\ credited[k] \in Nat /\ credited'[k] = credited[k] + add
      BY <1>2, <3>2, <3>3 DEF LedgerInv, TypeOK
    <3>5. /\ StreamInv(k)' /\ marked'[k] \in Nat /\ epoch'[k] \in Nat
          /\ cursor'[k] \in Nat /\ counter'[k] \in Nat
          /\ credited'[k] \in Nat
      BY <1>2 DEF LedgerInv, TypeOK
    <3>6. credited'[k] <= carried[k]
      BY <3>3, <3>4, <3>5 DEF StreamInv, Below
    <3>7. CASE add = 0
      BY <3>3, <3>4, <3>7 DEF Abstract!vars
    <3>8. CASE add # 0
      <4>1. Abstract!Credit(k)
        BY <3>2, <3>3, <3>4, <3>6, <3>8 DEF Abstract!Credit
      <4> QED
        BY <4>1 DEF Abstract!Next
    <3> QED
      BY <3>7, <3>8
  <2>3. ASSUME UNCHANGED <<carried, credited>>
        PROVE  [Abstract!Next]_(Abstract!vars)
    BY <2>3 DEF Abstract!vars
  <2>4. ASSUME NEW c \in Collectors, NEW n \in Nodes,
               Poll(c, n) \/ PollFails(c, n)
        PROVE  UNCHANGED <<carried, credited>>
    BY <2>4 DEF Poll, PollFails, history
  <2>9. ASSUME NEW c \in Collectors, BeginPass(c)
        PROVE  UNCHANGED <<carried, credited>>
    BY <2>9 DEF BeginPass, history
  <2>5. ASSUME NEW n \in Nodes, NEW src \in Sources, RestartDaemon(n, src)
        PROVE  UNCHANGED <<carried, credited>>
    BY <2>5 DEF RestartDaemon, history
  <2>6. ASSUME NEW c \in Collectors, NEW k \in Streams, CreditFails(c, k)
        PROVE  UNCHANGED <<carried, credited>>
    BY <2>6 DEF CreditFails, history
  <2>7. ASSUME NEW u \in Users,
               ResetQuotaPeriod(u) \/ PatchRead(u) \/ PatchWrite(u)
        PROVE  UNCHANGED <<carried, credited>>
    BY <2>7 DEF ResetQuotaPeriod, PatchRead, PatchWrite, history
  <2>8. RestartPlane \/ UNCHANGED vars => UNCHANGED <<carried, credited>>
    BY DEF RestartPlane, vars, history
  <2> QED
    BY <1>2, <2>1, <2>2, <2>3, <2>4, <2>5, <2>6, <2>7, <2>8, <2>9
       DEF Next, NodeStep, CollectorStep, FaultStep, RowStep
<1> QED
  BY <1>1, <1>2, InvHolds, PTL DEF Spec, ImplementsMetering, Abstract!Spec

-----------------------------------------------------------------------------
(* Sums over finite sets: induction on subsets, for data *)

\* What holds of a subset of S when it holds of its strict subsets, holds of S.
LEMMA SubsetInduction ==
    ASSUME NEW S, IsFiniteSet(S), NEW Good,
           \A T \in SUBSET S :
              (\A U \in SUBSET T : U # T => U \in Good) => T \in Good
    PROVE  S \in Good
<1> DEFINE Bad == (SUBSET S) \ Good
           R == StrictSubsetOrdering(S)
<1>1. IsWellFoundedOn(R, SUBSET S)
  <2>1. FiniteSubsetsOf(S) = SUBSET S
    BY FS_FiniteSubsetsOfFinite
  <2> QED
    BY <2>1, FS_StrictSubsetOrderingWellFounded
<1>2. SUFFICES ASSUME Bad # {} PROVE FALSE
  OBVIOUS
<1>3. PICK T \in Bad : \A U \in Bad : <<U, T>> \notin R
  <2>1. Bad \subseteq SUBSET S
    OBVIOUS
  <2> HIDE DEF Bad, R
  <2> QED
    BY <1>1, <1>2, <2>1, WFMin
<1>4. \A U \in SUBSET T : U # T => U \in Good
  BY <1>3 DEF StrictSubsetOrdering
<1> QED
  BY <1>3, <1>4

\* The element that a fold takes next, and the sums of f over the subsets of S.
Pick(s) == CHOOSE x \in s : TRUE
AreSums(sum, f, S) ==
    sum = [s \in SUBSET S |-> IF s = {} THEN 0
                              ELSE f[Pick(s)] + sum[s \ {Pick(s)}]]

\* SumFunctionOnSet is the value at S of any function of this kind.
LEMMA SumIs ==
    ASSUME NEW f, NEW S
    PROVE  SumFunctionOnSet(f, S) = (CHOOSE sum : AreSums(sum, f, S))[S]
BY DEF SumFunctionOnSet, FoldFunctionOnSet, MapThenFoldSet, AreSums, Pick

LEMMA PickIn == ASSUME NEW s, s # {} PROVE Pick(s) \in s
BY DEF Pick

\* Two such functions agree where both are defined.
LEMMA SumsAgree ==
    ASSUME NEW f, NEW S, NEW T, IsFiniteSet(S), IsFiniteSet(T),
           NEW g, AreSums(g, f, S), NEW h, AreSums(h, f, T),
           NEW U \in SUBSET (S \cap T)
    PROVE  g[U] = h[U]
<1> DEFINE Good == {s \in SUBSET U : g[s] = h[s]}
<1>1. ASSUME NEW s \in SUBSET U, \A r \in SUBSET s : r # s => r \in Good
      PROVE  s \in Good
  <2>1. s \in SUBSET S /\ s \in SUBSET T
    OBVIOUS
  <2>2. /\ g[s] = IF s = {} THEN 0 ELSE f[Pick(s)] + g[s \ {Pick(s)}]
        /\ h[s] = IF s = {} THEN 0 ELSE f[Pick(s)] + h[s \ {Pick(s)}]
    BY <2>1 DEF AreSums
  <2>3. s # {} => g[s \ {Pick(s)}] = h[s \ {Pick(s)}]
    BY <1>1, PickIn
  <2> QED
    BY <2>2, <2>3
<1>2. IsFiniteSet(U)
  BY FS_Subset
<1>3. U \in Good
  <2> HIDE DEF Good
  <2> QED
    BY <1>1, <1>2, SubsetInduction
<1> QED
  BY <1>3

\* One is put together from those of the strict subsets.
LEMMA SumsExist ==
    ASSUME NEW f, NEW S, IsFiniteSet(S)
    PROVE  \E sum : AreSums(sum, f, S)
<1> DEFINE Good == {T \in SUBSET S : \E sum : AreSums(sum, f, T)}
           G(T) == CHOOSE sum : AreSums(sum, f, T)
<1>1. ASSUME NEW T \in SUBSET S, \A U \in SUBSET T : U # T => U \in Good
      PROVE  T \in Good
  <2> DEFINE step(s, r) == IF s = {} THEN 0 ELSE f[Pick(s)] + r
             h == [s \in SUBSET T |-> IF s = T
                       THEN step(T, G(T \ {Pick(T)})[T \ {Pick(T)}])
                       ELSE G(s)[s]]
  <2>1. ASSUME NEW s \in SUBSET T, s # T
        PROVE  AreSums(G(s), f, s) /\ IsFiniteSet(s)
    BY <1>1, <2>1, FS_Subset
  <2>2. ASSUME NEW s \in SUBSET T, s # {}
        PROVE  /\ s \ {Pick(s)} \in SUBSET T
               /\ s \ {Pick(s)} # T
    BY <2>2, PickIn
  <2>3. ASSUME NEW s \in SUBSET T PROVE h[s] = step(s, h[s \ {Pick(s)}])
    <3>1. CASE s = T
      <4>1. s # {} => h[s \ {Pick(s)}] = G(T \ {Pick(T)})[T \ {Pick(T)}]
        BY <2>2, <3>1
      <4> QED
        BY <3>1, <4>1
    <3>2. CASE s # T
      <4>1. h[s] = G(s)[s] /\ AreSums(G(s), f, s) /\ IsFiniteSet(s)
        BY <2>1, <3>2
      <4> HIDE DEF G
      <4>2. G(s)[s] = step(s, G(s)[s \ {Pick(s)}])
        <5>1. s \in SUBSET s OBVIOUS
        <5> QED BY <4>1, <5>1 DEF AreSums
      <4>3. ASSUME s # {} PROVE G(s)[s \ {Pick(s)}] = h[s \ {Pick(s)}]
        <5> DEFINE r == s \ {Pick(s)}
        <5>1. r \in SUBSET T /\ r # T /\ r \in SUBSET (s \cap r)
          BY <2>2, <4>3
        <5>2. AreSums(G(r), f, r) /\ IsFiniteSet(r)
          BY <2>1, <5>1
        <5>3. G(s)[r] = G(r)[r]
          <6> HIDE DEF r
          <6> QED BY <4>1, <5>1, <5>2, SumsAgree
        <5>4. h[r] = G(r)[r]
          <6> HIDE DEF r
          <6> QED BY <5>1
        <5> QED
          BY <5>3, <5>4
      <4> QED
        BY <4>1, <4>2, <4>3
    <3> QED
      BY <3>1, <3>2
  <2>4. AreSums(h, f, T)
    <3>1. h = [s \in SUBSET T |-> h[s]]
      OBVIOUS
    <3> HIDE DEF h
    <3> QED
      BY <2>3, <3>1 DEF AreSums
  <2> HIDE DEF h
  <2> QED
    BY <2>4
<1>2. S \in Good
  <2> HIDE DEF Good
  <2> QED
    BY <1>1, SubsetInduction
<1> QED
  BY <1>2

\* A sum over a finite set is that of its parts.
LEMMA SumStep ==
    ASSUME NEW f, NEW S, IsFiniteSet(S)
    PROVE  SumFunctionOnSet(f, S) =
               IF S = {} THEN 0
               ELSE f[Pick(S)] + SumFunctionOnSet(f, S \ {Pick(S)})
<1> DEFINE G(T) == CHOOSE sum : AreSums(sum, f, T)
           r == S \ {Pick(S)}
<1>1. AreSums(G(S), f, S)
  BY SumsExist
<1>2. IsFiniteSet(r) /\ AreSums(G(r), f, r)
  BY SumsExist, FS_Subset
<1> HIDE DEF G
<1>3. G(S)[S] = IF S = {} THEN 0 ELSE f[Pick(S)] + G(S)[r]
  BY <1>1 DEF AreSums
<1>4. G(S)[r] = G(r)[r]
  <2>1. r \in SUBSET (S \cap r)
    OBVIOUS
  <2> HIDE DEF r
  <2> QED
    BY <1>1, <1>2, <2>1, SumsAgree
<1>5. SumFunctionOnSet(f, S) = G(S)[S] /\ SumFunctionOnSet(f, r) = G(r)[r]
  BY SumIs DEF G
<1> QED
  BY <1>3, <1>4, <1>5

LEMMA SumEmpty == ASSUME NEW f PROVE SumFunctionOnSet(f, {}) = 0
BY SumStep, FS_EmptySet

LEMMA SumNonempty ==
    ASSUME NEW f, NEW S, IsFiniteSet(S), NEW T \in SUBSET S, T # {}
    PROVE  /\ Pick(T) \in T
           /\ SumFunctionOnSet(f, T) =
                 f[Pick(T)] + SumFunctionOnSet(f, T \ {Pick(T)})
<1>1. IsFiniteSet(T)
  BY FS_Subset
<1>2. Pick(T) \in T
  BY PickIn
<1> QED
  BY <1>1, <1>2, SumStep

\* Larger terms, larger sum; sums of naturals are natural.
LEMMA SumMonotonic ==
    ASSUME NEW S, IsFiniteSet(S),
           NEW f, \A x \in S : f[x] \in Nat, NEW g, \A x \in S : g[x] \in Nat,
           \A x \in S : f[x] <= g[x]
    PROVE  /\ SumFunctionOnSet(f, S) \in Nat
           /\ SumFunctionOnSet(g, S) \in Nat
           /\ SumFunctionOnSet(f, S) <= SumFunctionOnSet(g, S)
<1> DEFINE Fits(T) == /\ SumFunctionOnSet(f, T) \in Nat
                      /\ SumFunctionOnSet(g, T) \in Nat
                      /\ SumFunctionOnSet(f, T) <= SumFunctionOnSet(g, T)
           Good == {T \in SUBSET S : Fits(T)}
<1>1. ASSUME NEW T \in SUBSET S, \A U \in SUBSET T : U # T => U \in Good
      PROVE  T \in Good
  <2>1. CASE T = {}
    BY <2>1, SumEmpty
  <2>2. CASE T # {}
    <3> DEFINE p == Pick(T)
               r == T \ {p}
    <3>1. /\ SumFunctionOnSet(f, T) = f[p] + SumFunctionOnSet(f, r)
          /\ SumFunctionOnSet(g, T) = g[p] + SumFunctionOnSet(g, r)
          /\ p \in T
      BY <2>2, SumNonempty
    <3>2. f[p] \in Nat /\ g[p] \in Nat /\ f[p] <= g[p] /\ Fits(r)
      BY <1>1, <3>1
    <3> HIDE DEF p, r
    <3>3. Fits(T)
      BY <3>1, <3>2
    <3> QED
      BY <3>3
  <2> QED
    BY <2>1, <2>2
<1>2. S \in Good
  <2> HIDE DEF Good
  <2> QED
    BY <1>1, SubsetInduction
<1> QED
  BY <1>2

\* What one term gains, the sum gains.
LEMMA SumChange ==
    ASSUME NEW S, IsFiniteSet(S), NEW k, NEW d \in Nat,
           NEW f, \A x \in S : f[x] \in Nat, NEW g,
           \A x \in S : g[x] = IF x = k THEN f[x] + d ELSE f[x]
    PROVE  /\ SumFunctionOnSet(f, S) \in Nat
           /\ SumFunctionOnSet(g, S) =
                 SumFunctionOnSet(f, S) + (IF k \in S THEN d ELSE 0)
<1> DEFINE Fits(T) == /\ SumFunctionOnSet(f, T) \in Nat
                      /\ SumFunctionOnSet(g, T) =
                            SumFunctionOnSet(f, T) + (IF k \in T THEN d ELSE 0)
           Good == {T \in SUBSET S : Fits(T)}
<1>1. ASSUME NEW T \in SUBSET S, \A U \in SUBSET T : U # T => U \in Good
      PROVE  T \in Good
  <2>1. CASE T = {}
    BY <2>1, SumEmpty
  <2>2. CASE T # {}
    <3> DEFINE p == Pick(T)
               r == T \ {p}
    <3>1. /\ SumFunctionOnSet(f, T) = f[p] + SumFunctionOnSet(f, r)
          /\ SumFunctionOnSet(g, T) = g[p] + SumFunctionOnSet(g, r)
          /\ p \in T
      BY <2>2, SumNonempty
    <3>2. /\ f[p] \in Nat /\ g[p] = (IF p = k THEN f[p] + d ELSE f[p])
          /\ Fits(r)
          /\ k \in T <=> k = p \/ k \in r
          /\ p \notin r
      BY <1>1, <3>1
    <3> HIDE DEF p, r
    <3>3. Fits(T)
      BY <3>1, <3>2
    <3> QED
      BY <3>3
  <2> QED
    BY <2>1, <2>2
<1>2. S \in Good
  <2> HIDE DEF Good
  <2> QED
    BY <1>1, SubsetInduction
<1> QED
  BY <1>2

-----------------------------------------------------------------------------
(* users.upload against what was carried *)

\* There are finitely many node rows, and sources of counters.
FiniteTables == IsFiniteSet(Nodes) /\ IsFiniteSet(Sources)

LEMMA FewStreams ==
    ASSUME FiniteTables, NEW u \in Users PROVE IsFiniteSet(StreamsOf(u))
<1> DEFINE f == [p \in Nodes \X Sources |-> <<p[1], u, p[2]>>]
<1>1. IsFiniteSet(Nodes \X Sources)
  BY FS_Product DEF FiniteTables
<1>2. ASSUME NEW k \in StreamsOf(u)
      PROVE  \E p \in Nodes \X Sources : f[p] = k
  <2>1. /\ k[1] \in Nodes /\ k[3] \in Sources /\ k = <<k[1], u, k[3]>>
    BY DEF StreamsOf, Streams
  <2>2. <<k[1], k[3]>> \in Nodes \X Sources
    BY <2>1
  <2>3. f[<<k[1], k[3]>>] = k
    BY <2>1, <2>2
  <2> QED
    BY <2>2, <2>3
<1>3. f \in [Nodes \X Sources -> StreamsOf(u)]
  BY DEF StreamsOf, Streams
<1>4. f \in Surjection(Nodes \X Sources, StreamsOf(u))
  <2> HIDE DEF f
  <2> QED
    BY <1>2, <1>3 DEF Surjection
<1> QED
  BY <1>1, <1>4, FS_Surjection

\* What was credited to a user, and that the row, and the copy that a patch
\* will write back, never show more.
CreditedFor(u) == SumFunctionOnSet(credited, StreamsOf(u))
UsageInv == \A u \in Users :
                /\ used[u] <= CreditedFor(u)
                /\ edit[u] # NoEdit => edit[u] <= CreditedFor(u)

LEMMA SumsNat ==
    ASSUME FiniteTables, TypeOK, NEW u \in Users
    PROVE  CreditedFor(u) \in Nat /\ CarriedFor(u) \in Nat
<1>1. \A k \in StreamsOf(u) :
         /\ credited[k] \in Nat /\ carried[k] \in Nat
         /\ credited[k] <= credited[k] /\ carried[k] <= carried[k]
  BY DEF StreamsOf, TypeOK
<1>2. IsFiniteSet(StreamsOf(u))
  BY FewStreams
<1>3. CreditedFor(u) \in Nat
  BY <1>1, <1>2, SumMonotonic DEF CreditedFor
<1>4. CarriedFor(u) \in Nat
  BY <1>1, <1>2, SumMonotonic DEF CarriedFor
<1> QED
  BY <1>3, <1>4

\* A credit adds to the row what it adds to the sum.
LEMMA CreditUsage ==
    ASSUME FiniteTables, TypeOK, UsageInv,
           NEW c \in Collectors, NEW k \in Streams, Credit(c, k)
    PROVE  UsageInv'
<1> DEFINE add == Added(reading[c][k], cursor[k])
<1>1. add \in Nat
  BY AddedBounds DEF TypeOK
<1>2. /\ used' = [used EXCEPT ![k[2]] = @ + add]
      /\ credited' = [credited EXCEPT ![k] = @ + add]
      /\ edit' = edit
  BY DEF Credit, CreditRow
<1> HIDE DEF add
<1> SUFFICES ASSUME NEW u \in Users
             PROVE  /\ used'[u] <= CreditedFor(u)'
                    /\ edit'[u] # NoEdit => edit'[u] <= CreditedFor(u)'
  BY DEF UsageInv
<1>3. CreditedFor(u)' = CreditedFor(u) + (IF k \in StreamsOf(u) THEN add ELSE 0)
  <2>1. \A j \in StreamsOf(u) :
           /\ credited[j] \in Nat
           /\ credited'[j] = IF j = k THEN credited[j] + add ELSE credited[j]
    BY <1>2 DEF StreamsOf, TypeOK
  <2> QED
    BY <1>1, <2>1, FewStreams, SumChange DEF CreditedFor
<1>4. k \in StreamsOf(u) <=> k[2] = u
  BY DEF StreamsOf
<1>5. used'[u] = IF k[2] = u THEN used[u] + add ELSE used[u]
  BY <1>2 DEF TypeOK
<1>6. /\ used[u] \in Nat /\ CreditedFor(u) \in Nat /\ used[u] <= CreditedFor(u)
      /\ edit[u] # NoEdit => edit[u] \in Nat /\ edit[u] <= CreditedFor(u)
  BY SumsNat DEF TypeOK, UsageInv
<1> QED
  BY <1>1, <1>2, <1>3, <1>4, <1>5, <1>6

\* A reset only lowers the row; a patch copies it, and writes the copy back.
LEMMA NextUsage ==
    ASSUME FiniteTables, TypeOK, UsageInv, [Next]_vars PROVE UsageInv'
<1>1. ASSUME NEW c \in Collectors, NEW k \in Streams, Credit(c, k)
      PROVE  UsageInv'
  BY <1>1, CreditUsage
<1> SUFFICES ASSUME UNCHANGED credited,
                    \/ UNCHANGED <<used, edit>>
                    \/ \E u \in Users : \/ ResetQuotaPeriod(u)
                                        \/ PatchRead(u) \/ PatchWrite(u)
                    \/ RestartPlane
             PROVE  UsageInv'
  BY <1>1 DEF Next, NodeStep, CollectorStep, FaultStep, RowStep, Carry,
              RestartDaemon, BeginPass, Poll, PollFails, CreditFails,
              ResetQuotaPeriod, PatchRead, PatchWrite, RestartPlane, vars,
              store, history
<1> SUFFICES ASSUME NEW v \in Users
             PROVE  /\ used'[v] <= CreditedFor(v)
                    /\ edit'[v] # NoEdit => edit'[v] <= CreditedFor(v)
  BY DEF UsageInv, CreditedFor, StreamsOf
<1>2. /\ used[v] \in Nat /\ edit[v] \in Nat \cup {NoEdit}
      /\ CreditedFor(v) \in Nat /\ used[v] <= CreditedFor(v)
      /\ edit[v] # NoEdit => edit[v] <= CreditedFor(v)
  BY SumsNat DEF TypeOK, UsageInv
<1>3. CASE UNCHANGED <<used, edit>>
  BY <1>2, <1>3
<1>4. ASSUME NEW u \in Users, ResetQuotaPeriod(u)
      PROVE  used'[v] \in {0, used[v]} /\ edit' = edit
  BY <1>4 DEF ResetQuotaPeriod, TypeOK
<1>5. ASSUME NEW u \in Users, PatchRead(u)
      PROVE  edit'[v] \in {used[v], edit[v]} /\ used' = used
  BY <1>5 DEF PatchRead, TypeOK
<1>6. ASSUME NEW u \in Users, PatchWrite(u)
      PROVE  /\ edit'[v] \in {NoEdit, edit[v]}
             /\ used'[v] = used[v] \/ (edit[v] # NoEdit /\ used'[v] = edit[v])
  BY <1>6 DEF PatchWrite, TypeOK
<1>7. CASE RestartPlane
  BY <1>2, <1>7 DEF RestartPlane
<1> QED
  BY <1>2, <1>3, <1>4, <1>5, <1>6, <1>7

\* However credits, period resets and stale write-backs of patchUser interleave,
\* and whatever restarts and fails, users.upload never shows more than the
\* user's streams carried, if one collection runs at a time.
THEOREM OneCollectorUsedWithinCarried ==
    ASSUME OneCollector, FiniteTables PROVE Spec => []UsedWithinCarried
<1>1. Init => UsageInv
  <2> SUFFICES ASSUME Init, NEW u \in Users
               PROVE  used[u] <= CreditedFor(u) /\ edit[u] = NoEdit
    BY DEF UsageInv
  <2>1. TypeOK
    BY InitInv DEF LedgerInv
  <2> QED
    BY <2>1, SumsNat DEF Init
<1>2. TypeOK /\ UsageInv /\ [Next]_vars => UsageInv'
  BY NextUsage
<1>3. LedgerInv /\ UsageInv => UsedWithinCarried
  <2> SUFFICES ASSUME LedgerInv, UsageInv, NEW u \in Users
               PROVE  used[u] <= CarriedFor(u)
    BY DEF UsedWithinCarried
  <2>1. \A k \in StreamsOf(u) :
           credited[k] \in Nat /\ carried[k] \in Nat /\ credited[k] <= carried[k]
    BY InvImplies DEF StreamsOf, LedgerInv, TypeOK, NeverOverCredited
  <2>2. CreditedFor(u) <= CarriedFor(u)
    BY <2>1, FewStreams, SumMonotonic DEF CreditedFor, CarriedFor
  <2>3. /\ used[u] \in Nat /\ CreditedFor(u) \in Nat /\ CarriedFor(u) \in Nat
        /\ used[u] <= CreditedFor(u)
    BY <2>1, SumsNat DEF LedgerInv, UsageInv, TypeOK
  <2> QED
    BY <2>2, <2>3
<1> QED
  BY <1>1, <1>2, <1>3, InvHolds, TypeCorrect, PTL DEF Spec
=============================================================================
