--------------------------- MODULE NodeRowProofs ---------------------------
(***************************************************************************)
(* Type correctness of NodeRow, that whole-row writes keep the row         *)
(* consistent (RowConsistent), and that subscriptions list what runs       *)
(* (ServedUnlessAstray), for all requests, stacks, agents and bounds.      *)
(***************************************************************************)
EXTENDS NodeRow, TLAPS

-----------------------------------------------------------------------------
(* The inductive invariants *)

\* The checks of the requests.
Good(r) == /\ NeedsHostname(r.spec.families) => r.host # NoHost
           /\ r.status \in {"enrolled", "degraded", "failed"} => r.agent # None

HasCopy(t) == pc[t] \notin {"idle", "read"}

\* A request at work has a copy that passes the checks; from the enrolment or
\* the mutex on, the copy has an agent.  Once there was a node, settings are saved.
CopiesOk ==
    /\ \A t \in Admins : HasCopy(t) => copy[t] \in Rows /\ Good(copy[t])
    /\ \A t \in Admins : pc[t] \in {"health", "put", "save", "giveUp"}
                            => copy[t].agent # None
    /\ \A t \in Admins : pc[t] \in Steps
    /\ pc[Prober] \in ProbeSteps
    /\ pc[Prober] # "idle" => copy[Prober] \in Rows /\ copy[Prober].agent # None
    /\ row # None => saved \in Rows
    /\ \A t \in Admins : pc[t] # "idle" => saved \in Rows

RowInv == TypeOK /\ CopiesOk /\ RowConsistent

-----------------------------------------------------------------------------
(* Types, and what every row went through *)

Locked == {"put", "save", "giveUp", "links"}

\* A step of thread t alone.
LEMMA GotoType ==
    ASSUME TypeOK, NEW t \in Admins, NEW step \in Steps, Goto(t, step)
    PROVE  /\ pc' \in [Threads -> Steps \cup ProbeSteps]
           /\ pc'[t] = step
           /\ \A u \in Threads \ {t} : pc'[u] = pc[u]
           /\ t # Prober /\ pc'[Prober] = pc[Prober]
BY NodeAssumption DEF TypeOK, Goto, Threads

\* The mutex is the thread's own, taken, or given back.
LEMMA HolderType ==
    ASSUME TypeOK, NEW t \in Admins, NEW step \in Steps, Goto(t, step),
           \/ UNCHANGED holder /\ (pc[t] \in Locked <=> step \in Locked)
           \/ holder = None /\ holder' = t /\ step \in Locked
           \/ pc[t] \in Locked /\ holder' = None /\ step \notin Locked
    PROVE  /\ \A u \in Admins : holder' = u <=> pc'[u] \in Locked
           /\ holder' \in Admins \cup {None}
<1>1. /\ pc'[t] = step
      /\ \A u \in Admins \ {t} : pc'[u] = pc[u]
  BY GotoType DEF Threads
<1>2. /\ \A u \in Admins : holder = u <=> pc[u] \in Locked
      /\ holder \in Admins \cup {None}
      /\ None \notin Admins
  BY NodeAssumption DEF TypeOK, Locked
<1>. QED BY <1>1, <1>2

\* A step that keeps everything within its type.
LEMMA StepType ==
    ASSUME TypeOK, NEW t \in Admins, NEW step \in Steps, Goto(t, step),
           \/ UNCHANGED holder /\ (pc[t] \in Locked <=> step \in Locked)
           \/ holder = None /\ holder' = t /\ step \in Locked
           \/ pc[t] \in Locked /\ holder' = None /\ step \notin Locked,
           row' \in Rows \cup {None}, saved' \in Rows \cup {None}, astray' \in BOOLEAN,
           copy' \in [Threads -> Rows \cup {None}],
           grouped' \in BOOLEAN, links' \in Confs \cup {None},
           health' \in {"none", "alive", "dead"},
           config' \in [Agents -> [Daemons -> Confs \cup {None}]],
           up' \in SUBSET Agents, late' \in [Agents -> Confs \cup {None}],
           {ops', faults', dbFaults'} \subseteq Nat
    PROVE  TypeOK'
<1>1. pc' \in [Threads -> Steps \cup ProbeSteps] BY GotoType
<1>2. /\ \A u \in Admins : holder' = u <=> pc'[u] \in Locked
      /\ holder' \in Admins \cup {None}
  BY HolderType
<1>. QED BY <1>1, <1>2 DEF TypeOK, Locked

\* ... and leaves the thread a copy that passes the checks.
LEMMA StepCopies ==
    ASSUME TypeOK, CopiesOk, NEW t \in Admins, NEW step \in Steps, Goto(t, step),
           \A u \in Threads \ {t} : copy'[u] = copy[u],
           step \notin {"idle", "read"} => copy'[t] \in Rows /\ Good(copy'[t]),
           step \in {"health", "put", "save", "giveUp"} => copy'[t].agent # None,
           saved \in Rows => saved' \in Rows,
           row' # None \/ step # "idle" => saved' \in Rows
    PROVE  CopiesOk'
<1>1. /\ pc'[t] = step
      /\ \A u \in Admins \ {t} : pc'[u] = pc[u] /\ copy'[u] = copy[u]
      /\ pc'[Prober] = pc[Prober] /\ copy'[Prober] = copy[Prober]
  BY GotoType DEF Threads
<1>2. \A u \in Admins : HasCopy(u)' => copy'[u] \in Rows /\ Good(copy'[u])
  BY <1>1 DEF CopiesOk, HasCopy
<1>3. \A u \in Admins : pc'[u] \in {"health", "put", "save", "giveUp"}
                           => copy'[u].agent # None
  BY <1>1 DEF CopiesOk
<1>4. \A u \in Admins : pc'[u] # "idle" => saved' \in Rows
  BY <1>1 DEF CopiesOk
<1>. QED BY <1>1, <1>2, <1>3, <1>4 DEF CopiesOk, Good

\* What a request works with.
LEMMA CopyType ==
    ASSUME RowInv, NEW t \in Admins, HasCopy(t)
    PROVE  /\ copy[t] \in Rows /\ Good(copy[t]) /\ Conf(copy[t]) \in Confs
           /\ copy[t].agent \in Agents \cup {None}
           /\ saved \in Rows
           /\ Runs(copy[t].spec) \subseteq Daemons
<1>1. copy[t] \in Rows /\ Good(copy[t]) /\ saved \in Rows
  BY DEF RowInv, CopiesOk, HasCopy
<1>. QED BY <1>1 DEF Rows, Conf, Confs, Runs, Daemons

\* An agent that was configured has settings.
LEMMA ConfiguredType ==
    ASSUME TypeOK, NEW a \in Agents, NEW conf \in Confs, NEW new, NEW stop,
           Configured(a, conf, new, stop)
    PROVE  config' \in [Agents -> [Daemons -> Confs \cup {None}]]
<1> DEFINE g == [d \in Daemons |-> IF d \in stop THEN None
                                   ELSE IF d \in new THEN conf ELSE config[a][d]]
<1>1. g \in [Daemons -> Confs \cup {None}] BY DEF TypeOK
<1>2. config' = [config EXCEPT ![a] = g] BY DEF Configured, TypeOK
<1>. HIDE DEF g
<1>. QED BY <1>1, <1>2 DEF TypeOK

\* The budgets stay numbers.
LEMMA BudgetType ==
    ASSUME TypeOK
    PROVE  /\ \A t \in Admins : Request(t) => {ops', faults', dbFaults'} \subseteq Nat
           /\ Fault => {ops', faults', dbFaults'} \subseteq Nat
           /\ DbFault => {ops', faults', dbFaults'} \subseteq Nat
           /\ UNCHANGED budgets => {ops', faults', dbFaults'} \subseteq Nat
BY DEF TypeOK, Request, Fault, DbFault, budgets

\* A request that takes a copy of the row.
LEMMA BeginStep ==
    ASSUME RowInv, NEW t \in Admins, NEW r \in Rows, Good(r),
           NEW step \in {"writeSpec", "writeHost", "health", "lock"},
           step = "health" => r.agent # None, row # None,
           Begin(t, r, step)
    PROVE  RowInv'
<1>1. /\ copy' \in [Threads -> Rows \cup {None}]
      /\ copy'[t] = r
      /\ \A u \in Threads \ {t} : copy'[u] = copy[u]
  BY DEF RowInv, TypeOK, Begin, Threads
<1>2. /\ UNCHANGED <<row, grouped, links, holder, health, config, up, late, saved, astray>>
      /\ pc[t] = "idle" /\ Goto(t, step) /\ step \in Steps
      /\ {ops', faults', dbFaults'} \subseteq Nat
  BY BudgetType DEF Begin, Request, agents, history, Steps, RowInv
<1>3. TypeOK' BY <1>1, <1>2, StepType DEF RowInv, TypeOK, Locked
<1>4. CopiesOk' BY <1>1, <1>2, StepCopies DEF RowInv, CopiesOk
<1>5. RowConsistent' BY <1>2 DEF RowInv, RowConsistent
<1>. QED BY <1>3, <1>4, <1>5 DEF RowInv

\* A node is created.
LEMMA CreateStep ==
    ASSUME RowInv, NEW t \in Admins, NEW s \in Specs, NEW h \in Hosts,
           NEW inGroup \in BOOLEAN, NEW a \in Agents \cup {None},
           CreateNode(t, s, h, inGroup, a)
    PROVE  RowInv'
<1> DEFINE r == [spec |-> s, host |-> h, agent |-> None, status |-> "pending",
                 applied |-> {}]
           c == IF a = None THEN r ELSE [r EXCEPT !.agent = a, !.status = "enrolled"]
           step == IF inGroup THEN "group" ELSE IF a # None THEN "health" ELSE "idle"
<1>1. r \in Rows /\ c \in Rows BY DEF Rows, Statuses
<1>2. /\ r.spec = s /\ r.host = h /\ r.status = "pending"
      /\ c.spec = s /\ c.host = h /\ c.agent = a
      /\ c.status \in {"pending", "enrolled"} /\ (a = None => c.status = "pending")
  OBVIOUS
<1>3. NeedsHostname(s.families) => h # NoHost BY DEF CreateNode, MayCreate
<1>4. row' = r /\ saved' = r /\ copy' = [copy EXCEPT ![t] = c]
  BY DEF CreateNode
<1>5. /\ pc[t] = "idle" /\ Goto(t, step) /\ step \in Steps
      /\ step \in {"idle", "group", "health"} /\ (step = "health" => a # None)
      /\ {ops', faults', dbFaults'} \subseteq Nat
      /\ UNCHANGED <<grouped, links, holder, health, config, up, late, astray>>
  BY BudgetType DEF CreateNode, Request, agents, Steps, RowInv
<1>. HIDE DEF r, c, step
<1>6. /\ copy' \in [Threads -> Rows \cup {None}]
      /\ copy'[t] = c /\ \A u \in Threads \ {t} : copy'[u] = copy[u]
  BY <1>1, <1>4 DEF RowInv, TypeOK, Threads
<1>7. TypeOK' BY <1>1, <1>4, <1>5, <1>6, StepType DEF RowInv, TypeOK, Locked
<1>8. Good(c) /\ (step = "health" => c.agent # None)
  BY <1>2, <1>3, <1>5 DEF Good
<1>9. CopiesOk' BY <1>1, <1>4, <1>5, <1>6, <1>8, StepCopies DEF RowInv
<1>10. RowConsistent' BY <1>2, <1>3, <1>4 DEF RowConsistent
<1>. QED BY <1>7, <1>9, <1>10 DEF RowInv

\* The other requests.
LEMMA RequestStep ==
    ASSUME RowInv, NEW t \in Admins, Requests(t)
    PROVE  RowInv'
<1>1. ASSUME NEW s \in Specs, NEW h \in Hosts, NEW inGroup \in BOOLEAN,
             NEW a \in Agents \cup {None}, CreateNode(t, s, h, inGroup, a)
      PROVE  RowInv'
  BY <1>1, CreateStep
<1>2. row # None => row \in Rows /\ Good(row)
  BY DEF RowInv, TypeOK, RowConsistent, Good
<1>3. ASSUME NEW a \in Agents, EnrollNode(t, a) PROVE RowInv'
  <2> DEFINE r == [row EXCEPT !.agent = a, !.status = "enrolled"]
  <2>1. row # None /\ Begin(t, r, "health") BY <1>3 DEF EnrollNode
  <2>2. r \in Rows /\ r.agent = a /\ r.spec = row.spec /\ r.host = row.host
    BY <1>2, <2>1 DEF Rows, Statuses
  <2>3. Good(r) /\ r.agent # None BY <1>2, <2>1, <2>2, NodeAssumption DEF Good
  <2>. HIDE DEF r
  <2>. QED BY <2>1, <2>2, <2>3, BeginStep
<1>4. ASSUME NEW s \in Specs, SetNodeStack(t, s) PROVE RowInv'
  <2> DEFINE r == [row EXCEPT !.spec = s]
  <2>1. /\ row # None /\ Begin(t, r, "writeSpec")
        /\ NeedsHostname(s.families) => row.host # NoHost
    BY <1>4 DEF SetNodeStack, MaySave
  <2>2. /\ r \in Rows /\ r.agent = row.agent /\ r.spec = s /\ r.host = row.host
        /\ r.status = row.status
    BY <1>2, <2>1 DEF Rows
  <2>3. Good(r) BY <1>2, <2>1, <2>2 DEF Good
  <2>. HIDE DEF r
  <2>. QED BY <2>1, <2>2, <2>3, BeginStep
<1>5. ASSUME NEW h \in Hosts, PatchNode(t, h) PROVE RowInv'
  <2> DEFINE r == [row EXCEPT !.host = h]
  <2>1. /\ row # None /\ Begin(t, r, "writeHost")
        /\ NeedsHostname(row.spec.families) => h # NoHost
    BY <1>5 DEF PatchNode
  <2>2. /\ r \in Rows /\ r.agent = row.agent /\ r.spec = row.spec /\ r.host = h
        /\ r.status = row.status
    BY <1>2, <2>1 DEF Rows
  <2>3. Good(r) BY <1>2, <2>1, <2>2 DEF Good
  <2>. HIDE DEF r
  <2>. QED BY <2>1, <2>2, <2>3, BeginStep
<1>6. CASE ApplyNode(t) BY <1>2, <1>6, BeginStep DEF ApplyNode
<1>7. ASSUME NEW inGroup \in BOOLEAN, SetNodeGroups(t, inGroup) PROVE RowInv'
  <2>1. /\ pc[t] = "idle" /\ Goto(t, "read") /\ "read" \in Steps
        /\ {ops', faults', dbFaults'} \subseteq Nat /\ grouped' = inGroup
        /\ UNCHANGED <<row, links, holder, health, copy, config, up, late, saved, astray>>
        /\ row # None
    BY <1>7, BudgetType DEF SetNodeGroups, Request, agents, history, Steps, RowInv
  <2>2. TypeOK' BY <2>1, StepType DEF RowInv, TypeOK, Locked
  <2>3. CopiesOk' BY <2>1, StepCopies DEF RowInv, CopiesOk
  <2>4. RowConsistent' BY <2>1 DEF RowInv, RowConsistent
  <2>. QED BY <2>2, <2>3, <2>4 DEF RowInv
<1>8. CASE DeleteNode(t)
  <2>1. /\ row' = None /\ grouped' = FALSE /\ links' = None
        /\ UNCHANGED <<holder, health, pc, copy, config, up, late, saved, astray>>
        /\ {ops', faults', dbFaults'} \subseteq Nat
    BY <1>8, BudgetType DEF DeleteNode, agents, history, RowInv
  <2>2. TypeOK' BY <2>1 DEF RowInv, TypeOK
  <2>3. CopiesOk' BY <2>1 DEF RowInv, CopiesOk, HasCopy, Good
  <2>4. RowConsistent' BY <2>1 DEF RowConsistent
  <2>. QED BY <2>2, <2>3, <2>4 DEF RowInv
<1>. QED BY <1>1, <1>3, <1>4, <1>5, <1>6, <1>7, <1>8 DEF Requests

\* What a step of a request at work has to keep.
LEMMA WorkStep ==
    ASSUME RowInv, NEW t \in Admins, NEW step \in Steps, Goto(t, step),
           \/ UNCHANGED holder /\ (pc[t] \in Locked <=> step \in Locked)
           \/ holder = None /\ holder' = t /\ step \in Locked
           \/ pc[t] \in Locked /\ holder' = None /\ step \notin Locked,
           NEW c \in Rows \cup {None}, copy' = [copy EXCEPT ![t] = c],
           step \notin {"idle", "read"} => c \in Rows /\ Good(c),
           step \in {"health", "put", "save", "giveUp"} => c.agent # None,
           UNCHANGED row \/ (row' \in Rows /\ Good(row')), saved' \in Rows,
           grouped' \in BOOLEAN, astray' \in BOOLEAN,
           links' \in Confs \cup {None}, health' \in {"none", "alive", "dead"},
           config' \in [Agents -> [Daemons -> Confs \cup {None}]],
           late' \in [Agents -> Confs \cup {None}],
           {ops', faults', dbFaults'} \subseteq Nat,
           UNCHANGED up
    PROVE  RowInv'
<1>1. /\ copy' \in [Threads -> Rows \cup {None}]
      /\ copy'[t] = c /\ \A u \in Threads \ {t} : copy'[u] = copy[u]
  BY DEF RowInv, TypeOK, Threads
<1>2. row' \in Rows \cup {None} /\ up' \in SUBSET Agents
  BY DEF RowInv, TypeOK
<1>3. TypeOK' BY <1>1, <1>2, StepType DEF RowInv
<1>4. CopiesOk' BY <1>1, StepCopies DEF RowInv
<1>5. RowConsistent' BY DEF RowInv, RowConsistent, Good
<1>. QED BY <1>3, <1>4, <1>5 DEF RowInv

\* Store(r) keeps the row, or puts r in its place.
LEMMA Stored ==
    ASSUME NEW r \in Rows, Good(r), Store(r)
    PROVE  UNCHANGED row \/ (row' \in Rows /\ Good(row'))
BY DEF Store, Good

\* Steps before the mutex.
LEMMA EarlyStep ==
    ASSUME RowInv, NEW t \in Admins,
           \/ GroupNew(t) \/ GroupNewFails(t) \/ ReadNode(t) \/ WriteNode(t) \/ Enroll(t) \/ EnrollFails(t)
           \/ Lock(t) \/ LockFails(t)
    PROVE  RowInv'
<1> DEFINE c == copy[t]
<1>1. /\ c \in Rows \cup {None} /\ copy = [copy EXCEPT ![t] = c]
      /\ pc[t] # "idle" => saved \in Rows
      /\ HasCopy(t) => c \in Rows /\ Good(c) /\ saved \in Rows
      /\ pc[t] = "health" => c.agent # None
  BY CopyType DEF RowInv, TypeOK, CopiesOk, Threads
<1>2. /\ links \in Confs \cup {None} /\ health \in {"none", "alive", "dead"}
      /\ config \in [Agents -> [Daemons -> Confs \cup {None}]]
      /\ late \in [Agents -> Confs \cup {None}]
      /\ row \in Rows \cup {None} /\ (row # None => Good(row))
      /\ grouped \in BOOLEAN /\ astray \in BOOLEAN
  BY DEF RowInv, TypeOK, RowConsistent, Good
<1>3. CASE ReadNode(t)
  <2> DEFINE step == IF row = None THEN "idle" ELSE "lock"
  <2>1. /\ pc[t] = "read" /\ copy' = [copy EXCEPT ![t] = row] /\ Goto(t, step)
        /\ step \in {"idle", "lock"} /\ (step = "lock" => row \in Rows /\ Good(row))
        /\ UNCHANGED <<row, grouped, links, holder, health, config, up, late, saved, astray>>
        /\ {ops', faults', dbFaults'} \subseteq Nat
    BY <1>2, <1>3, BudgetType DEF ReadNode, agents, history, RowInv
  <2>2. /\ step \in Steps /\ pc[t] \notin Locked /\ step \notin Locked
        /\ step \notin {"health", "put", "save", "giveUp"} /\ saved' \in Rows
    BY <1>1, <2>1 DEF Steps, Locked
  <2>3. row \in Rows \cup {None} /\ (step \notin {"idle", "read"} => row \in Rows /\ Good(row))
    BY <1>2, <2>1
  <2>. HIDE DEF step
  <2>. QED BY <1>2, <2>1, <2>2, <2>3, WorkStep
<1>4. CASE WriteNode(t)
  <2> DEFINE step == IF c.status = "pending" THEN "idle" ELSE "lock"
  <2>1. /\ pc[t] \in {"writeSpec", "writeHost"} /\ Store(c) /\ Goto(t, step)
        /\ step \in {"idle", "lock"} /\ HasCopy(t)
        /\ UNCHANGED <<grouped, links, holder, health, copy, config, up, late, astray>>
        /\ {ops', faults', dbFaults'} \subseteq Nat
    BY <1>4, BudgetType DEF WriteNode, agents, RowInv, HasCopy
  <2>2. saved' \in Rows BY <1>1, <1>4, <2>1 DEF WriteNode, Rows
  <2>3. UNCHANGED row \/ (row' \in Rows /\ Good(row')) BY <1>1, <2>1, Stored
  <2>. HIDE DEF step, c
  <2>. QED BY <1>1, <1>2, <2>1, <2>2, <2>3, WorkStep DEF Steps, Locked
<1>5. CASE Enroll(t)
  <2>1. /\ pc[t] = "health" /\ Store(c) /\ Goto(t, "idle") /\ HasCopy(t)
        /\ UNCHANGED <<grouped, links, holder, health, copy, config, up, late, astray>>
        /\ {ops', faults', dbFaults'} \subseteq Nat
    BY <1>5, BudgetType DEF Enroll, agents, RowInv, HasCopy
  <2>2. saved' \in Rows BY <1>1, <1>5, <2>1 DEF Enroll, Rows
  <2>3. UNCHANGED row \/ (row' \in Rows /\ Good(row')) BY <1>1, <2>1, Stored
  <2>. HIDE DEF c
  <2>. QED BY <1>1, <1>2, <2>1, <2>2, <2>3, WorkStep DEF Steps, Locked
<1>6. CASE EnrollFails(t) \/ LockFails(t) \/ GroupNewFails(t)
  <2>1. /\ pc[t] \in {"health", "lock", "group"} /\ Goto(t, "idle")
        /\ UNCHANGED <<row, grouped, links, holder, health, copy, config, up, late,
                       saved>>
        /\ {ops', faults', dbFaults'} \subseteq Nat
        /\ astray' \in BOOLEAN
    BY <1>2, <1>6, BudgetType DEF EnrollFails, LockFails, GroupNewFails, agents, history,
       RowInv, Stray, Listed
  <2>. HIDE DEF c
  <2>. QED BY <1>1, <1>2, <2>1, WorkStep DEF Steps, Locked
<1>7. CASE Lock(t)
  <2>1. /\ pc[t] = "lock" /\ holder = None /\ HasCopy(t)
        /\ \/ c.agent # None /\ holder' = t /\ Goto(t, "put")
           \/ UNCHANGED holder /\ Goto(t, "idle")
        /\ UNCHANGED <<row, grouped, links, health, copy, config, up, late, saved>>
        /\ {ops', faults', dbFaults'} \subseteq Nat
        /\ astray' \in BOOLEAN
    BY <1>2, <1>7, BudgetType DEF Lock, agents, RowInv, HasCopy, Stray, Listed
  <2>. HIDE DEF c
  <2>2. CASE c.agent # None /\ holder' = t /\ Goto(t, "put")
    BY <1>1, <1>2, <2>1, <2>2, WorkStep DEF Steps, Locked
  <2>3. CASE UNCHANGED holder /\ Goto(t, "idle")
    BY <1>1, <1>2, <2>1, <2>3, WorkStep DEF Steps, Locked
  <2>. QED BY <2>1, <2>2, <2>3
<1>8. CASE GroupNew(t)
  <2> DEFINE step == IF c.agent = None THEN "idle" ELSE "health"
  <2>1. /\ pc[t] = "group" /\ Goto(t, step) /\ HasCopy(t) /\ grouped' = TRUE
        /\ step \in {"idle", "health"} /\ (step = "health" => c.agent # None)
        /\ UNCHANGED <<row, links, holder, health, copy, config, up, late, saved>>
        /\ {ops', faults', dbFaults'} \subseteq Nat
        /\ astray' \in BOOLEAN
    BY <1>2, <1>8, BudgetType DEF GroupNew, agents, RowInv, HasCopy, Stray, Listed
  <2>. HIDE DEF step, c
  <2>. QED BY <1>1, <1>2, <2>1, WorkStep DEF Steps, Locked
<1>. QED BY <1>3, <1>4, <1>5, <1>6, <1>7, <1>8

\* Steps with the mutex: the PUT ...
LEMMA PutStep ==
    ASSUME RowInv, NEW t \in Admins,
           PutOk(t) \/ PutPartial(t) \/ PutRefused(t) \/ PutTimesOut(t)
    PROVE  RowInv'
<1> DEFINE c == copy[t]
           d(status, fams) == [c EXCEPT !.status = status, !.applied = fams]
           f == [c EXCEPT !.status = "failed"]
<1>1. pc[t] = "put" /\ HasCopy(t)
  BY DEF PutOk, PutPartial, PutRefused, PutTimesOut, Failed, HasCopy
<1>2. /\ c \in Rows /\ Good(c) /\ saved \in Rows /\ Conf(c) \in Confs
      /\ c.agent \in Agents /\ c.agent # None
      /\ Runs(c.spec) \subseteq Daemons
  BY <1>1, CopyType DEF RowInv, CopiesOk
<1>3. /\ links \in Confs \cup {None} /\ health \in {"none", "alive", "dead"}
      /\ config \in [Agents -> [Daemons -> Confs \cup {None}]]
      /\ late \in [Agents -> Confs \cup {None}]
      /\ grouped \in BOOLEAN /\ astray \in BOOLEAN
  BY DEF RowInv, TypeOK
<1>4. {ops', faults', dbFaults'} \subseteq Nat
  BY BudgetType DEF PutOk, PutPartial, PutRefused, PutTimesOut, RowInv, budgets
<1>5. ASSUME NEW status \in {"ready", "degraded", "failed"},
             NEW fams \in SUBSET Runs(c.spec), NEW new, NEW stop,
             Put(t, status, fams, new, stop)
      PROVE  RowInv'
  <2>1. /\ copy' = [copy EXCEPT ![t] = d(status, fams)] /\ Goto(t, "save")
        /\ Configured(c.agent, Conf(c), new, stop)
        /\ UNCHANGED <<row, grouped, links, holder, health, up, late, saved, astray>>
    BY <1>5 DEF Put, RowInv, TypeOK, history
  <2>2. d(status, fams) \in Rows BY <1>2 DEF Rows, Statuses
  <2>3. /\ d(status, fams).agent = c.agent /\ d(status, fams).spec = c.spec
        /\ d(status, fams).host = c.host
    BY <1>2 DEF Rows
  <2>4. Good(d(status, fams)) BY <1>2, <2>3 DEF Good
  <2>5. config' \in [Agents -> [Daemons -> Confs \cup {None}]]
    BY <1>2, <2>1, ConfiguredType DEF RowInv
  <2>. HIDE DEF c, d
  <2>. QED BY <1>1, <1>2, <1>3, <1>4, <2>1, <2>2, <2>3, <2>4, <2>5, WorkStep
           DEF Steps, Locked
<1>6. ASSUME Failed(t), late' \in [Agents -> Confs \cup {None}],
             config' \in [Agents -> [Daemons -> Confs \cup {None}]]
      PROVE  RowInv'
  <2>1. /\ copy' = [copy EXCEPT ![t] = f] /\ Goto(t, "giveUp")
        /\ UNCHANGED <<row, grouped, links, holder, health, up, saved, astray>>
    BY <1>6 DEF Failed, RowInv, TypeOK, history
  <2>2. f \in Rows /\ f.agent = c.agent /\ f.spec = c.spec /\ f.host = c.host
    BY <1>2 DEF Rows, Statuses
  <2>3. Good(f) BY <1>2, <2>2 DEF Good
  <2>. HIDE DEF c, f
  <2>. QED BY <1>1, <1>2, <1>3, <1>4, <1>6, <2>1, <2>2, <2>3, WorkStep
           DEF Steps, Locked
<1>7. CASE PutOk(t) BY <1>5, <1>7 DEF PutOk
<1>8. CASE PutPartial(t)
  <2>1. PICK fams, new \in SUBSET Runs(c.spec) :
            Put(t, IF fams = {} THEN "failed" ELSE "degraded", fams, new, {})
    BY <1>8 DEF PutPartial
  <2>. QED BY <1>5, <2>1
<1>9. CASE PutRefused(t)
  <2>1. Failed(t) /\ UNCHANGED late
        /\ \/ UNCHANGED config
           \/ \E new \in SUBSET Runs(c.spec) : Configured(c.agent, Conf(c), new, {})
    BY <1>9 DEF PutRefused
  <2>2. config' \in [Agents -> [Daemons -> Confs \cup {None}]]
    BY <1>2, <1>3, <2>1, ConfiguredType DEF RowInv
  <2>. QED BY <1>3, <1>6, <2>1, <2>2
<1>10. CASE PutTimesOut(t)
  <2>1. late' = [late EXCEPT ![c.agent] = Conf(c)] /\ UNCHANGED config /\ Failed(t)
    BY <1>10 DEF PutTimesOut
  <2>. QED BY <1>2, <1>3, <1>6, <2>1
<1>. QED BY <1>7, <1>8, <1>9, <1>10

\* ... and what is stored after it.
LEMMA SaveStep ==
    ASSUME RowInv, NEW t \in Admins,
           GiveUp(t) \/ Save(t) \/ ReplaceTTLinks(t) \/ StoreFails(t)
    PROVE  RowInv'
<1> DEFINE c == copy[t]
<1>1. pc[t] \in Locked /\ HasCopy(t)
  BY DEF GiveUp, Save, ReplaceTTLinks, StoreFails, HasCopy, Locked
<1>2. /\ c \in Rows /\ Good(c) /\ saved \in Rows /\ Conf(c) \in Confs
      /\ copy = [copy EXCEPT ![t] = c]
  BY <1>1, CopyType DEF RowInv, TypeOK
<1>3. /\ links \in Confs \cup {None} /\ health \in {"none", "alive", "dead"}
      /\ config \in [Agents -> [Daemons -> Confs \cup {None}]]
      /\ late \in [Agents -> Confs \cup {None}]
      /\ grouped \in BOOLEAN /\ astray \in BOOLEAN
  BY DEF RowInv, TypeOK
<1>4. {ops', faults', dbFaults'} \subseteq Nat
  BY BudgetType DEF GiveUp, Save, ReplaceTTLinks, StoreFails, RowInv
<1>5. CASE GiveUp(t)
  <2>1. /\ Store(c) /\ Goto(t, "idle") /\ holder' = None
        /\ UNCHANGED <<grouped, links, health, copy, config, up, late, saved, astray>>
    BY <1>5 DEF GiveUp, Unlock, agents, history
  <2>2. UNCHANGED row \/ (row' \in Rows /\ Good(row')) BY <1>2, <2>1, Stored
  <2>. HIDE DEF c
  <2>. QED BY <1>1, <1>2, <1>3, <1>4, <2>1, <2>2, WorkStep DEF Steps, Locked
<1>6. CASE Save(t)
  <2>1. /\ Store(c) /\ Goto(t, "links") /\ health' = "none" /\ pc[t] = "save"
        /\ UNCHANGED <<grouped, links, holder, copy, config, up, late, saved>>
        /\ astray' \in BOOLEAN
    BY <1>6 DEF Save, agents
  <2>2. UNCHANGED row \/ (row' \in Rows /\ Good(row')) BY <1>2, <2>1, Stored
  <2>. HIDE DEF c
  <2>. QED BY <1>1, <1>2, <1>3, <1>4, <2>1, <2>2, WorkStep DEF Steps, Locked
<1>7. CASE ReplaceTTLinks(t)
  <2>1. /\ Goto(t, "idle") /\ holder' = None /\ links' \in {Conf(c), None}
        /\ UNCHANGED <<row, grouped, health, copy, config, up, late, saved, astray>>
    BY <1>7 DEF ReplaceTTLinks, Unlock, agents, history
  <2>. HIDE DEF c
  <2>. QED BY <1>1, <1>2, <1>3, <1>4, <2>1, WorkStep DEF Steps, Locked
<1>8. CASE StoreFails(t)
  <2>1. /\ Goto(t, "idle") /\ holder' = None
        /\ UNCHANGED <<row, grouped, links, health, copy, config, up, late, saved>>
        /\ astray' \in BOOLEAN
    BY <1>3, <1>8 DEF StoreFails, Unlock, agents, Stray, Listed
  <2>. HIDE DEF c
  <2>. QED BY <1>1, <1>2, <1>3, <1>4, <2>1, WorkStep DEF Steps, Locked
<1>. QED BY <1>5, <1>6, <1>7, <1>8

\* Probes write the status, and only those two.
LEMMA ProbeStep ==
    ASSUME RowInv, Probe
    PROVE  RowInv'
<1> DEFINE p == Prober
<1>0. p \in Threads /\ p \notin Admins BY NodeAssumption DEF Threads
<1>1. /\ links \in Confs \cup {None} /\ health \in {"none", "alive", "dead"}
      /\ row \in Rows \cup {None} /\ (row # None => saved \in Rows)
  BY DEF RowInv, TypeOK, CopiesOk
<1>2. ASSUME NEW step \in ProbeSteps, Goto(p, step),
             copy' \in [Threads -> Rows \cup {None}],
             \A u \in Admins : copy'[u] = copy[u],
             step # "idle" => copy'[p] \in Rows /\ copy'[p].agent # None,
             health' \in {"none", "alive", "dead"}, astray' \in BOOLEAN,
             row' \in Rows \cup {None}, row' # None => row # None, RowConsistent',
             UNCHANGED <<grouped, links, holder, agents, saved, budgets>>
      PROVE  RowInv'
  <2>1. /\ pc' \in [Threads -> Steps \cup ProbeSteps] /\ pc'[p] = step
        /\ \A u \in Admins : pc'[u] = pc[u]
    BY <1>0, <1>2 DEF Goto, RowInv, TypeOK, Threads
  <2>2. \A u \in Admins : holder' = u <=> pc'[u] \in Locked
    BY <1>2, <2>1 DEF RowInv, TypeOK, Locked
  <2>3. UNCHANGED <<grouped, links, holder, config, up, late, saved>>
        /\ {ops', faults', dbFaults'} \subseteq Nat
    BY <1>2 DEF agents, budgets, RowInv, TypeOK
  <2>4. TypeOK' BY <1>2, <2>1, <2>2, <2>3 DEF RowInv, TypeOK, Locked
  <2>5. CopiesOk' BY <1>2, <2>1, <2>3 DEF RowInv, CopiesOk, HasCopy, Good
  <2>. QED BY <1>2, <2>4, <2>5 DEF RowInv
<1>3. CASE ProbeRead
  <2>1. /\ copy' = [copy EXCEPT ![p] = row] /\ row # None /\ row.agent # None
        /\ Goto(p, "ask")
        /\ UNCHANGED <<row, grouped, links, holder, health, agents, saved, budgets>>
        /\ UNCHANGED astray
    BY <1>3 DEF ProbeRead, history
  <2>2. /\ copy' \in [Threads -> Rows \cup {None}] /\ copy'[p] = row
        /\ \A u \in Admins : copy'[u] = copy[u]
    BY <1>0, <1>1, <2>1 DEF RowInv, TypeOK
  <2>3. RowConsistent' BY <2>1 DEF RowInv, RowConsistent
  <2>4. "ask" \in ProbeSteps /\ astray \in BOOLEAN
    BY DEF ProbeSteps, RowInv, TypeOK
  <2>. QED BY <1>1, <1>2, <2>1, <2>2, <2>3, <2>4
<1>4. ASSUME NEW step \in ProbeSteps \ {"idle"}, NEW next \in ProbeSteps,
             Probes(step, next), health' \in {"none", "alive", "dead"}
      PROVE  RowInv'
  <2>1. /\ pc[p] # "idle" /\ Goto(p, next)
        /\ UNCHANGED <<row, grouped, links, holder, copy, agents, saved, budgets>>
        /\ UNCHANGED astray /\ astray \in BOOLEAN
    BY <1>4 DEF Probes, history, RowInv, TypeOK
  <2>2. RowConsistent' BY <2>1 DEF RowInv, RowConsistent
  <2>3. copy \in [Threads -> Rows \cup {None}]
        /\ copy[p] \in Rows /\ copy[p].agent # None
    BY <2>1 DEF RowInv, TypeOK, CopiesOk
  <2>. QED BY <1>1, <1>2, <1>4, <2>1, <2>2, <2>3
<1>5. CASE ProbeCached \/ ProbeAgent \/ ProbeCache
  <2>1. \E step \in ProbeSteps \ {"idle"}, next \in ProbeSteps :
            Probes(step, next) /\ health' \in {"none", "alive", "dead"}
    <3>1. CASE ProbeCached BY <1>1, <3>1 DEF ProbeCached, ProbeSteps
    <3>2. CASE ProbeAgent BY <1>1, <3>2 DEF ProbeAgent, ProbeSteps
    <3>3. CASE ProbeCache BY <3>3 DEF ProbeCache, ProbeSteps
    <3>. QED BY <1>5, <3>1, <3>2, <3>3
  <2>. QED BY <1>4, <2>1
<1>6. CASE Note
  <2> DEFINE next == NextStatus(copy[p].status, pc[p] = "noteAlive")
  <2>1. /\ Goto(p, "idle")
        /\ row' = IF row = None \/ next = copy[p].status THEN row
                  ELSE [row EXCEPT !.status = next]
        /\ UNCHANGED <<grouped, links, holder, health, copy, agents, saved, budgets>>
        /\ astray' \in BOOLEAN
    BY <1>6 DEF Note, Stray, Listed, RowInv, TypeOK
  <2>2. next # copy[p].status => next \in {"ready", "offline"} BY DEF NextStatus
  <2>. HIDE DEF next
  <2>3. row' \in Rows \cup {None} /\ (row' # None => row # None)
    BY <1>1, <2>1, <2>2 DEF Rows, Statuses
  <2>4. RowConsistent'
    BY <1>1, <2>1, <2>2 DEF RowInv, RowConsistent, Rows
  <2>5. copy' \in [Threads -> Rows \cup {None}] BY <2>1 DEF RowInv, TypeOK
  <2>6. "idle" \in ProbeSteps BY DEF ProbeSteps
  <2>. QED BY <1>1, <1>2, <2>1, <2>3, <2>4, <2>5, <2>6
<1>7. CASE Expire
  <2>1. /\ health' = "none"
        /\ UNCHANGED <<row, grouped, links, holder, pc, copy, config, up, late, saved,
                       astray, ops, faults, dbFaults>>
    BY <1>7 DEF Expire, agents, history, budgets
  <2>. QED BY <2>1 DEF RowInv, TypeOK, CopiesOk, HasCopy, Good, RowConsistent
<1>. QED BY <1>3, <1>5, <1>6, <1>7 DEF Probe

\* The agents.
LEMMA AgentStep ==
    ASSUME RowInv, NEW a \in Agents, Late(a) \/ Flip(a)
    PROVE  RowInv'
<1>1. /\ UNCHANGED <<row, grouped, links, holder, health, pc, copy, saved, astray>>
      /\ {ops', faults', dbFaults'} \subseteq Nat
  BY BudgetType DEF Late, Flip, history, RowInv
<1>2. /\ config' \in [Agents -> [Daemons -> Confs \cup {None}]]
      /\ late' \in [Agents -> Confs \cup {None}] /\ up' \in SUBSET Agents
  <2>1. CASE Late(a)
    <3>1. /\ late[a] \in Confs /\ UNCHANGED up
          /\ late' = [late EXCEPT ![a] = None]
          /\ \E new \in SUBSET Runs(late[a][1]) : Configured(a, late[a], new, {})
      BY <2>1 DEF Late, RowInv, TypeOK
    <3>. QED BY <3>1, ConfiguredType DEF RowInv, TypeOK
  <2>2. CASE Flip(a) BY <2>2 DEF Flip, RowInv, TypeOK
  <2>. QED BY <2>1, <2>2
<1>. QED BY <1>1, <1>2 DEF RowInv, TypeOK, CopiesOk, HasCopy, Good, RowConsistent

\* No step breaks the row.
LEMMA RowStep == RowInv /\ [Next]_vars => RowInv'
<1> SUFFICES ASSUME RowInv, [Next]_vars PROVE RowInv' OBVIOUS
<1>1. ASSUME NEW t \in Admins, Requests(t) \/ Work(t) PROVE RowInv'
  BY <1>1, RequestStep, EarlyStep, PutStep, SaveStep DEF Work
<1>2. ASSUME NEW a \in Agents, Late(a) \/ Flip(a) PROVE RowInv'
  BY <1>2, AgentStep
<1>3. CASE UNCHANGED vars
  BY <1>3 DEF vars, agents, history, budgets, RowInv, TypeOK, CopiesOk, HasCopy, Good,
              RowConsistent
<1>. QED BY <1>1, <1>2, <1>3, ProbeStep DEF Next

\* The row is right in every run.
LEMMA RowInvariance == Spec => []RowInv
<1>1. Init => RowInv
  <2> SUFFICES ASSUME Init PROVE RowInv OBVIOUS
  <2>1. TypeOK
    <3>1. \A t \in Admins : holder = t <=> pc[t] \in {"put", "save", "giveUp", "links"}
      BY NodeAssumption DEF Init, Threads
    <3>2. config \in [Agents -> [Daemons -> Confs \cup {None}]] BY DEF Init
    <3>3. /\ pc \in [Threads -> Steps \cup ProbeSteps]
          /\ copy \in [Threads -> Rows \cup {None}]
          /\ late \in [Agents -> Confs \cup {None}]
      BY DEF Init, Steps
    <3>4. /\ row = None /\ grouped = FALSE /\ links = None /\ holder = None
          /\ health = "none" /\ up = Agents /\ saved = None /\ astray = FALSE
          /\ ops = 0 /\ faults = 0 /\ dbFaults = 0
      BY DEF Init
    <3>5. /\ {row, saved} \subseteq Rows \cup {None}
          /\ links \in Confs \cup {None}
      BY <3>4
    <3>6. /\ grouped \in BOOLEAN /\ holder \in Admins \cup {None}
          /\ health \in {"none", "alive", "dead"}
      BY <3>4
    <3>7. up \in SUBSET Agents /\ {ops, faults, dbFaults} \subseteq Nat
      BY <3>4
    <3>8. saved \in Rows \cup {None} /\ astray \in BOOLEAN BY <3>4
    <3>. QED BY <3>1, <3>2, <3>3, <3>5, <3>6, <3>7, <3>8 DEF TypeOK
  <2>2. CopiesOk BY DEF Init, CopiesOk, HasCopy, Threads, Steps, ProbeSteps
  <2>3. RowConsistent BY DEF Init, RowConsistent
  <2>. QED BY <2>1, <2>2, <2>3 DEF RowInv
<1>. QED BY <1>1, RowStep, PTL DEF Spec

\* Every run is type correct, with probes and every failure.
THEOREM TypeCorrect == Spec => []TypeOK
BY RowInvariance, PTL DEF RowInv

\* However many requests write back whole rows they read earlier, and whatever the
\* probes do, the row passes the checks of the requests (setNodeStack, patchNode,
\* doEnroll, applyStoredNode).
THEOREM RowStaysConsistent == Spec => []RowConsistent
BY RowInvariance, PTL DEF RowInv

-----------------------------------------------------------------------------
(* What is listed: the inductive invariant *)

\* What enrolments and applies that failed are going to write.
Answered ==
    \A t \in Admins :
        /\ pc[t] = "group" => copy[t].agent = None \/ copy[t].status = "enrolled"
        /\ pc[t] = "health" => copy[t].status = "enrolled"
        /\ pc[t] = "giveUp" => copy[t].status = "failed"

\* A thread that is going to apply the node, and to store how that ended.
Rescue(t) == pc[t] \in {"read", "lock", "put", "save", "giveUp"}
Rescued == \E t \in Admins : Rescue(t)

\* The node has an agent, which runs the families of r with the settings of r, and
\* no PUT that was given up on can change that.
Served(r) == /\ r.agent # None
             /\ \A d \in r.applied : config[r.agent][d] = Conf(r)
             /\ late[r.agent] = None

\* While nobody is going to apply the node, what is listed runs, ...
ListedRuns == Listed /\ ~astray => Served(row) \/ Rescued
\* ... and once the last apply has replaced them, links fit.
ListedLinks ==
    Listed /\ ~astray /\ "tt" \in row.applied =>
        \/ links \in {None, Conf(row)}
        \/ Rescued \/ \E t \in Admins : pc[t] = "links"
\* What a thread is going to save runs, and stays what the row says for its links.
Saving ==
    \A t \in Admins :
        /\ pc[t] = "save" => Served(copy[t])
        /\ pc[t] = "links" /\ Listed /\ ~astray => Conf(row) = Conf(copy[t]) \/ Rescued

\* The parts that are not about the row alone.
Lists == Answered /\ ListedRuns /\ ListedLinks /\ Saving
ListedInv == RowInv /\ Lists

-----------------------------------------------------------------------------
(* What is listed: the steps *)

\* Steps after which somebody is going to apply the node, it is not listed, or it
\* is known to be astray.
LEMMA Relieved ==
    ASSUME Rescued' \/ ~Listed' \/ astray',
           \A u \in Admins : pc'[u] = "save" => Served(copy[u])'
    PROVE  ListedRuns' /\ ListedLinks' /\ Saving'
BY DEF ListedRuns, ListedLinks, Saving

\* Steps that leave the row, the agents and the applies under way alone.
LEMMA Kept ==
    ASSUME ListedInv, UNCHANGED <<row, grouped, links, config, late>>,
           astray => astray',
           \A u \in Admins : Rescue(u) => Rescue(u)',
           \A u \in Admins : pc'[u] = "links" <=> pc[u] = "links",
           \A u \in Admins : pc'[u] = "save" => pc[u] = "save",
           \A u \in Admins : pc'[u] \in {"links", "save"} => copy'[u] = copy[u]
    PROVE  ListedRuns' /\ ListedLinks' /\ Saving'
<1>1. Listed' = Listed BY DEF Listed
<1>2. Rescued => Rescued' BY DEF Rescued
<1>3. ListedRuns' BY <1>1, <1>2 DEF ListedInv, Lists, ListedRuns, Served, Conf
<1>4. ListedLinks' BY <1>1, <1>2 DEF ListedInv, Lists, ListedLinks, Conf
<1>5. Saving' BY <1>1, <1>2 DEF ListedInv, Lists, Saving, Served, Conf
<1>. QED BY <1>3, <1>4, <1>5

\* Only one thread is between the PUT and the links.
LEMMA Alone ==
    ASSUME RowInv, NEW t \in Admins, NEW u \in Admins,
           pc[t] \in Locked, pc[u] \in Locked
    PROVE  t = u
BY DEF RowInv, TypeOK, Locked

\* What a thread's step has to keep of Answered.
LEMMA AnsweredStep ==
    ASSUME ListedInv, NEW t \in Admins, NEW step \in Steps, Goto(t, step),
           \A u \in Admins \ {t} : copy'[u] = copy[u],
           step = "group" => copy'[t].agent = None \/ copy'[t].status = "enrolled",
           step = "health" => copy'[t].status = "enrolled",
           step = "giveUp" => copy'[t].status = "failed"
    PROVE  /\ Answered'
           /\ pc'[t] = step /\ \A u \in Admins \ {t} : pc'[u] = pc[u]
<1>1. pc'[t] = step /\ \A u \in Admins \ {t} : pc'[u] = pc[u]
  BY GotoType DEF ListedInv, RowInv, Threads
<1>. QED BY <1>1 DEF ListedInv, Lists, Answered

\* A request that takes a copy.
LEMMA BeginLists ==
    ASSUME ListedInv, NEW t \in Admins, NEW r \in Rows,
           NEW step \in {"writeSpec", "writeHost", "health", "lock"},
           step = "health" => r.status = "enrolled",
           Begin(t, r, step)
    PROVE  Lists'
<1>1. /\ copy'[t] = r
      /\ \A u \in Admins \ {t} : copy'[u] = copy[u]
  BY DEF ListedInv, RowInv, TypeOK, Begin, Threads
<1>2. /\ pc[t] = "idle" /\ Goto(t, step) /\ step \in Steps
      /\ UNCHANGED <<row, grouped, links, config, late, astray>>
  BY DEF Begin, Request, agents, history, Steps
<1>3. Answered' /\ pc'[t] = step /\ \A u \in Admins \ {t} : pc'[u] = pc[u]
  BY <1>1, <1>2, AnsweredStep
<1>4. \A u \in Admins : Rescue(u) => Rescue(u)' BY <1>1, <1>2, <1>3 DEF Rescue
<1>5. ListedRuns' /\ ListedLinks' /\ Saving' BY <1>1, <1>2, <1>3, <1>4, Kept
<1>. QED BY <1>3, <1>5 DEF Lists

\* Requests at their start.
LEMMA RequestLists ==
    ASSUME ListedInv, NEW t \in Admins, Requests(t)
    PROVE  Lists'
<1>1. row # None => row \in Rows BY DEF ListedInv, RowInv, TypeOK
<1>2. ASSUME NEW s \in Specs, NEW h \in Hosts, NEW inGroup \in BOOLEAN,
             NEW a \in Agents \cup {None}, CreateNode(t, s, h, inGroup, a)
      PROVE  Lists'
  <2> DEFINE step == IF inGroup THEN "group" ELSE IF a # None THEN "health" ELSE "idle"
  <2>1. /\ copy'[t].agent = a /\ (a # None => copy'[t].status = "enrolled")
        /\ \A u \in Admins \ {t} : copy'[u] = copy[u]
    BY <1>2 DEF CreateNode, ListedInv, RowInv, TypeOK, Threads
  <2>2. /\ row'.status = "pending" /\ Goto(t, step)
        /\ step \in {"idle", "group", "health"} /\ (step = "health" => a # None)
        /\ UNCHANGED <<config, late>>
    BY <1>2 DEF CreateNode, agents
  <2>. HIDE DEF step
  <2>3. Answered' /\ pc'[t] = step /\ \A u \in Admins \ {t} : pc'[u] = pc[u]
    BY <2>1, <2>2, AnsweredStep DEF Steps
  <2>4. ~Listed' BY <2>2 DEF Listed
  <2>5. \A u \in Admins : pc'[u] = "save" => Served(copy[u])'
    BY <2>1, <2>2, <2>3 DEF ListedInv, Lists, Saving, Served, Conf
  <2>. QED BY <2>3, <2>4, <2>5, Relieved DEF Lists
<1>3. ASSUME NEW a \in Agents, EnrollNode(t, a) PROVE Lists'
  <2> DEFINE r == [row EXCEPT !.agent = a, !.status = "enrolled"]
  <2>1. row # None /\ Begin(t, r, "health") BY <1>3 DEF EnrollNode
  <2>2. r \in Rows /\ r.status = "enrolled" BY <1>1, <2>1 DEF Rows, Statuses
  <2>. HIDE DEF r
  <2>. QED BY <2>1, <2>2, BeginLists
<1>4. ASSUME NEW s \in Specs, SetNodeStack(t, s) PROVE Lists'
  <2> DEFINE r == [row EXCEPT !.spec = s]
  <2>1. row # None /\ Begin(t, r, "writeSpec") BY <1>4 DEF SetNodeStack
  <2>2. r \in Rows BY <1>1, <2>1 DEF Rows
  <2>. HIDE DEF r
  <2>. QED BY <2>1, <2>2, BeginLists
<1>5. ASSUME NEW h \in Hosts, PatchNode(t, h) PROVE Lists'
  <2> DEFINE r == [row EXCEPT !.host = h]
  <2>1. row # None /\ Begin(t, r, "writeHost") BY <1>5 DEF PatchNode
  <2>2. r \in Rows BY <1>1, <2>1 DEF Rows
  <2>. HIDE DEF r
  <2>. QED BY <2>1, <2>2, BeginLists
<1>6. CASE ApplyNode(t) BY <1>1, <1>6, BeginLists DEF ApplyNode
<1>7. ASSUME NEW inGroup \in BOOLEAN, SetNodeGroups(t, inGroup) PROVE Lists'
  <2>1. /\ Goto(t, "read") /\ "read" \in Steps
        /\ UNCHANGED <<row, copy, config, late>>
    BY <1>7 DEF SetNodeGroups, agents, Steps
  <2>2. Answered' /\ pc'[t] = "read" /\ \A u \in Admins \ {t} : pc'[u] = pc[u]
    BY <2>1, AnsweredStep
  <2>3. Rescued' BY <2>2 DEF Rescued, Rescue
  <2>4. \A u \in Admins : pc'[u] = "save" => Served(copy[u])'
    BY <2>1, <2>2 DEF ListedInv, Lists, Saving, Served, Conf
  <2>. QED BY <2>2, <2>3, <2>4, Relieved DEF Lists
<1>8. CASE DeleteNode(t)
  <2>1. row' = None /\ UNCHANGED <<pc, copy, config, late>>
    BY <1>8 DEF DeleteNode, agents
  <2>2. Answered' BY <2>1 DEF ListedInv, Lists, Answered
  <2>3. ~Listed' BY <2>1 DEF Listed
  <2>4. \A u \in Admins : pc'[u] = "save" => Served(copy[u])'
    BY <2>1 DEF ListedInv, Lists, Saving, Served, Conf
  <2>. QED BY <2>2, <2>3, <2>4, Relieved DEF Lists
<1>. QED BY <1>2, <1>3, <1>4, <1>5, <1>6, <1>7, <1>8 DEF Requests

\* Steps before the mutex.
LEMMA EarlyLists ==
    ASSUME ListedInv, NEW t \in Admins,
           \/ GroupNew(t) \/ GroupNewFails(t) \/ ReadNode(t) \/ WriteNode(t)
           \/ Enroll(t) \/ EnrollFails(t) \/ Lock(t) \/ LockFails(t)
    PROVE  Lists'
<1> DEFINE c == copy[t]
<1>1. UNCHANGED <<config, late>>
  BY DEF GroupNew, GroupNewFails, ReadNode, WriteNode, Enroll, EnrollFails, Lock,
         LockFails, agents
<1>2. ASSUME NEW step \in Steps, Goto(t, step), step # "save",
             \A u \in Admins \ {t} : copy'[u] = copy[u]
      PROVE  \A u \in Admins : pc'[u] = "save" => Served(copy[u])'
  <2>1. pc'[t] = step /\ \A u \in Admins \ {t} : pc'[u] = pc[u]
    BY <1>2, GotoType DEF ListedInv, RowInv, Threads
  <2>. QED BY <1>1, <1>2, <2>1 DEF ListedInv, Lists, Saving, Served, Conf
<1>3. ASSUME pc[t] \in {"group", "health"}, NEW step \in {"idle", "health"}, Goto(t, step),
             step = "health" => c.status = "enrolled",
             UNCHANGED <<row, grouped, links, copy>>, astray => astray'
      PROVE  Lists'
  <2>1. /\ Answered' /\ pc'[t] = step
        /\ \A u \in Admins \ {t} : pc'[u] = pc[u]
    BY <1>3, AnsweredStep DEF Steps
  <2>2. \A u \in Admins : Rescue(u) => Rescue(u)' BY <1>3, <2>1 DEF Rescue
  <2>3. \A u \in Admins : pc'[u] = "links" <=> pc[u] = "links" BY <1>3, <2>1
  <2>4. \A u \in Admins : pc'[u] = "save" => pc[u] = "save" BY <1>3, <2>1
  <2>. QED BY <1>1, <1>3, <2>1, <2>2, <2>3, <2>4, Kept DEF Lists
<1>4. CASE ReadNode(t)
  <2> DEFINE step == IF row = None THEN "idle" ELSE "lock"
  <2>1. /\ Goto(t, step) /\ step \in {"idle", "lock"}
        /\ step = "idle" <=> row = None
        /\ UNCHANGED row
        /\ \A u \in Admins \ {t} : copy'[u] = copy[u]
    BY <1>4 DEF ReadNode, ListedInv, RowInv, TypeOK, Threads
  <2>. HIDE DEF step, c
  <2>2. Answered' /\ pc'[t] = step BY <2>1, AnsweredStep DEF Steps
  <2>3. Rescued' \/ ~Listed' BY <2>1, <2>2 DEF Rescued, Rescue, Listed
  <2>. QED BY <1>2, <2>1, <2>2, <2>3, Relieved DEF Lists, Steps
<1>5. CASE WriteNode(t)
  <2> DEFINE step == IF c.status = "pending" THEN "idle" ELSE "lock"
  <2>1. /\ Goto(t, step) /\ step \in {"idle", "lock"}
        /\ step = "idle" <=> c.status = "pending"
        /\ row' = IF row = None THEN None ELSE c
        /\ UNCHANGED copy
    BY <1>5 DEF WriteNode, Store
  <2>. HIDE DEF step
  <2>2. Answered' /\ pc'[t] = step BY <2>1, AnsweredStep DEF Steps
  <2>3. Rescued' \/ ~Listed' BY <2>1, <2>2 DEF Rescued, Rescue, Listed
  <2>. QED BY <1>2, <2>1, <2>2, <2>3, Relieved DEF Lists, Steps
<1>6. CASE Enroll(t)
  <2>1. /\ pc[t] = "health" /\ Goto(t, "idle") /\ UNCHANGED copy
        /\ row' = IF row = None THEN None ELSE c
    BY <1>6 DEF Enroll, Store
  <2>2. c.status = "enrolled" BY <2>1 DEF ListedInv, Lists, Answered
  <2>3. Answered' BY <2>1, AnsweredStep DEF Steps
  <2>4. ~Listed' BY <2>1, <2>2 DEF Listed
  <2>. QED BY <1>2, <2>1, <2>3, <2>4, Relieved DEF Lists, Steps
<1>7. CASE EnrollFails(t) \/ GroupNewFails(t)
  BY <1>3, <1>7 DEF EnrollFails, GroupNewFails, history
<1>8. ASSUME Goto(t, "idle"), UNCHANGED <<row, grouped, copy>>, Stray(Listed)
      PROVE  Lists'
  <2>1. Answered' BY <1>8, AnsweredStep DEF Steps
  <2>2. ~Listed' \/ astray' BY <1>8 DEF Listed, Stray
  <2>. QED BY <1>2, <1>8, <2>1, <2>2, Relieved DEF Lists, Steps
<1>9. CASE LockFails(t) BY <1>8, <1>9 DEF LockFails
<1>10. CASE Lock(t)
  <2>1. /\ UNCHANGED <<row, grouped, copy>>
        /\ Goto(t, "put") \/ (Goto(t, "idle") /\ Stray(Listed))
    BY <1>10 DEF Lock
  <2>2. CASE Goto(t, "put")
    <3>1. Answered' /\ pc'[t] = "put" BY <2>1, <2>2, AnsweredStep DEF Steps
    <3>2. Rescued' BY <3>1 DEF Rescued, Rescue
    <3>. QED BY <1>2, <2>1, <2>2, <3>1, <3>2, Relieved DEF Lists, Steps
  <2>. QED BY <1>8, <2>1, <2>2
<1>11. CASE GroupNew(t)
  <2> DEFINE step == IF c.agent = None THEN "idle" ELSE "health"
  <2>1. /\ pc[t] = "group" /\ Goto(t, step) /\ grouped' = TRUE
        /\ step \in {"idle", "health"} /\ (step = "health" => c.agent # None)
        /\ UNCHANGED <<row, links, copy>> /\ Stray(~Listed /\ Listed')
    BY <1>11 DEF GroupNew
  <2>2. step = "health" => c.status = "enrolled"
    BY <2>1 DEF ListedInv, Lists, Answered
  <2>. HIDE DEF step
  <2>3. CASE Listed
    <3>1. UNCHANGED grouped /\ (astray => astray')
      BY <2>1, <2>3 DEF Listed, Stray, ListedInv, RowInv, TypeOK
    <3>. QED BY <1>3, <2>1, <2>2, <3>1
  <2>4. CASE ~Listed
    <3>1. ~Listed' \/ astray' BY <2>1, <2>4 DEF Stray
    <3>2. Answered' BY <2>1, <2>2, AnsweredStep DEF Steps
    <3>. QED BY <1>2, <2>1, <3>1, <3>2, Relieved DEF Lists, Steps
  <2>. QED BY <2>3, <2>4
<1>. QED BY <1>4, <1>5, <1>6, <1>7, <1>9, <1>10, <1>11

\* The PUT.  After it the daemons it answered for run with the settings it had.
LEMMA PutLists ==
    ASSUME ListedInv, NEW t \in Admins,
           PutOk(t) \/ PutPartial(t) \/ PutRefused(t) \/ PutTimesOut(t)
    PROVE  Lists'
<1> DEFINE c == copy[t]
           d(status, fams) == [c EXCEPT !.status = status, !.applied = fams]
           f == [c EXCEPT !.status = "failed"]
<1>1. pc[t] = "put" /\ HasCopy(t)
  BY DEF PutOk, PutPartial, PutRefused, PutTimesOut, Failed, HasCopy
<1>2. /\ c \in Rows /\ c.agent \in Agents /\ c.agent # None
      /\ Runs(c.spec) \subseteq Daemons
  BY <1>1, CopyType DEF ListedInv, RowInv, CopiesOk
<1>3. \A u \in Admins \ {t} : pc[u] # "save"
  BY <1>1, Alone DEF Locked, ListedInv
<1>4. ASSUME NEW status, NEW fams \in SUBSET Runs(c.spec), NEW new, NEW stop,
             fams \subseteq new, stop \cap fams = {},
             Put(t, status, fams, new, stop)
      PROVE  Lists'
  <2>1. /\ copy' = [copy EXCEPT ![t] = d(status, fams)] /\ Goto(t, "save")
        /\ late[c.agent] = None /\ Configured(c.agent, Conf(c), new, stop)
        /\ UNCHANGED <<row, late>>
    BY <1>4 DEF Put, ListedInv, RowInv, TypeOK
  <2>2. /\ d(status, fams).agent = c.agent
        /\ d(status, fams).applied = fams /\ Conf(d(status, fams)) = Conf(c)
    BY <1>2 DEF Rows, Conf
  <2>3. /\ copy'[t] = d(status, fams)
        /\ \A u \in Admins \ {t} : copy'[u] = copy[u]
    BY <2>1 DEF ListedInv, RowInv, TypeOK, Threads
  <2>4. \A x \in fams : config'[c.agent][x] = Conf(c)
    BY <1>2, <1>4, <2>1 DEF Configured, ListedInv, RowInv, TypeOK
  <2>. HIDE DEF c, d
  <2>5. /\ Answered' /\ pc'[t] = "save"
        /\ \A u \in Admins \ {t} : pc'[u] = pc[u]
    BY <2>1, <2>3, AnsweredStep DEF Steps
  <2>6. Served(copy[t])' BY <1>2, <2>1, <2>2, <2>3, <2>4 DEF Served, Conf
  <2>7. Rescued' BY <2>5 DEF Rescued, Rescue
  <2>. QED BY <1>3, <2>5, <2>6, <2>7, Relieved DEF Lists
<1>5. CASE PutOk(t)
  <2>1. PICK fams \in SUBSET Runs(c.spec) :
            Put(t, "ready", fams, fams, Runs(c.spec) \ fams)
    BY <1>5 DEF PutOk
  <2>. QED BY <1>4, <2>1
<1>6. CASE PutPartial(t)
  <2>1. PICK fams, new \in SUBSET Runs(c.spec) :
            /\ fams \subseteq new
            /\ Put(t, IF fams = {} THEN "failed" ELSE "degraded", fams, new, {})
    BY <1>6 DEF PutPartial
  <2>. QED BY <1>4, <2>1
<1>7. CASE PutRefused(t) \/ PutTimesOut(t)
  <2>1. copy' = [copy EXCEPT ![t] = f] /\ Goto(t, "giveUp")
    BY <1>7 DEF PutRefused, PutTimesOut, Failed, ListedInv, RowInv, TypeOK
  <2>2. f.status = "failed" BY <1>2 DEF Rows
  <2>3. copy'[t] = f /\ \A u \in Admins \ {t} : copy'[u] = copy[u]
    BY <2>1 DEF ListedInv, RowInv, TypeOK, Threads
  <2>. HIDE DEF c, f
  <2>4. /\ Answered' /\ pc'[t] = "giveUp"
        /\ \A u \in Admins \ {t} : pc'[u] = pc[u]
    BY <2>1, <2>2, <2>3, AnsweredStep DEF Steps
  <2>5. Rescued' BY <2>4 DEF Rescued, Rescue
  <2>6. \A u \in Admins : pc'[u] # "save" BY <1>3, <2>4
  <2>. QED BY <2>4, <2>5, <2>6, Relieved DEF Lists
<1>. QED BY <1>5, <1>6, <1>7

\* What is stored after it.
LEMMA SaveLists ==
    ASSUME ListedInv, NEW t \in Admins,
           GiveUp(t) \/ Save(t) \/ ReplaceTTLinks(t) \/ StoreFails(t)
    PROVE  Lists'
<1> DEFINE c == copy[t]
<1>1. pc[t] \in Locked
  BY DEF GiveUp, Save, ReplaceTTLinks, StoreFails, Locked
<1>2. UNCHANGED <<copy, grouped, config, late>>
  BY DEF GiveUp, Save, ReplaceTTLinks, StoreFails, agents
<1>3. \A u \in Admins \ {t} : pc[u] \notin Locked
  BY <1>1, Alone DEF ListedInv
<1>4. ASSUME NEW step \in {"idle", "links"}, Goto(t, step)
      PROVE  /\ Answered' /\ pc'[t] = step
             /\ \A u \in Admins \ {t} : pc'[u] = pc[u]
             /\ \A u \in Admins : pc'[u] # "save"
             /\ \A u \in Admins \ {t} : pc'[u] # "links"
  <2>1. /\ Answered' /\ pc'[t] = step
        /\ \A u \in Admins \ {t} : pc'[u] = pc[u]
    BY <1>2, <1>4, AnsweredStep DEF Steps
  <2>. QED BY <1>3, <2>1 DEF Locked
<1>5. CASE GiveUp(t)
  <2>1. /\ pc[t] = "giveUp" /\ Goto(t, "idle")
        /\ row' = IF row = None THEN None ELSE c
    BY <1>5 DEF GiveUp, Unlock, Store
  <2>2. c.status = "failed" BY <2>1 DEF ListedInv, Lists, Answered
  <2>3. ~Listed' BY <2>1, <2>2 DEF Listed
  <2>. QED BY <1>4, <2>1, <2>3, Relieved DEF Lists
<1>6. CASE Save(t)
  <2>1. /\ pc[t] = "save" /\ Goto(t, "links")
        /\ row' = IF row = None THEN None ELSE c
    BY <1>6 DEF Save, Store
  <2>2. Served(c) BY <2>1 DEF ListedInv, Lists, Saving
  <2>3. Listed' => row' = c BY <2>1 DEF Listed
  <2>4. ListedRuns' BY <1>2, <2>2, <2>3 DEF ListedRuns, Served, Conf
  <2>5. ListedLinks' BY <1>4, <2>1 DEF ListedLinks
  <2>6. Saving' BY <1>2, <1>4, <2>1, <2>3 DEF Saving, Conf
  <2>. QED BY <1>4, <2>1, <2>4, <2>5, <2>6 DEF Lists
<1>7. CASE ReplaceTTLinks(t)
  <2>1. /\ pc[t] = "links" /\ Goto(t, "idle") /\ UNCHANGED <<row, astray>>
        /\ links' \in {Conf(c), None}
    BY <1>7 DEF ReplaceTTLinks, Unlock, history
  <2>2. \A u \in Admins : pc'[u] \notin {"save", "links"} BY <1>4, <2>1
  <2>3. Rescued => Rescued'
    <3>1. \A u \in Admins : Rescue(u) => Rescue(u)'
      BY <1>4, <2>1 DEF Rescue
    <3>. QED BY <3>1 DEF Rescued
  <2>4. Listed' = Listed BY <1>2, <2>1 DEF Listed
  <2>5. ListedRuns'
    BY <1>2, <2>1, <2>3, <2>4 DEF ListedInv, Lists, ListedRuns, Served, Conf
  <2>6. ListedLinks'
    <3>1. Listed /\ ~astray => Conf(row) = Conf(c) \/ Rescued
      BY <2>1 DEF ListedInv, Lists, Saving
    <3>. QED BY <2>1, <2>3, <2>4, <3>1 DEF ListedLinks, Conf
  <2>7. Saving' BY <2>2 DEF Saving
  <2>. QED BY <1>4, <2>1, <2>5, <2>6, <2>7 DEF Lists
<1>8. CASE StoreFails(t)
  <2>1. Goto(t, "idle") /\ UNCHANGED row /\ Stray(Listed)
    BY <1>8 DEF StoreFails, Unlock
  <2>2. ~Listed' \/ astray' BY <1>2, <2>1 DEF Listed, Stray
  <2>. QED BY <1>4, <2>1, <2>2, Relieved DEF Lists
<1>. QED BY <1>5, <1>6, <1>7, <1>8

\* A probe leaves everything but the status alone, and a status that lists a node
\* whose apply had failed is known to be astray.
LEMMA ProbeLists ==
    ASSUME ListedInv, Probe
    PROVE  Lists'
<1>0. Prober \in Threads /\ Prober \notin Admins BY NodeAssumption DEF Threads
<1>1. \A u \in Admins : pc'[u] = pc[u] /\ copy'[u] = copy[u]
  BY <1>0 DEF Probe, ProbeRead, ProbeCached, ProbeAgent, ProbeCache, Probes, Note,
         Expire, Goto, ListedInv, RowInv, TypeOK, Threads
<1>2. UNCHANGED <<grouped, links, config, late>>
  BY DEF Probe, ProbeRead, ProbeCached, ProbeAgent, ProbeCache, Probes, Note, Expire,
         agents
<1>3. Answered' BY <1>1 DEF ListedInv, Lists, Answered
<1>4. Rescued' <=> Rescued BY <1>1 DEF Rescued, Rescue
<1>5. ASSUME UNCHANGED row, astray => astray'
      PROVE  Lists'
  <2>1. \A u \in Admins : Rescue(u) => Rescue(u)' BY <1>1 DEF Rescue
  <2>2. ListedRuns' /\ ListedLinks' /\ Saving' BY <1>1, <1>2, <1>5, <2>1, Kept
  <2>. QED BY <1>3, <2>2 DEF Lists
<1>6. CASE ProbeRead \/ ProbeCached \/ ProbeAgent \/ ProbeCache \/ Expire
  <2>1. UNCHANGED <<row, astray>>
    BY <1>6 DEF ProbeRead, ProbeCached, ProbeAgent, ProbeCache, Probes, Expire, history
  <2>. QED BY <1>5, <2>1
<1>7. CASE Note
  <2>1. /\ Stray(~Listed /\ Listed')
        /\ UNCHANGED row \/ (row # None /\ \E next : row' = [row EXCEPT !.status = next])
    BY <1>7 DEF Note
  <2>2. CASE UNCHANGED row BY <1>5, <2>1, <2>2 DEF Stray
  <2>3. CASE ~Listed
    <3>1. ~Listed' \/ astray' BY <2>1, <2>3 DEF Stray
    <3>2. \A u \in Admins : pc'[u] = "save" => Served(copy[u])'
      BY <1>1, <1>2 DEF ListedInv, Lists, Saving, Served, Conf
    <3>. QED BY <1>3, <3>1, <3>2, Relieved DEF Lists
  <2>4. CASE Listed /\ row # None /\ \E next : row' = [row EXCEPT !.status = next]
    <3>1. row \in Rows BY <2>4 DEF ListedInv, RowInv, TypeOK
    <3>2. PICK next : row' = [row EXCEPT !.status = next] BY <2>4
    <3>3. /\ row'.spec = row.spec /\ row'.host = row.host
          /\ row'.agent = row.agent /\ row'.applied = row.applied
      BY <3>1, <3>2 DEF Rows
    <3>4. Conf(row)' = Conf(row) /\ (astray => astray')
      BY <2>1, <3>3 DEF Conf, Stray
    <3>5. ListedRuns'
      BY <1>2, <1>4, <2>4, <3>3, <3>4 DEF ListedInv, Lists, ListedRuns, Served, Conf
    <3>6. ListedLinks'
      BY <1>1, <1>2, <1>4, <2>4, <3>3, <3>4 DEF ListedInv, Lists, ListedLinks
    <3>7. Saving'
      <4>1. \A u \in Admins : pc'[u] = "save" => Served(copy[u])'
        BY <1>1, <1>2 DEF ListedInv, Lists, Saving, Served, Conf
      <4>2. \A u \in Admins : Conf(copy[u])' = Conf(copy[u]) BY <1>1 DEF Conf
      <4>. QED BY <1>1, <1>4, <2>4, <3>4, <4>1, <4>2 DEF ListedInv, Lists, Saving
    <3>. QED BY <1>3, <3>5, <3>6, <3>7 DEF Lists
  <2>. QED BY <2>1, <2>2, <2>3, <2>4
<1>. QED BY <1>6, <1>7 DEF Probe

\* Agents come and go, and one of them ends a PUT that was given up on: whoever
\* gave up on it is going to store that, or the row is of another agent.
LEMMA AgentLists ==
    ASSUME ListedInv, NEW a \in Agents, Late(a) \/ Flip(a)
    PROVE  Lists'
<1>1. UNCHANGED <<row, grouped, links, pc, copy, astray>>
  BY DEF Late, Flip, history
<1>2. Answered' BY <1>1 DEF ListedInv, Lists, Answered
<1>3. (Rescued' <=> Rescued) /\ (Listed' <=> Listed)
  BY <1>1 DEF Rescued, Rescue, Listed
<1>4. ASSUME NEW r \in Rows, Served(r)
      PROVE  /\ \A d \in r.applied : config'[r.agent][d] = Conf(r)
             /\ late'[r.agent] = None
  <2>1. CASE Late(a)
    <3>1. r.agent \in Agents /\ r.agent # a
      BY <1>4, <2>1 DEF Rows, Late, Served
    <3>2. PICK new : Configured(a, late[a], new, {}) BY <2>1 DEF Late
    <3>3. config'[r.agent] = config[r.agent]
      BY <3>1, <3>2 DEF Configured, ListedInv, RowInv, TypeOK
    <3>4. late'[r.agent] = late[r.agent]
      BY <2>1, <3>1 DEF Late, ListedInv, RowInv, TypeOK
    <3>. QED BY <1>4, <3>3, <3>4 DEF Served
  <2>2. CASE Flip(a) BY <1>4, <2>2 DEF Flip, Served
  <2>. QED BY <2>1, <2>2
<1>5. ListedRuns'
  <2>1. Listed => row \in Rows BY DEF Listed, ListedInv, RowInv, TypeOK
  <2>. QED BY <1>1, <1>3, <1>4, <2>1 DEF ListedInv, Lists, ListedRuns, Served, Conf
<1>6. ListedLinks' BY <1>1, <1>3 DEF ListedInv, Lists, ListedLinks, Conf
<1>7. Saving'
  <2>1. ASSUME NEW u \in Admins, pc[u] = "save"
        PROVE  copy[u] \in Rows /\ Served(copy[u])
    BY <2>1 DEF ListedInv, Lists, RowInv, CopiesOk, HasCopy, Saving
  <2>. QED BY <1>1, <1>3, <1>4, <2>1 DEF ListedInv, Lists, Saving, Served, Conf
<1>. QED BY <1>2, <1>5, <1>6, <1>7 DEF Lists

\* What a subscription lists is what the agent runs, whatever requests, applies and
\* probes interleave, whichever PUTs fail, are given up on or end late, except
\* where an apply since the last one that was stored was cut off or refused, or the
\* node was listed without one (setNodeStack, patchNode, applyStoredNode,
\* noteNodeAlive, ReplaceTTLinks, IncludeNode).
THEOREM ListedRunsUnlessAstray == Spec => []ServedUnlessAstray
<1>1. Init => Lists
  BY DEF Init, Lists, Answered, ListedRuns, ListedLinks, Saving, Listed, Threads
<1>2. RowInv /\ Lists /\ [Next]_vars => Lists'
  <2> SUFFICES ASSUME ListedInv, [Next]_vars PROVE Lists' BY DEF ListedInv
  <2>1. ASSUME NEW t \in Admins, Requests(t) \/ Work(t) PROVE Lists'
    BY <2>1, RequestLists, EarlyLists, PutLists, SaveLists DEF Work
  <2>2. ASSUME NEW a \in Agents, Late(a) \/ Flip(a) PROVE Lists'
    BY <2>2, AgentLists
  <2>3. CASE UNCHANGED vars
    <3>1. UNCHANGED <<row, grouped, links, config, late, pc, copy, astray>>
      BY <2>3 DEF vars, agents, history
    <3>2. Answered' BY <3>1 DEF ListedInv, Lists, Answered
    <3>3. \A u \in Admins : Rescue(u) => Rescue(u)' BY <3>1 DEF Rescue
    <3>4. ListedRuns' /\ ListedLinks' /\ Saving' BY <3>1, <3>3, Kept
    <3>. QED BY <3>2, <3>4 DEF Lists
  <2>. QED BY <2>1, <2>2, <2>3, ProbeLists DEF Next
<1>3. RowInv /\ Lists => ServedUnlessAstray
  <2> SUFFICES ASSUME ListedInv, Quiet, Listed, ~astray
      PROVE  \A d \in row.applied : /\ config[row.agent][d] = Conf(row)
                                    /\ d = "tt" => links \in {None, Conf(row)}
    BY DEF ServedUnlessAstray, ListedIsServed, ListedInv
  <2>1. ~Rescued /\ \A t \in Admins : pc[t] # "links"
    BY DEF Quiet, Rescued, Rescue
  <2>. QED BY <2>1 DEF ListedInv, Lists, ListedRuns, ListedLinks, Served
<1>. QED BY <1>1, <1>2, <1>3, RowInvariance, PTL DEF Spec
=============================================================================
