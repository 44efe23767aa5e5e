------------------------------ MODULE NodeRow ------------------------------
(***************************************************************************)
(* The row of a node in the table nodes, and everybody who writes it.      *)
(*                                                                         *)
(* Every request reads the row, changes its copy and writes all columns    *)
(* back (UpdateNode); an apply does so after a PUT that may take minutes,  *)
(* under the node's mutex, which the other requests do not take.  Health   *)
(* probes write the status alone (UpdateNodeStatus), from a copy too.      *)
(***************************************************************************)
EXTENDS Stack, FiniteSets

CONSTANTS Admins,           \* requests in flight; an apply of the collector or the
                            \* sweep is an ApplyNode
          Prober,           \* the fleet view, or a subscription, that probes
          Specs,            \* stacks
          Hosts, NoHost,    \* hostnames
          Agents,           \* agents (address and token) to enroll
          None,
          Probing,          \* are there probes?
          MaxOps,           \* bound: requests
          MaxFaults,        \* bound: failures of agents
          MaxDbFaults       \* bound: failures of queries during an apply

Threads == Admins \cup {Prober}
Daemons == {"xray", "hy2", "tt"}

ASSUME NodeAssumption ==
    /\ Prober \notin Admins /\ NoHost \in Hosts
    /\ None \notin Agents \cup Admins \cup {Prober}
    /\ Specs \subseteq [families : SUBSET AllFamilies, ports : Ports]
    /\ \A s \in Specs : Validate(s)
    /\ Probing \in BOOLEAN
    /\ {MaxOps, MaxFaults, MaxDbFaults} \subseteq Nat

VARIABLES
    row,                    \* the row, None before and after the node is there
    grouped,                \* is the node in a group (node_groups)?
    links,                  \* what the links in tt_links were minted for
    holder,                 \* the thread that holds the node's applyMu
    health,                 \* healthByNode: "none", "alive" or "dead"
    pc, copy,               \* of a thread: its next step, and its store.Node
    config,                 \* per agent and daemon: what it runs with
    up,                     \* agents that answer
    late,                   \* per agent: a PUT it has though the caller is gone
    saved,                  \* history: the settings the last requests saved
    astray,                 \* history: may the list say what the agent does not run?
    ops, faults, dbFaults

agents  == <<config, up, late>>
budgets == <<ops, faults, dbFaults>>
history == <<saved, astray>>
vars == <<row, grouped, links, holder, health, pc, copy, agents, history, budgets>>

\* What a PUT tells the agent.
Conf(r) == <<r.spec, r.host>>
Confs == Specs \X Hosts

Statuses == {"pending", "enrolled", "ready", "degraded", "failed", "offline"}
Rows == [spec : Specs, host : Hosts, agent : Agents \cup {None},
         status : Statuses, applied : SUBSET Daemons]

\* The daemons of a stack.
Runs(s) == (IF WantXray(s) THEN {"xray"} ELSE {}) \cup (s.families \cap {"hy2", "tt"})

\* The subscriptions of members list the node (IncludeNode).
Listed == row # None /\ grouped /\ row.status \in {"ready", "degraded", "offline"}

\* Steps of an admin's request, and of a probe.
Steps == {"idle", "group", "writeSpec", "writeHost", "health", "read", "lock", "put",
          "save", "giveUp", "links"}
ProbeSteps == {"idle", "ask", "cacheAlive", "cacheDead", "noteAlive", "noteDead"}

\* The types, and who holds the mutex.
TypeOK ==
    /\ row \in Rows \cup {None}
    /\ grouped \in BOOLEAN
    /\ links \in Confs \cup {None}
    /\ \A t \in Admins : holder = t <=> pc[t] \in {"put", "save", "giveUp", "links"}
    /\ holder \in Admins \cup {None}
    /\ health \in {"none", "alive", "dead"}
    /\ pc \in [Threads -> Steps \cup ProbeSteps]
    /\ copy \in [Threads -> Rows \cup {None}]
    /\ config \in [Agents -> [Daemons -> Confs \cup {None}]]
    /\ up \in SUBSET Agents
    /\ late \in [Agents -> Confs \cup {None}]
    /\ saved \in Rows \cup {None} /\ astray \in BOOLEAN
    /\ {ops, faults, dbFaults} \subseteq Nat

Init ==
    /\ row = None /\ grouped = FALSE /\ links = None
    /\ holder = None /\ health = "none"
    /\ pc = [t \in Threads |-> "idle"]
    /\ copy = [t \in Threads |-> None]
    /\ config = [a \in Agents |-> [d \in Daemons |-> None]]
    /\ up = Agents
    /\ late = [a \in Agents |-> None]
    /\ saved = None /\ astray = FALSE
    /\ ops = 0 /\ faults = 0 /\ dbFaults = 0

Fault   == faults < MaxFaults /\ faults' = faults + 1 /\ UNCHANGED <<ops, dbFaults>>
DbFault == dbFaults < MaxDbFaults /\ dbFaults' = dbFaults + 1 /\ UNCHANGED <<ops, faults>>

\* An admin sends a request; those that need a row find it.
Request(t) ==
    /\ pc[t] = "idle" /\ ops < MaxOps
    /\ ops' = ops + 1 /\ UNCHANGED <<faults, dbFaults>>

Goto(t, step) == pc' = [pc EXCEPT ![t] = step]

\* UpdateNode: all columns, if the row is still there.
Store(r) == row' = IF row = None THEN None ELSE r

\* An apply ends without telling the row how, or the node is listed without one.
Stray(so) == astray' = (astray \/ so)

-----------------------------------------------------------------------------
(* Requests *)

\* createNode: the row, then perhaps its groups, then perhaps the agent at once.
CreateNode(t, s, h, inGroup, a) ==
    /\ Request(t)
    /\ saved = None                         \* one life of one node
    /\ MayCreate(s, h # NoHost)
    /\ LET r == [spec |-> s, host |-> h, agent |-> None, status |-> "pending",
                 applied |-> {}]
       IN  /\ row' = r
           /\ saved' = r
           /\ copy' = [copy EXCEPT ![t] = IF a = None THEN r
                         ELSE [r EXCEPT !.agent = a, !.status = "enrolled"]]
    /\ Goto(t, IF inGroup THEN "group" ELSE IF a # None THEN "health" ELSE "idle")
    /\ UNCHANGED <<grouped, links, holder, health, agents, astray>>

\* SetNodeGroups of a node that is still there; nothing is applied after it.
GroupNew(t) ==
    /\ pc[t] = "group"
    /\ row # None
    /\ grouped' = TRUE
    /\ Goto(t, IF copy[t].agent = None THEN "idle" ELSE "health")
    /\ UNCHANGED <<row, links, holder, health, copy, agents, saved, budgets>>
    /\ Stray(~Listed /\ Listed')

\* The row stays, without groups and agent.
GroupNewFails(t) ==
    /\ pc[t] = "group"
    /\ \/ row = None /\ UNCHANGED budgets
       \/ DbFault
    /\ Goto(t, "idle")
    /\ UNCHANGED <<row, grouped, links, holder, health, copy, agents, history>>

\* A request reads the row and changes its copy.
Begin(t, r, step) ==
    /\ Request(t)
    /\ copy' = [copy EXCEPT ![t] = r]
    /\ Goto(t, step)
    /\ UNCHANGED <<row, grouped, links, holder, health, agents, history>>

EnrollNode(t, a) ==
    /\ row # None
    /\ Begin(t, [row EXCEPT !.agent = a, !.status = "enrolled"], "health")

SetNodeStack(t, s) ==
    /\ row # None /\ MaySave(s, row.host # NoHost)
    /\ Begin(t, [row EXCEPT !.spec = s], "writeSpec")

\* patchNode: another hostname, or the same.
PatchNode(t, h) ==
    /\ row # None /\ (NeedsHostname(row.spec.families) => h # NoHost)
    /\ Begin(t, [row EXCEPT !.host = h], "writeHost")

\* applyNode, applyAllNodes, applyGroupNodes.
ApplyNode(t) ==
    /\ row # None /\ row.agent # None
    /\ Begin(t, row, "lock")

SetNodeGroups(t, inGroup) ==
    /\ Request(t)
    /\ row # None
    /\ grouped' = inGroup
    /\ Goto(t, "read")
    /\ UNCHANGED <<row, links, holder, health, copy, agents, history>>

\* ... which then reads the node it applies.
ReadNode(t) ==
    /\ pc[t] = "read"
    /\ copy' = [copy EXCEPT ![t] = row]
    /\ Goto(t, IF row = None THEN "idle" ELSE "lock")
    /\ UNCHANGED <<row, grouped, links, holder, health, agents, history, budgets>>

\* Rows of node_groups and tt_links go with the node.
DeleteNode(t) ==
    /\ Request(t)
    /\ row # None
    /\ row' = None /\ grouped' = FALSE /\ links' = None
    /\ UNCHANGED <<holder, health, pc, copy, agents, history>>

\* UpdateNode of setNodeStack and patchNode.  They apply unless their copy is
\* of a node that was not enrolled.
MutantWriteNode(t) ==
    /\ pc[t] \in {"writeSpec", "writeHost"}
    /\ IF row = None THEN UNCHANGED <<row, saved>>
       ELSE IF pc[t] = "writeSpec"
         THEN /\ row' = [row EXCEPT !.spec = copy[t].spec]
              /\ saved' = [saved EXCEPT !.spec = copy[t].spec]
         ELSE /\ row' = [row EXCEPT !.host = copy[t].host]
              /\ saved' = [saved EXCEPT !.host = copy[t].host]
    /\ Goto(t, IF copy[t].status = "pending" THEN "idle" ELSE "lock")
    /\ UNCHANGED <<grouped, links, holder, health, copy, agents, astray, budgets>>
WriteNode(t) ==
    /\ pc[t] \in {"writeSpec", "writeHost"}
    /\ Store(copy[t])
    /\ saved' = IF pc[t] = "writeSpec" THEN [saved EXCEPT !.spec = copy[t].spec]
                                       ELSE [saved EXCEPT !.host = copy[t].host]
    /\ Goto(t, IF copy[t].status = "pending" THEN "idle" ELSE "lock")
    /\ UNCHANGED <<grouped, links, holder, health, copy, agents, astray, budgets>>

\* doEnroll: the agent answers, and the row takes it.
Enroll(t) ==
    /\ pc[t] = "health"
    /\ copy[t].agent \in up
    /\ Store(copy[t])
    /\ saved' = [saved EXCEPT !.agent = copy[t].agent]
    /\ Goto(t, "idle")
    /\ UNCHANGED <<grouped, links, holder, health, copy, agents, astray, budgets>>

EnrollFails(t) ==
    /\ pc[t] = "health"
    /\ copy[t].agent \notin up
    /\ Goto(t, "idle")
    /\ UNCHANGED <<row, grouped, links, holder, health, copy, agents, history, budgets>>

-----------------------------------------------------------------------------
(* applyStoredNode, with the copy it was given *)

\* The mutex, and the refusals before anything is sent.
Lock(t) ==
    /\ pc[t] = "lock" /\ holder = None
    /\ IF /\ copy[t].agent # None /\ grouped
          /\ MayApply(copy[t].spec, copy[t].host # NoHost)
         THEN holder' = t /\ Goto(t, "put") /\ UNCHANGED astray
         ELSE Goto(t, "idle") /\ UNCHANGED holder /\ Stray(Listed)
    /\ UNCHANGED <<row, grouped, links, health, copy, agents, saved, budgets>>

\* A query fails, or the caller is gone, before the PUT.
LockFails(t) ==
    /\ pc[t] = "lock" /\ holder = None /\ DbFault
    /\ Goto(t, "idle")
    /\ Stray(Listed)
    /\ UNCHANGED <<row, grouped, links, holder, health, copy, agents, saved>>

\* The agent runs some daemons with new settings and stops others.
Configured(a, conf, new, stop) ==
    config' = [config EXCEPT ![a] = [d \in Daemons |-> IF d \in stop THEN None
                                                      ELSE IF d \in new THEN conf
                                                      ELSE @[d]]]

\* The PUT and what it says of the node.
Put(t, status, fams, new, stop) ==
    /\ copy[t].agent \in up /\ late[copy[t].agent] = None
    /\ Configured(copy[t].agent, Conf(copy[t]), new, stop)
    /\ copy' = [copy EXCEPT ![t].status = status, ![t].applied = fams]
    /\ Goto(t, "save")
    /\ UNCHANGED <<row, grouped, links, holder, health, up, late, history>>

\* Daemons without users are stopped, xray never is; ok=true.
PutOk(t) ==
    /\ pc[t] = "put"
    /\ \E fams \in SUBSET Runs(copy[t].spec) :
          /\ "xray" \in Runs(copy[t].spec) => "xray" \in fams
          /\ Put(t, "ready", fams, fams, Runs(copy[t].spec) \ fams)
    /\ UNCHANGED budgets

\* Some daemons have errors or do not listen, with old settings or new; an
\* error of xray would be a refusal.  ok=false.
PutPartial(t) ==
    /\ pc[t] = "put" /\ Fault
    /\ \E fams, new \in SUBSET Runs(copy[t].spec) :
          /\ fams \subseteq new /\ fams # Runs(copy[t].spec)
          /\ "xray" \in Runs(copy[t].spec) => "xray" \in new
          /\ Put(t, IF fams = {} THEN "failed" ELSE "degraded", fams, new, {})

\* An error, after none or some of the daemons got their settings.
MutantFailed(t) ==
    /\ pc[t] = "put"
    /\ Goto(t, "giveUp")
    /\ UNCHANGED <<row, grouped, links, holder, health, copy, up, history>>
Failed(t) ==
    /\ pc[t] = "put"
    /\ copy' = [copy EXCEPT ![t].status = "failed"]
    /\ Goto(t, "giveUp")
    /\ UNCHANGED <<row, grouped, links, holder, health, up, history>>

PutRefused(t) ==
    /\ Failed(t)
    /\ UNCHANGED late
    /\ \/ copy[t].agent \notin up /\ UNCHANGED <<config, budgets>>
       \/ /\ copy[t].agent \in up /\ late[copy[t].agent] = None
          /\ \E new \in SUBSET Runs(copy[t].spec) :
                Configured(copy[t].agent, Conf(copy[t]), new, {})
          /\ Fault

\* The plane gives up; the agent does not.  (PUTs stay in order, and so the
\* next one waits for this one: see PlaneApply.)
PutTimesOut(t) ==
    /\ Failed(t) /\ Fault
    /\ copy[t].agent \in up /\ late[copy[t].agent] = None
    /\ late' = [late EXCEPT ![copy[t].agent] = Conf(copy[t])]
    /\ UNCHANGED config

Late(a) ==
    /\ late[a] # None
    /\ \E new \in SUBSET Runs(late[a][1]) : Configured(a, late[a], new, {})
    /\ late' = [late EXCEPT ![a] = None]
    /\ UNCHANGED <<row, grouped, links, holder, health, pc, copy, up, history, budgets>>

MutantUnlock(t) == Goto(t, "idle") /\ UNCHANGED holder
Unlock(t) == holder' = None /\ Goto(t, "idle")

\* After an error: the status is stored, with the rest of the copy.
GiveUp(t) ==
    /\ pc[t] = "giveUp"
    /\ Store(copy[t])
    /\ Unlock(t)
    /\ UNCHANGED <<grouped, links, health, copy, agents, history, budgets>>

\* After an answer: the row, then the cache, then the links.
Save(t) ==
    /\ pc[t] = "save"
    /\ Store(copy[t])
    /\ health' = "none"
    /\ astray' = FALSE
    /\ Goto(t, "links")
    /\ UNCHANGED <<grouped, links, holder, copy, agents, saved, budgets>>

MutantReplaceTTLinks(t) ==
    /\ pc[t] = "links"
    /\ links' = IF links = None /\ "tt" \in copy[t].applied THEN Conf(copy[t])
                ELSE links
    /\ Unlock(t)
    /\ UNCHANGED <<row, grouped, health, copy, agents, history, budgets>>
ReplaceTTLinks(t) ==
    /\ pc[t] = "links"
    /\ links' = IF row # None /\ "tt" \in copy[t].applied THEN Conf(copy[t]) ELSE None
    /\ Unlock(t)
    /\ UNCHANGED <<row, grouped, health, copy, agents, history, budgets>>

\* The database fails, or the request is gone and its context with it.
StoreFails(t) ==
    /\ pc[t] \in {"giveUp", "save", "links"} /\ DbFault
    /\ Unlock(t)
    /\ Stray(Listed)
    /\ UNCHANGED <<row, grouped, links, health, copy, agents, saved>>

-----------------------------------------------------------------------------
(* Probes *)

ProbeRead ==
    /\ Probing /\ pc[Prober] = "idle"
    /\ row # None /\ row.agent # None
    /\ copy' = [copy EXCEPT ![Prober] = row]
    /\ Goto(Prober, "ask")
    /\ UNCHANGED <<row, grouped, links, holder, health, agents, history, budgets>>

\* A step of the probe that leaves the row alone.
Probes(step, next) ==
    /\ pc[Prober] = step /\ Goto(Prober, next)
    /\ UNCHANGED <<row, grouped, links, holder, copy, agents, history, budgets>>

\* A fresh answer of the cache, ...
ProbeCached ==
    /\ health # "none"
    /\ Probes("ask", IF health = "alive" THEN "noteAlive" ELSE "noteDead")
    /\ UNCHANGED health

\* ... or of the agent, which nodeHealth does not cache if there is none.
ProbeAgent ==
    /\ pc[Prober] = "ask"
    /\ IF copy[Prober].agent \in up
         THEN Probes("ask", "cacheAlive")
         ELSE Probes("ask", "cacheDead") \/ Probes("ask", "noteDead")
    /\ UNCHANGED health

\* cacheNodeHealth.
ProbeCache ==
    \/ Probes("cacheAlive", "noteAlive") /\ health' = "alive"
    \/ Probes("cacheDead", "noteDead") /\ health' = "dead"

\* noteNodeAlive: the status that follows from that of the copy.
MutantNextStatus(status, alive) ==
    IF ~alive /\ status \in {"ready", "degraded"} THEN "offline" ELSE status
NextStatus(status, alive) ==
    IF ~alive /\ status \in {"ready", "degraded"} THEN "offline"
    ELSE IF alive /\ status = "offline" THEN "ready"
    ELSE status

MutantNote ==
    /\ pc[Prober] \in {"noteAlive", "noteDead"}
    /\ Store([copy[Prober] EXCEPT !.status = NextStatus(@, pc[Prober] = "noteAlive")])
    /\ Goto(Prober, "idle")
    /\ UNCHANGED <<grouped, links, holder, health, copy, agents, saved, budgets>>
    /\ Stray(~Listed /\ Listed')
Note ==
    /\ pc[Prober] \in {"noteAlive", "noteDead"}
    /\ LET next == NextStatus(copy[Prober].status, pc[Prober] = "noteAlive")
       IN  row' = IF row = None \/ next = copy[Prober].status THEN row
                  ELSE [row EXCEPT !.status = next]
    /\ Goto(Prober, "idle")
    /\ UNCHANGED <<grouped, links, holder, health, copy, agents, saved, budgets>>
    /\ Stray(~Listed /\ Listed')

\* 15 seconds later.
Expire ==
    /\ health # "none"
    /\ health' = "none"
    /\ UNCHANGED <<row, grouped, links, holder, pc, copy, agents, history, budgets>>

\* An agent goes down or comes back.
Flip(a) ==
    /\ \/ a \in up /\ up' = up \ {a} /\ Fault
       \/ a \notin up /\ up' = up \cup {a} /\ UNCHANGED budgets
    /\ UNCHANGED <<row, grouped, links, holder, health, pc, copy, config, late, history>>

-----------------------------------------------------------------------------
Requests(t) ==
    \/ \E s \in Specs, h \in Hosts, inGroup \in BOOLEAN, a \in Agents \cup {None} :
          CreateNode(t, s, h, inGroup, a)
    \/ \E a \in Agents : EnrollNode(t, a)
    \/ \E s \in Specs : SetNodeStack(t, s)
    \/ \E h \in Hosts : PatchNode(t, h)
    \/ ApplyNode(t)
    \/ \E inGroup \in BOOLEAN : SetNodeGroups(t, inGroup)
    \/ DeleteNode(t)

Work(t) ==
    \/ GroupNew(t) \/ GroupNewFails(t)
    \/ ReadNode(t) \/ WriteNode(t) \/ Enroll(t) \/ EnrollFails(t)
    \/ Lock(t) \/ LockFails(t)
    \/ PutOk(t) \/ PutPartial(t) \/ PutRefused(t) \/ PutTimesOut(t)
    \/ GiveUp(t) \/ Save(t) \/ ReplaceTTLinks(t) \/ StoreFails(t)

Probe == ProbeRead \/ ProbeCached \/ ProbeAgent \/ ProbeCache \/ Note \/ Expire

Next == \/ \E t \in Admins : Requests(t) \/ Work(t)
        \/ Probe
        \/ \E a \in Agents : Late(a) \/ Flip(a)

Spec == Init /\ [][Next]_vars

\* The fleet is probed for as long as somebody looks at it, or alerts are on;
\* answers age; agents come back.
FairSpec ==
    /\ Spec
    /\ \A t \in Admins : WF_vars(Work(t))
    /\ WF_vars(ProbeRead) /\ WF_vars(ProbeCached \/ ProbeAgent)
    /\ WF_vars(ProbeCache) /\ WF_vars(Note) /\ WF_vars(Expire)
    /\ \A a \in Agents : WF_vars(Late(a)) /\ WF_vars(a \notin up /\ Flip(a))

-----------------------------------------------------------------------------
(* Properties *)

\* However the whole-row writes interleave, the row passes the checks of the
\* requests that wrote it: no stack that needs a hostname without one, and no
\* status that an enrolment or an apply wrote without an agent.  (The others may
\* come from the old copy of a probe.)
RowConsistent ==
    row # None =>
        /\ NeedsHostname(row.spec.families) => row.host # NoHost
        /\ row.status \in {"enrolled", "degraded", "failed"} => row.agent # None

Quiet == \A t \in Admins : pc[t] = "idle"

\* When no request is under way, a subscription lists a family of the node only
\* if the node's agent runs it with the settings of the row, and a link of
\* trusttunnel only if it was minted for them.
ListedIsServed ==
    Quiet /\ Listed
        => \A d \in row.applied : /\ config[row.agent][d] = Conf(row)
                                  /\ d = "tt" => links \in {None, Conf(row)}

\* ... whatever fails and whoever probes, except where an apply since the last one
\* that was stored was refused or cut off by a failing query, a late probe
\* listed a node whose apply had failed, or a create was late with its groups.
ServedUnlessAstray == astray \/ ListedIsServed

\* When no request is under way, the row holds what was saved last.
SavedStays ==
    Quiet /\ row # None => /\ row.spec = saved.spec
                           /\ row.host = saved.host
                           /\ row.agent = saved.agent

\* A node that is back is not offline for ever.
BackIsNoticed ==
    []<>~(row # None /\ row.status = "offline" /\ row.agent \in up)
=============================================================================
