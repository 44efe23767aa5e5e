----------------------------- MODULE PlaneApply -----------------------------
(***************************************************************************)
(* How the plane keeps the users of the exit nodes in step with the users *)
(* table: admin requests, the entitlement sweep and the traffic collector *)
(* change rows and then run applyGroupNodes, which PUTs to every node of  *)
(* the group the users that may use it.  A group whose apply failed is    *)
(* remembered in pendingKicks for the next sweep.                         *)
(*                                                                         *)
(* Every goroutine that can be in applyGroupNodes or applyStoredNode is a *)
(* thread; a step of a thread is one statement against the database, one  *)
(* critical section or one call to an agent.  The users a node lets in    *)
(* are those of one protocol family (installed).  The nodes row and the   *)
(* tt_links table, which applyStoredNode writes before it unlocks, are    *)
(* left out: nothing here reads them.                                     *)
(***************************************************************************)
EXTENDS Entitlement, FiniteSets, Sequences

CONSTANTS Users, Groups, Nodes,
          GroupOf,          \* users.group_id, never changed: [Users -> Groups]
          Serves,           \* node_groups: [Nodes -> SUBSET Groups]
          SiblingNodes,     \* nodes where another family runs beside this one
          InOrder,          \* agents take PUTs in the order they were sent
          Requests,         \* goroutines that serve admin requests
          Sweeper,          \* the goroutine of SweepEntitlementLoop
          Collector,        \* the goroutine of CollectTrafficLoop
          None,             \* no thread, group, node or user
          Founders,         \* users that exist when the plane starts
          NewRows,          \* rows of founders, and that createUser starts from
          Patches,          \* bodies of PATCH /v1/users/{id}
          MaxTime,          \* bound: the clock
          MaxUsed,          \* bound: what traffic adds up to
          MaxOps,           \* bound: admin requests
          MaxFaults,        \* bound: failures of the database and of agents
          MaxCrashes        \* bound: restarts of the plane

Threads == Requests \cup {Sweeper, Collector}

ASSUME PlaneAssumption ==
    /\ GroupOf \in [Users -> Groups]
    /\ Serves \in [Nodes -> SUBSET Groups]
    /\ \A n \in Nodes : Serves[n] # {}
    /\ SiblingNodes \subseteq Nodes
    /\ InOrder \in BOOLEAN
    /\ Sweeper \notin Requests /\ Collector \notin Requests
    /\ Sweeper # Collector
    /\ None \notin Threads \cup Groups \cup Nodes \cup Users
    /\ Founders \subseteq Users
    /\ NewRows \subseteq Rows
    /\ MaxTime \in Nat /\ MaxUsed \in Nat /\ MaxOps \in Nat
    /\ MaxFaults \in Nat /\ MaxCrashes \in Nat

\* A patch names some of the columns.
ASSUME PatchAssumption ==
    \A p \in Patches :
        /\ "status" \in DOMAIN p => p["status"] \in {"active", "disabled"}
        /\ "used" \in DOMAIN p => p["used"] \in Nat
        /\ "total" \in DOMAIN p => p["total"] \in Nat
        /\ "expire" \in DOMAIN p => p["expire"] \in Instants
        /\ "extend" \in DOMAIN p => p["extend"] \in Nat \ {0}
        /\ "reset" \in DOMAIN p => p["reset"] \in Kinds

VARIABLES
    now,                    \* the clock
    life, row,              \* the users table: which ids exist, their rows
    pending,                \* Server.pendingKicks
    ent,                    \* Server.entitled: what the last sweep recorded
    holder,                 \* Server.applyMu: who holds the node's mutex
    installed,              \* the users each node lets in
    late,                   \* the PUTs each agent still has, their callers gone
    pc, todo,               \* per thread: where it is, groups to apply
    grp, left, failed,      \* applyGroupNodes: group, nids left, ok < len(nids)
    node, at, gleft, push,  \* applyStoredNode: node, now, gids left, users
    who, copy,              \* the user a request or the collector works on
    was,                    \* creditTraffic: was the user entitled before?
    slist, listed, sleft,   \* the sweep: users listed, their rows, resets left
    blind,                  \* history: users let in behind the sweep's back
    crossed,                \* history: threads whose group another one marked
    forgotten,              \* history: nodes whose apply the plane lost sight of
    missed,                 \* history: users nobody is going to let in
    ops, faults, crashes    \* budgets used

table    == <<life, row>>
memory   == <<pending, ent, holder>>
agents   == <<installed, late>>
grouping == <<grp, left, failed>>
applying == <<node, at, gleft, push>>
others   == <<who, copy, was, slist, listed, sleft>>
excuses  == <<crossed, forgotten, missed>>
history  == <<blind, excuses>>
budgets  == <<ops, faults, crashes>>
vars == <<now, table, memory, agents, pc, todo, grouping, applying, others,
          history, budgets>>

Live(u) == life[u] = "live"
NodesOf(g) == {n \in Nodes : g \in Serves[n]}

TypeOK ==
    /\ now \in Nat
    /\ life \in [Users -> {"unborn", "live", "gone"}]
    /\ row \in [Users -> Rows]
    /\ pending \subseteq Groups
    /\ ent \in [Users -> {"unseen", "yes", "no"}]
    /\ holder \in [Nodes -> Threads \cup {None}]
    /\ installed \in [Nodes -> SUBSET Users]
    /\ late \in [Nodes -> Seq(SUBSET Users)]
    /\ pc \in [Threads -> {"idle", "patch", "collect", "credit", "listed",
                           "reset", "groups", "nodes", "read"}]
    /\ todo \in [Threads -> SUBSET Groups]
    /\ grp \in [Threads -> Groups \cup {None}]
    /\ left \in [Threads -> SUBSET Nodes]
    /\ failed \in [Threads -> BOOLEAN]
    /\ node \in [Threads -> Nodes \cup {None}]
    /\ at \in [Threads -> Nat]
    /\ gleft \in [Threads -> SUBSET Groups]
    /\ push \in [Threads -> SUBSET Users]
    /\ who \in [Threads -> Users \cup {None}]
    /\ copy \in [Requests -> Rows]
    /\ was \in BOOLEAN
    /\ slist \subseteq Users
    /\ listed \in [Users -> Rows]
    /\ sleft \subseteq Users
    /\ blind \subseteq Users /\ missed \subseteq Users
    /\ crossed \subseteq Threads /\ forgotten \subseteq Nodes
    /\ ops \in Nat /\ faults \in Nat /\ crashes \in Nat

\* The row of an id that does not exist, or that a thread has not read.
Blank == [status |-> "disabled", used |-> 0, total |-> 0, expire |-> Never,
          reset |-> "", period |-> Never]

\* A plane that was started on a database with some users, on nodes that let
\* all of them in: its maps are empty.
Init ==
    /\ now = 0
    /\ life = [u \in Users |-> IF u \in Founders THEN "live" ELSE "unborn"]
    /\ row \in [Users -> NewRows \cup {Blank}]
    /\ \A u \in Users : row[u] = Blank <=> u \notin Founders
    /\ pending = {}
    /\ ent = [u \in Users |-> "unseen"]
    /\ holder = [n \in Nodes |-> None]
    /\ installed = [n \in Nodes |-> {u \in Founders : GroupOf[u] \in Serves[n]}]
    /\ late = [n \in Nodes |-> <<>>]
    /\ pc = [t \in Threads |-> "idle"]
    /\ todo = [t \in Threads |-> {}]
    /\ grp = [t \in Threads |-> None]
    /\ left = [t \in Threads |-> {}]
    /\ failed = [t \in Threads |-> FALSE]
    /\ node = [t \in Threads |-> None]
    /\ at = [t \in Threads |-> 0]
    /\ gleft = [t \in Threads |-> {}]
    /\ push = [t \in Threads |-> {}]
    /\ who = [t \in Threads |-> None]
    /\ copy = [t \in Requests |-> Blank]
    /\ was = FALSE
    /\ slist = {}
    /\ listed = [u \in Users |-> Blank]
    /\ sleft = {}
    /\ blind = {} /\ crossed = {} /\ forgotten = {} /\ missed = {}
    /\ ops = 0 /\ faults = 0 /\ crashes = 0

-----------------------------------------------------------------------------
(* The environment *)

Tick == /\ now < MaxTime
        /\ now' = now + 1
        /\ UNCHANGED <<table, memory, agents, pc, todo, grouping, applying,
                       others, history, budgets>>

\* One more failure.
Fault == /\ faults < MaxFaults
         /\ faults' = faults + 1
         /\ UNCHANGED <<ops, crashes>>

-----------------------------------------------------------------------------
(* applyGroupNodes and applyStoredNode *)

\* The history variables: no step reads them but to update them.  A thread is
\* crossed while its group has been marked by another one since it took it.  A
\* node is forgotten when the plane takes an apply for done that was not:
\* clearKick takes away a mark of another thread, one family covers up for
\* another, or a PUT overtakes one that was given up.  The next apply of a group
\* makes up for it, be it due (taken by a thread) or marked.
Remember(g) == /\ forgotten' = forgotten \ NodesOf(g)
               /\ missed' = {u \in missed : GroupOf[u] # g}

Forget(t, lost) ==
    /\ forgotten' = IF lost /\ grp[t] # None THEN forgotten \cup {node[t]}
                                             ELSE forgotten
    /\ UNCHANGED <<crossed, missed>>

\* The thread takes its next group; NodeIDsForGroup lists the nodes.
NextGroup(t, g) ==
    /\ pc[t] = "groups" /\ g \in todo[t]
    /\ todo' = [todo EXCEPT ![t] = @ \ {g}]
    /\ grp' = [grp EXCEPT ![t] = g]
    /\ left' = [left EXCEPT ![t] = NodesOf(g)]
    /\ failed' = [failed EXCEPT ![t] = FALSE]
    /\ pc' = [pc EXCEPT ![t] = "nodes"]
    /\ Remember(g)
    /\ UNCHANGED <<now, table, memory, agents, applying, others, blind, crossed,
                   budgets>>

\* markKick: the group is left to the next sweep.
Mark(t, g) ==
    /\ pending' = pending \cup {g}
    /\ crossed' = (crossed \cup {s \in Threads : grp[s] = g}) \ {t}
    /\ Remember(g)
    /\ UNCHANGED blind

\* NodeIDsForGroup fails.
MutantNextGroupFailsQuiet(t, g) ==
    /\ pc[t] = "groups" /\ g \in todo[t]
    /\ Fault
    /\ todo' = [todo EXCEPT ![t] = @ \ {g}]
    /\ UNCHANGED <<now, table, memory, agents, pc, grouping, applying, others,
                   history>>
NextGroupFails(t, g) ==
    /\ pc[t] = "groups" /\ g \in todo[t]
    /\ Fault
    /\ todo' = [todo EXCEPT ![t] = @ \ {g}]
    /\ Mark(t, g)
    /\ UNCHANGED <<now, table, ent, holder, agents, pc, grouping, applying,
                   others>>

\* The node cannot be read: the loop goes on without counting it as ok.
NextNodeFails(t, n) ==
    /\ pc[t] = "nodes" /\ n \in left[t]
    /\ Fault
    /\ left' = [left EXCEPT ![t] = @ \ {n}]
    /\ failed' = [failed EXCEPT ![t] = TRUE]
    /\ UNCHANGED <<now, table, memory, agents, pc, todo, grp, applying, others,
                   history>>

\* The next node is read, and applyStoredNode takes its mutex, lists its
\* groups and then reads the clock.
Lock(t, n) ==
    /\ pc[t] = "nodes" /\ n \in left[t] /\ holder[n] = None
    /\ left' = [left EXCEPT ![t] = @ \ {n}]
    /\ node' = [node EXCEPT ![t] = n]
    /\ holder' = [holder EXCEPT ![n] = t]
    /\ at' = [at EXCEPT ![t] = now]
    /\ gleft' = [gleft EXCEPT ![t] = Serves[n]]
    /\ pc' = [pc EXCEPT ![t] = "read"]
    /\ UNCHANGED <<now, table, pending, ent, agents, todo, grp, failed, push,
                   others, history, budgets>>

\* The users of one group: UsersInGroup, then Entitled for each of them.
Allowed(g, instant) ==
    {u \in Users : Live(u) /\ GroupOf[u] = g /\ Entitled(row[u], instant)}

ReadGroup(t, g) ==
    /\ pc[t] = "read" /\ g \in gleft[t]
    /\ gleft' = [gleft EXCEPT ![t] = @ \ {g}]
    /\ push' = [push EXCEPT ![t] = @ \cup Allowed(g, at[t])]
    /\ UNCHANGED <<now, table, memory, agents, pc, todo, grouping, node, at,
                   others, history, budgets>>

\* applyStoredNode returns and unlocks; err says whether with an error.
Return(t, err) ==
    /\ holder' = [holder EXCEPT ![node[t]] = None]
    /\ failed' = [failed EXCEPT ![t] = @ \/ err]
    /\ node' = [node EXCEPT ![t] = None]
    /\ at' = [at EXCEPT ![t] = 0]
    /\ gleft' = [gleft EXCEPT ![t] = {}]
    /\ push' = [push EXCEPT ![t] = {}]
    /\ pc' = [pc EXCEPT ![t] = "nodes"]
    /\ UNCHANGED <<now, table, pending, ent, todo, grp, left, others, blind>>

\* A query of applyStoredNode fails before the PUT.
ReadFails(t) ==
    /\ pc[t] = "read" /\ Fault
    /\ Return(t, TRUE)
    /\ UNCHANGED <<agents, excuses>>

\* The agent works off one PUT at a time (its own applyMu).  PUTs carry no
\* number, and neither two connections nor a mutex keep an order, so a newer
\* one may overtake one that was given up, unless InOrder.
AgentFree(n) == InOrder => late[n] = <<>>

\* PUT /v1/desired: the node now lets in exactly the users of the request.
PutOk(t) ==
    /\ pc[t] = "read" /\ gleft[t] = {} /\ AgentFree(node[t])
    /\ installed' = [installed EXCEPT ![node[t]] = push[t]]
    /\ Return(t, FALSE)
    /\ Forget(t, late[node[t]] # <<>>)
    /\ UNCHANGED <<late, budgets>>

\* The same, but the result cannot be stored in the nodes row.
PutUnsaved(t) ==
    /\ pc[t] = "read" /\ gleft[t] = {} /\ AgentFree(node[t])
    /\ Fault
    /\ installed' = [installed EXCEPT ![node[t]] = push[t]]
    /\ Return(t, TRUE)
    /\ UNCHANGED <<late, excuses>>

\* The agent is unreachable or answers 500 and has changed nothing.
PutRefused(t) ==
    /\ pc[t] = "read" /\ gleft[t] = {}
    /\ Fault
    /\ Return(t, TRUE)
    /\ UNCHANGED <<agents, excuses>>

\* The plane gives up waiting, and the agent goes on with the request.
PutTimesOut(t) ==
    /\ pc[t] = "read" /\ gleft[t] = {}
    /\ Fault
    /\ late' = [late EXCEPT ![node[t]] = Append(@, push[t])]
    /\ Return(t, TRUE)
    /\ UNCHANGED <<installed, excuses>>

\* The agent could not apply this family (no certificate, say) but applied
\* another one: it answers 200 with ok=false, which is no error to the plane.
PutPartial(t) ==
    /\ pc[t] = "read" /\ gleft[t] = {} /\ AgentFree(node[t])
    /\ node[t] \in SiblingNodes
    /\ Fault
    /\ Return(t, FALSE)
    /\ Forget(t, TRUE)
    /\ UNCHANGED agents

\* The agent ends, or fails, a PUT whose caller is gone.
Without(s, i) == [j \in 1 .. Len(s) - 1 |-> s[IF j < i THEN j ELSE j + 1]]

LateApplied(n, i) ==
    /\ InOrder => i = 1
    /\ installed' = [installed EXCEPT ![n] = late[n][i]]
    /\ late' = [late EXCEPT ![n] = Without(@, i)]
    /\ UNCHANGED <<now, table, memory, pc, todo, grouping, applying, others,
                   history, budgets>>

LateDropped(n, i) ==
    /\ late' = [late EXCEPT ![n] = Without(@, i)]
    /\ UNCHANGED <<now, table, memory, installed, pc, todo, grouping, applying,
                   others, history, budgets>>

\* The end of applyGroupNodes: markKick if a node was not applied, clearKick
\* otherwise.  A single node's apply (grp = None) does neither.
MutantEndGroupNeverMarks(t) ==
    /\ pc[t] = "nodes" /\ left[t] = {}
    /\ pending' = pending \ {grp[t]}
    /\ grp' = [grp EXCEPT ![t] = None]
    /\ failed' = [failed EXCEPT ![t] = FALSE]
    /\ pc' = [pc EXCEPT ![t] = "groups"]
    /\ UNCHANGED <<now, table, ent, holder, agents, todo, left, applying, others,
                   history, budgets>>
EndGroup(t) ==
    /\ pc[t] = "nodes" /\ left[t] = {}
    /\ \/ grp[t] # None /\ failed[t] /\ Mark(t, grp[t])
       \/ /\ grp[t] = None \/ ~failed[t]
          /\ pending' = pending \ {grp[t]}
          /\ forgotten' = IF t \in crossed /\ grp[t] \in pending
                            THEN forgotten \cup NodesOf(grp[t]) ELSE forgotten
          /\ crossed' = crossed \ {t}
          /\ UNCHANGED <<blind, missed>>
    /\ grp' = [grp EXCEPT ![t] = None]
    /\ failed' = [failed EXCEPT ![t] = FALSE]
    /\ pc' = [pc EXCEPT ![t] = "groups"]
    /\ UNCHANGED <<now, table, ent, holder, agents, todo, left, applying, others,
                   budgets>>

\* No group left: the request is answered, the loop waits for its next tick.
EndApply(t) ==
    /\ pc[t] = "groups" /\ todo[t] = {}
    /\ pc' = [pc EXCEPT ![t] = "idle"]
    /\ UNCHANGED <<now, table, memory, agents, todo, grouping, applying, others,
                   history, budgets>>

-----------------------------------------------------------------------------
(* What a write to the users table does to the history variable *)

MutantZeroedLess(r) == [r EXCEPT !.used = @ - r.total]
Zeroed(r) == [r EXCEPT !.used = 0]

\* What the running sweep will record for a user it listed, once its resets
\* are through.
SweepSays(u) ==
    Entitled(IF u \in sleft /\ listed[u].period # Never THEN Zeroed(listed[u])
                                                        ELSE listed[u],
             at[Sweeper])

\* The last sweep recorded the user as out, or the running one will.
RecordedOut(u) ==
    \/ ent[u] = "no"
    \/ pc[Sweeper] = "reset" /\ u \in slist /\ ~SweepSays(u)

\* The user's row becomes r.  A user that is let in again (but for an expiry)
\* while the sweep has it recorded as out is noted in blind: the sweep cannot
\* see it leave a second time.  No step reads blind.
Rewrite(u, r) ==
    /\ row' = [row EXCEPT ![u] = r]
    /\ blind' = IF RecordedOut(u) /\ Entitled(r, 0) THEN blind \cup {u}
                                                    ELSE blind

\* The write lets u in again, and the sweep, which has u recorded as in, will not
\* see it come back.
UnseenReturn(u, r) ==
    IF Entitled(r, now) /\ ~Entitled(row[u], now) /\ ~RecordedOut(u) THEN {u}
                                                                    ELSE {}

-----------------------------------------------------------------------------
(* Admin requests *)

\* A request arrives at an idle goroutine.
Request(t) == /\ pc[t] = "idle"
              /\ ops < MaxOps
              /\ ops' = ops + 1
              /\ UNCHANGED <<faults, crashes>>

\* The request goes on to applyGroupNodes for the user's group.
ThenApply(t, g) == /\ todo' = [todo EXCEPT ![t] = {g}]
                   /\ pc' = [pc EXCEPT ![t] = "groups"]

\* createUser: nothing is used yet, and the period is the one that contains now.
NewRow(r) == [r EXCEPT !.used = 0,
                       !.period = IF r.reset = "" THEN Never
                                  ELSE PeriodStart(r.reset, now)]

CreateUser(t, u, r) ==
    /\ Request(t) /\ life[u] = "unborn"
    /\ life' = [life EXCEPT ![u] = "live"]
    /\ row' = [row EXCEPT ![u] = NewRow(r)]
    /\ ThenApply(t, GroupOf[u])
    /\ UNCHANGED <<now, memory, agents, grouping, applying, others, history>>

\* revokeUser.  The status says enough here: the token is not modelled.
RevokeUser(t, u) ==
    /\ Request(t) /\ Live(u)
    /\ Rewrite(u, [row[u] EXCEPT !.status = "revoked"])
    /\ ThenApply(t, GroupOf[u])
    /\ UNCHANGED <<now, life, memory, agents, grouping, applying, others,
                   excuses>>

\* deleteUser
DeleteUser(t, u) ==
    /\ Request(t) /\ Live(u)
    /\ life' = [life EXCEPT ![u] = "gone"]
    /\ row' = [row EXCEPT ![u] = Blank]
    /\ ThenApply(t, GroupOf[u])
    /\ UNCHANGED <<now, memory, agents, grouping, applying, others, history>>

\* patchUser reads the row ...
PatchRead(t, u) ==
    /\ Request(t) /\ Live(u)
    /\ who' = [who EXCEPT ![t] = u]
    /\ copy' = [copy EXCEPT ![t] = row[u]]
    /\ pc' = [pc EXCEPT ![t] = "patch"]
    /\ UNCHANGED <<now, table, memory, agents, todo, grouping, applying, was,
                   slist, listed, sleft, history>>

\* ... changes the columns the body names ...
Patched(r, p) ==
    LET column(f) == IF f \in DOMAIN p THEN p[f] ELSE r[f]
        expire == column("expire")
        base == IF expire # Never /\ expire > now THEN expire ELSE now
    IN  [status |-> column("status"),
         used   |-> column("used"),
         total  |-> column("total"),
         expire |-> IF "extend" \in DOMAIN p THEN base + p["extend"] ELSE expire,
         reset  |-> column("reset"),
         period |-> IF "reset" \notin DOMAIN p THEN r.period
                    ELSE IF p["reset"] = "" THEN Never
                    ELSE IF r.period = Never THEN PeriodStart(p["reset"], now)
                    ELSE r.period]

\* ... and writes the whole row back.  It applies only if the body names a
\* column that decides who is entitled.
Entitling == {"status", "used", "total", "expire", "extend"}

PatchWrite(t, p) ==
    LET u == who[t]
        r == Patched(copy[t], p)
    IN  /\ pc[t] = "patch"
        /\ IF ~Live(u)                                  \* no row was updated
             THEN /\ pc' = [pc EXCEPT ![t] = "idle"]
                  /\ UNCHANGED <<row, blind, missed, todo>>
             ELSE /\ Rewrite(u, r)
                  /\ IF DOMAIN p \cap Entitling # {}
                       THEN ThenApply(t, GroupOf[u]) /\ UNCHANGED missed
                       ELSE /\ pc' = [pc EXCEPT ![t] = "idle"]
                            /\ missed' = missed \cup UnseenReturn(u, r)
                            /\ UNCHANGED todo
        /\ who' = [who EXCEPT ![t] = None]
        /\ copy' = [copy EXCEPT ![t] = Blank]
        /\ UNCHANGED <<now, life, memory, agents, grouping, applying, was,
                       slist, listed, sleft, crossed, forgotten, budgets>>

\* The body is refused, or the database fails.
PatchFails(t) ==
    /\ pc[t] = "patch"
    /\ pc' = [pc EXCEPT ![t] = "idle"]
    /\ who' = [who EXCEPT ![t] = None]
    /\ copy' = [copy EXCEPT ![t] = Blank]
    /\ UNCHANGED <<now, table, memory, agents, todo, grouping, applying, was,
                   slist, listed, sleft, history, budgets>>

\* applyNode and applyAllNodes: a PUT to some nodes, outside of any group.
ApplyNodes(t, some) ==
    /\ Request(t)
    /\ left' = [left EXCEPT ![t] = some]
    /\ pc' = [pc EXCEPT ![t] = "nodes"]
    /\ UNCHANGED <<now, table, memory, agents, todo, grp, failed, applying,
                   others, history>>

-----------------------------------------------------------------------------
(* SweepEntitlement *)

\* ListUsers ...
SweepList ==
    /\ pc[Sweeper] = "idle"
    /\ slist' = {u \in Users : Live(u)}
    /\ listed' = row
    /\ pc' = [pc EXCEPT ![Sweeper] = "listed"]
    /\ UNCHANGED <<now, table, memory, agents, todo, grouping, applying, who,
                   copy, was, sleft, history, budgets>>

\* ... and then the clock: rows may have changed in between.  The resets that
\* are due are found one by one in the code; here the set of them is known at
\* once.
SweepClock ==
    LET due == {u \in slist : PeriodDue(listed[u], now)}
        says(u) == Entitled(IF u \in due /\ listed[u].period # Never
                              THEN Zeroed(listed[u]) ELSE listed[u], now)
    IN  /\ pc[Sweeper] = "listed"
        /\ sleft' = due
        /\ at' = [at EXCEPT ![Sweeper] = now]
        /\ blind' = blind \cup {u \in slist : ~says(u) /\ Entitled(row[u], now)}
        /\ pc' = [pc EXCEPT ![Sweeper] = "reset"]
        /\ UNCHANGED <<now, table, memory, agents, todo, grouping, node, gleft,
                       push, who, copy, was, slist, listed, excuses, budgets>>

\* ResetQuotaPeriod of one user.  The counters are zeroed unless the row had
\* no period yet; then the group is applied, so that the user is let in again.
MutantSweepResetQuiet(u) ==
    LET zero == listed[u].period # Never
        start == PeriodStart(listed[u].reset, at[Sweeper])
        reset(r) == IF zero THEN [r EXCEPT !.used = 0, !.period = start]
                            ELSE [r EXCEPT !.period = start]
    IN  /\ pc[Sweeper] = "reset" /\ u \in sleft
        /\ sleft' = sleft \ {u}
        /\ IF Live(u)
             THEN /\ Rewrite(u, reset(row[u]))
                  /\ listed' = IF zero THEN [listed EXCEPT ![u] = Zeroed(@)]
                                       ELSE listed
             ELSE UNCHANGED <<row, blind, listed>>
        /\ UNCHANGED <<now, life, memory, agents, pc, todo, grouping, applying,
                       who, copy, was, slist, excuses, budgets>>
SweepReset(u) ==
    LET zero == listed[u].period # Never
        start == PeriodStart(listed[u].reset, at[Sweeper])
        reset(r) == IF zero THEN [r EXCEPT !.used = 0, !.period = start]
                            ELSE [r EXCEPT !.period = start]
    IN  /\ pc[Sweeper] = "reset" /\ u \in sleft
        /\ sleft' = sleft \ {u}
        /\ IF Live(u)
             THEN /\ Rewrite(u, reset(row[u]))
                  /\ listed' = IF zero THEN [listed EXCEPT ![u] = Zeroed(@)]
                                       ELSE listed
                  /\ todo' = IF zero THEN [todo EXCEPT ![Sweeper] =
                                               @ \cup {GroupOf[u]}]
                                     ELSE todo
             ELSE UNCHANGED <<row, blind, listed, todo>>
        /\ UNCHANGED <<now, life, memory, agents, pc, grouping, applying, who,
                       copy, was, slist, excuses, budgets>>

\* The reset fails: what the sweep will record is what it listed, although the
\* row may have been rewritten since.
SweepResetFails(u) ==
    /\ pc[Sweeper] = "reset" /\ u \in sleft
    /\ Fault
    /\ sleft' = sleft \ {u}
    /\ blind' = IF ~Entitled(listed[u], at[Sweeper]) /\ Entitled(row[u], now)
                  THEN blind \cup {u} ELSE blind
    /\ UNCHANGED <<now, table, memory, agents, pc, todo, grouping, applying,
                   who, copy, was, slist, listed, excuses>>

\* Groups of users whose entitlement is not what the last sweep recorded.
Changed(says) == {GroupOf[u] : u \in {v \in Users :
                     \/ ent[v] = "unseen" /\ says[v] = "no"
                     \/ ent[v] = "yes" /\ says[v] = "no"
                     \/ ent[v] = "no" /\ says[v] = "yes"}}

\* The entitled map is replaced, and the groups with a change, a reset or a
\* pending kick will be applied.  (pendingKickCopy is a second critical
\* section; nothing it could meet in between touches the map.)
MutantSweepSwapForgets ==
    LET says == [u \in Users |-> IF u \notin slist THEN "unseen"
                                 ELSE IF SweepSays(u) THEN "yes" ELSE "no"]
    IN  /\ pc[Sweeper] = "reset" /\ sleft = {}
        /\ ent' = says
        /\ todo' = [todo EXCEPT ![Sweeper] = @ \cup pending]
        /\ blind' = {u \in blind : says[u] # "yes"}
        /\ slist' = {}
        /\ listed' = [u \in Users |-> Blank]
        /\ at' = [at EXCEPT ![Sweeper] = 0]
        /\ pc' = [pc EXCEPT ![Sweeper] = "groups"]
        /\ UNCHANGED <<now, table, pending, holder, agents, grouping, node,
                       gleft, push, who, copy, was, sleft, excuses, budgets>>
MutantSweepSwapNoRetry ==
    LET says == [u \in Users |-> IF u \notin slist THEN "unseen"
                                 ELSE IF SweepSays(u) THEN "yes" ELSE "no"]
    IN  /\ pc[Sweeper] = "reset" /\ sleft = {}
        /\ ent' = says
        /\ todo' = [todo EXCEPT ![Sweeper] = @ \cup Changed(says)]
        /\ blind' = {u \in blind : says[u] # "yes"}
        /\ slist' = {}
        /\ listed' = [u \in Users |-> Blank]
        /\ at' = [at EXCEPT ![Sweeper] = 0]
        /\ pc' = [pc EXCEPT ![Sweeper] = "groups"]
        /\ UNCHANGED <<now, table, pending, holder, agents, grouping, node,
                       gleft, push, who, copy, was, sleft, excuses, budgets>>
SweepSwap ==
    LET says == [u \in Users |-> IF u \notin slist THEN "unseen"
                                 ELSE IF SweepSays(u) THEN "yes" ELSE "no"]
    IN  /\ pc[Sweeper] = "reset" /\ sleft = {}
        /\ ent' = says
        /\ todo' = [todo EXCEPT ![Sweeper] = @ \cup Changed(says) \cup pending]
        /\ blind' = {u \in blind : says[u] # "yes"}
        /\ slist' = {}
        /\ listed' = [u \in Users |-> Blank]
        /\ at' = [at EXCEPT ![Sweeper] = 0]
        /\ pc' = [pc EXCEPT ![Sweeper] = "groups"]
        /\ UNCHANGED <<now, table, pending, holder, agents, grouping, node,
                       gleft, push, who, copy, was, sleft, excuses, budgets>>

-----------------------------------------------------------------------------
(* CollectTraffic *)

\* A pass over the nodes' counters begins and reads the clock.
CollectBegin ==
    /\ pc[Collector] = "idle"
    /\ \E u \in Users : Live(u) /\ row[u].used < MaxUsed
    /\ pc' = [pc EXCEPT ![Collector] = "collect"]
    /\ at' = [at EXCEPT ![Collector] = now]
    /\ UNCHANGED <<now, table, memory, agents, todo, grouping, node, gleft,
                   push, others, history, budgets>>

\* creditTraffic reads the user before the transaction ...
CollectRead(u) ==
    /\ pc[Collector] = "collect" /\ row[u].used < MaxUsed
    /\ who' = [who EXCEPT ![Collector] = u]
    /\ was' = (Live(u) /\ Entitled(row[u], at[Collector]))
    /\ pc' = [pc EXCEPT ![Collector] = "credit"]
    /\ UNCHANGED <<now, table, memory, agents, todo, grouping, applying, copy,
                   slist, listed, sleft, history, budgets>>

\* (if that fails, it goes on as if the user had not been entitled)
CollectReadFails(u) ==
    /\ pc[Collector] = "collect" /\ row[u].used < MaxUsed
    /\ Fault
    /\ who' = [who EXCEPT ![Collector] = u]
    /\ pc' = [pc EXCEPT ![Collector] = "credit"]
    /\ UNCHANGED <<now, table, memory, agents, todo, grouping, applying, copy,
                   was, slist, listed, sleft, history>>

\* ... and compares with the row the transaction (ApplyTraffic) left.
CollectCredit ==
    LET u == who[Collector]
        after == [row[u] EXCEPT !.used = @ + 1]
    IN  /\ pc[Collector] = "credit"
        /\ IF Live(u) /\ row[u].used < MaxUsed
             THEN /\ row' = [row EXCEPT ![u] = after]
                  /\ todo' = IF was /\ ~Entitled(after, at[Collector])
                               THEN [todo EXCEPT ![Collector] =
                                         @ \cup {GroupOf[u]}]
                               ELSE todo
             ELSE UNCHANGED <<row, todo>>
        /\ who' = [who EXCEPT ![Collector] = None]
        /\ was' = FALSE
        /\ pc' = [pc EXCEPT ![Collector] = "collect"]
        /\ UNCHANGED <<now, life, memory, agents, grouping, applying, copy,
                       slist, listed, sleft, history, budgets>>

CollectCreditFails ==
    /\ pc[Collector] = "credit"
    /\ Fault
    /\ who' = [who EXCEPT ![Collector] = None]
    /\ was' = FALSE
    /\ pc' = [pc EXCEPT ![Collector] = "collect"]
    /\ UNCHANGED <<now, table, memory, agents, todo, grouping, applying, copy,
                   slist, listed, sleft, history>>

\* All counters are read: the groups that lost a user are applied.
CollectEnd ==
    /\ pc[Collector] = "collect"
    /\ at' = [at EXCEPT ![Collector] = 0]
    /\ pc' = [pc EXCEPT ![Collector] = "groups"]
    /\ UNCHANGED <<now, table, memory, agents, todo, grouping, node, gleft,
                   push, others, history, budgets>>

-----------------------------------------------------------------------------
\* The plane is restarted: the threads and the maps are gone.  An agent that
\* had received a PUT goes on with it.  An apply that was due is lost sight of,
\* and a user that had left is no longer seen to come back: nothing but its row
\* is left of a user, and that says it is in.
AtWork(n) ==
    \/ n \in forgotten \/ pending \cap Serves[n] # {}
    \/ \E t \in Threads : todo[t] \cap Serves[n] # {} \/ grp[t] \in Serves[n]

RestartPlane ==
    /\ crashes < MaxCrashes
    /\ crashes' = crashes + 1
    /\ \E sent \in SUBSET {n \in Nodes : /\ holder[n] # None
                                         /\ gleft[holder[n]] = {}} :
          late' = [n \in Nodes |-> IF n \in sent
                                     THEN Append(late[n], push[holder[n]])
                                     ELSE late[n]]
    /\ pending' = {}
    /\ ent' = [u \in Users |-> "unseen"]
    /\ holder' = [n \in Nodes |-> None]
    /\ pc' = [t \in Threads |-> "idle"]
    /\ todo' = [t \in Threads |-> {}]
    /\ grp' = [t \in Threads |-> None]
    /\ left' = [t \in Threads |-> {}]
    /\ failed' = [t \in Threads |-> FALSE]
    /\ node' = [t \in Threads |-> None]
    /\ at' = [t \in Threads |-> 0]
    /\ gleft' = [t \in Threads |-> {}]
    /\ push' = [t \in Threads |-> {}]
    /\ who' = [t \in Threads |-> None]
    /\ copy' = [t \in Requests |-> Blank]
    /\ was' = FALSE
    /\ slist' = {}
    /\ listed' = [u \in Users |-> Blank]
    /\ sleft' = {}
    /\ blind' = {} /\ crossed' = {} /\ forgotten' = {}
    /\ missed' = missed \cup
           {u \in Users : /\ Live(u) /\ Entitled(row[u], now)
                          /\ \/ RecordedOut(u)
                             \/ \E n \in NodesOf(GroupOf[u]) : AtWork(n)}
    /\ UNCHANGED <<now, table, installed, ops, faults>>

-----------------------------------------------------------------------------
ApplyStep(t) ==
    \/ \E g \in Groups : NextGroup(t, g) \/ ReadGroup(t, g)
    \/ \E n \in Nodes : Lock(t, n)
    \/ PutOk(t) \/ EndGroup(t) \/ EndApply(t)

RequestStep(t) ==
    \/ \E u \in Users : \/ \E r \in NewRows : CreateUser(t, u, r)
                        \/ RevokeUser(t, u) \/ DeleteUser(t, u)
                        \/ PatchRead(t, u)
    \/ \E n \in Nodes : ApplyNodes(t, {n})
    \/ ApplyNodes(t, Nodes)

PatchStep(t) == PatchFails(t) \/ \E p \in Patches : PatchWrite(t, p)

SweepStep == SweepList \/ SweepClock \/ SweepSwap \/ \E u \in Users : SweepReset(u)

CollectStep == \/ CollectBegin \/ CollectCredit \/ CollectEnd
               \/ \E u \in Users : CollectRead(u)

AgentStep(n) == \E i \in DOMAIN late[n] : LateApplied(n, i) \/ LateDropped(n, i)

FaultStep ==
    \/ \E t \in Threads : \/ \E g \in Groups : NextGroupFails(t, g)
                          \/ \E n \in Nodes : NextNodeFails(t, n)
                          \/ ReadFails(t) \/ PutRefused(t) \/ PutTimesOut(t)
                          \/ PutPartial(t) \/ PutUnsaved(t)
    \/ \E u \in Users : SweepResetFails(u) \/ CollectReadFails(u)
    \/ CollectCreditFails

Next ==
    \/ Tick
    \/ \E t \in Threads : ApplyStep(t)
    \/ \E t \in Requests : RequestStep(t) \/ PatchStep(t)
    \/ SweepStep
    \/ CollectStep
    \/ \E n \in Nodes : AgentStep(n)
    \/ FaultStep
    \/ RestartPlane

Spec == Init /\ [][Next]_vars

\* Goroutines are scheduled, the loops tick, agents end what they started,
\* and sync.Mutex does not starve a waiter.  Nobody has to send a request.
FairSpec ==
    /\ Spec
    /\ \A t \in Threads : WF_vars(ApplyStep(t)) /\ SF_vars(\E n \in Nodes : Lock(t, n))
    /\ \A t \in Requests : WF_vars(PatchStep(t))
    /\ WF_vars(SweepStep)
    /\ WF_vars(CollectCredit \/ CollectEnd)
    /\ \A n \in Nodes : WF_vars(AgentStep(n))

-----------------------------------------------------------------------------
(* Properties *)

\* Thread t has the apply of node n still before it, or it has not yet reached
\* the point of that apply that decides about u and will decide against it.
WillDrop(t, u, n) ==
    \/ todo[t] \cap Serves[n] # {}
    \/ n \in left[t]
    \/ /\ node[t] = n /\ pc[t] = "read" /\ u \notin push[t]
       /\ GroupOf[u] \in gleft[t] => ~Entitled(row[u], at[t])
    \/ failed[t] /\ grp[t] \in Serves[n]

\* Somebody still knows that u has to leave node n: a thread, the pending
\* kicks, or the sweep, which has not recorded u as out yet.
Owed(u, n) ==
    \/ pending \cap Serves[n] # {}
    \/ ent[u] # "no"
    \/ \E t \in Threads : WillDrop(t, u, n)

\* A node lets u in although u's row says it must not.
Stale(u, n) == Live(u) /\ ~Entitled(row[u], now) /\ u \in installed[n]

\* No interleaving of requests, sweep and collector loses a kick: a user that
\* a node still lets in but that is not entitled is always owed a kick, unless
\* it was let in again behind the back of the sweep (blind).
NoForgottenKick ==
    \A u \in Users, n \in Nodes : Stale(u, n) /\ u \notin blind => Owed(u, n)

\* The same without the exception.
EveryKickOwed == \A u \in Users, n \in Nodes : Stale(u, n) => Owed(u, n)

\* And the kick that is owed does happen.
KickedEventually ==
    \A u \in Users, n \in Nodes : []<>(~Stale(u, n) \/ u \in blind)

\* The other direction: thread t has the apply of node n still before it, or
\* it has decided to let u in, or will.
WillLetIn(t, u, n) ==
    \/ todo[t] \cap Serves[n] # {}
    \/ n \in left[t]
    \/ /\ node[t] = n /\ pc[t] = "read"
       /\ \/ u \in push[t]
          \/ GroupOf[u] \in gleft[t] /\ Entitled(row[u], at[t])
    \/ failed[t] /\ grp[t] \in Serves[n]

\* The user's row says that it may use node n, and n lets it in or somebody
\* still knows that it has to: a thread, the pending kicks, or the sweep, which
\* has the user recorded as out, or will have.
Due(u, n) == Live(u) /\ Entitled(row[u], now) /\ GroupOf[u] \in Serves[n]
Placed(u, n) == \/ u \in installed[n]
                \/ pending \cap Serves[n] # {}
                \/ RecordedOut(u)
                \/ \E t \in Threads : WillLetIn(t, u, n)

\* While nothing fails no interleaving of requests, sweep and collector leaves a
\* user out that may use a node.
EntitledAreServed == \A u \in Users, n \in Nodes : Due(u, n) => Placed(u, n)

\* Whatever fails and whoever overlaps, a kick is lost only where the plane takes
\* an apply for done that was not (forgotten), and only until a group of the
\* node is applied again: the mark of a failed apply, the group a thread has
\* still before it and what the sweep has recorded make up for all else.
KicksSurvive ==
    \A u \in Users, n \in Nodes :
        Stale(u, n) /\ u \notin blind /\ n \notin forgotten => Owed(u, n)

\* And a user that may use a node is left out only there, or if a restart found
\* its apply under way, or a patch that applies nothing wrote it back (missed).
PlacesSurvive ==
    \A u \in Users, n \in Nodes :
        Due(u, n) /\ u \notin missed /\ n \notin forgotten => Placed(u, n)

\* No usage period begins in the future, or its counters would not be reset
\* when it should end: createUser, patchUser and the sweep take the boundary
\* from clocks they have read, whatever day it is and however late the row is
\* written, and a change of the kind keeps the boundary of the old one.
PeriodBegun ==
    \A u \in Users : row[u].period # Never => row[u].period <= now
=============================================================================
