------------------------------ MODULE Members ------------------------------
(***************************************************************************)
(* Who belongs where: admins create, change and delete groups and users   *)
(* and choose the groups each node serves, and every such request ends in *)
(* applies that must bring the nodes to the new state - or leave a kick   *)
(* for the sweep.  Where PlaneApply follows one user's row through clock, *)
(* traffic and quota, here the tables around it change: groups,           *)
(* node_groups, the set of users, and tt_links, the links that nodes mint *)
(* for subscriptions.                                                      *)
(*                                                                         *)
(* Threads and steps are those of PlaneApply.  The family is trusttunnel; *)
(* a user's row is reduced to whether it entitles.  A PUT is answered in   *)
(* time or refused: answers that get lost are PlaneApply's.                *)
(***************************************************************************)
EXTENDS Integers, FiniteSets

CONSTANTS Users, Groups, Nodes,
          GroupOf,          \* users.group_id, never changed: [Users -> Groups]
          Requests,         \* goroutines that serve admin requests
          Sweeper,          \* the goroutine of SweepEntitlementLoop
          None,             \* no group or node
          MaxOps,           \* bound: admin requests
          MaxFaults         \* bound: failures of the database and of agents,
                            \* and restarts of the plane

Threads == Requests \cup {Sweeper}

ASSUME MembersAssumption ==
    /\ GroupOf \in [Users -> Groups]
    /\ Sweeper \notin Requests
    /\ None \notin Groups \cup Nodes \cup Threads
    /\ MaxOps \in Nat /\ MaxFaults \in Nat

VARIABLES
    life,                   \* users: unborn, live or gone
    good,                   \* users whose rows entitle them
    glife, open,            \* groups: the same; those with the family
    serves,                 \* node_groups
    links,                  \* tt_links: the users with a link of each node
    installed,              \* the users each node lets in
    pending, ent,           \* Server.pendingKicks, Server.entitled
    holder,                 \* Server.applyMu
    pc, todo,               \* per thread: where it is, groups to apply
    grp, left, failed,      \* applyGroupNodes: group, nids left, ok < len(nids)
    node, gleft, cur, push, \* applyStoredNode: node, gids left, gid, users
    more, copy, ids,        \* a request: users to insert, g, group_ids
    fresh,                  \* rows of node_groups that a transaction does not see
    slist, sok,             \* the sweep: users listed, those entitled
    excused, clean, marked, \* history: see Settled
    ops, faults             \* budgets used

people == <<life, good>>
places == <<glife, open, serves>>
agents == <<installed, links>>
memory == <<pending, ent, holder>>
grouping == <<grp, left, failed>>
applying == <<node, gleft, cur, push>>
request == <<more, copy, ids, fresh>>
sweep == <<slist, sok>>
history == <<excused, clean, marked>>
budgets == <<ops, faults>>
vars == <<people, places, agents, memory, pc, todo, grouping, applying, request,
          sweep, history, budgets>>

Stages == {"unborn", "live", "gone"}
Live(u) == life[u] = "live"
NodesOf(g) == {n \in Nodes : g \in serves[n]}

TypeOK ==
    /\ life \in [Users -> Stages] /\ good \subseteq Users
    /\ glife \in [Groups -> Stages] /\ open \subseteq Groups
    /\ serves \in [Nodes -> SUBSET {g \in Groups : glife[g] = "live"}]
    /\ links \in [Nodes -> SUBSET {u \in Users : Live(u)}]
    /\ installed \in [Nodes -> SUBSET Users]
    /\ pending \subseteq Groups
    /\ ent \in [Users -> {"unseen", "yes", "no"}]
    /\ holder \in [Nodes -> Threads \cup {None}]
    /\ pc \in [Threads -> {"idle", "create", "patch", "revoke", "delete", "move",
                           "swap", "groups", "nodes", "read", "users", "links"}]
    /\ todo \in [Threads -> SUBSET Groups]
    /\ grp \in [Threads -> Groups \cup {None}]
    /\ left \in [Threads -> SUBSET Nodes]
    /\ failed \in [Threads -> BOOLEAN]
    /\ node \in [Threads -> Nodes \cup {None}]
    /\ gleft \in [Threads -> SUBSET Groups]
    /\ cur \in [Threads -> Groups \cup {None}]
    /\ push \in [Threads -> SUBSET Users]
    /\ more \in [Threads -> SUBSET Users]
    /\ copy \in [Threads -> BOOLEAN]
    /\ ids \in [Threads -> SUBSET Groups]
    /\ fresh \in [Threads -> SUBSET Groups]
    /\ slist \subseteq Users /\ sok \subseteq slist
    /\ excused \subseteq Nodes /\ clean \subseteq Threads /\ marked \subseteq Threads
    /\ ops \in Nat /\ faults \in Nat

\* A plane started on some groups, some users in them and nodes that serve
\* them as they should.
Init ==
    /\ glife \in [Groups -> {"unborn", "live"}]
    /\ open = {g \in Groups : glife[g] = "live"}
    /\ serves \in [Nodes -> SUBSET open]
    /\ life \in [Users -> {"unborn", "live"}]
    /\ good = {u \in Users : Live(u)}
    /\ \A u \in good : GroupOf[u] \in open
    /\ installed = [n \in Nodes |-> {u \in good : GroupOf[u] \in serves[n]}]
    /\ links = installed
    /\ pending = {}
    /\ ent = [u \in Users |-> "unseen"]
    /\ holder = [n \in Nodes |-> None]
    /\ pc = [t \in Threads |-> "idle"]
    /\ todo = [t \in Threads |-> {}]
    /\ grp = [t \in Threads |-> None]
    /\ left = [t \in Threads |-> {}]
    /\ failed = [t \in Threads |-> FALSE]
    /\ node = [t \in Threads |-> None]
    /\ gleft = [t \in Threads |-> {}]
    /\ cur = [t \in Threads |-> None]
    /\ push = [t \in Threads |-> {}]
    /\ more = [t \in Threads |-> {}]
    /\ copy = [t \in Threads |-> FALSE]
    /\ ids = [t \in Threads |-> {}]
    /\ fresh = [t \in Threads |-> {}]
    /\ slist = {} /\ sok = {}
    /\ excused = {} /\ clean = {} /\ marked = {}
    /\ ops = 0 /\ faults = 0

-----------------------------------------------------------------------------
\* One more failure.
Fault == /\ faults < MaxFaults
         /\ faults' = faults + 1
         /\ UNCHANGED ops

Goto(t, l) == pc' = [pc EXCEPT ![t] = l]

\* History: the code lets these nodes down, from now on and for the applies
\* that are under way (see Settled).  No step reads it.
Excuse(some) ==
    /\ excused' = excused \cup some
    /\ clean' = {t \in clean : node[t] \notin some}

\* markKick; history: the threads that are at the same group, and may clear it.
Mark(some, t) ==
    /\ pending' = pending \cup some
    /\ marked' = marked \cup {s \in Threads \ {t} : grp[s] \in some}

\* Groups whose nodes some thread, or a kick, has still to reach.
Owing == pending \cup UNION {todo[t] \cup {grp[t]} \cup ids[t] : t \in Threads}

-----------------------------------------------------------------------------
(* applyGroupNodes and applyStoredNode *)

NextGroup(t, g) ==
    /\ pc[t] = "groups" /\ g \in todo[t]
    /\ todo' = [todo EXCEPT ![t] = @ \ {g}]
    /\ grp' = [grp EXCEPT ![t] = g]
    /\ left' = [left EXCEPT ![t] = NodesOf(g)]
    /\ marked' = marked \ {t}
    /\ Goto(t, "nodes")
    /\ UNCHANGED <<people, places, agents, memory, failed, applying, request,
                   sweep, excused, clean, budgets>>

\* NodeIDsForGroup fails.
NextGroupFails(t, g) ==
    /\ pc[t] = "groups" /\ g \in todo[t]
    /\ Fault
    /\ todo' = [todo EXCEPT ![t] = @ \ {g}]
    /\ Mark({g}, t)
    /\ UNCHANGED <<people, places, agents, ent, holder, pc, grouping, applying,
                   request, sweep, excused, clean>>

\* Node fails: for applyGroupNodes the node was not applied.
NextNodeFails(t, n) ==
    /\ pc[t] = "nodes" /\ n \in left[t] /\ grp[t] # None
    /\ Fault
    /\ left' = [left EXCEPT ![t] = @ \ {n}]
    /\ failed' = [failed EXCEPT ![t] = TRUE]
    /\ UNCHANGED <<people, places, agents, memory, pc, todo, grp, applying,
                   request, sweep, history>>

\* setNodeGroups and applyNode then apply nothing and mark nothing.
NodeUnread(t, n) ==
    /\ pc[t] = "nodes" /\ n \in left[t] /\ grp[t] = None
    /\ Fault
    /\ left' = [left EXCEPT ![t] = @ \ {n}]
    /\ Excuse({n})
    /\ UNCHANGED <<people, places, agents, memory, pc, todo, grp, failed, applying,
                   request, sweep, marked>>

\* The node's mutex, then GroupIDsForNode.
Lock(t, n) ==
    /\ pc[t] = "nodes" /\ n \in left[t] /\ holder[n] = None
    /\ serves[n] # {}
    /\ left' = [left EXCEPT ![t] = @ \ {n}]
    /\ node' = [node EXCEPT ![t] = n]
    /\ holder' = [holder EXCEPT ![n] = t]
    /\ gleft' = [gleft EXCEPT ![t] = serves[n]]
    /\ clean' = clean \cup {t}
    /\ Goto(t, "read")
    /\ UNCHANGED <<people, places, agents, pending, ent, todo, grp, failed, cur,
                   push, request, sweep, excused, marked, budgets>>

\* A node in no group is not applied: it keeps the users it has.
NoGroups(t, n) ==
    /\ pc[t] = "nodes" /\ n \in left[t] /\ holder[n] = None
    /\ serves[n] = {}
    /\ left' = [left EXCEPT ![t] = @ \ {n}]
    /\ failed' = [failed EXCEPT ![t] = TRUE]
    /\ Excuse({n})
    /\ UNCHANGED <<people, places, agents, memory, pc, todo, grp, applying,
                   request, sweep, marked, budgets>>

\* applyStoredNode returns and unlocks; err says whether with an error.
Return(t, err) ==
    /\ holder' = [holder EXCEPT ![node[t]] = None]
    /\ failed' = [failed EXCEPT ![t] = @ \/ err]
    /\ node' = [node EXCEPT ![t] = None]
    /\ gleft' = [gleft EXCEPT ![t] = {}]
    /\ cur' = [cur EXCEPT ![t] = None]
    /\ push' = [push EXCEPT ![t] = {}]
    /\ Goto(t, "nodes")
    /\ UNCHANGED <<people, places, pending, ent, todo, grp, left, request, sweep,
                   marked>>

\* The next group's row; without the family its users are not looked at.
ReadGroup(t, g) ==
    /\ pc[t] = "read" /\ g \in gleft[t] /\ glife[g] = "live"
    /\ gleft' = [gleft EXCEPT ![t] = @ \ {g}]
    /\ IF g \in open THEN cur' = [cur EXCEPT ![t] = g] /\ Goto(t, "users")
                     ELSE UNCHANGED <<cur, pc>>
    /\ UNCHANGED <<people, places, agents, memory, todo, grouping, node, push,
                   request, sweep, history, budgets>>

\* The group was deleted since.
GroupGone(t, g) ==
    /\ pc[t] = "read" /\ g \in gleft[t] /\ glife[g] = "gone"
    /\ Return(t, TRUE)
    /\ UNCHANGED <<agents, excused, clean, budgets>>

\* UsersInGroup, and Entitled of each.
ReadUsers(t) ==
    /\ pc[t] = "users"
    /\ push' = [push EXCEPT ![t] = @ \cup {u \in good : Live(u) /\ GroupOf[u] = cur[t]}]
    /\ cur' = [cur EXCEPT ![t] = None]
    /\ Goto(t, "read")
    /\ UNCHANGED <<people, places, agents, memory, todo, grouping, node, gleft,
                   request, sweep, history, budgets>>

\* A query fails, or the agent refuses the PUT.
ApplyFails(t) ==
    /\ pc[t] \in {"read", "users"}
    /\ Fault
    /\ Return(t, TRUE)
    /\ UNCHANGED <<agents, excused, clean>>

\* The PUT; then the result is stored in the nodes row, or fails to be.
Put(t) ==
    /\ pc[t] = "read" /\ gleft[t] = {}
    /\ installed' = [installed EXCEPT ![node[t]] = push[t]]
    /\ Goto(t, "links")
    /\ UNCHANGED <<people, places, links, memory, todo, grouping, applying, request,
                   sweep, history, budgets>>

PutUnsaved(t) ==
    /\ pc[t] = "read" /\ gleft[t] = {}
    /\ Fault
    /\ installed' = [installed EXCEPT ![node[t]] = push[t]]
    /\ Return(t, TRUE)
    /\ UNCHANGED <<links, excused, clean>>

\* The agent answers 200, but trusttunnel failed (ok false): it lets in those it
\* did, or the new users, or nobody, and no link is minted.  No error for
\* applyStoredNode.
PutPartial(t) ==
    /\ pc[t] = "read" /\ gleft[t] = {}
    /\ Fault
    /\ \E us \in {installed[node[t]], push[t], {}} :
          installed' = [installed EXCEPT ![node[t]] = us]
    /\ push' = [push EXCEPT ![t] = {}]
    /\ Excuse({node[t]})
    /\ Goto(t, "links")
    /\ UNCHANGED <<people, places, links, memory, todo, grouping, node, gleft, cur,
                   request, sweep, marked>>

\* ReplaceTTLinks with the links that were minted, or DeleteTTLinksForNode if
\* none was (push is empty).  A link of a user that has been deleted since
\* breaks a foreign key, and the links stay as they were; the error is ignored.
StoreLinks(t) ==
    /\ pc[t] = "links"
    /\ IF \A u \in push[t] : Live(u)
         THEN /\ links' = [links EXCEPT ![node[t]] = push[t]]
              /\ excused' = IF t \in clean THEN excused \ {node[t]} ELSE excused
         ELSE UNCHANGED <<links, excused>>
    /\ Return(t, FALSE)
    /\ UNCHANGED <<installed, clean, budgets>>

\* So is the database's.
StoreLinksFails(t) ==
    /\ pc[t] = "links"
    /\ Fault
    /\ Return(t, FALSE)
    /\ excused' = excused \cup {node[t]}
    /\ UNCHANGED <<agents, clean>>

\* The end of applyGroupNodes: markKick if a node was not applied, clearKick
\* otherwise - also a kick that another thread marked in the meantime.
EndGroup(t) ==
    /\ pc[t] = "nodes" /\ left[t] = {} /\ grp[t] # None
    /\ IF failed[t]
         THEN Mark({grp[t]}, t) /\ UNCHANGED <<excused, clean>>
         ELSE /\ pending' = pending \ {grp[t]}
              /\ Excuse(IF t \in marked /\ grp[t] \in pending THEN NodesOf(grp[t])
                                                             ELSE {})
              /\ UNCHANGED marked
    /\ grp' = [grp EXCEPT ![t] = None]
    /\ failed' = [failed EXCEPT ![t] = FALSE]
    /\ Goto(t, "groups")
    /\ UNCHANGED <<people, places, agents, ent, holder, todo, left, applying,
                   request, sweep, budgets>>

\* The end of setNodeGroups, or of applyNode (no group_ids): a failed apply is
\* a kick for every group the node was given.
MutantEndNodeForgets(t) ==
    /\ pc[t] = "nodes" /\ left[t] = {} /\ grp[t] = None
    /\ UNCHANGED <<pending, marked>>
    /\ ids' = [ids EXCEPT ![t] = {}]
    /\ failed' = [failed EXCEPT ![t] = FALSE]
    /\ Goto(t, "groups")
    /\ UNCHANGED <<people, places, agents, ent, holder, todo, grp, left, applying,
                   more, copy, fresh, sweep, excused, clean, budgets>>
EndNode(t) ==
    /\ pc[t] = "nodes" /\ left[t] = {} /\ grp[t] = None
    /\ IF failed[t] THEN Mark(ids[t], t) ELSE UNCHANGED <<pending, marked>>
    /\ ids' = [ids EXCEPT ![t] = {}]
    /\ failed' = [failed EXCEPT ![t] = FALSE]
    /\ Goto(t, "groups")
    /\ UNCHANGED <<people, places, agents, ent, holder, todo, grp, left, applying,
                   more, copy, fresh, sweep, excused, clean, budgets>>

EndApply(t) ==
    /\ pc[t] = "groups" /\ todo[t] = {}
    /\ Goto(t, "idle")
    /\ UNCHANGED <<people, places, agents, memory, todo, grouping, applying,
                   request, sweep, history, budgets>>

-----------------------------------------------------------------------------
(* Admin requests *)

Request(t) == /\ t \in Requests /\ pc[t] = "idle"
              /\ ops < MaxOps
              /\ ops' = ops + 1
              /\ UNCHANGED faults

ThenApply(t, g) == todo' = [todo EXCEPT ![t] = {g}] /\ Goto(t, "groups")

\* createGroup, with the family or without it.
CreateGroup(t, g) ==
    /\ Request(t) /\ glife[g] = "unborn"
    /\ glife' = [glife EXCEPT ![g] = "live"]
    /\ open' \in {open, open \cup {g}}
    /\ UNCHANGED <<people, serves, agents, memory, pc, todo, grouping, applying,
                   request, sweep, history>>

\* patchGroup reads the row ...
PatchRead(t, g) ==
    /\ Request(t) /\ glife[g] = "live"
    /\ grp' = [grp EXCEPT ![t] = g]
    /\ copy' = [copy EXCEPT ![t] = g \in open]
    /\ Goto(t, "patch")
    /\ UNCHANGED <<people, places, agents, memory, todo, left, failed, applying,
                   more, ids, fresh, sweep, history>>

\* ... and writes it back: with the protocols the body names, or else with
\* those it has read, and then no node is applied.
PatchWrite(t) ==
    /\ pc[t] = "patch"
    /\ \E named, family \in BOOLEAN :
          LET g == grp[t]
              has == IF named THEN family ELSE copy[t]
          IN  IF glife[g] # "live"                      \* no row was updated
                THEN Goto(t, "idle") /\ UNCHANGED <<open, todo, excused, clean>>
                ELSE /\ open' = IF has THEN open \cup {g} ELSE open \ {g}
                     /\ IF named THEN ThenApply(t, g)
                                 ELSE Goto(t, "idle") /\ UNCHANGED todo
                     /\ Excuse(IF ~named /\ open' # open THEN NodesOf(g) ELSE {})
    /\ grp' = [grp EXCEPT ![t] = None]
    /\ copy' = [copy EXCEPT ![t] = FALSE]
    /\ UNCHANGED <<people, glife, serves, agents, memory, left, failed, applying,
                   more, ids, fresh, sweep, marked, budgets>>

\* deleteGroup: refused while the group has users, which is counted first and
\* enforced by a foreign key.  Its node_groups go with it; nothing is applied.
DeleteGroup(t, g) ==
    /\ Request(t) /\ glife[g] = "live"
    /\ \A u \in Users : Live(u) => GroupOf[u] # g
    /\ glife' = [glife EXCEPT ![g] = "gone"]
    /\ open' = open \ {g}
    /\ serves' = [n \in Nodes |-> serves[n] \ {g}]
    /\ Excuse(IF g \in Owing THEN NodesOf(g) ELSE {})
    /\ UNCHANGED <<people, agents, memory, pc, todo, grouping, applying, request,
                   sweep, marked>>

\* createUser reads the group, inserts one user or several, one by one, and
\* then applies.
CreateUsers(t, g, us) ==
    /\ Request(t) /\ glife[g] = "live"
    /\ us # {} /\ \A u \in us : life[u] = "unborn" /\ GroupOf[u] = g
    /\ grp' = [grp EXCEPT ![t] = g]
    /\ more' = [more EXCEPT ![t] = us]
    /\ Goto(t, "create")
    /\ UNCHANGED <<people, places, agents, memory, todo, left, failed, applying,
                   copy, ids, fresh, sweep, history>>

InsertUser(t, u) ==
    /\ pc[t] = "create" /\ u \in more[t]
    /\ glife[grp[t]] = "live" /\ life[u] = "unborn"
    /\ life' = [life EXCEPT ![u] = "live"]
    /\ good' = good \cup {u}
    /\ more' = [more EXCEPT ![t] = @ \ {u}]
    /\ IF more[t] = {u} THEN ThenApply(t, grp[t]) /\ grp' = [grp EXCEPT ![t] = None]
                        ELSE UNCHANGED <<todo, pc, grp>>
    /\ UNCHANGED <<places, agents, memory, left, failed, applying, copy, ids, fresh,
                   sweep, history, budgets>>

\* An insert fails: those before it stay, and nothing is applied.
Abandon(t) ==
    /\ Goto(t, "idle")
    /\ Excuse({n \in NodesOf(grp[t]) :
                 \E u \in Users : Live(u) /\ GroupOf[u] = grp[t]
                              /\ u \notin installed[n] \cap links[n]})
    /\ grp' = [grp EXCEPT ![t] = None]
    /\ more' = [more EXCEPT ![t] = {}]
    /\ UNCHANGED <<people, places, agents, memory, todo, left, failed, applying,
                   copy, ids, fresh, sweep, marked>>

InsertFails(t) == pc[t] = "create" /\ Fault /\ Abandon(t)

\* ... because the group was deleted since.
InsertOrphan(t) ==
    /\ pc[t] = "create" /\ glife[grp[t]] = "gone"
    /\ Abandon(t)
    /\ UNCHANGED budgets

\* patchUser with a status: the user is let in, or out.
SetStatus(t, u) ==
    /\ Request(t) /\ Live(u)
    /\ good' = IF u \in good THEN good \ {u} ELSE good \cup {u}
    /\ ThenApply(t, GroupOf[u])
    /\ UNCHANGED <<life, places, agents, memory, grouping, applying, request, sweep,
                   history>>

\* revokeUser: the status, then the links, then the apply.
RevokeUser(t, u) ==
    /\ Request(t) /\ Live(u)
    /\ good' = good \ {u}
    /\ grp' = [grp EXCEPT ![t] = GroupOf[u]]
    /\ more' = [more EXCEPT ![t] = {u}]
    /\ Goto(t, "revoke")
    /\ UNCHANGED <<life, places, agents, memory, todo, left, failed, applying, copy,
                   ids, fresh, sweep, history>>

WithoutLinks(us) == links' = [n \in Nodes |-> links[n] \ us]

RevokeLinks(t) ==
    /\ pc[t] = "revoke"
    /\ \/ WithoutLinks(more[t]) /\ UNCHANGED budgets
       \/ Fault /\ UNCHANGED links
    /\ ThenApply(t, grp[t])
    /\ grp' = [grp EXCEPT ![t] = None]
    /\ more' = [more EXCEPT ![t] = {}]
    /\ UNCHANGED <<people, places, installed, memory, left, failed, applying, copy,
                   ids, fresh, sweep, history>>

\* deleteUser: the links are deleted first, by a statement of their own ...
DeleteUser(t, u) ==
    /\ Request(t) /\ Live(u)
    /\ WithoutLinks({u})
    /\ grp' = [grp EXCEPT ![t] = GroupOf[u]]
    /\ more' = [more EXCEPT ![t] = {u}]
    /\ Goto(t, "delete")
    /\ UNCHANGED <<people, places, installed, memory, todo, left, failed, applying,
                   copy, ids, fresh, sweep, history>>

\* ... then the user, and with it links that were stored in between.
MutantDropUserKeepsLinks(t, u) ==
    /\ pc[t] = "delete" /\ u \in more[t]
    /\ IF Live(u) THEN ThenApply(t, grp[t]) ELSE Goto(t, "idle") /\ UNCHANGED todo
    /\ life' = [life EXCEPT ![u] = "gone"]
    /\ UNCHANGED links
    /\ grp' = [grp EXCEPT ![t] = None]
    /\ more' = [more EXCEPT ![t] = {}]
    /\ UNCHANGED <<good, places, installed, memory, left, failed, applying, copy,
                   ids, fresh, sweep, history, budgets>>
DropUser(t, u) ==
    /\ pc[t] = "delete" /\ u \in more[t]
    /\ IF Live(u) THEN ThenApply(t, grp[t])
                  ELSE Goto(t, "idle") /\ UNCHANGED todo    \* no row was deleted
    /\ life' = [life EXCEPT ![u] = "gone"]
    /\ WithoutLinks({u})
    /\ grp' = [grp EXCEPT ![t] = None]
    /\ more' = [more EXCEPT ![t] = {}]
    /\ UNCHANGED <<good, places, installed, memory, left, failed, applying, copy,
                   ids, fresh, sweep, history, budgets>>

\* The user stays, without the links that were deleted.
DropUserFails(t, u) ==
    /\ pc[t] = "delete" /\ u \in more[t]
    /\ Fault
    /\ Excuse({n \in Nodes : Live(u) /\ u \in installed[n] \ links[n]})
    /\ grp' = [grp EXCEPT ![t] = None]
    /\ more' = [more EXCEPT ![t] = {}]
    /\ Goto(t, "idle")
    /\ UNCHANGED <<people, places, agents, memory, todo, left, failed, applying, copy,
                   ids, fresh, sweep, marked>>

\* setNodeGroups: a transaction that deletes the rows it sees ...
MoveNode(t, n, gs) ==
    /\ Request(t)
    /\ left' = [left EXCEPT ![t] = {n}]
    /\ ids' = [ids EXCEPT ![t] = gs]
    /\ Goto(t, "move")
    /\ UNCHANGED <<people, places, agents, memory, todo, grp, failed, applying,
                   more, copy, fresh, sweep, history>>

\* ... and inserts the new ones.  Rows that another transaction committed in
\* between were not there to be seen, and stay (READ COMMITTED).  The same row
\* twice, or a group that is gone, aborts it.  Without new ones there is no group
\* to leave a kick for, should the apply fail: excused if rows go and rows stay.
MoveCommits(t, n) ==
    /\ pc[t] = "move" /\ n \in left[t]
    /\ LET kept == fresh[t] \cap serves[n]
       IN  /\ IF kept \cap ids[t] = {} /\ \A g \in ids[t] : glife[g] = "live"
                THEN /\ serves' = [serves EXCEPT ![n] = kept \cup ids[t]]
                     /\ fresh' = [s \in Threads |->
                                    IF s = t THEN {}
                                    ELSE IF pc[s] = "move" /\ n \in left[s]
                                           THEN (fresh[s] \cap kept) \cup ids[t]
                                           ELSE fresh[s]]
                     /\ Goto(t, "nodes")
                     /\ UNCHANGED <<left, ids>>
                ELSE /\ Goto(t, "idle")
                     /\ left' = [left EXCEPT ![t] = {}]
                     /\ ids' = [ids EXCEPT ![t] = {}]
                     /\ fresh' = [fresh EXCEPT ![t] = {}]
                     /\ UNCHANGED serves
           /\ Excuse(IF ids[t] = {} /\ kept \notin {{}, serves[n]} THEN {n} ELSE {})
    /\ UNCHANGED <<people, glife, open, agents, memory, todo, grp, failed, applying,
                   more, copy, sweep, marked, budgets>>

\* applyNode
ApplyNode(t, n) ==
    /\ Request(t)
    /\ left' = [left EXCEPT ![t] = {n}]
    /\ Goto(t, "nodes")
    /\ UNCHANGED <<people, places, agents, memory, todo, grp, failed, applying,
                   request, sweep, history>>

-----------------------------------------------------------------------------
(* SweepEntitlement *)

SweepList ==
    /\ pc[Sweeper] = "idle"
    /\ slist' = {u \in Users : Live(u)}
    /\ sok' = {u \in good : Live(u)}
    /\ Goto(Sweeper, "swap")
    /\ UNCHANGED <<people, places, agents, memory, todo, grouping, applying, request,
                   history, budgets>>

\* The new map replaces the old one; then the kicks are copied.
SweepSwap ==
    /\ pc[Sweeper] = "swap"
    /\ ent' = [u \in Users |-> IF u \notin slist THEN "unseen"
                               ELSE IF u \in sok THEN "yes" ELSE "no"]
    /\ todo' = [todo EXCEPT ![Sweeper] =
                  pending \cup {GroupOf[u] : u \in
                    {v \in slist : IF ent[v] = "unseen" THEN v \notin sok
                                                        ELSE ent[v] # ent'[v]}}]
    /\ slist' = {} /\ sok' = {}
    /\ Goto(Sweeper, "groups")
    /\ UNCHANGED <<people, places, agents, pending, holder, grouping, applying,
                   request, history, budgets>>

-----------------------------------------------------------------------------
\* Maps, mutexes and goroutines are gone; tables and nodes stay.
RestartPlane ==
    /\ Fault
    /\ excused' = excused \cup {n \in Nodes :
                     \/ serves[n] \cap Owing # {}
                     \/ \E t \in Threads : n = node[t] \/ n \in left[t]}
    /\ clean' = {} /\ marked' = {}
    /\ pending' = {}
    /\ ent' = [u \in Users |-> "unseen"]
    /\ holder' = [n \in Nodes |-> None]
    /\ pc' = [t \in Threads |-> "idle"]
    /\ todo' = [t \in Threads |-> {}]
    /\ grp' = [t \in Threads |-> None]
    /\ left' = [t \in Threads |-> {}]
    /\ failed' = [t \in Threads |-> FALSE]
    /\ node' = [t \in Threads |-> None]
    /\ gleft' = [t \in Threads |-> {}]
    /\ cur' = [t \in Threads |-> None]
    /\ push' = [t \in Threads |-> {}]
    /\ more' = [t \in Threads |-> {}]
    /\ copy' = [t \in Threads |-> FALSE]
    /\ ids' = [t \in Threads |-> {}]
    /\ fresh' = [t \in Threads |-> {}]
    /\ slist' = {} /\ sok' = {}
    /\ UNCHANGED <<people, places, agents>>

Start(t) ==
    \/ \E g \in Groups : CreateGroup(t, g) \/ PatchRead(t, g) \/ DeleteGroup(t, g)
    \/ \E g \in Groups, us \in SUBSET Users : CreateUsers(t, g, us)
    \/ \E u \in Users : SetStatus(t, u) \/ RevokeUser(t, u) \/ DeleteUser(t, u)
    \/ \E n \in Nodes, gs \in SUBSET Groups : MoveNode(t, n, gs)
    \/ \E n \in Nodes : ApplyNode(t, n)

Step(t) ==
    \/ PatchWrite(t) \/ InsertFails(t) \/ InsertOrphan(t) \/ RevokeLinks(t)
    \/ \E u \in Users : InsertUser(t, u) \/ DropUser(t, u) \/ DropUserFails(t, u)
    \/ \E n \in Nodes : MoveCommits(t, n) \/ NextNodeFails(t, n) \/ NodeUnread(t, n)
                        \/ Lock(t, n) \/ NoGroups(t, n)
    \/ \E g \in Groups : NextGroup(t, g) \/ NextGroupFails(t, g) \/ ReadGroup(t, g)
                         \/ GroupGone(t, g)
    \/ ReadUsers(t) \/ ApplyFails(t) \/ Put(t) \/ PutUnsaved(t)
    \/ PutPartial(t) \/ StoreLinks(t) \/ StoreLinksFails(t)
    \/ EndGroup(t) \/ EndNode(t) \/ EndApply(t)

Sweep == SweepList \/ SweepSwap

Next == \/ \E t \in Threads : Start(t) \/ Step(t)
        \/ Sweep
        \/ RestartPlane

Spec == Init /\ [][Next]_vars

-----------------------------------------------------------------------------
(* Properties *)

\* Who may use a node, as the tables say it now.
May(u, n) == /\ Live(u) /\ u \in good
             /\ GroupOf[u] \in open /\ GroupOf[u] \in serves[n]

AtRest == pending = {} /\ \A t \in Threads : pc[t] = "idle"

\* When every request has been answered and the sweep has no kick left, each
\* node lets in exactly its members, and each of these has a link: no order of
\* requests, applies and sweeps forgets a change - except where the code gives
\* up on it (excused): createUser that fails between two users, patchGroup that
\* writes back old protocols, setNodeGroups with no groups (the node is left with
\* none, or with some that another request gave it), a node that cannot be read,
\* deleteGroup with a kick pending, links that cannot be stored, deleteUser that
\* fails halfway, a kick cleared by an apply that was running when it was marked,
\* an agent that answers 200 though trusttunnel failed, and a restart with kicks
\* or applies under way.
Settled ==
    AtRest => \A n \in Nodes \ excused :
                 /\ installed[n] = {u \in Users : May(u, n)}
                 /\ installed[n] \subseteq links[n]
=============================================================================
