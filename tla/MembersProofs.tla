---------------------------- MODULE MembersProofs ----------------------------
(***************************************************************************)
(* Proofs about Members, for every set of users, groups, nodes and        *)
(* requests, and every number of requests, failures and restarts.         *)
(***************************************************************************)
EXTENDS Members, TLAPS

USE DEF people, places, agents, memory, grouping, applying, request, sweep,
        history, budgets, Goto, Live

Inside == {"read", "users", "links"}        \* applyStoredNode
Applying == {"nodes"} \cup Inside           \* applyGroupNodes, or of one node

-----------------------------------------------------------------------------
(* Where a thread is, and what it holds *)

\* Inside applyStoredNode a thread holds the mutex of its node; outside it
\* keeps nothing of the node.
Placed(t) ==
    IF pc[t] \in Inside THEN node[t] \in Nodes /\ holder[node[t]] = t
                        ELSE node[t] = None /\ push[t] = {} /\ gleft[t] = {}

\* A group is read only in "users", and the PUT is sent when all are.
Reading(t) ==
    /\ cur[t] # None <=> pc[t] = "users"
    /\ pc[t] = "links" => gleft[t] = {}

\* Between requests a thread has nothing left to do; a request about a group
\* knows which.
Tidy(t) ==
    /\ pc[t] \in {"patch", "create", "revoke", "delete"} => grp[t] \in Groups
    /\ pc[t] \in {"idle", "swap", "move", "groups"} => grp[t] = None
    /\ pc[t] \notin Applying => ~failed[t]
    /\ pc[t] \notin Applying \cup {"groups"} => todo[t] = {}
    /\ pc[t] \notin Applying \cup {"move"} => left[t] = {} /\ ids[t] = {}
    /\ grp[t] # None => ids[t] = {}
    /\ pc[t] \in {"create", "revoke", "delete"} => \A u \in more[t] : GroupOf[u] = grp[t]
    /\ pc[t] = "delete" => \A u, v \in more[t] : u = v

\* setNodeGroups and applyNode have one node, and apply it once.
Single(t) ==
    grp[t] = None => /\ pc[t] = "nodes" /\ left[t] # {} => ~failed[t]
                     /\ pc[t] \in Inside => left[t] = {}
                     /\ \A n, m \in left[t] : n = m

Sound(t) == Placed(t) /\ Reading(t) /\ Tidy(t) /\ Single(t)

\* A mutex is held from inside.
Held(n) == holder[n] # None => /\ pc[holder[n]] \in Inside
                               /\ node[holder[n]] = n

Born(u) == life[u] # "unborn"

\* Users live in groups that live, and nobody knows a user before it is born.
Known ==
    /\ \A u \in Users : Live(u) => glife[GroupOf[u]] = "live"
    /\ \A n \in Nodes : \A u \in installed[n] : Born(u)
    /\ \A t \in Threads : \A u \in push[t] : Born(u)

Shape == /\ \A t \in Threads : Sound(t)
         /\ \A n \in Nodes : Held(n)
         /\ Known

-----------------------------------------------------------------------------
(* Types *)

LEMMA Constants ==
    /\ Requests \subseteq Threads /\ Sweeper \in Threads
    /\ None \notin Groups /\ None \notin Nodes /\ None \notin Threads
    /\ \A u \in Users : GroupOf[u] \in Groups
BY MembersAssumption DEF Threads

LEMMA InitType == Init => TypeOK
BY MembersAssumption DEF Init, TypeOK, Stages

\* Steps of applyGroupNodes outside of applyStoredNode.
LEMMA GroupType ==
    ASSUME TypeOK, NEW t \in Threads,
           \/ \E g \in Groups : NextGroup(t, g) \/ NextGroupFails(t, g)
           \/ \E n \in Nodes : \/ NextNodeFails(t, n) \/ NodeUnread(t, n)
                             \/ Lock(t, n) \/ NoGroups(t, n)
           \/ EndGroup(t) \/ EndNode(t) \/ EndApply(t)
    PROVE  TypeOK'
<1>1. ASSUME NEW g \in Groups, NextGroup(t, g) PROVE TypeOK'
    BY <1>1 DEF TypeOK, NextGroup, NodesOf
<1>2. ASSUME NEW g \in Groups, NextGroupFails(t, g) PROVE TypeOK'
    BY <1>2 DEF TypeOK, NextGroupFails, Fault, Mark
<1>3. ASSUME NEW n \in Nodes, NextNodeFails(t, n) PROVE TypeOK'
    BY <1>3 DEF TypeOK, NextNodeFails, Fault
<1>9. ASSUME NEW n \in Nodes, NodeUnread(t, n) PROVE TypeOK'
    BY <1>9 DEF TypeOK, NodeUnread, Fault, Excuse
<1>4. ASSUME NEW n \in Nodes, Lock(t, n) PROVE TypeOK'
    BY <1>4 DEF TypeOK, Lock
<1>5. ASSUME NEW n \in Nodes, NoGroups(t, n) PROVE TypeOK'
    BY <1>5 DEF TypeOK, NoGroups, Excuse
<1>6. CASE EndGroup(t)
    <2>0. grp[t] \in Groups
        BY <1>6 DEF TypeOK, EndGroup
    <2>1. /\ pending' \subseteq Groups /\ excused' \subseteq Nodes
          /\ clean' \subseteq Threads /\ marked' \subseteq Threads
        <3>1. CASE failed[t]
            BY <1>6, <2>0, <3>1 DEF TypeOK, EndGroup, Mark
        <3>2. CASE ~failed[t]
            BY <1>6, <3>2 DEF TypeOK, EndGroup, Excuse, NodesOf
        <3>. QED  BY <3>1, <3>2
    <2>. QED  BY <1>6, <2>1 DEF TypeOK, EndGroup
<1>7. CASE EndNode(t)
    BY <1>7 DEF TypeOK, EndNode, Mark
<1>8. CASE EndApply(t)
    BY <1>8 DEF TypeOK, EndApply
<1>. QED  BY <1>1, <1>2, <1>3, <1>4, <1>5, <1>6, <1>7, <1>8, <1>9

\* What Return leaves to its callers are the nodes' tables and the history.
LEMMA ReturnType ==
    ASSUME TypeOK, NEW t \in Threads, NEW err \in BOOLEAN, Return(t, err),
           links' \in [Nodes -> SUBSET {u \in Users : Live(u)}],
           installed' \in [Nodes -> SUBSET Users],
           excused' \subseteq Nodes, clean' \subseteq Threads,
           ops' \in Nat, faults' \in Nat
    PROVE  TypeOK'
<1>1. UNCHANGED <<people, places, pending, ent, todo, grp, left, request, sweep,
                  marked>>
    BY DEF Return
<1>2. /\ holder' \in [Nodes -> Threads \cup {None}]
      /\ failed' \in [Threads -> BOOLEAN]
      /\ node' \in [Threads -> Nodes \cup {None}]
      /\ gleft' \in [Threads -> SUBSET Groups]
      /\ cur' \in [Threads -> Groups \cup {None}]
      /\ push' \in [Threads -> SUBSET Users]
    BY DEF Return, TypeOK
<1>3. pc' \in [Threads -> {"idle", "create", "patch", "revoke", "delete", "move",
                           "swap", "groups", "nodes", "read", "users", "links"}]
    BY DEF Return, TypeOK
<1>. QED  BY <1>1, <1>2, <1>3, SMTT(30) DEF TypeOK

\* Steps inside.
LEMMA InsideType ==
    ASSUME TypeOK, NEW t \in Threads, Sound(t),
           \/ \E g \in Groups : ReadGroup(t, g) \/ GroupGone(t, g)
           \/ ReadUsers(t) \/ ApplyFails(t) \/ Put(t) \/ PutUnsaved(t)
           \/ PutPartial(t) \/ StoreLinks(t) \/ StoreLinksFails(t)
    PROVE  TypeOK'
<1>1. ASSUME NEW g \in Groups, ReadGroup(t, g) PROVE TypeOK'
    BY <1>1, SMTT(30) DEF TypeOK, ReadGroup
<1>2. ASSUME NEW g \in Groups, GroupGone(t, g) PROVE TypeOK'
    BY <1>2 DEF TypeOK, GroupGone, Return
<1>3. CASE ReadUsers(t)
    BY <1>3 DEF TypeOK, ReadUsers
<1>4. CASE ApplyFails(t)
    <2>1. Return(t, TRUE) /\ UNCHANGED <<agents, excused, clean, ops>>
        BY <1>4 DEF ApplyFails, Fault
    <2>2. faults' \in Nat
        BY <1>4 DEF TypeOK, ApplyFails, Fault
    <2>3. /\ links' \in [Nodes -> SUBSET {u \in Users : Live(u)}]
          /\ installed' \in [Nodes -> SUBSET Users]
          /\ excused' \subseteq Nodes /\ clean' \subseteq Threads /\ ops' \in Nat
        BY <2>1 DEF TypeOK
    <2>. QED  BY <2>1, <2>2, <2>3, ReturnType
<1>5. CASE Put(t)
    BY <1>5 DEF TypeOK, Put
<1>6. CASE PutUnsaved(t)
    <2>1. Return(t, TRUE) /\ UNCHANGED <<links, excused, clean, ops>>
        BY <1>6 DEF PutUnsaved, Fault
    <2>2. faults' \in Nat
        BY <1>6 DEF TypeOK, PutUnsaved, Fault
    <2>3. installed' \in [Nodes -> SUBSET Users]
        BY <1>6 DEF TypeOK, PutUnsaved
    <2>4. /\ links' \in [Nodes -> SUBSET {u \in Users : Live(u)}]
          /\ excused' \subseteq Nodes /\ clean' \subseteq Threads /\ ops' \in Nat
        BY <2>1 DEF TypeOK
    <2>. QED  BY <2>1, <2>2, <2>3, <2>4, ReturnType
<1>7. CASE StoreLinks(t)
    <2>1. links' \in [Nodes -> SUBSET {u \in Users : Live(u)}]
          /\ excused' \subseteq Nodes
        BY <1>7, SMTT(30) DEF TypeOK, StoreLinks
    <2>2. Return(t, FALSE) /\ UNCHANGED <<installed, clean, ops, faults>>
        BY <1>7 DEF StoreLinks
    <2>3. /\ installed' \in [Nodes -> SUBSET Users] /\ clean' \subseteq Threads
          /\ ops' \in Nat /\ faults' \in Nat
        BY <2>2 DEF TypeOK
    <2>. QED  BY <2>1, <2>2, <2>3, ReturnType
<1>8. CASE StoreLinksFails(t)
    <2>1. Return(t, FALSE) /\ UNCHANGED <<agents, clean, ops>>
        BY <1>8 DEF StoreLinksFails, Fault
    <2>2. faults' \in Nat /\ excused' \subseteq Nodes
        BY <1>8 DEF TypeOK, StoreLinksFails, Fault, Sound, Placed, Inside
    <2>3. /\ links' \in [Nodes -> SUBSET {u \in Users : Live(u)}]
          /\ installed' \in [Nodes -> SUBSET Users]
          /\ clean' \subseteq Threads /\ ops' \in Nat
        BY <2>1 DEF TypeOK
    <2>. QED  BY <2>1, <2>2, <2>3, ReturnType
<1>9. CASE PutPartial(t)
    <2>1. PICK us \in {installed[node[t]], push[t], {}} :
               installed' = [installed EXCEPT ![node[t]] = us]
        BY <1>9 DEF PutPartial
    <2>2. node[t] \in Nodes /\ us \subseteq Users
        BY <1>9 DEF TypeOK, PutPartial, Sound, Placed, Inside
    <2>3. installed' \in [Nodes -> SUBSET Users]
        BY <2>1, <2>2 DEF TypeOK
    <2>4. excused' \subseteq Nodes /\ clean' \subseteq Threads
        BY <1>9, <2>2 DEF TypeOK, PutPartial, Excuse
    <2>. QED  BY <1>9, <2>3, <2>4 DEF TypeOK, PutPartial, Fault
<1>. QED  BY <1>1, <1>2, <1>3, <1>4, <1>5, <1>6, <1>7, <1>8, <1>9

LEMMA StartType ==
    ASSUME TypeOK, NEW t \in Threads, Start(t)
    PROVE  TypeOK'
<1>0. \A u \in Users : GroupOf[u] \in Groups
    BY Constants
<1>1. ASSUME NEW g \in Groups, CreateGroup(t, g) PROVE TypeOK'
    BY <1>1 DEF TypeOK, CreateGroup, Request, Stages
<1>2. ASSUME NEW g \in Groups, PatchRead(t, g) PROVE TypeOK'
    BY <1>2 DEF TypeOK, PatchRead, Request
<1>3. ASSUME NEW g \in Groups, DeleteGroup(t, g) PROVE TypeOK'
    BY <1>3 DEF TypeOK, DeleteGroup, Request, Excuse, Stages, NodesOf
<1>4. ASSUME NEW g \in Groups, NEW us \in SUBSET Users, CreateUsers(t, g, us)
      PROVE  TypeOK'
    BY <1>4 DEF TypeOK, CreateUsers, Request
<1>5. ASSUME NEW u \in Users, SetStatus(t, u) PROVE TypeOK'
    BY <1>0, <1>5 DEF TypeOK, SetStatus, Request, ThenApply
<1>6. ASSUME NEW u \in Users, RevokeUser(t, u) PROVE TypeOK'
    BY <1>0, <1>6 DEF TypeOK, RevokeUser, Request
<1>7. ASSUME NEW u \in Users, DeleteUser(t, u) PROVE TypeOK'
    BY <1>0, <1>7 DEF TypeOK, DeleteUser, Request, WithoutLinks
<1>9. ASSUME NEW n \in Nodes, NEW gs \in SUBSET Groups, MoveNode(t, n, gs)
      PROVE  TypeOK'
    BY <1>9 DEF TypeOK, MoveNode, Request
<1>10. ASSUME NEW n \in Nodes, ApplyNode(t, n) PROVE TypeOK'
    BY <1>10 DEF TypeOK, ApplyNode, Request
<1>. QED  BY <1>1, <1>2, <1>3, <1>4, <1>5, <1>6, <1>7, <1>9, <1>10 DEF Start

\* Later steps of requests.
LEMMA RequestType ==
    ASSUME TypeOK, NEW t \in Threads, Sound(t),
           \/ PatchWrite(t) \/ InsertFails(t) \/ InsertOrphan(t) \/ RevokeLinks(t)
           \/ \E u \in Users : InsertUser(t, u) \/ DropUser(t, u) \/ DropUserFails(t, u)
           \/ \E n \in Nodes : MoveCommits(t, n)
    PROVE  TypeOK'
<1>0. pc[t] \in {"patch", "create", "revoke", "delete"} => grp[t] \in Groups
    BY DEF Sound, Tidy
<1>1. CASE PatchWrite(t)
    <2>1. pc[t] = "patch" /\ grp[t] \in Groups
        BY <1>0, <1>1 DEF PatchWrite
    <2>2. open' \subseteq Groups
        BY <1>1, <2>1 DEF TypeOK, PatchWrite
    <2>3. /\ pc' = [pc EXCEPT ![t] = "idle"] \/ pc' = [pc EXCEPT ![t] = "groups"]
          /\ todo' = todo \/ todo' = [todo EXCEPT ![t] = {grp[t]}]
        BY <1>1 DEF PatchWrite, ThenApply
    <2>4. excused' \subseteq Nodes /\ clean' \subseteq Threads
        BY <1>1 DEF TypeOK, PatchWrite, Excuse, NodesOf
    <2>5. /\ grp' = [grp EXCEPT ![t] = None]
          /\ copy' = [copy EXCEPT ![t] = FALSE]
          /\ UNCHANGED <<people, glife, serves, agents, memory, left, failed,
                         applying, more, ids, fresh, sweep, marked, budgets>>
        BY <1>1 DEF PatchWrite
    <2>. QED  BY <2>1, <2>2, <2>3, <2>4, <2>5, SMTT(30) DEF TypeOK
<1>2. CASE InsertFails(t) \/ InsertOrphan(t)
    <2>1. Abandon(t) /\ ops' = ops /\ faults' \in Nat
        BY <1>2 DEF TypeOK, InsertFails, InsertOrphan, Fault
    <2>2. excused' \subseteq Nodes /\ clean' \subseteq Threads
        BY <2>1 DEF TypeOK, Abandon, Excuse, NodesOf
    <2>. QED  BY <2>1, <2>2 DEF TypeOK, Abandon
<1>3. CASE RevokeLinks(t)
    BY <1>0, <1>3 DEF TypeOK, RevokeLinks, WithoutLinks, Fault, ThenApply
<1>4. ASSUME NEW u \in Users, InsertUser(t, u) PROVE TypeOK'
    <2>1. pc[t] = "create" /\ grp[t] \in Groups
        BY <1>0, <1>4 DEF InsertUser
    <2>2. /\ life' \in [Users -> Stages] /\ good' \subseteq Users
          /\ {v \in Users : Live(v)} \subseteq {v \in Users : Live(v)'}
        BY <1>4 DEF TypeOK, InsertUser, Stages
    <2>3. /\ todo' = todo \/ todo' = [todo EXCEPT ![t] = {grp[t]}]
          /\ pc' = pc \/ pc' = [pc EXCEPT ![t] = "groups"]
          /\ grp' = grp \/ grp' = [grp EXCEPT ![t] = None]
        BY <1>4 DEF InsertUser, ThenApply
    <2>4. links' \in [Nodes -> SUBSET {v \in Users : Live(v)'}]
        BY <1>4, <2>2 DEF TypeOK, InsertUser
    <2>5. /\ more' = [more EXCEPT ![t] = @ \ {u}]
          /\ UNCHANGED <<places, agents, memory, left, failed, applying, copy, ids,
                         fresh, sweep, history, budgets>>
        BY <1>4 DEF InsertUser
    <2>6. /\ todo' \in [Threads -> SUBSET Groups]
          /\ grp' \in [Threads -> Groups \cup {None}]
        BY <2>1, <2>3, SMTT(30) DEF TypeOK
    <2>8. more' \in [Threads -> SUBSET Users]
        BY <2>5 DEF TypeOK
    <2>7. pc' \in [Threads -> {"idle", "create", "patch", "revoke", "delete", "move",
                               "swap", "groups", "nodes", "read", "users", "links"}]
        BY <2>3 DEF TypeOK
    <2>. QED  BY <2>2, <2>4, <2>5, <2>6, <2>7, <2>8 DEF TypeOK
<1>5. ASSUME NEW n \in Nodes, MoveCommits(t, n) PROVE TypeOK'
    <2>1. /\ left' \in [Threads -> SUBSET Nodes]
          /\ ids' \in [Threads -> SUBSET Groups]
          /\ fresh' \in [Threads -> SUBSET Groups]
        <3>1. \/ UNCHANGED left /\ UNCHANGED ids
              \/ left' = [left EXCEPT ![t] = {}] /\ ids' = [ids EXCEPT ![t] = {}]
            BY <1>5 DEF MoveCommits
        <3>2. \/ fresh' = [fresh EXCEPT ![t] = {}]
              \/ \E kept : fresh' = [s \in Threads |->
                                       IF s = t THEN {}
                                       ELSE IF pc[s] = "move" /\ n \in left[s]
                                              THEN (fresh[s] \cap kept) \cup ids[t]
                                              ELSE fresh[s]]
            BY <1>5 DEF MoveCommits
        <3>. QED  BY <3>1, <3>2, SMTT(30) DEF TypeOK
    <2>0. serves' \in [Nodes -> SUBSET {g \in Groups : glife[g] = "live"}]
        <3>1. /\ ids[t] \subseteq Groups
              /\ serves[n] \subseteq {g \in Groups : glife[g] = "live"}
            BY DEF TypeOK
        <3>2. CASE UNCHANGED serves
            BY <3>2 DEF TypeOK
        <3>3. CASE \E kept \in SUBSET serves[n] :
                      /\ serves' = [serves EXCEPT ![n] = kept \cup ids[t]]
                      /\ \A g \in ids[t] : glife[g] = "live"
            BY <3>1, <3>3 DEF TypeOK
        <3>. QED  BY <1>5, <3>2, <3>3 DEF MoveCommits
    <2>2. pc' = [pc EXCEPT ![t] = "idle"] \/ pc' = [pc EXCEPT ![t] = "nodes"]
        BY <1>5 DEF MoveCommits
    <2>3. /\ UNCHANGED <<people, glife, open, agents, memory, todo, grp, failed,
                         applying, more, copy, sweep, marked, budgets>>
          /\ excused' \subseteq Nodes /\ clean' \subseteq Threads
        BY <1>5 DEF TypeOK, MoveCommits, Excuse
    <2>4. pc' \in [Threads -> {"idle", "create", "patch", "revoke", "delete", "move",
                               "swap", "groups", "nodes", "read", "users", "links"}]
        BY <2>2 DEF TypeOK
    <2>. QED  BY <2>0, <2>1, <2>3, <2>4 DEF TypeOK
<1>6. ASSUME NEW u \in Users, DropUser(t, u) PROVE TypeOK'
    <2>1. /\ todo' = todo \/ todo' = [todo EXCEPT ![t] = {grp[t]}]
          /\ pc' = [pc EXCEPT ![t] = "idle"] \/ pc' = [pc EXCEPT ![t] = "groups"]
        BY <1>6 DEF DropUser, ThenApply
    <2>2. todo' \in [Threads -> SUBSET Groups]
        BY <1>0, <1>6, <2>1 DEF TypeOK, DropUser
    <2>3. links' \in [Nodes -> SUBSET {v \in Users : Live(v)'}]
        BY <1>6 DEF TypeOK, DropUser, WithoutLinks, Stages
    <2>4. life' \in [Users -> Stages]
        BY <1>6 DEF TypeOK, DropUser, Stages
    <2>. QED  BY <1>6, <2>1, <2>2, <2>3, <2>4 DEF TypeOK, DropUser
<1>7. ASSUME NEW u \in Users, DropUserFails(t, u) PROVE TypeOK'
    BY <1>7 DEF TypeOK, DropUserFails, Fault, Excuse
<1>. QED  BY <1>1, <1>2, <1>3, <1>4, <1>5, <1>6, <1>7

LEMMA SweepType ==
    ASSUME TypeOK, Sweep
    PROVE  TypeOK'
<1>0. Sweeper \in Threads /\ \A u \in Users : GroupOf[u] \in Groups
    BY Constants
<1>1. CASE SweepList
    BY <1>0, <1>1 DEF TypeOK, SweepList
<1>2. CASE SweepSwap
    <2>1. ent' \in [Users -> {"unseen", "yes", "no"}]
        BY <1>2 DEF SweepSwap
    <2>2. todo' \in [Threads -> SUBSET Groups]
        <3>. DEFINE some == {v \in slist : IF ent[v] = "unseen" THEN v \notin sok
                                                             ELSE ent[v] # ent'[v]}
        <3>1. todo' = [todo EXCEPT ![Sweeper] =
                           pending \cup {GroupOf[u] : u \in some}]
            BY <1>2 DEF SweepSwap
        <3>2. some \subseteq Users /\ pending \subseteq Groups
            BY DEF TypeOK
        <3>3. {GroupOf[u] : u \in some} \subseteq Groups
            BY <1>0, <3>2
        <3>. HIDE DEF some
        <3>. QED  BY <3>1, <3>2, <3>3 DEF TypeOK
    <2>. QED  BY <1>0, <1>2, <2>1, <2>2 DEF TypeOK, SweepSwap
<1>. QED  BY <1>1, <1>2 DEF Sweep

LEMMA RestartType ==
    ASSUME TypeOK, RestartPlane
    PROVE  TypeOK'
BY DEF TypeOK, RestartPlane, Fault

-----------------------------------------------------------------------------
(* Shape *)

\* What a step of t leaves to the other threads.
Aside(t) == \A s \in Threads \ {t} :
                /\ pc'[s] = pc[s] /\ todo'[s] = todo[s] /\ grp'[s] = grp[s]
                /\ left'[s] = left[s] /\ failed'[s] = failed[s]
                /\ node'[s] = node[s] /\ gleft'[s] = gleft[s]
                /\ cur'[s] = cur[s] /\ push'[s] = push[s]
                /\ more'[s] = more[s] /\ ids'[s] = ids[s]

LEMMA InitShape == Init => Shape
<1>. SUFFICES ASSUME Init PROVE Shape
    OBVIOUS
<1>1. ASSUME NEW t \in Threads PROVE Sound(t)
    BY DEF Init, Sound, Placed, Reading, Tidy, Single, Inside, Applying
<1>2. ASSUME NEW n \in Nodes PROVE Held(n)
    BY DEF Init, Held
<1>3. Known
    BY Constants DEF Init, Known, Born
<1>. QED  BY <1>1, <1>2, <1>3 DEF Shape

\* Nobody else is inside the same node: a step of t may hurt t only.
LEMMA StepShape ==
    ASSUME TypeOK, Shape, NEW t \in Threads, Aside(t),
           \A n \in Nodes : \/ holder'[n] = holder[n]
                            \/ holder[n] \in {None, t} /\ holder'[n] \in {None, t},
           \A n \in Nodes : installed'[n] = installed[n] \/ holder[n] = t,
           Sound(t)',
           \A n \in Nodes : holder'[n] = t => pc'[t] \in Inside /\ node'[t] = n,
           Known'
    PROVE  Shape'
<1>1. ASSUME NEW s \in Threads \ {t}
      PROVE  Sound(s)'
    <2>1. Sound(s)
        BY DEF Shape
    <2>2. Tidy(s)' /\ Single(s)'
        BY <2>1 DEF Sound, Tidy, Single, Aside
    <2>3. Placed(s)' /\ Reading(s)'
        <3>1. CASE pc[s] \in Inside
            <4>1. node[s] \in Nodes /\ holder[node[s]] = s /\ s # None
                BY <2>1, <3>1, Constants DEF Sound, Placed
            <4>2. holder'[node[s]] = s /\ installed'[node[s]] = installed[node[s]]
                BY <4>1
            <4>. QED  BY <2>1, <3>1, <4>1, <4>2 DEF Sound, Placed, Reading, Aside
        <3>2. CASE pc[s] \notin Inside
            BY <2>1, <3>2 DEF Sound, Placed, Reading, Aside, Inside
        <3>. QED  BY <3>1, <3>2
    <2>. QED  BY <2>2, <2>3 DEF Sound
<1>2. ASSUME NEW n \in Nodes
      PROVE  Held(n)'
    <2>1. CASE holder'[n] \in {None, t}
        BY <2>1 DEF Held
    <2>2. CASE holder'[n] \notin {None, t}
        <3>1. holder'[n] = holder[n] /\ holder[n] \in Threads \ {t}
            BY <2>2 DEF TypeOK
        <3>. QED  BY <2>2, <3>1 DEF Shape, Held, Aside
    <2>. QED  BY <2>1, <2>2
<1>. QED  BY <1>1, <1>2 DEF Shape

\* Steps outside of applyStoredNode.
LEMMA OutsideShape ==
    ASSUME TypeOK, Shape, NEW t \in Threads, Aside(t),
           pc[t] \notin Inside, pc'[t] \notin Inside,
           UNCHANGED <<installed, holder, node, gleft, cur, push>>,
           Tidy(t)', Single(t)', Known'
    PROVE  Shape'
<1>1. Sound(t)
    BY DEF Shape
<1>2. Placed(t)' /\ Reading(t)'
    BY <1>1 DEF Sound, Placed, Reading, Inside
<1>3. \A n \in Nodes : holder[n] # t
    BY Constants DEF Shape, Held
<1>. QED  BY <1>2, <1>3, StepShape DEF Sound

\* Tables that only grow older keep Known.
LEMMA KnownFrame ==
    ASSUME Known, UNCHANGED <<people, glife, installed>>,
           \A s \in Threads : push'[s] \subseteq push[s]
    PROVE  Known'
BY DEF Known, Born

\* applyGroupNodes, outside of applyStoredNode.
LEMMA GroupShape ==
    ASSUME TypeOK, Shape, NEW t \in Threads,
           \/ \E g \in Groups : NextGroup(t, g) \/ NextGroupFails(t, g)
           \/ \E n \in Nodes : NextNodeFails(t, n) \/ NodeUnread(t, n) \/ NoGroups(t, n)
           \/ EndGroup(t) \/ EndNode(t) \/ EndApply(t)
    PROVE  Shape' /\ Aside(t)
<1>0. Sound(t) /\ None \notin Groups
    BY Constants DEF Shape
<1>1. /\ pc[t] \in {"groups", "nodes"}
      /\ UNCHANGED <<people, places, agents, holder, node, gleft, cur, push, more>>
    BY DEF NextGroup, NextGroupFails, NextNodeFails, NodeUnread, NoGroups, EndGroup,
           EndNode, EndApply
<1>2. Known'
    BY <1>1, KnownFrame DEF Shape
<1>3. ASSUME NEW g \in Groups, NextGroup(t, g)
      PROVE  Aside(t) /\ pc'[t] = "nodes" /\ Tidy(t)' /\ Single(t)'
    <2>1. Aside(t) /\ pc'[t] = "nodes" /\ grp'[t] = g /\ ids'[t] = {}
        BY <1>0, <1>3 DEF NextGroup, TypeOK, Aside, Sound, Tidy, Applying, Inside
    <2>. QED  BY <1>0, <2>1 DEF Tidy, Single, Applying, Inside
<1>4. ASSUME NEW g \in Groups, NextGroupFails(t, g)
      PROVE  Aside(t) /\ pc'[t] = "groups" /\ Tidy(t)' /\ Single(t)'
    <2>1. /\ pc[t] = "groups" /\ UNCHANGED <<pc, grp, left, failed, ids>>
          /\ todo' = [todo EXCEPT ![t] = @ \ {g}]
        BY <1>4 DEF NextGroupFails
    <2>. QED  BY <1>0, <1>1, <2>1
              DEF TypeOK, Aside, Sound, Tidy, Single, Applying, Inside
<1>5. ASSUME NEW n \in Nodes, NextNodeFails(t, n)
      PROVE  Aside(t) /\ pc'[t] = "nodes" /\ Tidy(t)' /\ Single(t)'
    <2>1. /\ pc[t] = "nodes" /\ UNCHANGED <<pc, grp, todo, ids>> /\ n \in left[t]
          /\ left' = [left EXCEPT ![t] = @ \ {n}]
          /\ failed' = [failed EXCEPT ![t] = TRUE] /\ grp[t] # None
        BY <1>5 DEF NextNodeFails
    <2>. QED  BY <1>0, <1>1, <2>1
              DEF TypeOK, Aside, Sound, Tidy, Single, Applying, Inside
<1>10. ASSUME NEW n \in Nodes, NodeUnread(t, n)
      PROVE  Aside(t) /\ pc'[t] = "nodes" /\ Tidy(t)' /\ Single(t)'
    <2>1. /\ pc[t] = "nodes" /\ UNCHANGED <<pc, grp, todo, failed, ids>>
          /\ n \in left[t] /\ left' = [left EXCEPT ![t] = @ \ {n}]
        BY <1>10 DEF NodeUnread
    <2>. QED  BY <1>0, <1>1, <2>1
              DEF TypeOK, Aside, Sound, Tidy, Single, Applying, Inside
<1>6. ASSUME NEW n \in Nodes, NoGroups(t, n)
      PROVE  Aside(t) /\ pc'[t] = "nodes" /\ Tidy(t)' /\ Single(t)'
    <2>1. /\ pc[t] = "nodes" /\ UNCHANGED <<pc, grp, todo, ids>> /\ n \in left[t]
          /\ left' = [left EXCEPT ![t] = @ \ {n}]
          /\ failed' = [failed EXCEPT ![t] = TRUE]
        BY <1>6 DEF NoGroups
    <2>. QED  BY <1>0, <1>1, <2>1
              DEF TypeOK, Aside, Sound, Tidy, Single, Applying, Inside
<1>7. ASSUME EndGroup(t) \/ EndNode(t)
      PROVE  Aside(t) /\ pc'[t] = "groups" /\ Tidy(t)' /\ Single(t)'
    <2>1. /\ pc[t] = "nodes" /\ pc' = [pc EXCEPT ![t] = "groups"]
          /\ left[t] = {} /\ UNCHANGED <<left, todo>>
          /\ failed' = [failed EXCEPT ![t] = FALSE]
        BY <1>7 DEF EndGroup, EndNode
    <2>2. \/ grp' = [grp EXCEPT ![t] = None] /\ UNCHANGED ids /\ ids[t] = {}
          \/ ids' = [ids EXCEPT ![t] = {}] /\ UNCHANGED grp /\ grp[t] = None
        BY <1>0, <1>7 DEF EndGroup, EndNode, Sound, Tidy
    <2>3. /\ pc'[t] = "groups" /\ grp'[t] = None /\ ids'[t] = {} /\ left'[t] = {}
          /\ ~failed'[t]
        BY <2>1, <2>2 DEF TypeOK
    <2>4. Aside(t)
        BY <1>1, <2>1, <2>2 DEF TypeOK, Aside
    <2>. QED  BY <2>3, <2>4 DEF Tidy, Single, Applying, Inside
<1>8. ASSUME EndApply(t)
      PROVE  Aside(t) /\ pc'[t] = "idle" /\ Tidy(t)' /\ Single(t)'
    <2>1. /\ pc[t] = "groups" /\ pc' = [pc EXCEPT ![t] = "idle"] /\ todo[t] = {}
          /\ UNCHANGED <<left, todo, failed, grp, ids>>
        BY <1>8 DEF EndApply
    <2>. QED  BY <1>0, <1>1, <2>1
              DEF TypeOK, Aside, Sound, Tidy, Single, Applying, Inside
<1>9. /\ Aside(t) /\ pc[t] \notin Inside /\ pc'[t] \notin Inside
      /\ Tidy(t)' /\ Single(t)'
    BY <1>1, <1>3, <1>4, <1>5, <1>6, <1>7, <1>8, <1>10 DEF Inside
<1>. QED  BY <1>1, <1>2, <1>9, OutsideShape

LEMMA LockShape ==
    ASSUME TypeOK, Shape, NEW t \in Threads, NEW n \in Nodes, Lock(t, n)
    PROVE  Shape' /\ Aside(t)
<1>0. Sound(t) /\ t # None
    BY Constants DEF Shape
<1>1. /\ pc[t] = "nodes" /\ n \in left[t] /\ holder[n] = None
      /\ pc' = [pc EXCEPT ![t] = "read"] /\ left' = [left EXCEPT ![t] = @ \ {n}]
      /\ node' = [node EXCEPT ![t] = n] /\ holder' = [holder EXCEPT ![n] = t]
      /\ gleft' = [gleft EXCEPT ![t] = serves[n]]
      /\ UNCHANGED <<people, places, agents, todo, grp, failed, cur, push, more, ids>>
    BY DEF Lock
<1>2. Known'
    BY <1>1, KnownFrame DEF Shape
<1>3. Aside(t)
    BY <1>1 DEF TypeOK, Aside
<1>4. /\ pc'[t] = "read" /\ node'[t] = n /\ holder'[n] = t
      /\ left'[t] = left[t] \ {n}
    BY <1>1 DEF TypeOK
<1>5. Placed(t)' /\ Reading(t)' /\ Tidy(t)'
    BY <1>0, <1>1, <1>4 DEF Sound, Placed, Reading, Tidy, Inside, Applying
<1>6. Single(t)'
    BY <1>0, <1>1, <1>4 DEF Sound, Single, Inside
<1>7. \A m \in Nodes : holder[m] # t
    BY <1>0, <1>1 DEF Shape, Held, Inside
<1>8. \A m \in Nodes : holder'[m] = IF m = n THEN t ELSE holder[m]
    BY <1>1 DEF TypeOK
<1>. QED  BY <1>1, <1>2, <1>3, <1>4, <1>5, <1>6, <1>7, <1>8, StepShape
          DEF Sound, Inside

LEMMA ReadShape ==
    ASSUME TypeOK, Shape, NEW t \in Threads,
           \/ \E g \in Groups : ReadGroup(t, g)
           \/ ReadUsers(t) \/ Put(t) \/ PutPartial(t)
    PROVE  Shape' /\ Aside(t)
<1>0. Sound(t) /\ t # None /\ None \notin Groups
    BY Constants DEF Shape
<1>1. /\ pc[t] \in {"read", "users"} /\ node[t] \in Nodes /\ holder[node[t]] = t
      /\ UNCHANGED <<people, places, links, memory, todo, grouping, node, more, ids>>
    BY <1>0 DEF ReadGroup, ReadUsers, Put, PutPartial, Sound, Placed, Inside
<1>2. \A m \in Nodes : holder[m] = t => m = node[t]
    BY <1>0 DEF Shape, Held
<1>3. ASSUME NEW g \in Groups, ReadGroup(t, g)
      PROVE  Shape' /\ Aside(t)
    <2>1. /\ pc'[t] \in {"read", "users"}
          /\ cur'[t] # None <=> pc'[t] = "users"
          /\ UNCHANGED <<installed, push>>
        BY <1>0, <1>3 DEF ReadGroup, TypeOK, Sound, Reading
    <2>2. Aside(t)
        BY <1>3 DEF ReadGroup, TypeOK, Aside
    <2>3. Sound(t)'
        BY <1>0, <1>1, <2>1
           DEF Sound, Placed, Reading, Tidy, Single, Inside, Applying
    <2>4. Known'
        BY <1>1, <2>1, KnownFrame DEF Shape
    <2>. QED  BY <1>1, <1>2, <2>1, <2>2, <2>3, <2>4, StepShape DEF Inside
<1>4. ASSUME ReadUsers(t)
      PROVE  Shape' /\ Aside(t)
    <2>1. /\ pc'[t] = "read" /\ cur'[t] = None /\ UNCHANGED installed
          /\ push'[t] \subseteq push[t] \cup {u \in Users : Live(u)}
        BY <1>4 DEF ReadUsers, TypeOK
    <2>2. Aside(t)
        BY <1>4 DEF ReadUsers, TypeOK, Aside
    <2>3. Sound(t)'
        BY <1>0, <1>1, <2>1
           DEF Sound, Placed, Reading, Tidy, Single, Inside, Applying
    <2>4. Known'
        BY <1>1, <2>1, <2>2 DEF Shape, Known, Born, Aside
    <2>. QED  BY <1>1, <1>2, <2>1, <2>2, <2>3, <2>4, StepShape DEF Inside
<1>5. ASSUME Put(t) \/ PutPartial(t)
      PROVE  Shape' /\ Aside(t)
    <2>0. PICK us \in {installed[node[t]], push[t], {}} :
               installed' = [installed EXCEPT ![node[t]] = us]
        BY <1>5 DEF Put, PutPartial
    <2>1. /\ pc[t] = "read" /\ gleft[t] = {} /\ pc'[t] = "links"
          /\ UNCHANGED <<gleft, cur>>
          /\ push' = push \/ push' = [push EXCEPT ![t] = {}]
        BY <1>5 DEF Put, PutPartial, TypeOK
    <2>2. Aside(t)
        BY <1>5 DEF Put, PutPartial, TypeOK, Aside
    <2>3. Sound(t)'
        BY <1>0, <1>1, <2>1
           DEF Sound, Placed, Reading, Tidy, Single, Inside, Applying
    <2>4. Known'
        BY <1>1, <2>0, <2>1 DEF TypeOK, Shape, Known, Born
    <2>5. \A m \in Nodes : installed'[m] = installed[m] \/ holder[m] = t
        BY <1>1, <2>0 DEF TypeOK
    <2>. QED  BY <1>1, <1>2, <2>1, <2>2, <2>3, <2>4, <2>5, StepShape DEF Inside
<1>. QED  BY <1>3, <1>4, <1>5

\* However applyStoredNode returns.
LEMMA ReturnShape ==
    ASSUME TypeOK, Shape, NEW t \in Threads, NEW err \in BOOLEAN,
           pc[t] \in Inside, Return(t, err),
           \/ UNCHANGED installed
           \/ installed' = [installed EXCEPT ![node[t]] = push[t]]
    PROVE  Shape' /\ Aside(t)
<1>0. Sound(t) /\ t # None
    BY Constants DEF Shape
<1>1. /\ holder' = [holder EXCEPT ![node[t]] = None]
      /\ failed' = [failed EXCEPT ![t] = @ \/ err]
      /\ node' = [node EXCEPT ![t] = None] /\ gleft' = [gleft EXCEPT ![t] = {}]
      /\ cur' = [cur EXCEPT ![t] = None] /\ push' = [push EXCEPT ![t] = {}]
      /\ pc' = [pc EXCEPT ![t] = "nodes"]
      /\ UNCHANGED <<people, places, todo, grp, left, more, ids>>
    BY DEF Return
<1>2. node[t] \in Nodes /\ holder[node[t]] = t
    BY <1>0 DEF Sound, Placed
<1>3. \A m \in Nodes : holder[m] = t => m = node[t]
    BY <1>0 DEF Shape, Held
<1>4. Aside(t)
    BY <1>1 DEF TypeOK, Aside
<1>5. /\ pc'[t] = "nodes" /\ node'[t] = None /\ push'[t] = {} /\ gleft'[t] = {}
      /\ cur'[t] = None
    BY <1>1 DEF TypeOK
<1>6. Sound(t)'
    BY <1>0, <1>1, <1>5 DEF Sound, Placed, Reading, Tidy, Single, Inside, Applying
<1>7. \A m \in Nodes : holder'[m] = IF m = node[t] THEN None ELSE holder[m]
    BY <1>1 DEF TypeOK
<1>8. \A m \in Nodes : installed'[m] = installed[m] \/ m = node[t]
    BY DEF TypeOK
<1>9. Known'
    <2>1. \A m \in Nodes : installed'[m] \subseteq installed[m] \cup push[t]
        BY DEF TypeOK
    <2>2. \A s \in Threads : push'[s] \subseteq push[s]
        BY <1>1 DEF TypeOK
    <2>. QED  BY <1>1, <2>1, <2>2 DEF Shape, Known, Born
<1>10. \A m \in Nodes : holder'[m] # t
    BY <1>0, <1>3, <1>7
<1>11. \A m \in Nodes : \/ holder'[m] = holder[m]
                        \/ holder[m] \in {None, t} /\ holder'[m] \in {None, t}
    BY <1>2, <1>7
<1>12. \A m \in Nodes : installed'[m] = installed[m] \/ holder[m] = t
    BY <1>2, <1>8
<1>. QED  BY <1>4, <1>6, <1>9, <1>10, <1>11, <1>12, StepShape

Returning(t) ==
    \/ \E g \in Groups : GroupGone(t, g)
    \/ ApplyFails(t) \/ PutUnsaved(t) \/ StoreLinks(t) \/ StoreLinksFails(t)

LEMMA ReturningShape ==
    ASSUME TypeOK, Shape, NEW t \in Threads, Returning(t)
    PROVE  /\ Shape' /\ Aside(t)
           /\ pc[t] \in Inside /\ \E err \in BOOLEAN : Return(t, err)
<1>1. pc[t] \in Inside
    BY DEF Returning, GroupGone, ApplyFails, PutUnsaved, StoreLinks, StoreLinksFails,
           Inside
<1>2. PICK err \in BOOLEAN : Return(t, err)
    BY DEF Returning, GroupGone, ApplyFails, PutUnsaved, StoreLinks, StoreLinksFails
<1>3. \/ UNCHANGED installed
      \/ installed' = [installed EXCEPT ![node[t]] = push[t]]
    BY DEF Returning, GroupGone, ApplyFails, PutUnsaved, StoreLinks, StoreLinksFails
<1>. QED  BY <1>1, <1>2, <1>3, ReturnShape

\* What a new request leaves to its thread.
LEMMA StartSound ==
    ASSUME TypeOK, Shape, NEW t \in Threads, Start(t)
    PROVE  /\ Aside(t) /\ pc[t] = "idle"
           /\ pc'[t] \in {"idle", "patch", "create", "groups", "revoke", "delete",
                          "move", "nodes"}
           /\ UNCHANGED <<installed, memory, node, gleft, cur, push, failed>>
           /\ Tidy(t)' /\ Single(t)'
<1>0. Sound(t) /\ None \notin Groups /\ \A u \in Users : GroupOf[u] \in Groups
    BY Constants DEF Shape
<1>1. pc[t] = "idle" => /\ grp[t] = None /\ ~failed[t] /\ todo[t] = {}
                        /\ left[t] = {} /\ ids[t] = {}
    BY <1>0 DEF Sound, Tidy, Applying, Inside
<1>. DEFINE Fine == /\ Aside(t) /\ pc[t] = "idle"
                    /\ pc'[t] \in {"idle", "patch", "create", "groups", "revoke",
                                   "delete", "move", "nodes"}
                    /\ UNCHANGED <<installed, memory, node, gleft, cur, push, failed>>
                    /\ Tidy(t)' /\ Single(t)'
<1>2. ASSUME NEW g \in Groups, CreateGroup(t, g) \/ DeleteGroup(t, g)
      PROVE  Fine
    <2>1. /\ pc[t] = "idle"
          /\ UNCHANGED <<installed, memory, pc, todo, grouping, applying, request>>
        BY <1>2 DEF CreateGroup, DeleteGroup, Request
    <2>. QED  BY <1>1, <2>1 DEF Aside, Tidy, Single, Applying, Inside
<1>3. ASSUME NEW g \in Groups, PatchRead(t, g)
      PROVE  Fine
    <2>1. /\ pc[t] = "idle" /\ pc' = [pc EXCEPT ![t] = "patch"]
          /\ grp' = [grp EXCEPT ![t] = g]
          /\ UNCHANGED <<installed, memory, applying, todo, left, failed, more, ids>>
        BY <1>3 DEF PatchRead, Request
    <2>2. Aside(t) /\ pc'[t] = "patch" /\ grp'[t] = g
        BY <2>1 DEF TypeOK, Aside
    <2>. QED  BY <1>0, <1>1, <2>1, <2>2 DEF Tidy, Single, Applying, Inside
<1>4. ASSUME NEW g \in Groups, NEW us \in SUBSET Users, CreateUsers(t, g, us)
      PROVE  Fine
    <2>1. /\ pc[t] = "idle" /\ pc' = [pc EXCEPT ![t] = "create"]
          /\ grp' = [grp EXCEPT ![t] = g] /\ more' = [more EXCEPT ![t] = us]
          /\ \A u \in us : GroupOf[u] = g
          /\ UNCHANGED <<installed, memory, applying, todo, left, failed, ids>>
        BY <1>4 DEF CreateUsers, Request
    <2>2. Aside(t) /\ pc'[t] = "create" /\ grp'[t] = g /\ more'[t] = us
        BY <2>1 DEF TypeOK, Aside
    <2>. QED  BY <1>0, <1>1, <2>1, <2>2 DEF Tidy, Single, Applying, Inside
<1>5. ASSUME NEW u \in Users, SetStatus(t, u)
      PROVE  Fine
    <2>1. /\ pc[t] = "idle" /\ pc' = [pc EXCEPT ![t] = "groups"]
          /\ todo' = [todo EXCEPT ![t] = {GroupOf[u]}]
          /\ UNCHANGED <<installed, memory, applying, grp, left, failed, more, ids>>
        BY <1>5 DEF SetStatus, Request, ThenApply
    <2>2. Aside(t) /\ pc'[t] = "groups"
        BY <2>1 DEF TypeOK, Aside
    <2>. QED  BY <1>0, <1>1, <2>1, <2>2 DEF Tidy, Single, Applying, Inside
<1>6. ASSUME NEW u \in Users, RevokeUser(t, u) \/ DeleteUser(t, u)
      PROVE  Fine
    <2>1. /\ pc[t] = "idle"
          /\ pc' = [pc EXCEPT ![t] = "revoke"] \/ pc' = [pc EXCEPT ![t] = "delete"]
          /\ grp' = [grp EXCEPT ![t] = GroupOf[u]] /\ more' = [more EXCEPT ![t] = {u}]
          /\ UNCHANGED <<installed, memory, applying, todo, left, failed, ids>>
        BY <1>6 DEF RevokeUser, DeleteUser, Request
    <2>2. Aside(t) /\ pc'[t] \in {"revoke", "delete"} /\ grp'[t] = GroupOf[u] /\ more'[t] = {u}
        BY <2>1 DEF TypeOK, Aside
    <2>. QED  BY <1>0, <1>1, <2>1, <2>2 DEF Tidy, Single, Applying, Inside
<1>8. ASSUME NEW n \in Nodes, NEW gs \in SUBSET Groups, MoveNode(t, n, gs)
      PROVE  Fine
    <2>1. /\ pc[t] = "idle" /\ pc' = [pc EXCEPT ![t] = "move"]
          /\ left' = [left EXCEPT ![t] = {n}] /\ ids' = [ids EXCEPT ![t] = gs]
          /\ UNCHANGED <<installed, memory, applying, todo, grp, failed, more>>
        BY <1>8 DEF MoveNode, Request
    <2>2. Aside(t) /\ pc'[t] = "move" /\ left'[t] = {n}
        BY <2>1 DEF TypeOK, Aside
    <2>. QED  BY <1>0, <1>1, <2>1, <2>2 DEF Tidy, Single, Applying, Inside
<1>9. ASSUME NEW n \in Nodes, ApplyNode(t, n)
      PROVE  Fine
    <2>1. /\ pc[t] = "idle" /\ pc' = [pc EXCEPT ![t] = "nodes"]
          /\ left' = [left EXCEPT ![t] = {n}]
          /\ UNCHANGED <<installed, memory, applying, todo, grp, failed, more, ids>>
        BY <1>9 DEF ApplyNode, Request
    <2>2. Aside(t) /\ pc'[t] = "nodes" /\ left'[t] = {n}
        BY <2>1 DEF TypeOK, Aside
    <2>. QED  BY <1>0, <1>1, <2>1, <2>2 DEF Tidy, Single, Applying, Inside
<1>. HIDE DEF Fine
<1>10. Fine
    BY <1>2, <1>3, <1>4, <1>5, <1>6, <1>8, <1>9 DEF Start
<1>. QED  BY <1>10 DEF Fine

LEMMA StartKnown ==
    ASSUME TypeOK, Known, NEW t \in Threads, Start(t)
    PROVE  Known'
<1>1. ASSUME NEW g \in Groups, CreateGroup(t, g) PROVE Known'
    BY <1>1, Constants DEF CreateGroup, TypeOK, Known, Born
<1>2. ASSUME NEW g \in Groups, DeleteGroup(t, g) PROVE Known'
    BY <1>2, Constants DEF DeleteGroup, TypeOK, Known, Born
<1>4. ASSUME UNCHANGED <<life, glife, installed, push>> PROVE Known'
    BY <1>4 DEF Known, Born
<1>. QED  BY <1>1, <1>2, <1>4
          DEF Start, PatchRead, CreateUsers, SetStatus, RevokeUser, DeleteUser,
              MoveNode, ApplyNode

LEMMA StartShape ==
    ASSUME TypeOK, Shape, NEW t \in Threads, Start(t)
    PROVE  Shape' /\ Aside(t)
BY StartSound, StartKnown, OutsideShape DEF Shape, Inside

\* The later steps of requests.
Continue(t) ==
    \/ PatchWrite(t) \/ InsertFails(t) \/ InsertOrphan(t) \/ RevokeLinks(t)
    \/ \E u \in Users : InsertUser(t, u) \/ DropUser(t, u) \/ DropUserFails(t, u)
    \/ \E n \in Nodes : MoveCommits(t, n)

LEMMA ContinueSound ==
    ASSUME TypeOK, Shape, NEW t \in Threads, Continue(t)
    PROVE  /\ Aside(t) /\ pc[t] \in {"patch", "create", "revoke", "delete", "move"}
           /\ pc'[t] \in {"idle", "create", "groups", "nodes"}
           /\ UNCHANGED <<installed, memory, node, gleft, cur, push, failed>>
           /\ Tidy(t)' /\ Single(t)'
<1>0. Sound(t) /\ None \notin Groups
    BY Constants DEF Shape
<1>1. /\ ~failed[t] \/ pc[t] \in Applying
      /\ todo[t] = {} \/ pc[t] \in Applying \cup {"groups"}
      /\ (left[t] = {} /\ ids[t] = {}) \/ pc[t] \in Applying \cup {"move"}
      /\ pc[t] = "move" => grp[t] = None
      /\ pc[t] = "create" =>
             grp[t] \in Groups /\ \A u \in more[t] : GroupOf[u] = grp[t]
    BY <1>0 DEF Sound, Tidy
<1>. DEFINE Fine == /\ Aside(t)
                    /\ pc[t] \in {"patch", "create", "revoke", "delete", "move"}
                    /\ pc'[t] \in {"idle", "create", "groups", "nodes"}
                    /\ UNCHANGED <<installed, memory, node, gleft, cur, push, failed>>
                    /\ Tidy(t)' /\ Single(t)'
<1>2. ASSUME \/ PatchWrite(t) \/ RevokeLinks(t)
             \/ \E u \in Users : DropUser(t, u) \/ DropUserFails(t, u)
      PROVE  Fine
    <2>1. /\ pc[t] \in {"patch", "revoke", "delete"} /\ grp' = [grp EXCEPT ![t] = None]
          /\ UNCHANGED <<installed, memory, applying, left, failed, ids>>
        BY <1>2 DEF PatchWrite, RevokeLinks, DropUser, DropUserFails
    <2>2. \/ pc' = [pc EXCEPT ![t] = "idle"] /\ UNCHANGED todo
          \/ pc' = [pc EXCEPT ![t] = "groups"] /\ todo' = [todo EXCEPT ![t] = {grp[t]}]
        BY <1>2 DEF PatchWrite, RevokeLinks, DropUser, DropUserFails, ThenApply
    <2>3. more' = more \/ more' = [more EXCEPT ![t] = {}]
        BY <1>2 DEF PatchWrite, RevokeLinks, DropUser, DropUserFails
    <2>4. Aside(t)
        BY <2>1, <2>2, <2>3 DEF TypeOK, Aside
    <2>5. grp'[t] = None /\ pc'[t] \in {"idle", "groups"}
          /\ (pc'[t] = "idle" => UNCHANGED todo)
        BY <2>1, <2>2 DEF TypeOK
    <2>. QED  BY <1>1, <2>1, <2>4, <2>5 DEF Tidy, Single, Applying, Inside
<1>3. ASSUME InsertFails(t) \/ InsertOrphan(t)
      PROVE  Fine
    <2>1. /\ pc[t] = "create" /\ pc' = [pc EXCEPT ![t] = "idle"]
          /\ grp' = [grp EXCEPT ![t] = None] /\ more' = [more EXCEPT ![t] = {}]
          /\ UNCHANGED <<installed, memory, applying, todo, left, failed, ids>>
        BY <1>3 DEF InsertFails, InsertOrphan, Abandon
    <2>2. Aside(t) /\ pc'[t] = "idle" /\ grp'[t] = None
        BY <2>1 DEF TypeOK, Aside
    <2>. QED  BY <1>1, <2>1, <2>2 DEF Tidy, Single, Applying, Inside
<1>4. ASSUME NEW u \in Users, InsertUser(t, u)
      PROVE  Fine
    <2>1. /\ pc[t] = "create" /\ more' = [more EXCEPT ![t] = @ \ {u}]
          /\ UNCHANGED <<installed, memory, applying, left, failed, ids>>
        BY <1>4 DEF InsertUser
    <2>2. \/ /\ pc' = [pc EXCEPT ![t] = "groups"]
             /\ todo' = [todo EXCEPT ![t] = {grp[t]}]
             /\ grp' = [grp EXCEPT ![t] = None]
          \/ UNCHANGED <<todo, pc, grp>>
        BY <1>4 DEF InsertUser, ThenApply
    <2>3. Aside(t) /\ more'[t] = more[t] \ {u}
        BY <2>1, <2>2 DEF TypeOK, Aside
    <2>4. CASE UNCHANGED <<todo, pc, grp>>
        BY <1>0, <1>1, <2>1, <2>3, <2>4 DEF Tidy, Single, Applying, Inside
    <2>5. CASE pc' = [pc EXCEPT ![t] = "groups"] /\ grp' = [grp EXCEPT ![t] = None]
        <3>1. pc'[t] = "groups" /\ grp'[t] = None
            BY <2>5 DEF TypeOK
        <3>. QED  BY <1>1, <2>1, <2>3, <3>1 DEF Tidy, Single, Applying, Inside
    <2>. QED  BY <2>2, <2>4, <2>5
<1>5. ASSUME NEW n \in Nodes, MoveCommits(t, n)
      PROVE  Fine
    <2>1. /\ pc[t] = "move" /\ n \in left[t]
          /\ UNCHANGED <<installed, memory, applying, todo, grp, failed, more>>
        BY <1>5 DEF MoveCommits
    <2>2. \/ pc' = [pc EXCEPT ![t] = "nodes"] /\ UNCHANGED <<left, ids>>
          \/ /\ pc' = [pc EXCEPT ![t] = "idle"]
             /\ left' = [left EXCEPT ![t] = {}] /\ ids' = [ids EXCEPT ![t] = {}]
        BY <1>5 DEF MoveCommits
    <2>3. Aside(t)
        BY <2>1, <2>2 DEF TypeOK, Aside
    <2>4. \/ pc'[t] = "nodes" /\ UNCHANGED <<left, ids>>
          \/ pc'[t] = "idle" /\ left'[t] = {} /\ ids'[t] = {}
        BY <2>2 DEF TypeOK
    <2>. QED  BY <1>0, <1>1, <2>1, <2>3, <2>4
              DEF Sound, Tidy, Single, Applying, Inside
<1>. HIDE DEF Fine
<1>6. Fine
    BY <1>2, <1>3, <1>4, <1>5 DEF Continue
<1>. QED  BY <1>6 DEF Fine

LEMMA ContinueShape ==
    ASSUME TypeOK, Shape, NEW t \in Threads, Continue(t)
    PROVE  Shape' /\ Aside(t)
<1>1. ASSUME NEW u \in Users, InsertUser(t, u)
      PROVE  Known'
    <2>1. pc[t] = "create" /\ u \in more[t] /\ glife[grp[t]] = "live"
          /\ UNCHANGED <<glife, installed, push>>
          /\ life' = [life EXCEPT ![u] = "live"]
        BY <1>1 DEF InsertUser
    <2>2. GroupOf[u] = grp[t]
        BY <2>1 DEF Shape, Sound, Tidy
    <2>. QED  BY <2>1, <2>2 DEF TypeOK, Shape, Known, Born
<1>2. ASSUME UNCHANGED <<people, glife, installed, push>>
      PROVE  Known'
    BY <1>2 DEF Shape, Known, Born
<1>4. ASSUME NEW u \in Users, DropUser(t, u)
      PROVE  Known'
    BY <1>4 DEF DropUser, TypeOK, Shape, Known, Born
<1>3. Known'
    BY <1>1, <1>2, <1>4 DEF Continue, PatchWrite, InsertFails, InsertOrphan, Abandon,
                      RevokeLinks, DropUserFails, MoveCommits
<1>. QED  BY <1>3, ContinueSound, OutsideShape DEF Inside

LEMMA SweepShape ==
    ASSUME TypeOK, Shape, Sweep
    PROVE  Shape' /\ Aside(Sweeper)
<1>0. Sweeper \in Threads /\ Sound(Sweeper)
    BY Constants DEF Shape
<1>1. /\ pc[Sweeper] \in {"idle", "swap"}
      /\ \/ pc' = [pc EXCEPT ![Sweeper] = "swap"] /\ UNCHANGED todo /\ pc[Sweeper] = "idle"
         \/ /\ pc' = [pc EXCEPT ![Sweeper] = "groups"]
            /\ \E gs : todo' = [todo EXCEPT ![Sweeper] = gs]
      /\ UNCHANGED <<people, places, agents, pending, holder, grouping, applying,
                     request>>
    BY DEF Sweep, SweepList, SweepSwap
<1>2. /\ Aside(Sweeper) /\ pc'[Sweeper] \in {"swap", "groups"}
      /\ pc'[Sweeper] = "swap" => pc[Sweeper] = "idle" /\ UNCHANGED todo
    BY <1>0, <1>1 DEF TypeOK, Aside
<1>3. Known'
    BY <1>1, KnownFrame DEF Shape
<1>4. Tidy(Sweeper)' /\ Single(Sweeper)'
    BY <1>0, <1>1, <1>2 DEF Sound, Tidy, Single, Applying, Inside
<1>. QED  BY <1>0, <1>1, <1>2, <1>3, <1>4, OutsideShape DEF Inside

LEMMA RestartShape ==
    ASSUME TypeOK, Shape, RestartPlane
    PROVE  Shape'
<1>1. ASSUME NEW t \in Threads PROVE Sound(t)'
    BY DEF RestartPlane, Sound, Placed, Reading, Tidy, Single, Inside, Applying
<1>2. ASSUME NEW n \in Nodes PROVE Held(n)'
    BY DEF RestartPlane, Held
<1>3. Known'
    BY DEF RestartPlane, Shape, Known, Born
<1>. QED  BY <1>1, <1>2, <1>3 DEF Shape

\* Every step of a thread, by what it has to do with applyStoredNode.
LEMMA Steps ==
    ASSUME NEW t \in Threads, Step(t)
    PROVE  \/ Continue(t)
           \/ \E g \in Groups : NextGroup(t, g) \/ NextGroupFails(t, g)
           \/ \E n \in Nodes : NextNodeFails(t, n) \/ NodeUnread(t, n) \/ NoGroups(t, n)
           \/ EndGroup(t) \/ EndNode(t) \/ EndApply(t)
           \/ \E n \in Nodes : Lock(t, n)
           \/ \E g \in Groups : ReadGroup(t, g)
           \/ ReadUsers(t) \/ Put(t) \/ PutPartial(t)
           \/ Returning(t)
BY DEF Step, Continue, Returning

LEMMA StepType ==
    ASSUME TypeOK, NEW t \in Threads, Sound(t), Step(t)
    PROVE  TypeOK'
BY Steps, GroupType, InsideType, RequestType DEF Returning, Continue

LEMMA NextShape ==
    ASSUME TypeOK, Shape, [Next]_vars
    PROVE  TypeOK' /\ Shape'
<1>1. ASSUME NEW t \in Threads, Start(t) PROVE TypeOK' /\ Shape'
    BY <1>1, StartType, StartShape
<1>2. ASSUME NEW t \in Threads, Step(t) PROVE TypeOK' /\ Shape'
    <2>1. TypeOK'
        BY <1>2, StepType DEF Shape
    <2>2. Shape'
        BY <1>2, Steps, ContinueShape, GroupShape, LockShape, ReadShape,
           ReturningShape
    <2>. QED  BY <2>1, <2>2
<1>3. CASE Sweep
    BY <1>3, SweepType, SweepShape
<1>4. CASE RestartPlane
    BY <1>4, RestartType, RestartShape
<1>5. CASE UNCHANGED vars
    <2>1. TypeOK'
        BY <1>5 DEF vars, TypeOK
    <2>2. Known' /\ \A n \in Nodes : Held(n)'
        BY <1>5 DEF vars, Shape, Held, Known, Born
    <2>3. \A t \in Threads : Sound(t)'
        BY <1>5 DEF vars, Shape, Sound, Placed, Reading, Tidy, Single
    <2>. QED  BY <2>1, <2>2, <2>3 DEF Shape
<1>. QED  BY <1>1, <1>2, <1>3, <1>4, <1>5 DEF Next

LEMMA ShapeHolds == Spec => [](TypeOK /\ Shape)
<1>1. TypeOK /\ Shape /\ [Next]_vars => TypeOK' /\ Shape'
    BY NextShape
<1>. QED  BY <1>1, InitType, InitShape, PTL DEF Spec

\* The tables, threads and nodes of Members have their types; in particular no
\* node serves a group that is gone and no link belongs to a user that is gone.
THEOREM TypeCorrect == Spec => []TypeOK
BY ShapeHolds, PTL

-----------------------------------------------------------------------------
(* What a node is owed *)

\* u is being created by a request that applies when it is done.
Coming(u) == \E t \in Threads : pc[t] = "create" /\ grp[t] = GroupOf[u]

\* u is being deleted, and its links are gone already.
Leaving(u) == \E t \in Threads : pc[t] = "delete" /\ u \in more[t]

\* If t fails to apply n, it leaves a kick for it.
Backed(t, n) == IF grp[t] = None THEN ids[t] \cap serves[n] # {}
                                 ELSE grp[t] \in serves[n]

\* t is going to clear the kick of g, but has passed n.
Missed(t, g, n) == /\ grp[t] = g /\ pc[t] \in Applying
                   /\ t \notin marked /\ ~failed[t] /\ n \notin left[t]

\* A kick from which the sweep will apply n.
Kicked(n) == \E g \in pending \cap serves[n] :
                 \A t \in Threads : ~Missed(t, g, n)

\* t has still to lock n, or will leave a kick for it.
WillApply(t, n) ==
    \/ todo[t] \cap serves[n] # {}
    \/ pc[t] = "revoke" /\ grp[t] \in serves[n]
    \/ pc[t] \in Applying /\ Backed(t, n) /\ (failed[t] \/ n \in left[t])
    \/ pc[t] = "nodes" /\ n \in left[t] /\ grp[t] = None /\ serves[n] = {}

Due(n) == Kicked(n) \/ \E t \in Threads : WillApply(t, n)

\* The node is as the tables say, but for users that are being created or deleted.
Right(n) ==
    /\ \A u \in installed[n] : May(u, n)
    /\ \A u \in Users : May(u, n) => \/ Coming(u)
                                    \/ /\ u \in installed[n]
                                       /\ u \in links[n] \/ Leaving(u)

\* So is what t, inside, has read, and so will be what it reads next; and what
\* it has sent is what the node has.
Fresh(t, n) ==
    /\ \A u \in push[t] : May(u, n)
    /\ \A u \in Users \ push[t] :
           May(u, n) /\ GroupOf[u] \notin gleft[t] /\ GroupOf[u] # cur[t] =>
               Coming(u) /\ u \notin installed[n]
    /\ \A g \in gleft[t] : g \in serves[n] \/ glife[g] = "gone"
    /\ cur[t] # None => cur[t] \in open \cap serves[n] \/ glife[cur[t]] = "gone"
    /\ pc[t] = "links" => push[t] = installed[n]

\* An apply is owed, or there is nothing to apply, or an apply that is under
\* way will do; and if that fails, it leaves a kick or nothing to apply.
Sane(n) ==
    \/ Due(n)
    \/ holder[n] = None /\ Right(n)
    \/ /\ holder[n] # None /\ Fresh(holder[n], n)
       /\ Backed(holder[n], n) \/ Right(n) \/ pc[holder[n]] = "links"

\* An apply that will end the excuse of its node is a good one.
Good(n) == /\ n \notin excused => Sane(n)
           /\ holder[n] \in clean => Due(n) \/ Fresh(holder[n], n)

SettledInv == TypeOK /\ Shape /\ \A n \in Nodes : Good(n)

LEMMA InitSettled == Init => SettledInv
<1>. SUFFICES ASSUME Init PROVE SettledInv
    OBVIOUS
<1>1. ASSUME NEW n \in Nodes PROVE Good(n)
    <2>1. Right(n)
        BY <1>1, Constants DEF Init, Right, May
    <2>. QED  BY <1>1, <2>1 DEF Init, Good, Sane
<1>. QED  BY <1>1, InitType, InitShape DEF SettledInv

\* At rest nothing is owed to a node and nobody is inside.
LEMMA SettledNow ==
    ASSUME SettledInv
    PROVE  Settled
<1>. SUFFICES ASSUME AtRest, NEW n \in Nodes \ excused
              PROVE  /\ installed[n] = {u \in Users : May(u, n)}
                     /\ installed[n] \subseteq links[n]
    BY DEF Settled
<1>1. \A t \in Threads : pc[t] = "idle" /\ todo[t] = {}
    BY DEF AtRest, SettledInv, Shape, Sound, Tidy, Applying, Inside
<1>2. ~Due(n)
    BY <1>1 DEF AtRest, Due, Kicked, WillApply, Applying, Inside
<1>3. holder[n] = None
    BY <1>1 DEF SettledInv, TypeOK, Shape, Held, Inside
<1>4. Right(n)
    BY <1>2, <1>3 DEF SettledInv, Good, Sane
<1>5. \A u \in Users : ~Coming(u) /\ ~Leaving(u)
    BY <1>1 DEF Coming, Leaving
<1>6. installed[n] \subseteq Users
    BY DEF SettledInv, TypeOK
<1>. QED  BY <1>4, <1>5, <1>6 DEF Right

-----------------------------------------------------------------------------
(* Steps that leave a node alone *)

\* The step changes nothing of what n should let in, but for users that are
\* being created and groups that are gone and owe nothing.
Calm(n) ==
    /\ serves'[n] \subseteq serves[n]
    /\ \A g \in serves[n] \ serves'[n] : g \notin Owing /\ glife'[g] = "gone"
    /\ \A g \in Groups : glife[g] = "gone" => glife'[g] = "gone"
    /\ \A g \in serves'[n] : g \in open => g \in open'
    /\ \A u \in Users : /\ May(u, n) => May(u, n)'
                        /\ May(u, n)' => May(u, n) \/ (Coming(u)' /\ u \notin installed[n])
                        /\ May(u, n) /\ Coming(u) =>
                               Coming(u)' \/ u \in installed[n] \cap links[n]

\* It takes links only from users that are being deleted.
KeepsLinks(n) ==
    \A u \in Users : May(u, n) /\ u \in installed[n] =>
        (u \in links[n] \/ Leaving(u) => u \in links'[n] \/ Leaving(u)')

LEMMA OwingFacts ==
    /\ \A g \in pending : g \in Owing
    /\ \A t \in Threads : /\ grp[t] \in Owing
                          /\ \A g \in todo[t] \cup ids[t] : g \in Owing
BY DEF Owing

LEMMA CalmDue ==
    ASSUME NEW t \in Threads, Aside(t), NEW n \in Nodes, Calm(n),
           pending \subseteq pending',
           \A s \in Threads \ {t} : s \in marked => s \in marked',
           \A g \in serves'[n] : Missed(t, g, n)' => Missed(t, g, n),
           WillApply(t, n) => Due(n)', Due(n)
    PROVE  Due(n)'
<1>1. /\ \A g \in serves[n] : g \in Owing => g \in serves'[n]
      /\ serves[n] = {} => serves'[n] = {}
    BY DEF Calm
<1>2. CASE Kicked(n)
    <2>1. PICK g \in pending \cap serves[n] : \A s \in Threads : ~Missed(s, g, n)
        BY <1>2 DEF Kicked
    <2>2. g \in pending' \cap serves'[n]
        BY <1>1, OwingFacts
    <2>3. \A s \in Threads \ {t} : Missed(s, g, n)' => Missed(s, g, n)
        BY DEF Missed, Aside
    <2>4. \A s \in Threads : ~Missed(s, g, n)'
        BY <2>1, <2>2, <2>3
    <2>. QED  BY <2>2, <2>4 DEF Due, Kicked
<1>3. ASSUME NEW s \in Threads \ {t}, WillApply(s, n)
      PROVE  Due(n)'
    <2>1. Backed(s, n) => Backed(s, n)'
        BY <1>1, OwingFacts DEF Backed, Aside
    <2>2. WillApply(s, n)'
        BY <1>1, <1>3, <2>1, OwingFacts DEF WillApply, Aside
    <2>. QED  BY <2>2 DEF Due
<1>. QED  BY <1>2, <1>3 DEF Due

LEMMA CalmRight ==
    ASSUME NEW n \in Nodes, Calm(n), KeepsLinks(n), installed'[n] = installed[n],
           installed[n] \subseteq Users, Right(n)
    PROVE  Right(n)'
<1>1. \A u \in installed'[n] : May(u, n)'
    BY DEF Right, Calm
<1>2. ASSUME NEW u \in Users, May(u, n)'
      PROVE  \/ Coming(u)'
             \/ u \in installed'[n] /\ (u \in links'[n] \/ Leaving(u)')
    BY <1>2 DEF Right, Calm, KeepsLinks
<1>. QED  BY <1>1, <1>2 DEF Right

LEMMA CalmFresh ==
    ASSUME TypeOK, NEW t \in Threads, Aside(t), NEW n \in Nodes, Calm(n),
           installed'[n] = installed[n],
           NEW s \in Threads \ {t}, Fresh(s, n)
    PROVE  Fresh(s, n)'
<1>1. /\ push'[s] = push[s] /\ gleft'[s] = gleft[s] /\ cur'[s] = cur[s]
      /\ push[s] \subseteq Users /\ gleft[s] \subseteq Groups
      /\ cur[s] \in Groups \cup {None}
    BY DEF Aside, TypeOK
<1>2. \A u \in push'[s] : May(u, n)'
    BY <1>1 DEF Fresh, Calm
<1>3. ASSUME NEW u \in Users \ push'[s], May(u, n)', GroupOf[u] \notin gleft'[s],
             GroupOf[u] # cur'[s]
      PROVE  Coming(u)' /\ u \notin installed'[n]
    BY <1>1, <1>3 DEF Fresh, Calm
<1>4. \A g \in gleft'[s] : g \in serves'[n] \/ glife'[g] = "gone"
    BY <1>1 DEF Fresh, Calm
<1>5. cur'[s] # None => cur'[s] \in open' \cap serves'[n] \/ glife'[cur'[s]] = "gone"
    BY <1>1 DEF Fresh, Calm
<1>6. pc'[s] = "links" => push'[s] = installed'[n]
    BY <1>1 DEF Fresh, Aside
<1>. QED  BY <1>2, <1>3, <1>4, <1>5, <1>6 DEF Fresh

\* A node that t is not inside.
LEMMA CalmGood ==
    ASSUME TypeOK, NEW t \in Threads, Aside(t), NEW n \in Nodes, Good(n), Calm(n),
           KeepsLinks(n),
           holder'[n] = holder[n], holder[n] # t, installed'[n] = installed[n],
           n \notin excused' => n \notin excused,
           holder[n] \in clean' => holder[n] \in clean,
           n \notin excused' \/ holder[n] \in clean' => (Due(n) => Due(n)')
    PROVE  Good(n)'
<1>0. holder[n] \in Threads \cup {None} /\ None \notin Threads
      /\ installed[n] \subseteq Users
    BY Constants DEF TypeOK
<1>1. Right(n) => Right(n)'
    BY <1>0, CalmRight
<1>2. ASSUME holder[n] # None
      PROVE  /\ Fresh(holder[n], n) => Fresh(holder[n], n)'
             /\ Backed(holder[n], n) => Backed(holder[n], n)'
             /\ pc'[holder[n]] = pc[holder[n]]
    <2>1. holder[n] \in Threads \ {t}
        BY <1>0, <1>2
    <2>2. \A s \in Threads \ {t} : Fresh(s, n) => Fresh(s, n)'
        BY CalmFresh
    <2>3. \A s \in Threads \ {t} : Backed(s, n) => Backed(s, n)'
        BY OwingFacts DEF Backed, Aside, Calm
    <2>. QED  BY <2>1, <2>2, <2>3 DEF Aside
<1>3. ASSUME holder[n] \in clean'
      PROVE  Due(n)' \/ Fresh(holder[n], n)'
    <2>1. holder[n] \in clean /\ holder[n] # None
        BY <1>0, <1>3 DEF TypeOK
    <2>2. Due(n) \/ Fresh(holder[n], n)
        BY <2>1 DEF Good
    <2>. QED  BY <1>2, <1>3, <2>1, <2>2
<1>4. ASSUME n \notin excused'
      PROVE  Sane(n)'
    <2>1. Due(n) => Due(n)'
        BY <1>4
    <2>2. CASE holder[n] = None /\ Right(n)
        BY <1>1, <2>2 DEF Sane
    <2>3. CASE /\ holder[n] # None /\ Fresh(holder[n], n)
               /\ Backed(holder[n], n) \/ Right(n) \/ pc[holder[n]] = "links"
        BY <1>1, <1>2, <2>3 DEF Sane
    <2>. QED  BY <1>4, <2>1, <2>2, <2>3 DEF Good, Sane
<1>. QED  BY <1>3, <1>4 DEF Good

\* A node that the step excuses, or that it owes an apply.
LEMMA PassedGood ==
    ASSUME NEW n \in Nodes,
           Due(n)' \/ (n \in excused /\ holder[n] \notin clean)'
    PROVE  Good(n)'
BY DEF Good, Sane

LEMMA TablesCalm ==
    ASSUME NEW t \in Threads, Aside(t), UNCHANGED <<people, places>>,
           pc[t] \notin {"create", "delete"}, NEW n \in Nodes
    PROVE  Calm(n) /\ (links'[n] = links[n] => KeepsLinks(n))
<1>1. \A u \in Users : May(u, n) <=> May(u, n)'
    BY DEF May
<1>2. \A u \in Users : Coming(u) => Coming(u)'
    BY DEF Coming, Aside
<1>3. \A u \in Users : Leaving(u) => Leaving(u)'
    BY DEF Leaving, Aside
<1>. QED  BY <1>1, <1>2, <1>3 DEF Calm, KeepsLinks

\* Nodes that Excuse names, and those that it does not.
LEMMA ExcuseFacts ==
    ASSUME TypeOK, Shape, NEW some, Excuse(some), NEW n \in Nodes,
           holder'[n] = holder[n]
    PROVE  /\ n \in some => n \in excused' /\ holder[n] \notin clean'
           /\ n \notin excused' => n \notin excused
           /\ holder[n] \in clean' => holder[n] \in clean
<1>1. holder[n] \in clean => node[holder[n]] = n
    BY Constants DEF TypeOK, Shape, Held
<1>. QED  BY <1>1 DEF Excuse

\* Mark leaves no thread that would clear the kicks it adds.
LEMMA MarkKicks ==
    ASSUME TypeOK, NEW t \in Threads, Aside(t), NEW some, Mark(some, t),
           grp'[t] = None, UNCHANGED serves,
           NEW n \in Nodes, NEW g \in some \cap serves[n]
    PROVE  Due(n)'
<1>1. g \in pending' \cap serves'[n] /\ g # None
    BY Constants DEF Mark, TypeOK
<1>2. \A s \in Threads : ~Missed(s, g, n)'
    BY <1>1 DEF Mark, Missed, Aside
<1>. QED  BY <1>1, <1>2 DEF Due, Kicked

-----------------------------------------------------------------------------
(* Steps of applyGroupNodes outside of applyStoredNode *)

LEMMA OutsideGood ==
    ASSUME TypeOK, Shape, NEW t \in Threads, Aside(t), pc[t] \notin Inside,
           pc[t] \notin {"create", "delete"},
           UNCHANGED <<people, places, agents, holder>>,
           NEW n \in Nodes, Good(n),
           n \notin excused' => n \notin excused,
           holder[n] \in clean' => holder[n] \in clean,
           n \notin excused' \/ holder[n] \in clean' => (Due(n) => Due(n)')
    PROVE  Good(n)'
<1>1. Calm(n) /\ KeepsLinks(n)
    BY TablesCalm
<1>2. holder[n] # t
    BY Constants DEF Shape, Held
<1>. QED  BY <1>1, <1>2, CalmGood

LEMMA NextGroupGood ==
    ASSUME TypeOK, Shape, NEW t \in Threads, Aside(t), NEW g \in Groups,
           NextGroup(t, g), NEW n \in Nodes, Good(n)
    PROVE  Good(n)'
<1>0. /\ pc[t] = "groups" /\ pc'[t] = "nodes" /\ grp'[t] = g
      /\ left'[t] = NodesOf(g) /\ todo'[t] = todo[t] \ {g}
      /\ UNCHANGED <<people, places, agents, holder, excused, clean, pending>>
      /\ g # None
    BY Constants DEF TypeOK, NextGroup
<1>1. ASSUME Due(n) PROVE Due(n)'
    <2>1. Calm(n)
        BY <1>0, TablesCalm
    <2>2. \A s \in Threads \ {t} : s \in marked => s \in marked'
        BY DEF NextGroup
    <2>3. \A h \in serves'[n] : ~Missed(t, h, n)'
        BY <1>0 DEF Missed, NodesOf
    <2>4. ASSUME WillApply(t, n) PROVE Due(n)'
        <3>1. PICK h \in todo[t] \cap serves[n] : TRUE
            BY <1>0, <2>4 DEF WillApply, Applying, Inside
        <3>2. h # g => todo'[t] \cap serves'[n] # {}
            BY <1>0, <3>1
        <3>3. h = g => /\ pc'[t] \in Applying /\ n \in left'[t]
                       /\ Backed(t, n)'
            BY <1>0, <3>1 DEF NodesOf, Applying, Backed
        <3>4. WillApply(t, n)'
            BY <3>2, <3>3 DEF WillApply
        <3>. QED  BY <3>4 DEF Due
    <2>. QED  BY <1>0, <1>1, <2>1, <2>2, <2>3, <2>4, CalmDue
<1>. QED  BY <1>0, <1>1, OutsideGood DEF Inside

LEMMA NextGroupFailsGood ==
    ASSUME TypeOK, Shape, NEW t \in Threads, Aside(t), NEW g \in Groups,
           NextGroupFails(t, g), NEW n \in Nodes, Good(n)
    PROVE  Good(n)'
<1>0. /\ pc[t] = "groups" /\ pc'[t] = "groups"
      /\ grp[t] = None /\ grp'[t] = None /\ todo'[t] = todo[t] \ {g}
      /\ UNCHANGED <<people, places, agents, holder, excused, clean>>
      /\ Mark({g}, t)
    BY DEF TypeOK, NextGroupFails, Shape, Sound, Tidy
<1>1. ASSUME Due(n) PROVE Due(n)'
    <2>1. Calm(n)
        BY <1>0, TablesCalm
    <2>2. /\ pending \subseteq pending'
          /\ \A s \in Threads \ {t} : s \in marked => s \in marked'
        BY <1>0 DEF Mark
    <2>3. \A h \in serves'[n] : ~Missed(t, h, n)'
        BY <1>0 DEF Missed, Applying, Inside
    <2>4. ASSUME WillApply(t, n) PROVE Due(n)'
        <3>1. PICK h \in todo[t] \cap serves[n] : TRUE
            BY <1>0, <2>4 DEF WillApply, Applying, Inside
        <3>2. CASE h # g
            BY <1>0, <3>1, <3>2 DEF Due, WillApply
        <3>3. CASE h = g
            <4>1. g \in {g} \cap serves[n]
                BY <3>1, <3>3
            <4>. QED  BY <1>0, <4>1, MarkKicks
        <3>. QED  BY <3>2, <3>3
    <2>. QED  BY <1>0, <1>1, <2>1, <2>2, <2>3, <2>4, CalmDue
<1>. QED  BY <1>0, <1>1, OutsideGood DEF Inside

LEMMA NextNodeFailsGood ==
    ASSUME TypeOK, Shape, NEW t \in Threads, Aside(t), NEW m \in Nodes,
           NextNodeFails(t, m), NEW n \in Nodes, Good(n)
    PROVE  Good(n)'
<1>0. /\ pc[t] = "nodes" /\ pc'[t] = "nodes" /\ grp[t] # None /\ failed'[t]
      /\ UNCHANGED <<people, places, agents, holder, pending, todo, grp, ids, history>>
    BY DEF TypeOK, NextNodeFails
<1>1. ASSUME Due(n) PROVE Due(n)'
    <2>1. Calm(n)
        BY <1>0, TablesCalm
    <2>2. \A h \in serves'[n] : ~Missed(t, h, n)'
        BY <1>0 DEF Missed
    <2>3. WillApply(t, n) => WillApply(t, n)'
        BY <1>0 DEF WillApply, Applying, Backed
    <2>. QED  BY <1>0, <1>1, <2>1, <2>2, <2>3, CalmDue DEF Due
<1>. QED  BY <1>0, <1>1, OutsideGood DEF Inside

LEMMA NodeUnreadGood ==
    ASSUME TypeOK, Shape, NEW t \in Threads, Aside(t), NEW m \in Nodes,
           NodeUnread(t, m), NEW n \in Nodes, Good(n)
    PROVE  Good(n)'
<1>0. /\ pc[t] = "nodes" /\ pc'[t] = "nodes" /\ grp[t] = None /\ m \in left[t]
      /\ UNCHANGED <<people, places, agents, holder, pending, marked, todo, grp, ids>>
      /\ Excuse({m})
    BY DEF TypeOK, NodeUnread
<1>1. /\ n = m => n \in excused' /\ holder[n] \notin clean'
      /\ n \notin excused' => n \notin excused
      /\ holder[n] \in clean' => holder[n] \in clean
    BY <1>0, ExcuseFacts
<1>2. ASSUME Due(n), n # m PROVE Due(n)'
    <2>1. Calm(n)
        BY <1>0, TablesCalm
    <2>2. serves[n] \subseteq Groups /\ None \notin Groups
        BY Constants DEF TypeOK
    <2>3. \A h \in serves'[n] : ~Missed(t, h, n)'
        BY <1>0, <2>2 DEF Missed
    <2>4. ~failed[t] /\ \A k \in left[t] : k = m
        BY <1>0 DEF Shape, Sound, Single
    <2>5. WillApply(t, n) => WillApply(t, n)'
        BY <1>0, <1>2, <2>4 DEF WillApply
    <2>. QED  BY <1>0, <1>2, <2>1, <2>3, <2>5, CalmDue DEF Due
<1>3. CASE n = m
    BY <1>0, <1>1, <1>3, PassedGood
<1>4. CASE n # m
    BY <1>0, <1>1, <1>2, <1>4, OutsideGood DEF Inside
<1>. QED  BY <1>3, <1>4

LEMMA NoGroupsGood ==
    ASSUME TypeOK, Shape, NEW t \in Threads, Aside(t), NEW m \in Nodes,
           NoGroups(t, m), NEW n \in Nodes, Good(n)
    PROVE  Good(n)'
<1>0. /\ pc[t] = "nodes" /\ pc'[t] = "nodes"
      /\ left'[t] = left[t] \ {m} /\ failed'[t]
      /\ UNCHANGED <<people, places, agents, holder, pending, marked, todo, grp, ids>>
      /\ Excuse({m})
    BY DEF TypeOK, NoGroups
<1>1. /\ n = m => n \in excused' /\ holder[n] \notin clean'
      /\ n \notin excused' => n \notin excused
      /\ holder[n] \in clean' => holder[n] \in clean
    BY <1>0, ExcuseFacts
<1>2. ASSUME Due(n), n # m PROVE Due(n)'
    <2>1. Calm(n)
        BY <1>0, TablesCalm
    <2>3. \A h \in serves'[n] : ~Missed(t, h, n)'
        BY <1>0 DEF Missed
    <2>4. ASSUME WillApply(t, n) PROVE WillApply(t, n)'
        BY <1>0, <1>2, <2>4 DEF WillApply, Applying, Backed
    <2>. QED  BY <1>0, <1>2, <2>1, <2>3, <2>4, CalmDue DEF Due
<1>3. CASE n = m
    BY <1>0, <1>1, <1>3, PassedGood
<1>4. CASE n # m
    BY <1>0, <1>1, <1>2, <1>4, OutsideGood DEF Inside
<1>. QED  BY <1>3, <1>4

LEMMA EndGroupGood ==
    ASSUME TypeOK, Shape, NEW t \in Threads, Aside(t),
           EndGroup(t), NEW n \in Nodes, Good(n)
    PROVE  Good(n)'
<1>0. /\ pc[t] = "nodes" /\ pc'[t] = "groups" /\ grp[t] \in Groups
      /\ left[t] = {} /\ grp'[t] = None
      /\ UNCHANGED <<people, places, agents, holder, todo>>
    BY DEF TypeOK, EndGroup
<1>1. Calm(n)
    BY <1>0, TablesCalm
<1>2. \A h \in serves'[n] : ~Missed(t, h, n)'
    BY <1>0 DEF Missed, Applying, Inside
<1>3. CASE failed[t]
    <2>1. Mark({grp[t]}, t) /\ UNCHANGED <<excused, clean>>
        BY <1>3 DEF EndGroup
    <2>2. /\ pending \subseteq pending'
          /\ \A s \in Threads \ {t} : s \in marked => s \in marked'
        BY <2>1 DEF Mark
    <2>3. ASSUME WillApply(t, n) PROVE Due(n)'
        <3>1. CASE todo[t] \cap serves[n] # {}
            BY <1>0, <3>1 DEF Due, WillApply
        <3>2. CASE grp[t] \in serves[n]
            <4>1. grp[t] \in {grp[t]} \cap serves[n]
                BY <3>2
            <4>. QED  BY <1>0, <2>1, <4>1, MarkKicks
        <3>. QED  BY <1>0, <2>3, <3>1, <3>2, Constants DEF WillApply, Backed
    <2>4. Due(n) => Due(n)'
        BY <1>1, <1>2, <2>2, <2>3, CalmDue
    <2>. QED  BY <1>0, <2>1, <2>4, OutsideGood DEF Inside
<1>4. CASE ~failed[t]
    <2>1. /\ pending' = pending \ {grp[t]} /\ UNCHANGED marked
          /\ Excuse(IF t \in marked /\ grp[t] \in pending THEN NodesOf(grp[t])
                                                         ELSE {})
        BY <1>4 DEF EndGroup
    <2>2. /\ t \in marked /\ grp[t] \in pending /\ n \in NodesOf(grp[t])
                  => n \in excused' /\ holder[n] \notin clean'
          /\ n \notin excused' => n \notin excused
          /\ holder[n] \in clean' => holder[n] \in clean
        BY <1>0, <2>1, ExcuseFacts
    <2>3. ASSUME NEW s \in Threads, WillApply(s, n) PROVE Due(n)'
        <3>1. CASE s = t
            BY <1>0, <1>4, <2>3, <3>1, Constants DEF WillApply, Backed, Due
        <3>2. CASE s # t
            BY <1>0, <2>3, <3>2 DEF WillApply, Backed, Due, Aside
        <3>. QED  BY <3>1, <3>2
    <2>4. ASSUME NEW h \in pending \cap serves[n], \A s \in Threads : ~Missed(s, h, n)
          PROVE  Due(n)' \/ (n \in excused' /\ holder[n] \notin clean')
        <3>1. CASE h = grp[t]
            BY <1>0, <1>4, <2>2, <2>4, <3>1 DEF Missed, NodesOf, Applying
        <3>2. CASE h # grp[t]
            <4>1. \A s \in Threads : ~Missed(s, h, n)'
                BY <1>0, <1>2, <2>1, <2>4 DEF Missed, Aside
            <4>. QED  BY <1>0, <2>1, <2>4, <3>2, <4>1 DEF Due, Kicked
        <3>. QED  BY <3>1, <3>2
    <2>5. Due(n) => Due(n)' \/ (n \in excused' /\ holder[n] \notin clean')
        BY <2>3, <2>4 DEF Due, Kicked
    <2>. QED  BY <1>0, <2>2, <2>5, OutsideGood DEF Inside
<1>. QED  BY <1>3, <1>4

LEMMA EndNodeGood ==
    ASSUME TypeOK, Shape, NEW t \in Threads, Aside(t),
           EndNode(t), NEW n \in Nodes, Good(n)
    PROVE  Good(n)'
<1>0. /\ pc[t] = "nodes" /\ pc'[t] = "groups" /\ left[t] = {}
      /\ grp[t] = None /\ grp'[t] = None
      /\ UNCHANGED <<people, places, agents, holder, todo, excused, clean>>
    BY DEF TypeOK, EndNode
<1>1. Calm(n)
    BY <1>0, TablesCalm
<1>2. \A h \in serves'[n] : ~Missed(t, h, n)'
    BY <1>0 DEF Missed, Applying, Inside
<1>3. /\ pending \subseteq pending'
      /\ \A s \in Threads \ {t} : s \in marked => s \in marked'
    BY DEF EndNode, Mark
<1>4. ASSUME WillApply(t, n) PROVE Due(n)'
    <2>1. CASE todo[t] \cap serves[n] # {}
        BY <1>0, <2>1 DEF Due, WillApply
    <2>2. CASE failed[t] /\ ids[t] \cap serves[n] # {}
        <3>1. PICK g \in ids[t] \cap serves[n] : TRUE
            BY <2>2
        <3>2. Mark(ids[t], t)
            BY <2>2 DEF EndNode
        <3>. QED  BY <1>0, <3>1, <3>2, MarkKicks
    <2>. QED  BY <1>0, <1>4, <2>1, <2>2 DEF WillApply, Backed
<1>5. Due(n) => Due(n)'
    BY <1>1, <1>2, <1>3, <1>4, CalmDue
<1>. QED  BY <1>0, <1>5, OutsideGood DEF Inside

LEMMA EndApplyGood ==
    ASSUME TypeOK, Shape, NEW t \in Threads, Aside(t),
           EndApply(t), NEW n \in Nodes, Good(n)
    PROVE  Good(n)'
<1>0. /\ pc[t] = "groups" /\ pc'[t] = "idle" /\ todo[t] = {}
      /\ UNCHANGED <<people, places, agents, holder, pending, marked, excused, clean>>
    BY DEF TypeOK, EndApply
<1>1. Calm(n)
    BY <1>0, TablesCalm
<1>2. \A h \in serves'[n] : ~Missed(t, h, n)'
    BY <1>0 DEF Missed, Applying, Inside
<1>3. ~WillApply(t, n)
    BY <1>0 DEF WillApply, Applying, Inside
<1>4. Due(n) => Due(n)'
    BY <1>0, <1>1, <1>2, <1>3, CalmDue
<1>. QED  BY <1>0, <1>4, OutsideGood DEF Inside

-----------------------------------------------------------------------------
(* Steps of applyStoredNode *)

LEMMA LockGood ==
    ASSUME TypeOK, Shape, NEW t \in Threads, Aside(t), NEW m \in Nodes,
           Lock(t, m), NEW n \in Nodes, Good(n)
    PROVE  Good(n)'
<1>0. /\ pc[t] = "nodes" /\ pc'[t] = "read" /\ m \in left[t] /\ serves[m] # {}
      /\ left'[t] = left[t] \ {m} /\ holder[m] = None /\ holder'[m] = t
      /\ n # m => holder'[n] = holder[n]
      /\ gleft'[t] = serves[m] /\ push'[t] = {} /\ cur'[t] = None
      /\ clean' = clean \cup {t}
      /\ UNCHANGED <<people, places, agents, pending, marked, excused, todo, grp,
                     ids, failed>>
    BY DEF TypeOK, Lock, Shape, Sound, Placed, Reading, Inside
<1>1. /\ Calm(n) /\ KeepsLinks(n) /\ holder[n] # t
    BY <1>0, TablesCalm, Constants DEF Shape, Held, Inside
<1>2. CASE n # m
    <2>1. \A h \in serves'[n] : Missed(t, h, n)' => Missed(t, h, n)
        BY <1>0, <1>2 DEF Missed, Applying
    <2>2. grp[t] = None => \A k \in left[t] : k = m
        BY <1>0 DEF Shape, Sound, Single
    <2>3. WillApply(t, n) => WillApply(t, n)'
        BY <1>0, <1>2, <2>2 DEF WillApply, Backed, Applying, Inside
    <2>4. Due(n) => Due(n)'
        BY <1>0, <1>1, <2>1, <2>3, CalmDue DEF Due
    <2>5. /\ n \notin excused' => n \notin excused
          /\ holder[n] \in clean' => holder[n] \in clean
        BY <1>0, <1>1
    <2>6. holder'[n] = holder[n] /\ installed'[n] = installed[n]
        BY <1>0, <1>2
    <2>. QED  BY <1>1, <2>4, <2>5, <2>6, CalmGood
<1>3. CASE n = m
    <2>1. Fresh(t, n)'
        <3>1. \A u \in Users : May(u, n)' => GroupOf[u] \in gleft'[t]
            BY <1>0, <1>3 DEF May
        <3>. QED  BY <1>0, <1>3, <3>1 DEF Fresh
    <2>2. holder'[n] = t /\ t # None
        BY <1>0, <1>3, Constants
    <2>3. Right(n) => Right(n)'
        BY <1>0, <1>1, CalmRight DEF TypeOK
    <2>4. ASSUME Due(n) PROVE Due(n)' \/ Backed(t, n)'
        <3>1. Backed(t, n) => Backed(t, n)'
            BY <1>0 DEF Backed
        <3>2. WillApply(t, n) => todo'[t] \cap serves'[n] # {} \/ Backed(t, n)
            BY <1>0, <1>3 DEF WillApply
        <3>3. ASSUME NEW s \in Threads \ {t}, WillApply(s, n) PROVE Due(n)'
            BY <1>0, <3>3 DEF WillApply, Backed, Due, Aside
        <3>4. ASSUME NEW h \in pending \cap serves[n],
                     \A s \in Threads : ~Missed(s, h, n), ~Backed(t, n)
              PROVE  Due(n)'
            <4>1. grp'[t] # h
                BY <1>0, <3>4, Constants DEF Backed, TypeOK
            <4>2. \A s \in Threads : ~Missed(s, h, n)'
                BY <1>0, <3>4, <4>1 DEF Missed, Aside
            <4>. QED  BY <1>0, <3>4, <4>2 DEF Due, Kicked
        <3>. QED  BY <2>4, <3>1, <3>2, <3>3, <3>4 DEF Due, Kicked, WillApply
    <2>5. n \notin excused' => Sane(n)'
        <3>1. n \notin excused' => Due(n) \/ Right(n)
            BY <1>0, <1>3 DEF Good, Sane
        <3>2. Sane(n)' <=> \/ Due(n)'
                           \/ Right(n)' \/ Backed(t, n)' \/ pc'[t] = "links"
            BY <2>1, <2>2 DEF Sane
        <3>. QED  BY <2>3, <2>4, <3>1, <3>2
    <2>6. holder'[n] \in clean' => Due(n)' \/ Fresh(holder[n], n)'
        BY <2>1, <2>2
    <2>. QED  BY <2>5, <2>6 DEF Good
<1>. QED  BY <1>2, <1>3

\* Nothing that a thread does inside takes away what it owes.
LEMMA InsideDue ==
    ASSUME TypeOK, NEW t \in Threads, Aside(t), pc[t] \in Inside,
           pc'[t] \in Applying, UNCHANGED <<people, places, pending, marked>>,
           grp'[t] = grp[t], left'[t] = left[t], todo'[t] = todo[t],
           ids'[t] = ids[t], failed[t] => failed'[t], NEW n \in Nodes, Due(n)
    PROVE  Due(n)'
<1>1. Calm(n)
    BY TablesCalm DEF Inside
<1>2. \A h \in serves'[n] : Missed(t, h, n)' => Missed(t, h, n)
    BY DEF Missed, Applying
<1>3. WillApply(t, n) => WillApply(t, n)'
    BY DEF WillApply, Backed, Applying, Inside
<1>. QED  BY <1>1, <1>2, <1>3, CalmDue DEF Due

\* The nodes that t is not at.
LEMMA ElsewhereGood ==
    ASSUME TypeOK, Shape, NEW t \in Threads, Aside(t), pc[t] \in Inside,
           UNCHANGED <<people, places>>, clean' \subseteq clean,
           NEW n \in Nodes, n # node[t], Good(n), Due(n) => Due(n)',
           holder'[n] = holder[n], installed'[n] = installed[n],
           links'[n] = links[n], n \in excused' <=> n \in excused
    PROVE  Good(n)'
<1>1. Calm(n) /\ KeepsLinks(n)
    BY TablesCalm DEF Inside
<1>2. holder[n] # t
    BY Constants DEF Shape, Held
<1>. QED  BY <1>1, <1>2, CalmGood

\* t reads on, or sends the PUT.
LEMMA ReadFresh ==
    ASSUME TypeOK, Shape, NEW t \in Threads, Aside(t),
           \/ \E g \in Groups : ReadGroup(t, g)
           \/ ReadUsers(t) \/ Put(t),
           NEW m \in Nodes, m = node[t], Fresh(t, m)
    PROVE  Fresh(t, m)'
<1>0. /\ cur[t] # None <=> pc[t] = "users"
      /\ pc[t] # "create"
      /\ UNCHANGED <<people, places>>
    BY DEF ReadGroup, ReadUsers, Put, Shape, Sound, Reading
<1>1. \A u \in Users : (May(u, m)' <=> May(u, m)) /\ (Coming(u) => Coming(u)')
    BY <1>0 DEF May, Coming, Aside
<1>2. ASSUME NEW g \in Groups, ReadGroup(t, g)
      PROVE  /\ push'[t] = push[t] /\ gleft'[t] = gleft[t] \ {g}
             /\ UNCHANGED installed
             /\ g \in gleft[t] /\ glife[g] = "live" /\ cur[t] = None
             /\ IF g \in open THEN cur'[t] = g ELSE cur'[t] = None
             /\ pc'[t] # "links"
    BY <1>0, <1>2 DEF ReadGroup, TypeOK
<1>3. ASSUME NEW g \in Groups, ReadGroup(t, g)
      PROVE  \A u \in Users : May(u, m) /\ GroupOf[u] \notin gleft'[t]
                                        /\ GroupOf[u] # cur'[t] =>
                                 GroupOf[u] \notin gleft[t] /\ GroupOf[u] # cur[t]
    BY <1>2, <1>3, Constants DEF May
<1>4. CASE \E g \in Groups : ReadGroup(t, g)
    BY <1>0, <1>1, <1>2, <1>3, <1>4 DEF Fresh, TypeOK
<1>5. CASE ReadUsers(t)
    <2>1. /\ push'[t] = push[t] \cup {u \in good : Live(u) /\ GroupOf[u] = cur[t]}
          /\ gleft'[t] = gleft[t] /\ cur'[t] = None /\ cur[t] # None
          /\ UNCHANGED installed /\ pc'[t] = "read"
        BY <1>0, <1>5 DEF ReadUsers, TypeOK
    <2>2. \A u \in good : Live(u) /\ GroupOf[u] = cur[t] => May(u, m)
        BY <2>1 DEF Fresh, May, Shape, Known, TypeOK
    <2>3. \A u \in Users : May(u, m) /\ GroupOf[u] = cur[t] => u \in push'[t]
        BY <2>1 DEF May
    <2>. QED  BY <1>0, <1>1, <2>1, <2>2, <2>3 DEF Fresh, TypeOK
<1>6. CASE Put(t)
    <2>1. /\ push'[t] = push[t] /\ gleft[t] = {} /\ gleft'[t] = {}
          /\ cur'[t] = None /\ cur[t] = None
          /\ installed'[m] = push[t]
        BY <1>0, <1>6 DEF Put, TypeOK
    <2>. QED  BY <1>0, <1>1, <2>1, Constants DEF Fresh, TypeOK
<1>. QED  BY <1>4, <1>5, <1>6

LEMMA ReadGood ==
    ASSUME TypeOK, Shape, NEW t \in Threads, Aside(t),
           \/ \E g \in Groups : ReadGroup(t, g)
           \/ ReadUsers(t) \/ Put(t),
           NEW n \in Nodes, Good(n)
    PROVE  Good(n)'
<1>0. /\ pc[t] \in Inside /\ pc'[t] \in Inside
      /\ node[t] \in Nodes /\ holder[node[t]] = t
      /\ UNCHANGED <<people, places, links, memory, todo, grouping, node, ids,
                     history>>
      /\ node[t] # n => installed'[n] = installed[n]
      /\ Put(t) => pc'[t] = "links"
      /\ ~Put(t) => UNCHANGED installed /\ pc[t] # "links"
    BY DEF ReadGroup, ReadUsers, Put, Shape, Sound, Placed, Inside, TypeOK
<1>1. Due(n) => Due(n)'
    BY <1>0, InsideDue DEF Applying
<1>2. CASE n # node[t]
    BY <1>0, <1>1, <1>2, ElsewhereGood
<1>3. CASE n = node[t]
    <2>0. holder[n] = t /\ holder'[n] = t /\ t # None
        BY <1>0, <1>3, Constants
    <2>1. ASSUME Fresh(t, n) PROVE Fresh(t, n)'
        BY <1>3, <2>1, ReadFresh
    <2>2. Backed(t, n) => Backed(t, n)'
        BY <1>0 DEF Backed
    <2>3. Calm(n) /\ KeepsLinks(n)
        BY <1>0, TablesCalm DEF Inside
    <2>4. ~Put(t) /\ Right(n) => Right(n)'
        BY <1>0, <2>3, CalmRight DEF TypeOK
    <2>5. Sane(n) => Sane(n)'
        <3>1. CASE Due(n)
            BY <1>1, <3>1 DEF Sane
        <3>2. CASE /\ Fresh(t, n)
                   /\ Backed(t, n) \/ Right(n) \/ pc[t] = "links"
            <4>1. Backed(t, n)' \/ Right(n)' \/ pc'[t] = "links"
                BY <1>0, <2>2, <2>4, <3>2 DEF Put
            <4>. QED  BY <2>0, <2>1, <3>2, <4>1 DEF Sane
        <3>. QED  BY <2>0, <3>1, <3>2 DEF Sane
    <2>. QED  BY <1>0, <1>1, <2>0, <2>1, <2>5 DEF Good
<1>. QED  BY <1>2, <1>3

\* An agent that fails halfway excuses its node, for this apply too.
LEMMA PutPartialGood ==
    ASSUME TypeOK, Shape, NEW t \in Threads, Aside(t), PutPartial(t),
           NEW n \in Nodes, Good(n)
    PROVE  Good(n)'
<1>0. /\ pc[t] \in Inside /\ pc'[t] = "links" /\ node[t] \in Nodes
      /\ UNCHANGED <<people, places, links, memory, todo, grouping, ids, marked>>
      /\ node[t] # n => installed'[n] = installed[n]
      /\ Excuse({node[t]})
    BY DEF PutPartial, Shape, Sound, Placed, Inside, TypeOK
<1>1. Due(n) => Due(n)'
    BY <1>0, InsideDue DEF Applying, Inside
<1>2. CASE n = node[t]
    <2>1. n \in excused' /\ holder[n] \notin clean'
        BY <1>0, <1>2, ExcuseFacts
    <2>. QED  BY <1>0, <2>1, PassedGood
<1>3. CASE n # node[t]
    <2>1. clean' \subseteq clean /\ (n \in excused' <=> n \in excused)
        BY <1>0, <1>3 DEF Excuse
    <2>. QED  BY <1>0, <1>1, <1>3, <2>1, ElsewhereGood
<1>. QED  BY <1>2, <1>3

LEMMA ReturningGood ==
    ASSUME TypeOK, Shape, NEW t \in Threads, Aside(t), Returning(t),
           NEW n \in Nodes, Good(n)
    PROVE  Good(n)'
<1>1. PICK err \in BOOLEAN : Return(t, err)
    BY ReturningShape
<1>at. pc[t] \in Inside /\ node[t] \in Nodes /\ holder[node[t]] = t
    BY ReturningShape DEF Shape, Sound, Placed
<1>0. /\ pc'[t] = "nodes" /\ failed'[t] = (failed[t] \/ err)
      /\ n # node[t] => holder'[n] = holder[n]
      /\ n = node[t] => holder'[n] = None
      /\ UNCHANGED <<people, places, pending, todo, grp, left, ids, marked>>
    BY <1>1, <1>at DEF Return, TypeOK
<1>2. clean' = clean
    BY DEF Returning, GroupGone, ApplyFails, PutUnsaved, StoreLinks, StoreLinksFails
<1>3. Due(n) => Due(n)'
    BY <1>at, <1>0, InsideDue DEF Applying
<1>4. CASE n # node[t]
    <2>1. /\ installed'[n] = installed[n] /\ links'[n] = links[n]
          /\ n \in excused' <=> n \in excused
        BY <1>4 DEF Returning, GroupGone, ApplyFails, PutUnsaved, StoreLinks,
                    StoreLinksFails, TypeOK
    <2>. QED  BY <1>at, <1>0, <1>2, <1>3, <1>4, <2>1, ElsewhereGood
<1>5. CASE n = node[t]
    <2>0. holder[n] = t /\ holder'[n] = None /\ t # None /\ None \notin clean
        BY <1>at, <1>0, <1>5, Constants DEF TypeOK
    <2>1. Calm(n) /\ (links'[n] = links[n] => KeepsLinks(n))
        BY <1>at, <1>0, TablesCalm DEF Inside
    <2>2. \A u \in Users : /\ May(u, n)' <=> May(u, n)
                           /\ Coming(u) => Coming(u)'
                           /\ Leaving(u) => Leaving(u)'
        BY <1>at, <1>0 DEF May, Coming, Leaving, Aside, Inside
    <2>3. n \notin excused => \/ Due(n)
                              \/ /\ Fresh(t, n)
                                 /\ Backed(t, n) \/ Right(n) \/ pc[t] = "links"
        BY <2>0 DEF Good, Sane
    <2>4. SUFFICES ASSUME n \notin excused', ~Due(n)
                   PROVE  Due(n)' \/ Right(n)'
        BY <1>2, <1>3, <2>0 DEF Good, Sane
    <2>5. ASSUME Backed(t, n), failed'[t]
          PROVE  Due(n)'
        BY <1>0, <2>5 DEF Backed, Due, WillApply, Applying
    <2>6. CASE ApplyFails(t) \/ \E g \in Groups : GroupGone(t, g)
        <3>1. /\ failed'[t] /\ n \notin excused /\ pc[t] # "links"
              /\ UNCHANGED <<installed, links>>
            <4>1. /\ UNCHANGED <<installed, links, excused>> /\ Return(t, TRUE)
                  /\ pc[t] # "links"
                BY <2>6 DEF ApplyFails, GroupGone
            <4>. QED  BY <2>4, <4>1 DEF Return, TypeOK
        <3>2. Right(n) => Right(n)'
            BY <2>1, <3>1, CalmRight DEF TypeOK
        <3>. QED  BY <2>3, <2>4, <2>5, <3>1, <3>2
    <2>7. CASE PutUnsaved(t)
        <3>1. /\ failed'[t] /\ n \notin excused /\ pc[t] # "links"
              /\ gleft[t] = {} /\ cur[t] = None
              /\ installed'[n] = push[t] /\ UNCHANGED links
            <4>1. /\ gleft[t] = {} /\ pc[t] = "read" /\ UNCHANGED <<links, excused>>
                  /\ installed' = [installed EXCEPT ![node[t]] = push[t]]
                  /\ failed' = [failed EXCEPT ![t] = @ \/ TRUE]
                BY <2>7 DEF PutUnsaved, Return
            <4>2. cur[t] = None
                BY <4>1 DEF Shape, Sound, Reading
            <4>. QED  BY <1>5, <2>4, <4>1, <4>2 DEF TypeOK
        <3>2. ASSUME Right(n), Fresh(t, n) PROVE Right(n)'
            <4>1. \A u \in installed'[n] : May(u, n)'
                BY <2>2, <3>1, <3>2 DEF Fresh, TypeOK
            <4>2. ASSUME NEW u \in Users, May(u, n)'
                  PROVE  \/ Coming(u)'
                         \/ u \in installed'[n] /\ (u \in links'[n] \/ Leaving(u)')
                BY <2>2, <3>1, <3>2, <4>2, Constants DEF Fresh, Right
            <4>. QED  BY <4>1, <4>2 DEF Right
        <3>. QED  BY <2>3, <2>4, <2>5, <3>1, <3>2
    <2>8. CASE StoreLinks(t)
        <3>1. /\ pc[t] = "links" /\ gleft[t] = {} /\ cur[t] = None
              /\ UNCHANGED installed
            BY <1>5, <2>8 DEF StoreLinks, Shape, Sound, Reading
        <3>2. Fresh(t, n)
            <4>1. CASE n \notin excused
                BY <2>3, <2>4, <4>1
            <4>2. CASE n \in excused
                <5>1. t \in clean
                    BY <1>5, <2>4, <2>8, <4>2 DEF StoreLinks
                <5>. QED  BY <2>0, <2>4, <5>1 DEF Good
            <4>. QED  BY <4>1, <4>2
        <3>3. push[t] = installed[n] /\ \A u \in push[t] : May(u, n)
            BY <3>1, <3>2 DEF Fresh
        <3>4. links'[n] = push[t]
            BY <1>5, <2>8, <3>3 DEF StoreLinks, May, TypeOK
        <3>5. \A u \in installed'[n] : May(u, n)'
            BY <2>2, <3>1, <3>3 DEF TypeOK
        <3>6. ASSUME NEW u \in Users, May(u, n)'
              PROVE  u \in installed'[n] \cap links'[n] \/ Coming(u)'
            BY <2>2, <3>1, <3>2, <3>3, <3>4, <3>6, Constants DEF Fresh
        <3>. QED  BY <3>5, <3>6 DEF Right
    <2>9. CASE StoreLinksFails(t)
        BY <1>5, <2>4, <2>9 DEF StoreLinksFails
    <2>. QED  BY <2>6, <2>7, <2>8, <2>9 DEF Returning
<1>. QED  BY <1>4, <1>5

-----------------------------------------------------------------------------
(* Requests, the sweep and restarts *)

\* A step of a thread that applies nothing now.
LEMMA HomeGood ==
    ASSUME TypeOK, Shape, NEW t \in Threads, Aside(t),
           pc[t] \notin Applying \cup {"groups"},
           UNCHANGED <<installed, pending, holder, marked>>,
           grp'[t] = None \/ pc'[t] \notin Applying,
           NEW n \in Nodes, Good(n), Calm(n), KeepsLinks(n),
           pc[t] = "revoke" => grp[t] \notin serves[n],
           n \notin excused' => n \notin excused,
           holder[n] \in clean' => holder[n] \in clean
    PROVE  Good(n)'
<1>1. serves'[n] \subseteq Groups /\ None \notin Groups
    BY Constants DEF Calm, TypeOK
<1>2. \A h \in serves'[n] : ~Missed(t, h, n)'
    BY <1>1 DEF Missed
<1>3. ~WillApply(t, n)
    BY DEF WillApply, Shape, Sound, Tidy, Applying
<1>4. Due(n) => Due(n)'
    BY <1>2, <1>3, CalmDue
<1>5. holder[n] # t
    BY Constants DEF Shape, Held, Applying
<1>. QED  BY <1>4, <1>5, CalmGood

\* What happens to a group and its users is no matter of other nodes.
LEMMA OtherCalm ==
    ASSUME TypeOK, NEW t \in Threads, Aside(t), NEW g \in Groups,
           NEW n \in Nodes, g \notin serves[n], UNCHANGED serves,
           \A h \in Groups : glife[h] = "gone" => glife'[h] = "gone",
           \A h \in Groups \ {g} : h \in open <=> h \in open',
           \A u \in Users : GroupOf[u] # g => /\ life'[u] = life[u]
                                              /\ u \in good <=> u \in good',
           pc[t] = "create" => grp[t] = g,
           pc[t] = "delete" => \A u \in more[t] : GroupOf[u] = g,
           \A u \in Users : GroupOf[u] # g /\ u \in links[n] => u \in links'[n]
    PROVE  Calm(n) /\ KeepsLinks(n)
<1>1. \A u \in Users : (May(u, n) \/ May(u, n)') => GroupOf[u] # g
    BY DEF May
<1>2. \A u \in Users : May(u, n) <=> May(u, n)'
    BY <1>1, Constants DEF May
<1>3. \A u \in Users : May(u, n) /\ Coming(u) => Coming(u)'
    BY <1>1 DEF Coming, Aside
<1>4. serves[n] \subseteq Groups
    BY DEF TypeOK
<1>5. KeepsLinks(n)
    BY <1>1 DEF KeepsLinks, Leaving, Aside
<1>. QED  BY <1>1, <1>2, <1>3, <1>4, <1>5 DEF Calm

LEMMA TodoDue ==
    ASSUME NEW t \in Threads, NEW n \in Nodes, todo'[t] \cap serves'[n] # {}
    PROVE  Due(n)'
BY DEF Due, WillApply

LEMMA StartGood ==
    ASSUME TypeOK, Shape, NEW t \in Threads, Start(t), NEW n \in Nodes, Good(n)
    PROVE  Good(n)'
<1>0. /\ Aside(t) /\ pc[t] = "idle" /\ pc[t] \notin Applying \cup {"groups"}
      /\ UNCHANGED <<installed, pending, holder>>
      /\ grp[t] = None /\ Tidy(t)'
    BY StartSound DEF Applying, Inside, Shape, Sound, Tidy
<1>leave. \A u \in Users : Leaving(u) => Leaving(u)'
    BY <1>0 DEF Leaving, Aside
<1>1. ASSUME UNCHANGED <<people, places, links, history>>,
             grp'[t] = None \/ pc'[t] \notin Applying
      PROVE  Good(n)'
    <2>1. Calm(n) /\ KeepsLinks(n)
        BY <1>0, <1>1, TablesCalm
    <2>. QED  BY <1>0, <1>1, <2>1, HomeGood
<1>2. ASSUME NEW g \in Groups, CreateGroup(t, g)
      PROVE  Good(n)'
    <2>1. /\ UNCHANGED <<people, serves, links, history, grp>>
          /\ glife[g] = "unborn" /\ g \notin serves[n]
          /\ \A h \in Groups : glife[h] = "gone" => glife'[h] = "gone"
          /\ \A h \in Groups \ {g} : h \in open <=> h \in open'
        BY <1>2 DEF CreateGroup, TypeOK
    <2>2. Calm(n) /\ KeepsLinks(n)
        BY <1>0, <2>1, OtherCalm
    <2>. QED  BY <1>0, <2>1, <2>2, HomeGood
<1>3. ASSUME NEW g \in Groups, PatchRead(t, g)
      PROVE  Good(n)'
    <2>1. /\ UNCHANGED <<people, places, links, history>>
          /\ pc'[t] = "patch"
        BY <1>3 DEF PatchRead, TypeOK
    <2>. QED  BY <1>1, <2>1 DEF Applying, Inside
<1>4. ASSUME NEW g \in Groups, DeleteGroup(t, g)
      PROVE  Good(n)'
    <2>1. /\ UNCHANGED <<people, links, marked, pc, grp>>
          /\ \A u \in Users : Live(u) => GroupOf[u] # g
          /\ serves'[n] = serves[n] \ {g} /\ open' = open \ {g}
          /\ glife' = [glife EXCEPT ![g] = "gone"]
          /\ Excuse(IF g \in Owing THEN NodesOf(g) ELSE {})
        BY <1>4 DEF DeleteGroup
    <2>2. /\ g \in Owing /\ n \in NodesOf(g) => n \in excused' /\ holder[n] \notin clean'
          /\ n \notin excused' => n \notin excused
          /\ holder[n] \in clean' => holder[n] \in clean
        BY <1>0, <2>1, ExcuseFacts
    <2>3. CASE g \in Owing /\ n \in NodesOf(g)
        BY <1>0, <2>2, <2>3, PassedGood
    <2>4. CASE ~(g \in Owing /\ n \in NodesOf(g))
        <3>1. \A u \in Users : May(u, n) <=> May(u, n)'
            BY <2>1 DEF May
        <3>2. \A u \in Users : Coming(u) => Coming(u)'
            BY <2>1 DEF Coming
        <3>3. \A h \in Groups : glife'[h] = IF h = g THEN "gone" ELSE glife[h]
            BY <2>1 DEF TypeOK
        <3>4. serves[n] \subseteq Groups
            BY DEF TypeOK
        <3>5. Calm(n) /\ KeepsLinks(n)
            BY <1>leave, <2>1, <2>4, <3>1, <3>2, <3>3, <3>4 DEF Calm, KeepsLinks, NodesOf
        <3>. QED  BY <1>0, <2>1, <2>2, <3>5, HomeGood
    <2>. QED  BY <2>3, <2>4
<1>5. ASSUME NEW g \in Groups, NEW us \in SUBSET Users, CreateUsers(t, g, us)
      PROVE  Good(n)'
    <2>1. /\ UNCHANGED <<people, places, links, history>>
          /\ pc'[t] = "create"
        BY <1>5 DEF CreateUsers, TypeOK
    <2>. QED  BY <1>1, <2>1 DEF Applying, Inside
<1>6. ASSUME NEW u \in Users, SetStatus(t, u)
      PROVE  Good(n)'
    <2>1. /\ UNCHANGED <<life, places, links, history, grp>>
          /\ todo'[t] = {GroupOf[u]} /\ GroupOf[u] \in Groups
          /\ \A v \in Users : v # u => (v \in good <=> v \in good')
        BY <1>6, Constants DEF SetStatus, ThenApply, TypeOK
    <2>2. CASE GroupOf[u] \in serves[n]
        <3>1. Due(n)'
            BY <2>1, <2>2, TodoDue
        <3>. QED  BY <3>1, PassedGood
    <2>3. CASE GroupOf[u] \notin serves[n]
        <3>1. Calm(n) /\ KeepsLinks(n)
            BY <1>0, <2>1, <2>3, OtherCalm
        <3>. QED  BY <1>0, <2>1, <3>1, HomeGood
    <2>. QED  BY <2>2, <2>3
<1>7. ASSUME NEW u \in Users, RevokeUser(t, u)
      PROVE  Good(n)'
    <2>1. /\ UNCHANGED <<life, places, links, history>>
          /\ pc'[t] = "revoke" /\ grp'[t] = GroupOf[u] /\ GroupOf[u] \in Groups
          /\ \A v \in Users : v # u => (v \in good <=> v \in good')
        BY <1>7, Constants DEF RevokeUser, TypeOK
    <2>2. CASE GroupOf[u] \in serves[n]
        <3>1. Due(n)'
            BY <2>1, <2>2 DEF Due, WillApply
        <3>. QED  BY <3>1, PassedGood
    <2>3. CASE GroupOf[u] \notin serves[n]
        <3>1. Calm(n) /\ KeepsLinks(n)
            BY <1>0, <2>1, <2>3, OtherCalm
        <3>. QED  BY <1>0, <2>1, <3>1, HomeGood DEF Applying, Inside
    <2>. QED  BY <2>2, <2>3
<1>8. ASSUME NEW u \in Users, DeleteUser(t, u)
      PROVE  Good(n)'
    <2>1. /\ UNCHANGED <<people, places, history>>
          /\ pc'[t] = "delete" /\ more'[t] = {u} /\ links'[n] = links[n] \ {u}
        BY <1>8 DEF DeleteUser, WithoutLinks, TypeOK
    <2>2. Calm(n)
        BY <1>0, <2>1, TablesCalm
    <2>3. Leaving(u)'
        BY <2>1 DEF Leaving
    <2>4. KeepsLinks(n)
        BY <1>leave, <2>1, <2>3 DEF KeepsLinks
    <2>. QED  BY <1>0, <2>1, <2>2, <2>4, HomeGood DEF Applying, Inside
<1>9. ASSUME NEW m \in Nodes, ApplyNode(t, m) \/ \E gs \in SUBSET Groups : MoveNode(t, m, gs)
      PROVE  Good(n)'
    <2>1. UNCHANGED <<people, places, links, history, grp>>
        BY <1>9 DEF ApplyNode, MoveNode
    <2>. QED  BY <1>0, <1>1, <2>1
<1>. QED  BY <1>2, <1>3, <1>4, <1>5, <1>6, <1>7, <1>8, <1>9 DEF Start

LEMMA PatchWriteGood ==
    ASSUME TypeOK, Shape, NEW t \in Threads, PatchWrite(t), NEW n \in Nodes, Good(n)
    PROVE  Good(n)'
<1>0. /\ pc[t] = "patch" /\ grp' = [grp EXCEPT ![t] = None]
      /\ UNCHANGED <<people, glife, serves, links, installed, pending, holder, marked>>
    BY DEF PatchWrite
<1>home. /\ Aside(t) /\ pc[t] \notin Applying \cup {"groups"}
      /\ grp'[t] = None /\ grp[t] \in Groups
    BY <1>0, ContinueSound DEF Continue, Applying, Inside, Shape, Sound, Tidy, TypeOK
<1>1. CASE UNCHANGED <<open, excused, clean>>
    <2>1. Calm(n) /\ KeepsLinks(n)
        BY <1>0, <1>home, <1>1, TablesCalm
    <2>. QED  BY <1>0, <1>home, <1>1, <2>1, HomeGood
<1>2. CASE ~UNCHANGED <<open, excused, clean>>
    <2>1. PICK named \in BOOLEAN :
               /\ \A h \in Groups \ {grp[t]} : h \in open <=> h \in open'
               /\ named => todo' = [todo EXCEPT ![t] = {grp[t]}]
               /\ Excuse(IF ~named /\ open' # open THEN NodesOf(grp[t]) ELSE {})
        BY <1>2 DEF PatchWrite, ThenApply
    <2>2. /\ ~named /\ open' # open /\ n \in NodesOf(grp[t]) =>
                 n \in excused' /\ holder[n] \notin clean'
          /\ n \notin excused' => n \notin excused
          /\ holder[n] \in clean' => holder[n] \in clean
        BY <1>0, <1>home, <2>1, ExcuseFacts
    <2>3. CASE grp[t] \notin serves[n]
        <3>1. Calm(n) /\ KeepsLinks(n)
            BY <1>0, <1>home, <2>1, <2>3, OtherCalm
        <3>. QED  BY <1>0, <1>home, <2>2, <3>1, HomeGood
    <2>4. CASE named /\ grp[t] \in serves[n]
        <3>1. Due(n)'
            BY <1>0, <1>home, <2>1, <2>4, TodoDue DEF TypeOK
        <3>. QED  BY <3>1, PassedGood
    <2>5. CASE ~named /\ open' # open /\ grp[t] \in serves[n]
        BY <1>0, <1>home, <2>2, <2>5, PassedGood DEF NodesOf
    <2>6. CASE open' = open
        <3>1. Calm(n) /\ KeepsLinks(n)
            BY <1>0, <1>home, <2>6, TablesCalm
        <3>. QED  BY <1>0, <1>home, <2>2, <3>1, HomeGood
    <2>. QED  BY <2>3, <2>4, <2>5, <2>6
<1>. QED  BY <1>1, <1>2

LEMMA InsertUserGood ==
    ASSUME TypeOK, Shape, NEW t \in Threads, NEW u \in Users, InsertUser(t, u),
           NEW n \in Nodes, Good(n)
    PROVE  Good(n)'
<1>0. /\ Aside(t) /\ pc[t] = "create" /\ pc[t] \notin Applying \cup {"groups"}
      /\ UNCHANGED <<places, links, installed, pending, holder, history>>
      /\ grp[t] \in Groups /\ GroupOf[u] = grp[t]
    BY ContinueSound DEF Continue, InsertUser, Applying, Inside, Shape, Sound, Tidy
<1>1. /\ u \notin installed[n]
      /\ \A v \in Users : v # u => life'[v] = life[v] /\ (v \in good <=> v \in good')
    BY DEF InsertUser, Shape, Known, Born, TypeOK
<1>2. \/ todo'[t] = {grp[t]} /\ grp'[t] = None
      \/ UNCHANGED <<pc, grp>>
    BY DEF InsertUser, ThenApply, TypeOK
<1>3. CASE grp[t] \notin serves[n]
    <2>1. Calm(n) /\ KeepsLinks(n)
        BY <1>0, <1>1, <1>3, OtherCalm
    <2>. QED  BY <1>0, <1>2, <2>1, HomeGood
<1>4. CASE grp[t] \in serves[n] /\ todo'[t] = {grp[t]}
    <2>1. Due(n)'
        BY <1>0, <1>4, TodoDue
    <2>. QED  BY <2>1, PassedGood
<1>5. CASE UNCHANGED <<pc, grp>>
    <2>1. Coming(u)' /\ \A v \in Users : Coming(v) => Coming(v)'
        BY <1>0, <1>5 DEF Coming
    <2>2. \A v \in Users : v # u => (May(v, n) <=> May(v, n)')
        BY <1>0, <1>1 DEF May
    <2>3. ~May(u, n)
        BY DEF InsertUser, May
    <2>4. Calm(n)
        BY <1>0, <1>1, <2>1, <2>2, <2>3 DEF Calm
    <2>5. KeepsLinks(n)
        BY <1>0 DEF KeepsLinks, Leaving, Aside
    <2>. QED  BY <1>0, <1>5, <2>4, <2>5, HomeGood
<1>. QED  BY <1>2, <1>3, <1>4, <1>5

LEMMA AbandonGood ==
    ASSUME TypeOK, Shape, NEW t \in Threads, InsertFails(t) \/ InsertOrphan(t),
           NEW n \in Nodes, Good(n)
    PROVE  Good(n)'
<1>. DEFINE Lacks == {m \in NodesOf(grp[t]) :
                         \E u \in Users : Live(u) /\ GroupOf[u] = grp[t]
                                      /\ u \notin installed[m] \cap links[m]}
<1>0. /\ pc[t] = "create" /\ grp' = [grp EXCEPT ![t] = None]
      /\ UNCHANGED <<people, places, links, installed, pending, holder, marked>>
    BY DEF InsertFails, InsertOrphan, Abandon
<1>home. /\ Aside(t) /\ pc[t] \notin Applying \cup {"groups"}
      /\ grp[t] \in Groups /\ grp'[t] = None
    BY <1>0, ContinueSound DEF Continue, Applying, Inside, Shape, Sound, Tidy, TypeOK
<1>1. Excuse(Lacks)
    BY DEF InsertFails, InsertOrphan, Abandon
<1>. HIDE DEF Lacks
<1>2. /\ n \in Lacks => n \in excused' /\ holder[n] \notin clean'
      /\ n \notin excused' => n \notin excused
      /\ holder[n] \in clean' => holder[n] \in clean
    BY <1>0, <1>home, <1>1, ExcuseFacts
<1>3. CASE n \in Lacks
    BY <1>0, <1>home, <1>2, <1>3, PassedGood
<1>4. CASE n \notin Lacks
    <2>1. \A u \in Users : May(u, n) <=> May(u, n)'
        BY <1>0, <1>home DEF May
    <2>2. \A u \in Users : May(u, n) /\ GroupOf[u] = grp[t] =>
                               u \in installed[n] \cap links[n]
        BY <1>4 DEF Lacks, NodesOf, May
    <2>3. \A u \in Users : Coming(u) /\ GroupOf[u] # grp[t] => Coming(u)'
        BY <1>0, <1>home DEF Coming, Aside
    <2>4. Calm(n)
        BY <1>0, <1>home, <2>1, <2>2, <2>3 DEF Calm
    <2>5. KeepsLinks(n)
        BY <1>0, <1>home DEF KeepsLinks, Leaving, Aside
    <2>. QED  BY <1>0, <1>home, <1>2, <2>4, <2>5, HomeGood
<1>. QED  BY <1>3, <1>4

LEMMA RevokeLinksGood ==
    ASSUME TypeOK, Shape, NEW t \in Threads, RevokeLinks(t), NEW n \in Nodes, Good(n)
    PROVE  Good(n)'
<1>1. /\ pc[t] = "revoke" /\ todo' = [todo EXCEPT ![t] = {grp[t]}]
       /\ grp' = [grp EXCEPT ![t] = None]
       /\ UNCHANGED <<people, places, installed, memory, history>>
    BY DEF RevokeLinks, ThenApply
<1>2. grp[t] \in Groups /\ \A u \in more[t] : GroupOf[u] = grp[t]
    BY <1>1 DEF Shape, Sound, Tidy
<1>3. /\ Aside(t) /\ pc[t] = "revoke" /\ pc[t] \notin Applying \cup {"groups"}
      /\ UNCHANGED <<people, places, installed, pending, holder, history>>
      /\ grp'[t] = None /\ todo'[t] = {grp[t]}
    BY <1>1, ContinueSound DEF Continue, Applying, Inside, TypeOK
<1>4. CASE grp[t] \in serves[n]
    <2>1. Due(n)'
        BY <1>3, <1>4, TodoDue
    <2>. QED  BY <2>1, PassedGood
<1>5. CASE grp[t] \notin serves[n]
    <2>1. Calm(n)
        BY <1>3, TablesCalm
    <2>2. \A u \in Users : May(u, n) => u \notin more[t]
        BY <1>3, <1>2, <1>5 DEF May
    <2>4. \A u \in Users : Leaving(u) => Leaving(u)'
        BY <1>3 DEF Leaving, Aside
    <2>3. KeepsLinks(n)
        BY <2>2, <2>4 DEF RevokeLinks, WithoutLinks, KeepsLinks
    <2>. QED  BY <1>3, <1>5, <2>1, <2>3, HomeGood
<1>. QED  BY <1>4, <1>5

LEMMA DropUserGood ==
    ASSUME TypeOK, Shape, NEW t \in Threads, NEW u \in Users, DropUser(t, u),
           NEW n \in Nodes, Good(n)
    PROVE  Good(n)'
<1>0. /\ Aside(t) /\ pc[t] = "delete" /\ pc[t] \notin Applying \cup {"groups"}
      /\ UNCHANGED <<good, places, installed, pending, holder, history>>
      /\ grp[t] \in Groups /\ \A v \in more[t] : GroupOf[v] = grp[t]
      /\ u \in more[t]
    BY ContinueSound DEF Continue, DropUser, Applying, Inside, Shape, Sound, Tidy
<1>1. /\ grp'[t] = None /\ (Live(u) => todo'[t] = {grp[t]})
      /\ \A v \in Users : v # u => life'[v] = life[v]
      /\ ~Live(u)'
      /\ links'[n] = links[n] \ {u}
    BY DEF DropUser, ThenApply, WithoutLinks, TypeOK
<1>2. CASE grp[t] \notin serves[n]
    <2>1. Calm(n) /\ KeepsLinks(n)
        BY <1>0, <1>1, <1>2, OtherCalm
    <2>. QED  BY <1>0, <1>1, <2>1, HomeGood
<1>3. CASE grp[t] \in serves[n] /\ Live(u)
    <2>1. Due(n)'
        BY <1>0, <1>1, <1>3, TodoDue
    <2>. QED  BY <2>1, PassedGood
<1>4. CASE ~Live(u)
    <2>1. \A v \in Users : /\ May(v, n) <=> May(v, n)'
                           /\ May(v, n) => v # u
                           /\ Coming(v) => Coming(v)'
        BY <1>0, <1>1, <1>4 DEF May, Coming, Aside
    <2>2. Calm(n)
        BY <1>0, <2>1 DEF Calm
    <2>3. more[t] = {u}
        BY <1>0 DEF Shape, Sound, Tidy
    <2>4. KeepsLinks(n)
        BY <1>0, <1>1, <2>1, <2>3 DEF KeepsLinks, Leaving, Aside
    <2>. QED  BY <1>0, <1>1, <2>2, <2>4, HomeGood
<1>. QED  BY <1>2, <1>3, <1>4

LEMMA DropUserFailsGood ==
    ASSUME TypeOK, Shape, NEW t \in Threads, NEW u \in Users, DropUserFails(t, u),
           NEW n \in Nodes, Good(n)
    PROVE  Good(n)'
<1>. DEFINE Lacks == {m \in Nodes : Live(u) /\ u \in installed[m] \ links[m]}
<1>0. /\ pc[t] = "delete" /\ u \in more[t]
      /\ UNCHANGED <<people, places, links, installed, pending, holder, marked>>
      /\ grp' = [grp EXCEPT ![t] = None] /\ Excuse(Lacks)
    BY DEF DropUserFails
<1>home. /\ Aside(t) /\ pc[t] \notin Applying \cup {"groups"}
      /\ grp'[t] = None /\ more[t] = {u}
    BY <1>0, ContinueSound DEF Continue, Applying, Inside, Shape, Sound, Tidy, TypeOK
<1>1. n \in Lacks <=> Live(u) /\ u \in installed[n] \ links[n]
    OBVIOUS
<1>. HIDE DEF Lacks
<1>2. /\ n \in Lacks => n \in excused' /\ holder[n] \notin clean'
      /\ n \notin excused' => n \notin excused
      /\ holder[n] \in clean' => holder[n] \in clean
    BY <1>0, <1>home, ExcuseFacts
<1>3. CASE n \in Lacks
    BY <1>0, <1>home, <1>2, <1>3, PassedGood
<1>4. CASE n \notin Lacks
    <2>1. \A v \in Users : (May(v, n) <=> May(v, n)') /\ (Coming(v) => Coming(v)')
        BY <1>0, <1>home DEF May, Coming, Aside
    <2>2. Calm(n)
        BY <1>0, <1>home, <2>1 DEF Calm
    <2>3. KeepsLinks(n)
        BY <1>0, <1>home, <1>1, <1>4 DEF KeepsLinks, Leaving, Aside, May
    <2>. QED  BY <1>0, <1>home, <1>2, <2>2, <2>3, HomeGood
<1>. QED  BY <1>3, <1>4

LEMMA MoveCommitsGood ==
    ASSUME TypeOK, Shape, NEW t \in Threads, NEW m \in Nodes, MoveCommits(t, m),
           NEW n \in Nodes, Good(n)
    PROVE  Good(n)'
<1>0. /\ Aside(t) /\ pc[t] = "move" /\ pc[t] \notin Applying \cup {"groups"}
      /\ UNCHANGED <<people, glife, open, links, installed, pending, holder, marked>>
      /\ grp[t] = None /\ grp'[t] = None /\ m \in left[t]
    BY ContinueSound DEF Continue, MoveCommits, Excuse, Applying, Inside, Shape, Sound,
                         Tidy
<1>. DEFINE kept == fresh[t] \cap serves[m]
            part == ids[t] = {} /\ kept \notin {{}, serves[m]}
<1>at. Excuse(IF part THEN {m} ELSE {})
    BY DEF MoveCommits
<1>. HIDE DEF part
<1>3. /\ part /\ n = m => n \in excused' /\ holder[n] \notin clean'
      /\ n \notin excused' => n \notin excused
      /\ holder[n] \in clean' => holder[n] \in clean
    BY <1>0, <1>at, ExcuseFacts
<1>1. CASE serves'[n] = serves[n]
    <2>1. \A u \in Users : (May(u, n) <=> May(u, n)') /\ (Coming(u) => Coming(u)')
        BY <1>0, <1>1 DEF May, Coming, Aside
    <2>2. Calm(n)
        BY <1>0, <1>1, <2>1 DEF Calm
    <2>3. KeepsLinks(n)
        BY <1>0 DEF KeepsLinks, Leaving, Aside
    <2>. QED  BY <1>0, <1>3, <2>2, <2>3, HomeGood
<1>2. CASE serves'[n] # serves[n]
    <2>1. /\ serves' = [serves EXCEPT ![m] = kept \cup ids[t]]
          /\ pc' = [pc EXCEPT ![t] = "nodes"] /\ UNCHANGED <<left, ids>>
        BY <1>2 DEF MoveCommits
    <2>2. n = m /\ serves'[n] = kept \cup ids[t] /\ pc'[t] = "nodes"
        BY <1>2, <2>1 DEF TypeOK
    <2>3. CASE part
        BY <1>0, <1>3, <2>2, <2>3, PassedGood
    <2>4. CASE ~part
        <3>1. ids[t] \cap serves'[n] # {} \/ serves'[n] = {}
            BY <1>2, <2>2, <2>4 DEF part
        <3>2. WillApply(t, n)'
            BY <1>0, <2>1, <2>2, <3>1 DEF WillApply, Backed, Applying
        <3>. QED  BY <3>2, PassedGood DEF Due
    <2>. QED  BY <2>3, <2>4
<1>. QED  BY <1>1, <1>2

LEMMA SweepGood ==
    ASSUME TypeOK, Shape, Sweep, NEW n \in Nodes, Good(n)
    PROVE  Good(n)'
<1>0. /\ Sweeper \in Threads /\ Aside(Sweeper)
      /\ pc[Sweeper] \in {"idle", "swap"}
      /\ UNCHANGED <<people, places, agents, pending, holder, history, grp>>
      /\ pc'[Sweeper] \in {"swap", "groups"}
    BY SweepShape, Constants DEF Sweep, SweepList, SweepSwap, TypeOK
<1>1. Calm(n) /\ KeepsLinks(n)
    BY <1>0, TablesCalm
<1>. QED  BY <1>0, <1>1, HomeGood DEF Applying, Inside

LEMMA RestartGood ==
    ASSUME TypeOK, Shape, RestartPlane, NEW n \in Nodes, Good(n)
    PROVE  Good(n)'
<1>. SUFFICES ASSUME n \notin excused'
              PROVE  Sane(n)'
    BY DEF RestartPlane, Good
<1>1. /\ n \notin excused /\ serves[n] \cap Owing = {}
      /\ \A t \in Threads : n # node[t] /\ n \notin left[t]
    BY DEF RestartPlane
<1>2. holder[n] = None
    BY <1>1 DEF TypeOK, Shape, Held
<1>3. ~Kicked(n)
    BY <1>1, OwingFacts DEF Kicked
<1>4. ASSUME NEW t \in Threads PROVE ~WillApply(t, n)
    BY <1>1, OwingFacts DEF WillApply, Backed
<1>5. Right(n)
    BY <1>1, <1>2, <1>3, <1>4 DEF Good, Sane, Due
<1>6. \A u \in Users : May(u, n) => ~Coming(u) /\ ~Leaving(u)
    BY <1>1, OwingFacts DEF May, Coming, Leaving, Shape, Sound, Tidy
<1>7. \A u \in Users : May(u, n) <=> May(u, n)'
    BY DEF RestartPlane, May
<1>8. UNCHANGED <<installed, links>> /\ holder'[n] = None
    BY DEF RestartPlane
<1>9. Right(n)'
    BY <1>5, <1>6, <1>7, <1>8 DEF Right, TypeOK
<1>. QED  BY <1>8, <1>9 DEF Sane

-----------------------------------------------------------------------------
LEMMA NextSettled ==
    ASSUME SettledInv, [Next]_vars
    PROVE  SettledInv'
<1>0. /\ TypeOK /\ Shape /\ \A n \in Nodes : Good(n)
      /\ TypeOK' /\ Shape'
    BY NextShape DEF SettledInv
<1>. SUFFICES ASSUME NEW n \in Nodes PROVE Good(n)'
    BY <1>0 DEF SettledInv
<1>1. ASSUME NEW t \in Threads, Start(t) PROVE Good(n)'
    BY <1>0, <1>1, StartGood
<1>2. ASSUME NEW t \in Threads, Step(t) PROVE Good(n)'
    <2>1. CASE Continue(t)
        BY <1>0, <2>1, PatchWriteGood, InsertUserGood, AbandonGood, RevokeLinksGood,
           DropUserGood, DropUserFailsGood, MoveCommitsGood DEF Continue
    <2>2. CASE \/ \E g \in Groups : NextGroup(t, g) \/ NextGroupFails(t, g)
               \/ \E m \in Nodes : \/ NextNodeFails(t, m) \/ NodeUnread(t, m)
                                 \/ NoGroups(t, m)
               \/ EndGroup(t) \/ EndNode(t) \/ EndApply(t)
        <3>1. Aside(t)
            BY <1>0, <2>2, GroupShape
        <3>. QED  BY <1>0, <2>2, <3>1, NextGroupGood, NextGroupFailsGood,
                     NextNodeFailsGood, NodeUnreadGood, NoGroupsGood,
                     EndGroupGood, EndNodeGood, EndApplyGood
    <2>3. CASE \E m \in Nodes : Lock(t, m)
        BY <1>0, <2>3, LockShape, LockGood
    <2>4. CASE (\E g \in Groups : ReadGroup(t, g)) \/ ReadUsers(t) \/ Put(t)
        BY <1>0, <2>4, ReadShape, ReadGood
    <2>6. CASE PutPartial(t)
        BY <1>0, <2>6, ReadShape, PutPartialGood
    <2>5. CASE Returning(t)
        BY <1>0, <2>5, ReturningShape, ReturningGood
    <2>. QED  BY <1>2, <2>1, <2>2, <2>3, <2>4, <2>5, <2>6, Steps
<1>3. CASE Sweep
    BY <1>0, <1>3, SweepGood
<1>4. CASE RestartPlane
    BY <1>0, <1>4, RestartGood
<1>5. CASE UNCHANGED vars
    <2>1. \A u \in Users : /\ May(u, n) <=> May(u, n)'
                           /\ Coming(u) <=> Coming(u)'
                           /\ Leaving(u) <=> Leaving(u)'
        BY <1>5 DEF vars, May, Coming, Leaving
    <2>2. Due(n) <=> Due(n)'
        BY <1>5 DEF vars, Due, Kicked, Missed, WillApply, Backed
    <2>3. Right(n) <=> Right(n)'
        BY <1>0, <1>5, <2>1 DEF vars, Right, TypeOK
    <2>4. ASSUME NEW t \in Threads
          PROVE  (Fresh(t, n) <=> Fresh(t, n)') /\ (Backed(t, n) <=> Backed(t, n)')
        BY <1>0, <1>5, <2>1 DEF vars, Fresh, Backed, TypeOK
    <2>. QED  BY <1>0, <1>5, <2>2, <2>3, <2>4 DEF vars, Good, Sane, TypeOK
<1>. QED  BY <1>1, <1>2, <1>3, <1>4, <1>5 DEF Next

\* When every request has been answered and no kick is left, each node that
\* the code has not given up on lets in exactly its members, with a link each:
\* whatever the groups, nodes, requests and failures were.
THEOREM NobodyForgotten == Spec => []Settled
<1>1. Init => SettledInv
    BY InitSettled
<1>2. SettledInv /\ [Next]_vars => SettledInv'
    BY NextSettled
<1>3. SettledInv => Settled
    BY SettledNow
<1>. QED  BY <1>1, <1>2, <1>3, PTL DEF Spec
=============================================================================
