---------------------------- MODULE RealityProofs ----------------------------
(***************************************************************************)
(* Proofs about Reality, for every set of nodes and names and every bound. *)
(***************************************************************************)
EXTENDS Reality, TLAPS

USE DEF applier, admin, link, plane

-----------------------------------------------------------------------------
(* Rows *)

\* A value that a row of this field may hold.
Fits(f, v) == (f = "sni" => v \in SNIs) /\ (f # "sni" => v \in Nat)

LEMMA FieldFits == \A r \in Settings, f \in Fields : Fits(f, r[f])
BY DEF Settings, Fields, Fits

LEMMA RowsHave == \A r \in Settings : DOMAIN r = Fields
BY DEF Settings, Fields

LEMMA PutRow ==
    ASSUME NEW r \in Settings, NEW f \in Fields, NEW v, Fits(f, v)
    PROVE  /\ [r EXCEPT ![f] = v] \in Settings
           /\ \A g \in Fields : [r EXCEPT ![f] = v][g] = IF g = f THEN v ELSE r[g]
<1>1. \A g \in Fields : [r EXCEPT ![f] = v][g] = IF g = f THEN v ELSE r[g]
    BY RowsHave
<1>2. CASE f = "pub"
    BY <1>2 DEF Settings, Fits
<1>3. CASE f = "priv"
    BY <1>3 DEF Settings, Fits
<1>4. CASE f = "sid"
    BY <1>4 DEF Settings, Fits
<1>5. CASE f = "sni"
    BY <1>5 DEF Settings, Fits
<1>. QED  BY <1>1, <1>2, <1>3, <1>4, <1>5 DEF Fields

LEMMA FilledName == \A s \in SNIs : FillMissing(s) \in SNIs /\ FillMissing(s) # Unset
BY RealityAssumption DEF FillMissing, SNIs

LEMMA EmptyRows == Empty \in Settings
BY DEF Empty, Settings, SNIs

LEMMA OrderFields == \A i \in 1 .. 4 : Order[i] \in Fields
BY DEF Order, Fields

-----------------------------------------------------------------------------
(* Types *)

LEMMA InitType == Init => PlaneOK
<1>. SUFFICES ASSUME Init
              PROVE  PlaneOK
    OBVIOUS
<1>1. /\ rows \in Settings /\ runs \in [Nodes -> Settings]
      /\ got \in [Nodes -> Settings]
    BY EmptyRows DEF Init
<1>2. /\ pc \in [Nodes -> {"idle", "read", "write", "push"}]
      /\ step \in [Nodes -> 1 .. 5] /\ todo \in [Nodes -> SUBSET Fields]
    BY DEF Init
<1>3. /\ patch \in {"idle", "write"} /\ asked \in SNIs /\ torn \in BOOLEAN
      /\ blind \subseteq Nodes /\ clean \subseteq Nodes /\ fresh \subseteq Nodes
    BY DEF Init, SNIs
<1>4. gens \in Nat /\ patches \in Nat /\ faults \in Nat /\ crashes \in Nat
    BY DEF Init
<1>. QED  BY <1>1, <1>2, <1>3, <1>4 DEF PlaneOK

LEMMA ReadType ==
    ASSUME PlaneOK, NEW n \in Nodes, Begin(n) \/ Read(n) \/ ReadFails(n)
    PROVE  PlaneOK'
<1>1. CASE Begin(n)
    BY <1>1 DEF PlaneOK, Begin, Goto
<1>2. CASE Read(n)
    <2>. DEFINE f == Order[step[n]]
    <2>1. step[n] \in 1 .. 4 /\ f \in Fields
        BY <1>2, OrderFields DEF PlaneOK, Read
    <2>2. [got[n] EXCEPT ![f] = rows[f]] \in Settings
        <3>1. got[n] \in Settings /\ rows \in Settings
            BY DEF PlaneOK
        <3>. HIDE DEF f
        <3>. QED  BY <2>1, <3>1, FieldFits, PutRow
    <2>3. got' \in [Nodes -> Settings]
        <3>1. got' = [got EXCEPT ![n] = [got[n] EXCEPT ![f] = rows[f]]]
            BY <1>2 DEF Read
        <3>. HIDE DEF f
        <3>. QED  BY <2>2, <3>1 DEF PlaneOK
    <2>4. step' \in [Nodes -> 1 .. 5]
        BY <1>2, <2>1 DEF PlaneOK, Read
    <2>. QED  BY <1>2, <2>3, <2>4 DEF PlaneOK, Read
<1>3. CASE ReadFails(n)
    <2>1. step' \in [Nodes -> 1 .. 5]
        BY <1>3 DEF PlaneOK, ReadFails
    <2>. QED  BY <1>3, <2>1 DEF PlaneOK, ReadFails, Fault
<1>. QED  BY <1>1, <1>2, <1>3

\* The keys a node will get, once they are read or generated.
Named(n) == [got[n] EXCEPT !.sni = FillMissing(@)]

Pair(n, g) == [pub |-> g, priv |-> g, sid |-> g, sni |-> FillMissing(got[n].sni)]

LEMMA NamedType == ASSUME PlaneOK, NEW n \in Nodes PROVE Named(n) \in Settings
<1>1. got[n] \in Settings /\ FillMissing(got[n].sni) \in SNIs
    BY FilledName DEF PlaneOK, Settings
<1>. QED  BY <1>1 DEF Named, Settings

LEMMA PairType ==
    ASSUME PlaneOK, NEW n \in Nodes, NEW g \in Nat
    PROVE  Pair(n, g) \in Settings
<1>1. FillMissing(got[n].sni) \in SNIs
    BY FilledName DEF PlaneOK, Settings
<1>. QED  BY <1>1 DEF Pair, Settings

LEMMA MakeType ==
    ASSUME PlaneOK, NEW n \in Nodes, Keep(n) \/ Generate(n)
    PROVE  PlaneOK'
<1>1. CASE Keep(n)
    <2>1. got' = [got EXCEPT ![n] = Named(n)]
        BY <1>1 DEF Keep, Named
    <2>2. got' \in [Nodes -> Settings]
        BY <2>1, NamedType DEF PlaneOK
    <2>. QED  BY <1>1, <2>2 DEF PlaneOK, Keep, Goto
<1>2. CASE Generate(n)
    <2>1. gens' = gens + 1 /\ gens' \in Nat
        BY <1>2 DEF PlaneOK, Generate
    <2>2. got' = [got EXCEPT ![n] = Pair(n, gens')]
        BY <1>2 DEF Generate, Pair
    <2>3. got' \in [Nodes -> Settings]
        <3>1. Pair(n, gens') \in Settings
            BY <2>1, PairType
        <3>. QED  BY <2>2, <3>1 DEF PlaneOK
    <2>4. /\ torn' = (torn \/ Writing) /\ Writing \in BOOLEAN
          /\ clean' \subseteq Nodes /\ fresh' = {}
          /\ pc' = [pc EXCEPT ![n] = "write"] /\ step' = [step EXCEPT ![n] = 1]
          /\ todo' = [todo EXCEPT ![n] = Fields]
          /\ UNCHANGED <<rows, runs, patch, asked, patches, blind, faults, crashes>>
        BY <1>2 DEF Generate, Goto, Writing, PlaneOK
    <2>5. torn' \in BOOLEAN
        BY <2>4 DEF PlaneOK
    <2>. QED  BY <2>1, <2>3, <2>4, <2>5 DEF PlaneOK
<1>. QED  BY <1>1, <1>2

LEMMA ReturnType ==
    ASSUME PlaneOK, NEW n \in Nodes, Return(n)
    PROVE  /\ pc' \in [Nodes -> {"idle", "read", "write", "push"}]
           /\ got' \in [Nodes -> Settings]
           /\ blind' \subseteq Nodes /\ clean' \subseteq Nodes
BY EmptyRows DEF PlaneOK, Return, Goto

LEMMA WriteType ==
    ASSUME PlaneOK, NEW n \in Nodes, WriteFails(n) \/ \E f \in Fields : Write(n, f)
    PROVE  PlaneOK'
<1>1. ASSUME NEW f \in Fields, Write(n, f)
      PROVE  PlaneOK'
    <2>1. rows' \in Settings
        <3>1. rows \in Settings /\ got[n] \in Settings
            BY DEF PlaneOK
        <3>2. rows' = [rows EXCEPT ![f] = got[n][f]]
            BY <1>1 DEF Write
        <3>. QED  BY <3>1, <3>2, FieldFits, PutRow
    <2>2. todo' \in [Nodes -> SUBSET Fields]
        BY <1>1 DEF PlaneOK, Write
    <2>3. pc' \in [Nodes -> {"idle", "read", "write", "push"}]
        BY <1>1 DEF PlaneOK, Write, Goto
    <2>. QED  BY <1>1, <2>1, <2>2, <2>3 DEF PlaneOK, Write
<1>2. CASE WriteFails(n)
    <2>1. /\ Return(n) /\ faults' = faults + 1 /\ torn' = (torn \/ gens > 1)
          /\ todo' = [todo EXCEPT ![n] = {}]
          /\ UNCHANGED <<rows, runs, step, patch, asked, patches, gens, fresh, crashes>>
        BY <1>2 DEF WriteFails, Fault
    <2>2. torn' \in BOOLEAN
        BY <2>1 DEF PlaneOK
    <2>3. todo' \in [Nodes -> SUBSET Fields] /\ faults' \in Nat
        BY <2>1 DEF PlaneOK
    <2>. QED  BY <2>1, <2>2, <2>3, ReturnType DEF PlaneOK
<1>. QED  BY <1>1, <1>2

LEMMA PushType ==
    ASSUME PlaneOK, NEW n \in Nodes, Push(n) \/ PushFails(n)
    PROVE  PlaneOK'
<1>1. CASE Push(n)
    <2>1. runs' \in [Nodes -> Settings] /\ fresh' \subseteq Nodes
        BY <1>1 DEF PlaneOK, Push
    <2>2. Return(n) /\ UNCHANGED <<rows, step, todo, patch, asked, patches, gens,
                                   torn, faults, crashes>>
        BY <1>1 DEF Push
    <2>. QED  BY <2>1, <2>2, ReturnType DEF PlaneOK
<1>2. CASE PushFails(n)
    <2>1. /\ Return(n) /\ faults' = faults + 1
          /\ UNCHANGED <<rows, runs, step, todo, patch, asked, patches, gens,
                         fresh, torn, crashes>>
        BY <1>2 DEF PushFails, Fault
    <2>. QED  BY <2>1, ReturnType DEF PlaneOK
<1>. QED  BY <1>1, <1>2

LEMMA PatchType ==
    ASSUME PlaneOK,
           \/ PatchWrite \/ PatchFails
           \/ \E name \in Names \cup {Unset} : PatchRead(name)
    PROVE  PlaneOK'
<1>1. ASSUME NEW name \in Names \cup {Unset}, PatchRead(name)
      PROVE  PlaneOK'
    <2>1. rows.sni \in SNIs /\ name \in SNIs /\ Default \in SNIs
        BY DEF PlaneOK, Settings, SNIs
    <2>2. asked' \in {FillMissing(rows.sni), name, Default} /\ faults' \in Nat
        BY <1>1 DEF PatchRead, Fault, PlaneOK
    <2>3. asked' \in SNIs
        BY <2>1, <2>2, FilledName
    <2>. QED  BY <1>1, <2>2, <2>3 DEF PlaneOK, PatchRead
<1>2. CASE PatchWrite
    <2>1. rows' \in Settings
        BY <1>2 DEF PlaneOK, PatchWrite, Settings
    <2>. QED  BY <1>2, <2>1 DEF PlaneOK, PatchWrite, SNIs
<1>3. CASE PatchFails
    BY <1>3 DEF PlaneOK, PatchFails, Fault, SNIs
<1>. QED  BY <1>1, <1>2, <1>3

LEMMA RestartType ==
    ASSUME PlaneOK, RestartPlane
    PROVE  PlaneOK'
<1>1. /\ torn' = (torn \/ (Writing /\ gens > 1)) /\ Writing \in BOOLEAN
      /\ crashes' = crashes + 1
      /\ pc' = [m \in Nodes |-> "idle"] /\ todo' = [m \in Nodes |-> {}]
      /\ step' = [m \in Nodes |-> 1] /\ got' = [m \in Nodes |-> Empty]
      /\ patch' = "idle" /\ asked' = Unset /\ blind' = {} /\ clean' = {}
      /\ UNCHANGED <<rows, runs, patches, gens, fresh, faults>>
    BY DEF RestartPlane, Writing
<1>2. torn' \in BOOLEAN
    BY <1>1 DEF PlaneOK
<1>3. got' \in [Nodes -> Settings]
    BY <1>1, EmptyRows
<1>. QED  BY <1>1, <1>2, <1>3 DEF PlaneOK, SNIs

LEMMA ShareType ==
    ASSUME PlaneOK, SharePub \/ ShareSid \/ ShareSni
    PROVE  PlaneOK'
BY DEF PlaneOK, SharePub, ShareSid, ShareSni, Fault

LEMMA NextType ==
    ASSUME PlaneOK, [Next]_vars
    PROVE  PlaneOK'
<1>1. CASE UNCHANGED vars
    BY <1>1 DEF vars, PlaneOK
<1>2. CASE Next
    BY <1>2, ReadType, MakeType, WriteType, PushType, PatchType, ShareType,
       RestartType
       DEF Next
<1>. QED  BY <1>1, <1>2

\* Only realityShare reads a link; what else happens can make it unsound.
LEMMA LinkFrame ==
    ASSUME [Next]_vars
    PROVE  \/ UNCHANGED link
           \/ SharePub \/ ShareSid \/ ShareSni
           \/ RestartPlane
           \/ sound' = FALSE /\ UNCHANGED <<at, share>>
BY DEF Next, vars, Begin, Read, ReadFails, Keep, Generate, Write, WriteFails,
       Push, PushFails, PatchRead, PatchWrite, PatchFails

LEMMA NextLink ==
    ASSUME PlaneOK, LinkOK, [Next]_vars
    PROVE  LinkOK'
<1>. rows.pub \in Nat /\ rows.sid \in Nat /\ FillMissing(rows.sni) \in SNIs
    BY FilledName DEF PlaneOK, Settings
<1>1. CASE SharePub
    BY <1>1 DEF SharePub, LinkOK, Shares, NoShare, SNIs, Writing
<1>2. CASE ShareSid
    BY <1>2 DEF ShareSid, LinkOK, Shares
<1>3. CASE ShareSni
    BY <1>3 DEF ShareSni, LinkOK, Shares, SNIs
<1>4. CASE RestartPlane
    BY <1>4 DEF RestartPlane, LinkOK
<1>5. CASE UNCHANGED link
    BY <1>5 DEF LinkOK
<1>6. CASE sound' = FALSE /\ UNCHANGED <<at, share>>
    BY <1>6 DEF LinkOK
<1>. QED  BY <1>1, <1>2, <1>3, <1>4, <1>5, <1>6, LinkFrame

\* Type correctness, with every order of applies, patches, links and failures.
THEOREM TypeCorrect == Spec => []TypeOK
<1>1. Init => TypeOK
    <2>. SUFFICES ASSUME Init
                  PROVE  TypeOK
        OBVIOUS
    <2>1. LinkOK
        BY DEF Init, LinkOK, Shares, NoShare, SNIs
    <2>. QED  BY <2>1, InitType DEF TypeOK
<1>2. TypeOK /\ [Next]_vars => TypeOK'
    BY NextType, NextLink DEF TypeOK
<1>. QED  BY <1>1, <1>2, PTL DEF Spec
-----------------------------------------------------------------------------
(* KeepsKeys *)

\* A pair that is written or pushed is whole; and who began with whole rows
\* and read each of them finds them whole.
Keyed(n) ==
    /\ pc[n] # "read" => step[n] = 1
    /\ pc[n] \in {"write", "push"} => Whole(got[n])
    /\ pc[n] = "read" /\ n \notin blind =>
           /\ Stands
           /\ \A i \in 1 .. 3 : i < step[n] => got[n][Order[i]] # 0

KeyInv == \A n \in Nodes : Keyed(n)

LEMMA KeyOrder ==
    /\ Order[1] = "pub" /\ Order[2] = "priv" /\ Order[3] = "sid"
    /\ Order[4] = "sni"
BY DEF Order

LEMMA StandsAre ==
    Stands <=> \A i \in 1 .. 3 : rows[Order[i]] # 0
<1>1. \A i \in 1 .. 3 : i = 1 \/ i = 2 \/ i = 3
    OBVIOUS
<1>. QED  BY <1>1, KeyOrder DEF Stands

\* A step of another node leaves this one's keys alone, and whole rows whole.
LEMMA KeyFrame ==
    ASSUME PlaneOK, KeyInv, NEW m \in Nodes,
           pc'[m] = pc[m], step'[m] = step[m], got'[m] = got[m],
           m \in blind => m \in blind',
           Stands => Stands'
    PROVE  Keyed(m)'
BY DEF KeyInv, Keyed, Whole

LEMMA ReadKeys ==
    ASSUME PlaneOK, KeyInv, NEW n \in Nodes, Begin(n) \/ Read(n) \/ ReadFails(n)
    PROVE  KeyInv'
<1>0. /\ rows' = rows /\ (Stands <=> Stands')
      /\ \A m \in Nodes \ {n} :
             /\ pc'[m] = pc[m] /\ step'[m] = step[m] /\ got'[m] = got[m]
             /\ m \in blind <=> m \in blind'
    BY DEF PlaneOK, Begin, Read, ReadFails, Goto, Stands
<1>1. Keyed(n)
    BY DEF KeyInv
<1>2. Keyed(n)'
    <2>1. CASE Begin(n)
        <3>1. /\ pc'[n] = "read" /\ step'[n] = 1
              /\ n \notin blind' => Stands
            BY <1>1, <2>1 DEF Begin, Goto, Keyed, PlaneOK
        <3>. QED  BY <1>0, <3>1 DEF Keyed
    <2>2. CASE Read(n)
        <3>. DEFINE s == step[n]
        <3>1. /\ pc[n] = "read" /\ pc'[n] = "read" /\ s \in 1 .. 4
              /\ step'[n] = s + 1 /\ blind' = blind
              /\ got'[n] = [got[n] EXCEPT ![Order[s]] = rows[Order[s]]]
            BY <2>2 DEF Read, PlaneOK
        <3>2. ASSUME n \notin blind', NEW i \in 1 .. 3, i < s + 1
              PROVE  got'[n][Order[i]] # 0
            <4>1. /\ Order[i] \in Fields /\ Order[s] \in Fields
                  /\ got[n] \in Settings /\ rows \in Settings
                BY <3>1, OrderFields DEF PlaneOK
            <4>2. got'[n][Order[i]] = IF Order[i] = Order[s] THEN rows[Order[s]]
                                      ELSE got[n][Order[i]]
                BY <3>1, <4>1, FieldFits, PutRow
            <4>3. rows[Order[i]] # 0
                BY <1>1, <3>1, <3>2, StandsAre DEF Keyed
            <4>4. i # s => got[n][Order[i]] # 0
                BY <1>1, <3>1, <3>2 DEF Keyed
            <4>. QED  BY <4>2, <4>3, <4>4
        <3>. QED  BY <1>0, <1>1, <3>1, <3>2 DEF Keyed
    <2>3. CASE ReadFails(n)
        <3>1. pc'[n] = "read" /\ n \in blind'
            BY <2>3 DEF ReadFails
        <3>. QED  BY <3>1 DEF Keyed
    <2>. QED  BY <2>1, <2>2, <2>3
<1>. QED  BY <1>0, <1>2, KeyFrame DEF KeyInv

LEMMA MakeKeys ==
    ASSUME PlaneOK, KeyInv, NEW n \in Nodes, Keep(n) \/ Generate(n)
    PROVE  KeyInv'
<1>0. /\ rows' = rows /\ (Stands <=> Stands')
      /\ \A m \in Nodes \ {n} :
             /\ pc'[m] = pc[m] /\ step'[m] = step[m] /\ got'[m] = got[m]
             /\ m \in blind <=> m \in blind'
      /\ pc'[n] # "read" /\ step'[n] = 1
    BY DEF PlaneOK, Keep, Generate, Goto, Stands
<1>1. Whole(got'[n])
    <2>1. CASE Keep(n)
        <3>1. got'[n] = Named(n) /\ Whole(got[n]) /\ got[n] \in Settings
            BY <2>1 DEF Keep, Named, PlaneOK
        <3>. QED  BY <3>1 DEF Whole, Named, Settings
    <2>2. CASE Generate(n)
        <3>1. got'[n] = Pair(n, gens') /\ gens' # 0
            BY <2>2 DEF Generate, Pair, PlaneOK
        <3>. QED  BY <3>1 DEF Whole, Pair
    <2>. QED  BY <2>1, <2>2
<1>2. Keyed(n)'
    BY <1>0, <1>1 DEF Keyed, Whole
<1>. QED  BY <1>0, <1>2, KeyFrame DEF KeyInv

LEMMA WriteKeys ==
    ASSUME PlaneOK, KeyInv, NEW n \in Nodes, NEW f \in Fields, Write(n, f)
    PROVE  KeyInv'
<1>1. rows' = [rows EXCEPT ![f] = got[n][f]] /\ pc[n] = "write"
      /\ step' = step /\ got' = got /\ blind' = blind
    BY DEF Write
<1>2. Whole(got[n]) /\ got[n] \in Settings /\ rows \in Settings
    BY <1>1 DEF KeyInv, Keyed, PlaneOK
<1>3. \A g \in Fields : rows'[g] = IF g = f THEN got[n][f] ELSE rows[g]
    BY <1>1, <1>2, FieldFits, PutRow
<1>4. Stands => Stands'
    BY <1>2, <1>3 DEF Stands, Whole, Fields
<1>5. pc'[n] \in {"write", "push"}
      /\ \A m \in Nodes \ {n} : pc'[m] = pc[m]
    BY DEF Write, Goto, PlaneOK
<1>6. Keyed(n)'
    BY <1>1, <1>2, <1>5 DEF KeyInv, Keyed, Whole
<1>. QED  BY <1>1, <1>4, <1>5, <1>6, KeyFrame DEF KeyInv

LEMMA ReturnKeys ==
    ASSUME PlaneOK, KeyInv, NEW n \in Nodes, Return(n), UNCHANGED <<rows, step>>,
           pc[n] # "read"
    PROVE  KeyInv'
<1>1. /\ \A m \in Nodes \ {n} :
             /\ pc'[m] = pc[m] /\ step'[m] = step[m] /\ got'[m] = got[m]
             /\ m \in blind <=> m \in blind'
      /\ Stands <=> Stands'
      /\ pc'[n] = "idle"
    BY DEF Return, Goto, PlaneOK, Stands
<1>2. Keyed(n)'
    BY <1>1 DEF KeyInv, Keyed
<1>. QED  BY <1>1, <1>2, KeyFrame DEF KeyInv

LEMMA PatchKeys ==
    ASSUME PlaneOK, KeyInv,
           \/ PatchWrite \/ PatchFails
           \/ \E name \in Names \cup {Unset} : PatchRead(name)
    PROVE  KeyInv'
<1>1. UNCHANGED <<pc, step, got, blind>>
    BY DEF PatchWrite, PatchFails, PatchRead
<1>2. rows' = rows \/ rows' = [rows EXCEPT !.sni = asked]
    BY DEF PatchWrite, PatchFails, PatchRead
<1>3. Stands => Stands'
    BY <1>2 DEF Stands, PlaneOK, Settings
<1>. QED  BY <1>1, <1>3, KeyFrame DEF KeyInv

LEMMA NextKeys ==
    ASSUME PlaneOK, KeyInv, [Next]_vars
    PROVE  KeyInv'
<1>1. CASE UNCHANGED vars
    BY <1>1 DEF vars, KeyInv, Keyed, Stands, Whole
<1>2. ASSUME NEW n \in Nodes, WriteFails(n) \/ Push(n) \/ PushFails(n)
      PROVE  KeyInv'
    BY <1>2, ReturnKeys DEF WriteFails, Push, PushFails
<1>3. CASE RestartPlane
    BY <1>3 DEF RestartPlane, KeyInv, Keyed
<1>4. CASE SharePub \/ ShareSid \/ ShareSni
    BY <1>4 DEF SharePub, ShareSid, ShareSni, KeyInv, Keyed, Stands, Whole
<1>. QED  BY <1>1, <1>2, <1>3, <1>4, ReadKeys, MakeKeys, WriteKeys, PatchKeys
          DEF Next

LEMMA KeysHold == Spec => [](PlaneOK /\ KeyInv)
<1>1. Init => PlaneOK /\ KeyInv
    BY InitType DEF Init, KeyInv, Keyed
<1>2. PlaneOK /\ KeyInv /\ [Next]_vars => (PlaneOK /\ KeyInv)'
    BY NextType, NextKeys
<1>. QED  BY <1>1, <1>2, PTL DEF Spec

\* Only an apply that began before the first pair stood, or failed to read a
\* row, generates another pair (ensureReality): whatever the order of applies,
\* patches and restarts, no other cuts off the links that were handed out.
THEOREM KeysAreKept == Spec => KeepsKeys
<1>1. PlaneOK /\ KeyInv => \A n \in Nodes : Generate(n) => n \in blind
    <2>. SUFFICES ASSUME PlaneOK, KeyInv, NEW n \in Nodes, Generate(n),
                         n \notin blind
                  PROVE  FALSE
        OBVIOUS
    <2>1. pc[n] = "read" /\ step[n] = 5 /\ ~Whole(got[n])
        BY DEF Generate
    <2>2. \A i \in 1 .. 3 : got[n][Order[i]] # 0
        BY <2>1 DEF KeyInv, Keyed
    <2>. QED  BY <2>1, <2>2, KeyOrder DEF Whole
<1>. QED  BY <1>1, KeysHold, PTL DEF KeepsKeys
-----------------------------------------------------------------------------
(* Reachable *)

\* As long as no two pairs were mixed, one apply writes at a time, and the
\* rows it has written are those of its pair: the youngest one.
OneWriter ==
    \A m, n \in Nodes : pc[m] = "write" /\ pc[n] = "write" => m = n

Youngest ==
    \A n \in Nodes : pc[n] = "write" =>
        /\ got[n].pub = gens /\ got[n].priv = gens
        /\ got[n].sni # Unset
        /\ todo[n] # {}
        /\ \A f \in Fields \ todo[n] :
               f # "sni" \/ n \in clean => rows[f] = got[n][f]

\* When nobody writes, whole rows hold a pair; only the first one may have been
\* left in part, beside rows that are empty.
Paired ==
    /\ ~Writing /\ Stands => rows.pub = rows.priv
    /\ gens <= 1 => rows.pub \in {0, gens} /\ rows.priv \in {0, gens}

\* A clean apply reads rows that nobody writes, and pushes what they say.
Quiet(n) == n \in clean /\ pc[n] \in {"read", "push"} => ~Writing

Faithful(n) ==
    /\ n \in clean /\ pc[n] = "read" =>
           \A i \in 1 .. 4 : i < step[n] => got[n][Order[i]] = rows[Order[i]]
    /\ n \in clean /\ pc[n] = "push" =>
           /\ rows.pub # 0 /\ got[n].priv = rows.pub
           /\ got[n].sid = rows.sid /\ got[n].sni = FillMissing(rows.sni)

\* A node runs what the rows say.
Matches(n) ==
    /\ rows.pub # 0 /\ runs[n].priv = rows.pub
    /\ runs[n].sid = rows.sid
    /\ runs[n].sni = FillMissing(rows.sni)

Served == /\ fresh # {} => ~Writing
          /\ \A n \in fresh : Matches(n)

ReachInv ==
    torn \/ /\ OneWriter /\ Youngest /\ Paired
            /\ \A n \in Nodes : Quiet(n) /\ Faithful(n)
            /\ Served


LEMMA SameWriters ==
    ASSUME \A m \in Nodes : pc'[m] = "write" <=> pc[m] = "write"
    PROVE  Writing' <=> Writing
BY DEF Writing

\* A step that leaves the rows and who writes them alone.
LEMMA CalmFrame ==
    ASSUME PlaneOK, OneWriter, Youngest, Paired,
           rows' = rows, gens' = gens, todo' = todo,
           \A m \in Nodes : pc'[m] = "write" <=> pc[m] = "write",
           \A m \in Nodes : pc[m] = "write" =>
               got'[m] = got[m] /\ (m \in clean' => m \in clean)
    PROVE  OneWriter' /\ Youngest' /\ Paired'
<1>1. Writing' <=> Writing
    BY SameWriters
<1>2. OneWriter'
    BY DEF OneWriter
<1>3. Youngest'
    BY DEF Youngest
<1>4. Paired'
    BY <1>1 DEF Paired, Stands
<1>. QED  BY <1>2, <1>3, <1>4

LEMMA NodeFrame ==
    ASSUME NEW m \in Nodes, Quiet(m), Faithful(m),
           rows' = rows, Writing' <=> Writing,
           pc'[m] = pc[m], step'[m] = step[m], got'[m] = got[m],
           m \in clean' => m \in clean
    PROVE  Quiet(m)' /\ Faithful(m)'
BY DEF Quiet, Faithful

LEMMA ServedFrame ==
    ASSUME Served, rows' = rows, runs' = runs, fresh' = fresh,
           Writing' => Writing
    PROVE  Served'
BY DEF Served, Matches

LEMMA ReadReach ==
    ASSUME PlaneOK, KeyInv, ReachInv, NEW n \in Nodes,
           Begin(n) \/ Read(n) \/ ReadFails(n)
    PROVE  ReachInv'
<1>. SUFFICES ASSUME ~torn'
              PROVE  ReachInv'
    BY DEF ReachInv
<1>1. /\ UNCHANGED <<rows, runs, gens, todo, fresh, torn>>
      /\ pc[n] \in {"idle", "read"} /\ pc'[n] = "read"
      /\ \A m \in Nodes \ {n} :
             /\ pc'[m] = pc[m] /\ step'[m] = step[m] /\ got'[m] = got[m]
             /\ m \in clean' <=> m \in clean
    BY DEF Begin, Read, ReadFails, Goto, PlaneOK
<1>2. /\ OneWriter /\ Youngest /\ Paired /\ Served
      /\ \A m \in Nodes : Quiet(m) /\ Faithful(m)
    BY <1>1 DEF ReachInv
<1>3. \A m \in Nodes : pc'[m] = "write" <=> pc[m] = "write"
    BY <1>1
<1>4. Writing' <=> Writing
    BY <1>3, SameWriters
<1>5. OneWriter' /\ Youngest' /\ Paired'
    BY <1>1, <1>2, <1>3, CalmFrame
<1>6. Served'
    BY <1>1, <1>2, <1>4, ServedFrame
<1>7. \A m \in Nodes \ {n} : Quiet(m)' /\ Faithful(m)'
    BY <1>1, <1>2, <1>4, NodeFrame
<1>8. Quiet(n)' /\ Faithful(n)'
    <2>1. CASE Begin(n)
        <3>1. step'[n] = 1 /\ (n \in clean' => ~Writing)
            BY <2>1 DEF Begin, KeyInv, Keyed
        <3>. QED  BY <1>1, <1>4, <3>1 DEF Quiet, Faithful
    <2>2. CASE Read(n)
        <3>. DEFINE s == step[n]
        <3>1. /\ pc[n] = "read" /\ s \in 1 .. 4 /\ step'[n] = s + 1
              /\ clean' = clean
              /\ got'[n] = [got[n] EXCEPT ![Order[s]] = rows[Order[s]]]
            BY <2>2 DEF Read, PlaneOK
        <3>2. ASSUME n \in clean, NEW i \in 1 .. 4, i < s + 1
              PROVE  got'[n][Order[i]] = rows[Order[i]]
            <4>1. /\ Order[i] \in Fields /\ Order[s] \in Fields
                  /\ got[n] \in Settings /\ rows \in Settings
                BY <3>1, OrderFields DEF PlaneOK
            <4>2. got'[n][Order[i]] = IF Order[i] = Order[s] THEN rows[Order[s]]
                                      ELSE got[n][Order[i]]
                BY <3>1, <4>1, FieldFits, PutRow
            <4>3. i # s => got[n][Order[i]] = rows[Order[i]]
                BY <1>2, <3>1, <3>2 DEF Faithful
            <4>. QED  BY <4>2, <4>3
        <3>3. Quiet(n)'
            BY <1>2, <1>4, <3>1 DEF Quiet
        <3>4. Faithful(n)'
            BY <1>1, <3>1, <3>2 DEF Faithful
        <3>. QED  BY <3>3, <3>4
    <2>3. CASE ReadFails(n)
        <3>1. n \notin clean'
            BY <2>3 DEF ReadFails
        <3>. QED  BY <3>1 DEF Quiet, Faithful
    <2>. QED  BY <2>1, <2>2, <2>3
<1>. QED  BY <1>5, <1>6, <1>7, <1>8 DEF ReachInv

LEMMA KeepReach ==
    ASSUME PlaneOK, KeyInv, ReachInv, NEW n \in Nodes, Keep(n)
    PROVE  ReachInv'
<1>. SUFFICES ASSUME ~torn'
              PROVE  ReachInv'
    BY DEF ReachInv
<1>1. /\ UNCHANGED <<rows, runs, gens, todo, clean, fresh, torn>>
      /\ pc[n] = "read" /\ pc'[n] = "push" /\ step[n] = 5 /\ Whole(got[n])
      /\ got'[n] = Named(n)
      /\ \A m \in Nodes \ {n} :
             pc'[m] = pc[m] /\ step'[m] = step[m] /\ got'[m] = got[m]
    BY DEF Keep, Goto, PlaneOK, Named
<1>2. /\ OneWriter /\ Youngest /\ Paired /\ Served
      /\ \A m \in Nodes : Quiet(m) /\ Faithful(m)
    BY <1>1 DEF ReachInv
<1>3. \A m \in Nodes : pc'[m] = "write" <=> pc[m] = "write"
    BY <1>1
<1>4. Writing' <=> Writing
    BY <1>3, SameWriters
<1>5. OneWriter' /\ Youngest' /\ Paired'
    BY <1>1, <1>2, <1>3, CalmFrame
<1>6. Served'
    BY <1>1, <1>2, <1>4, ServedFrame
<1>7. \A m \in Nodes \ {n} : Quiet(m)' /\ Faithful(m)'
    BY <1>1, <1>2, <1>4, NodeFrame
<1>8. ASSUME n \in clean
      PROVE  /\ ~Writing /\ rows.pub # 0 /\ got'[n].priv = rows.pub
             /\ got'[n].sid = rows.sid /\ got'[n].sni = FillMissing(rows.sni)
    <2>1. ~Writing
        BY <1>1, <1>2, <1>8 DEF Quiet
    <2>2. \A i \in 1 .. 4 : got[n][Order[i]] = rows[Order[i]]
        BY <1>1, <1>2, <1>8 DEF Faithful
    <2>3. /\ got[n].pub = rows.pub /\ got[n].priv = rows.priv
          /\ got[n].sid = rows.sid /\ got[n].sni = rows.sni
        BY <2>2, KeyOrder
    <2>4. Stands /\ rows.pub = rows.priv
        BY <1>1, <1>2, <2>1, <2>3 DEF Whole, Stands, Paired
    <2>5. /\ got'[n].priv = got[n].priv /\ got'[n].sid = got[n].sid
          /\ got'[n].sni = FillMissing(got[n].sni)
        <3>1. got[n] \in Settings
            BY DEF PlaneOK
        <3>. QED  BY <1>1, <3>1 DEF Named, Settings
    <2>. QED  BY <2>1, <2>3, <2>4, <2>5 DEF Stands
<1>9. Quiet(n)' /\ Faithful(n)'
    BY <1>1, <1>4, <1>8 DEF Quiet, Faithful
<1>. QED  BY <1>5, <1>6, <1>7, <1>9 DEF ReachInv

LEMMA GenerateReach ==
    ASSUME PlaneOK, ReachInv, NEW n \in Nodes, Generate(n)
    PROVE  ReachInv'
<1>. SUFFICES ASSUME ~torn'
              PROVE  ReachInv'
    BY DEF ReachInv
<1>1. /\ ~torn /\ ~Writing /\ rows' = rows /\ gens' = gens + 1
      /\ gens \in Nat
      /\ got'[n] = Pair(n, gens') /\ todo'[n] = Fields
      /\ pc' = [pc EXCEPT ![n] = "write"]
      /\ clean' = clean \cap {n} /\ fresh' = {}
    BY DEF Generate, Goto, PlaneOK, Pair
<1>2. /\ pc'[n] = "write"
      /\ \A m \in Nodes \ {n} : pc'[m] = pc[m] /\ pc[m] # "write"
    BY <1>1 DEF PlaneOK, Writing
<1>3. Paired
    BY <1>1 DEF ReachInv
<1>4. OneWriter' /\ Writing'
    BY <1>2 DEF OneWriter, Writing
<1>5. Youngest'
    <2>1. got'[n].sni # Unset /\ got'[n].pub = gens' /\ got'[n].priv = gens'
        BY <1>1, FilledName DEF PlaneOK, Settings, Pair
    <2>2. todo'[n] # {}
        BY <1>1 DEF Fields
    <2>. QED  BY <1>1, <1>2, <2>1, <2>2 DEF Youngest
<1>6. Paired'
    <2>1. gens' <= 1 => rows'.pub \in {0, gens'} /\ rows'.priv \in {0, gens'}
        BY <1>1, <1>3 DEF Paired
    <2>. QED  BY <1>4, <2>1 DEF Paired
<1>7. \A m \in Nodes : Quiet(m)' /\ Faithful(m)'
    BY <1>1, <1>2 DEF Quiet, Faithful
<1>8. Served'
    BY <1>1 DEF Served
<1>. QED  BY <1>4, <1>5, <1>6, <1>7, <1>8 DEF ReachInv

LEMMA WriteReach ==
    ASSUME PlaneOK, KeyInv, ReachInv, NEW n \in Nodes, NEW f \in Fields,
           Write(n, f)
    PROVE  ReachInv'
<1>. SUFFICES ASSUME ~torn'
              PROVE  ReachInv'
    BY DEF ReachInv
<1>1. /\ UNCHANGED <<runs, step, got, gens, clean, fresh, torn>>
      /\ pc[n] = "write" /\ f \in todo[n]
      /\ todo' = [todo EXCEPT ![n] = @ \ {f}]
      /\ rows' = [rows EXCEPT ![f] = got[n][f]]
      /\ pc' = [pc EXCEPT ![n] = IF todo[n] = {f} THEN "push" ELSE "write"]
    BY DEF Write, Goto
<1>2. /\ OneWriter /\ Youngest /\ Paired /\ Served
      /\ \A m \in Nodes : Quiet(m) /\ Faithful(m)
    BY <1>1 DEF ReachInv
<1>3. /\ todo'[n] = todo[n] \ {f}
      /\ pc'[n] = IF todo[n] = {f} THEN "push" ELSE "write"
      /\ \A m \in Nodes \ {n} : pc'[m] = pc[m] /\ pc[m] # "write"
    BY <1>1, <1>2 DEF PlaneOK, OneWriter
<1>4. got[n] \in Settings /\ rows \in Settings /\ Whole(got[n])
    BY <1>1 DEF PlaneOK, KeyInv, Keyed
<1>5. \A g \in Fields : rows'[g] = IF g = f THEN got[n][f] ELSE rows[g]
    BY <1>1, <1>4, FieldFits, PutRow
<1>6. /\ got[n].pub = gens /\ got[n].priv = gens /\ got[n].sni # Unset
      /\ \A g \in Fields \ todo'[n] :
             g # "sni" \/ n \in clean => rows'[g] = got[n][g]
    BY <1>1, <1>2, <1>3, <1>5 DEF Youngest
<1>7. Writing /\ (Writing' <=> todo[n] # {f})
    BY <1>1, <1>3 DEF Writing
<1>8. OneWriter'
    BY <1>3 DEF OneWriter
<1>9. Youngest'
    <2>1. pc'[n] = "write" => todo'[n] # {}
        BY <1>1, <1>3
    <2>. QED  BY <1>1, <1>3, <1>6, <2>1 DEF Youngest
<1>10. todo[n] = {f} =>
           /\ rows'.pub = got[n].pub /\ rows'.priv = got[n].priv
           /\ rows'.sid = got[n].sid
           /\ n \in clean => rows'.sni = got[n].sni
    <2>. SUFFICES ASSUME todo[n] = {f}
                  PROVE  \A g \in Fields : g # "sni" \/ n \in clean =>
                             rows'[g] = got[n][g]
        BY DEF Fields
    <2>1. todo'[n] = {}
        BY <1>3
    <2>. QED  BY <1>6, <2>1
<1>11. Paired'
    <2>1. ~Writing' => rows'.pub = rows'.priv
        BY <1>6, <1>7, <1>10
    <2>2. /\ rows'.pub \in {rows.pub, gens}
          /\ rows'.priv \in {rows.priv, gens}
        BY <1>5, <1>6 DEF Fields
    <2>3. gens' <= 1 => rows'.pub \in {0, gens'} /\ rows'.priv \in {0, gens'}
        BY <1>1, <1>2, <2>2 DEF Paired
    <2>. QED  BY <2>1, <2>3 DEF Paired
<1>12. \A m \in Nodes \ {n} : Quiet(m)' /\ Faithful(m)'
    BY <1>1, <1>2, <1>3, <1>7 DEF Quiet, Faithful
<1>13. Quiet(n)' /\ Faithful(n)'
    <2>1. CASE todo[n] # {f}
        BY <1>3, <2>1 DEF Quiet, Faithful
    <2>2. CASE todo[n] = {f}
        <3>1. n \in clean => /\ rows'.pub # 0 /\ got[n].priv = rows'.pub
                             /\ got[n].sid = rows'.sid
                             /\ got[n].sni = FillMissing(rows'.sni)
            BY <1>4, <1>6, <1>10, <2>2 DEF Whole, FillMissing
        <3>. QED  BY <1>1, <1>3, <1>7, <2>2, <3>1 DEF Quiet, Faithful
    <2>. QED  BY <2>1, <2>2
<1>14. Served'
    BY <1>1, <1>2, <1>7 DEF Served
<1>. QED  BY <1>8, <1>9, <1>11, <1>12, <1>13, <1>14 DEF ReachInv

\* The only pair may be left in part: its rows stand only if all are its own.
LEMMA CutOff ==
    ASSUME PlaneOK, KeyInv, OneWriter, Youngest, Paired, Writing, gens <= 1,
           rows' = rows, gens' = gens
    PROVE  Paired'
<1>1. PICK n \in Nodes : pc[n] = "write"
    BY DEF Writing
<1>2. gens # 0
    BY <1>1 DEF KeyInv, Keyed, Whole, Youngest
<1>3. rows.pub \in {0, gens} /\ rows.priv \in {0, gens}
    BY DEF Paired
<1>. QED  BY <1>2, <1>3 DEF Paired, Stands

LEMMA WriteFailsReach ==
    ASSUME PlaneOK, KeyInv, ReachInv, NEW n \in Nodes, WriteFails(n)
    PROVE  ReachInv'
<1>. SUFFICES ASSUME ~torn'
              PROVE  ReachInv'
    BY DEF ReachInv
<1>1. /\ ~torn /\ gens <= 1 /\ gens' = gens /\ rows' = rows
      /\ pc[n] = "write" /\ pc' = [pc EXCEPT ![n] = "idle"]
      /\ fresh' = fresh /\ clean' = clean \ {n}
    <2>1. /\ torn' = (torn \/ gens > 1) /\ gens' = gens /\ rows' = rows
          /\ pc[n] = "write" /\ pc' = [pc EXCEPT ![n] = "idle"]
          /\ fresh' = fresh /\ clean' = clean \ {n}
        BY Zenon DEF WriteFails, Return, Goto
    <2>2. gens \in Nat
        BY DEF PlaneOK
    <2>3. ~torn /\ ~(gens > 1)
        BY <2>1
    <2>4. gens <= 1
        BY <2>2, <2>3
    <2>. QED  BY <2>1, <2>3, <2>4
<1>2. /\ OneWriter /\ Youngest /\ Paired /\ Served /\ Writing
      /\ \A m \in Nodes : Quiet(m) /\ Faithful(m)
    BY <1>1 DEF ReachInv, Writing
<1>3. /\ pc'[n] = "idle"
      /\ \A m \in Nodes \ {n} : pc'[m] = pc[m] /\ pc[m] # "write"
    BY <1>1, <1>2 DEF PlaneOK, OneWriter
<1>4. ~Writing' /\ OneWriter' /\ Youngest'
    BY <1>3 DEF Writing, OneWriter, Youngest
<1>5. Paired'
    BY <1>1, <1>2, CutOff
<1>6. \A m \in Nodes : Quiet(m)' /\ Faithful(m)'
    BY <1>1, <1>2, <1>3 DEF Quiet, Faithful
<1>7. Served'
    BY <1>1, <1>2 DEF Served
<1>. QED  BY <1>4, <1>5, <1>6, <1>7 DEF ReachInv

LEMMA PushReach ==
    ASSUME PlaneOK, ReachInv, NEW n \in Nodes, Push(n) \/ PushFails(n)
    PROVE  ReachInv'
<1>. SUFFICES ASSUME ~torn'
              PROVE  ReachInv'
    BY DEF ReachInv
<1>1. /\ UNCHANGED <<rows, gens, todo, step, torn>> /\ pc[n] = "push"
      /\ pc' = [pc EXCEPT ![n] = "idle"] /\ clean' = clean \ {n}
      /\ got' = [got EXCEPT ![n] = Empty]
    BY DEF Push, PushFails, Return, Goto
<1>2. /\ OneWriter /\ Youngest /\ Paired /\ Served
      /\ \A m \in Nodes : Quiet(m) /\ Faithful(m)
    BY <1>1 DEF ReachInv
<1>3. /\ pc'[n] = "idle"
      /\ \A m \in Nodes \ {n} : pc'[m] = pc[m] /\ got'[m] = got[m]
    BY <1>1 DEF PlaneOK
<1>4. \A m \in Nodes : pc'[m] = "write" <=> pc[m] = "write"
    BY <1>1, <1>3
<1>5. Writing' <=> Writing
    BY <1>4, SameWriters
<1>6. OneWriter' /\ Youngest' /\ Paired'
    BY <1>1, <1>2, <1>3, <1>4, CalmFrame
<1>7. \A m \in Nodes \ {n} : Quiet(m)' /\ Faithful(m)'
    BY <1>1, <1>2, <1>3, <1>5, NodeFrame
<1>8. Quiet(n)' /\ Faithful(n)'
    BY <1>3 DEF Quiet, Faithful
<1>9. Served'
    <2>1. CASE PushFails(n)
        BY <1>1, <1>2, <1>5, <2>1, ServedFrame DEF PushFails
    <2>2. CASE Push(n)
        <3>1. /\ runs'[n] = got[n]
              /\ \A m \in Nodes \ {n} : runs'[m] = runs[m]
              /\ fresh' = IF n \in clean THEN fresh \cup {n} ELSE fresh \ {n}
            BY <2>2 DEF Push, PlaneOK
        <3>2. \A m \in fresh \ {n} : Matches(m)'
            BY <1>1, <1>2, <3>1 DEF Served, Matches, PlaneOK
        <3>3. n \in clean => ~Writing /\ Matches(n)'
            BY <1>1, <1>2, <3>1 DEF Quiet, Faithful, Matches
        <3>. QED  BY <1>2, <1>5, <3>1, <3>2, <3>3 DEF Served
    <2>. QED  BY <2>1, <2>2
<1>. QED  BY <1>6, <1>7, <1>8, <1>9 DEF ReachInv

LEMMA PatchReach ==
    ASSUME PlaneOK, ReachInv,
           \/ PatchWrite \/ PatchFails
           \/ \E name \in Names \cup {Unset} : PatchRead(name)
    PROVE  ReachInv'
<1>. SUFFICES ASSUME ~torn'
              PROVE  ReachInv'
    BY DEF ReachInv
<1>1. UNCHANGED <<runs, pc, step, got, todo, gens, torn>>
    BY DEF PatchWrite, PatchFails, PatchRead
<1>2. /\ OneWriter /\ Youngest /\ Paired /\ Served
      /\ \A m \in Nodes : Quiet(m) /\ Faithful(m)
    BY <1>1 DEF ReachInv
<1>3. Writing' <=> Writing
    BY <1>1, SameWriters
<1>4. CASE UNCHANGED <<rows, clean, fresh>>
    <2>1. OneWriter' /\ Youngest' /\ Paired'
        BY <1>1, <1>2, <1>4, CalmFrame
    <2>2. Served'
        BY <1>1, <1>2, <1>3, <1>4, ServedFrame
    <2>3. \A m \in Nodes : Quiet(m)' /\ Faithful(m)'
        BY <1>1, <1>2, <1>3, <1>4, NodeFrame
    <2>. QED  BY <2>1, <2>2, <2>3 DEF ReachInv
<1>5. CASE PatchWrite
    <2>1. rows' = [rows EXCEPT !.sni = asked] /\ clean' = {} /\ fresh' = {}
        BY <1>5 DEF PatchWrite
    <2>2. rows \in Settings
        BY DEF PlaneOK
    <2>3. \A g \in Fields : g # "sni" => rows'[g] = rows[g]
        BY <2>1, <2>2, RowsHave
    <2>4. rows'.pub = rows.pub /\ rows'.priv = rows.priv /\ rows'.sid = rows.sid
        BY <2>3 DEF Fields
    <2>5. OneWriter' /\ Youngest'
        BY <1>1, <1>2, <2>1, <2>3 DEF OneWriter, Youngest
    <2>6. Paired'
        BY <1>1, <1>2, <1>3, <2>4 DEF Paired, Stands
    <2>7. Served' /\ \A m \in Nodes : Quiet(m)' /\ Faithful(m)'
        BY <2>1 DEF Served, Quiet, Faithful
    <2>. QED  BY <2>5, <2>6, <2>7 DEF ReachInv
<1>. QED  BY <1>4, <1>5 DEF PatchFails, PatchRead

LEMMA RestartReach ==
    ASSUME PlaneOK, KeyInv, ReachInv, RestartPlane
    PROVE  ReachInv'
<1>. SUFFICES ASSUME ~torn'
              PROVE  ReachInv'
    BY DEF ReachInv
<1>1. /\ ~torn /\ ~(Writing /\ gens > 1) /\ gens \in Nat
      /\ UNCHANGED <<rows, runs, gens, fresh>>
      /\ pc' = [m \in Nodes |-> "idle"]
    BY DEF RestartPlane, PlaneOK
<1>2. OneWriter /\ Youngest /\ Paired /\ Served
    BY <1>1 DEF ReachInv
<1>3. ~Writing' /\ OneWriter' /\ Youngest'
    BY <1>1 DEF Writing, OneWriter, Youngest
<1>4. Paired'
    <2>1. CASE Writing
        BY <1>1, <1>2, <2>1, CutOff
    <2>2. CASE ~Writing
        BY <1>1, <1>2, <2>2 DEF Paired, Stands
    <2>. QED  BY <2>1, <2>2
<1>5. \A m \in Nodes : Quiet(m)' /\ Faithful(m)'
    BY <1>1 DEF Quiet, Faithful
<1>6. Served'
    BY <1>1, <1>2, <1>3, ServedFrame
<1>. QED  BY <1>3, <1>4, <1>5, <1>6 DEF ReachInv

LEMMA NextReach ==
    ASSUME PlaneOK, KeyInv, ReachInv, [Next]_vars
    PROVE  ReachInv'
<1>1. CASE UNCHANGED plane
    BY <1>1 DEF ReachInv, OneWriter, Youngest, Paired, Served, Quiet,
                Faithful, Matches, Writing, Stands
<1>2. UNCHANGED vars \/ SharePub \/ ShareSid \/ ShareSni => UNCHANGED plane
    BY DEF vars, SharePub, ShareSid, ShareSni
<1>. QED  BY <1>1, <1>2, ReadReach, KeepReach, GenerateReach, WriteReach,
             WriteFailsReach, PushReach, PatchReach, RestartReach DEF Next

\* A sound link was read from rows that nobody has written since.
Current ==
    sound =>
        /\ at # "idle" => ~Writing /\ rows.pub # 0 /\ share.pub = rows.pub
        /\ at \in {"sni", "done"} => share.sid = rows.sid
        /\ at = "done" => share.sni = FillMissing(rows.sni)

\* While nobody writes, only a patch changes a row and only a generation makes
\* a writer: both make a link unsound.
LEMMA RowsFrame ==
    ASSUME PlaneOK, ~Writing, [Next]_vars
    PROVE  \/ rows' = rows /\ ~Writing'
           \/ sound' = FALSE /\ UNCHANGED <<at, share>>
<1>1. ASSUME NEW n \in Nodes, Generate(n)
      PROVE  sound' = FALSE /\ UNCHANGED <<at, share>>
    BY <1>1 DEF Generate
<1>2. ASSUME NEW n \in Nodes,
             Begin(n) \/ Read(n) \/ ReadFails(n) \/ Keep(n) \/ Push(n) \/ PushFails(n)
      PROVE  rows' = rows /\ ~Writing'
    BY <1>2 DEF PlaneOK, Begin, Read, ReadFails, Keep, Push, PushFails, Return,
                Goto, Writing
<1>3. ASSUME NEW n \in Nodes, WriteFails(n) \/ \E f \in Fields : Write(n, f)
      PROVE  FALSE
    BY <1>3 DEF WriteFails, Write, Writing
<1>4. CASE \E name \in Names \cup {Unset} : PatchRead(name)
    BY <1>4 DEF PatchRead, Writing
<1>5. CASE PatchWrite
    BY <1>5 DEF PatchWrite
<1>6. CASE PatchFails
    BY <1>6 DEF PatchFails, Writing
<1>7. CASE SharePub \/ ShareSid \/ ShareSni \/ UNCHANGED vars
    BY <1>7 DEF SharePub, ShareSid, ShareSni, vars, Writing
<1>8. CASE RestartPlane
    BY <1>8 DEF RestartPlane, Writing
<1>. QED  BY <1>1, <1>2, <1>3, <1>4, <1>5, <1>6, <1>7, <1>8 DEF Next

LEMMA NextCurrent ==
    ASSUME PlaneOK, LinkOK, Current, [Next]_vars
    PROVE  Current'
<1>. SUFFICES ASSUME sound'
              PROVE  Current'
    BY DEF Current
<1>1. CASE SharePub
    <2>1. /\ at' = "sid" /\ rows' = rows /\ pc' = pc /\ rows.pub # 0
          /\ share'.pub = rows.pub /\ ~Writing
        BY <1>1 DEF SharePub, NoShare
    <2>2. ~Writing'
        BY <2>1 DEF Writing
    <2>. QED  BY <2>1, <2>2 DEF Current
<1>2. CASE ShareSid
    <2>1. /\ at = "sid" /\ at' = "sni" /\ rows' = rows /\ pc' = pc /\ sound
          /\ share' = [share EXCEPT !.sid = rows.sid]
        BY <1>2 DEF ShareSid
    <2>2. share'.pub = share.pub /\ share'.sid = rows.sid
        BY <2>1 DEF LinkOK, Shares
    <2>. QED  BY <2>1, <2>2 DEF Current, Writing
<1>3. CASE ShareSni
    <2>1. /\ at = "sni" /\ at' = "done" /\ rows' = rows /\ pc' = pc /\ sound
          /\ share' = [share EXCEPT !.sni = FillMissing(rows.sni)]
        BY <1>3 DEF ShareSni
    <2>2. /\ share'.pub = share.pub /\ share'.sid = share.sid
          /\ share'.sni = FillMissing(rows.sni)
        BY <2>1 DEF LinkOK, Shares
    <2>. QED  BY <2>1, <2>2 DEF Current, Writing
<1>4. CASE UNCHANGED link \/ RestartPlane
    <2>1. sound /\ share' = share /\ (at' = at \/ at' = "idle")
        BY <1>4 DEF RestartPlane
    <2>2. CASE at' = "idle"
        BY <2>2 DEF Current
    <2>3. CASE at' = at /\ at # "idle"
        <3>1. ~Writing
            BY <2>1, <2>3 DEF Current
        <3>2. rows' = rows /\ ~Writing'
            BY <3>1, RowsFrame
        <3>. QED  BY <2>1, <2>3, <3>2 DEF Current
    <2>. QED  BY <2>1, <2>2, <2>3
<1>. QED  BY <1>1, <1>2, <1>3, <1>4, LinkFrame

\* Unless parts of two pairs were mixed, a link that was read undisturbed gets
\* through to every node that was applied undisturbed (ensureReality,
\* realityShare): for every number of nodes that are applied side by side, and
\* every failure and restart.
THEOREM NodesAreReachable == Spec => []Reachable
<1>. DEFINE Inv == ReachInv /\ LinkOK /\ Current
<1>1. Init => Inv
    <2>. SUFFICES ASSUME Init
                  PROVE  Inv
        OBVIOUS
    <2>1. /\ rows.pub = 0 /\ rows.priv = 0
          /\ \A n \in Nodes : pc[n] = "idle" /\ clean = {} /\ fresh = {}
        BY DEF Init, Empty
    <2>2. OneWriter /\ Youngest /\ Paired
        BY <2>1 DEF OneWriter, Youngest, Paired, Stands
    <2>3. Served /\ \A n \in Nodes : Quiet(n) /\ Faithful(n)
        BY <2>1 DEF Init, Served, Quiet, Faithful
    <2>4. LinkOK /\ Current
        BY DEF Init, LinkOK, Shares, NoShare, SNIs, Current
    <2>. QED  BY <2>2, <2>3, <2>4 DEF ReachInv
<1>2. PlaneOK /\ KeyInv /\ Inv /\ [Next]_vars => Inv'
    BY NextReach, NextLink, NextCurrent
<1>3. Inv => Reachable
    BY DEF ReachInv, Served, Matches, Current, Usable, Reachable
<1>. HIDE DEF Inv
<1>. QED  BY <1>1, <1>2, <1>3, KeysHold, PTL DEF Spec
=============================================================================
