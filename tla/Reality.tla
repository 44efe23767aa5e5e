------------------------------ MODULE Reality ------------------------------
(***************************************************************************)
(* The fleet's REALITY identity: a key pair, a short id and a server name *)
(* in rows of plane_settings, one row each.  The first apply that finds   *)
(* no keys generates them (ensureReality); every apply gives what it read *)
(* to its node; a subscription carries the public half (realityShare).    *)
(* All of them read and write the rows one statement at a time, without a *)
(* lock or a transaction.  A client can use a node when both sides agree. *)
(*                                                                         *)
(* A pair is the number of its generation, 0 an empty row.  One apply runs *)
(* at a time per node (applyMu), so an applier is named by its node.       *)
(* reality_dest goes the way of reality_sni, and clients do not see it.   *)
(***************************************************************************)
EXTENDS Integers, FiniteSets

CONSTANTS Nodes,
          Default,          \* DefaultSNI
          Names,            \* the server names an admin asks for
          Unset,            \* no row, or an empty one
          MaxPatches,       \* bound: requests to patchSettings
          MaxFaults,        \* bound: failed statements and pushes
          MaxCrashes        \* bound: restarts of the plane

ASSUME RealityAssumption ==
    /\ IsFiniteSet(Nodes)
    /\ Unset \notin Names \cup {Default}
    /\ MaxPatches \in Nat /\ MaxFaults \in Nat /\ MaxCrashes \in Nat

\* The rows, in the order ensureReality reads them.
Order == <<"pub", "priv", "sid", "sni">>
Fields == {"pub", "priv", "sid", "sni"}

SNIs == Names \cup {Default, Unset}
Settings == [pub : Nat, priv : Nat, sid : Nat, sni : SNIs]
Empty == [pub |-> 0, priv |-> 0, sid |-> 0, sni |-> Unset]

VARIABLES
    rows,                   \* plane_settings
    runs,                   \* what each node was given last
    pc, step,               \* per applier: where it is, its place in Order
    got, todo,              \* what it has read or generated, rows to write
    patch, asked,           \* patchSettings: where it is, the name it writes
    gens,                   \* pairs generated
    blind,                  \* history: see KeepsKeys
    clean, fresh, torn,     \* history: see Reachable
    at, share,              \* realityShare: where it is, what it has read
    sound,                  \* history: see Reachable
    patches, faults, crashes

applier == <<pc, step, got, todo>>
admin == <<patch, asked, patches>>
link == <<at, share, sound>>
vars == <<rows, runs, applier, admin, gens, blind, clean, fresh, torn, link, faults,
          crashes>>

Shares == [pub : Nat, sid : Nat, sni : SNIs]
NoShare == [pub |-> 0, sid |-> 0, sni |-> Unset]

PlaneOK ==
    /\ rows \in Settings
    /\ runs \in [Nodes -> Settings]
    /\ pc \in [Nodes -> {"idle", "read", "write", "push"}]
    /\ step \in [Nodes -> 1 .. 5]
    /\ got \in [Nodes -> Settings]
    /\ todo \in [Nodes -> SUBSET Fields]
    /\ patch \in {"idle", "write"}
    /\ asked \in SNIs
    /\ gens \in Nat
    /\ blind \subseteq Nodes /\ clean \subseteq Nodes /\ fresh \subseteq Nodes
    /\ torn \in BOOLEAN
    /\ patches \in Nat /\ faults \in Nat /\ crashes \in Nat

LinkOK ==
    /\ at \in {"idle", "sid", "sni", "done"}
    /\ share \in Shares
    /\ sound \in BOOLEAN

TypeOK == PlaneOK /\ LinkOK

Init ==
    /\ rows = Empty
    /\ runs = [n \in Nodes |-> Empty]
    /\ pc = [n \in Nodes |-> "idle"]
    /\ step = [n \in Nodes |-> 1]
    /\ got = [n \in Nodes |-> Empty]
    /\ todo = [n \in Nodes |-> {}]
    /\ patch = "idle" /\ asked = Unset
    /\ gens = 0
    /\ blind = {} /\ clean = {} /\ fresh = {}
    /\ torn = FALSE
    /\ at = "idle" /\ share = NoShare /\ sound = FALSE
    /\ patches = 0 /\ faults = 0 /\ crashes = 0

Goto(n, l) == pc' = [pc EXCEPT ![n] = l]

\* The apply returns.
Return(n) ==
    /\ Goto(n, "idle")
    /\ got' = [got EXCEPT ![n] = Empty]
    /\ blind' = blind \ {n} /\ clean' = clean \ {n}

Fault == faults < MaxFaults /\ faults' = faults + 1

Writing == \E n \in Nodes : pc[n] = "write"

\* FillMissing, and the default realityShare puts for an empty name.
FillMissing(name) == IF name = Unset THEN Default ELSE name

-----------------------------------------------------------------------------
(* ensureReality, and the apply around it *)

\* Are the rows those of a whole pair, or of parts of several?
Stands == rows.pub # 0 /\ rows.priv # 0 /\ rows.sid # 0

Begin(n) ==
    /\ pc[n] = "idle"
    /\ Goto(n, "read")
    /\ blind' = IF Stands THEN blind \ {n} ELSE blind \cup {n}
    /\ clean' = IF Writing THEN clean \ {n} ELSE clean \cup {n}
    /\ UNCHANGED <<rows, runs, step, got, todo, admin, gens, fresh, torn, faults,
                   crashes, link>>

\* settingValue of the next row.
Read(n) ==
    /\ pc[n] = "read" /\ step[n] <= 4
    /\ got' = [got EXCEPT ![n][Order[step[n]]] = rows[Order[step[n]]]]
    /\ step' = [step EXCEPT ![n] = @ + 1]
    /\ UNCHANGED <<rows, runs, pc, todo, admin, gens, blind, clean, fresh, torn,
                   faults, crashes, link>>

\* A row that cannot be read is taken for an empty one.
ReadFails(n) ==
    /\ pc[n] = "read" /\ step[n] <= 4
    /\ Fault
    /\ step' = [step EXCEPT ![n] = @ + 1]
    /\ blind' = blind \cup {n}
    /\ clean' = clean \ {n}
    /\ UNCHANGED <<rows, runs, pc, got, todo, admin, gens, fresh, torn, crashes,
                   link>>

\* Is there nothing to generate?
MutantWholeNamed(k) == k.pub # 0 /\ k.priv # 0 /\ k.sid # 0 /\ k.sni # Unset
Whole(k) == k.pub # 0 /\ k.priv # 0 /\ k.sid # 0

Keep(n) ==
    /\ pc[n] = "read" /\ step[n] = 5 /\ Whole(got[n])
    /\ got' = [got EXCEPT ![n].sni = FillMissing(@)]
    /\ step' = [step EXCEPT ![n] = 1]
    /\ Goto(n, "push")
    /\ UNCHANGED <<rows, runs, todo, admin, gens, blind, clean, fresh, torn,
                   faults, crashes, link>>

Generate(n) ==
    /\ pc[n] = "read" /\ step[n] = 5 /\ ~Whole(got[n])
    /\ gens' = gens + 1
    /\ got' = [got EXCEPT ![n] = [pub |-> gens', priv |-> gens', sid |-> gens',
                                  sni |-> FillMissing(@.sni)]]
    /\ todo' = [todo EXCEPT ![n] = Fields]
    /\ step' = [step EXCEPT ![n] = 1]
    /\ Goto(n, "write")
    /\ clean' = clean \cap {n}
    /\ fresh' = {}
    /\ torn' = (torn \/ Writing)
    /\ sound' = FALSE
    /\ UNCHANGED <<rows, runs, admin, blind, at, share, faults, crashes>>

\* SetSetting of the next row: the rows are in a map, so in any order.
MutantWriteKeeps(n, f) ==
    /\ pc[n] = "write" /\ f \in todo[n]
    /\ rows' = [rows EXCEPT ![f] = IF @ = Empty[f] THEN got[n][f] ELSE @]
    /\ todo' = [todo EXCEPT ![n] = @ \ {f}]
    /\ Goto(n, IF todo[n] = {f} THEN "push" ELSE "write")
    /\ UNCHANGED <<runs, step, got, admin, gens, blind, clean, fresh, torn, faults,
                   crashes, link>>
MutantWriteSwaps(n, f) ==
    /\ pc[n] = "write" /\ f \in todo[n]
    /\ rows' = [rows EXCEPT ![f] = got[n][IF f = "sni" THEN "sid" ELSE f]]
    /\ todo' = [todo EXCEPT ![n] = @ \ {f}]
    /\ Goto(n, IF todo[n] = {f} THEN "push" ELSE "write")
    /\ UNCHANGED <<runs, step, got, admin, gens, blind, clean, fresh, torn, faults,
                   crashes, link>>
Write(n, f) ==
    /\ pc[n] = "write" /\ f \in todo[n]
    /\ rows' = [rows EXCEPT ![f] = got[n][f]]
    /\ todo' = [todo EXCEPT ![n] = @ \ {f}]
    /\ Goto(n, IF todo[n] = {f} THEN "push" ELSE "write")
    /\ UNCHANGED <<runs, step, got, admin, gens, blind, clean, fresh, torn, faults,
                   crashes, link>>

\* The apply ends; the rows written stay.
WriteFails(n) ==
    /\ pc[n] = "write"
    /\ Fault
    /\ todo' = [todo EXCEPT ![n] = {}]
    /\ Return(n)
    /\ torn' = (torn \/ gens > 1)
    /\ UNCHANGED <<rows, runs, step, admin, gens, fresh, crashes, link>>

\* The PUT to the node.
Push(n) ==
    /\ pc[n] = "push"
    /\ runs' = [runs EXCEPT ![n] = got[n]]
    /\ fresh' = IF n \in clean THEN fresh \cup {n} ELSE fresh \ {n}
    /\ Return(n)
    /\ UNCHANGED <<rows, step, todo, admin, gens, torn, faults, crashes, link>>

PushFails(n) ==
    /\ pc[n] = "push"
    /\ Fault
    /\ Return(n)
    /\ UNCHANGED <<rows, runs, step, todo, admin, gens, fresh, torn, crashes, link>>

-----------------------------------------------------------------------------
(* patchSettings *)

\* A request that names a server name, or only a dest: then the name it has
\* read, or failed to read, is the one it writes back.
PatchRead(name) ==
    /\ patch = "idle" /\ patches < MaxPatches
    /\ patches' = patches + 1
    /\ \/ /\ asked' = IF name = Unset THEN FillMissing(rows.sni) ELSE name
          /\ UNCHANGED faults
       \/ /\ asked' = IF name = Unset THEN Default ELSE name
          /\ Fault
    /\ patch' = "write"
    /\ UNCHANGED <<rows, runs, applier, gens, blind, clean, fresh, torn, crashes,
                   link>>

\* Nothing is applied: the nodes keep the name they have.
PatchWrite ==
    /\ patch = "write"
    /\ rows' = [rows EXCEPT !.sni = asked]
    /\ clean' = {} /\ fresh' = {}
    /\ sound' = FALSE
    /\ patch' = "idle" /\ asked' = Unset
    /\ UNCHANGED <<runs, applier, patches, gens, blind, torn, at, share, faults,
                   crashes>>

PatchFails ==
    /\ patch = "write"
    /\ Fault
    /\ patch' = "idle" /\ asked' = Unset
    /\ UNCHANGED <<rows, runs, applier, patches, gens, blind, clean, fresh,
                   torn, crashes, link>>

-----------------------------------------------------------------------------
(* realityShare, for one link of a subscription *)

plane ==
    <<rows, runs, applier, admin, gens, blind, clean, fresh, torn, crashes>>

\* Without a public key, or when its row cannot be read, there is no link.
SharePub ==
    /\ at \in {"idle", "done"} /\ rows.pub # 0
    /\ share' = [NoShare EXCEPT !.pub = rows.pub]
    /\ sound' = ~Writing
    /\ at' = "sid"
    /\ UNCHANGED <<plane, faults>>

\* The other two rows: one that cannot be read is taken for an empty one.
ShareSid ==
    /\ at = "sid"
    /\ \/ /\ share' = [share EXCEPT !.sid = rows.sid]
          /\ UNCHANGED <<sound, faults>>
       \/ /\ Fault
          /\ sound' = FALSE
          /\ UNCHANGED share
    /\ at' = "sni"
    /\ UNCHANGED plane

ShareSni ==
    /\ at = "sni"
    /\ \/ /\ share' = [share EXCEPT !.sni = FillMissing(rows.sni)]
          /\ UNCHANGED <<sound, faults>>
       \/ /\ share' = [share EXCEPT !.sni = Default]
          /\ Fault
          /\ sound' = FALSE
    /\ at' = "done"
    /\ UNCHANGED plane

-----------------------------------------------------------------------------
RestartPlane ==
    /\ crashes < MaxCrashes
    /\ crashes' = crashes + 1
    /\ pc' = [n \in Nodes |-> "idle"]
    /\ todo' = [n \in Nodes |-> {}]
    /\ patch' = "idle" /\ asked' = Unset
    /\ step' = [n \in Nodes |-> 1]
    /\ got' = [n \in Nodes |-> Empty]
    /\ blind' = {} /\ clean' = {}
    /\ torn' = (torn \/ (Writing /\ gens > 1))
    /\ at' = IF at = "done" THEN "done" ELSE "idle"
    /\ UNCHANGED <<rows, runs, patches, gens, fresh, share, sound, faults>>

Next ==
    \/ \E n \in Nodes :
          \/ Begin(n) \/ Read(n) \/ ReadFails(n) \/ Keep(n) \/ Generate(n)
          \/ WriteFails(n) \/ Push(n) \/ PushFails(n)
          \/ \E f \in Fields : Write(n, f)
    \/ \E name \in Names \cup {Unset} : PatchRead(name)
    \/ PatchWrite \/ PatchFails
    \/ SharePub \/ ShareSid \/ ShareSni
    \/ RestartPlane

Spec == Init /\ [][Next]_vars

-----------------------------------------------------------------------------
(* Properties *)

\* Once a pair is whole no apply generates another, which would cut off every
\* link handed out: only one that looked before, or that failed to read a row,
\* does (ensureReality; settingValue turns an error into an empty value).
KeepsKeys == [][\A n \in Nodes : Generate(n) => n \in blind]_vars

\* A client with this link gets through to node n: its public key, short id
\* and name are those of the node.
Usable(n) ==
    /\ share.pub # 0 /\ runs[n].priv = share.pub
    /\ runs[n].sid = share.sid
    /\ runs[n].sni = share.sni

\* A link serves at a node, if the apply of the node and the link each read
\* every row, ran beside no generation, and no patch or generation came after
\* either (ensureReality, realityShare) - except where parts of two pairs were
\* mixed: two applies generated side by side, or one that was not the first
\* was cut off while it wrote.
Reachable ==
    torn \/ (at = "done" /\ sound => \A n \in fresh : Usable(n))
=============================================================================
