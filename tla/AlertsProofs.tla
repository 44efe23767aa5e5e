----------------------------- MODULE AlertsProofs -----------------------------
(***************************************************************************)
(* Proofs about Alerts, for every set of alerts and every choice of the   *)
(* periods, waits and lags that AlertsAssumption allows.                  *)
(***************************************************************************)
EXTENDS Alerts, TLAPS

USE DEF world, sent, history

LEMMA WaitBounds ==
    /\ \A b \in BOOLEAN : /\ Wait(b) \in Nat
                          /\ MaxLag <= Wait(b) /\ Wait(b) <= Resend
    /\ Wait(FALSE) = Retry
    /\ Every \in Nat /\ MaxLag \in Nat /\ Retry \in Nat /\ Resend \in Nat
BY AlertsAssumption DEF Wait

-----------------------------------------------------------------------------
(* Types, and how long the loop stays where it is *)

\* What is to be posted is known while it is being posted only, and no phase
\* lasts longer than it may.
Clocked == /\ pc # "posts" => todo = {}
           /\ spent <= IF pc = "idle" THEN Every ELSE MaxLag

Base == TypeOK /\ Clocked

LEMMA InitBase == Init => Base
BY AlertsAssumption DEF Init, TypeOK, Base, Clocked

LEMMA CapType == \A m \in Nat, limit \in Nat : AtMost(m, limit) \in 0 .. limit
BY DEF AtMost

LEMMA TickBase ==
    ASSUME Base, Tick
    PROVE  Base'
<1>1. \A k \in Keys : age[k] + 1 \in Nat /\ since[k] + 1 \in Nat
    BY AlertsAssumption DEF TypeOK, Base
<1>2. /\ age' \in [Keys -> 0 .. Resend]
      /\ since' \in [Keys -> 0 .. Resend]
    BY <1>1, CapType, AlertsAssumption DEF Tick
<1>3. overdue' \in [Keys -> Nat] /\ spent' \in Nat
    BY DEF TypeOK, Base, Tick
<1>4. TypeOK'
    BY <1>2, <1>3 DEF TypeOK, Base, Tick
<1>5. Clocked'
    BY AlertsAssumption DEF TypeOK, Base, Clocked, Tick
<1>. QED  BY <1>4, <1>5 DEF Base

LEMMA PostBase ==
    ASSUME Base, NEW k \in Keys, Post(k)
    PROVE  Base'
<1>1. spent \in 0 .. Resend /\ 0 \in 0 .. Resend /\ hookUp \in BOOLEAN
    BY AlertsAssumption DEF Base, Clocked, TypeOK, Post
<1>2. age' \in [Keys -> 0 .. Resend] /\ since' \in [Keys -> 0 .. Resend]
    BY <1>1 DEF Base, TypeOK, Post
<1>3. fine' \in [Keys -> BOOLEAN] /\ told' \in [Keys -> BOOLEAN]
    BY <1>1 DEF Base, TypeOK, Post
<1>4. kept' \in [Keys -> BOOLEAN]
    BY DEF Base, TypeOK, Post
<1>5. overdue' \in [Keys -> Nat]
    BY DEF Base, TypeOK, Post
<1>6. known' \subseteq Keys /\ todo' \subseteq live
    BY DEF Base, TypeOK, Post
<1>7. TypeOK'
    BY <1>2, <1>3, <1>4, <1>5, <1>6 DEF Base, TypeOK, Post
<1>8. Clocked'
    BY DEF Base, Clocked, Post
<1>. QED  BY <1>7, <1>8 DEF Base

LEMMA WorldBase ==
    ASSUME Base, Flip \/ PatchWebhook \/ \E k \in Keys : Change(k)
    PROVE  Base'
<1>1. ASSUME NEW k \in Keys, Change(k)
      PROVE  Base'
    <2>1. raised' \subseteq Keys /\ overdue' \in [Keys -> Nat]
        BY <1>1 DEF Base, TypeOK, Change
    <2>. QED  BY <1>1, <2>1 DEF Base, Clocked, TypeOK, Change
<1>2. CASE Flip
    BY <1>2 DEF Base, Clocked, TypeOK, Flip
<1>3. CASE PatchWebhook
    BY <1>3 DEF Base, Clocked, TypeOK, PatchWebhook
<1>. QED  BY <1>1, <1>2, <1>3

LEMMA LoopBase ==
    ASSUME Base, PollStarts \/ CollectNodes \/ CollectUsers \/ Prune
    PROVE  Base'
<1>1. CASE PollStarts
    BY <1>1, AlertsAssumption DEF Base, Clocked, TypeOK, PollStarts
<1>2. CASE CollectNodes
    <2>1. live' \subseteq Keys
        BY <1>2 DEF CollectNodes, Keys
    <2>. QED  BY <1>2, <2>1, AlertsAssumption
              DEF Base, Clocked, TypeOK, CollectNodes
<1>3. CASE CollectUsers
    <2>1. live' \subseteq Keys
        BY <1>3 DEF Base, TypeOK, CollectUsers, Keys
    <2>2. todo' \subseteq live'
        BY <1>3 DEF CollectUsers
    <2>. QED  BY <1>3, <2>1, <2>2, AlertsAssumption
              DEF Base, Clocked, TypeOK, CollectUsers
<1>4. CASE Prune
    <2>1. kept' \in [Keys -> BOOLEAN]
        BY <1>4 DEF Base, TypeOK, Prune
    <2>. QED  BY <1>4, <2>1, AlertsAssumption DEF Base, Clocked, TypeOK, Prune
<1>. QED  BY <1>1, <1>2, <1>3, <1>4

LEMMA RestartBase ==
    ASSUME Base, RestartPlane
    PROVE  Base'
BY AlertsAssumption DEF Base, Clocked, TypeOK, RestartPlane

LEMMA NextBase ==
    ASSUME Base, [Next]_vars
    PROVE  Base'
<1>1. CASE UNCHANGED vars
    BY <1>1 DEF vars, Base, Clocked, TypeOK
<1>. QED  BY <1>1, TickBase, PostBase, WorldBase, LoopBase, RestartBase
          DEF Next, Poll

LEMMA BaseHolds == Spec => []Base
<1>1. Init => Base
    BY InitBase
<1>2. Base /\ [Next]_vars => Base'
    BY NextBase
<1>. QED  BY <1>1, <1>2, PTL DEF Spec

\* Type correctness; in particular what is posted was found by this poll.
THEOREM TypeCorrect == Spec => []TypeOK
<1>1. Base => TypeOK
    BY DEF Base
<1>. QED  BY <1>1, BaseHolds, PTL

-----------------------------------------------------------------------------
(* Paced *)

\* An entry that was never dropped tells of the last post, and its age, taken
\* from the reading of the clock before the posts, is at most MaxLag ahead.
\* What is going to be posted is due, and stays so.
PaceInv ==
    /\ \A k \in Keys : kept[k] => /\ k \in known /\ fine[k] = told[k]
                                   /\ age[k] <= since[k] + MaxLag
    /\ \A k \in todo : WantAlert(k)

LEMMA PaceStill ==
    ASSUME Base, PaceInv, UNCHANGED <<known, fine, age, told, since, kept, todo>>
    PROVE  PaceInv'
BY DEF PaceInv, WantAlert

LEMMA TickPace ==
    ASSUME Base, PaceInv, Tick
    PROVE  PaceInv'
<1>1. \A k \in Keys : /\ age[k] \in 0 .. Resend /\ since[k] \in 0 .. Resend
                      /\ age'[k] = AtMost(age[k] + 1, Resend)
                      /\ since'[k] = AtMost(since[k] + 1, Resend)
    BY DEF Base, TypeOK, Tick
<1>2. UNCHANGED <<known, fine, told, kept, todo>> /\ todo \subseteq Keys
    BY DEF Base, TypeOK, Tick
<1>3. ASSUME NEW k \in Keys, kept[k]
      PROVE  age'[k] <= since'[k] + MaxLag
    <2>1. age[k] <= since[k] + MaxLag
        BY <1>3 DEF PaceInv
    <2>. QED  BY <1>1, <2>1, WaitBounds DEF AtMost
<1>4. ASSUME NEW k \in Keys, WantAlert(k)
      PROVE  WantAlert(k)'
    <2>1. Wait(fine[k]) \in Nat /\ Wait(fine[k]) <= Resend
        BY WaitBounds DEF Base, TypeOK
    <2>2. k \in known => age'[k] >= Wait(fine[k])
        BY <1>1, <1>4, <2>1, WaitBounds DEF WantAlert, AtMost
    <2>. QED  BY <1>2, <2>2 DEF WantAlert
<1>. QED  BY <1>2, <1>3, <1>4 DEF PaceInv

LEMMA PostPace ==
    ASSUME Base, PaceInv, NEW k \in Keys, Post(k)
    PROVE  PaceInv'
<1>1. /\ known' = known \cup {k} /\ todo' = todo \ {k}
      /\ age' = [age EXCEPT ![k] = spent] /\ since' = [since EXCEPT ![k] = 0]
      /\ fine' = [fine EXCEPT ![k] = hookUp] /\ told' = [told EXCEPT ![k] = hookUp]
      /\ kept' = [kept EXCEPT ![k] = TRUE]
    BY DEF Post
<1>2. spent <= MaxLag /\ spent \in Nat
    BY DEF Base, Clocked, TypeOK, Post
<1>3. ASSUME NEW j \in Keys, kept'[j]
      PROVE  /\ j \in known' /\ fine'[j] = told'[j]
             /\ age'[j] <= since'[j] + MaxLag
    <2>1. CASE j = k
        BY <1>1, <1>2, <2>1, WaitBounds DEF Base, TypeOK
    <2>2. CASE j # k
        BY <1>1, <1>3, <2>2 DEF Base, TypeOK, PaceInv
    <2>. QED  BY <2>1, <2>2
<1>4. ASSUME NEW j \in todo'
      PROVE  WantAlert(j)'
    <2>1. j # k /\ j \in todo /\ j \in Keys
        BY <1>1 DEF Base, TypeOK
    <2>2. WantAlert(j)
        BY <2>1 DEF PaceInv
    <2>3. (j \in known' <=> j \in known) /\ age'[j] = age[j] /\ fine'[j] = fine[j]
        BY <1>1, <2>1 DEF Base, TypeOK
    <2>. QED  BY <2>2, <2>3 DEF WantAlert
<1>. QED  BY <1>3, <1>4 DEF PaceInv

LEMMA LoopPace ==
    ASSUME Base, PaceInv,
           PollStarts \/ CollectNodes \/ CollectUsers \/ Prune \/ RestartPlane
    PROVE  PaceInv'
<1>1. CASE PollStarts \/ CollectNodes
    BY <1>1, PaceStill DEF PollStarts, CollectNodes
<1>2. CASE CollectUsers
    <2>1. \A k \in todo' : WantAlert(k)
        BY <1>2 DEF CollectUsers
    <2>. QED  BY <1>2, <2>1 DEF CollectUsers, PaceInv, WantAlert
<1>3. CASE Prune
    <2>1. /\ \A k \in Keys : kept'[k] => kept[k] /\ k \in live
          /\ known' = known \cap live /\ todo' = {}
          /\ UNCHANGED <<fine, age, told, since>>
        BY <1>3 DEF Prune
    <2>. QED  BY <2>1 DEF PaceInv
<1>4. CASE RestartPlane
    <2>1. (\A k \in Keys : ~kept'[k]) /\ todo' = {}
        BY <1>4 DEF RestartPlane
    <2>. QED  BY <2>1 DEF PaceInv
<1>. QED  BY <1>1, <1>2, <1>3, <1>4

LEMMA NextPace ==
    ASSUME Base, PaceInv, [Next]_vars
    PROVE  PaceInv'
<1>1. CASE UNCHANGED vars
    BY <1>1, PaceStill DEF vars
<1>2. ASSUME Flip \/ PatchWebhook \/ \E k \in Keys : Change(k)
      PROVE  PaceInv'
    BY <1>2, PaceStill DEF Flip, PatchWebhook, Change
<1>. QED  BY <1>1, <1>2, TickPace, PostPace, LoopPace DEF Next, Poll

\* An alert that the map remembers is not posted again before its wait is over
\* (wantAlert, noteAlertSent), whatever is raised, fails or is patched.
THEOREM AlertsArePaced == Spec => Paced
<1>1. Init => PaceInv
    BY DEF Init, PaceInv
<1>2. Base /\ PaceInv /\ [Next]_vars => PaceInv'
    BY NextPace
<1>3. Base /\ PaceInv =>
          \A k \in Keys : Post(k) /\ kept[k] => since[k] >= Wait(told[k]) - MaxLag
    <2>. SUFFICES ASSUME Base, PaceInv, NEW k \in Keys, Post(k), kept[k]
                  PROVE  since[k] >= Wait(told[k]) - MaxLag
        OBVIOUS
    <2>1. k \in known /\ fine[k] = told[k] /\ age[k] <= since[k] + MaxLag
        BY DEF PaceInv
    <2>2. age[k] >= Wait(fine[k])
        BY <2>1 DEF Post, PaceInv, WantAlert
    <2>3. /\ age[k] \in Int /\ since[k] \in Int /\ Wait(told[k]) \in Nat
          /\ MaxLag \in Nat
        BY WaitBounds DEF Base, TypeOK
    <2>. HIDE DEF Wait
    <2>. QED  BY <2>1, <2>2, <2>3
<1>. QED  BY <1>1, <1>2, <1>3, BaseHolds, PTL DEF Spec, Paced
-----------------------------------------------------------------------------
(* Prompt *)

\* What an alert has waited already, by the phase the loop is in: overdue
\* counts only while everything lets the alert through, and an entry of the
\* map is older than that.  A key that this poll has not found may be one that
\* came up after CollectNodes; else the poll will post it or the map says it
\* is not due.
W(k) == Wait(k \in known /\ fine[k])

ByPhase(k) ==
    CASE pc = "idle"  -> overdue[k] <= W(k) + MaxLag + spent
      [] pc = "nodes" -> overdue[k] <= W(k) + MaxLag + Every + spent
      [] pc = "users" -> /\ overdue[k] <= W(k) + 2 * MaxLag + Every + spent
                         /\ k \in live \/ k \in UserAlerts \/ overdue[k] <= spent
      [] OTHER -> /\ overdue[k] <= W(k) + 3 * MaxLag + Every + spent
                  /\ k \in todo \/ overdue[k] <= W(k) + spent
                  /\ k \in live \/ overdue[k] <= MaxLag + spent

Waited(k) == /\ overdue[k] > 0 => Audible(k)
             /\ k \in known => overdue[k] <= age[k] \/ age[k] = Resend
             /\ ByPhase(k)

PromptInv == \A k \in Keys : Waited(k)

LEMMA WFacts ==
    ASSUME Base, NEW k \in Keys
    PROVE  /\ W(k) \in Nat /\ MaxLag <= W(k) /\ W(k) <= Resend /\ Retry <= W(k)
           /\ overdue[k] \in Nat /\ spent \in Nat /\ age[k] \in 0 .. Resend
           /\ Every \in Nat /\ MaxLag \in Nat /\ Resend \in Nat
           /\ k \in known => W(k) = Wait(fine[k])
           /\ k \notin known => W(k) = Retry
           /\ pc # "idle" => spent <= MaxLag
           /\ pc = "idle" => spent <= Every
           /\ pc \in {"idle", "nodes", "users", "posts"}
<1>1. k \in known => fine[k] \in BOOLEAN
    BY DEF Base, TypeOK
<1>2. (k \in known /\ fine[k]) \in BOOLEAN
    BY <1>1
<1>3. k \in known => W(k) = Wait(fine[k])
    BY <1>1 DEF W
<1>4. k \notin known => W(k) = Retry
    BY WaitBounds DEF W
<1>5. W(k) \in {Resend, Retry}
    BY DEF W, Wait
<1>. QED  BY <1>3, <1>4, <1>5, AlertsAssumption DEF Base, Clocked, TypeOK

\* A key that waits for nothing satisfies its part whatever the phase.
LEMMA ZeroWaited ==
    ASSUME Base, NEW k \in Keys, overdue[k] = 0
    PROVE  Waited(k)
<1>1. 0 <= age[k] /\ age[k] \in Int
    BY DEF Base, TypeOK
<1>2. ByPhase(k)
    BY WFacts DEF ByPhase
<1>. QED  BY <1>1, <1>2 DEF Waited

LEMMA ZeroNext ==
    ASSUME NEW k \in Keys
    PROVE  (Base /\ overdue[k] = 0 => Waited(k))'
<1>1. Base /\ overdue[k] = 0 => Waited(k)
    BY ZeroWaited
<1>. QED  BY <1>1, PTL

LEMMA InitPrompt == Init => PromptInv
<1>. SUFFICES ASSUME Init, NEW k \in Keys
              PROVE  Waited(k)
    BY DEF PromptInv
<1>. QED  BY InitBase, ZeroWaited DEF Init

LEMMA TickPrompt ==
    ASSUME Base, Base', PromptInv, Tick, NEW k \in Keys
    PROVE  Waited(k)'
<1>1. /\ UNCHANGED <<world, known, fine, pc, live, todo>> /\ spent' = spent + 1
      /\ age'[k] = AtMost(age[k] + 1, Resend)
      /\ overdue'[k] = IF Audible(k) THEN overdue[k] + 1 ELSE 0
    BY DEF Tick, Base, TypeOK
<1>2. Waited(k)
    BY DEF PromptInv
<1>3. W(k)' = W(k) /\ (Audible(k)' <=> Audible(k))
    BY <1>1 DEF W, Audible, Hooked
<1>4. CASE ~Audible(k)
    BY <1>1, <1>4, ZeroNext
<1>5. CASE Audible(k)
    <2>1. overdue'[k] = overdue[k] + 1
        BY <1>1, <1>5
    <2>2. k \in known' => overdue'[k] <= age'[k] \/ age'[k] = Resend
        BY <1>1, <1>2, <2>1, WFacts DEF Waited, AtMost
    <2>3. ByPhase(k)'
        BY <1>1, <1>2, <1>3, <2>1, WFacts DEF Waited, ByPhase
    <2>. QED  BY <1>3, <1>5, <2>2, <2>3 DEF Waited
<1>. QED  BY <1>4, <1>5

LEMMA PostPrompt ==
    ASSUME Base, Base', PromptInv, NEW j \in Keys, Post(j), NEW k \in Keys
    PROVE  Waited(k)'
<1>1. Waited(k)
    BY DEF PromptInv
<1>2. CASE j = k
    <2>1. overdue'[k] = IF hookUp THEN 0 ELSE overdue[k]
        BY <1>2 DEF Post, Base, TypeOK
    <2>2. ~hookUp => overdue[k] = 0
        BY <1>1, WFacts DEF Waited, Audible
    <2>3. overdue'[k] = 0
        BY <2>1, <2>2
    <2>. QED  BY <2>3, ZeroNext
<1>3. CASE j # k
    <2>1. /\ (k \in known' <=> k \in known) /\ (k \in todo' <=> k \in todo)
          /\ fine'[k] = fine[k] /\ age'[k] = age[k] /\ overdue'[k] = overdue[k]
          /\ UNCHANGED <<world, pc, spent, live>>
        BY <1>3 DEF Post, Base, TypeOK
    <2>2. W(k)' = W(k) /\ (Audible(k)' <=> Audible(k))
        BY <2>1 DEF W, Audible, Hooked
    <2>3. ByPhase(k)'
        BY <1>1, <2>1, <2>2 DEF Waited, ByPhase
    <2>. QED  BY <1>1, <2>1, <2>2, <2>3 DEF Waited
<1>. QED  BY <1>2, <1>3

LEMMA WorldPrompt ==
    ASSUME Base, Base', PromptInv, NEW k \in Keys,
           Flip \/ PatchWebhook \/ \E j \in Keys : Change(j)
    PROVE  Waited(k)'
<1>1. CASE Flip \/ PatchWebhook
    <2>1. overdue'[k] = 0
        BY <1>1 DEF Flip, PatchWebhook
    <2>. QED  BY <2>1, ZeroNext
<1>2. ASSUME NEW j \in Keys, Change(j)
      PROVE  Waited(k)'
    <2>1. CASE j = k
        <3>1. overdue'[k] = 0
            BY <1>2, <2>1 DEF Change, Base, TypeOK
        <3>. QED  BY <3>1, ZeroNext
    <2>2. CASE j # k
        <3>1. /\ overdue'[k] = overdue[k] /\ (k \in raised' <=> k \in raised)
              /\ UNCHANGED <<dbUp, hookUp, setting, sent, pc, spent, live, todo>>
            BY <1>2, <2>2 DEF Change, Base, TypeOK
        <3>2. W(k)' = W(k) /\ (Audible(k)' <=> Audible(k))
            BY <3>1 DEF W, Audible, Hooked
        <3>3. Waited(k)
            BY DEF PromptInv
        <3>4. ByPhase(k)'
            BY <3>1, <3>2, <3>3 DEF Waited, ByPhase
        <3>. QED  BY <3>1, <3>2, <3>3, <3>4 DEF Waited
    <2>. QED  BY <2>1, <2>2
<1>. QED  BY <1>1, <1>2

LEMMA LoopPrompt ==
    ASSUME Base, Base', PromptInv, NEW k \in Keys,
           PollStarts \/ CollectNodes \/ CollectUsers
    PROVE  Waited(k)'
<1>1. Waited(k) /\ UNCHANGED <<world, known, fine, age, overdue>> /\ spent' = 0
    BY DEF PromptInv, PollStarts, CollectNodes, CollectUsers
<1>2. W(k)' = W(k) /\ (Audible(k)' <=> Audible(k))
    BY <1>1 DEF W, Audible, Hooked
<1>3. CASE overdue[k] = 0
    BY <1>1, <1>3, ZeroNext
<1>4. CASE overdue[k] > 0
    <2>1. k \in raised /\ dbUp /\ Hooked
        BY <1>1, <1>4 DEF Waited, Audible
    <2>2. CASE PollStarts
        <3>1. pc = "idle" /\ pc' = "nodes"
            BY <2>1, <2>2 DEF PollStarts
        <3>2. overdue[k] <= W(k) + MaxLag + spent
            BY <1>1, <3>1 DEF Waited, ByPhase
        <3>3. ByPhase(k)'
            BY <1>1, <1>2, <3>1, <3>2, WFacts DEF ByPhase
        <3>. QED  BY <1>1, <1>2, <3>3 DEF Waited
    <2>3. CASE CollectNodes
        <3>1. /\ pc = "nodes" /\ pc' = "users"
              /\ k \in live' \/ k \in UserAlerts
            BY <2>1, <2>3 DEF CollectNodes, Keys
        <3>2. overdue[k] <= W(k) + MaxLag + Every + spent
            BY <1>1, <3>1 DEF Waited, ByPhase
        <3>3. ByPhase(k)'
            BY <1>1, <1>2, <3>1, <3>2, WFacts DEF ByPhase
        <3>. QED  BY <1>1, <1>2, <3>3 DEF Waited
    <2>4. CASE CollectUsers
        <3>1. /\ pc = "users" /\ pc' = "posts"
              /\ k \in live' <=> k \in live \/ k \in UserAlerts
              /\ k \in todo' <=> k \in live' /\ WantAlert(k)
            BY <2>1, <2>4 DEF CollectUsers
        <3>2. overdue[k] <= W(k) + 2 * MaxLag + Every + spent
            BY <1>1, <3>1 DEF Waited, ByPhase
        <3>3. k \in live' \/ overdue[k] <= spent
            BY <1>1, <3>1 DEF Waited, ByPhase
        <3>4. k \in todo' \/ overdue[k] <= W(k)
            <4>1. CASE k \notin live'
                BY <3>1, <3>3, <4>1, WFacts
            <4>2. CASE ~WantAlert(k)
                BY <1>1, <4>2, WFacts DEF Waited, WantAlert
            <4>. QED  BY <3>1, <4>1, <4>2
        <3>5. ByPhase(k)'
            BY <1>1, <1>2, <3>1, <3>2, <3>3, <3>4, WFacts DEF ByPhase
        <3>. QED  BY <1>1, <1>2, <3>5 DEF Waited
    <2>. QED  BY <2>2, <2>3, <2>4
<1>. QED  BY <1>3, <1>4, WFacts

LEMMA PrunePrompt ==
    ASSUME Base, Base', PromptInv, NEW k \in Keys, Prune
    PROVE  Waited(k)'
<1>1. /\ pc = "posts" /\ pc' = "idle" /\ spent' = 0 /\ todo = {}
      /\ known' = known \cap live
      /\ UNCHANGED <<world, fine, age, overdue>>
    BY DEF Prune
<1>2. Waited(k) /\ (Audible(k)' <=> Audible(k))
    BY <1>1 DEF PromptInv, Audible, Hooked
<1>3. /\ overdue[k] <= W(k) + spent
      /\ k \in live \/ overdue[k] <= MaxLag + spent
    BY <1>1, <1>2 DEF Waited, ByPhase
<1>4. overdue[k] <= W(k)' + MaxLag
    <2>1. CASE k \in live
        <3>1. W(k)' = W(k)
            BY <1>1, <2>1 DEF W
        <3>. QED  BY <1>1, <1>3, <3>1, WFacts
    <2>2. CASE k \notin live
        <3>1. W(k)' = Retry
            BY <1>1, <2>2, WaitBounds DEF W
        <3>. QED  BY <1>1, <1>3, <2>2, <3>1, WFacts, AlertsAssumption
    <2>. QED  BY <2>1, <2>2
<1>5. ByPhase(k)'
    <2>1. W(k)' + MaxLag + 0 = W(k)' + MaxLag
        BY <1>1, WaitBounds DEF W, Wait
    <2>. QED  BY <1>1, <1>4, <2>1 DEF ByPhase
<1>. QED  BY <1>1, <1>2, <1>5 DEF Waited

LEMMA NextPrompt ==
    ASSUME Base, Base', PromptInv, [Next]_vars
    PROVE  PromptInv'
<1>. SUFFICES ASSUME NEW k \in Keys
              PROVE  Waited(k)'
    BY DEF PromptInv
<1>1. CASE UNCHANGED vars
    BY <1>1 DEF vars, PromptInv, Waited, ByPhase, W, Audible, Hooked
<1>2. CASE RestartPlane
    <2>1. overdue'[k] = 0
        BY <1>2 DEF RestartPlane
    <2>. QED  BY <2>1, ZeroNext
<1>. QED  BY <1>1, <1>2, TickPrompt, PostPrompt, WorldPrompt, LoopPrompt,
             PrunePrompt DEF Next, Poll

\* An alert that lasts while database, webhook and settings stay up is heard
\* within Patience, however it flapped, what failed and what was pruned before
\* (PushAlerts, pruneAlerts), for every period, wait and lag with
\* MaxLag <= alertRetry <= alertResend.
THEOREM AlertsArePrompt == Spec => []Prompt
<1>1. Init => PromptInv
    BY InitPrompt
<1>2. Base /\ Base' /\ PromptInv /\ [Next]_vars => PromptInv'
    BY NextPrompt
<1>3. Base /\ PromptInv => Prompt
    <2>. SUFFICES ASSUME Base, PromptInv, NEW k \in Keys
                  PROVE  overdue[k] <= Patience(k \in known /\ fine[k])
        BY DEF Prompt
    <2>1. ByPhase(k)
        BY DEF PromptInv, Waited
    <2>2. overdue[k] <= W(k) + Every + 4 * MaxLag
        BY <2>1, WFacts DEF ByPhase
    <2>. QED  BY <2>2 DEF W, Patience
<1>. QED  BY <1>1, <1>2, <1>3, BaseHolds, PTL DEF Spec
=============================================================================
