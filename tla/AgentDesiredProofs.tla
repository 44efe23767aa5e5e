------------------------- MODULE AgentDesiredProofs -------------------------
(***************************************************************************)
(* Type correctness of AgentDesired, and that a node never lets in more    *)
(* than it was told to (NothingOlder) and serves what it said it serves    *)
(* (OkMeansServed), for all users, bodies and bounds.                      *)
(***************************************************************************)
EXTENDS AgentDesired, TLAPS

-----------------------------------------------------------------------------
(* The inductive invariant *)

\* The families before f in the order of the handler.
Past(f) == IF f = "xray" THEN {} ELSE IF f = "hy2" THEN {"xray"} ELSE {"xray", "hy2"}

\* The daemon of f has, or will start with, the users of the body.
Serves(f) == conf[f] = Body[f] /\ (active[f] => loaded[f] = Body[f])

\* Some PUT named these users, and no later one was answered without an error.
Fits(s, f) == s = {} \/ \E users \in Recent(f) : s \subseteq users

MarkOk == \A f \in Families : mark[f] <= Len(taken)

\* Files and running daemons fit.
FilesFit ==
    \A f \in Families : Fits(conf[f], f) /\ (active[f] => Fits(loaded[f], f))

\* Errors and listeners are of families before the current one, and apart.
ErredOk ==
    pc # "idle" =>
        /\ listen \cap erred = {}
        /\ listen \subseteq DOMAIN Body
        /\ pc # "answer" => erred \cup listen \subseteq Past(fam)

\* The families the handler has been through without an error serve the body.
Through == IF pc = "answer" THEN DOMAIN Body
           ELSE (Past(fam) \cap DOMAIN Body)
                \cup (IF pc \in {"check", "mint"} THEN {fam} ELSE {})
ThroughServes ==
    pc # "idle" => /\ \A f \in Through \ erred : Serves(f)
                   /\ pc \in {"start", "stop"} => conf[fam] = Body[fam]
                   /\ pc = "stop" => Body[fam] = {}
                   /\ answer = "none"

\* So do the families that had users in a body that was answered with ok.
OkServes ==
    answer = "ok" => /\ taken # <<>>
                     /\ \A f \in DOMAIN Body : Body[f] # {} => Serves(f)

Inv == /\ TypeOK /\ MarkOk /\ FilesFit /\ ErredOk /\ ThroughServes /\ OkServes

-----------------------------------------------------------------------------
(* Types *)

\* A handler at work has a body, whose families and users are known.
LEMMA BodyType ==
    ASSUME TypeOK, pc # "idle"
    PROVE  /\ Len(taken) \in Nat /\ Len(taken) >= 1 /\ Len(taken) \in DOMAIN taken
           /\ DOMAIN Body \subseteq Families
           /\ fam \in DOMAIN Body
           /\ \A f \in DOMAIN Body : Body[f] \subseteq Users
<1>1. taken \in Seq(Bodies) /\ taken # <<>> BY DEF TypeOK
<1>2. Len(taken) \in Nat /\ Len(taken) >= 1 /\ Len(taken) \in DOMAIN taken
  BY <1>1
<1>3. Body \in Bodies BY <1>1, <1>2 DEF Body
<1>. QED BY <1>2, <1>3, AgentAssumption DEF TypeOK

\* The next family is one of those the handler is to go through.
LEMMA GoToType ==
    ASSUME NEW fams \in SUBSET Families, fam \in Families, GoTo(fams)
    PROVE  \/ fams = {} /\ pc' = "answer" /\ fam' = fam
           \/ pc' = "write" /\ fam' \in fams
BY DEF GoTo, Families

\* What is left of a sequence is a sequence.
LEMMA WithoutType ==
    ASSUME NEW S, NEW s \in Seq(S), NEW i \in DOMAIN s
    PROVE  Without(s, i) \in Seq(S)
<1>1. Len(s) \in Nat /\ i \in 1 .. Len(s) /\ \A j \in 1 .. Len(s) : s[j] \in S
  OBVIOUS
<1>2. Len(s) - 1 \in Nat BY <1>1
<1>3. \A j \in 1 .. Len(s) - 1 : s[IF j < i THEN j ELSE j + 1] \in S BY <1>1
<1>. QED BY <1>2, <1>3 DEF Without

LEMMA InitType == Init => TypeOK
BY AgentAssumption DEF Init, TypeOK, Steps, Families

LEMMA TypeStep == TypeOK /\ [Next]_vars => TypeOK'
<1> SUFFICES ASSUME TypeOK, [Next]_vars PROVE TypeOK' OBVIOUS
<1> USE DEF handler, units
<1>1. ASSUME NEW b \in Bodies, Send(b) PROVE TypeOK'
  BY <1>1 DEF TypeOK, Send, Body
<1>2. ASSUME NEW i \in DOMAIN waiting, Take(i) PROVE TypeOK'
  <2>1. waiting[i] \in Bodies BY DEF TypeOK
  <2>2. DOMAIN waiting[i] \in SUBSET Families /\ DOMAIN waiting[i] # {}
    BY <2>1, AgentAssumption
  <2>3. taken' = Append(taken, waiting[i]) /\ taken \in Seq(Bodies)
    BY <1>2 DEF Take, TypeOK
  <2>4. taken' \in Seq(Bodies) /\ taken' # <<>> /\ Body' = waiting[i]
    BY <2>1, <2>3 DEF Body
  <2>5. waiting' \in Seq(Bodies)
    BY <1>2, WithoutType DEF Take, TypeOK
  <2>6. pc' = "write" /\ fam' \in DOMAIN waiting[i]
    BY <1>2, <2>2, GoToType DEF Take, TypeOK
  <2>. QED BY <1>2, <2>2, <2>4, <2>5, <2>6 DEF Take, TypeOK, Steps
<1>3. ASSUME pc # "idle", UNCHANGED <<waiting, taken>>,
             \/ pc' \in Steps /\ UNCHANGED fam
             \/ GoTo(Rest)
      PROVE  /\ waiting' \in Seq(Bodies) /\ taken' \in Seq(Bodies)
             /\ pc' \in Steps /\ fam' \in Families
             /\ pc' # "idle" => taken' # <<>> /\ fam' \in DOMAIN Body'
  <2>1. Rest \in SUBSET Families /\ Rest \subseteq DOMAIN Body /\ fam \in DOMAIN Body
    BY <1>3, BodyType DEF Rest, Families
  <2>2. Body' = Body BY <1>3 DEF Body
  <2>. QED BY <1>3, <2>1, <2>2, GoToType DEF TypeOK, Steps
<1>4. ASSUME pc # "idle", Failed
      PROVE  /\ \/ pc' \in Steps /\ UNCHANGED fam
                \/ GoTo(Rest)
             /\ listen' = listen /\ erred' \subseteq Families
             /\ answer' \in {"none", "ok", "degraded", "failed"}
  BY <1>4 DEF Failed, TypeOK, Steps
<1>5. CASE Write
  <2>1. pc # "idle" /\ Body[fam] \subseteq Users BY <1>5, BodyType DEF Write
  <2>. QED BY <1>3, <1>5, <2>1 DEF Write, TypeOK, Steps
<1>6. CASE WriteFails \/ WriteFailsEarly
  <2>1. pc # "idle" /\ Body[fam] \subseteq Users
    BY <1>6, BodyType DEF WriteFails, WriteFailsEarly
  <2>. QED
    BY <1>3, <1>4, <1>6, <2>1 DEF WriteFails, WriteFailsEarly, Fault, TypeOK
<1>7. CASE Start
  BY <1>3, <1>7 DEF Start, Started, TypeOK, Steps
<1>8. CASE StartFails
  <2>1. pc # "idle" /\ Failed /\ UNCHANGED <<waiting, taken>>
    BY <1>8 DEF StartFails
  <2>2. /\ waiting' \in Seq(Bodies) /\ taken' \in Seq(Bodies)
        /\ pc' \in Steps /\ fam' \in Families
        /\ pc' # "idle" => taken' # <<>> /\ fam' \in DOMAIN Body'
        /\ listen' = listen /\ erred' \subseteq Families
        /\ answer' \in {"none", "ok", "degraded", "failed"}
    BY <1>3, <1>4, <2>1
  <2>3. UNCHANGED <<conf, loaded, mark>> /\ faults' \in Nat
    BY <1>8 DEF StartFails, Fault, TypeOK
  <2>4. active' \in [Families -> BOOLEAN] BY <1>8 DEF StartFails, TypeOK
  <2>5. enabled' \in [Families -> BOOLEAN] BY <1>8 DEF StartFails, TypeOK
  <2>. QED BY <2>2, <2>3, <2>4, <2>5 DEF TypeOK
<1>9. CASE Check \/ CheckClosed
  BY <1>3, <1>9 DEF Check, CheckClosed, Done, Fault, TypeOK
<1>10. CASE PortFileFails
  <2>1. pc # "idle" /\ Failed /\ UNCHANGED <<waiting, taken>>
    BY <1>10 DEF PortFileFails
  <2>2. /\ waiting' \in Seq(Bodies) /\ taken' \in Seq(Bodies)
        /\ pc' \in Steps /\ fam' \in Families
        /\ pc' # "idle" => taken' # <<>> /\ fam' \in DOMAIN Body'
        /\ listen' = listen /\ erred' \subseteq Families
        /\ answer' \in {"none", "ok", "degraded", "failed"}
    BY <1>3, <1>4, <2>1
  <2>3. UNCHANGED <<conf, loaded, mark>> /\ faults' \in Nat
    BY <1>10 DEF PortFileFails, Fault, TypeOK
  <2>4. active' \in [Families -> BOOLEAN] BY <1>10 DEF PortFileFails, TypeOK
  <2>5. enabled' \in [Families -> BOOLEAN] BY <1>10 DEF PortFileFails, TypeOK
  <2>. QED BY <2>2, <2>3, <2>4, <2>5 DEF TypeOK
<1>11. CASE CheckTT
  BY <1>3, <1>4, <1>11 DEF CheckTT, TypeOK, Steps
<1>12. CASE Mint
  BY <1>3, <1>12 DEF Mint, Done, TypeOK
<1>13. CASE MintFails
  BY <1>3, <1>4, <1>13 DEF MintFails, Fault, TypeOK
<1>14. CASE Stop
  BY <1>3, <1>14 DEF Stop, Done, TypeOK
<1>15. CASE StopFails
  <2>1. pc # "idle" /\ Failed /\ UNCHANGED <<waiting, taken>>
    BY <1>15 DEF StopFails
  <2>2. /\ waiting' \in Seq(Bodies) /\ taken' \in Seq(Bodies)
        /\ pc' \in Steps /\ fam' \in Families
        /\ pc' # "idle" => taken' # <<>> /\ fam' \in DOMAIN Body'
        /\ listen' = listen /\ erred' \subseteq Families
        /\ answer' \in {"none", "ok", "degraded", "failed"}
    BY <1>3, <1>4, <2>1
  <2>3. UNCHANGED <<conf, loaded, mark>> /\ faults' \in Nat
    BY <1>15 DEF StopFails, Fault, TypeOK
  <2>4. active' \in [Families -> BOOLEAN] BY <1>15 DEF StopFails, TypeOK
  <2>5. enabled' \in [Families -> BOOLEAN] BY <1>15 DEF StopFails, TypeOK
  <2>. QED BY <2>2, <2>3, <2>4, <2>5 DEF TypeOK
<1>16. CASE Answer
  <2>1. Len(taken) \in Nat BY <1>16, BodyType DEF Answer
  <2>. QED BY <1>16, <2>1 DEF Answer, TypeOK, Steps, Body
<1>17. CASE AgentDies \/ Reboot
  <2>1. <<>> \in Seq(Bodies) OBVIOUS
  <2>2. active' \in [Families -> BOOLEAN] BY <1>17 DEF AgentDies, Reboot, TypeOK
  <2>3. faults' \in Nat BY <1>17 DEF AgentDies, Reboot, Fault, TypeOK
  <2>. QED BY <1>17, <2>1, <2>2, <2>3 DEF AgentDies, Reboot, TypeOK, Steps
<1>18. ASSUME NEW f \in Families, Die(f) PROVE TypeOK'
  BY <1>18 DEF Die, Fault, TypeOK, Body
<1>19. ASSUME NEW f \in Families, Restart(f) PROVE TypeOK'
  BY <1>19 DEF Restart, Started, TypeOK, Body
<1>20. CASE UNCHANGED vars
  BY <1>20 DEF vars, TypeOK, Body
<1>. QED
  BY <1>1, <1>2, <1>5, <1>6, <1>7, <1>8, <1>9, <1>10, <1>11, <1>12, <1>13,
     <1>14, <1>15, <1>16, <1>17, <1>18, <1>19, <1>20
     DEF Next, Handle, Trouble

\* Every run is type correct, and a handler at work is in a family its body
\* names, whatever fails (desired and the functions it calls).
THEOREM TypeCorrect == Spec => []TypeOK
<1>1. Init => TypeOK BY InitType
<1>2. TypeOK /\ [Next]_vars => TypeOK' BY TypeStep
<1>. QED BY <1>1, <1>2, PTL DEF Spec

-----------------------------------------------------------------------------
(* The invariant is inductive *)

\* What the body names for a family is recent.
LEMMA BodyRecent ==
    ASSUME TypeOK, MarkOk, pc # "idle", NEW f \in DOMAIN Body
    PROVE  Body[f] \in Recent(f)
<1>1. f \in Families /\ Len(taken) \in DOMAIN taken /\ Len(taken) >= mark[f]
  BY BodyType DEF MarkOk, TypeOK
<1>. QED BY <1>1 DEF Recent, Body

\* Nothing becomes recent or old while taken and mark stay.
LEMMA SameRecent ==
    ASSUME UNCHANGED <<taken, mark>>, NEW f
    PROVE  Recent(f)' = Recent(f) /\ Body' = Body
BY DEF Recent, Body

\* Files change to parts of the body, daemons start with their files.
LEMMA FilesFitStep ==
    ASSUME TypeOK, MarkOk, FilesFit, UNCHANGED <<taken, mark>>,
           \A f \in Families :
               \/ conf'[f] = conf[f]
               \/ pc # "idle" /\ f \in DOMAIN Body /\ conf'[f] \subseteq Body[f],
           \A f \in Families :
               active'[f] => \/ active[f] /\ loaded'[f] = loaded[f]
                             \/ loaded'[f] = conf[f]
    PROVE  MarkOk' /\ FilesFit'
<1>1. MarkOk' BY DEF MarkOk
<1>2. ASSUME NEW f \in Families
      PROVE  Fits(conf[f], f)' /\ (active'[f] => Fits(loaded[f], f)')
  <2>1. Recent(f)' = Recent(f) BY SameRecent
  <2>2. Fits(conf[f], f) /\ (active[f] => Fits(loaded[f], f)) BY DEF FilesFit
  <2>3. Fits(conf[f], f)'
    BY <2>1, <2>2, BodyRecent DEF Fits
  <2>4. active'[f] => Fits(loaded[f], f)'
    BY <2>1, <2>2 DEF Fits
  <2>. QED BY <2>3, <2>4
<1>3. FilesFit' BY <1>2 DEF FilesFit
<1>. QED BY <1>1, <1>3

\* The handler goes on to the next family, or to the answer.
LEMMA NextFamily ==
    ASSUME TypeOK, ErredOk, ThroughServes, pc \notin {"idle", "answer"},
           UNCHANGED <<taken, answer>>, GoTo(Rest),
           \A f \in Families \ {fam} :
               /\ conf'[f] = conf[f] /\ loaded'[f] = loaded[f]
               /\ active'[f] => active[f],
           \/ /\ erred' = erred /\ listen' \subseteq listen \cup {fam}
              /\ conf'[fam] = Body[fam]
              /\ active'[fam] => loaded'[fam] = Body[fam]
           \/ erred' = erred \cup {fam} /\ listen' = listen
    PROVE  ErredOk' /\ ThroughServes' /\ OkServes'
<1>1. /\ DOMAIN Body \subseteq Families /\ fam \in DOMAIN Body /\ Body' = Body
      /\ Rest \in SUBSET Families /\ fam \in Families
  BY BodyType DEF Body, Rest, Families
<1>2. /\ listen \cap erred = {} /\ listen \subseteq DOMAIN Body
      /\ erred \cup listen \subseteq Past(fam)
  BY DEF ErredOk
<1>3. fam \notin Past(fam) BY <1>1 DEF Past, Families
<1>4. \A f \in (Past(fam) \cap DOMAIN Body) \ erred : Serves(f)
  BY DEF ThroughServes, Through
<1>5. \/ pc' = "answer" /\ fam' = fam /\ DOMAIN Body \subseteq Past(fam) \cup {fam}
      \/ /\ pc' = "write" /\ fam' \in DOMAIN Body
         /\ Past(fam') \cap DOMAIN Body \subseteq Past(fam) \cup {fam}
         /\ Past(fam) \cup {fam} \subseteq Past(fam')
  BY <1>1 DEF GoTo, Rest, Past, Families
<1>6. Through' \subseteq (Past(fam) \cap DOMAIN Body) \cup {fam}
  BY <1>1, <1>5 DEF Through
<1>7. \A f \in Through' \ erred' : Serves(f)'
  <2>. SUFFICES ASSUME NEW f \in Through' \ erred' PROVE Serves(f)' OBVIOUS
  <2>1. CASE f = fam BY <1>1, <2>1 DEF Serves
  <2>2. CASE f # fam
    <3>1. Serves(f) BY <1>4, <1>6, <2>2
    <3>2. f \in Families \ {fam} BY <1>1, <1>6, <2>2
    <3>. QED BY <1>1, <3>1, <3>2 DEF Serves
  <2>. QED BY <2>1, <2>2
<1>8. ErredOk'
  <2>1. listen' \cap erred' = {} BY <1>2, <1>3
  <2>2. listen' \subseteq DOMAIN Body' BY <1>1, <1>2
  <2>3. erred' \cup listen' \subseteq Past(fam) \cup {fam} BY <1>2
  <2>4. pc' # "answer" => erred' \cup listen' \subseteq Past(fam')
    BY <1>5, <2>3
  <2>. QED BY <2>1, <2>2, <2>4 DEF ErredOk
<1>9. ThroughServes' BY <1>5, <1>7 DEF ThroughServes
<1>10. OkServes' BY DEF ThroughServes, OkServes
<1>. QED BY <1>8, <1>9, <1>10

LEMMA InitInv == Init => Inv
<1> SUFFICES ASSUME Init PROVE Inv OBVIOUS
<1>1. TypeOK BY InitType
<1>2. MarkOk BY DEF Init, MarkOk
<1>3. FilesFit BY DEF Init, FilesFit, Fits
<1>. QED BY <1>1, <1>2, <1>3 DEF Init, Inv, ErredOk, ThroughServes, OkServes

\* A family that has an error ends the request or is noted, with its file
\* perhaps in part and its daemon perhaps stopped.
LEMMA FailedStep ==
    ASSUME Inv, Failed, pc \notin {"idle", "answer"}, UNCHANGED <<taken, mark>>,
           conf' = conf \/ \E torn \in SUBSET Body[fam] :
                               conf' = [conf EXCEPT ![fam] = torn],
           loaded' = loaded, \A f \in Families : active'[f] => active[f]
    PROVE  MarkOk' /\ FilesFit' /\ ErredOk' /\ ThroughServes' /\ OkServes'
<1>1. fam \in Families /\ fam \in DOMAIN Body BY BodyType DEF Inv, TypeOK
<1>2. \A f \in Families : \/ conf'[f] = conf[f]
                          \/ f = fam /\ conf'[f] \subseteq Body[f]
  BY <1>1 DEF Inv, TypeOK
<1>3. MarkOk' /\ FilesFit' BY <1>1, <1>2, FilesFitStep DEF Inv
<1>4. CASE pc' = "idle" /\ answer' = "failed"
  BY <1>3, <1>4 DEF ErredOk, ThroughServes, OkServes
<1>5. CASE GoTo(Rest) /\ erred' = erred \cup {fam} /\ answer' = answer
  <2>1. ErredOk' /\ ThroughServes' /\ OkServes'
    BY <1>2, <1>5, NextFamily DEF Inv, Failed
  <2>. QED BY <1>3, <2>1
<1>. QED BY <1>4, <1>5 DEF Failed

\* A family is done: its daemon serves the body, or is stopped.
LEMMA DoneStep ==
    ASSUME Inv, Done, pc \notin {"idle", "answer"}, UNCHANGED <<taken, mark, conf, loaded>>,
           listen' \subseteq listen \cup {fam},
           \A f \in Families : active'[f] => active[f],
           conf[fam] = Body[fam], active'[fam] => loaded[fam] = Body[fam]
    PROVE  MarkOk' /\ FilesFit' /\ ErredOk' /\ ThroughServes' /\ OkServes'
<1>1. MarkOk' /\ FilesFit' BY FilesFitStep DEF Inv
<1>2. ErredOk' /\ ThroughServes' /\ OkServes'
  BY NextFamily DEF Inv, Done
<1>. QED BY <1>1, <1>2

\* Daemons die and come back with their files.
LEMMA DaemonStep ==
    ASSUME Inv,
           UNCHANGED <<taken, mark, conf, answer, erred, listen, fam>>,
           pc' = pc \/ pc' = "idle",
           \A f \in Families :
               active'[f] => \/ active[f] /\ loaded'[f] = loaded[f]
                             \/ loaded'[f] = conf[f]
    PROVE  MarkOk' /\ FilesFit' /\ ErredOk' /\ ThroughServes' /\ OkServes'
<1>1. MarkOk' /\ FilesFit' BY FilesFitStep DEF Inv
<1>2. Body' = Body BY SameRecent
<1>3. \A f \in Families : Serves(f) => Serves(f)' BY <1>2 DEF Serves
<1>4. ErredOk' BY <1>2 DEF Inv, ErredOk
<1>5. ThroughServes'
  <2>. SUFFICES ASSUME pc' # "idle" PROVE ThroughServes' BY DEF ThroughServes
  <2>1. pc' = pc /\ pc # "idle" OBVIOUS
  <2>2. Through' = Through BY <1>2, <2>1 DEF Through
  <2>3. Through \subseteq Families BY <2>1, BodyType DEF Through, Inv, TypeOK
  <2>. QED BY <1>2, <1>3, <2>1, <2>2, <2>3 DEF Inv, ThroughServes
<1>6. OkServes'
  <2>. SUFFICES ASSUME answer = "ok" PROVE OkServes' BY DEF OkServes
  <2>1. taken # <<>> /\ \A f \in DOMAIN Body : Body[f] # {} => Serves(f)
    BY DEF Inv, OkServes
  <2>2. DOMAIN Body \subseteq Families
    BY <2>1, AgentAssumption DEF Inv, TypeOK, Body
  <2>. QED BY <1>2, <1>3, <2>1, <2>2 DEF OkServes
<1>. QED BY <1>1, <1>4, <1>5, <1>6

LEMMA InvStep == Inv /\ [Next]_vars => Inv'
<1> SUFFICES ASSUME Inv, [Next]_vars PROVE Inv' OBVIOUS
<1>0. TypeOK' BY TypeStep DEF Inv
<1> SUFFICES MarkOk' /\ FilesFit' /\ ErredOk' /\ ThroughServes' /\ OkServes'
  BY <1>0 DEF Inv
<1> USE DEF handler, units
<1>t. /\ fam \in Families /\ conf \in [Families -> SUBSET Users]
      /\ loaded \in [Families -> SUBSET Users] /\ active \in [Families -> BOOLEAN]
  BY DEF Inv, TypeOK
<1>b. pc # "idle" => fam \in DOMAIN Body /\ DOMAIN Body \subseteq Families
  BY BodyType DEF Inv
<1>1. ASSUME NEW b \in Bodies, Send(b)
      PROVE  MarkOk' /\ FilesFit' /\ ErredOk' /\ ThroughServes' /\ OkServes'
  BY <1>1, DaemonStep DEF Send
<1>2. ASSUME NEW i \in DOMAIN waiting, Take(i)
      PROVE  MarkOk' /\ FilesFit' /\ ErredOk' /\ ThroughServes' /\ OkServes'
  <2>1. /\ taken' = Append(taken, waiting[i]) /\ taken \in Seq(Bodies)
        /\ waiting[i] \in Bodies /\ UNCHANGED <<conf, loaded, active, mark>>
        /\ erred' = {} /\ listen' = {} /\ answer' = "none"
    BY <1>2 DEF Take, Inv, TypeOK
  <2>2. /\ Len(taken') = Len(taken) + 1 /\ Len(taken) \in Nat
        /\ DOMAIN taken \subseteq DOMAIN taken'
        /\ \A j \in DOMAIN taken : taken'[j] = taken[j]
    BY <2>1
  <2>3. MarkOk'
    <3>1. \A f \in Families : mark[f] \in Nat BY DEF Inv, TypeOK
    <3>. QED BY <2>1, <2>2, <3>1 DEF Inv, MarkOk
  <2>4. \A f \in Families : Recent(f) \subseteq Recent(f)'
    BY <2>1, <2>2 DEF Recent
  <2>5. FilesFit' BY <2>1, <2>4 DEF Inv, FilesFit, Fits
  <2>6. Body' = waiting[i] BY <2>1 DEF Body
  <2>7. DOMAIN waiting[i] \in SUBSET Families /\ DOMAIN waiting[i] # {}
    BY <2>1, AgentAssumption
  <2>8. pc' = "write" /\ fam' \in DOMAIN waiting[i]
        /\ Past(fam') \cap DOMAIN waiting[i] = {}
    BY <1>2, <2>7 DEF Take, GoTo, Past, Families
  <2>9. Through' = {} BY <2>6, <2>8 DEF Through
  <2>. QED BY <2>1, <2>3, <2>5, <2>8, <2>9 DEF ErredOk, ThroughServes, OkServes
<1>3. CASE Write
  <2>1. /\ UNCHANGED <<taken, mark, fam, erred, listen, answer, loaded, active>>
        /\ pc = "write" /\ pc' \in {"start", "stop"}
        /\ pc' = "stop" => Body[fam] = {}
        /\ conf' = [conf EXCEPT ![fam] = Body[fam]]
    BY <1>3 DEF Write
  <2>2. MarkOk' /\ FilesFit' BY <1>t, <1>b, <2>1, FilesFitStep DEF Inv
  <2>3. Body' = Body BY <2>1, SameRecent
  <2>4. fam \notin Past(fam) /\ Past(fam) \subseteq Families
    BY <1>t DEF Past, Families
  <2>5. Through = Past(fam) \cap DOMAIN Body /\ Through' = Past(fam) \cap DOMAIN Body
    BY <2>1, <2>3 DEF Through
  <2>6. \A f \in Through' \ erred' : Serves(f)'
    BY <1>t, <2>1, <2>3, <2>4, <2>5 DEF Inv, ThroughServes, Serves
  <2>7. ThroughServes'
    BY <1>t, <2>1, <2>3, <2>6 DEF Inv, ThroughServes
  <2>8. ErredOk' BY <2>1, <2>3 DEF Inv, ErredOk
  <2>9. OkServes' BY <2>1 DEF Inv, ThroughServes, OkServes
  <2>. QED BY <2>2, <2>7, <2>8, <2>9
<1>4. CASE Start
  <2>1. /\ UNCHANGED <<taken, mark, fam, erred, listen, answer, conf>>
        /\ pc = "start" /\ pc' = "check"
        /\ loaded' = [loaded EXCEPT ![fam] = conf[fam]]
        /\ active' = [active EXCEPT ![fam] = TRUE]
        /\ conf[fam] = Body[fam]
    BY <1>4 DEF Start, Started, Inv, ThroughServes
  <2>2. \A f \in Families : active'[f] => \/ active[f] /\ loaded'[f] = loaded[f]
                                          \/ loaded'[f] = conf[f]
    BY <1>t, <2>1
  <2>3. MarkOk' /\ FilesFit' BY <2>1, <2>2, FilesFitStep DEF Inv
  <2>4. Body' = Body BY <2>1, SameRecent
  <2>5. /\ Through = Past(fam) \cap DOMAIN Body
        /\ Through' = (Past(fam) \cap DOMAIN Body) \cup {fam}
    BY <2>1, <2>4 DEF Through
  <2>6. \A f \in Through \ erred : Serves(f) BY <2>1 DEF Inv, ThroughServes
  <2>7. ASSUME NEW f \in Through' \ erred' PROVE Serves(f)'
    <3>1. f \in Families BY <1>b, <1>t, <2>1, <2>5
    <3>2. CASE f = fam BY <1>t, <2>1, <2>4, <3>2 DEF Serves
    <3>3. CASE f # fam
      <4>1. Serves(f) BY <2>1, <2>5, <2>6, <3>3
      <4>2. loaded'[f] = loaded[f] /\ active'[f] = active[f]
        BY <1>t, <2>1, <3>1, <3>3
      <4>. QED BY <2>1, <2>4, <4>1, <4>2 DEF Serves
    <3>. QED BY <3>2, <3>3
  <2>8. ThroughServes' BY <2>1, <2>7 DEF Inv, ThroughServes
  <2>9. ErredOk' BY <2>1, <2>4 DEF Inv, ErredOk
  <2>10. OkServes' BY <2>1 DEF Inv, ThroughServes, OkServes
  <2>. QED BY <2>3, <2>8, <2>9, <2>10
<1>5. CASE WriteFails \/ WriteFailsEarly
  BY <1>5, FailedStep DEF WriteFails, WriteFailsEarly
<1>6. CASE StartFails
  <2>1. \A f \in Families : active'[f] => active[f]
    BY <1>t, <1>6 DEF StartFails
  <2>. QED BY <1>6, <2>1, FailedStep DEF StartFails
<1>7. CASE PortFileFails \/ MintFails
  BY <1>7, FailedStep DEF PortFileFails, MintFails
<1>8. CASE StopFails
  BY <1>8, FailedStep DEF StopFails
<1>9. CASE CheckTT
  <2>1. CASE active[fam]
    <3>1. /\ UNCHANGED <<taken, mark, fam, erred, listen, answer, conf, loaded, active>>
          /\ pc = "check" /\ pc' = "mint"
      BY <1>9, <2>1 DEF CheckTT
    <3>2. MarkOk' /\ FilesFit' BY <3>1, FilesFitStep DEF Inv
    <3>3. Body' = Body BY <3>1, SameRecent
    <3>4. Through' = Through BY <3>1, <3>3 DEF Through
    <3>5. ThroughServes' BY <3>1, <3>3, <3>4 DEF Inv, ThroughServes, Serves
    <3>6. ErredOk' BY <3>1, <3>3 DEF Inv, ErredOk
    <3>7. OkServes' BY <3>1 DEF Inv, ThroughServes, OkServes
    <3>. QED BY <3>2, <3>5, <3>6, <3>7
  <2>2. CASE ~active[fam]
    BY <1>9, <2>2, FailedStep DEF CheckTT
  <2>. QED BY <2>1, <2>2
<1>c. pc \in {"check", "mint"} => fam \notin erred /\ Serves(fam)
  <2>. SUFFICES ASSUME pc \in {"check", "mint"} PROVE fam \notin erred /\ Serves(fam)
    OBVIOUS
  <2>1. erred \subseteq Past(fam) BY DEF Inv, ErredOk
  <2>2. fam \notin erred BY <1>t, <2>1 DEF Past, Families
  <2>3. fam \in Through BY DEF Through
  <2>. QED BY <2>2, <2>3 DEF Inv, ThroughServes
<1>10. CASE Check \/ CheckClosed
  BY <1>10, <1>c, DoneStep DEF Check, CheckClosed, Serves
<1>11. CASE Mint
  BY <1>11, <1>c, DoneStep DEF Mint, Serves
<1>12. CASE Stop
  <2>1. /\ pc = "stop" /\ Done /\ UNCHANGED <<taken, listen, conf, loaded, mark>>
        /\ \A f \in Families : active'[f] => active[f]
        /\ ~active'[fam]
    BY <1>t, <1>12 DEF Stop
  <2>2. conf[fam] = Body[fam] BY <2>1 DEF Inv, ThroughServes
  <2>. QED BY <2>1, <2>2, DoneStep
<1>13. CASE Answer
  <2>1. /\ UNCHANGED <<taken, conf, loaded, active>> /\ pc = "answer" /\ pc' = "idle"
        /\ answer' = IF AllOk THEN "ok" ELSE "degraded"
        /\ mark' = [f \in Families |-> IF f \in DOMAIN Body \ erred THEN Len(taken)
                                                                   ELSE mark[f]]
    BY <1>13 DEF Answer
  <2>2. Len(taken) \in Nat /\ Len(taken) \in DOMAIN taken
    BY <2>1, BodyType DEF Inv
  <2>3. MarkOk' BY <2>1, <2>2 DEF Inv, MarkOk
  <2>4. Body' = Body BY <2>1 DEF Body
  <2>5. \A f \in DOMAIN Body \ erred : Serves(f)
    BY <2>1 DEF Inv, ThroughServes, Through
  <2>6. ASSUME NEW f \in Families
        PROVE  Fits(conf[f], f)' /\ (active'[f] => Fits(loaded[f], f)')
    <3>1. CASE f \in DOMAIN Body \ erred
      <4>1. mark'[f] = Len(taken) BY <2>1, <3>1
      <4>2. Body[f] \in Recent(f)' BY <2>1, <2>2, <3>1, <4>1 DEF Recent, Body
      <4>. QED BY <2>1, <2>5, <3>1, <4>2 DEF Serves, Fits
    <3>2. CASE f \notin DOMAIN Body \ erred
      <4>1. mark'[f] = mark[f] BY <2>1, <3>2
      <4>2. Recent(f)' = Recent(f) BY <2>1, <4>1 DEF Recent
      <4>. QED BY <2>1, <4>2 DEF Inv, FilesFit, Fits
    <3>. QED BY <3>1, <3>2
  <2>7. FilesFit' BY <2>6 DEF FilesFit
  <2>8. OkServes'
    <3>. SUFFICES ASSUME AllOk
         PROVE  taken' # <<>> /\ \A f \in DOMAIN Body' : Body'[f] # {} => Serves(f)'
      BY <2>1 DEF OkServes
    <3>1. taken # <<>> BY <2>1 DEF Inv, TypeOK
    <3>2. \A f \in DOMAIN Body : Body[f] # {} => f \in DOMAIN Body \ erred
      BY <2>1 DEF AllOk, Inv, ErredOk
    <3>3. \A f \in DOMAIN Body : Body[f] # {} => Serves(f) BY <2>5, <3>2
    <3>. QED BY <2>1, <2>4, <3>1, <3>3 DEF Serves
  <2>. QED BY <2>1, <2>3, <2>7, <2>8 DEF ErredOk, ThroughServes
<1>14. CASE AgentDies
  BY <1>14, DaemonStep DEF AgentDies
<1>15. CASE Reboot
  <2>1. \A f \in Families : ~active'[f] BY <1>15 DEF Reboot
  <2>. QED BY <1>15, <2>1, DaemonStep DEF Reboot
<1>16. ASSUME NEW f \in Families, Die(f)
       PROVE  MarkOk' /\ FilesFit' /\ ErredOk' /\ ThroughServes' /\ OkServes'
  <2>1. \A g \in Families : active'[g] => active[g] BY <1>t, <1>16 DEF Die
  <2>. QED BY <1>16, <2>1, DaemonStep DEF Die
<1>17. ASSUME NEW f \in Families, Restart(f)
       PROVE  MarkOk' /\ FilesFit' /\ ErredOk' /\ ThroughServes' /\ OkServes'
  <2>1. \A g \in Families : active'[g] => \/ active[g] /\ loaded'[g] = loaded[g]
                                          \/ loaded'[g] = conf[g]
    BY <1>t, <1>17 DEF Restart, Started
  <2>. QED BY <1>17, <2>1, DaemonStep DEF Restart
<1>18. CASE UNCHANGED vars
  BY <1>18, DaemonStep DEF vars
<1>. QED
  BY <1>1, <1>2, <1>3, <1>4, <1>5, <1>6, <1>7, <1>8, <1>9, <1>10, <1>11, <1>12,
     <1>13, <1>14, <1>15, <1>16, <1>17, <1>18
     DEF Next, Handle, Trouble

LEMMA Invariance == Spec => []Inv
BY InitInv, InvStep, PTL DEF Spec

-----------------------------------------------------------------------------
(* The properties *)

\* No failure, restart or reboot brings back a user that an answered PUT left
\* out, however PUTs fail, wait and are overtaken (desired).
THEOREM NothingOlderComesBack == Spec => []NothingOlder
<1>1. Inv => NothingOlder
  <2> SUFFICES ASSUME Inv, NEW f \in Families
      PROVE  LetsIn(f) = {} \/ \E users \in Recent(f) : LetsIn(f) \subseteq users
    BY DEF NothingOlder
  <2>1. Fits(conf[f], f) /\ (active[f] => Fits(loaded[f], f)) BY DEF Inv, FilesFit
  <2>. QED BY <2>1 DEF LetsIn, Fits
<1>. QED BY <1>1, Invariance, PTL

\* After ok=true the families that were given users serve exactly them, until
\* the next PUT is taken (desired, AuthScript).
THEOREM OkIsServed == Spec => []OkMeansServed
<1>1. Inv => OkMeansServed
  <2> SUFFICES ASSUME Inv, answer = "ok", NEW f \in DOMAIN Body,
                      Body[f] # {} /\ active[f]
      PROVE  LetsIn(f) = Body[f]
    BY DEF OkMeansServed
  <2>1. Serves(f) BY DEF Inv, OkServes
  <2>. QED BY <2>1 DEF LetsIn, Serves
<1>. QED BY <1>1, Invariance, PTL
=============================================================================
