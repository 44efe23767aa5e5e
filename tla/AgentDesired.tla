---------------------------- MODULE AgentDesired ----------------------------
(***************************************************************************)
(* The agent of an exit node: what PUT /v1/desired does, family by family, *)
(* to the files and daemons of the node.                                   *)
(*                                                                         *)
(* A body names, for some families, the users they shall let in.  xray    *)
(* and trusttunnel read their users when they start; hysteria asks an     *)
(* auth script at every login, and that script reads the file.  systemd   *)
(* starts a daemon again that died, and the enabled ones after a reboot.  *)
(***************************************************************************)
EXTENDS Integers, Sequences

CONSTANTS Users,
          Bodies,           \* desired states the plane may send
          MaxPuts,          \* bound: PUTs that are sent
          MaxFaults         \* bound: failures of the node

Families == {"xray", "hy2", "tt"}

ASSUME AgentAssumption ==
    /\ \A b \in Bodies : /\ DOMAIN b \subseteq Families /\ DOMAIN b # {}
                         /\ \A f \in DOMAIN b : b[f] \subseteq Users
    /\ MaxPuts \in Nat /\ MaxFaults \in Nat

VARIABLES
    waiting,                \* PUTs that wait for applyMu, in no order
    taken,                  \* history: the PUTs that got it, in that order
    pc,                     \* the handler: "idle" or its step in ...
    fam,                    \* ... the family it works on
    erred,                  \* families whose apply returned an error
    listen,                 \* families found listening
    answer,                 \* to the last PUT taken: 200 ok, 200 not ok, 500
    conf,                   \* per family: the users in its file
    loaded,                 \* the users its daemon read when it started
    active, enabled,        \* its systemd unit
    mark,                   \* history: see Recent
    faults

handler == <<pc, fam, erred, listen>>
units   == <<loaded, active, enabled>>
vars == <<waiting, taken, handler, answer, conf, units, mark, faults>>

Steps == {"idle", "write", "start", "check", "mint", "stop", "answer"}

\* The body that is worked on.
Body == taken[Len(taken)]

\* The types, and a handler at work is in a family its body names.
TypeOK ==
    /\ waiting \in Seq(Bodies)
    /\ taken \in Seq(Bodies)
    /\ pc \in Steps
    /\ fam \in Families
    /\ erred \subseteq Families
    /\ listen \subseteq Families
    /\ pc # "idle" => taken # <<>> /\ fam \in DOMAIN Body
    /\ answer \in {"none", "ok", "degraded", "failed"}
    /\ conf \in [Families -> SUBSET Users]
    /\ loaded \in [Families -> SUBSET Users]
    /\ active \in [Families -> BOOLEAN]
    /\ enabled \in [Families -> BOOLEAN]
    /\ mark \in [Families -> Nat]
    /\ faults \in Nat

\* A fresh node: nothing is installed.
Init ==
    /\ waiting = <<>> /\ taken = <<>>
    /\ pc = "idle" /\ fam = "xray" /\ erred = {} /\ listen = {}
    /\ answer = "none"
    /\ conf = [f \in Families |-> {}]
    /\ loaded = [f \in Families |-> {}]
    /\ active = [f \in Families |-> FALSE]
    /\ enabled = [f \in Families |-> FALSE]
    /\ mark = [f \in Families |-> 0]
    /\ faults = 0

Fault == faults < MaxFaults /\ faults' = faults + 1

-----------------------------------------------------------------------------
(* The queue at applyMu *)

\* The plane sends a body.  It may give up at any time; nobody here notices.
Send(b) ==
    /\ Len(waiting) + Len(taken) < MaxPuts
    /\ waiting' = Append(waiting, b)
    /\ UNCHANGED <<taken, handler, answer, conf, units, mark, faults>>

\* The handler goes to the first of some families, or on to the answer.
GoTo(fams) ==
    IF fams = {} THEN pc' = "answer" /\ UNCHANGED fam
    ELSE /\ pc' = "write"
         /\ fam' = IF "xray" \in fams THEN "xray"
                   ELSE IF "hy2" \in fams THEN "hy2" ELSE "tt"

\* The families of the body that come after the current one.
MutantRest == IF fam = "xray" THEN {"hy2", "tt"}
              ELSE IF fam = "hy2" THEN {"tt"} ELSE {}
Rest == DOMAIN Body \cap (IF fam = "xray" THEN {"hy2", "tt"}
                          ELSE IF fam = "hy2" THEN {"tt"} ELSE {})

Without(s, i) == [j \in 1 .. Len(s) - 1 |-> s[IF j < i THEN j ELSE j + 1]]

\* A waiting handler gets the mutex and decodes its body.
Take(i) ==
    /\ pc = "idle"
    /\ taken' = Append(taken, waiting[i])
    /\ waiting' = Without(waiting, i)
    /\ GoTo(DOMAIN waiting[i])
    /\ erred' = {} /\ listen' = {} /\ answer' = "none"
    /\ UNCHANGED <<conf, units, mark, faults>>

\* The current family is applied.
Done == GoTo(Rest) /\ UNCHANGED <<erred, answer>>

\* The current family returns an error.  That of xray, or of the only family,
\* ends the request with a 500; another is noted and the next family follows.
Failed ==
    /\ UNCHANGED listen
    /\ IF fam = "xray" \/ DOMAIN Body = {fam}
         THEN /\ pc' = "idle" /\ answer' = "failed"
              /\ UNCHANGED <<fam, erred>>
         ELSE /\ GoTo(Rest)
              /\ erred' = erred \cup {fam}
              /\ UNCHANGED answer

-----------------------------------------------------------------------------
(* applyVLESS, applyHy2 and applyTT *)

\* The users' file is written: always for xray, and for the others too if no
\* users are left, when the daemon is to be stopped.
Write ==
    /\ pc = "write"
    /\ conf' = [conf EXCEPT ![fam] = Body[fam]]
    /\ pc' = IF fam # "xray" /\ Body[fam] = {} THEN "stop" ELSE "start"
    /\ UNCHANGED <<waiting, taken, fam, erred, listen, answer, units, mark,
                   faults>>

\* No certificate, binary or hostname, or the disk is full.  Only trusttunnel's
\* file is written in place and may be left with some of the users.
WriteFails ==
    /\ pc = "write" /\ Fault
    /\ \E torn \in SUBSET Body[fam] :
          conf' = IF fam = "tt" THEN [conf EXCEPT ![fam] = torn] ELSE conf
    /\ Failed
    /\ UNCHANGED <<waiting, taken, units, mark>>
WriteFailsEarly ==
    /\ pc = "write" /\ Fault
    /\ Failed
    /\ UNCHANGED <<waiting, taken, conf, units, mark>>

\* InstallUnit: daemon-reload, enable --now and restart.
Started(f) ==
    /\ loaded' = [loaded EXCEPT ![f] = conf[f]]
    /\ active' = [active EXCEPT ![f] = TRUE]
MutantStart ==
    /\ pc = "start"
    /\ IF active[fam] THEN UNCHANGED <<loaded, active>> ELSE Started(fam)
    /\ enabled' = [enabled EXCEPT ![fam] = TRUE]
    /\ pc' = "check"
    /\ UNCHANGED <<waiting, taken, fam, erred, listen, answer, conf, mark,
                   faults>>
Start ==
    /\ pc = "start"
    /\ Started(fam)
    /\ enabled' = [enabled EXCEPT ![fam] = TRUE]
    /\ pc' = "check"
    /\ UNCHANGED <<waiting, taken, fam, erred, listen, answer, conf, mark,
                   faults>>

\* One of the commands fails: early, or with the daemon stopped.
StartFails ==
    /\ pc = "start" /\ Fault
    /\ Failed
    /\ \/ UNCHANGED <<active, enabled>>
       \/ /\ active' = [active EXCEPT ![fam] = FALSE]
          /\ enabled' = [enabled EXCEPT ![fam] = TRUE]
    /\ UNCHANGED <<waiting, taken, conf, loaded, mark>>

\* Is the daemon there?  For xray and hysteria the answer is only reported.
Check ==
    /\ pc = "check" /\ fam # "tt"
    /\ listen' = IF active[fam] THEN listen \cup {fam} ELSE listen
    /\ Done
    /\ UNCHANGED <<waiting, taken, conf, units, mark, faults>>

\* A port of a running daemon is not open (yet).
CheckClosed ==
    /\ pc = "check" /\ fam # "tt" /\ Fault
    /\ Done
    /\ UNCHANGED <<waiting, taken, listen, conf, units, mark>>

\* The port file of xray, written after its start, cannot be written.
PortFileFails ==
    /\ pc = "check" /\ fam = "xray" /\ Fault
    /\ Failed
    /\ UNCHANGED <<waiting, taken, conf, units, mark>>

\* trusttunnel has to be active, and then mints a link for each user.
CheckTT ==
    /\ pc = "check" /\ fam = "tt"
    /\ IF active[fam]
         THEN pc' = "mint" /\ UNCHANGED <<fam, erred, listen, answer>>
         ELSE Failed
    /\ UNCHANGED <<waiting, taken, conf, units, mark, faults>>

Mint ==
    /\ pc = "mint"
    /\ listen' = listen \cup {fam}
    /\ Done
    /\ UNCHANGED <<waiting, taken, conf, units, mark, faults>>

\* Minting fails, or the caller is gone and the command is killed.
MintFails ==
    /\ pc = "mint" /\ Fault
    /\ Failed
    /\ UNCHANGED <<waiting, taken, conf, units, mark>>

\* StopUnit: disable --now.  A unit that does not exist is no error.
Stop ==
    /\ pc = "stop"
    /\ active' = [active EXCEPT ![fam] = FALSE]
    /\ enabled' = [enabled EXCEPT ![fam] = FALSE]
    /\ Done
    /\ UNCHANGED <<waiting, taken, listen, conf, loaded, mark, faults>>

StopFails ==
    /\ pc = "stop" /\ Fault
    /\ Failed
    /\ \/ UNCHANGED enabled
       \/ enabled' = [enabled EXCEPT ![fam] = FALSE]
    /\ UNCHANGED <<waiting, taken, conf, loaded, active, mark>>

-----------------------------------------------------------------------------
\* The end of the handler.  A family without users counts as ok whether or not
\* it could be stopped.
MutantAllOk == \A f \in DOMAIN Body : f = "xray" => f \in listen
AllOk == \A f \in DOMAIN Body : f \in listen \/ (f # "xray" /\ Body[f] = {})

\* (mark remembers, per family, the last PUT that had no error with it.)
Answer ==
    /\ pc = "answer"
    /\ answer' = IF AllOk THEN "ok" ELSE "degraded"
    /\ mark' = [f \in Families |-> IF f \in DOMAIN Body \ erred THEN Len(taken)
                                                               ELSE mark[f]]
    /\ pc' = "idle"
    /\ UNCHANGED <<waiting, taken, fam, erred, listen, conf, units, faults>>

-----------------------------------------------------------------------------
(* The node *)

\* A daemon dies.
Die(f) ==
    /\ active[f] /\ Fault
    /\ active' = [active EXCEPT ![f] = FALSE]
    /\ UNCHANGED <<waiting, taken, handler, answer, conf, loaded, enabled, mark>>

\* systemd starts it again (Restart=on-failure, or after a reboot), or the hook
\* that lehook.Install leaves with certbot restarts it.
Restart(f) ==
    /\ \/ ~active[f] /\ enabled[f]
       \/ active[f] /\ f # "xray"
    /\ Started(f)
    /\ UNCHANGED <<waiting, taken, handler, answer, conf, enabled, mark, faults>>

\* The agent dies with the requests it has.
AgentDies ==
    /\ Fault
    /\ waiting' = <<>>
    /\ pc' = "idle"
    /\ UNCHANGED <<taken, fam, erred, listen, answer, conf, units, mark>>

\* The node reboots: enabled units are started by Restart.
Reboot ==
    /\ Fault
    /\ waiting' = <<>>
    /\ pc' = "idle"
    /\ active' = [f \in Families |-> FALSE]
    /\ UNCHANGED <<taken, fam, erred, listen, answer, conf, loaded, enabled, mark>>

Handle == \/ \E i \in DOMAIN waiting : Take(i)
          \/ Write \/ Start \/ Check \/ CheckTT \/ Mint \/ Stop \/ Answer

Trouble == \/ WriteFails \/ WriteFailsEarly \/ StartFails \/ CheckClosed
           \/ PortFileFails \/ MintFails \/ StopFails
           \/ AgentDies \/ Reboot \/ \E f \in Families : Die(f)

Next == \/ \E b \in Bodies : Send(b)
        \/ Handle
        \/ Trouble
        \/ \E f \in Families : Restart(f)

Spec == Init /\ [][Next]_vars

-----------------------------------------------------------------------------
(* Properties *)

\* The users that family f lets in.
LetsIn(f) == IF ~active[f] THEN {} ELSE IF f = "hy2" THEN conf[f] ELSE loaded[f]

\* The user sets that PUTs have named for f since the last PUT that was
\* answered without an error of f, that one included.
Recent(f) == {taken[k][f] : k \in {j \in DOMAIN taken : /\ j >= mark[f]
                                                        /\ f \in DOMAIN taken[j]}}

\* A user that an answered PUT left out stays out: failed PUTs, dead daemons,
\* restarts, reboots and a dead agent never bring back what an older PUT wrote.
NothingOlder ==
    \A f \in Families : LetsIn(f) = {} \/ \E users \in Recent(f) : LetsIn(f) \subseteq users

\* After an answer with ok=true a family that was given users serves exactly
\* them whenever it is up, however often it is restarted, until the next PUT.
OkMeansServed ==
    answer = "ok" => \A f \in DOMAIN Body :
        Body[f] # {} /\ active[f] => LetsIn(f) = Body[f]

\* The same promise for families that were left without users: nobody gets in.
OkMeansStopped ==
    answer = "ok" => \A f \in DOMAIN Body : LetsIn(f) \subseteq Body[f]
=============================================================================
