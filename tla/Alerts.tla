------------------------------- MODULE Alerts -------------------------------
(***************************************************************************)
(* How the plane tells its admin about trouble: AlertLoop polls the fleet *)
(* and the users, posts to a webhook what is wrong and is due, and keeps  *)
(* in a map, Server.alertSent, when it posted what.  An alert that stays  *)
(* is repeated every alertResend, or every alertRetry after a post that   *)
(* failed.  The map is pruned to the alerts of the last poll.             *)
(*                                                                         *)
(* Time passes in ticks, between two steps or during one.  The map keeps  *)
(* ages in place of instants, up to Resend, after which all are alike.    *)
(* That settles PushAlerts' single reading of the clock, too: what is due *)
(* is known once the alerts are collected, and a post that ends later is  *)
(* noted under that reading.                                              *)
(***************************************************************************)
EXTENDS Integers

CONSTANTS NodeAlerts,       \* keys of fleetAlerts
          UserAlerts,       \* keys of quotaAlerts
          ConfigHook,       \* is ALERT_WEBHOOK set in the environment?
          Every,            \* TRAFFIC_POLL_SEC
          Retry, Resend,    \* alertRetry, alertResend
          MaxLag,           \* bound: how long a phase of a poll may take
          MaxCrashes        \* bound: restarts of the plane

Keys == NodeAlerts \cup UserAlerts

ASSUME AlertsAssumption ==
    /\ ConfigHook \in BOOLEAN
    /\ Every \in Nat /\ MaxLag \in Nat /\ MaxCrashes \in Nat
    /\ Retry \in Nat /\ Resend \in Nat
    /\ MaxLag <= Retry /\ Retry <= Resend

VARIABLES
    raised,                 \* the alerts a look at fleet and users would find
    dbUp, hookUp,           \* do the database and the webhook answer?
    setting,                \* is plane_settings.alert_webhook set?
    known, fine, age,       \* alertSent: its keys, sent.ok, now - sent.at
    pc, spent,              \* the loop: where it is, and for how long
    live, todo,             \* PushAlerts: the alerts found, those to post
    told, since, kept,      \* history: was the last post of a key answered,
                            \* how long ago was it, is it still in the map?
    overdue,                \* history: see Overdue
    crashes

world == <<raised, dbUp, hookUp, setting>>
sent == <<known, fine, age>>
history == <<told, since, kept, overdue>>
vars == <<world, sent, pc, spent, live, todo, history, crashes>>

AtMost(m, limit) == IF m < limit THEN m ELSE limit

\* How long a key stays quiet after a post.
Wait(ok) == IF ok THEN Resend ELSE Retry

\* An alert that lasts is heard of again within this time, if nothing fails.
Patience(ok) == Wait(ok) + Every + 4 * MaxLag

TypeOK ==
    /\ raised \subseteq Keys
    /\ dbUp \in BOOLEAN /\ hookUp \in BOOLEAN /\ setting \in BOOLEAN
    /\ known \subseteq Keys
    /\ fine \in [Keys -> BOOLEAN]
    /\ age \in [Keys -> 0 .. Resend]
    /\ pc \in {"idle", "nodes", "users", "posts"}
    /\ spent \in Nat
    /\ live \subseteq Keys
    /\ todo \subseteq live
    /\ told \in [Keys -> BOOLEAN]
    /\ since \in [Keys -> 0 .. Resend]
    /\ kept \in [Keys -> BOOLEAN]
    /\ overdue \in [Keys -> Nat]
    /\ crashes \in Nat

Init ==
    /\ raised \in SUBSET Keys
    /\ dbUp \in BOOLEAN /\ hookUp \in BOOLEAN /\ setting \in BOOLEAN
    /\ known = {}
    /\ fine = [k \in Keys |-> FALSE]
    /\ age = [k \in Keys |-> 0]
    /\ pc = "idle"
    /\ spent = 0
    /\ live = {} /\ todo = {}
    /\ told = [k \in Keys |-> FALSE]
    /\ since = [k \in Keys |-> Resend]
    /\ kept = [k \in Keys |-> FALSE]
    /\ overdue = [k \in Keys |-> 0]
    /\ crashes = 0

-----------------------------------------------------------------------------
(* The world *)

\* webhookURL: the setting if it can be read and is not empty, else the
\* environment's.
Hooked == (dbUp /\ setting) \/ ConfigHook

\* The alert is on and every part of the plane would let it through.
Audible(k) == k \in raised /\ dbUp /\ hookUp /\ Hooked

\* A node or a user gets into trouble, or out of it.
Change(k) ==
    /\ raised' = IF k \in raised THEN raised \ {k} ELSE raised \cup {k}
    /\ overdue' = [overdue EXCEPT ![k] = 0]
    /\ UNCHANGED <<dbUp, hookUp, setting, sent, pc, spent, live, todo, told,
                   since, kept, crashes>>

\* The database or the webhook fails, or comes back.
Flip == /\ \/ dbUp' = ~dbUp /\ UNCHANGED hookUp
           \/ hookUp' = ~hookUp /\ UNCHANGED dbUp
        /\ overdue' = [k \in Keys |-> 0]
        /\ UNCHANGED <<raised, setting, sent, pc, spent, live, todo, told, since,
                       kept, crashes>>

\* patchSettings: the webhook is set, or cleared.
PatchWebhook ==
    /\ dbUp
    /\ setting' = ~setting
    /\ overdue' = [k \in Keys |-> 0]
    /\ UNCHANGED <<raised, dbUp, hookUp, sent, pc, spent, live, todo, told,
                   since, kept, crashes>>

\* Time passes.  The ticker wakes the loop after Every, and a phase of a poll
\* ends by the timeouts of the queries, probes and posts it makes.
Tick ==
    /\ spent < IF pc = "idle" THEN Every ELSE MaxLag
    /\ spent' = spent + 1
    /\ age' = [k \in Keys |-> AtMost(age[k] + 1, Resend)]
    /\ since' = [k \in Keys |-> AtMost(since[k] + 1, Resend)]
    /\ overdue' = [k \in Keys |-> IF Audible(k) THEN overdue[k] + 1 ELSE 0]
    /\ UNCHANGED <<world, known, fine, pc, live, todo, told, kept, crashes>>

-----------------------------------------------------------------------------
(* PushAlerts *)

\* A poll begins with the URL; without one nothing is collected or pruned.
PollStarts ==
    /\ pc = "idle"
    /\ pc' = IF Hooked THEN "nodes" ELSE "idle"
    /\ spent' = 0
    /\ UNCHANGED <<world, sent, live, todo, history, crashes>>

\* collectAlerts: ListNodes and probeFleet; then ListUsers.  What cannot be
\* listed has no alerts.
CollectNodes ==
    /\ pc = "nodes"
    /\ live' = IF dbUp THEN raised \cap NodeAlerts ELSE {}
    /\ pc' = "users"
    /\ spent' = 0
    /\ UNCHANGED <<world, sent, todo, history, crashes>>

\* wantAlert
MutantWantAlertNoRetry(k) == k \in known => age[k] >= Resend
MutantWantAlertEager(k) == k \in known => age[k] >= Retry
WantAlert(k) == k \in known => age[k] >= Wait(fine[k])

MutantCollectUsersUnlisted ==
    /\ pc = "users"
    /\ live' = live
    /\ todo' = {k \in live \cup IF dbUp THEN raised \cap UserAlerts ELSE {} :
                   WantAlert(k)}
    /\ pc' = "posts"
    /\ spent' = 0
    /\ UNCHANGED <<world, sent, history, crashes>>
CollectUsers ==
    /\ pc = "users"
    /\ live' = live \cup IF dbUp THEN raised \cap UserAlerts ELSE {}
    /\ todo' = {k \in live' : WantAlert(k)}
    /\ pc' = "posts"
    /\ spent' = 0
    /\ UNCHANGED <<world, sent, history, crashes>>

\* postWebhook and noteAlertSent.
Post(k) ==
    /\ pc = "posts" /\ k \in todo
    /\ todo' = todo \ {k}
    /\ known' = known \cup {k}
    /\ fine' = [fine EXCEPT ![k] = hookUp]
    /\ age' = [age EXCEPT ![k] = spent]
    /\ told' = [told EXCEPT ![k] = hookUp]
    /\ since' = [since EXCEPT ![k] = 0]
    /\ kept' = [kept EXCEPT ![k] = TRUE]
    /\ overdue' = [overdue EXCEPT ![k] = IF hookUp THEN 0 ELSE @]
    /\ UNCHANGED <<world, pc, spent, live, crashes>>

\* pruneAlerts: what was not found in this poll is forgotten.
Prune ==
    /\ pc = "posts" /\ todo = {}
    /\ known' = known \cap live
    /\ kept' = [k \in Keys |-> kept[k] /\ k \in live]
    /\ live' = {}
    /\ pc' = "idle"
    /\ spent' = 0
    /\ UNCHANGED <<world, fine, age, todo, told, since, overdue, crashes>>

\* The map and the poll are in memory only.
RestartPlane ==
    /\ crashes < MaxCrashes
    /\ crashes' = crashes + 1
    /\ known' = {}
    /\ kept' = [k \in Keys |-> FALSE]
    /\ pc' = "idle"
    /\ spent' = 0
    /\ live' = {} /\ todo' = {}
    /\ overdue' = [k \in Keys |-> 0]
    /\ UNCHANGED <<world, fine, age, told, since>>

-----------------------------------------------------------------------------
Poll == PollStarts \/ CollectNodes \/ CollectUsers \/ Prune \/ \E k \in Keys : Post(k)

Next == \/ \E k \in Keys : Change(k)
        \/ Flip
        \/ PatchWebhook
        \/ Tick
        \/ Poll
        \/ RestartPlane

Spec == Init /\ [][Next]_vars

-----------------------------------------------------------------------------
(* Properties *)

\* While the map remembers an alert it is not posted again before its wait is
\* over: Resend after an answer, Retry after a failure, less the time that a
\* post may take, as it is noted under the time the posts began (wantAlert,
\* noteAlertSent).  An alert the admin keeps getting is one he mutes.
Paced ==
    [][\A k \in Keys :
          Post(k) /\ kept[k] => since[k] >= Wait(told[k]) - MaxLag]_vars

\* An alert that lasts while database, webhook and settings stay up is posted
\* and answered within Patience, whatever failed, was fixed, was raised again
\* or was pruned before (PushAlerts): the map never mutes what nobody heard.
Prompt == \A k \in Keys : overdue[k] <= Patience(k \in known /\ fine[k])
=============================================================================
