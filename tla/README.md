# goodwin-vpn-backend: a verification project in TLA+

The repository is the backend of a VPN service: a **plane** (one Go process with a PostgreSQL
database, `src/cmd/plane`) that administers users and exit nodes, and an **agent** on every exit
node (`src/cmd/agent`) that turns a desired state into running daemons (xray for VLESS,
hysteria, trusttunnel). This directory holds TLA+ modules for the parts of it that decide *who
may use which node and how much was used*, TLC runs over small instances, and TLAPS proofs.

## 1. The system

| component | state it keeps | operations | talks to |
|---|---|---|---|
| Users (`api/server.go`, `store/store.go`) | `users`: status, upload, download, total, expire, quota_reset, quota_period_start, group | createUser, patchUser, revokeUser, deleteUser, token rotation | apply machinery |
| Entitlement rules (`sub/entitle.go`, `sub/period.go`) | none | `Entitled`, `PeriodDue`, `PeriodStart` | used by all others |
| Apply and kicks (`api/server.go`) | `applyMu` (a mutex per node), `pendingKicks`, `entitled` | applyGroupNodes, applyStoredNode, markKick, clearKick, pendingKickCopy, applyNode, applyAllNodes | agents, `nodes`, `users`, `tt_links` |
| Sweep and collector (`api/traffic.go`) | `traffic_cursor`, the user counters | SweepEntitlement, CollectTraffic, creditTraffic | agents, apply machinery |
| Nodes and groups (`api/server.go`) | `nodes`, `groups`, `node_groups` | enrol, patch stack, set groups, delete | apply machinery |
| Health cache and fleet view (`api/server.go`, `api/fleet.go`) | `healthCache` (15 s) | nodeHealth, noteNodeAlive | agents, subscription |
| Subscription (`api/server.go`, `sub/render.go`) | none | token to list of links | users, nodes, tt_links |
| Login limiter (`api/server.go`) | attempts per address | loginAllowed, loginFailed | none |
| Alerts (`api/alerts.go`) | last-sent map | one poll per tick | fleet view, webhook |
| Settings, REALITY keys (`api/server.go`, `reality/keys.go`) | `plane_settings` rows | ensureReality, patchSettings, realityShare | apply machinery, subscription |
| Agent (`agentd/server.go`, `hy2run`, `ttrun`, `xrayrun`) | its files and units, `applyMu` | PUT /v1/desired, GET /v1/stats, /healthz | daemons |
| Stack rules (`stack/stack.go`) | none | validation, port clashes | nodes, agent |
| Configuration builders, host tools, geo packs, UI, installers | files | formatting, shell commands, downloads | none |

How they interact. `main` starts three loops beside the HTTP server: one sweeps, one collects
traffic and one posts alerts. A handler, the sweep and the collector all do the same two things:
change rows, then call `applyGroupNodes`, which for each node of the group takes that node's
mutex, reads the users of all of the node's groups, and PUTs the entitled ones. Nothing makes
the change and the apply one atomic step, and nothing orders the threads except the mutex of a
node and the mutex `mu` that guards the maps.

What is hard about it:

- *interleaving*: a row is read, changed and applied by several threads; the entitlement is
  evaluated with a clock that was read earlier;
- *memory of work to do*: `pendingKicks` and `entitled` decide whether the next sweep does
  anything. They are in memory, and marked and cleared by all threads;
- *partial failure*: a node of a group fails, one family of a node fails (200 with `ok=false`),
  a query in the middle of the apply fails;
- *timeouts*: the plane gives up on a PUT after 180 s, the agent goes on with it and with a
  queue of them;
- *restarts*: of the plane between any two steps, of a daemon (its byte counters start again
  from 0);
- *whole-row writes*: `UpdateUser`, `UpdateNode` and `UpdateGroup` write back a row that was
  read some time before.

What makes each part correct, as properties of section 4 or of the plan: a user that may not use
a node is taken off it, sooner or later, whatever interleaves or fails; one that may is let in,
and has a link; no byte is credited twice and none is lost without a daemon restart; a
subscription lists what the nodes run, with the keys they have; an alert that lasts is heard of,
and not too often.

## 2. The modules

| module | models | code |
|---|---|---|
| `Metering` | abstract: a byte that was carried may be credited, once | what `traffic_cursor` is for |
| `TrafficLedger` | CollectTraffic, ApplyTraffic, and the other writers of the counters | `traffic.go` 38-105, `store.go` 255-285, 653-718 |
| `MCTrafficLedger` | instance for TLC | |
| `TrafficLedgerProofs` | type, invariants, sums over streams, refinement of `Metering` | |
| `Calendar` | days, weekdays and months of Go's `time` | external |
| `Entitlement` (extends `Calendar`) | Entitled, PeriodStart, PeriodDue | `sub/entitle.go`, `sub/period.go` |
| `PlaneApply` (extends `Entitlement`) | handlers, sweep, collector, applies, agents as the plane sees them | `server.go` 808-1190, 1509-1845, `traffic.go` 38-177 |
| `MCPlaneApply` | instances for TLC | |
| `MCPeriods` (extends `MCPlaneApply`) | `PeriodStart` against a calendar written down | `sub/period_test.go` |
| `PlaneApplyProofs` | where a period begins; type; kicks and places survive failures, and are never lost where nothing fails or the sweep is alone; periods begin | |
| `Members` | groups, users, the groups of a node, and the applies they end in | `server.go` 628-774, 808-1141, 1384-1421, 1596-1845, `store.go` 208-344, 453-502, 550-628 |
| `MCMembers` | instance for TLC | |
| `MembersProofs` | type, nobody is forgotten | |
| `AgentDesired` | the handler of PUT /v1/desired, the daemons and systemd | `agentd/server.go` 172-330, `hy2run`, `ttrun`, `xrayrun` |
| `MCAgentDesired` | instance for TLC | |
| `AgentDesiredProofs` | type, nothing older comes back, ok is served | |
| `Stack` | the rules about stacks: Validate, presets, the checks of the plane | `stack/stack.go`, `server.go` 1283, 1443, 1596-1700 |
| `StackSpec` (extends `Stack`) | a stack on its way from the admin to the sockets | `xrayconf/build.go` 66-361 |
| `MCStackSpec` | the stacks TLC tries | |
| `StackSpecProofs` | what is accepted is built, sockets are apart, presets work | |
| `NodeRow` (extends `Stack`) | the `nodes` row and everybody who writes it, the probes, the links | `server.go` 1195-1845, 2140-2220, `store.go` 400-420, 605-623 |
| `MCNodeRow` | instances for TLC | |
| `NodeRowProofs` | type, the row stays consistent, what is listed runs | |
| `Reality` | the REALITY keys in `plane_settings`, on the nodes and in the link of a subscription | `server.go` 461-542, 1711-1744, 1847-1907, `reality/keys.go` |
| `MCReality` | instance for TLC | |
| `RealityProofs` | type, keys are kept, nodes are reachable | |
| `Alerts` | AlertLoop, PushAlerts and the map of what was sent | `alerts.go`, `fleet.go` 58-92 |
| `MCAlerts` | instance for TLC | |
| `AlertsProofs` | type, alerts are paced and prompt | |

### TrafficLedger

A *stream* is a key of `traffic_cursor`: node, user, source (a daemon). `counter` is the
daemon's counter, `cursor` and `used` are the columns, `plan`, `held` and `reading` are the
local variables of a CollectTraffic goroutine: the nodes it has still to poll, the rows of the
last poll it has not credited yet, and their values. `edit` is the copy a patchUser request
holds. `carried`, `credited`, `taken` and `marked` are history and are read by no guard.

| action | code |
|---|---|
| `BeginPass`, `Poll`, `PollFails` | the loop over nodes, one GET /v1/stats each; a failing node is skipped |
| `Credit`, `CreditFails` | creditTraffic and ApplyTraffic: one transaction per row, an error is logged and the row dropped |
| `ResetQuotaPeriod` | the sweep zeroes the counters; `traffic_cursor` is left alone |
| `PatchRead`, `PatchWrite` | patchUser reads the row and UpdateUser writes all of it back |
| `Carry`, `RestartDaemon`, `RestartPlane` | the environment |

`Metering` is the abstract specification: per stream, bytes that were carried and bytes that
were credited, and a step that credits no more than is owed. `ImplementsMetering` instantiates
it (`INSTANCE Metering WITH`) with the ledger's own `carried` and `credited`, which have a
number for each stream; no other variable of the ledger is visible there. Upload and
download are handled alike; one direction stands for both.

### Calendar and Entitlement

Instants are integers, `DayLen` of them make a day, and `FirstDay` says which day instant 0 is
on. `PeriodStart` is the code's: midnight, minus the days since the period began, where Go
counts a Sunday as day 0. `MCPeriods` states as an assumption, which TLC evaluates before it
runs, that for every instant of 2023 to 2028 the period begins with the latest boundary in a
list of boundaries that is built from the lengths of months; and the dates of `period_test.go`.

### PlaneApply

`life` and `row` are the `users` table; `pending`, `ent` and `holder` are `Server.pendingKicks`,
`Server.entitled` and the per-node mutexes; `installed` is the set of users each node lets in,
`late` the PUTs an agent still has although their callers are gone. A thread is a goroutine that
can be in `applyGroupNodes`: one per request in flight, the sweep, the collector. Its program
counter and locals are `pc`, `todo` (groups still to apply), `grp`/`left`/`failed`
(applyGroupNodes), and `node`/`at`/`gleft`/`push` (applyStoredNode). A step is one statement
against the database, one critical section or one call to an agent.

| action | code |
|---|---|
| `NextGroup`, `NextGroupFails`, `NextNodeFails`, `EndGroup` | applyGroupNodes 1143-1171 with markKick and clearKick |
| `Lock`, `ReadGroup`, `ReadFails`, `Return` | applyStoredNode up to the PUT: mutex, groups, clock, users group by group |
| `PutOk`, `PutUnsaved`, `PutRefused`, `PutTimesOut`, `PutPartial` | the outcomes of the PUT and of storing its result |
| `LateApplied`, `LateDropped` | the agent ends a request whose caller is gone |
| `CreateUser`, `PatchRead`, `PatchWrite`, `PatchFails`, `RevokeUser`, `DeleteUser`, `ApplyNodes` | the handlers |
| `SweepList`, `SweepClock`, `SweepReset`, `SweepResetFails`, `SweepSwap` | SweepEntitlement |
| `CollectBegin`, `CollectRead`, `CollectCredit`, ... `CollectEnd` | CollectTraffic with creditTraffic |
| `RestartPlane` | a new process: the maps are empty, the tables stay |

Abstractions, all of them deliberate:

- agents take PUTs in the order they were sent, if the constant `InOrder` says so. The code does
  not promise it: the mutex of the agent may serve a newer waiter first, and `apply_overlap` has
  them in any order;
- one protocol family per node; that another one succeeds is `PutPartial` on `SiblingNodes`. An
  agent that answers 500 after it has let the users in is a `PutTimesOut` followed by
  `LateApplied`: the plane sees an error both times;
- the `nodes` row and `tt_links`, which an apply writes, are not here: no step of this module
  reads them. Which nodes and groups exist is constant;
- reading the next node and locking its mutex is one step, and so is the swap of `entitled` with
  `pendingKickCopy`: nothing between the two is visible to others;
- the resets that are due are computed at once instead of one by one;
- `createUser` creates one user; `Members` creates several;
- the clock, the traffic and the number of requests, failures and restarts are bounded by
  `MaxTime`, `MaxUsed`, `MaxOps`, `MaxFaults` and `MaxCrashes`.

`blind` is a history variable: the users that became entitled again while the sweep had them
recorded as out, or about whom a failed reset made the sweep keep an old row that says so. The
sweep cannot see such a user leave a second time, which is finding 4 below; `NoForgottenKick` is
about everybody else and `EveryKickOwed` about all.

`crossed`, `forgotten` and `missed` are history, too, and say where the plane loses sight of an
apply. A node is `forgotten` if `clearKick` took away a mark that another thread left after this
one took the group (such a thread is `crossed`), if one family of the node covered up for another
(`PutPartial`), or if a PUT overtook one the plane had given up. A user is `missed` if a restart
found the apply or the kick of its group under way, or if a patch that applies nothing wrote it
back while the sweep was not looking. Both end as soon as a thread takes a group of the node, or
one is marked. `KicksSurvive` and `PlacesSurvive` say that *nothing else* loses a kick or a
place, whatever fails, overlaps or restarts.

### AgentDesired

`waiting` are the requests that wait for `Server.applyMu`, from which `Take` picks any; `taken`
those that got it. `pc` and `fam` are where the handler is, `erred` and `listen` its local
results. `conf`, `loaded`, `active` and `enabled` are, per family, the users in the file, those
its daemon read when it started, and its systemd unit. `LetsIn` says who gets in: hysteria's
auth script reads the file at every login, the others what they started with.

| action | code |
|---|---|
| `Send`, `Take`, `Answer` | the handler `desired`, its mutex and its answer |
| `Write`, `Start`, `Check`, `CheckTT`, `Mint`, `Stop` | applyVLESS, applyHy2, applyTT |
| `WriteFails`, `WriteFailsEarly`, `StartFails`, `CheckClosed`, `PortFileFails`, `MintFails`, `StopFails` | their error paths |
| `Die`, `Restart`, `AgentDies`, `Reboot` | daemons, systemd, the hook that restarts daemons, the node |

Users are members of a set; certificates, ports and the text of files are left out, and so is
that a file is written in several writes, but for trusttunnel's, which may be torn.

### Stack and StackSpec

Validation and the presets are operators in `Stack`, where `PortsDiffer` and `ListenOk` are what
`Validate` asks of ports and listens. `StackSpec` is a pipeline of the three places that check a
stack, in three packages: `SetNodeStack` and `CreateNode`, `ApplyStoredNode`, and `Build` on the
agent. `Sockets` is what the daemons then bind. Ports are numbers, names and paths of listens
are left out.

### NodeRow

One node. `row` is its line of `nodes`, `grouped` says if it is in `node_groups`, `links` for
which settings the lines of `tt_links` were minted. `holder` is the node's mutex, `health` its
entry of the cache. `pc` and `copy` belong to a thread: the next step, and the `store.Node` it
read. `config`, `up` and `late` are the agents: per daemon the settings it runs with, who
answers, and a PUT that an agent still has although the plane gave up on it. `saved` is history:
what requests saved last, and so is `astray`: since the last apply that was stored, one was
refused or cut off by a query, a probe listed a node whose apply had failed, or `createNode` gave
a node its groups after other requests had already applied it.

| action | code |
|---|---|
| `CreateNode`, `GroupNew`, `GroupNewFails`, `EnrollNode`, `SetNodeStack`, `PatchNode`, `ApplyNode`, `SetNodeGroups`, `DeleteNode` | the handlers, up to their write |
| `WriteNode`, `Enroll`, `EnrollFails`, `ReadNode` | UpdateNode of the handlers, doEnroll |
| `Lock`, `LockFails`, `PutOk`, `PutPartial`, `PutRefused`, `PutTimesOut`, `GiveUp`, `Save`, `ReplaceTTLinks`, `StoreFails` | applyStoredNode |
| `ProbeRead`, `ProbeCached`, `ProbeAgent`, `ProbeCache`, `Note`, `Expire` | probeNodeHealth, noteNodeAlive and the cache |
| `Late`, `Flip` | the environment |

Abstractions: daemons instead of families, as one xray serves four of them; at most one late PUT
for an agent, which takes them in order (`PlaneApply_overtaken` is about what happens
otherwise); which users a node has is the subject of `PlaneApply` and `Members`.

### Members

The threads and the apply are those of `PlaneApply`, in fewer steps; what moves are the tables
around it. `life` and `good` are the users and whether their rows entitle them, `glife`, `open`
and `serves` are `groups` (with or without the family) and `node_groups`, `links` is `tt_links`.
`more`, `copy` and `ids` are locals of requests, `fresh` the rows of `node_groups` that a
transaction of setNodeGroups does not see, because another one inserted them since its DELETE
began (READ COMMITTED): they stay beside the rows it inserts itself, however many transactions
there are.

| action | code |
|---|---|
| `CreateGroup`, `PatchRead`, `PatchWrite`, `DeleteGroup` | the handlers of groups |
| `CreateUsers`, `InsertUser`, `InsertFails`, `InsertOrphan` | createUser, one INSERT at a time |
| `SetStatus`, `RevokeUser`, `RevokeLinks`, `DeleteUser`, `DropUser`, `DropUserFails` | patchUser with a status, revokeUser, deleteUser with its two DELETEs |
| `MoveNode`, `MoveCommits`, `NodeUnread`, `ApplyNode`, `EndNode` | setNodeGroups and applyNode |
| `NextGroup`, `Lock` ... `Put`, `PutUnsaved`, `PutPartial`, `StoreLinks`, `StoreLinksFails`, `EndGroup`, `EndApply` | applyGroupNodes, applyStoredNode |
| `SweepList`, `SweepSwap`, `RestartPlane` | the sweep, a new process |

`StoreLinks` has both branches: trusttunnel listens and the links are replaced, or it does not and
they are deleted. `PutPartial` is agentd's 200 with `ok=false` because trusttunnel failed beside
another family: its users stay as they were, the links go, and the apply counts as done.

`Settled` says what all this is for: at rest, a node lets in exactly its members and each has a
link. Where the code gives up on that, as the comment of `Settled` lists, the step that does it
updates the history: the node is `excused` until an apply that began afterwards has gone
through. No excuse is there for comfort: TLC finds a violation without any one of them, in
`Members.cfg`, but for that of a `setNodeGroups` with no groups, which takes three of them at
once.

### Reality

A pair of keys is the number of its generation and 0 an empty row. `rows` is `plane_settings`,
`runs` what each node was given. An applier is named by its node, whose mutex it holds; `step`
and `got` are ensureReality's reads, `todo` the rows it has still to write, in any order, as the
code ranges over a map. `patch` and `asked` are patchSettings. `at` and `share` are realityShare:
three queries, of which the errors of the last two are ignored, so that a link may carry an empty
short id or the default name. One link is read at a time; links meet in nothing they write.

| action | code |
|---|---|
| `Begin`, `Read`, `ReadFails`, `Keep`, `Generate`, `Write`, `WriteFails` | ensureReality and settingValue |
| `Push`, `PushFails` | the PUT to the node |
| `PatchRead`, `PatchWrite`, `PatchFails` | patchSettings |
| `SharePub`, `ShareSid`, `ShareSni` | realityShare |
| `RestartPlane` | a new process |

`blind` are the applies that began before a pair was whole or failed to read a row, `clean`
those with no generation beside them, `fresh` the nodes a clean apply has reached and nothing
has changed since, and `torn` says that parts of two pairs were mixed. A link is `sound` if
each of its queries answered, and no generation ran beside it and no patch or generation came
after it began.

### Alerts

`known`, `fine` and `age` are `Server.alertSent`; `live` and `todo` are PushAlerts' locals.
`raised`, `dbUp`, `hookUp` and `setting` are the world: which alerts a look would find, whether
database and webhook answer, and whether the webhook is set. Time is counted in ticks, and
`spent` bounds how long a phase of a poll takes (`MaxLag`). That a phase is shorter than a retry
(`MaxLag <= Retry`) is an assumption. The code posts one alert after the other, each with a
timeout of 8 s, and retries after 5 minutes: with about 38 alerts to post and a webhook that
hangs, a pass outlasts the retry, and `Prompt` and `Paced` say nothing of it. `told`, `since`,
`kept` and `overdue` are history.

| action | code |
|---|---|
| `PollStarts`, `CollectNodes`, `CollectUsers`, `Post`, `Prune` | PushAlerts: webhookURL, collectAlerts, wantAlert, postWebhook with noteAlertSent, pruneAlerts |
| `PatchWebhook` | patchSettings |
| `Change`, `Flip`, `Tick`, `RestartPlane` | the environment |

## 3. Runs

The runs of the ledger, `PlaneApply`, `Members`, `Reality` and `Alerts` check for deadlock: their
loops and requests never stop for good, so none may occur. The others turn that off: the requests
their bounds allow end, and the system rests.

| run | bounds | shows |
|---|---|---|
| `ledger_one` | 1 node, 1 user, 2 daemons, 2 bytes each, 1 restart per daemon, 1 failure, one collector | No byte is credited twice; only a daemon restart loses bytes; the user's counter never exceeds what was carried; the ledger implements `Metering`; everything counted is credited in the end |
| `apply_reliable` | 1 node, 1 user, 2 requests at a time and 2 in total, sweep, collector, no failure, patches that apply; instant 0 ends a day, a week and a month | in every interleaving `NoForgottenKick`, `EntitledAreServed` (the other direction) and `PeriodBegun` |
| `apply_retry` | 2 users in 2 groups, 2 nodes (one in both groups), 2 failures, 1 restart, the sweep as the only worker | `NoForgottenKick` and, under fairness, `KickedEventually` |
| `apply_overlap` | 1 node with a sibling family, 1 user at the start and 1 that is created, 1 request, sweep, collector, 1 tick, 1 byte, 2 failures, 1 restart, PUTs in any order (2.5 million states) | `KicksSurvive`, `PlacesSurvive` |
| `apply_fault` | 1 node, 1 user, 1 request, 1 failure | *violated*: `NoForgottenKick` |
| `agent_node` | 2 users, 3 PUTs, 2 failures anywhere | `NothingOlder` and `OkMeansServed` |
| `node_admin` | 2 requests at a time, 3 in total, 3 stacks, 2 agents, 2 failures | `RowConsistent`, `ListedIsServed` |
| `node_probe` | 1 request at a time, 4 in total, probes, 1 failure, 1 failing query | `SavedStays`, `ServedUnlessAstray` and, under fairness, `BackIsNoticed` |
| `stack_ports` | every listen of protocol, security and network, up to two of them, 0 to 3 ports, all presets | `AcceptedIsBuilt`, `SocketsDistinct`, `PresetsWork` |
| `reality` | 2 nodes, 1 patch, links one after the other, 1 failure, 1 restart (7.8 million states); what follows once two pairs were mixed is cut off by a constraint, the step that mixes them is not | `Reachable`, `KeepsKeys` |
| `members` | 1 group, 2 users, 1 node, 2 requests at a time and 2 in total, the sweep, 1 failure or restart, any start | `Settled` |
| `alerts` | 1 alert of a node, 1 of a user, a retry of 2 and a resend of 4 ticks, 1 restart | `Prompt`, `Paced` |

In `reality` the view `Seen` merges states that differ only in what an unsound link says: no step
reads that and no property speaks of it.

Eleven more configurations are kept for reading and are not runs of `PROJECT.json`. `Members_two`
is `members` with two groups and a node that may be in both (3.5 million states), and passes. In
each of the others TLC finds a violation, in seconds. They are the boundary of what the runs above
assume:

| configuration | violated | what it shows |
|---|---|---|
| `TrafficLedger_two` | `NeverOverCredited` | two collectors: finding 2 |
| `PlaneApply_again` | `EveryKickOwed` | finding 4 |
| `PlaneApply_overtaken` | `NoForgottenKick` | a PUT the plane gave up on is applied after its retry (`InOrder = FALSE`) |
| `PlaneApply_partial` | `NoForgottenKick` | finding 5 |
| `AgentDesired_stop` | `OkMeansStopped` | finding 6 |
| `NodeRow_lost` | `SavedStays` | two requests at once: finding 7 |
| `NodeRow_heal` | `ListedIsServed` | a probe beside a failing apply: finding 8 |
| `NodeRow_query` | `ListedIsServed` | a failing query: finding 9 |
| `StackSpec_udp` | `SocketsDistinct` | shadowsocks and hysteria on one port: finding 3 |
| `StackSpec_tls` | `SavedIsApplied` | finding 10 |

Why the bounds are enough. In the ledger, streams meet only in `used`, so two daemons of one
user show the sums; two bytes distinguish a counter below, at and above the cursor, before and
after a restart. In `PlaneApply` a hazard needs two threads in the apply of one node and the
sweep; two requests beside the two loops give four. Two operations allow a user to leave and to
come back, one tick of the clock lets a user expire and a day pass, one byte exhausts a quota of
one. Groups meet only at a shared node, which `apply_retry` has. In
`apply_overlap` the two failures and the restart fall on any step of a request, the sweep and the
collector, which all apply the one node. On a node,
three PUTs are an older state, a newer one and one that fails; in `NodeRow` three requests
create, enrol and change (a change applies), of which two run beside each other and any two PUTs
fail, and two stacks with different ports show which settings a daemon has. In `Members` two
requests and an apply of the sweep meet at one node: every pair of handlers in every order, with
one failure or restart anywhere; a second group comes in with `Members_two`. Instances with
two failures and with three requests, run while the module was written, corrected it in one
place: when a bulk request is abandoned, a user it inserted may be on a node already, without a
link, because another apply put it there and could not store the links (`Abandon`). For the rest
there is the proof of `Settled`, which has no bounds. In `Reality` two nodes race for
the first pair, and one more fault makes a second generation. In `Alerts` a
retry is longer than a lag and shorter than a resend, so each wait can be the one that counts;
the bound of `Patience` was found too small at `MaxLag = 2` before it was proved for all.
`Requests` and `Admins` are symmetry sets in the runs with several requests; they check safety
only.

Fairness. `TrafficLedger!FairSpec` is weak fairness of a collector's steps: the loop of `main`
ticks and a pass ends. `PlaneApply!FairSpec` is weak fairness of every thread's own steps, of
the sweep, of a request that has read its row, and of the agents, because goroutines are
scheduled, tickers tick and calls end by their timeout; it is strong for taking a node's mutex,
because `sync.Mutex` hands the lock to a starving waiter. No fairness makes a client send a
request, a failure happen or a clock advance. `NodeRow!FairSpec` has probes go on, because the
fleet view polls while somebody looks at it and alerts poll it while they are on, cached answers
expire, calls end, and agents that are down come back. Failures are bounded, so the liveness
properties say: once failures stop, what has to happen does.

## 4. What the runs found

1. `apply_fault`: `applyGroupNodes` calls `clearKick` when its *own* PUTs succeeded, however old
   they are. A thread that read the users before a change, then finishes after another thread's
   apply failed and marked the group, removes that mark; the sweep has recorded the user as out
   and does not retry (`TestSweepRetriesFailedKick` in `api/apply_test.go` says it does). A user
   that was let in again loses its place in the same way (`EntitledAreServed`). `KicksSurvive` and
   `PlacesSurvive` confine the damage: to the nodes of that group, until one of their groups is
   applied or marked again.
2. `TrafficLedger_two`: a collection by hand beside the loop credits bytes twice: an older
   reading after a newer one is smaller than the cursor and is taken for a counter that was
   reset.
3. `StackSpec_udp`: the shadowsocks inbound takes UDP, and `Validate` compares hysteria's UDP
   port with trusttunnel's only.
4. `PlaneApply_again`: the sweep compares with what the last sweep saw. A user that comes back
   through a write that applies nothing (a patch of `quota_reset` alone writes back an older
   row) and leaves again before the next sweep looks unchanged. So does one that is refilled
   while its period reset fails: the sweep then records the row it listed (`traffic.go` 140).
5. `PlaneApply_partial`: a family that failed makes the agent answer 200 with `ok=false`;
   `applyStoredNode` returns no error, and `clearKick` forgets the kick. In `Members` the same answer
   leaves the members of the node without links.
6. `AgentDesired_stop`: a family without users counts as ok even if it could not be stopped.
7. `NodeRow_lost`: requests write back whole rows. A stack read before an enrolment and written
   after it puts the old agent back.
8. `NodeRow_heal`: `noteNodeAlive` writes ready or offline from an old copy; the failed of an
   apply becomes offline, which is listed. `ServedUnlessAstray` says that this, finding 9 and
   finding 10 are, with a create that is late with its groups, the only ways.
9. `NodeRow_query`: new ports are saved with the status of the old ones; if a query of the apply
   fails, the node stays ready with settings no agent has.
10. `StackSpec_tls`: `setNodeStack` does not ask for the hostname of a TLS certificate, and
    every apply of such a stack is refused.

What the exceptions of the newer properties say of the code, in short:

- `Members`: a node keeps its users when it loses its last group, when `setNodeGroups` cannot
  read it (no group is marked then), and when the group it should be applied for is deleted with
  a kick pending. A user of
  a bulk request that failed halfway waits for the next apply of its group. `patchGroup` undoes
  a change of protocols made since it read the row, and applies nothing. Links that could not be
  stored, and those of a user whose DELETE failed after that of its links, are missing until the
  next apply, and so are those of a node whose trusttunnel failed beside another family, while
  the node goes on with its old users. Of two concurrent `setNodeGroups` each keeps what the other
  inserted; one without groups then has nothing to mark if its apply fails. A kick may be cleared
  by a thread that was at the node too early (finding 1), and a
  restart forgets the applies that were under way.
- `Reality`: two first applies at once, or an apply that is not the first and is cut off while
  it writes, may leave parts of two pairs in the rows. A failed read of one row is taken for an
  empty one, and then good keys are replaced. A link that is read meanwhile mixes old and new;
  one whose short id or name could not be read goes out without, or with the default.
- `Alerts`: a webhook that is changed does not make the plane tell the new address what the old
  one was told, for up to six hours. A poll that finds the database away, but a webhook in the
  environment, prunes all that was sent, so that alerts are sent again early.
- `EntitledAreServed` is about patches that apply. One that applies nothing (a note,
  `quota_reset`) writes back the row it read, and can make a user entitled again, even a revoked
  one, whom no apply lets in until the sweep notices; if the sweep never saw it out, it does
  not.

## 5. Proofs

For every value of the constants that satisfies the modules' assumptions:

- `TrafficLedgerProofs`: `TypeCorrect` for any number of collectors; for at most one collector
  (`OneCollector`), `OneCollectorNeverOverCredits`, `OneCollectorExact`, and
  `OneCollectorImplementsMetering`. The invariant `LedgerInv` compares the epochs of a daemon:
  `StreamInv` says that the credits and the bytes counted above the cursor together fit into
  what was carried; `HeldInv` says that a reading a collector holds is not older than the
  cursor. `HeldInv` is what a second collector breaks, as `TrafficLedger_two` shows.
  `OneCollectorUsedWithinCarried` is about a sum over all streams of a user, for finite sets of
  nodes, users and daemons (`FiniteTables`). `UsageInv` says that the counter, and a copy of it
  that a patch may still write back, is within what was credited to the user so far; a credit
  adds to both. What it needs of sums (that they are natural, grow with each term and change by
  what one term changes) is proved by induction over the subsets of a finite set, which are well
  founded, so that no theorem with an operator parameter is needed.
- `MembersProofs`: `TypeCorrect` and `NobodyForgotten`, which is `Settled`, for any groups, users,
  nodes and requests, and with every failure and restart. `Settled` speaks of states at rest
  only, so its invariant `SettledInv` has to say, for a node the code has not given up on, who
  will put it right:
  - `Shape`: which locals a thread has at each `pc`, that who is inside an apply holds the mutex
    of its node; and that users live in groups that live and are in no list before they are
    created (`Known`);
  - `Due`: an apply is owed. Some thread has the node before it (`WillApply`), or has failed and
    will leave a kick, or a kick is pending that nobody is about to clear without having been
    at the node since (`Kicked`, `Missed`): the finding of `apply_fault` in reverse;
  - `Fresh`: who is inside has read the members of the groups it is through with as they now
    are, and will read the rest. The handlers that change a table apply the group afterwards,
    which makes `Due` true at the moment `Fresh` may become false. The one exception is a bulk
    request (`Coming`), which applies only after its last insert;
  - `Sane`: an apply is `Due`; or nobody is inside and the node is `Right`; or who is inside is
    `Fresh`, and if it fails a kick is left (`Backed`) or the node is `Right` as it is;
  - `Good`: `Sane` unless the node is excused, and an apply that may lift the excuse is `Fresh`,
    or another one is `Due`.

  Steps that touch none of this are framed by `Calm`; each other action has a lemma.
- `PlaneApplyProofs`: `TypeCorrect`, `KicksSurviveFailures` and `PlacesSurviveFailures` with every
  failure, late or overtaking PUT and restart, for any users, groups, nodes and requests. The two
  are what is true of the code as it is: findings 1 and 5, an overtaken PUT and a restart do lose
  a kick or a place, and the theorems say that nothing else does. What holds without exceptions
  follows from the same invariants, because `Calm` (no thread is crossed, no node forgotten) is
  then inductive:
  - `NoKickForgotten`: `NoForgottenKick`, if no query and no agent fails and PUTs are in order,
    whatever interleaves and however often the plane is restarted;
  - `SweepForgetsNoKick`: the same if everything may fail, PUTs are in order, no family covers up
    for another (`SiblingNodes = {}`) and the sweep is the only worker (no requests, no traffic to
    collect), which is
    `TestSweepRetriesFailedKick`. `SweepAlone` is inductive, so that no other thread takes a group;
  - `EntitledServed`: `EntitledAreServed`, if no query and no agent fails, without restarts and
    for patches that each name a column that decides;
  - `SweepServesEntitled`: the same if everything may fail but the sweep is the only worker, PUTs
    are in order, no family covers up for another, and there is no restart.

  None of the assumptions is there for the proof only: findings 1, 4 and 5,
  `PlaneApply_overtaken` and section 6 say what happens without them.

  Neither property is inductive. `KickInv` adds
  - `Shape`: which locals a thread has at each `pc`, and that a thread with a node holds its
    mutex;
  - `Grouped`: who has a group, or an apply that failed, is in applyGroupNodes;
  - `OutStays`: a user that the sweep has recorded as out, or will when it swaps, is out unless
    it is blind: otherwise it could leave a second time unseen;
  - `KickDue`: the property for users that are *about to be let in* as well as for those that
    are in: a thread may read an entitled row and send it after the row has changed. And it
    accepts less as a promise than the property does: a mark only if every thread that has that
    group, and may clear the mark, is `crossed`, so that clearing it will not go unnoticed
    (`Marked`); a node that is left only if its thread will mark the group when it fails
    (`WillKick`), and not if it applies single nodes, for which nothing is marked.

  `ServeInv` is the mirror image of `KickInv`, with the same `Shape`, `Grouped` and marks:
  `ServeDue` says that a user who is entitled is let in and no
  thread is about to send the node a list without it (`WillOmit`), or it is promised a place;
  `ClockRead` that nobody inside judges by a clock of the future, so that whoever is entitled
  now is entitled for it too; `Knows` that a sweep has listed every user it knows from the last
  one, or it would forget that it recorded one as out. A user counts as let in only if the PUTs
  the agent still has let it in, too (`Stored`). What both directions say of a step of
  applyGroupNodes, that it hands on, applies or marks each group, is proved once (`HandsOn`).

  `WeekBeginsOnMonday` and `PeriodStartsBefore`, at the head of the same module, hold for every
  instant: `DaysBack` is between 0 and 6 for a week, and a natural number for a month because
  `MonthDay` is positive. `PeriodsBegun` rests on them, if the periods of new rows have begun:
  `PeriodInv` says the same of every *copy* of a row that a request or the sweep still holds,
  and of the clocks they have read.
- `AgentDesiredProofs`: `TypeCorrect`, `NothingOlderComesBack` and `OkIsServed`, for any users,
  bodies, number of PUTs and failures. `Inv` adds to the types
  - `FilesFit`: file and daemon of a family hold a subset of users that some PUT named since the
    last one answered without an error; the file has to be included, as a restart may load it at
    any time;
  - `ErredOk` and `ThroughServes`: the families the handler has been through without an error
    serve the body, *even if they are not active*, because a daemon that died is started again
    from its file;
  - `OkServes`: the same after the answer, which is what `OkMeansServed` needs.
- `StackSpecProofs`: `AcceptedBuilds` for all stacks; `SocketsApart` for all stacks in which
  shadowsocks and hysteria do not share a port (`Clash`; finding 3 is why). `PresetsAlwaysWork`
  is `PresetsWork`: a computation with the ten presets of `stack.go`, but in three packages'
  rules, each of which has a lemma.
- `NodeRowProofs`: `TypeCorrect` and `RowStaysConsistent` with probes and every failure, for any
  number of requests, agents and stacks. `RowInv` says that not only the row but every *copy* a
  request may still write passes the checks. `ListedRunsUnlessAstray` is `ServedUnlessAstray`, for
  any number of requests, agents and stacks, with probes and every failure of agents and queries.
  The property is about quiet states; `ListedInv` says what holds in between: if the row lists
  what does not run and nothing led it astray, then some thread is going to apply the node and to
  store how that ended (`Rescue`), or, for links, is about to replace them; and a PUT that was
  given up on is still going on only if such a thread exists.
- `AlertsProofs`: `TypeCorrect`, `AlertsArePaced`, `AlertsArePrompt`, for any keys, waits and
  lags with `MaxLag <= Retry <= Resend`. `PaceInv` relates the age the map has for a key to the
  true one: they differ by what the posts had taken when it was noted. `PromptInv` bounds
  `overdue` at each `pc`: by the age of the key and the rest of its wait when it is known, by
  the phases of a poll that are behind it when it is to be posted, and by a whole round when the
  poll has looked too early to see it. What `MaxLag <= Retry` asks of the webhook is said in
  section 2.
- `RealityProofs`: `TypeCorrect`, `KeysAreKept`, `NodesAreReachable`, for any nodes and names
  and with every failure and restart. `KeyInv` says that an apply which is not blind has read
  whole rows as far as it got. `ReachInv` holds until two pairs are mixed: at most one apply
  writes (`OneWriter`), what it writes is the youngest pair (`Youngest`), rows are of the
  youngest pair or, while it is written, empty or of it (`Paired`), what a clean apply holds
  agrees with the rows (`Faithful`), and so do the nodes in `fresh` (`Served`) and a sound link as
  far as it has been read (`Current`).

Only model-checked: the liveness properties (`EveryByteCredited`, `KickedEventually`,
`BackIsNoticed`), which are out of the prover's reach; and that `PeriodStart` gives the right
boundary, and not only one in the past and a Monday, which is checked for six years of days.
Two safety properties are checked by TLC only: `ListedIsServed` without its exceptions, which
holds in `node_admin` because that run has neither probes nor failing queries and the stacks of
finding 10 are left out, and `SavedStays`, which holds in `node_probe` because two requests never
overlap there: of a system without these limits the first is `ServedUnlessAstray`, and the second
is finding 7. Every other invariant and action property that a passing run checks is also a
theorem, under the assumptions named above. `FairSpec` implies `Spec` in each module, so the
theorems hold of it too.

## 6. Limits

- `NoForgottenKick` and `KickedEventually` are about users whose row exists; deleted users are
  `Members`' subject, whose clock and quotas stand still.
- `KickedEventually` is checked with the sweep alone at work.
- `EntitledAreServed` does not survive a restart, which is why `PlacesSurvive` excuses the users
  whose apply or kick it found under way: the sweep then applies the groups of users
  that are out, not of those that are in. A user that may use a node again, but whose apply was
  cut short, stays out until something else applies its group. `Settled` excuses the nodes of
  such a group for the same reason.
- Trojan, vmess and shadowsocks users are users of xray like those of VLESS. A node with none
  but these families is never polled for traffic (`traffic.go` 54), so nothing in
  `TrafficLedger` happens there.
- `Prompt` is about an alert that lasts while database, webhook and settings stay as they are;
  anything that changes starts its clock again.

Not modelled: the text of subscriptions and of configuration files, geo packs, the UI and the
installers (formatting and I/O without state that anything above depends on), host tools (shell
commands), the login limiter and the sessions (what there is to state of them is a matter of
security), tokens and `rotateUser`, `migrate` and `SeedDev` (run once, before anything else),
the audit log (written, and read by the overview only).

Also left out of modules that exist: defaults that a new user takes from its group, labels of
listens, reserved ports (xray's stats on 10085, the agent's own), and a daemon that a new stack
no longer names, which runs on with its old users (`agentd/server.go` 200; `NodeRow` says that
it is not listed).

## 7. What could follow

1. An abstract specification of what a node owes its users, with `PlaneApply` and `Members` as
   two refinements of it.
2. Deleted users in `PlaneApply`, whose clock and quotas `Members` does not have.
