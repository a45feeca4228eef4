# A TLA+ model of tenderduty

tenderduty watches validators of Tendermint/CometBFT chains and tells their
operators when something is wrong: missed blocks, a stalled chain, nodes that
are down or lagging, unvoted proposals, evidence of double signing. It is a Go
program (`src/main.go`, `src/td2/`) of a few goroutines per chain that share
plain struct fields, two maps behind a mutex, and a handful of unbuffered
channels. Its correctness is a matter of what those goroutines do to each other
and of what becomes of an alert between its detection and the operator's
telephone; that is what these modules are about.

## 1. Inventory

| component | state | operations | talks to |
|---|---|---|---|
| **alert pipeline** (`alert.go`, `run.go`) | `alarms.AllAlarms`, `SentPd/Di/Tg/Slk/WhAlarms`, `flappingAlarms` (all under `notifyMux`); `lastBlockAlarm` | the `evaluate...` functions of `watch`, `alert()`, the dispatcher of `Run`, `shouldNotify`, `notifyPagerduty/Discord/Tg/Slack/Webhook`, `clearAll` | reads the flags of every other component; sends on `alertChan` |
| **escalation sweep** (`escalation.go`) | `Escalated` of an alarm | `checkEscalations` every 30 seconds | `AllAlarms`, `silenceStatus`, `alertChan`, the alert history |
| **digester** (`digest.go`) | buckets per destination under `d.mu` | `enqueue`, `flush` | called by dispatch goroutines |
| **silence mode** (`silence.go`) | `silencedUntil`, an `atomic.Int64` | `silenceChain`, `unsilenceChain` | read by `alert()` and the sweep |
| **block stream** (`ws.go`) | `wsclient`, `noWsNodes`, `blocksResults`, `stat...` counters, `lastBlockNum`, the processor's `signState` | `WsRun`: connection phase, reader, `handleBlocks`, `handleVotes`, `handleEvidence`, result processor | reads `valInfo.Bonded`; its counters feed the evaluators |
| **RPC selection and node health** (`rpc.go`) | `down`, `wasDown`, `downSince`, `lagging`, `wasLagging`, `laggingSince` of each node, `noNodes` | `newRpc`, the probes of `monitorHealth` | flags read by `watch`; `newRpc` calls `clearAll` |
| **validator info** (`validator.go`, `provider-default.go`, `provider-namada.go`) | `valInfo`, `lastValInfo`, `totalBondedTokens`, `baseAPR`, `denomMetadata` | `GetValInfo` from two goroutines, the copy in `monitorHealth` | compared by the status, stake and commission evaluators |
| **governance queries** (the same, `gov.go`) | `unvotedOpenGovProposals` | `QueryUnvotedOpenProposals` of either provider, `evaluateUnvotedGovernanceProposalAlert` | called by `GetValInfo`; read by `watch` |
| **prices, metadata and rewards** (`utils/`, `chain-details.go`) | the price cache, `cosmosDirectoryData`, `SelfDelegationRewards`, `Commission` | `GetPrice` of two clients, `ConvertDecCoinToDisplayUnit`, `evaluateUnclaimedRewardsAlert` | called by `GetValInfo` and `watch` |
| **state file** (`run.go`, `types.go`) | `.tenderduty-state.json` | `saveOnExit`, the restoring half of `loadConfig`, `clearStale` | everything above |
| **dashboard server** (`dashboard/`) | ring buffers of logs and alerts, cached status, subscribers | `Serve`, broadcast, `/silence`, `/unsilence` | `updateChan`, `logChan` |
| **prometheus exporter** (`prometheus.go`) | gauges | one goroutine over `statsChan` | may block its senders |
| **logging** (`init.go`) | one goroutine over `logs` | `l()` | everyone waits for it, it waits for `logChan` |
| **configuration, chain registry, encryption** | the configuration | run before the goroutines start | |

What is hard here:

* **interleaving.** Node flags and `valInfo` are written by several goroutines
  without a lock; a probe's writes can be cut in two by those of `newRpc`.
* **ordering.** The dispatcher starts one goroutine *per message*, so an alert
  and its resolve race to `shouldNotify`; votes and blocks take different ways
  to the result processor.
* **check, then act.** `alert()` reads the silence window and then sends; the
  sweep scans, then re-checks, then sends; an evaluator asks `exist()` and books
  the alarm after the send.
* **edges and levels.** Most evaluators look at a level every two seconds and try
  again what a silence suppressed; a change of standing is an edge that is gone with
  the next copy, an evidence event is evaluated once.
* **several records of one fact.** `AllAlarms`, five `Sent...` maps,
  `flappingAlarms`, `lastBlockAlarm`, `wasDown`: each says whether an alarm is
  up, and each is updated in a different place.
* **failure.** A post that fails is not retried although it is recorded as sent;
  `clearAll` wipes alarms while messages about them are under way; a restart
  keeps some flags and forgets others.
* **partial answers.** `GetValInfo` asks up to ten questions in one call and goes on
  after most failures; what a failed one leaves behind is used with what the others
  brought.
* **progress.** Four goroutines of a session chained by unbuffered channels; a
  sweep that may be silenced at the wrong moment; one aggregator that every
  `alert()` and every log line waits for.

What makes each part correct: a channel never gets a resolve without an alert or
the same alert twice, PagerDuty is not paged in quick succession, silence is
silence, what lasts is raised and what is over is cleared, and the channels agree with
the alarms wherever the code's own order of messages allows it (pipeline); critical
alarms that last are announced again, never on PagerDuty, and none is forgotten
(sweep); batching leaves no finished alert standing (digester); a session counts every
block once and in order, and the counters agree with the squares on the dashboard
(block stream); a node is reported when it has been out of service for the configured
time, not earlier, and its return is reported too (node health); a change of standing
is neither made up nor missed (validator info); a proposal's alarm lasts as long as its
vote is missing, and "vote recorded" is true (governance); base units are never priced
as display units (rewards); a restart repeats nothing, forgets nothing that lasts and
leaves no silence longer than was asked for (state file); the page follows the alarms,
does not report an active one as over, and holds nobody up (dashboard).

Several of these promises the code keeps only with exceptions. Where that is so, the
property names the exception instead of leaving the case out of the model, and TLC was
used to see that the property fails without it.

`PROJECT.json` lists the hazards line by line with the properties aimed at them.

## 2. The modules

```
AlertPipeline ---- MCAlertPipeline        3 passing runs, 2 violations
   |  \----------- AlertPipelineProofs    7 theorems
   \ implements -- AlertChannels
BlockStream ------ MCBlockStream          1 run
      \----------- BlockStreamProofs      5 theorems
NodeHealth ------- MCNodeHealth           1 run
      \----------- NodeHealthProofs       3 theorems
ValidatorStatus -- MCValidatorStatus      1 run
      \----------- ValidatorStatusProofs  2 theorems
Governance ------- GovernanceProofs       1 run, 3 theorems
UnclaimedRewards - MCUnclaimedRewards     1 run
      \----------- UnclaimedRewardsProofs 2 theorems
StateFile -------- StateFileProofs        1 run, 3 theorems
Dashboard -------- MCDashboard            1 run
      \----------- DashboardProofs        1 theorem
```

The modules meet where the code's components do, and each keeps of the others what
it can tell apart: `AlertPipeline` is the way from an evaluator to the channels, the
others decide when an evaluator calls `alert()`, and stand for that call with the
entry in `AllAlarms`. `StateFile` follows one alarm through both and across
restarts; `Dashboard` follows it to the page.

Operators named `...Mutant` (and `IncrementsNoMiss`,
`ResetsLate`) are plausible mistakes in the code the definition after them models.
They are not part of the specification; putting one in the place of its original
makes a property fail, which shows that the property says something about that code.

### AlertPipeline: from an evaluator to the channel

State and code: `allAlarms` and `escalated` are the entry in `AllAlarms` (its
`SentTime`, 0 if there is none); `sent[d]` the five `Sent...` maps; `flapping`
is `flappingAlarms`; `latch` is `lastBlockAlarm`; `silencedUntil` is itself;
`pc`, `turn`, `clearing` and `muted` are a goroutine inside `watch` or
`handleEvidence` and the arguments and locals of its call of `alert()`; `tasks`
are the running dispatch goroutines; `due`, `picked`, `marked` is the sweep
between its phases; `buffer`, `outgoing` the digester before and during a flush.
`told`, `paged` and `shown` are history variables for the properties, and so is
`tangled`: the alarms about which the channels need not agree with `AllAlarms`, because
a message was sent while another was under way, the alarm ended in a silence, or
`clearAll` took it. The next message sent alone takes an alarm out of it.

Actions: `Evaluate`, `Send` and `Book` are one call of `alert()` cut where it
releases a lock or blocks on `alertChan`; `Notify` is `shouldNotify` (one
critical section), `Post` the HTTP request; `Enqueue`, `Flush`, `PostDigest` the
digester; `Scan`, `Consider`, `Mark`, `SendEscalation` the phases of
`checkEscalations`; `SilenceChain`, `UnsilenceChain`, `ClearAll` what the rest of
the program does to the same state. `ChangeSignal` and `Tick` are the
environment. A text digest shows of an ID what `digestSummary` prints last, which is
the resolve if there is one in the bucket (`Summary`); a webhook gets the messages
themselves.

The evaluators are kept by the way in which they call `alert()`, which is all
the pipeline can tell apart: most ask `exist()` before they raise and before
they resolve; `ChainStalled` is gated by `lastBlockAlarm` (`Latched`);
`ValidatorInactive` looks at a change of `Bonded` between two records and at
nothing else (`Edge`); `DoubleSignEvidence` is evaluated once per event, is not tried
again if a silence suppressed it, and is never resolved (`Evidence`); a
proposal's alert has a branch of its own in `shouldNotify` (`Proposals`). What
makes an evaluator decide is the free variable `signal`.

`AlertChannels` is what an operator may rely on, without any of this: which alerts
stand on which channel, announced and taken back one ID at a time, with a rule for
when a page is allowed. `ImplementsChannels` is the refinement, with the history
`told` mapped to what stands; it is checked by TLC and proved.

### BlockStream: one websocket session after another

`log` is what has happened on the chain and `pos` how much of it the session's node has
published: a new session starts at any place, so a node that is behind delivers heights
a second time. `held` is the update each handler is trying to send, `processing` the
final update the processor is working on between its two looks at `Bonded`, `bondedThen`
what it saw at the first. A send on an unbuffered channel is one step, that of the
receiver. `Receive` and `Finalize` are the processor's two halves; `Increments` and
`Resets` are the switch over `signState`; `Connect`, `ConnectFails`, `Disconnect` are the
phases of `WsRun`. The chain's side (`CastVote`, `CommitBlock`) is as free as Tendermint
allows: any votes or none, and a `last_commit` with precommits of the height before only.
A vote of the proposal type counts as a proposal and one of an unknown type as a miss, as
in `handleVotes`. `Init` has a window restored from the state file in front of zero
counters; `processed` counts the blocks of this process. If `missTypes` is indexed with
-1 the process is gone (`crashed`).

### NodeHealth: probes, newRpc, watch and restarts

Three goroutines and a restart over the six flags of every node. A probe is cut
where it sends its metric (`ProbeAnswered`) and between its write of `down` and that of
`downSince` (`ProbeClears`, `ProbeDone`), so that `newRpc`, one step per endpoint it
tries, can come between; `torn` notes the nodes to which that happens. `GetValInfo` may
fail after `newRpc` has found a node, and `WsRun` may find no websocket (`ws`), which
keeps `NoRPCEndpoints` up as `noNodes` does. `Watch` is one turn of `watch` with
the three evaluators that read these flags, `WatchWaits` its loop before the
validator is known. `Restart` saves and restores what `saveOnExit` and
`loadConfig` do. Times are ages that stop growing just above the threshold, so
that TLC sees unbounded behaviours. `Scenarios` says what a behaviour starts with: one
long session (`lasting`) or sessions that end, the conditions nodes may be in, restarts.

### ValidatorStatus: valInfo, its copy, and the alarms that compare them

`GetValInfo` writes `cc.valInfo` field by field (`Store`) from two goroutines;
`monitorHealth` copies it to `lastValInfo` field by field (`CopyField`) before its
own call; `Watch` compares. Fields between which no reader can tell a difference
are written together. An alert is booked unless the chain is silenced; stakes may be
zero and thresholds unset, which is zero too. `Tick` has the two facts of real time the
comparison rests on as guards: `watch` (2 s) passes between two ticks of `monitorHealth`
(60 s), and a call (10 s) does not last from one tick to the one after next.

### Governance: unvoted proposals

`Begin` to `Store` is one call of `QueryUnvotedOpenProposals` by either of the two
callers; `VoteAnswered` and `VoteFails` are the default provider's query per
proposal, `VotesListed` the union of the Namada indexers' answers, `Undecodable` the
answer whose error is lost to a shadowed `err`. Answers may be wrong without an error:
an ABCI error with an empty value reads as "not voted", and the Namada indexers' status
is ignored and proposals that do not convert are skipped. `ReadList` and `Evaluate` are
the two passes of the evaluator over a list that may be replaced in between. `Restart`
keeps the alarms and forgets the list. Two histories go with every list: `unasked`, the
proposals that were not in the answer it was made from, and `misheard`, those it has
although their vote was known.

### UnclaimedRewards: rewards, metadata and prices

Each caller of `GetValInfo` goes through `PriceOf`, `Fetched`, `QueryRewards`,
`FindMetadata` (first call of a session only) and `StoreRewards`; `watch` through
`LacksMetadata`, `GuessMetadata`, `SumUp` and the price. `Fresh`, `Entry`,
`FetchSucceeds` and `FetchFails` are the TTL cache in front of the two price services,
which differ in what a failed request leaves in it. `Converted` is
`ConvertDecCoinToDisplayUnit` over the cases its result depends on: metadata of the
native token, metadata whose display unit is not among its units, metadata without a
display unit, metadata of another token. `Sources` says what the chain and
cosmos.directory have, the first asset included, which is taken when none matches the
bond denomination. An amount carries the amount on chain it was made from, so that a
wrong unit shows, and `by` is the metadata it was converted with.

### StateFile: what outlives the process

`Stop`, `MarshalSent`, `Write` and `Exit` are `saveOnExit` and the end of `Run`, cut
where other goroutines still run; `Crash` ends the process anywhere else; `Start` is
`loadConfig` with `clearStale`. One alarm runs through `Raise`, `Resolve`, `Book`,
`Approve`, `Reject`, `Post` on a channel that is PagerDuty (which suppresses what flaps),
another one, or one whose threshold is above the alarm's severity. A post may fail, and
a resolve may not be posted at all. A behaviour is `orderly` if signals come when no
message is under way and nothing is asked between the save and the exit; `behind` and
`excused` follow what the file is missing in the others.

### Dashboard: the aggregator and who waits for it

`Evaluate` and `EvaluateUngated` (`ValidatorInactive`, evidence), `LogSilenced`,
`TakeHistory`, `Book` are a call of `alert()` with the two unbuffered sends in it;
`Scan`, `Escalate`, `TakeEscalation` the sweep, which writes to the history too;
`Notify` and `NotifyLogs` a `shouldNotify` that logs with `notifyMux` held; `TakeStatus`,
`TakeHistory`, `TakeLog` are the cases of the `select` in `Serve`; `Publish` and
`RpcFails` are the senders of snapshots; `Refresh` is the part of `GetValInfo` that
divides by the bonded tokens. Alarms may have been restored while the history is empty.
A snapshot is reduced to its number of alerts and whether its numbers can be encoded.

## 3. What is checked

The passing runs check for deadlock as well; none occurs. Only `counters` does not, as
the model stops where the process panics.

| run | question | bounds, and why they suffice |
|---|---|---|
| `paging` | Do approvals alternate, are pages limited and free of escalations, does silence hold, is `AlertChannels` implemented? | one alarm (IDs do not interact in `shouldNotify`), PagerDuty and a webhook without resolves, two dispatch goroutines (the least that can overtake), three points of time with a flap window of two: one trigger inside and one outside the window; 1.4 million states |
| `agreement` | When do `AllAlarms` and the channels agree, in both directions? | an edge-triggered and a never-resolved alarm, two callers, two dispatch goroutines that overtake, silences, `clearAll`; PagerDuty, which has the most rules of its own; 1.2 million states |
| `alert_liveness` | Does a digest ever leave a finished alert standing; is every lasting condition raised, every finished one cleared, every overdue alarm announced as escalated? | digest mode with failing posts, a bucket of two messages, so that a flush can run while another fills up; silence and `clearAll` at any time |
| `reminder_missing`, `escalation_missing` | Are proposals reminded of, is each escalation re-sent? (violations, see below) | three and four points of time: one raise, one end and one raise again with the thresholds in between |
| `counters` | Is every block of a session counted once and in order, do counters and window agree, when is the index -1, does a session ever hang? | two heights in up to three events, two sessions, the second from any place on the chain, a window of two with two restored squares: a window that is still restored, half its own and full; 770 thousand states; the theorems cover any window and number of sessions |
| `nodes` | Are alarms of nodes justified, unique, raised and taken back, and those of the endpoints? | one node, a probe every two ticks and a threshold of two, so that probe, `newRpc` and `watch` fall on either side of it; one long session with every condition, ending sessions with lost endpoints, and a restart; 650 thousand states; the theorems cover any nodes |
| `validator_standing` | Are changes of standing and stake neither made up nor missed, do the alarms about changes end? | two changes, one fault or silence, two sessions: a session's refresh can fall before, into and after a copy; stakes of zero and 100, rates of zero and five; 620 thousand states |
| `governance` | Does the alarm follow the proposal, is "vote recorded" true, does a failed query bring an alert back? | one proposal, both providers, three faults, two sessions (two calls that overlap twice), a restart; 180 thousand states; the theorems cover any set of proposals |
| `rewards` | Is the price ever multiplied with the wrong unit, does the alarm follow the value? | rewards whose value crosses the threshold with the price and whose base-unit reading would cross it wrongly, one change, one fault, two sessions, all four kinds of metadata; 1.2 million states |
| `state_file` | What is repeated, lost or stuck across restarts? | two ends of the process, a silence of up to two ticks, alarms that go stale at two: fresh, aged and stale at a start; 990 thousand states |
| `dashboard` | Who waits for whom, and what do page and history say? | two chains, one with an alarm and one with an APR, `updateChan` full with one snapshot, a history of two entries; gated and ungated evaluators, with and without the sweep and the logs; 180 thousand states; the theorem covers any number of chains and any length |

The properties in words stand above their definitions. The ones with the longest
counterexamples under mutation are `ApprovalsAlternate` (`shouldNotify`'s maps
against the history of what was approved), `CountersMatchWindow` (eight counters
updated by a switch against the window drawn on the dashboard),
`DownAlarmJustified` (the age of an outage, through three writers and a file) and
`ChannelsAgree` (two records of an alarm, through overtaking goroutines).

### Fairness

`FairSpec` of each module assumes that goroutines whose loop is never left go on
(weak fairness of a caller, a dispatch goroutine, the digester, the sweep, a
probe, `watch`, the aggregator), that requests return, and that time passes. Queries of
nodes, indexers and prices return because they have timeouts, and so do the posts to
PagerDuty and the webhooks. The clients of Slack, Discord and Telegram have none
(`alert.go:254`, 307, 371): that their posts return is an assumption about the peer and
TCP. One
that does not return holds up its own goroutine, or in digest mode the flush, but never
`watch`. The strong assumptions are these. In
`BlockStream`, `Receive` from each handler: Go queues senders on a channel first
come, first served, so neither starves. In `NodeHealth`, `Tick`: time is held up in
the model while `newRpc` runs, but `newRpc` is bounded by ten seconds and the loop
around it sleeps between calls. Nothing is assumed of `GetValInfo`: that the validator is
known (`ready`) is a condition of the two properties that need it. In `Dashboard`, what waits for the log goroutine or for
`notifyMux` (`Evaluate`, `LogSilenced`, `Book`, `Escalate`, `NotifyLogs`): the queue of a
channel again, and that of a Go mutex, which hands over to a waiter after a millisecond.
`StateFile` assumes a supervisor that starts the process again,
`Dashboard` that the queries of the pool and the supply succeed at some time, and
`PageFollowsCondition` states in itself that all chains have blocks. In
`Governance`, `UnclaimedRewards` and `ValidatorStatus` failures are bounded in
number, so that what must eventually happen is judged after the last of them.
Nothing else is assumed of the chain, the operator or the endpoints.

### Where the code does something else than is said of it

Two runs expect a violation:

* `reminder_missing`: `shouldNotify` is ready to repeat the alert about an open
  proposal, but the evaluator calls `alert()` only while there is no such alarm, so the
  periodic reminder of README.md:6 never comes.
* `escalation_missing`: an escalation is sent under the alarm's ID with `_escalated`
  appended. Nothing resolves that ID, so the escalation of a second episode is marked as
  done and dropped as a duplicate (`escalation.go:66`), although docs/config.md:60 says
  it is re-sent. `EscalationIsAnnounced` therefore asks for one announcement only.

Other observations made while modelling. Those that are exceptions of a property are
named with it; without the exception TLC finds a counterexample.

Alerts and channels:

* Overtaking goroutines (`run.go:49`): a resolve may be processed before its alert, and
  the following alert of that ID is then taken for a duplicate. An alarm that ends while
  silenced is deleted without a resolve and stays open on the channels; so does one that
  `clearAll` wipes. `ChannelsAgree` holds of all other alarms (`tangled`).
* A stall first seen in a silence window sets `lastBlockAlarm` and is not raised when
  the silence ends; `ActiveFollowsCondition` leaves out `ChainStalled`. An evidence event
  in a silence is not tried again (`ws.go:488`), although the comment at `alert.go:857`
  says that a silenced alert is re-evaluated.
* An alert that ends and comes back within one text digest reads as resolved, because
  `digestSummary` prints what fires before what is over (`alert.go:527`); `DigestShowsEnd`
  names this case.
* A post that fails is recorded as sent and not retried (`alert.go:233`, `run.go:59`).
  PagerDuty, having suppressed an alert as flapping, is not told later: the evaluators do
  not call `alert()` again (`alert.go:217`).
* A silenced alert is not booked (`alert.go:856`), so it is missing from the number of
  active alerts on the dashboard, while README.md:163 says that the dashboard still
  shows it.

Block stream:

* `WsRun` tells a failed connection phase by `wsclient == nil`, and `wsclient` keeps
  the closed client of the previous session; after the first session an outage of
  all endpoints does not set `noWsNodes` (`ws.go:133`).
* Heights are not compared (`ws.go:160`): a session with a node that is behind counts
  blocks again which an earlier one has counted. `CountedInOrder` is about one session.
* If `Bonded` becomes true between the processor's two looks at it, the index into
  `missTypes` is -1 and the process panics (`ws.go:156`). `CrashTakesBonding` says that
  nothing else leads there.

Nodes:

* If `newRpc` marks a node down between a probe's write of `down` and that of `downSince`
  (`rpc.go:205`, 207), the outage seems to have begun in 1970 and is alerted at once;
  `DownAlarmJustified` names it. With `newRpc` a node can also have both alarms, and an
  outage that it marks after a probe has set `wasDown` and before `watch` takes it back
  is not alerted.
* After a restart a lagging node is restored with `wasLagging` set and not alerted while
  it keeps lagging (`types.go:823`). A restart after a probe has found a node back and
  before `watch` has had its turn keeps the alarm and loses the flag that would end it
  (`run.go:183`); `NodeAlarmIsResolved` names it.
* `NoRPCEndpoints` stays while no websocket can be opened, although nodes answer
  (`alert.go:941`).

Validator info, governance, rewards:

* A refresh at the start of a new session, just before `monitorHealth` copies, makes
  both records equal, and a change of `Bonded` is then never alerted; nor is one that is
  silenced until the next copy. `ChangeOfStandingIsSeen` names both.
* `StandingAlarmIsReal` leaves out the commission: the first answer of a validator is
  compared with the placeholder's rate of zero. A threshold left unset is zero, and a
  stake that has not changed reaches it (`alert.go:1220`). A stake that drops to zero
  raises `StakeChange` and nothing resolves it (`alert.go:1192`); `ChangeAlarmsEnd`.
* "Vote recorded" can be announced for a proposal that is still unvoted, if it was
  missing from the answer behind the list: after a restart, after an undecodable
  answer, when the Namada indexers answer with an error status or an entry that does not
  convert (`provider-namada.go:57`), or when calls overlap. And an answer without error
  that hides a vote (`provider-default.go:67`) brings an alert back.
* Metadata whose `Display` is empty is converted without an error into base units
  (`price-conversion.go:251`), which are then priced as display units, against the
  comment at `alert.go:1381`. Without a match of the bond denomination the first asset
  of the directory is taken for it (`chain-details.go:361`).
* Once all rewards are claimed the evaluator returns before its resolve branch, and the
  alarm stays until the next reward; `AlarmFollowsRewards` needs some.

State file and dashboard:

* After a crash the state file of an earlier exit is restored, lifted silences
  included; the final flush of the digester may be cut off after its messages were
  saved as sent; a request for a silence that waits for `chainsMux` during the save is
  granted and lost (`silence.go:21`).
* The history may call an alarm active that is over: `clearAll` and an end in silence
  leave no entry, and a late escalation adds one. A silenced alert adds one every two
  seconds (`alert.go:844`). It is the other direction that `ActiveIsNotReportedOver`
  is about. Restored alarms have no entry at all.
* A pool query that fails at first makes the APR infinite, and until it succeeds no
  chain's snapshot reaches the page (`server.go:101`).

## 4. What is proved

For every value of the constants, from the modules' named assumptions only:

| module | theorem | statement |
|---|---|---|
| `AlertPipelineProofs` | `TypeCorrect` | `Spec => []TypeOK`, with every `SentTime` at most `now` |
| | `AlternationTheorem` | `Spec => []ApprovalsAlternate` |
| | `PageRateTheorem` | `Spec => PageRateLimited` (the runs check it as part of `ImplementsChannels`) |
| | `SilenceTheorem` | `Spec => SilenceHolds` |
| | `RefinementTheorem` | `Spec => ImplementsChannels` |
| | `DigestTheorem` | `Spec => []DigestShowsEnd` |
| | `AgreementTheorem` | `Spec => []ChannelsAgree` |
| `BlockStreamProofs` | `StreamTypeCorrect` | `Spec => []TypeOK` |
| | `CrashTheorem` | `Spec => []CrashTakesBonding` |
| | `StatsOrderedTheorem` | `Spec => []StatsOrdered` |
| | `InOrderTheorem` | `Spec => CountedInOrder` |
| | `WindowTheorem` | `Spec => []CountersMatchWindow` |
| `NodeHealthProofs` | `NodeTypeCorrect` | `Spec => []TypeOK` |
| | `DownAlarmTheorem` | `Spec => DownAlarmJustified` |
| | `OneAlarmTheorem` | `Spec => []OneAlarmPerOutage` |
| `ValidatorStatusProofs` | `StandingTypeCorrect` | `Spec => []TypeOK` |
| | `StandingTheorem` | `Spec => StandingAlarmIsReal` |
| `GovernanceProofs` | `GovernanceTypeCorrect` | `Spec => []TypeOK` |
| | `RecordedTheorem` | `Spec => RecordedIsTrue` |
| | `VoteFinalTheorem` | `Spec => VoteIsFinal` |
| `UnclaimedRewardsProofs` | `RewardsTypeCorrect` | `Spec => []TypeOK` |
| | `PricingTheorem` | `Spec => AlarmIsNotMispriced` |
| `StateFileProofs` | `StateTypeCorrect` | `Spec => []TypeOK` |
| | `SilenceTheorem` | `Spec => []SilenceSurvives` |
| | `NothingTwiceTheorem` | `Spec => NothingTwice` |
| `DashboardProofs` | `HistoryTheorem` | `Spec => []ActiveIsNotReportedOver` |

None of the safety properties is inductive.

* *Alternation* speaks of the verdict on a message, which depends on `sent`; the
  history depends on `told`. `NotifyInv` ties them: a channel's map has an entry
  exactly while the last approved notification is an alert. Every writer is a call
  of `shouldNotify` (`ShouldNotifyAgrees`), alone or from `enqueue`.
* *Page rate* is about two triggers; `PageInv` says that `flapping` holds the time
  of the last page of every ID that is not a proposal's. (For a proposal
  `shouldNotify` repeats an alert without touching `flappingAlarms`; the property
  leaves proposals out.)
* *Silence* needs that an alarm has one chain (`OneChainEach`, from the assumption
  on `Order`) and that a message only enters `tasks` through `Send` or
  `SendEscalation`.
* *Refinement* uses these invariants and `EscalationInv` (no message of an escalation has
  PagerDuty among its destinations): a call of `shouldNotify` is an `Alert` or a
  `Resolve` on the channels that approve it, `Tick` is `Tick`, and every other action
  stutters.
* *Digest* needs `QueueInv`: in digest mode a goroutine posts to PagerDuty only,
  and of the three places a message about an ID can be in (the bucket, the running
  flush, the channel) the latest non-empty one ends with the last notification
  approved; a bucket is newer than a flush, a flush newer than what the channel shows.
  What a text digest makes of a bucket's messages comes in when it is posted.
* *Agreement* needs `AgreeInv`, which follows an alarm that is not `tangled` through the
  window in which its message is sent and its entry not yet booked: `Believed` is what
  the last message sent says of it, a message under way says the same, and every channel
  that has none to wait for has heard it, or (PagerDuty) has paged and is holding back.
  Overlapping goroutines, silences, `clearAll`, escalations, digests, flapping, failing
  posts and any configuration are included. That a message sent alone untangles an alarm
  rests on `shouldNotify`: whether it approves or finds the message sent already, the
  channel has then heard it.
* *Crash* needs `RaceInv`: while the processor is between its two looks at
  `Bonded`, a validator that was bonded at the first has a decided `signState`.
* *In order* needs `OrderInv`: the heights of the log grow, and what the session has
  counted, works on, holds and has not read yet follow each other; all of it relative to
  the session (`fresh`), since the next one may begin further back.
* *Counters and window*: a new block moves the window by one, so each cardinality over
  the squares of this process grows by the square that is put in front
  (`ShiftedSquares`), and the current run grows by one or becomes empty. The
  statement is about any window and any restored squares, until the window is full.
* *Down alarm* needs `OutageInv`: an outage that `watch` may alert is not older than
  the time without a healthy answer, or torn; where `downSince` is older than that,
  because a probe has just answered or a file was restored, `wasDown` is set and keeps
  `watch` from alerting.
* *One alarm per outage* needs `ProbeInv` (a node whose flag a probe has cleared is not
  marked down before the probe is done) and `AlarmInv`: an open alarm still has the flag,
  or the `was...` flag, by which `watch` takes it back, and a node is not down and lagging
  at once.
* *Standing* needs `StandingInv`: while a value has not changed on the chain, every
  answer holds it, and a copy of it, complete or half made, never holds it before
  `valInfo` does, which is why the placeholder never looks like a change.
* *Recorded* and *vote final* need `GovInv`: every unvoted proposal is in the list, in what
  a call has found or has still to ask about, and in what the evaluator holds, or is
  `unasked` there; a proposal in `seen` is in a list or found by a call only if misheard.
* *Pricing* needs `HoldingInv`: the values a goroutine carries from one step to the
  next are there when it uses them, and a total converted with metadata that has a
  display unit is in display units, whatever replaces the metadata meanwhile.
* *Silence survives* needs `SilenceInv`: where the silence last asked for is kept
  (memory, capture, file) at each point of an orderly stop and start, and that nothing
  kept anywhere outlasts the longest one asked for, crashes included.
* *Nothing twice* needs `MessageInv`: unless something excuses it, the `Sent` map has an
  entry exactly if an alert was approved last, and so have the capture and the file
  unless they are `behind`, which in an orderly behaviour they never are once it matters.
* *History* needs `StoryInv`: the entry that a call about to book an alarm has handed over
  is still the newest of its chain, or one of the sweep is, which is an alert too.

The proofs have one step per action; lemmas carry what several actions share. The
inductive invariants were model-checked before they were proved.

Only model-checked: all liveness (`ActiveFollowsCondition`, `EscalationIsAnnounced`,
`BlockIsProcessed`, `OutageIsAlerted`, `NodeAlarmIsResolved`, `EndpointsAlarmIsResolved`,
`ChangeOfStandingIsSeen`, `ChangeAlarmsEnd`, `AlarmFollowsProposal`,
`AlarmFollowsRewards`, `ConditionIsTold`, `AlarmFollowsCondition`, `AlertGetsThrough`,
`PageFollowsCondition`) and the absence of deadlock, which need fairness and `ENABLED`
and are outside what TLAPS proves here. Every safety property of a passing run has its
theorem.

## 5. What is not modelled

Message texts, HTML and request formats; the arithmetic of the percentages of
missed and empty blocks, with the signing info they read (a division by a window that is
still zero, `alert.go:908`, included); decoding; the registry of
chain IDs; the Namada provider's validator and rewards queries, which answer the
same questions as the default provider's; prometheus (a table without control);
configuration and its defaults, which are sequential and unit-tested; encryption;
HTTP handlers, authentication and the front end. `rpchttp.New` failing for a
malformed node URL, where a probe goes on with a nil client, is a configuration error
that shows in the first probe and is not modelled. A second `newRpc`, called by
`monitorHealth` while there is no client at all, is taken to be the first. Coins
other than the native one are not modelled: the evaluator filters them out. Each
component is in `PROJECT.json` with its reason.

## 6. Plan

1. Proofs: the types of `Dashboard`'s remaining variables; the safety halves of what is
   only checked as liveness (what a probe, a sweep or a refresh may never undo).
2. The signing info (`Missed`, `Window`) and the percentage evaluators.
3. The inheritance of alert settings (`applyAlertDefaults`) as a function with a
   reference definition.

## 7. Running

```
tlc -workers 2 -config MCAlertPipeline_paging.cfg MCAlertPipeline
tlapm AlertPipelineProofs.tla
```

Passing runs take between two seconds and about three minutes.
