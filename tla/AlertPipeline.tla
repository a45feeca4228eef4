--------------------------- MODULE AlertPipeline ---------------------------
(***************************************************************************)
(* The life of an alert in tenderduty, from the evaluator that detects a    *)
(* condition to the message on an operator's channel:                       *)
(*                                                                          *)
(*   watch / handleEvidence  -> alert()  -> alertChan -> one goroutine per  *)
(*   message -> shouldNotify per destination -> HTTP post (or the digester) *)
(*                                                                          *)
(* together with everything that touches the same state concurrently: the   *)
(* escalation sweep, the silence endpoints, newRpc's clearAll and the clock.*)
(*                                                                          *)
(* Every step between two lock operations is an action of its own. A SentTime*)
(* is a point of the model's clock, 0 standing for Go's zero time, i.e. for  *)
(* an entry that is not in the map.                                         *)
(***************************************************************************)
EXTENDS Naturals, Sequences

CONSTANTS
    Chains,               \* configured chains
    Callers,              \* goroutines that call alert(): a chain's watch()
                          \* and its handleEvidence()
    ChainOf,              \* the chain a caller works for
    Alarms,               \* unique alert IDs
    Order,                \* the alarms a caller evaluates, in its loop's order
    Severity,             \* severity an alarm is raised with
    Latched,              \* alarms gated by lastBlockAlarm (ChainStalled)
    Edge,                 \* alarms raised on a change only (ValidatorInactive)
    Evidence,             \* alarms of an event, never resolved (DoubleSignEvidence)
    Proposals,            \* alarms with the UnvotedGovernanceProposal prefix
    Enabled,              \* destinations switched on in the configuration
    Threshold,            \* severity_threshold of a destination
    MutedResolve,         \* destinations with disable_resolve_message
    DigestOn,             \* digest_interval_seconds > 0
    FlapWindow,           \* five minutes
    ReminderInterval,     \* governance_alerts_reminder_interval
    EscalationThreshold,  \* escalation_minutes
    EscalationOn,         \* escalation_minutes > 0
    SilenceSpans,         \* windows POST /silence is called with
    RPCMayFail,           \* newRpc may find no usable endpoint
    Lossy,                \* an HTTP post may fail
    Tasks,                \* bound: dispatch goroutines alive at once
    MaxBuffer,            \* bound: messages a digest bucket holds
    MaxTime               \* bound: last point of the clock

Dests == {"pd", "di", "tg", "slk", "wh"}
Severities == {"critical", "warning", "info"}

\* An escalation travels under the alarm's ID with "_escalated" appended.
Ids == Alarms \X BOOLEAN
Messages == [alarm : Alarms, escalated : BOOLEAN, resolved : BOOLEAN]
Signals == {"low", "rise", "high", "fall"}

\* An alarm is raised by one goroutine: its ID holds the validator's address, and
\* watch() and handleEvidence() use different prefixes.
ASSUME ConfigAssumption ==
    /\ ChainOf \in [Callers -> Chains]
    /\ Order \in [Callers -> Seq(Alarms)]
    /\ \A r \in Callers : Order[r] # << >>
    /\ \A q, r \in Callers : \A i \in 1..Len(Order[q]), j \in 1..Len(Order[r]) :
          Order[q][i] = Order[r][j] => q = r
    /\ Severity \in [Alarms -> Severities]
    /\ Latched \subseteq Alarms /\ Edge \subseteq Alarms
    /\ Evidence \subseteq Alarms /\ Proposals \subseteq Alarms
    /\ Enabled \subseteq Dests /\ MutedResolve \subseteq {"wh"}
    /\ Threshold \in [Dests -> Severities]
    /\ DigestOn \in BOOLEAN /\ EscalationOn \in BOOLEAN
    /\ RPCMayFail \in BOOLEAN /\ Lossy \in BOOLEAN

ASSUME TimeAssumption ==
    /\ FlapWindow \in Nat /\ ReminderInterval \in Nat
    /\ EscalationThreshold \in Nat
    /\ MaxTime \in Nat \ {0} /\ MaxBuffer \in Nat
    /\ SilenceSpans \subseteq Nat \ {0}

VARIABLES
    now,            \* the wall clock
    signal,         \* what the chain shows to an evaluator, per alarm
    latch,          \* cc.lastBlockAlarm
    allAlarms,      \* SentTime of alarms.AllAlarms[chain][id], 0 if absent
    escalated,      \* Escalated flag of that entry
    tangled,        \* history: alarms whose last message was sent while another about
                    \* them was under way, or that ended without a message since
    sent,           \* SentTime in SentPdAlarms, SentDiAlarms, ... per unique ID
    flapping,       \* alarms.flappingAlarms
    silencedUntil,  \* cc.silencedUntil
    pc, turn,       \* where a caller is, and which alarm it is at
    clearing,       \* the resolved argument of its call of alert()
    muted,          \* the silenced flag its call has read
    tasks,          \* running dispatch goroutines
    due,            \* the escalation sweep: entries of its list still to do,
    picked, marked, \* the entry past the silence check, the one being re-sent
    buffer,         \* the digester's buckets
    outgoing,       \* buckets the running flush has yet to post
    told,           \* history: last notification approved, per channel and ID
    paged,          \* history: time of the last approved PagerDuty trigger
    shown           \* history: what came of the last post about an ID

cacheVars == <<allAlarms, escalated, tangled, latch>>
notifyVars == <<sent, flapping, told, paged>>
callerVars == <<pc, turn, clearing, muted>>
sweepVars == <<due, picked, marked>>
digestVars == <<buffer, outgoing>>
envVars == <<now, signal, silencedUntil>>
vars == <<cacheVars, notifyVars, callerVars, sweepVars, digestVars, envVars,
          tasks, shown>>

-----------------------------------------------------------------------------
(* Small observations of the state *)

Silenced(c) == silencedUntil[c] > 0 /\ now < silencedUntil[c]

High(a) == signal[a] \in {"rise", "high"}

Current(r) == Order[r][turn[r]]

AlarmsOf(c) == {a \in Alarms : \E r \in Callers :
                    ChainOf[r] = c /\ \E i \in 1..Len(Order[r]) : Order[r][i] = a}

\* Mutated: an escalation is sent under the alarm's own ID.
UniqueIdMutant(m) == <<m.alarm, FALSE>>

UniqueId(m) == <<m.alarm, m.escalated>>

SeverityThresholdToSeverities(t) ==
    CASE t = "critical" -> {"critical"}
      [] t = "warning" -> {"critical", "warning"}
      [] OTHER -> Severities

\* The order in which a dispatch goroutine serves the destinations.
Rank(d) == CASE d = "pd" -> 1 [] d = "di" -> 2 [] d = "tg" -> 3
             [] d = "slk" -> 4 [] OTHER -> 5

First(d, S) == d \in S /\ \A e \in S : Rank(d) <= Rank(e)

\* buildAlertMsg: the flags of the message; an escalation clears its pd flag.
Uses(m) == IF m.escalated THEN Enabled \ {"pd"} ELSE Enabled

-----------------------------------------------------------------------------
(* shouldNotify: the verdict on a message and what it records *)

Subscribed(m, d) ==
    Severity[m.alarm] \in SeverityThresholdToSeverities(Threshold[d])

Known(m, d) == sent[d][UniqueId(m)] # 0

ReminderDue(m, d) ==
    /\ m.alarm \in Proposals
    /\ sent[d][UniqueId(m)] + ReminderInterval < now

IsFlapping(m, d) ==
    /\ d = "pd"
    /\ flapping[UniqueId(m)] # 0
    /\ flapping[UniqueId(m)] + FlapWindow > now

\* Mutated: a flapping alarm is held back whether it fires or resolves.
ApprovesMutant(m, d) ==
    /\ Subscribed(m, d) /\ ~IsFlapping(m, d)
    /\ IF Known(m, d) THEN m.resolved \/ ReminderDue(m, d) ELSE ~m.resolved

Approves(m, d) ==
    /\ Subscribed(m, d)
    /\ IF Known(m, d) THEN m.resolved \/ ReminderDue(m, d)
                      ELSE ~m.resolved /\ ~IsFlapping(m, d)

\* Mutated: a resolve leaves its entry in the map.
SentAfterMutant(m, d) ==
    IF Approves(m, d) /\ ~m.resolved
    THEN [sent[d] EXCEPT ![UniqueId(m)] = now] ELSE sent[d]

\* Mutated: the map holds the time the next reminder is due.
SentNextMutant(m, d) ==
    IF Approves(m, d)
    THEN [sent[d] EXCEPT ![UniqueId(m)] = IF m.resolved THEN 0 ELSE now + ReminderInterval]
    ELSE sent[d]

SentAfter(m, d) ==
    IF Approves(m, d)
    THEN [sent[d] EXCEPT ![UniqueId(m)] = IF m.resolved THEN 0 ELSE now]
    ELSE sent[d]

\* Mutated: a resolve forgets when the alarm last fired.
FlappingAfterMutant(m, d) ==
    IF Approves(m, d) /\ d = "pd"
    THEN [flapping EXCEPT ![UniqueId(m)] = IF m.resolved THEN 0 ELSE now]
    ELSE flapping

FlappingAfter(m, d) ==
    IF Approves(m, d) /\ d = "pd" /\ ~Known(m, d)
    THEN [flapping EXCEPT ![UniqueId(m)] = now]
    ELSE flapping

Kind(m) == IF m.resolved THEN "resolved" ELSE "firing"

ToldAfter(m, d) ==
    IF Approves(m, d) THEN [told[d] EXCEPT ![UniqueId(m)] = Kind(m)] ELSE told[d]

PagedAfter(m, d) ==
    IF Approves(m, d) /\ d = "pd" /\ ~m.resolved
    THEN [paged EXCEPT ![UniqueId(m)] = now]
    ELSE paged

\* One call of shouldNotify, under notifyMux.
ShouldNotify(m, d) ==
    /\ sent' = [sent EXCEPT ![d] = SentAfter(m, d)]
    /\ flapping' = FlappingAfter(m, d)
    /\ told' = [told EXCEPT ![d] = ToldAfter(m, d)]
    /\ paged' = PagedAfter(m, d)

\* Mutated: disable_resolve_message is taken to hold for every channel.
WillPostMutant(m, d) == Approves(m, d) /\ ~m.resolved

\* A webhook drops the resolve it has just been approved.
WillPost(m, d) == Approves(m, d) /\ ~(m.resolved /\ d \in MutedResolve)

-----------------------------------------------------------------------------
(* Callers of alert(): the evaluators of watch() and handleEvidence() *)

\* Mutated: alarms.exist() asks whether the alarm was ever announced.
FiresMutant(a) ==
    IF a \in Edge THEN signal[a] = "rise"
    ELSE /\ High(a)
         /\ IF a \in Latched THEN ~latch[a]
            ELSE \A d \in Dests : sent[d][<<a, FALSE>>] = 0

\* All but ChainStalled and ValidatorInactive ask alarms.exist() first. Evidence is
\* an event: handleEvidence looks at it once, when it arrives.
Fires(a) ==
    IF a \in Edge THEN signal[a] = "rise"
    ELSE /\ High(a)
         /\ IF a \in Latched THEN ~latch[a] ELSE allAlarms[a] = 0

Clears(a) ==
    /\ a \notin Evidence
    /\ IF a \in Edge THEN signal[a] = "fall" ELSE ~High(a) /\ allAlarms[a] # 0

NextTurn(r) == IF turn[r] = Len(Order[r]) THEN 1 ELSE turn[r] + 1

\* The evaluator reads the signal and the cache; if it calls alert(), the call
\* builds the message and reads the silence window. (Nothing another goroutine
\* does between those two reads can be told from it happening before or after.)
Evaluate(r) ==
    LET a == Current(r) IN
    /\ pc[r] = "evaluate"
    /\ IF Fires(a) \/ Clears(a)
       THEN /\ clearing' = [clearing EXCEPT ![r] = ~Fires(a)]
            /\ muted' = [muted EXCEPT ![r] = Silenced(ChainOf[r])]
            /\ pc' = [pc EXCEPT ![r] = IF Silenced(ChainOf[r]) THEN "book" ELSE "send"]
            /\ UNCHANGED turn
       ELSE /\ turn' = [turn EXCEPT ![r] = NextTurn(r)]
            /\ UNCHANGED <<pc, clearing, muted>>
    /\ latch' = [latch EXCEPT ![a] = a \in Latched /\ High(a)]
    /\ signal' = [signal EXCEPT ![a] = IF a \in Evidence THEN "low" ELSE @]
    /\ UNCHANGED <<allAlarms, escalated, tangled, now, silencedUntil, notifyVars,
                   sweepVars, digestVars, tasks, shown>>

FreeTask(s) == \A t \in tasks : t.slot # s

\* alertChan <- m: the dispatcher takes the message and starts a goroutine.
Dispatch(m) ==
    \E s \in Tasks :
        /\ FreeTask(s)
        /\ tasks' = tasks \cup
              (IF Uses(m) = {} THEN {}
               ELSE {[slot |-> s, msg |-> m, todo |-> Uses(m), posting |-> "none"]})

\* A message about this alarm that some channel has yet to hear.
UnderWay(a) == \E t \in tasks : t.msg.alarm = a /\ ~t.msg.escalated /\ t.todo # {}

Send(r) ==
    LET a == Current(r) IN
    /\ pc[r] = "send"
    /\ Dispatch([alarm |-> a, escalated |-> FALSE, resolved |-> clearing[r]])
    /\ pc' = [pc EXCEPT ![r] = "book"]
    /\ tangled' = IF UnderWay(a) THEN tangled \cup {a} ELSE tangled \ {a}
    /\ UNCHANGED <<turn, clearing, muted, allAlarms, escalated, latch, notifyVars,
                   sweepVars, digestVars, envVars, shown>>

\* The bookkeeping that ends alert(), under notifyMux.
Book(r) ==
    LET a == Current(r)
        fresh == ~clearing[r] /\ ~muted[r]
    IN
    /\ pc[r] = "book"
    /\ allAlarms' = [allAlarms EXCEPT ![a] = IF clearing[r] THEN 0
                                             ELSE IF fresh THEN now ELSE @]
    /\ escalated' = [escalated EXCEPT ![a] = ~clearing[r] /\ ~fresh /\ @]
    /\ tangled' = tangled \cup {b \in {a} : clearing[r] /\ muted[r] /\ allAlarms[a] # 0}
    /\ pc' = [pc EXCEPT ![r] = "evaluate"]
    /\ turn' = [turn EXCEPT ![r] = NextTurn(r)]
    /\ clearing' = [clearing EXCEPT ![r] = FALSE]
    /\ muted' = [muted EXCEPT ![r] = FALSE]
    /\ UNCHANGED <<latch, notifyVars, sweepVars, digestVars,
                   envVars, tasks, shown>>

-----------------------------------------------------------------------------
(* Dispatch goroutines *)

\* The goroutine ends when it has served its last destination.
Continue(t, todo, posting) ==
    tasks' = (tasks \ {t}) \cup
        (IF todo = {} /\ posting = "none" THEN {}
         ELSE {[t EXCEPT !.todo = todo, !.posting = posting]})

\* notifyX: shouldNotify, then the post if it approved.
Notify(t, d) ==
    /\ t.posting = "none" /\ First(d, t.todo)
    /\ DigestOn => d = "pd"
    /\ ShouldNotify(t.msg, d)
    /\ Continue(t, t.todo \ {d}, IF WillPost(t.msg, d) THEN d ELSE "none")
    /\ UNCHANGED <<cacheVars, callerVars, sweepVars, digestVars, envVars, shown>>

\* The HTTP post returns. A failed one is logged and never retried.
Outcomes == IF Lossy THEN BOOLEAN ELSE {TRUE}

Delivered(m, ok) == IF ok THEN Kind(m) ELSE "lost"

Post(t) ==
    /\ t.posting # "none"
    /\ \E ok \in Outcomes :
          shown' = [shown EXCEPT ![t.posting][UniqueId(t.msg)] = Delivered(t.msg, ok)]
    /\ Continue(t, t.todo, "none")
    /\ UNCHANGED <<cacheVars, notifyVars, callerVars, sweepVars, digestVars, envVars>>

\* digester.enqueue: every remaining destination at once, under d.mu.
Enqueue(t) ==
    /\ DigestOn
    /\ t.posting = "none" /\ "pd" \notin t.todo /\ t.todo # {}
    /\ \A d \in t.todo : Len(buffer[d]) < MaxBuffer
    /\ sent' = [d \in Dests |-> IF d \in t.todo THEN SentAfter(t.msg, d) ELSE sent[d]]
    /\ told' = [d \in Dests |-> IF d \in t.todo THEN ToldAfter(t.msg, d) ELSE told[d]]
    /\ buffer' = [d \in Dests |-> IF d \in t.todo /\ WillPost(t.msg, d)
                                  THEN Append(buffer[d], t.msg) ELSE buffer[d]]
    /\ tasks' = tasks \ {t}
    /\ UNCHANGED <<flapping, paged, cacheVars, callerVars, sweepVars, outgoing,
                   envVars, shown>>

\* digester.flush: swap the buckets under d.mu ...
Flush ==
    /\ DigestOn /\ outgoing = {}
    /\ \E d \in Dests : buffer[d] # << >>
    /\ outgoing' = {[dest |-> d, msgs |-> buffer[d]] :
                        d \in {e \in Dests : buffer[e] # << >>}}
    /\ buffer' = [d \in Dests |-> << >>]
    /\ UNCHANGED <<cacheVars, notifyVars, callerVars, sweepVars, envVars, tasks, shown>>

About(u, msgs) == {i \in DOMAIN msgs : UniqueId(msgs[i]) = u}

LastAbout(u, msgs) == CHOOSE i \in About(u, msgs) : \A j \in About(u, msgs) : j <= i

\* How a bucket's messages about an ID read together: a webhook gets them as a list,
\* in order, while digestSummary prints a chain's resolved alerts after the firing ones.
Summary(u, b) ==
    IF b.dest = "wh" THEN Kind(b.msgs[LastAbout(u, b.msgs)])
    ELSE IF \E i \in About(u, b.msgs) : b.msgs[i].resolved THEN "resolved"
    ELSE "firing"

\* ... then one combined post per bucket, in a fixed order of channel types.
PostDigest ==
    \E b \in outgoing :
        /\ First(b.dest, {o.dest : o \in outgoing})
        /\ outgoing' = outgoing \ {b}
        /\ \E ok \in Outcomes :
              shown' = [shown EXCEPT ![b.dest] =
                  [u \in Ids |-> IF About(u, b.msgs) = {} THEN shown[b.dest][u]
                                 ELSE IF ok THEN Summary(u, b) ELSE "lost"]]
        /\ UNCHANGED <<buffer, cacheVars, notifyVars, callerVars, sweepVars, envVars, tasks>>

-----------------------------------------------------------------------------
(* The escalation sweep *)

IsDue(a) ==
    /\ allAlarms[a] # 0 /\ Severity[a] = "critical" /\ ~escalated[a]
    /\ allAlarms[a] + EscalationThreshold <= now

SweepIdle == picked = {} /\ marked = {}

\* Phase 1, under notifyMux.
Scan ==
    /\ EscalationOn /\ SweepIdle /\ due = {}
    /\ \E a \in Alarms : IsDue(a)
    /\ due' = {a \in Alarms : IsDue(a)}
    /\ UNCHANGED <<picked, marked, cacheVars, notifyVars, callerVars,
                   digestVars, envVars, tasks, shown>>

\* Mutated: the sweep does not look at the silence window.
ConsiderMutant(a) ==
    /\ SweepIdle /\ a \in due
    /\ due' = due \ {a}
    /\ picked' = {a}
    /\ UNCHANGED <<marked, cacheVars, notifyVars, callerVars, digestVars, envVars,
                   tasks, shown>>

\* The next entry of the list; one of a silenced chain is skipped.
Consider(a) ==
    /\ SweepIdle /\ a \in due
    /\ due' = due \ {a}
    /\ picked' = {b \in {a} : \A c \in Chains : a \in AlarmsOf(c) => ~Silenced(c)}
    /\ UNCHANGED <<marked, cacheVars, notifyVars, callerVars, digestVars, envVars,
                   tasks, shown>>

\* Re-check and mark, under notifyMux.
Mark(a) ==
    /\ a \in picked
    /\ picked' = {}
    /\ IF allAlarms[a] = 0 \/ escalated[a]
       THEN UNCHANGED <<marked, escalated>>
       ELSE /\ escalated' = [escalated EXCEPT ![a] = TRUE]
            /\ marked' = {a}
    /\ UNCHANGED <<due, allAlarms, tangled, latch, notifyVars, callerVars, digestVars,
                   envVars, tasks, shown>>

SendEscalation(a) ==
    /\ a \in marked
    /\ Dispatch([alarm |-> a, escalated |-> TRUE, resolved |-> FALSE])
    /\ marked' = {}
    /\ UNCHANGED <<due, picked, cacheVars, notifyVars, callerVars, digestVars,
                   envVars, shown>>

-----------------------------------------------------------------------------
(* The rest of the program and the world *)

\* POST /silence and POST /unsilence.
SilenceChain(c) ==
    /\ \E s \in SilenceSpans :
          now + s <= MaxTime /\ silencedUntil' = [silencedUntil EXCEPT ![c] = now + s]
    /\ UNCHANGED <<now, signal, cacheVars, notifyVars, callerVars, sweepVars,
                   digestVars, tasks, shown>>

UnsilenceChain(c) ==
    /\ silencedUntil[c] # 0
    /\ silencedUntil' = [silencedUntil EXCEPT ![c] = 0]
    /\ UNCHANGED <<now, signal, cacheVars, notifyVars, callerVars, sweepVars,
                   digestVars, tasks, shown>>

\* newRpc found no usable endpoint: alarms.clearAll(cc.name).
ClearAll(c) ==
    /\ RPCMayFail
    /\ \E a \in AlarmsOf(c) : allAlarms[a] # 0
    /\ allAlarms' = [a \in Alarms |-> IF a \in AlarmsOf(c) THEN 0 ELSE allAlarms[a]]
    /\ escalated' = [a \in Alarms |-> a \notin AlarmsOf(c) /\ escalated[a]]
    /\ tangled' = tangled \cup {a \in AlarmsOf(c) : allAlarms[a] # 0}
    /\ UNCHANGED <<latch, notifyVars, callerVars, sweepVars, digestVars, envVars,
                   tasks, shown>>

\* The monitored condition changes. A change that monitorHealth detects by
\* comparing two validator records is seen as "rise" or "fall" for a while, evidence
\* as a "rise" that the next look at it uses up.
Moves(a) ==
    IF a \in Edge
    THEN {<<"low", "rise">>, <<"rise", "high">>, <<"rise", "fall">>,
          <<"high", "fall">>, <<"fall", "low">>, <<"fall", "rise">>}
    ELSE IF a \in Evidence THEN {<<"low", "rise">>}
    ELSE {<<"low", "high">>, <<"high", "low">>}

ChangeSignal(a) ==
    /\ \E s \in Signals : /\ <<signal[a], s>> \in Moves(a)
                          /\ signal' = [signal EXCEPT ![a] = s]
    /\ UNCHANGED <<now, silencedUntil, cacheVars, notifyVars, callerVars,
                   sweepVars, digestVars, tasks, shown>>

Tick ==
    /\ now < MaxTime
    /\ now' = now + 1
    /\ UNCHANGED <<signal, silencedUntil, cacheVars, notifyVars, callerVars,
                   sweepVars, digestVars, tasks, shown>>

-----------------------------------------------------------------------------
Init ==
    /\ now = 1
    /\ signal = [a \in Alarms |-> "low"]
    /\ latch = [a \in Alarms |-> FALSE]
    /\ allAlarms = [a \in Alarms |-> 0]
    /\ escalated = [a \in Alarms |-> FALSE]
    /\ tangled = {}
    /\ sent = [d \in Dests |-> [u \in Ids |-> 0]]
    /\ flapping = [u \in Ids |-> 0]
    /\ silencedUntil = [c \in Chains |-> 0]
    /\ pc = [r \in Callers |-> "evaluate"]
    /\ turn = [r \in Callers |-> 1]
    /\ clearing = [r \in Callers |-> FALSE]
    /\ muted = [r \in Callers |-> FALSE]
    /\ tasks = {}
    /\ due = {} /\ picked = {} /\ marked = {}
    /\ buffer = [d \in Dests |-> << >>]
    /\ outgoing = {}
    /\ told = [d \in Dests |-> [u \in Ids |-> "none"]]
    /\ paged = [u \in Ids |-> 0]
    /\ shown = [d \in Dests |-> [u \in Ids |-> "none"]]

CallerStep(r) == Evaluate(r) \/ Send(r) \/ Book(r)

TaskStep(t) == (\E d \in Dests : Notify(t, d)) \/ Post(t) \/ Enqueue(t)

DigestStep == Flush \/ PostDigest

SweepStep ==
    \/ Scan
    \/ \E a \in Alarms : Consider(a) \/ Mark(a) \/ SendEscalation(a)

ChainStep(c) == SilenceChain(c) \/ UnsilenceChain(c) \/ ClearAll(c)

Next ==
    \/ \E r \in Callers : CallerStep(r)
    \/ \E t \in tasks : TaskStep(t)
    \/ DigestStep
    \/ SweepStep
    \/ \E c \in Chains : ChainStep(c)
    \/ \E a \in Alarms : ChangeSignal(a)
    \/ Tick

Spec == Init /\ [][Next]_vars

\* Every goroutine's own loop goes on, an HTTP request returns (with an answer
\* or an error), the tickers fire and time passes. Nothing is assumed of the
\* monitored chain, of the operator or of the RPC endpoints.
Fairness ==
    /\ \A r \in Callers : WF_vars(CallerStep(r))
    /\ \A s \in Tasks : WF_vars(\E t \in tasks : t.slot = s /\ TaskStep(t))
    /\ WF_vars(DigestStep)
    /\ WF_vars(SweepStep)
    /\ WF_vars(Tick)

FairSpec == Spec /\ Fairness

-----------------------------------------------------------------------------
(* Properties *)

TaskRecords == [slot : Tasks, msg : Messages, todo : SUBSET Dests,
                posting : Dests \cup {"none"}]

\* Every variable keeps its type; a SentTime is never in the future.
TypeOK ==
    /\ now \in 1..MaxTime
    /\ signal \in [Alarms -> Signals]
    /\ latch \in [Alarms -> BOOLEAN]
    /\ allAlarms \in [Alarms -> 0..now]
    /\ escalated \in [Alarms -> BOOLEAN]
    /\ tangled \subseteq Alarms
    /\ sent \in [Dests -> [Ids -> 0..now]]
    /\ flapping \in [Ids -> 0..now]
    /\ silencedUntil \in [Chains -> Nat]
    /\ pc \in [Callers -> {"evaluate", "send", "book"}]
    /\ turn \in [Callers -> Nat]
    /\ \A r \in Callers : turn[r] \in 1..Len(Order[r])
    /\ clearing \in [Callers -> BOOLEAN] /\ muted \in [Callers -> BOOLEAN]
    /\ tasks \subseteq TaskRecords
    /\ due \subseteq Alarms /\ picked \subseteq Alarms /\ marked \subseteq Alarms
    /\ buffer \in [Dests -> Seq(Messages)]
    /\ outgoing \subseteq [dest : Dests, msgs : Seq(Messages)]
    /\ told \in [Dests -> [Ids -> {"none", "firing", "resolved"}]]
    /\ paged \in [Ids -> 0..now]
    /\ shown \in [Dests -> [Ids -> {"none", "firing", "resolved", "lost"}]]

\* Whatever the order in which dispatch goroutines reach shouldNotify, the
\* notifications it approves for one alert ID on one channel alternate: a
\* resolve only after an alert, an alert only on a channel that is not showing
\* it already, unless it is the reminder of an open proposal.
ApprovalsAlternate ==
    \A d \in Dests, m \in Messages :
        Approves(m, d) =>
            IF m.resolved THEN told[d][UniqueId(m)] = "firing"
            ELSE told[d][UniqueId(m)] = "firing" => m.alarm \in Proposals

\* PagerDuty is not triggered twice for one alert ID within the flap window,
\* however often the alarm goes up and down (reminders of proposals aside).
PageRateLimited ==
    [][\A u \in Ids : (u[1] \notin Proposals /\ paged'[u] # paged[u] /\ paged[u] # 0)
            => paged'[u] >= paged[u] + FlapWindow]_paged

\* No caller is inside alert() about this alarm.
Settled(a) ==
    \A r \in Callers : Current(r) = a => pc[r] = "evaluate"

Pending(a, d) ==
    \E t \in tasks : t.msg.alarm = a /\ ~t.msg.escalated /\ d \in t.todo

Serves(d, a) ==
    d \in Enabled /\ Severity[a] \in SeverityThresholdToSeverities(Threshold[d])

\* An alarm that tenderduty counts as active has been announced on every
\* channel that serves it; PagerDuty may be withholding a flapping one, but
\* then it has been paged for it before.
ActiveIsAnnounced ==
    \A a \in Alarms \ tangled, d \in Dests :
        allAlarms[a] # 0 /\ Settled(a) /\ Serves(d, a) /\ ~Pending(a, d)
            => \/ told[d][<<a, FALSE>>] = "firing"
               \/ d = "pd" /\ paged[<<a, FALSE>>] # 0

\* An alarm that is over is not left standing on a channel: where the alert was
\* announced, so is its end.
ClearIsAnnounced ==
    \A a \in Alarms \ tangled, d \in Dests :
        allAlarms[a] = 0 /\ Settled(a) /\ ~Pending(a, d)
            => told[d][<<a, FALSE>>] # "firing"

\* What alert() has booked and what the channels were told agree in both directions, as
\* soon as the caller and the dispatch goroutines are through with an alarm. Three things
\* part them: a message sent while another about the alarm is under way (the goroutines
\* may reach shouldNotify in either order), an alarm that ends while it is silenced, and
\* clearAll. Nothing else does, and the next message sent alone brings them together
\* again, whatever the channels' maps held before.
ChannelsAgree == ActiveIsAnnounced /\ ClearIsAnnounced

\* A post, a buffered message or a message of the running flush is under way.
InTransit(d, u) ==
    \/ \E t \in tasks : t.posting = d /\ UniqueId(t.msg) = u
    \/ About(u, buffer[d]) # {}
    \/ \E b \in outgoing : b.dest = d /\ About(u, b.msgs) # {}

ReadsAs(d, u) ==
    \/ shown[d][u] \in {told[d][u], "lost"}
    \/ d # "wh" /\ told[d][u] = "firing" /\ shown[d][u] = "resolved"

\* Digest mode loses nothing but failed posts: when nothing is under way, a channel
\* reads as the last notification that shouldNotify approved, or the last post about it
\* failed. In a text digest an alert that ended and came back within one bucket reads as
\* resolved, since digestSummary prints the end after it; an alert that is over never
\* reads as firing.
DigestShowsEnd ==
    DigestOn =>
        \A d \in Dests \ (MutedResolve \cup {"pd"}), u \in Ids :
            InTransit(d, u) \/ ReadsAs(d, u)

SilencedAlarm(a) == \E c \in Chains : a \in AlarmsOf(c) /\ Silenced(c)

\* Nothing of the chain is between its silence check and its dispatch.
Quiet(c) ==
    /\ \A r \in Callers : ChainOf[r] = c => pc[r] # "send"
    /\ (picked \cup marked) \cap AlarmsOf(c) = {}

\* While a chain is silenced nothing new about it is dispatched, be it an alert,
\* a resolve or an escalation, once the calls that had already passed their
\* silence check are through.
SilenceHolds ==
    [][\A c \in Chains : Silenced(c) /\ Quiet(c) =>
          /\ Quiet(c)'
          /\ \A t \in tasks' : t.msg.alarm \in AlarmsOf(c) =>
                \E o \in tasks : o.slot = t.slot /\ o.msg = t.msg]_vars

\* A condition that stays, on a chain that is no longer silenced, is an active
\* alarm again and again, whatever suppressed or wiped it before.
ConditionIsRaised ==
    \A a \in Alarms \ (Latched \cup Edge \cup Evidence) :
        <>[](High(a) /\ ~SilencedAlarm(a)) => []<>(allAlarms[a] # 0)

\* A condition that is gone for good does not stay an active alarm.
ConditionIsCleared ==
    \A a \in Alarms \ (Edge \cup Evidence) :
        <>[]~High(a) => <>[](allAlarms[a] = 0)

\* The evaluators see to it that the active alarms follow the conditions in the end,
\* whatever silences, clearAll and failed posts do before.
ActiveFollowsCondition == ConditionIsRaised /\ ConditionIsCleared

Overdue(a) == allAlarms[a] # 0 /\ allAlarms[a] + EscalationThreshold <= now

\* A critical alarm that stays active and unsilenced past the threshold has been
\* announced as escalated on every channel that serves it, other than PagerDuty.
EscalationIsAnnounced ==
    EscalationOn => \A a \in Alarms, d \in Dests \ {"pd"} :
        Severity[a] = "critical" /\ Serves(d, a) =>
            (<>[](Overdue(a) /\ ~SilencedAlarm(a)) => <>(told[d][<<a, TRUE>>] = "firing"))

\* The alerts that stand on a channel, going by what shouldNotify approved.
Standing == [d \in Dests |-> {u \in Ids : told[d][u] = "firing"}]

Channel == INSTANCE AlertChannels WITH
               Channels <- Dests, Gap <- FlapWindow, standing <- Standing,
               Remindable <- Proposals \X BOOLEAN, NeverPaged <- Alarms \X {TRUE}

\* All the machinery, with its goroutines, maps, sweep and digester, implements the
\* abstract channels of AlertChannels: whatever interleaves, a message about one ID
\* reaches a set of channels, and what pages does so neither within the flap window
\* nor as an escalation. (A message that repeats what stands is a stuttering step
\* here; that there is none but a reminder is ApprovalsAlternate.)
ImplementsChannels == Channel!Spec

-----------------------------------------------------------------------------
(* What the documentation says and the code does not do *)

\* "Reminders are sent periodically": a standing alert about an open proposal
\* does not stay older than the reminder interval for good.
ProposalIsReminded ==
    \A a \in Proposals, d \in Enabled :
        ~<>[](/\ High(a) /\ allAlarms[a] # 0 /\ ~SilencedAlarm(a)
              /\ sent[d][<<a, FALSE>>] # 0
              /\ sent[d][<<a, FALSE>>] + ReminderInterval < now)

Escalating(a, d) ==
    a \in marked \/ \E t \in tasks : t.msg.alarm = a /\ t.msg.escalated /\ d \in t.todo

\* "Re-sends a still-unresolved critical alert once more": an active alarm marked as
\* escalated has been re-sent since it was raised.
EscalationIsResent ==
    \A a \in Alarms, d \in Dests \ {"pd"} :
        escalated[a] /\ Serves(d, a) /\ ~Escalating(a, d)
            => sent[d][<<a, TRUE>>] >= allAlarms[a]
=============================================================================
