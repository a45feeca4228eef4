----------------------------- MODULE Dashboard -----------------------------
(***************************************************************************)
(* What the dashboard shows and who waits for it. The goroutines of every   *)
(* chain hand snapshots of their state, log lines and alert-history entries *)
(* to one aggregator goroutine in Serve, which keeps what the HTTP handlers *)
(* serve. Every channel but updateChan is unbuffered: alert() waits for the *)
(* aggregator before it books an alarm, and so does whoever logs.           *)
(*                                                                          *)
(* So does the escalation sweep, and shouldNotify logs with notifyMux held. *)
(*                                                                          *)
(* One critical alarm per chain. A snapshot is the number of its alarms,    *)
(* and whether its floating point numbers are finite: JSON has no others.   *)
(* Serving and broadcasting only read the caches.                           *)
(***************************************************************************)
EXTENDS Naturals, Sequences

CONSTANTS
    Chains,       \* configured chains
    Watched,      \* the chains whose alarm may come up
    Setups,       \* the configurations the program is run with
    Nil,          \* no snapshot, no call
    Capacity,     \* capacity of updateChan
    HistoryLength \* alertHistoryLength

\* A call of alert(): where it is, whether it resolves, and what silenceStatus said.
Calls == [at : {"log", "history", "book"}, resolved : BOOLEAN, silenced : BOOLEAN]

\* hide_logs; the chains whose evaluator asks alarms.exist() and those whose denomMetadata
\* is known; escalation_minutes is set.
SetupType ==
    [hideLogs : BOOLEAN, gated : SUBSET Watched, priced : SUBSET Chains, escalates : BOOLEAN]

ASSUME DashboardAssumption ==
    /\ Nil \notin Calls /\ Nil \notin Chains
    /\ Watched \subseteq Chains /\ Setups \subseteq SetupType
    /\ Capacity \in Nat \ {0} /\ HistoryLength \in Nat \ {0}

VARIABLES
    setup,         \* the configuration, which does not change
    condition,     \* what the evaluator of a chain's alarm reads
    silenced,      \* silenceStatus of a chain
    alarm,         \* the chain's alarm is in AllAlarms
    escalated,     \* and its entry is marked Escalated
    call,          \* watch's call of alert()
    due,           \* the candidates of checkEscalations
    escalation,    \* the one it has marked and not yet told the history of
    notifyMux,     \* held by a shouldNotify that has a line to log
    totalBonded,   \* cc.totalBondedTokens is known, i.e. not zero
    finiteAPR,     \* cc.baseAPR is neither infinite nor NaN
    updateChan,    \* snapshots on their way
    logger,        \* the log goroutine holds a line for logChan
    status,        \* the aggregator's snapshots
    statusCache,   \* the encoded ones
    alertHistory,  \* alertHistorySlice, newest first
    restored       \* history: the chains whose alarm was booked by an earlier run

world == <<condition, silenced>>
alarms == <<alarm, escalated, restored>>
sweep == <<due, escalation>>
economy == <<totalBonded, finiteAPR>>
aggregator == <<status, statusCache, alertHistory>>
vars == <<setup, world, alarms, call, sweep, notifyMux, economy, updateChan, logger,
          aggregator>>

-----------------------------------------------------------------------------
(* The evaluators and alert() *)

\* recordAlertHistory sends unless the logs are hidden.
AfterLog == IF setup.hideLogs THEN "book" ELSE "history"

\* A silenced call says so in the log, another one has a message dispatched.
Begin(c, resolved) ==
    /\ call[c] = Nil
    /\ call' = [call EXCEPT ![c] = [at |-> IF silenced[c] THEN "log" ELSE AfterLog,
                                    resolved |-> resolved, silenced |-> silenced[c]]]
    /\ UNCHANGED <<setup, world, alarms, sweep, notifyMux, economy, updateChan, logger,
                   aggregator>>

\* An evaluator that asks alarms.exist() calls alert() to change what the answer is.
Evaluate(c) ==
    /\ c \in setup.gated /\ ~notifyMux
    /\ condition[c] # alarm[c]
    /\ Begin(c, alarm[c])

\* One that does not, as for ValidatorInactive or evidence, calls it whether or not the
\* alarm is booked, and for as many turns as it sees its reason.
EvaluateUngated(c) ==
    /\ c \in Watched \ setup.gated
    /\ Begin(c, ~condition[c])

\* l(): the log goroutine takes the line, and holds it if it goes to the dashboard.
TakesLine == ~logger /\ logger' = ~setup.hideLogs

LogSilenced(c) ==
    /\ call[c] # Nil /\ call[c].at = "log"
    /\ TakesLine
    /\ call' = [call EXCEPT ![c].at = AfterLog]
    /\ UNCHANGED <<setup, world, alarms, sweep, notifyMux, economy, updateChan,
                   aggregator>>

\* Mutated: an alarm whose condition has come back is kept.
BookedMutant(c) ==
    IF call[c].resolved THEN condition[c] ELSE alarm[c] \/ ~call[c].silenced

\* A silenced alert is not booked, a silenced resolve is.
Booked(c) == IF call[c].resolved THEN FALSE ELSE alarm[c] \/ ~call[c].silenced

\* A call that books anything makes a new entry, or none: neither is Escalated.
Book(c) ==
    /\ call[c] # Nil /\ call[c].at = "book" /\ ~notifyMux
    /\ alarm' = [alarm EXCEPT ![c] = Booked(c)]
    /\ LET kept == ~call[c].resolved /\ call[c].silenced IN
          /\ escalated' = [escalated EXCEPT ![c] = kept /\ @]
          /\ restored' = IF kept THEN restored ELSE restored \ {c}
    /\ call' = [call EXCEPT ![c] = Nil]
    /\ UNCHANGED <<setup, world, sweep, notifyMux, economy, updateChan, logger,
                   aggregator>>

-----------------------------------------------------------------------------
(* The escalation sweep *)

\* Phase 1 of checkEscalations; any alarm may have become old enough.
Scan(found) ==
    /\ setup.escalates /\ due = {} /\ escalation = Nil /\ ~notifyMux
    /\ found # {} /\ \A c \in found : alarm[c] /\ ~escalated[c]
    /\ due' = found
    /\ UNCHANGED <<setup, world, alarms, call, escalation, notifyMux, economy, updateChan,
                   logger, aggregator>>

\* A candidate is skipped if its chain is silenced, or if its alarm has ended or been
\* escalated since; otherwise it is marked, and the sweep waits for the aggregator.
Escalate(c) ==
    /\ c \in due /\ escalation = Nil /\ ~notifyMux
    /\ due' = due \ {c}
    /\ LET marks == ~silenced[c] /\ alarm[c] /\ ~escalated[c] IN
          /\ escalated' = [escalated EXCEPT ![c] = @ \/ marks]
          /\ escalation' = IF marks /\ ~setup.hideLogs THEN c ELSE Nil
    /\ UNCHANGED <<setup, world, alarm, restored, call, notifyMux, economy, updateChan,
                   logger, aggregator>>

-----------------------------------------------------------------------------
(* Whoever else logs *)

\* shouldNotify locks notifyMux, and keeps it until the log goroutine has its line. (If
\* that one is not busy, no one is kept waiting and it is a line like any other.)
Notify ==
    /\ ~notifyMux /\ logger
    /\ notifyMux' = TRUE
    /\ UNCHANGED <<setup, world, alarms, call, sweep, economy, updateChan, logger,
                   aggregator>>

NotifyLogs ==
    /\ notifyMux
    /\ TakesLine
    /\ notifyMux' = FALSE
    /\ UNCHANGED <<setup, world, alarms, call, sweep, economy, updateChan, aggregator>>

\* A goroutine that holds no lock logs a line.
OtherLine ==
    /\ TakesLine
    /\ UNCHANGED <<setup, world, alarms, call, sweep, notifyMux, economy, updateChan,
                   aggregator>>

-----------------------------------------------------------------------------
(* GetValInfo: the staking pool and the APR *)

\* Mutated: the APR is only computed if it is still zero.
FiniteAfterMutant(c, infoOk, directory) == finiteAPR[c] /\ (~infoOk \/ totalBonded'[c])

\* A division by totalBondedTokens, which is zero until the pool was queried: the result
\* is infinite, or NaN without inflation. If the query failed (or the APR is zero), an
\* APR of cosmos.directory takes its place. Projected rewards follow in the same call.
FiniteAfter(c, infoOk, directory) ==
    IF infoOk THEN totalBonded'[c] ELSE finiteAPR[c] \/ directory

\* A failed query of the pool keeps the total of an earlier one.
Refresh(c, poolOk, infoOk, directory) ==
    /\ c \in setup.priced
    /\ totalBonded' = [totalBonded EXCEPT ![c] = @ \/ poolOk]
    /\ finiteAPR' = [finiteAPR EXCEPT ![c] = FiniteAfter(c, infoOk, directory)]
    /\ UNCHANGED <<setup, world, alarms, call, sweep, notifyMux, updateChan, logger,
                   aggregator>>

-----------------------------------------------------------------------------
(* Snapshots *)

toDashStatus(c, activeAlerts) == [alerts |-> activeAlerts, finite |-> finiteAPR[c]]

SendStatus(c, activeAlerts) ==
    /\ Len(updateChan) < Capacity
    /\ updateChan' = Append(updateChan, [chain |-> c, status |-> toDashStatus(c, activeAlerts)])

\* A block has been processed.
Publish(c) ==
    /\ SendStatus(c, IF alarm[c] THEN 1 ELSE 0)
    /\ UNCHANGED <<setup, world, alarms, call, sweep, notifyMux, economy, logger,
                   aggregator>>

\* newRpc finds no endpoint: clearAll, then a snapshot with one alert, whatever there is.
\* (The wait for room in updateChan is put before clearAll: the snapshot does not
\* depend on the alarms.)
RpcFails(c) ==
    /\ c \in Watched /\ ~notifyMux
    /\ alarm' = [alarm EXCEPT ![c] = FALSE] /\ escalated' = [escalated EXCEPT ![c] = FALSE]
    /\ restored' = restored \ {c}
    /\ SendStatus(c, 1)
    /\ UNCHANGED <<setup, world, call, sweep, notifyMux, economy, logger, aggregator>>

-----------------------------------------------------------------------------
(* The aggregator in Serve *)

\* json.Marshal of all snapshots fails if one of them does.
Encodes(s) == \A c \in Chains : s[c] # Nil => s[c].finite

\* updateStatus
TakeStatus ==
    /\ updateChan # << >>
    /\ status' = [status EXCEPT ![Head(updateChan).chain] = Head(updateChan).status]
    /\ statusCache' = IF Encodes(status') THEN status' ELSE statusCache
    /\ updateChan' = Tail(updateChan)
    /\ UNCHANGED <<setup, world, alarms, call, sweep, notifyMux, economy, logger,
                   alertHistory>>

Pushed(entry) ==
    <<entry>> \o SubSeq(alertHistory, 1, IF Len(alertHistory) < HistoryLength
                                         THEN Len(alertHistory) ELSE HistoryLength - 1)

\* Mutated: snapshots come first.
TakeHistoryMutant(c) ==
    /\ call[c] # Nil /\ call[c].at = "history" /\ updateChan = << >>
    /\ alertHistory' = Pushed([chain |-> c, resolved |-> call[c].resolved])
    /\ call' = [call EXCEPT ![c].at = "book"]
    /\ UNCHANGED <<setup, world, alarms, sweep, notifyMux, economy, updateChan, logger,
                   status, statusCache>>

\* appendAlertHistory receives from recordAlertHistory.
TakeHistory(c) ==
    /\ call[c] # Nil /\ call[c].at = "history"
    /\ alertHistory' = Pushed([chain |-> c, resolved |-> call[c].resolved])
    /\ call' = [call EXCEPT ![c].at = "book"]
    /\ UNCHANGED <<setup, world, alarms, sweep, notifyMux, economy, updateChan, logger,
                   status, statusCache>>

\* The sweep's entry is an alert, whatever has become of the alarm.
TakeEscalation ==
    /\ escalation # Nil
    /\ alertHistory' = Pushed([chain |-> escalation, resolved |-> FALSE])
    /\ escalation' = Nil
    /\ UNCHANGED <<setup, world, alarms, call, due, notifyMux, economy, updateChan,
                   logger, status, statusCache>>

\* appendLog: nothing depends on what the lines say.
TakeLog ==
    /\ logger
    /\ logger' = FALSE
    /\ UNCHANGED <<setup, world, alarms, call, sweep, notifyMux, economy, updateChan,
                   aggregator>>

-----------------------------------------------------------------------------
(* The operator and the chains *)

\* silenceChain, unsilenceChain, or the end of a silence.
ToggleSilence(c) ==
    /\ c \in Watched
    /\ silenced' = [silenced EXCEPT ![c] = ~@]
    /\ UNCHANGED <<setup, condition, alarms, call, sweep, notifyMux, economy, updateChan,
                   logger, aggregator>>

Change(c) ==
    /\ c \in Watched
    /\ condition' = [condition EXCEPT ![c] = ~@]
    /\ UNCHANGED <<setup, silenced, alarms, call, sweep, notifyMux, economy, updateChan,
                   logger, aggregator>>

\* The alarms of the state file are there from the start, the history is not.
Init ==
    /\ setup \in Setups
    /\ condition = [c \in Chains |-> FALSE] /\ silenced = [c \in Chains |-> FALSE]
    /\ restored \in SUBSET Watched
    /\ alarm = [c \in Chains |-> c \in restored]
    /\ escalated \in [Chains -> BOOLEAN] /\ \A c \in Chains : escalated[c] => alarm[c]
    /\ call = [c \in Chains |-> Nil]
    /\ due = {} /\ escalation = Nil /\ notifyMux = FALSE
    /\ totalBonded = [c \in Chains |-> FALSE] /\ finiteAPR = [c \in Chains |-> TRUE]
    /\ updateChan = << >> /\ logger = FALSE
    /\ status = [c \in Chains |-> Nil] /\ statusCache = [c \in Chains |-> Nil]
    /\ alertHistory = << >>

Next ==
    \/ \E c \in Chains :
          \/ Evaluate(c) \/ EvaluateUngated(c) \/ LogSilenced(c) \/ TakeHistory(c) \/ Book(c)
          \/ Escalate(c) \/ Publish(c) \/ RpcFails(c)
          \/ ToggleSilence(c) \/ Change(c)
          \/ \E poolOk, infoOk, directory \in BOOLEAN : Refresh(c, poolOk, infoOk, directory)
    \/ \E found \in SUBSET Watched : Scan(found)
    \/ TakeEscalation \/ Notify \/ NotifyLogs \/ OtherLine \/ TakeStatus \/ TakeLog

Spec == Init /\ [][Next]_vars

\* watch, the sweep and the aggregator keep running, and a select that can receive from
\* several channels does not forget one; the log goroutine serves its callers in order, as
\* the queue of a Go channel does, and notifyMux is given to whoever waits for it, as Go's
\* mutexes do. monitorHealth's queries succeed at some time.
FairSpec ==
    /\ Spec
    /\ \A c \in Watched :
          /\ SF_vars(Evaluate(c)) /\ SF_vars(LogSilenced(c)) /\ SF_vars(Book(c))
          /\ WF_vars(TakeHistory(c)) /\ SF_vars(Escalate(c))
    /\ WF_vars(TakeEscalation) /\ SF_vars(NotifyLogs)
    /\ \A c \in Chains : WF_vars(Refresh(c, TRUE, TRUE, FALSE))
    /\ WF_vars(TakeStatus) /\ WF_vars(TakeLog)

-----------------------------------------------------------------------------
(* Properties *)

\* The entry at place i is about chain c; no newer one is.
About(c, i) == alertHistory[i].chain = c
NewestAbout(c, i) == About(c, i) /\ \A j \in 1..(i - 1) : ~About(c, j)

\* The newest entry about the chain says that its alarm is over.
Over(c) == \E i \in DOMAIN alertHistory : NewestAbout(c, i) /\ alertHistory[i].resolved

\* There is an entry about the chain, or others may have pushed it out.
Mentioned(c) ==
    Len(alertHistory) = HistoryLength \/ \E i \in DOMAIN alertHistory : About(c, i)

\* The call has told the history that the alarm is over and is about to remove it.
Ending(c) == call[c] # Nil /\ call[c].at = "book" /\ call[c].resolved

\* The alert history never says that an active alarm is over, except while the call that
\* ends it is between its entry and its booking; and it says something of every active
\* alarm that this run has booked, unless entries of other chains may have pushed it out.
\* So it is through silences, clearAll, escalations that arrive late, evaluators that
\* repeat themselves and alarms of the state file. The slice never outgrows its length.
ActiveIsNotReportedOver ==
    /\ Len(alertHistory) <= HistoryLength
    /\ ~setup.hideLogs => \A c \in Watched : alarm[c] =>
          (Over(c) => Ending(c)) /\ (c \in restored \/ Mentioned(c))

\* Neither the aggregator, the log goroutine nor a holder of notifyMux holds up an alarm
\* for good: a call of alert() that waits for the dashboard or for the lock gets through,
\* and so does the sweep with everything it has found.
AlertGetsThrough ==
    /\ \A c \in Watched : call[c] # Nil ~> call[c] = Nil
    /\ due # {} \/ escalation # Nil ~> due = {} /\ escalation = Nil

Shows(c, n) == statusCache[c] # Nil /\ statusCache[c].alerts = n

\* While all chains have blocks, a lasting condition is shown again and again, and so is
\* its absence, on whatever chain and for however long one chain's numbers could not
\* be encoded, if its evaluator asks alarms.exist().
PageFollowsCondition ==
    (\A c \in Chains : []<><<Publish(c)>>_vars) =>
        \A c \in Watched : c \in setup.gated =>
            /\ <>[](condition[c] /\ ~silenced[c]) => []<>Shows(c, 1)
            /\ <>[]~condition[c] => []<>Shows(c, 0)
=============================================================================
