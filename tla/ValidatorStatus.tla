-------------------------- MODULE ValidatorStatus --------------------------
(***************************************************************************)
(* What tenderduty knows of a validator's standing, and the three alarms    *)
(* that compare it with what was known before: ValidatorInactive,           *)
(* StakeChange and CommissionChange.                                        *)
(*                                                                          *)
(* Two goroutines of a chain call GetValInfo: the websocket loop of Run,    *)
(* once per session, and monitorHealth, once a minute. Both write           *)
(* cc.valInfo field by field without a lock. Only monitorHealth copies      *)
(* valInfo to lastValInfo, just before its own call, and watch compares the *)
(* two every two seconds. An alarm is here the entry in AllAlarms, which    *)
(* alert() does not make while the chain is silenced; what becomes of the   *)
(* messages is AlertPipeline's matter.                                      *)
(*                                                                          *)
(* Two facts of real time are guards: watch makes a pass between two ticks  *)
(* of monitorHealth (2 s against 60 s), and a call that runs during one     *)
(* tick has ended at the next (its context expires after 10 s).             *)
(***************************************************************************)
EXTENDS Integers, Sequences

CONSTANTS
    Stakes,             \* delegated tokens the validator may have
    Rates,              \* commission rates, in percent
    Starts,             \* what the validator may be at the start
    DropThreshold,      \* stake_change_drop_threshold, in percent, zero if unset
    IncreaseThreshold,  \* stake_change_increase_threshold, the same
    RateThreshold,      \* commission_change_alert_threshold, the same
    Nil,                \* Go's nil
    MaxChanges,         \* bound: changes of the validator on chain
    MaxFaults,          \* bound: failed connections and queries, and silences of the chain
    MaxSessions         \* bound: websocket sessions

ASSUME ThresholdAssumption ==
    /\ Stakes \subseteq Nat /\ Rates \subseteq Nat
    /\ DropThreshold \in Nat /\ IncreaseThreshold \in Nat /\ RateThreshold \in Nat
    /\ MaxChanges \in Nat /\ MaxFaults \in Nat /\ MaxSessions \in Nat \ {0}

VARIABLES
    chain,        \* the validator on chain
    valInfo,      \* cc.valInfo
    lastValInfo,  \* cc.lastValInfo
    copied,       \* the copy monitorHealth is building
    at,           \* where each caller of GetValInfo is
    field,        \* the field it writes or copies next
    answer,       \* what QueryValidatorInfo returned to it
    passed,       \* watch has made a pass since monitorHealth's last call
    late,         \* the websocket loop's call was running at the last tick
    silenced,     \* the chain is silenced
    alarms,       \* AllAlarms of the chain
    moved,        \* history: fields that have changed on chain
    changes, faults, sessions

infoVars == <<valInfo, lastValInfo, copied>>
callVars == <<at, field, answer>>
vars == <<chain, infoVars, callVars, silenced, passed, late, alarms, moved, changes,
          faults, sessions>>

Callers == {"ws", "monitor"}
\* The assignments, in order; nothing tells apart a state between the last two.
Fields == <<{"known"}, {"bonded"}, {"stake", "rate"}>>
Over(info, new, F) ==
    [known |-> IF "known" \in F THEN new.known ELSE info.known,
     bonded |-> IF "bonded" \in F THEN new.bonded ELSE info.bonded,
     stake |-> IF "stake" \in F THEN new.stake ELSE info.stake,
     rate |-> IF "rate" \in F THEN new.rate ELSE info.rate]
Infos == [known : BOOLEAN, bonded : BOOLEAN, stake : Stakes \cup {0},
          rate : Rates \cup {0}]

ASSUME InfoAssumption ==
    /\ Nil \notin Infos
    /\ Starts \subseteq {info \in Infos : /\ info.known
                                      /\ info.stake \in Stakes /\ info.rate \in Rates}

\* Mutated: valInfo is left nil until the first answer.
PlaceholderMutant == Nil
\* validateConfig: the placeholder that stands for "not connected".
Placeholder == [known |-> FALSE, bonded |-> FALSE, stake |-> 0, rate |-> 0]
Inactive == "ValidatorInactive"
StakeChange == "StakeChange"
CommissionChange == "CommissionChange"
Alarms == {Inactive, StakeChange, CommissionChange}
FieldOf(a) == CASE a = Inactive -> "bonded" [] a = StakeChange -> "stake"
                [] a = CommissionChange -> "rate"

Abs(n) == IF n < 0 THEN -n ELSE n

-----------------------------------------------------------------------------
(* The validator on chain *)

Change(f) ==
    /\ changes < MaxChanges
    /\ \E v \in (CASE f = "bonded" -> BOOLEAN [] f = "stake" -> Stakes
                   [] f = "rate" -> Rates) \ {chain[f]} :
          chain' = [chain EXCEPT ![f] = v]
    /\ changes' = changes + 1
    /\ moved' = moved \cup {f}
    /\ UNCHANGED <<infoVars, callVars, silenced, passed, late, alarms, faults,
                   sessions>>

\* silenceChain, and the silence running out or being taken back.
Silence ==
    /\ ~silenced /\ faults < MaxFaults
    /\ silenced' = TRUE /\ faults' = faults + 1
    /\ UNCHANGED <<chain, infoVars, callVars, passed, late, alarms, moved, changes, sessions>>

SilenceEnds ==
    /\ silenced
    /\ silenced' = FALSE
    /\ UNCHANGED <<chain, infoVars, callVars, passed, late, alarms, moved, changes, faults,
                   sessions>>

-----------------------------------------------------------------------------
(* GetValInfo *)

\* QueryValidatorInfo returns the validator as it is on chain.
Answered(c) ==
    /\ at[c] = "ask"
    /\ answer' = [answer EXCEPT ![c] = chain]
    /\ at' = [at EXCEPT ![c] = "store"]
    /\ field' = [field EXCEPT ![c] = 1]
    /\ UNCHANGED <<chain, infoVars, silenced, passed, late, alarms, moved, changes,
                   faults, sessions>>

Ended(c) == IF c = "ws" THEN "run" ELSE "idle"

\* It fails, times out or has no client: GetValInfo returns with nothing written.
QueryFails(c) ==
    /\ at[c] = "ask"
    /\ faults < MaxFaults
    /\ faults' = faults + 1
    /\ at' = [at EXCEPT ![c] = Ended(c)]
    /\ passed' = (c # "monitor" /\ passed)
    /\ UNCHANGED <<chain, infoVars, field, answer, silenced, late, alarms, moved,
                   changes, sessions>>

\* One assignment to cc.valInfo; a moniker makes it known. The address conversion
\* and the pool, rewards, proposal and signing queries that follow succeed or
\* fail, but write none of these fields: the call ends with the last of them.
Store(c) ==
    LET done == field[c] = Len(Fields) IN
    /\ at[c] = "store"
    /\ valInfo' = Over(valInfo, answer[c], Fields[field[c]])
    /\ field' = [field EXCEPT ![c] = (@ % Len(Fields)) + 1]
    /\ at' = [at EXCEPT ![c] = IF done THEN Ended(c) ELSE @]
    /\ answer' = [answer EXCEPT ![c] = IF done THEN Placeholder ELSE @]
    /\ passed' = (passed /\ ~(done /\ c = "monitor"))
    /\ UNCHANGED <<chain, lastValInfo, copied, silenced, late, alarms, moved, changes,
                   faults, sessions>>

-----------------------------------------------------------------------------
(* The websocket loop of Run *)

Dial ==
    /\ at["ws"] = "dial"
    /\ at' = [at EXCEPT !["ws"] = "ask"]
    /\ UNCHANGED <<chain, infoVars, field, answer, silenced, passed, late, alarms,
                   moved, changes, faults, sessions>>

\* newRpc finds no endpoint: it forgets the chain's alarms, the loop tries again.
DialFails ==
    /\ at["ws"] = "dial"
    /\ faults < MaxFaults
    /\ faults' = faults + 1
    /\ alarms' = {}
    /\ UNCHANGED <<chain, infoVars, callVars, silenced, passed, late, moved, changes,
                   sessions>>

\* WsRun returns and the loop starts over.
SessionEnds ==
    /\ at["ws"] = "run"
    /\ sessions < MaxSessions
    /\ sessions' = sessions + 1
    /\ at' = [at EXCEPT !["ws"] = "dial"]
    /\ UNCHANGED <<chain, infoVars, field, answer, silenced, passed, late, alarms,
                   moved, changes, faults>>

-----------------------------------------------------------------------------
(* monitorHealth *)

Calling(c) == at[c] \in {"ask", "store"}

Tick ==
    /\ at["monitor"] = "idle"
    /\ passed
    /\ ~(late /\ Calling("ws"))
    /\ late' = Calling("ws")
    /\ at' = [at EXCEPT !["monitor"] = "copy"]
    /\ field' = [field EXCEPT !["monitor"] = 1]
    /\ UNCHANGED <<chain, infoVars, answer, silenced, passed, alarms, moved, changes,
                   faults, sessions>>

\* Mutated: once it holds an answer, the copy is not replaced any more.
CopyFieldMutant ==
    /\ at["monitor"] = "copy"
    /\ LET info == Over(copied, valInfo, Fields[field["monitor"]])
           last == field["monitor"] = Len(Fields)
       IN  /\ copied' = IF last THEN Placeholder ELSE info
           /\ lastValInfo' = IF last /\ (lastValInfo = Nil \/ ~lastValInfo.known)
                              THEN info ELSE lastValInfo
           /\ at' = [at EXCEPT !["monitor"] = IF last THEN "ask" ELSE @]
    /\ field' = [field EXCEPT !["monitor"] = (@ % Len(Fields)) + 1]
    /\ UNCHANGED <<chain, valInfo, answer, silenced, passed, late, alarms, moved,
                   changes, faults, sessions>>

\* The copy is built field by field and published with the last one. Before the
\* first answer it is a copy of the placeholder.
CopyField ==
    /\ at["monitor"] = "copy"
    /\ LET info == Over(copied, valInfo, Fields[field["monitor"]])
           last == field["monitor"] = Len(Fields)
       IN  /\ copied' = IF last THEN Placeholder ELSE info
           /\ lastValInfo' = IF last THEN info ELSE lastValInfo
           /\ at' = [at EXCEPT !["monitor"] = IF last THEN "ask" ELSE @]
    /\ field' = [field EXCEPT !["monitor"] = (@ % Len(Fields)) + 1]
    /\ UNCHANGED <<chain, valInfo, answer, silenced, passed, late, alarms, moved,
                   changes, faults, sessions>>

-----------------------------------------------------------------------------
(* watch *)

\* alert() books an alarm unless the chain is silenced; a resolve is always carried out.
Booked(A, a) == IF silenced THEN A ELSE A \cup {a}

\* Mutated: the resolve branch tests for the same change as the alert branch.
InactiveAfterMutant(A) ==
    IF lastValInfo # Nil /\ lastValInfo.bonded # valInfo.bonded
          /\ lastValInfo.known = valInfo.known /\ lastValInfo.bonded
    THEN Booked(A, Inactive)
    ELSE A

\* evaluateValidatorInactiveAlert: only a change is an alert or a resolve, and
\* only if the moniker is the same, i.e. not for the first answer. It does not ask whether
\* the alarm exists, so alert() is called on every pass until the next copy, and no more.
InactiveAfter(A) ==
    IF lastValInfo # Nil /\ lastValInfo.bonded # valInfo.bonded
          /\ lastValInfo.known = valInfo.known
    THEN IF valInfo.bonded THEN A \ {Inactive} ELSE Booked(A, Inactive)
    ELSE A

\* evaluateStakeChangeAlert: the change relative to the copy. If that is zero there is
\* neither an alert nor a resolve.
StakeMovedBy(before, now) ==
    LET threshold == IF now < before THEN DropThreshold ELSE IncreaseThreshold
    IN  Abs(now - before) * 100 >= threshold * before

\* Mutated: without the test for a previous stake of zero.
StakeAfterMutant(A) ==
    IF lastValInfo = Nil THEN A
    ELSE IF StakeMovedBy(lastValInfo.stake, valInfo.stake)
         THEN Booked(A, StakeChange) ELSE A \ {StakeChange}

StakeAfter(A) ==
    IF lastValInfo = Nil \/ lastValInfo.stake = 0 THEN A
    ELSE IF StakeMovedBy(lastValInfo.stake, valInfo.stake)
         THEN Booked(A, StakeChange) ELSE A \ {StakeChange}

\* evaluateCommissionChangeAlert: the difference to the copy, whatever it holds.
CommissionAfter(A) ==
    IF lastValInfo = Nil THEN A
    ELSE IF Abs(valInfo.rate - lastValInfo.rate) >= RateThreshold
         THEN Booked(A, CommissionChange) ELSE A \ {CommissionChange}

\* A pass of watch's loop, which starts once the moniker is known. The three
\* evaluators read and write apart from each other, so one step stands for all.
Watch ==
    /\ valInfo.known
    /\ alarms' = CommissionAfter(StakeAfter(InactiveAfter(alarms)))
    /\ passed' = (passed \/ at["monitor"] = "idle")
    /\ UNCHANGED <<chain, infoVars, callVars, silenced, late, moved, changes, faults,
                   sessions>>

\* Before that, it waits a second at a time.
WatchWaits ==
    /\ ~valInfo.known /\ ~passed
    /\ passed' = TRUE
    /\ UNCHANGED <<chain, infoVars, callVars, silenced, late, alarms, moved, changes,
                   faults, sessions>>

-----------------------------------------------------------------------------
Init ==
    /\ chain \in Starts
    /\ valInfo = Placeholder
    /\ lastValInfo = Nil
    /\ copied = Placeholder
    /\ at = [c \in Callers |-> IF c = "ws" THEN "dial" ELSE "idle"]
    /\ field = [c \in Callers |-> 1]
    /\ answer = [c \in Callers |-> Placeholder]
    /\ passed = TRUE /\ late = FALSE
    /\ silenced = FALSE
    /\ alarms = {} /\ moved = {}
    /\ changes = 0 /\ faults = 0 /\ sessions = 1

Call(c) == Answered(c) \/ Store(c)

Next ==
    \/ \E f \in {"bonded", "stake", "rate"} : Change(f)
    \/ Silence \/ SilenceEnds
    \/ \E c \in Callers : Call(c) \/ QueryFails(c)
    \/ Dial \/ DialFails \/ SessionEnds
    \/ Tick \/ CopyField
    \/ Watch \/ WatchWaits

Spec == Init /\ [][Next]_vars

\* The goroutines keep running; failures, session ends and silences are not owed.
FairSpec ==
    /\ Spec
    /\ \A c \in Callers : WF_vars(Call(c))
    /\ WF_vars(Dial) /\ WF_vars(Tick) /\ WF_vars(CopyField)
    /\ WF_vars(Watch) /\ WF_vars(WatchWaits) /\ WF_vars(SilenceEnds)

-----------------------------------------------------------------------------
\* Every variable keeps its type.
TypeOK ==
    /\ chain \in Infos /\ valInfo \in Infos /\ copied \in Infos
    /\ lastValInfo \in Infos \cup {Nil}
    /\ at \in [Callers -> {"dial", "run", "idle", "copy", "ask", "store"}]
    /\ field \in [Callers -> 1..Len(Fields)]
    /\ answer \in [Callers -> Infos]
    /\ passed \in BOOLEAN /\ late \in BOOLEAN /\ silenced \in BOOLEAN
    /\ alarms \subseteq Alarms
    /\ moved \subseteq {"bonded", "stake", "rate"}
    /\ changes \in 0..MaxChanges /\ faults \in 0..MaxFaults
    /\ sessions \in 1..MaxSessions

IsRaised(a) == a \in alarms' \ alarms

\* No start-up order, torn copy or late answer makes watch report an inactive
\* validator or a stake change on a chain where that value never changed; except that an
\* increase threshold left unset is zero, which a stake that has not changed reaches.
StandingAlarmIsReal ==
    [][\A a \in {Inactive, StakeChange} : IsRaised(a) =>
          FieldOf(a) \in moved \/ (a = StakeChange /\ IncreaseThreshold = 0)]_vars

Settled(b) ==
    /\ at["ws"] = "run" /\ at["monitor"] = "idle"
    /\ valInfo.known /\ lastValInfo # Nil
    /\ lastValInfo = [valInfo EXCEPT !.stake = lastValInfo.stake,
                                     !.rate = lastValInfo.rate]
    /\ valInfo.bonded = b

\* While a websocket session lasts, a change of standing after monitorHealth's
\* call does not go unnoticed: its next refresh comes after its next copy and watch
\* sees the two differ. A new session may refresh valInfo just before the copy, or
\* in the middle of it, and so hide a change. A silence may hide that the validator
\* is no longer active: what is suppressed until the next copy is not tried again.
ChangeOfStandingIsSeen ==
    \A b \in BOOLEAN :
        (Settled(b) /\ chain.bonded # b)
            ~> \/ chain.bonded = b \/ at["ws"] # "run" \/ (silenced /\ b)
               \/ (Inactive \in alarms) = b

\* The alarms about a change go away by themselves, because the next copy makes
\* the two values equal; unless the threshold is zero, or the stake has dropped to zero
\* for good, when the evaluator does not come to its resolve branch.
ChangeAlarmsEnd ==
    /\ IncreaseThreshold > 0 => []<>(StakeChange \notin alarms) \/ <>[](chain.stake = 0)
    /\ RateThreshold > 0 => []<>(CommissionChange \notin alarms)
=============================================================================
