------------------------ MODULE ValidatorStatusProofs ------------------------
(***************************************************************************)
(* Proofs about ValidatorStatus for all stakes, rates, thresholds and       *)
(* bounds: types, and that no alarm about the validator's standing or stake *)
(* is made up by the order in which its record is written and copied.       *)
(***************************************************************************)
EXTENDS ValidatorStatus, TLAPS

-----------------------------------------------------------------------------
(* Records *)

\* The groups of fields that are assigned together.
LEMMA FieldGroups ==
    /\ Len(Fields) = 3
    /\ Fields[1] = {"known"} /\ Fields[2] = {"bonded"} /\ Fields[3] = {"stake", "rate"}
BY DEF Fields

LEMMA PlaceholderType == Placeholder \in Infos
BY DEF Placeholder, Infos

\* Assigning some fields of a record leaves a record.
LEMMA OverType ==
    ASSUME NEW info \in Infos, NEW new \in Infos, NEW F
    PROVE  Over(info, new, F) \in Infos
BY DEF Over, Infos

LEMMA NextField ==
    ASSUME NEW i \in 1..Len(Fields)
    PROVE  (i % Len(Fields)) + 1 \in 1..Len(Fields)
BY FieldGroups

-----------------------------------------------------------------------------
(* Types *)

Places == {"dial", "run", "idle", "copy", "ask", "store"}

\* The types are inductive.
LEMMA TypeStep == TypeOK /\ [Next]_vars => TypeOK'
<1> SUFFICES ASSUME TypeOK, [Next]_vars PROVE TypeOK'
  OBVIOUS
<1> USE DEF infoVars, callVars
<1>a. 1 \in 1..Len(Fields)
  BY FieldGroups
<1>1. ASSUME NEW f \in {"bonded", "stake", "rate"}, Change(f) PROVE TypeOK'
  <2>1. chain' \in Infos
    BY <1>1 DEF Change, TypeOK, Infos
  <2>2. changes' \in 0..MaxChanges
    BY <1>1, ThresholdAssumption DEF Change, TypeOK
  <2>3. QED
    BY <1>1, <2>1, <2>2 DEF Change, TypeOK
<1>2. ASSUME NEW c \in Callers, Answered(c) PROVE TypeOK'
  BY <1>2, <1>a DEF Answered, TypeOK
<1>3. ASSUME NEW c \in Callers, Store(c) PROVE TypeOK'
  <2>1. valInfo' \in Infos
    BY <1>3, OverType DEF Store, TypeOK
  <2>2. field' \in [Callers -> 1..Len(Fields)]
    BY <1>3, NextField DEF Store, TypeOK
  <2>3. at' \in [Callers -> Places]
    BY <1>3 DEF Store, TypeOK, Ended, Places
  <2>4. answer' \in [Callers -> Infos]
    BY <1>3, PlaceholderType DEF Store, TypeOK
  <2>5. QED
    BY <1>3, <2>1, <2>2, <2>3, <2>4 DEF Store, TypeOK, Places
<1>4. ASSUME NEW c \in Callers, QueryFails(c) PROVE TypeOK'
  <2>1. at' \in [Callers -> Places]
    BY <1>4 DEF QueryFails, TypeOK, Ended, Places
  <2>2. faults' \in 0..MaxFaults
    BY <1>4, ThresholdAssumption DEF QueryFails, TypeOK
  <2>3. QED
    BY <1>4, <2>1, <2>2 DEF QueryFails, TypeOK, Places
<1>5. CASE Dial
  BY <1>5 DEF Silence, SilenceEnds, Dial, TypeOK
<1>6. CASE DialFails
  BY <1>6, ThresholdAssumption DEF DialFails, TypeOK
<1>7. CASE SessionEnds
  <2>1. sessions' \in 1..MaxSessions
    BY <1>7, ThresholdAssumption DEF SessionEnds, TypeOK
  <2>2. QED
    BY <1>7, <2>1 DEF SessionEnds, TypeOK
<1>8. CASE Tick
  <2>1. late' \in BOOLEAN
    BY <1>8 DEF Tick, Calling
  <2>2. at' \in [Callers -> Places] /\ field' \in [Callers -> 1..Len(Fields)]
    BY <1>8, <1>a DEF Tick, TypeOK, Places
  <2>3. QED
    BY <1>8, <2>1, <2>2 DEF Tick, TypeOK, Places
<1>9. CASE CopyField
  <2>1. "monitor" \in Callers
    BY DEF Callers
  <2>2. Over(copied, valInfo, Fields[field["monitor"]]) \in Infos
    BY OverType DEF TypeOK
  <2>3. copied' \in Infos /\ lastValInfo' \in Infos \cup {Nil}
    BY <1>9, <2>2, PlaceholderType DEF CopyField, TypeOK
  <2>4. field' \in [Callers -> 1..Len(Fields)]
    BY <1>9, <2>1, NextField DEF CopyField, TypeOK
  <2>5. at' \in [Callers -> Places]
    BY <1>9 DEF CopyField, TypeOK, Places
  <2>6. QED
    BY <1>9, <2>3, <2>4, <2>5 DEF CopyField, TypeOK, Places
<1>10. CASE Watch
  <2>1. alarms' \subseteq Alarms
    BY <1>10 DEF Watch, TypeOK, CommissionAfter, StakeAfter, InactiveAfter, Booked, Alarms
  <2>2. QED
    BY <1>10, <2>1 DEF Watch, TypeOK
<1>11. CASE WatchWaits
  BY <1>11 DEF WatchWaits, TypeOK
<1>12. CASE UNCHANGED vars
  BY <1>12 DEF vars, TypeOK
<1>13. CASE Silence
  BY <1>13, ThresholdAssumption DEF Silence, TypeOK
<1>14. CASE SilenceEnds
  BY <1>14 DEF SilenceEnds, TypeOK
<1>15. QED
  BY <1>1, <1>2, <1>3, <1>4, <1>5, <1>6, <1>7, <1>8, <1>9, <1>10, <1>11, <1>12, <1>13,
     <1>14 DEF Next, Call

\* Every variable keeps its type: in particular valInfo is a record from the start, and
\* lastValInfo nil or a record whenever watch compares the two.
THEOREM StandingTypeCorrect == Spec => []TypeOK
<1>1. Init => TypeOK
  <2> SUFFICES ASSUME Init PROVE TypeOK
    OBVIOUS
  <2>1. chain \in Infos
    BY InfoAssumption DEF Init
  <2>2. 1 \in 1..Len(Fields)
    BY FieldGroups
  <2>3. changes \in 0..MaxChanges /\ faults \in 0..MaxFaults /\ sessions \in 1..MaxSessions
    BY ThresholdAssumption DEF Init
  <2>4. at \in [Callers -> Places]
    BY DEF Init, Places
  <2>5. QED
    BY <2>1, <2>2, <2>3, <2>4, PlaceholderType DEF Init, TypeOK, Places
<1>2. QED
  BY <1>1, TypeStep, PTL DEF Spec

-----------------------------------------------------------------------------
(* Alarms about the standing are real *)

\* What a record says of a field: nothing yet, or what valInfo and the chain say.
Agrees(info, placeholder, value, onChain) ==
    info = placeholder \/ (info = onChain /\ value = onChain)

\* As long as bonded has not changed on chain, every answer has it right; valInfo, the
\* copy being built and the copy published hold the placeholder's FALSE or that value,
\* and a copy never holds it before valInfo does.
BondedInv ==
    "bonded" \notin moved =>
        /\ \A c \in Callers : at[c] = "store" => answer[c].bonded = chain.bonded
        /\ valInfo.bonded \in {FALSE, chain.bonded}
        /\ Agrees(copied.bonded, FALSE, valInfo.bonded, chain.bonded)
        /\ lastValInfo # Nil => Agrees(lastValInfo.bonded, FALSE, valInfo.bonded, chain.bonded)

\* The same for the stake, whose placeholder is zero.
StakeInv ==
    "stake" \notin moved =>
        /\ \A c \in Callers : at[c] = "store" => answer[c].stake = chain.stake
        /\ valInfo.stake \in {0, chain.stake}
        /\ Agrees(copied.stake, 0, valInfo.stake, chain.stake)
        /\ lastValInfo # Nil => Agrees(lastValInfo.stake, 0, valInfo.stake, chain.stake)

StandingInv == BondedInv /\ StakeInv

\* A field is overwritten, or kept.
LEMMA OverFields ==
    ASSUME NEW info \in Infos, NEW new \in Infos, NEW i \in 1..Len(Fields)
    PROVE  /\ Over(info, new, Fields[i]).bonded = IF i = 2 THEN new.bonded ELSE info.bonded
           /\ Over(info, new, Fields[i]).stake = IF i = 3 THEN new.stake ELSE info.stake
BY FieldGroups DEF Over

\* A step that writes none of the records preserves StandingInv.
LEMMA RecordsUntouched ==
    ASSUME StandingInv, UNCHANGED <<chain, valInfo, lastValInfo, copied, answer, moved>>,
           \A c \in Callers : at'[c] = "store" => at[c] = "store"
    PROVE  StandingInv'
BY DEF StandingInv, BondedInv, StakeInv, Agrees

LEMMA StandingStep == TypeOK /\ StandingInv /\ [Next]_vars => StandingInv'
<1> SUFFICES ASSUME TypeOK, StandingInv, [Next]_vars PROVE StandingInv'
  OBVIOUS
<1> USE DEF infoVars, callVars
<1>1. ASSUME NEW f \in {"bonded", "stake", "rate"}, Change(f) PROVE StandingInv'
  <2>1. /\ f # "bonded" => chain'.bonded = chain.bonded
        /\ f # "stake" => chain'.stake = chain.stake
    BY <1>1 DEF Change, TypeOK, Infos
  <2>2. moved' = moved \cup {f} /\ UNCHANGED <<valInfo, lastValInfo, copied, answer, at>>
    BY <1>1 DEF Change
  <2>3. BondedInv'
    BY <2>1, <2>2 DEF StandingInv, BondedInv, Agrees
  <2>4. StakeInv'
    BY <2>1, <2>2 DEF StandingInv, StakeInv, Agrees
  <2>5. QED
    BY <2>3, <2>4 DEF StandingInv
<1>2. ASSUME NEW c \in Callers, Answered(c) PROVE StandingInv'
  <2>1. answer' = [answer EXCEPT ![c] = chain] /\ at' = [at EXCEPT ![c] = "store"]
        /\ UNCHANGED <<chain, valInfo, lastValInfo, copied, moved>>
    BY <1>2 DEF Answered
  <2>2. BondedInv'
    BY <2>1 DEF TypeOK, StandingInv, BondedInv, Agrees
  <2>3. StakeInv'
    BY <2>1 DEF TypeOK, StandingInv, StakeInv, Agrees
  <2>4. QED
    BY <2>2, <2>3 DEF StandingInv
<1>3. ASSUME NEW c \in Callers, Store(c) PROVE StandingInv'
  <2>1. /\ at[c] = "store" /\ valInfo' = Over(valInfo, answer[c], Fields[field[c]])
        /\ UNCHANGED <<chain, lastValInfo, copied, moved>>
    BY <1>3 DEF Store
  <2>2. \A d \in Callers : at'[d] = "store" => at[d] = "store" /\ answer'[d] = answer[d]
    <3> SUFFICES ASSUME NEW d \in Callers, at'[d] = "store"
                 PROVE  at[d] = "store" /\ answer'[d] = answer[d]
      OBVIOUS
    <3>1. CASE d # c
      BY <1>3, <3>1 DEF Store, TypeOK
    <3>2. CASE d = c
      BY <1>3, <3>2 DEF Store, TypeOK, Ended
    <3>3. QED
      BY <3>1, <3>2
  <2>3. /\ valInfo'.bonded \in {valInfo.bonded, answer[c].bonded}
        /\ valInfo'.stake \in {valInfo.stake, answer[c].stake}
    BY <2>1, OverFields DEF TypeOK
  <2>4. BondedInv'
    BY <2>1, <2>2, <2>3 DEF StandingInv, BondedInv, Agrees
  <2>5. StakeInv'
    BY <2>1, <2>2, <2>3 DEF StandingInv, StakeInv, Agrees
  <2>6. QED
    BY <2>4, <2>5 DEF StandingInv
<1>4. ASSUME NEW c \in Callers, QueryFails(c) PROVE StandingInv'
  <2>1. \A d \in Callers : at'[d] = "store" => at[d] = "store"
    BY <1>4 DEF QueryFails, TypeOK, Ended
  <2>2. QED
    BY <1>4, <2>1, RecordsUntouched DEF QueryFails
<1>5. CASE \/ Silence \/ SilenceEnds \/ Dial \/ DialFails \/ SessionEnds \/ Tick
           \/ Watch \/ WatchWaits \/ UNCHANGED vars
  <2>1. UNCHANGED <<chain, valInfo, lastValInfo, copied, answer, moved>>
    BY <1>5 DEF Silence, SilenceEnds, Dial, DialFails, SessionEnds, Tick, Watch, WatchWaits, vars
  <2>2. \A d \in Callers : at'[d] = "store" => at[d] = "store"
    BY <1>5 DEF Silence, SilenceEnds, Dial, DialFails, SessionEnds, Tick, Watch, WatchWaits, vars, TypeOK
  <2>3. QED
    BY <2>1, <2>2, RecordsUntouched
<1>6. CASE CopyField
  <2> DEFINE info == Over(copied, valInfo, Fields[field["monitor"]])
  <2>1. /\ UNCHANGED <<chain, valInfo, answer, moved>>
        /\ copied' \in {Placeholder, info} /\ lastValInfo' \in {lastValInfo, info}
    BY <1>6 DEF CopyField
  <2>2. /\ info \in Infos
        /\ info.bonded \in {copied.bonded, valInfo.bonded}
        /\ info.stake \in {copied.stake, valInfo.stake}
    <3>1. "monitor" \in Callers /\ field["monitor"] \in 1..Len(Fields)
      BY <1>6 DEF TypeOK, Callers, CopyField
    <3>2. copied \in Infos /\ valInfo \in Infos
      BY <1>6 DEF TypeOK, CopyField
    <3>3. info \in Infos
      BY <3>2, OverType
    <3>4. QED
      BY <3>1, <3>2, <3>3, OverFields
  <2>3. \A d \in Callers : at'[d] = "store" => at[d] = "store"
    BY <1>6 DEF CopyField, TypeOK
  <2>4. Placeholder.bonded = FALSE /\ Placeholder.stake = 0
    BY DEF Placeholder
  <2> HIDE DEF info
  <2>5. BondedInv'
    BY <2>1, <2>2, <2>3, <2>4 DEF StandingInv, BondedInv, Agrees
  <2>6. StakeInv'
    BY <2>1, <2>2, <2>3, <2>4 DEF StandingInv, StakeInv, Agrees
  <2>7. QED
    BY <2>5, <2>6 DEF StandingInv
<1>7. QED
  BY <1>1, <1>2, <1>3, <1>4, <1>5, <1>6 DEF Next, Call

LEMMA StandingInvariant == Spec => []StandingInv
<1>1. Init => StandingInv
  BY DEF Init, StandingInv, BondedInv, StakeInv, Agrees, Placeholder, Callers, infoVars
<1>2. QED
  BY <1>1, StandingStep, StandingTypeCorrect, PTL DEF Spec

\* With a threshold for increases, a stake has not moved relative to itself.
LEMMA SameStake ==
    ASSUME NEW s \in Nat \ {0}, IncreaseThreshold # 0
    PROVE  ~StakeMovedBy(s, s)
<1>1. ASSUME NEW t \in Nat \ {0} PROVE t * s > 0
  OBVIOUS
<1>2. s - s = 0 /\ Abs(0) = 0 /\ ~(s < s)
  BY DEF Abs
<1>3. QED
  BY <1>1, <1>2, ThresholdAssumption DEF StakeMovedBy

\* No start-up order, torn copy or late answer makes watch report an inactive validator,
\* or a stake that changed, on a chain where that value never did; except for an increase
\* threshold of zero.
THEOREM StandingTheorem == Spec => StandingAlarmIsReal
<1>1. TypeOK /\ StandingInv /\ [Next]_vars
        => [\A a \in {Inactive, StakeChange} : IsRaised(a) =>
               FieldOf(a) \in moved \/ (a = StakeChange /\ IncreaseThreshold = 0)]_vars
  <2> SUFFICES ASSUME TypeOK, StandingInv, Next, NEW a \in {Inactive, StakeChange}, IsRaised(a)
               PROVE  FieldOf(a) \in moved \/ (a = StakeChange /\ IncreaseThreshold = 0)
    OBVIOUS
  <2>1. Watch
    BY DEF IsRaised, Next, Change, Silence, SilenceEnds, Call, Answered, Store, QueryFails,
           Dial, DialFails, SessionEnds, Tick, CopyField, WatchWaits
  <2>2. valInfo \in Infos /\ (lastValInfo # Nil => lastValInfo \in Infos)
    BY DEF TypeOK
  <2>3. CASE a = Inactive
    <3>1. lastValInfo # Nil /\ lastValInfo.bonded # valInfo.bonded /\ ~valInfo.bonded
      BY <2>1, <2>3
         DEF IsRaised, Watch, CommissionAfter, StakeAfter, InactiveAfter, Booked, Inactive,
             StakeChange, CommissionChange
    <3>2. "bonded" \in moved
      BY <2>2, <3>1 DEF StandingInv, BondedInv, Agrees, Infos
    <3>3. FieldOf(Inactive) = "bonded"
      BY DEF FieldOf, Inactive, StakeChange, CommissionChange
    <3>4. QED
      BY <2>3, <3>2, <3>3
  <2>4. CASE a = StakeChange
    <3>1. /\ lastValInfo # Nil /\ lastValInfo.stake # 0
          /\ StakeMovedBy(lastValInfo.stake, valInfo.stake)
      BY <2>1, <2>4
         DEF IsRaised, Watch, CommissionAfter, StakeAfter, InactiveAfter, Booked, Inactive,
             StakeChange, CommissionChange
    <3>2. lastValInfo.stake \in Nat \ {0}
      BY <2>2, <3>1, ThresholdAssumption DEF Infos
    <3>3. IncreaseThreshold # 0 => lastValInfo.stake # valInfo.stake
      BY <3>1, <3>2, SameStake
    <3>4. IncreaseThreshold # 0 => "stake" \in moved
      BY <3>1, <3>3 DEF StandingInv, StakeInv, Agrees
    <3>5. FieldOf(StakeChange) = "stake"
      BY DEF FieldOf, Inactive, StakeChange, CommissionChange
    <3>6. QED
      BY <2>4, <3>4, <3>5
  <2>5. QED
    BY <2>3, <2>4
<1>2. QED
  BY <1>1, StandingInvariant, StandingTypeCorrect, PTL DEF Spec, StandingAlarmIsReal
=============================================================================
