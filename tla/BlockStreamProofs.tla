-------------------------- MODULE BlockStreamProofs --------------------------
(***************************************************************************)
(* Proofs about BlockStream for every chain, every number of sessions and   *)
(* every Window: types, the nesting of the counters, that a session counts  *)
(* its blocks once and in order, that counters and window agree, and what   *)
(* an index of -1 into missTypes takes.                                     *)
(***************************************************************************)
EXTENDS BlockStream, SequenceTheorems, FiniteSetTheorems, TLAPS

-----------------------------------------------------------------------------
(* Types *)

\* The events of the chain are updates.
LEMMA UpdateTypes ==
    ASSUME TypeOK, height <= MaxHeight
    PROVE  /\ \A s \in VoteStatuses : Vote(s) \in Updates
           /\ \A s \in BlockStatuses : [height |-> height, status |-> s, final |-> TRUE] \in Updates
BY StreamAssumption DEF TypeOK, Vote, Updates, Heights

\* A status lies between Undecided and StatusProposedEmpty, and is decided.
LEMMA StatusRange ==
    ASSUME NEW u \in Updates
    PROVE  /\ u.status \in Undecided..StatusProposedEmpty /\ u.status > Undecided
           /\ u.height \in 1..MaxHeight
<1>1. CASE u \in [height : Heights, status : VoteStatuses, final : {FALSE}]
  BY <1>1 DEF VoteStatuses, Preactions, Heights, Undecided, Statusmissed, StatusPrevote,
              StatusPrecommit, StatusProposed, StatusProposedEmpty
<1>2. CASE u \in [height : Heights, status : BlockStatuses, final : {TRUE}]
  BY <1>2 DEF BlockStatuses, Heights, Undecided, Statusmissed, StatusSigned, StatusProposed,
              StatusProposedEmpty
<1>3. QED
  BY <1>1, <1>2 DEF Updates

\* The field that tells votes from blocks is a truth value.
LEMMA FinalIsBoolean == \A u \in Updates : u.final \in BOOLEAN
<1> SUFFICES ASSUME NEW u \in Updates PROVE u.final \in BOOLEAN
  OBVIOUS
<1>1. CASE u \in [height : Heights, status : VoteStatuses, final : {FALSE}]
  BY <1>1
<1>2. CASE u \in [height : Heights, status : BlockStatuses, final : {TRUE}]
  BY <1>2
<1>3. QED
  BY <1>1, <1>2 DEF Updates

\* The shifted window is a window.
LEMMA ShiftedType ==
    ASSUME TypeOK
    PROVE  Shifted \in [1..Window -> Undecided..StatusProposedEmpty]
<1> DEFINE T == Undecided..StatusProposedEmpty
           S == SubSeq(blocksResults, 1, Window - 1)
<1> HIDE DEF T
<1>1. /\ blocksResults \in [1..Window -> T] /\ signState \in T
      /\ Window \in Nat /\ Window >= 1
  BY StreamAssumption DEF TypeOK, T
<1>2. blocksResults \in Seq(T) /\ Len(blocksResults) = Window
  BY <1>1
<1>3. S \in Seq(T) /\ Len(S) = Window - 1
  BY <1>1, <1>2
<1>4. <<signState>> \in Seq(T) /\ Len(<<signState>>) = 1
  BY <1>1
<1>5. <<signState>> \o S \in Seq(T) /\ Len(<<signState>> \o S) = Window
  <2> HIDE DEF S
  <2> QED BY <1>1, <1>3, <1>4
<1>6. <<signState>> \o S \in [1..Window -> T]
  <2> HIDE DEF S
  <2> QED BY <1>5, LenProperties
<1>7. QED
  BY <1>6 DEF Shifted, T

\* Counting keeps the counters natural numbers.
LEMMA CountedType ==
    ASSUME stats \in [Counters -> Nat], NEW s
    PROVE  Counted(s) \in [Counters -> Nat]
BY DEF Counted

\* The types are inductive.
LEMMA TypeStep == TypeOK /\ [Next]_vars => TypeOK'
<1> SUFFICES ASSUME TypeOK, [Next]_vars PROVE TypeOK'
  OBVIOUS
<1> USE StreamAssumption
<1>1. ASSUME NEW s \in VoteStatuses, CastVote(s) PROVE TypeOK'
  <2>1. Vote(s) \in Updates
    BY <1>1, UpdateTypes DEF CastVote
  <2>2. log' \in Seq(Updates) /\ Len(log') = Len(log) + 1
    BY <1>1, <2>1 DEF CastVote, TypeOK
  <2>3. pos' \in 0..Len(log')
    BY <1>1, <2>2 DEF CastVote, TypeOK, dialVars
  <2>4. QED
    BY <1>1, <2>2, <2>3 DEF CastVote, TypeOK, dialVars, statVars
<1>2. ASSUME NEW s \in BlockStatuses, CommitBlock(s) PROVE TypeOK'
  <2>1. [height |-> height, status |-> s, final |-> TRUE] \in Updates
    BY <1>2, UpdateTypes DEF CommitBlock
  <2>2. log' \in Seq(Updates) /\ Len(log') = Len(log) + 1
    BY <1>2, <2>1 DEF CommitBlock, TypeOK
  <2>3. height' \in 1..(MaxHeight + 1)
    BY <1>2 DEF CommitBlock, TypeOK
  <2>4. pos' \in 0..Len(log')
    BY <1>2, <2>2 DEF CommitBlock, TypeOK, dialVars
  <2>5. QED
    BY <1>2, <2>2, <2>3, <2>4 DEF CommitBlock, TypeOK, dialVars, statVars
<1>3. CASE RefreshBonded
  BY <1>3 DEF RefreshBonded, TypeOK, envVars, dialVars, statVars
<1>4. CASE Connect
  <2>1. sessions' \in 0..MaxSessions
    BY <1>4 DEF Connect, TypeOK
  <2>2. pos' \in 0..Len(log')
    BY <1>4 DEF Connect, envVars
  <2>3. QED
    BY <1>4, <2>1, <2>2 DEF Connect, TypeOK, envVars, statVars
<1>5. CASE ConnectFails
  BY <1>5 DEF ConnectFails, TypeOK, envVars, statVars
<1>6. CASE Disconnect
  <2>1. Undecided \in Undecided..StatusProposedEmpty
    BY DEF Undecided, StatusProposedEmpty
  <2>2. pos' \in 0..Len(log')
    BY <1>6 DEF Disconnect, TypeOK, envVars
  <2>3. QED
    BY <1>6, <2>1, <2>2 DEF Disconnect, TypeOK, envVars, statVars
<1>7. CASE Route \/ VoteNotSeen
  <2>1. pos + 1 \in 1..Len(log) /\ pos' = pos + 1 /\ UNCHANGED log
    BY <1>7 DEF Route, VoteNotSeen, TypeOK, envVars
  <2>2. log[pos + 1] \in Updates /\ pos' \in 0..Len(log')
    BY <2>1, ElementOfSeq DEF TypeOK
  <2>3. held' \subseteq Updates
    BY <1>7, <2>2 DEF Route, VoteNotSeen, TypeOK
  <2>4. QED
    BY <1>7, <2>2, <2>3 DEF Route, VoteNotSeen, TypeOK, envVars, statVars
<1>8. ASSUME NEW u \in Updates, Receive(u) PROVE TypeOK'
  <2>1. signState' \in Undecided..StatusProposedEmpty
    BY <1>8, StatusRange DEF Receive, TypeOK
  <2>2. bondedThen' \in BOOLEAN
    BY <1>8, FinalIsBoolean, Zenon DEF Receive, TypeOK
  <2>3. processing' \subseteq Updates
    BY <1>8 DEF Receive
  <2>4. QED
    BY <1>8, <2>1, <2>2, <2>3 DEF Receive, TypeOK, envVars, dialVars, statVars
<1>9. ASSUME NEW u \in Updates, Finalize(u) PROVE TypeOK'
  <2>1. lastBlockNum' \in 0..MaxHeight
    BY <1>9, StatusRange DEF Finalize
  <2>2. blocksResults' \in [1..Window -> Undecided..StatusProposedEmpty]
    BY <1>9, ShiftedType DEF Finalize
  <2>3. stats' \in [Counters -> Nat]
    BY <1>9, CountedType DEF Finalize, TypeOK
  <2>4. signState' \in Undecided..StatusProposedEmpty
    BY <1>9 DEF Finalize, TypeOK, Undecided, StatusProposedEmpty
  <2>5. processing' \subseteq Updates
    BY <1>9 DEF Finalize, TypeOK
  <2>6. crashed' \in BOOLEAN
    BY <1>9 DEF Finalize, TypeOK
  <2>7. processed' \in Nat /\ fresh' \in BOOLEAN
    <3>1. processed' = processed + 1 /\ fresh' = FALSE
      BY <1>9 DEF Finalize
    <3>2. processed \in Nat
      BY DEF TypeOK
    <3>3. processed + 1 \in Nat
      BY <3>2
    <3>4. QED
      BY <3>1, <3>3
  <2>8. bondedThen' \in BOOLEAN
    BY <1>9, Zenon DEF Finalize, TypeOK
  <2>9. QED
    BY <1>9, <2>1, <2>2, <2>3, <2>4, <2>5, <2>6, <2>7, <2>8
       DEF Finalize, TypeOK, envVars, dialVars
<1>10. CASE UNCHANGED vars
  BY <1>10 DEF vars, envVars, dialVars, statVars, TypeOK
<1>11. QED
  BY <1>1, <1>2, <1>3, <1>4, <1>5, <1>6, <1>7, <1>8, <1>9, <1>10
     DEF Next, ChainStep, ProcessorStep

\* Every variable of a session keeps its type, for every number of blocks and every
\* length of the window.
THEOREM StreamTypeCorrect == Spec => []TypeOK
<1>1. Init => TypeOK
  <2>1. /\ 1 \in 1..(MaxHeight + 1) /\ 0 \in 0..MaxHeight
        /\ Undecided \in Undecided..StatusProposedEmpty
        /\ 0 \in 0..MaxSessions
        /\ Restored \subseteq [1..Window -> Undecided..StatusProposedEmpty]
    BY StreamAssumption DEF Undecided, StatusProposedEmpty
  <2>2. << >> \in Seq(Updates) /\ 0 \in 0..Len(<< >>)
    OBVIOUS
  <2>3. [k \in Counters |-> 0] \in [Counters -> Nat]
    OBVIOUS
  <2>4. Init => blocksResults \in [1..Window -> Undecided..StatusProposedEmpty]
    BY <2>1 DEF Init
  <2>5. Init => stats \in [Counters -> Nat] /\ log \in Seq(Updates) /\ pos \in 0..Len(log)
    BY <2>2, <2>3 DEF Init
  <2>6. 0 \in Nat
    OBVIOUS
  <2>7. QED
    BY <2>1, <2>4, <2>5, <2>6, Zenon DEF Init, TypeOK
<1>2. QED
  BY <1>1, TypeStep, PTL DEF Spec

-----------------------------------------------------------------------------
(* The index into missTypes *)

\* Undecided work by a validator that was bonded when it began is impossible, and what
\* fails to be indexed is undecided work by a validator that is bonded now.
RaceInv ==
    /\ processing # {} /\ bondedThen => signState # Undecided
    /\ crashed => ~bondedThen /\ bonded

\* The race invariant is inductive.
LEMMA RaceStep == TypeOK /\ RaceInv /\ [Next]_vars => RaceInv'
<1> SUFFICES ASSUME TypeOK, RaceInv, [Next]_vars PROVE RaceInv'
  OBVIOUS
<1>1. ASSUME NEW s \in VoteStatuses, CastVote(s) PROVE RaceInv'
  BY <1>1 DEF CastVote, RaceInv, statVars
<1>2. ASSUME NEW s \in BlockStatuses, CommitBlock(s) PROVE RaceInv'
  BY <1>2 DEF CommitBlock, RaceInv, statVars
<1>3. CASE RefreshBonded
  BY <1>3 DEF RefreshBonded, RaceInv, statVars
<1>4. CASE Connect \/ ConnectFails
  BY <1>4 DEF Connect, ConnectFails, RaceInv, statVars
<1>5. CASE Disconnect
  BY <1>5 DEF Disconnect, RaceInv, statVars
<1>6. CASE Route \/ VoteNotSeen
  BY <1>6 DEF Route, VoteNotSeen, RaceInv, statVars
<1>7. ASSUME NEW u \in Updates, Receive(u) PROVE RaceInv'
  <2>1. u.status # Undecided /\ u.status > Undecided
    BY StatusRange DEF Undecided, StatusProposedEmpty
  <2>2. bonded => signState' # Undecided
    BY <1>7, <2>1 DEF Receive, TypeOK, Undecided, StatusProposedEmpty
  <2>3. (bondedThen' => bonded) /\ ~crashed'
    BY <1>7 DEF Receive, statVars
  <2>4. QED
    BY <2>2, <2>3 DEF RaceInv
<1>8. ASSUME NEW u \in Updates, Finalize(u) PROVE RaceInv'
  <2>1. CASE IndexFails
    <3>1. ~bondedThen /\ bonded
      BY <1>8, <2>1 DEF Finalize, RaceInv, IndexFails
    <3>2. QED
      BY <1>8, <2>1, <3>1 DEF Finalize, RaceInv
  <2>2. CASE ~IndexFails
    BY <1>8, <2>2 DEF Finalize, RaceInv
  <2>3. QED
    BY <2>1, <2>2
<1>9. CASE UNCHANGED vars
  BY <1>9 DEF vars, statVars, RaceInv
<1>10. QED
  BY <1>1, <1>2, <1>3, <1>4, <1>5, <1>6, <1>7, <1>8, <1>9 DEF Next, ChainStep, ProcessorStep

\* The result processor crashes only if the validator becomes bonded between its two looks
\* at Bonded on one block, in whatever order votes, blocks and sessions come.
THEOREM CrashTheorem == Spec => []CrashTakesBonding
<1>1. Init => RaceInv
  BY DEF Init, RaceInv
<1>2. RaceInv => CrashTakesBonding
  BY DEF RaceInv, CrashTakesBonding
<1>3. QED
  BY <1>1, <1>2, RaceStep, StreamTypeCorrect, PTL DEF Spec

-----------------------------------------------------------------------------
(* The counters *)

\* Counting a block keeps the order of the counters.
LEMMA CountedOrdered ==
    ASSUME TypeOK, StatsOrdered, stats' = Counted(signState)
    PROVE  StatsOrdered'
<1> DEFINE s == signState
<1>1. s \in Undecided..StatusProposedEmpty /\ stats \in [Counters -> Nat]
  BY DEF TypeOK
<1>2. \A k \in Counters : stats[k] \in Nat
  BY <1>1
<1>3. \A k \in Counters :
         stats'[k] = IF k \in Increments(s) THEN stats[k] + 1
                     ELSE IF k \in Resets(s) THEN 0 ELSE stats[k]
  BY DEF Counted
<1>4. Counters = {"signs", "props", "miss", "prevoteMiss", "precommitMiss",
                  "consecutiveMiss", "propsEmpty", "consecutiveEmpty"}
  BY DEF Counters
<1> USE DEF StatsOrdered, Undecided, Statusmissed, StatusPrevote, StatusPrecommit,
            StatusSigned, StatusProposed, StatusProposedEmpty, Preactions
<1>5. CASE s = Undecided
  BY <1>2, <1>3, <1>4, <1>5 DEF Increments, Resets
<1>6. CASE s = Statusmissed
  BY <1>2, <1>3, <1>4, <1>6 DEF Increments, Resets
<1>7. CASE s = StatusPrevote
  BY <1>2, <1>3, <1>4, <1>7 DEF Increments, Resets, PreactionRun
<1>8. CASE s = StatusPrecommit
  BY <1>2, <1>3, <1>4, <1>8 DEF Increments, Resets, PreactionRun
<1>9. CASE s = StatusSigned
  BY <1>2, <1>3, <1>4, <1>9 DEF Increments, Resets
<1>10. CASE s = StatusProposed
  BY <1>2, <1>3, <1>4, <1>10 DEF Increments, Resets
<1>11. CASE s = StatusProposedEmpty
  BY <1>2, <1>3, <1>4, <1>11 DEF Increments, Resets
<1>12. QED
  BY <1>1, <1>5, <1>6, <1>7, <1>8, <1>9, <1>10, <1>11

\* Only a finished block is counted.
LEMMA StatsStep == [Next]_vars => UNCHANGED stats \/ stats' = Counted(signState)
<1> SUFFICES ASSUME [Next]_vars PROVE UNCHANGED stats \/ stats' = Counted(signState)
  OBVIOUS
<1>1. CASE ChainStep
  BY <1>1 DEF ChainStep, CastVote, CommitBlock, RefreshBonded, statVars
<1>2. CASE Connect \/ ConnectFails \/ Disconnect \/ Route \/ VoteNotSeen
  BY <1>2 DEF Connect, ConnectFails, Disconnect, Route, VoteNotSeen, statVars
<1>3. CASE ProcessorStep
  BY <1>3 DEF ProcessorStep, Receive, Finalize, statVars
<1>4. CASE UNCHANGED vars
  BY <1>4 DEF vars, statVars
<1>5. QED
  BY <1>1, <1>2, <1>3, <1>4 DEF Next

\* The counters nest after any number of blocks, sessions and reorderings: no run of
\* misses is longer than the misses, no empty proposals outnumber the proposals.
THEOREM StatsOrderedTheorem == Spec => []StatsOrdered
<1>1. Init => StatsOrdered
  BY DEF Init, StatsOrdered, Counters
<1>2. TypeOK /\ StatsOrdered /\ [Next]_vars => StatsOrdered'
  <2> SUFFICES ASSUME TypeOK, StatsOrdered, [Next]_vars PROVE StatsOrdered'
    OBVIOUS
  <2>1. CASE UNCHANGED stats
    BY <2>1 DEF StatsOrdered
  <2>2. CASE stats' = Counted(signState)
    BY <2>2, CountedOrdered
  <2>3. QED
    BY <2>1, <2>2, StatsStep
<1>3. QED
  BY <1>1, <1>2, StreamTypeCorrect, PTL DEF Spec

\* Nothing but finishing a block touches the counters, the window or its length.
LEMMA WindowStep ==
    ASSUME [Next]_vars, ~\E u \in Updates : Finalize(u)
    PROVE  UNCHANGED <<stats, blocksResults, lastBlockNum, processed, crashed, excludePreactions>>
<1>1. CASE ChainStep
  BY <1>1 DEF ChainStep, CastVote, CommitBlock, RefreshBonded, statVars, envVars
<1>2. CASE Connect \/ ConnectFails \/ Disconnect \/ Route \/ VoteNotSeen
  BY <1>2 DEF Connect, ConnectFails, Disconnect, Route, VoteNotSeen, statVars, envVars
<1>3. CASE ProcessorStep
  BY <1>3 DEF ProcessorStep, Receive, statVars, envVars
<1>4. CASE UNCHANGED vars
  BY <1>4 DEF vars, statVars, envVars
<1>5. QED
  BY <1>1, <1>2, <1>3, <1>4 DEF Next

-----------------------------------------------------------------------------
(* A session counts its blocks in order *)

\* The blocks of the chain, in the order of their heights, below the one being decided.
LogInv ==
    \A i \in 1..Len(log) : log[i].final =>
        /\ log[i].height < height
        /\ \A j \in 1..(i - 1) : log[j].final => log[j].height < log[i].height

\* Without a session nothing is under way.
IdleInv == ~connected => held = {} /\ processing = {} /\ fresh

\* What the session has counted, works on, holds and has not read yet follow each other.
CountedInv == ~fresh => lastBlockNum < height

ProcessingInv ==
    /\ \A u, v \in processing : u = v
    /\ \A u \in processing :
        /\ u.height < height
        /\ ~fresh /\ ~crashed => lastBlockNum < u.height
        /\ ~fresh => lastBlockNum <= u.height

HeldInv ==
    /\ \A u \in held : u.final =>
          /\ u.height < height
          /\ ~fresh => lastBlockNum < u.height
          /\ \A v \in processing : v.height < u.height
    /\ \A u, v \in held : u.final /\ v.final => u = v

UnreadInv ==
    \A i \in 1..Len(log) : log[i].final /\ i > pos /\ connected =>
        /\ ~fresh => lastBlockNum < log[i].height
        /\ \A v \in processing : v.height < log[i].height
        /\ \A v \in held : v.final => v.height < log[i].height

OrderInv == LogInv /\ IdleInv /\ CountedInv /\ ProcessingInv /\ HeldInv /\ UnreadInv

\* Heights are integers.
LEMMA HeightTypes ==
    ASSUME TypeOK
    PROVE  /\ height \in Int /\ lastBlockNum \in Int /\ pos \in Int /\ Len(log) \in Nat
           /\ \A u \in held \cup processing : u.height \in Int
           /\ \A i \in 1..Len(log) : log[i] \in Updates /\ log[i].height \in Int
<1>1. log \in Seq(Updates) /\ Len(log) \in Nat
  BY DEF TypeOK
<1>2. \A i \in 1..Len(log) : log[i] \in Updates
  BY <1>1, ElementOfSeq
<1>3. QED
  BY <1>1, <1>2, StatusRange, StreamAssumption DEF TypeOK

\* A new event keeps the order, given that it is not about a block, or about the one at
\* the current height.
LEMMA AppendKeepsOrder ==
    ASSUME TypeOK, TypeOK', OrderInv, NEW e \in Updates, log' = Append(log, e),
           e.final => e.height = height /\ height < height',
           height <= height',
           UNCHANGED <<pos, connected, fresh, held, processing, lastBlockNum, crashed>>
    PROVE  OrderInv'
<1>1. /\ height \in Int /\ height' \in Int /\ lastBlockNum \in Int /\ Len(log) \in Nat
      /\ \A u \in held \cup processing : u.height \in Int
      /\ \A i \in 1..Len(log) : log[i].height \in Int
  BY HeightTypes, StreamAssumption DEF TypeOK
<1>2. IdleInv' /\ CountedInv' /\ ProcessingInv' /\ HeldInv'
  BY <1>1 DEF OrderInv, IdleInv, CountedInv, ProcessingInv, HeldInv
<1>3. /\ Len(log') = Len(log) + 1 /\ log'[Len(log) + 1] = e
      /\ \A i \in 1..Len(log) : log'[i] = log[i]
  BY <1>1 DEF TypeOK
<1>4. ASSUME NEW i \in 1..Len(log'), log'[i].final
      PROVE  /\ log'[i].height < height'
             /\ \A j \in 1..(i - 1) : log'[j].final => log'[j].height < log'[i].height
  <2>1. CASE i \in 1..Len(log)
    <3>1. log'[i] = log[i] /\ \A j \in 1..(i - 1) : log'[j] = log[j]
      BY <1>1, <1>3, <2>1
    <3>2. QED
      BY <1>1, <1>4, <2>1, <3>1 DEF OrderInv, LogInv
  <2>2. CASE i = Len(log) + 1
    BY <1>1, <1>3, <1>4, <2>2 DEF OrderInv, LogInv
  <2>3. QED
    BY <1>1, <1>3, <2>1, <2>2
<1>5. ASSUME NEW i \in 1..Len(log'), log'[i].final, i > pos, connected
      PROVE  /\ ~fresh => lastBlockNum < log'[i].height
             /\ \A v \in processing : v.height < log'[i].height
             /\ \A v \in held : v.final => v.height < log'[i].height
  <2>1. CASE i \in 1..Len(log)
    BY <1>3, <1>5, <2>1 DEF OrderInv, UnreadInv
  <2>2. CASE i = Len(log) + 1
    BY <1>3, <1>5, <2>2 DEF OrderInv, CountedInv, ProcessingInv, HeldInv
  <2>3. QED
    BY <1>1, <1>3, <2>1, <2>2
<1>6. LogInv'
  BY <1>4 DEF LogInv
<1>7. UnreadInv'
  BY <1>5 DEF UnreadInv
<1>8. QED
  BY <1>2, <1>6, <1>7 DEF OrderInv

\* The order is inductive.
LEMMA OrderStep == TypeOK /\ TypeOK' /\ OrderInv /\ [Next]_vars => OrderInv'
<1> SUFFICES ASSUME TypeOK, TypeOK', OrderInv, [Next]_vars PROVE OrderInv'
  OBVIOUS
<1>0. /\ height \in Int /\ lastBlockNum \in Int /\ pos \in Int /\ Len(log) \in Nat
      /\ \A u \in held \cup processing : u.height \in Int
      /\ \A i \in 1..Len(log) : log[i] \in Updates /\ log[i].height \in Int
  BY HeightTypes
<1>1. ASSUME NEW s \in VoteStatuses, CastVote(s) PROVE OrderInv'
  <2>1. Vote(s) \in Updates /\ Vote(s).final = FALSE
    BY <1>1, UpdateTypes DEF CastVote, Vote
  <2>2. height <= height'
    BY <1>0, <1>1 DEF CastVote
  <2>3. QED
    BY <1>1, <2>1, <2>2, AppendKeepsOrder DEF CastVote, statVars, dialVars
<1>2. ASSUME NEW s \in BlockStatuses, CommitBlock(s) PROVE OrderInv'
  <2> DEFINE e == [height |-> height, status |-> s, final |-> TRUE]
  <2>1. e \in Updates /\ e.height = height
    BY <1>2, UpdateTypes DEF CommitBlock
  <2>2. height < height' /\ height <= height'
    BY <1>0, <1>2 DEF CommitBlock
  <2>3. /\ log' = Append(log, e)
        /\ UNCHANGED <<pos, connected, fresh, held, processing, lastBlockNum, crashed>>
    BY <1>2 DEF CommitBlock, statVars, dialVars
  <2> HIDE DEF e
  <2>4. QED
    BY <2>1, <2>2, <2>3, AppendKeepsOrder
<1>3. CASE RefreshBonded \/ ConnectFails \/ UNCHANGED vars
  <2>1. UNCHANGED <<height, log, pos, connected, fresh, held, processing, lastBlockNum, crashed>>
    BY <1>3 DEF RefreshBonded, ConnectFails, vars, envVars, dialVars, statVars
  <2>2. QED
    BY <2>1 DEF OrderInv, LogInv, IdleInv, CountedInv, ProcessingInv, HeldInv, UnreadInv
<1>4. CASE Connect
  <2>1. UNCHANGED <<height, log, fresh, held, processing, lastBlockNum, crashed>>
    BY <1>4 DEF Connect, envVars, statVars
  <2>2. held = {} /\ processing = {} /\ fresh
    BY <1>4 DEF Connect, OrderInv, IdleInv
  <2>3. QED
    BY <2>1, <2>2 DEF OrderInv, LogInv, IdleInv, CountedInv, ProcessingInv, HeldInv, UnreadInv
<1>5. CASE Disconnect
  <2>1. /\ UNCHANGED <<height, log, processing, lastBlockNum, crashed>>
        /\ held' = {} /\ fresh' /\ ~connected' /\ processing = {}
    BY <1>5 DEF Disconnect, envVars, statVars
  <2>2. QED
    BY <2>1 DEF OrderInv, LogInv, IdleInv, CountedInv, ProcessingInv, HeldInv, UnreadInv
<1>6. CASE Route \/ VoteNotSeen
  <2>1. /\ UNCHANGED <<height, log, connected, fresh, processing, lastBlockNum, crashed>>
        /\ connected /\ pos' = pos + 1 /\ pos + 1 \in 1..Len(log)
    BY <1>6 DEF Route, VoteNotSeen, TypeOK, envVars, statVars
  <2>2. LogInv' /\ IdleInv' /\ CountedInv' /\ ProcessingInv'
    BY <2>1 DEF OrderInv, LogInv, IdleInv, CountedInv, ProcessingInv
  <2>3. CASE VoteNotSeen
    <3>1. UNCHANGED held
      BY <2>3 DEF VoteNotSeen
    <3>2. HeldInv'
      BY <2>1, <3>1 DEF OrderInv, HeldInv
    <3>3. UnreadInv'
      BY <1>0, <2>1, <3>1 DEF OrderInv, UnreadInv
    <3>4. QED
      BY <2>2, <3>2, <3>3 DEF OrderInv
  <2>4. CASE Route
    <3>1. held' = held \cup {log[pos + 1]} /\ Holding(log[pos + 1].final) = {}
      BY <2>4 DEF Route
    <3>2. log[pos + 1].final => \A u \in held : ~u.final
      BY <1>0, <2>1, <3>1, FinalIsBoolean DEF Holding, TypeOK
    <3>3. log[pos + 1].final =>
             /\ log[pos + 1].height < height
             /\ ~fresh => lastBlockNum < log[pos + 1].height
             /\ \A v \in processing : v.height < log[pos + 1].height
      BY <1>0, <2>1 DEF OrderInv, LogInv, UnreadInv
    <3>4. HeldInv'
      BY <2>1, <3>1, <3>2, <3>3 DEF OrderInv, HeldInv
    <3>5. ASSUME NEW i \in 1..Len(log), log[i].final, i > pos + 1
          PROVE  /\ ~fresh => lastBlockNum < log[i].height
                 /\ \A v \in processing : v.height < log[i].height
                 /\ \A v \in held' : v.final => v.height < log[i].height
      <4>1. i > pos /\ pos + 1 \in 1..(i - 1)
        BY <1>0, <2>1, <3>5
      <4>2. log[pos + 1].final => log[pos + 1].height < log[i].height
        BY <3>5, <4>1 DEF OrderInv, LogInv
      <4>3. QED
        BY <2>1, <3>1, <3>5, <4>1, <4>2 DEF OrderInv, UnreadInv
    <3>6. UnreadInv'
      BY <2>1, <3>5 DEF UnreadInv
    <3>7. QED
      BY <2>2, <3>4, <3>6 DEF OrderInv
  <2>5. QED
    BY <1>6, <2>3, <2>4
<1>7. ASSUME NEW u \in Updates, Receive(u) PROVE OrderInv'
  <2>1. /\ UNCHANGED <<height, log, pos, connected, fresh, lastBlockNum, crashed>>
        /\ u \in held /\ processing = {} /\ held' = held \ {u}
        /\ \A v \in processing' : v = u /\ u.final
    BY <1>7 DEF Receive, envVars, statVars, dialVars
  <2>2. connected
    BY <2>1 DEF OrderInv, IdleInv
  <2>3. ProcessingInv'
    BY <1>0, <2>1 DEF OrderInv, HeldInv, ProcessingInv
  <2>4. HeldInv'
    BY <2>1 DEF OrderInv, HeldInv
  <2>5. UnreadInv'
    BY <2>1 DEF OrderInv, UnreadInv
  <2>6. LogInv' /\ IdleInv' /\ CountedInv'
    BY <2>1, <2>2 DEF OrderInv, LogInv, IdleInv, CountedInv
  <2>7. QED
    BY <2>3, <2>4, <2>5, <2>6 DEF OrderInv
<1>8. ASSUME NEW u \in Updates, Finalize(u) PROVE OrderInv'
  <2>1. /\ UNCHANGED <<height, log, pos, connected, held>>
        /\ u \in processing /\ lastBlockNum' = u.height /\ ~crashed /\ ~fresh'
        /\ processing' = {} \/ (processing' = processing /\ crashed')
    <3>1. CASE IndexFails
      BY <1>8, <3>1 DEF Finalize, envVars, dialVars
    <3>2. CASE ~IndexFails
      BY <1>8, <3>2 DEF Finalize, envVars, dialVars
    <3>3. QED
      BY <3>1, <3>2
  <2>2. connected /\ u.height < height
    BY <2>1 DEF OrderInv, IdleInv, ProcessingInv
  <2>3. \A v \in processing : v = u
    BY <2>1 DEF OrderInv, ProcessingInv
  <2>4. ProcessingInv'
    BY <1>0, <2>1, <2>3 DEF OrderInv, ProcessingInv
  <2>5. HeldInv'
    BY <2>1 DEF OrderInv, HeldInv
  <2>6. UnreadInv'
    BY <2>1 DEF OrderInv, UnreadInv
  <2>7. LogInv' /\ IdleInv' /\ CountedInv'
    BY <2>1, <2>2 DEF OrderInv, LogInv, IdleInv, CountedInv
  <2>8. QED
    BY <2>4, <2>5, <2>6, <2>7 DEF OrderInv
<1>9. QED
  BY <1>1, <1>2, <1>3, <1>4, <1>5, <1>6, <1>7, <1>8 DEF Next, ChainStep, ProcessorStep

\* A session counts each of its blocks at most once and in the chain's order, whatever
\* the node it reads from has published before to another session.
THEOREM InOrderTheorem == Spec => CountedInOrder
<1>1. Init => OrderInv
  BY DEF Init, OrderInv, LogInv, IdleInv, CountedInv, ProcessingInv, HeldInv, UnreadInv
<1>2. TypeOK /\ OrderInv /\ [Next]_vars
        => [processed' # processed => fresh \/ lastBlockNum' > lastBlockNum]_vars
  <2> SUFFICES ASSUME TypeOK, OrderInv, [Next]_vars, processed' # processed, ~fresh
               PROVE  lastBlockNum' > lastBlockNum
    OBVIOUS
  <2>1. PICK u \in Updates : Finalize(u)
    BY WindowStep
  <2>2. lastBlockNum < u.height /\ lastBlockNum' = u.height
    BY <2>1 DEF Finalize, OrderInv, ProcessingInv
  <2>3. QED
    BY <2>1, <2>2, HeightTypes, StatusRange
<1>3. QED
  BY <1>1, <1>2, OrderStep, StreamTypeCorrect, PTL DEF Spec, CountedInOrder

-----------------------------------------------------------------------------
(* The counters and the window *)

\* The squares of a window move down by one: as many as before, and the new one.
LEMMA ShiftedSquares ==
    ASSUME NEW A \in SUBSET (1..Window), NEW B, NEW new \in BOOLEAN,
           B = {i + 1 : i \in A} \cup (IF new THEN {1} ELSE {})
    PROVE  Cardinality(B) = Cardinality(A) + (IF new THEN 1 ELSE 0)
<1> DEFINE M == {i + 1 : i \in A}
           f == [i \in A |-> i + 1]
<1>1. \A i \in A : i \in Int /\ i >= 1
  BY StreamAssumption
<1>2. IsFiniteSet(A)
  <2>1. IsFiniteSet(1..Window)
    BY StreamAssumption, FS_Interval
  <2>2. QED
    BY <2>1, FS_Subset
<1>3. f \in Bijection(A, M)
  <2>1. f \in [A -> M] /\ \A i \in A : f[i] = i + 1
    OBVIOUS
  <2>2. \A a, b \in A : a + 1 = b + 1 => a = b
    BY <1>1
  <2>3. \A t \in M : \E i \in A : t = i + 1
    OBVIOUS
  <2> HIDE DEF f, M
  <2>4. f \in Injection(A, M)
    BY <2>1, <2>2 DEF Injection, IsInjective
  <2>5. f \in Surjection(A, M)
    BY <2>1, <2>3 DEF Surjection
  <2>6. QED
    BY <2>4, <2>5 DEF Bijection
<1>4. IsFiniteSet(M) /\ Cardinality(M) = Cardinality(A)
  BY <1>2, <1>3, FS_Bijection DEF ExistsBijection
<1>5. 1 \notin M
  BY <1>1
<1>6. Cardinality(A) \in Nat
  BY <1>2, FS_CardinalityType
<1> HIDE DEF M
<1>7. CASE new
  <2>1. B = M \cup {1}
    BY <1>7 DEF M
  <2>2. QED
    BY <1>4, <1>5, <1>7, <2>1, FS_AddElement
<1>8. CASE ~new
  <2>1. B = M
    BY <1>8 DEF M
  <2>2. QED
    BY <1>4, <1>6, <1>8, <2>1
<1>9. QED
  BY <1>7, <1>8

\* The squares of the shifted window.
LEMMA ShiftedSquare ==
    ASSUME TypeOK
    PROVE  /\ Shifted[1] = signState
           /\ \A i \in 2..Window : Shifted[i] = blocksResults[i - 1]
<1> DEFINE T == Undecided..StatusProposedEmpty
           S == SubSeq(blocksResults, 1, Window - 1)
<1> HIDE DEF T
<1>1. /\ blocksResults \in [1..Window -> T] /\ signState \in T
      /\ Window \in Nat /\ Window >= 1
  BY StreamAssumption DEF TypeOK, T
<1>2. blocksResults \in Seq(T) /\ Len(blocksResults) = Window
  BY <1>1
<1>3. /\ S \in Seq(T) /\ Len(S) = Window - 1
      /\ \A i \in 1..(Window - 1) : S[i] = blocksResults[i]
  BY <1>1, <1>2
<1>4. <<signState>> \in Seq(T) /\ Len(<<signState>>) = 1 /\ <<signState>>[1] = signState
  BY <1>1
<1>5. Shifted = <<signState>> \o S
  BY DEF Shifted
<1> HIDE DEF S
<1>6. Shifted[1] = signState /\ \A i \in 2..Window : Shifted[i] = S[i - 1]
  BY <1>1, <1>3, <1>4, <1>5
<1>7. \A i \in 2..Window : i - 1 \in 1..(Window - 1)
  BY <1>1
<1>8. QED
  BY <1>3, <1>6, <1>7

\* The squares with certain results after a shift, of a window that still has room.
LEMMA ShiftedResults ==
    ASSUME TypeOK, blocksResults' = Shifted, processed < Window, processed' = processed + 1,
           NEW S
    PROVE  /\ Results(S)' = {i + 1 : i \in Results(S)}
                              \cup (IF signState \in S THEN {1} ELSE {})
           /\ Cardinality(Results(S)') = Cardinality(Results(S))
                                           + (IF signState \in S THEN 1 ELSE 0)
<1>1. /\ blocksResults'[1] = signState
      /\ \A i \in 2..Window : blocksResults'[i] = blocksResults[i - 1]
  BY ShiftedSquare
<1>2. Window \in Nat /\ Window >= 1 /\ processed \in Nat
  BY StreamAssumption DEF TypeOK
<1>3. \A i \in Results(S) : i + 1 \in 2..Window /\ (i + 1) - 1 = i
  BY <1>2 DEF Results
<1>4. Results(S)' = {i \in 1..Window : i <= processed + 1 /\ blocksResults'[i] \in S}
  BY DEF Results
<1>5. ASSUME NEW k \in Results(S)'
      PROVE  k \in {i + 1 : i \in Results(S)} \cup (IF signState \in S THEN {1} ELSE {})
  <2>1. CASE k = 1
    BY <1>1, <1>4, <1>5, <2>1
  <2>2. CASE k \in 2..Window
    <3>1. k - 1 \in Results(S) /\ k = (k - 1) + 1
      BY <1>1, <1>2, <1>4, <1>5, <2>2 DEF Results
    <3>2. QED
      BY <3>1
  <2>3. QED
    BY <1>2, <1>4, <1>5, <2>1, <2>2
<1>6. ASSUME NEW k \in {i + 1 : i \in Results(S)} \cup (IF signState \in S THEN {1} ELSE {})
      PROVE  k \in Results(S)'
  <2>1. CASE k \in {i + 1 : i \in Results(S)}
    <3>1. PICK i \in Results(S) : k = i + 1
      BY <2>1
    <3>2. k \in 2..Window /\ k \in 1..Window /\ k - 1 = i
      BY <1>2, <1>3, <3>1
    <3>3. k <= processed + 1 /\ blocksResults'[k] \in S
      BY <1>1, <1>2, <3>1, <3>2 DEF Results
    <3>4. QED
      BY <1>4, <3>2, <3>3
  <2>2. CASE k \in (IF signState \in S THEN {1} ELSE {})
    BY <1>1, <1>2, <1>4, <2>2
  <2>3. QED
    BY <1>6, <2>1, <2>2
<1>7. Results(S)' = {i + 1 : i \in Results(S)} \cup (IF signState \in S THEN {1} ELSE {})
  BY <1>5, <1>6
<1>8. Results(S) \subseteq 1..Window
  BY DEF Results
<1>9. ASSUME NEW new \in BOOLEAN, new = (signState \in S)
      PROVE  Cardinality(Results(S)') = Cardinality(Results(S)) + (IF new THEN 1 ELSE 0)
  BY <1>7, <1>8, <1>9, ShiftedSquares
<1>10. CASE signState \in S
  <2>1. TRUE = (signState \in S)
    BY <1>10
  <2>2. Cardinality(Results(S)') = Cardinality(Results(S)) + 1
    BY <1>9, <2>1
  <2>3. QED
    BY <1>7, <1>10, <2>2
<1>11. CASE signState \notin S
  <2>1. FALSE = (signState \in S)
    BY <1>11
  <2>2. Cardinality(Results(S)') = Cardinality(Results(S)) + 0
    BY <1>9, <2>1
  <2>3. QED
    BY <1>7, <1>11, <2>2
<1>12. QED
  BY <1>10, <1>11

\* A run of misses after a shift: ended, or moved down and, by a miss, extended.
LEMMA ShiftedRun ==
    ASSUME TypeOK, blocksResults' = Shifted, processed < Window, processed' = processed + 1,
           UNCHANGED excludePreactions
    PROVE  Cardinality(CurrentRun') =
               IF EndsRun(signState) THEN 0
               ELSE Cardinality(CurrentRun) + (IF signState \in Misses THEN 1 ELSE 0)
<1>1. /\ blocksResults'[1] = signState
      /\ \A i \in 2..Window : blocksResults'[i] = blocksResults[i - 1]
  BY ShiftedSquare
<1>2. Window \in Nat /\ Window >= 1
  BY StreamAssumption
<1>4. Results(Misses)' = {i + 1 : i \in Results(Misses)}
                           \cup (IF signState \in Misses THEN {1} ELSE {})
  BY ShiftedResults
<1>5. CurrentRun' = {i \in Results(Misses)' : \A j \in 1..i : ~EndsRun(blocksResults'[j])}
  BY DEF CurrentRun, EndsRun
<1>6. /\ Results(Misses) \subseteq 1..Window /\ CurrentRun \subseteq 1..Window
      /\ Results(Misses)' \subseteq 1..Window
  BY DEF Results, CurrentRun
<1>7. CASE EndsRun(signState)
  <2>1. \A i \in Results(Misses)' : 1 \in 1..i
    BY <1>2, <1>6
  <2>2. CurrentRun' = {}
    BY <1>1, <1>5, <1>7, <2>1
  <2>3. QED
    BY <1>7, <2>2, FS_EmptySet
<1>8. CASE ~EndsRun(signState)
  <2>1. ASSUME NEW k \in CurrentRun'
        PROVE  k \in {i + 1 : i \in CurrentRun} \cup (IF signState \in Misses THEN {1} ELSE {})
    <3>1. CASE k \in {i + 1 : i \in Results(Misses)}
      <4>1. PICK i \in Results(Misses) : k = i + 1
        BY <3>1
      <4>2. ASSUME NEW j \in 1..i PROVE ~EndsRun(blocksResults[j])
        <5>1. j + 1 \in 1..k /\ j + 1 \in 2..Window /\ (j + 1) - 1 = j
          BY <1>2, <1>5, <1>6, <2>1, <4>1
        <5>2. ~EndsRun(blocksResults'[j + 1])
          BY <1>5, <2>1, <5>1
        <5>3. QED
          BY <1>1, <5>1, <5>2
      <4>3. i \in CurrentRun
        BY <4>1, <4>2 DEF CurrentRun
      <4>4. QED
        BY <4>1, <4>3
    <3>2. QED
      BY <1>4, <1>5, <2>1, <3>1
  <2>2. ASSUME NEW k \in {i + 1 : i \in CurrentRun} \cup (IF signState \in Misses THEN {1} ELSE {})
        PROVE  k \in CurrentRun'
    <3>1. CASE k \in {i + 1 : i \in CurrentRun}
      <4>1. PICK i \in CurrentRun : k = i + 1
        BY <3>1
      <4>2. i \in Results(Misses) /\ \A j \in 1..i : ~EndsRun(blocksResults[j])
        BY <4>1 DEF CurrentRun
      <4>3. k \in Results(Misses)'
        BY <1>4, <4>1, <4>2
      <4>4. ASSUME NEW j \in 1..k PROVE ~EndsRun(blocksResults'[j])
        <5>1. CASE j = 1
          BY <1>1, <1>8, <5>1
        <5>2. CASE j # 1
          <6>1. j \in 2..Window /\ j - 1 \in 1..i
            BY <1>2, <1>6, <4>1, <4>3, <4>4, <5>2
          <6>2. QED
            BY <1>1, <4>2, <6>1
        <5>3. QED
          BY <5>1, <5>2
      <4>5. QED
        BY <1>5, <4>3, <4>4
    <3>2. CASE k = 1 /\ signState \in Misses
      <4>1. k \in Results(Misses)' /\ \A j \in 1..k : j = 1
        BY <1>4, <3>2
      <4>2. QED
        BY <1>1, <1>5, <1>8, <4>1
    <3>3. QED
      BY <2>2, <3>1, <3>2
  <2>3. CurrentRun' = {i + 1 : i \in CurrentRun} \cup (IF signState \in Misses THEN {1} ELSE {})
    BY <2>1, <2>2
  <2>4. CASE signState \in Misses
    <3>1. CurrentRun' = {i + 1 : i \in CurrentRun} \cup (IF TRUE THEN {1} ELSE {})
      BY <2>3, <2>4
    <3>2. Cardinality(CurrentRun') = Cardinality(CurrentRun) + (IF TRUE THEN 1 ELSE 0)
      BY <1>6, <3>1, ShiftedSquares
    <3>3. QED
      BY <1>8, <2>4, <3>2
  <2>5. CASE signState \notin Misses
    <3>1. CurrentRun' = {i + 1 : i \in CurrentRun} \cup (IF FALSE THEN {1} ELSE {})
      BY <2>3, <2>5
    <3>2. Cardinality(CurrentRun') = Cardinality(CurrentRun) + (IF FALSE THEN 1 ELSE 0)
      BY <1>6, <3>1, ShiftedSquares
    <3>3. QED
      BY <1>8, <2>5, <3>2
  <2>6. QED
    BY <2>4, <2>5
<1>9. QED
  BY <1>7, <1>8

\* What a block does to the counters that the window shows.
LEMMA CountedEffect ==
    ASSUME TypeOK
    PROVE  LET s == signState IN
           /\ Counted(s)["miss"] = stats["miss"] + (IF s \in Misses THEN 1 ELSE 0)
           /\ Counted(s)["signs"] =
                 stats["signs"] + (IF s \in StatusSigned..StatusProposedEmpty THEN 1 ELSE 0)
           /\ Counted(s)["props"] =
                 stats["props"] + (IF s \in {StatusProposed, StatusProposedEmpty} THEN 1 ELSE 0)
           /\ Counted(s)["consecutiveMiss"] =
                 IF EndsRun(s) THEN 0
                 ELSE stats["consecutiveMiss"] + (IF s \in Misses THEN 1 ELSE 0)
<1> DEFINE s == signState
<1>1. s \in Undecided..StatusProposedEmpty /\ stats \in [Counters -> Nat]
  BY DEF TypeOK
<1>2. \A k \in Counters : stats[k] \in Nat
  BY <1>1
<1>3. \A k \in Counters :
         Counted(s)[k] = IF k \in Increments(s) THEN stats[k] + 1
                         ELSE IF k \in Resets(s) THEN 0 ELSE stats[k]
  BY DEF Counted
<1>4. {"miss", "signs", "props", "consecutiveMiss"} \subseteq Counters
  BY DEF Counters
<1> USE DEF EndsRun, Misses, Undecided, Statusmissed, StatusPrevote, StatusPrecommit,
            StatusSigned, StatusProposed, StatusProposedEmpty, Preactions
<1>5. CASE s = Undecided
  BY <1>2, <1>3, <1>4, <1>5 DEF Increments, Resets
<1>6. CASE s = Statusmissed
  BY <1>2, <1>3, <1>4, <1>6 DEF Increments, Resets
<1>7. CASE s = StatusPrevote
  BY <1>2, <1>3, <1>4, <1>7 DEF Increments, Resets, PreactionRun
<1>8. CASE s = StatusPrecommit
  BY <1>2, <1>3, <1>4, <1>8 DEF Increments, Resets, PreactionRun
<1>9. CASE s = StatusSigned
  BY <1>2, <1>3, <1>4, <1>9 DEF Increments, Resets
<1>10. CASE s = StatusProposed
  BY <1>2, <1>3, <1>4, <1>10 DEF Increments, Resets
<1>11. CASE s = StatusProposedEmpty
  BY <1>2, <1>3, <1>4, <1>11 DEF Increments, Resets
<1>12. QED
  BY <1>1, <1>5, <1>6, <1>7, <1>8, <1>9, <1>10, <1>11

\* Finishing a block moves the counters and the window together.
LEMMA FinalizeMatches ==
    ASSUME TypeOK, CountersMatchWindow, NEW u \in Updates, Finalize(u)
    PROVE  CountersMatchWindow'
<1>1. /\ processed \in Nat /\ processed' = processed + 1
      /\ Window \in Nat /\ Window >= 1 /\ ~crashed
  BY StreamAssumption DEF Finalize, TypeOK
<1>2. blocksResults' = Shifted /\ UNCHANGED excludePreactions
  BY DEF Finalize, envVars
<1>3. ASSUME processed' <= Window, ~crashed' PROVE CountersMatchWindow'
  <2>1. stats' = Counted(signState)
    BY <1>3 DEF Finalize
  <2>2. processed < Window
    BY <1>1, <1>3
  <2>3. /\ stats["miss"] = Cardinality(Results(Misses))
        /\ stats["signs"] = Cardinality(Results(StatusSigned..StatusProposedEmpty))
        /\ stats["props"] = Cardinality(Results({StatusProposed, StatusProposedEmpty}))
        /\ stats["consecutiveMiss"] = Cardinality(CurrentRun)
    BY <1>1, <1>3 DEF CountersMatchWindow
  <2>4. stats'["miss"] = Cardinality(Results(Misses)')
    BY <1>1, <1>2, <2>1, <2>2, <2>3, ShiftedResults, CountedEffect
  <2>5. stats'["signs"] = Cardinality(Results(StatusSigned..StatusProposedEmpty)')
    BY <1>1, <1>2, <2>1, <2>2, <2>3, ShiftedResults, CountedEffect
  <2>6. stats'["props"] = Cardinality(Results({StatusProposed, StatusProposedEmpty})')
    BY <1>1, <1>2, <2>1, <2>2, <2>3, ShiftedResults, CountedEffect
  <2>7. stats'["consecutiveMiss"] = Cardinality(CurrentRun')
    BY <1>1, <1>2, <2>1, <2>2, <2>3, ShiftedRun, CountedEffect
  <2>8. QED
    BY <2>4, <2>5, <2>6, <2>7 DEF CountersMatchWindow
<1>4. QED
  BY <1>3 DEF CountersMatchWindow

\* The counters the alerts read are those one gets by counting the squares the dashboard
\* draws for the blocks since the start, run of misses included, for every chain, every
\* restored window and every length of it: after any votes, blocks, changes of bonding,
\* lost sessions and heights that come again, until a block has left the window.
THEOREM WindowTheorem == Spec => []CountersMatchWindow
<1>1. Init => CountersMatchWindow
  <2> SUFFICES ASSUME Init PROVE CountersMatchWindow
    OBVIOUS
  <2>1. \A S : Results(S) = {}
    BY StreamAssumption DEF Init, Results
  <2>2. CurrentRun = {}
    BY <2>1 DEF CurrentRun
  <2>3. \A k \in {"miss", "signs", "props", "consecutiveMiss"} : stats[k] = 0
    BY DEF Init, Counters
  <2>4. QED
    BY <2>1, <2>2, <2>3, FS_EmptySet DEF CountersMatchWindow
<1>2. TypeOK /\ CountersMatchWindow /\ [Next]_vars => CountersMatchWindow'
  <2> SUFFICES ASSUME TypeOK, CountersMatchWindow, [Next]_vars PROVE CountersMatchWindow'
    OBVIOUS
  <2>1. CASE \E u \in Updates : Finalize(u)
    BY <2>1, FinalizeMatches
  <2>2. CASE ~\E u \in Updates : Finalize(u)
    <3>1. UNCHANGED <<stats, blocksResults, processed, crashed, excludePreactions>>
      BY <2>2, WindowStep
    <3>2. QED
      BY <3>1 DEF CountersMatchWindow, Results, CurrentRun, EndsRun
  <2>3. QED
    BY <2>1, <2>2
<1>3. QED
  BY <1>1, <1>2, StreamTypeCorrect, PTL DEF Spec
=============================================================================
