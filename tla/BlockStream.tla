----------------------------- MODULE BlockStream -----------------------------
(***************************************************************************)
(* One chain's websocket session (WsRun): the reader routes NewBlock and    *)
(* Vote events to handleBlocks and handleVotes over unbuffered channels,    *)
(* both send status updates over one unbuffered resultChan, and the result  *)
(* processor decides for every block whether the validator signed it and    *)
(* keeps the counters that the alerts, the dashboard and prometheus use.    *)
(*                                                                          *)
(* An unbuffered send is the step of the receiver; a sender that waits for  *)
(* one holds its value, so every reordering the goroutines allow happens.   *)
(***************************************************************************)
EXTENDS Integers, Sequences, FiniteSets

CONSTANTS
    MaxHeight,    \* bound: last height the chain reaches
    MaxEvents,    \* bound: votes of the validator and blocks
    MaxSessions,  \* bound: sessions
    Window,       \* length of blocksResults (512 in the code)
    Restored      \* the windows a start may find: the state file's, or one without results

\* StatusType, and what signState holds before any of them
Undecided == -1
Statusmissed == 0
StatusPrevote == 1
StatusPrecommit == 2
StatusSigned == 3
StatusProposed == 4
StatusProposedEmpty == 5

ASSUME StreamAssumption ==
    /\ MaxHeight \in Nat /\ MaxEvents \in Nat /\ MaxSessions \in Nat
    /\ Window \in Nat \ {0}
    /\ Restored \subseteq [1..Window -> Undecided..StatusProposedEmpty]

Preactions == {StatusPrevote, StatusPrecommit}
\* What handleVotes makes of a vote's type: an unknown one leaves the status zero.
VoteStatuses == Preactions \cup {StatusProposed, Statusmissed}
BlockStatuses == {Statusmissed, StatusSigned, StatusProposed, StatusProposedEmpty}
Heights == 1..MaxHeight
Updates == [height : Heights, status : VoteStatuses, final : {FALSE}]
             \cup [height : Heights, status : BlockStatuses, final : {TRUE}]

VARIABLES
    excludePreactions,  \* consecutive_missed_exclude_preactions, never changes
    height,      \* the height the chain is deciding
    log,         \* the validator's votes and the blocks so far, in the chain's order
    pos,         \* how much of the log the session's node has published
    connected,   \* WsRun is past its connection phase
    wsclient,    \* cc.wsclient is not nil
    noWsNodes,   \* cc.noWsNodes
    sessions,    \* sessions so far, counted for the bound
    held,        \* updates waiting in handleVotes and handleBlocks, at most one
                 \* each, keyed by whether the update is final
    signState,   \* the processor's local signState
    processing,  \* the final update the processor is working on, if any
    bonded,      \* cc.valInfo.Bonded
    stats,       \* the cc.stat... counters
    blocksResults,
    lastBlockNum,
    bondedThen,  \* history: Bonded when the processor took up the block it works on
    processed,   \* history: blocks processed since the process started
    fresh,       \* history: the session has not processed a block yet
    crashed      \* missTypes was indexed with -1: the process is gone

envVars == <<excludePreactions, height, log>>
dialVars == <<pos, connected, wsclient, noWsNodes, sessions>>
statVars == <<stats, blocksResults, lastBlockNum, processed, crashed>>
vars == <<envVars, dialVars, statVars, held, signState, processing, bonded, bondedThen, fresh>>

Counters == {"signs", "props", "miss", "prevoteMiss", "precommitMiss",
             "consecutiveMiss", "propsEmpty", "consecutiveEmpty"}

-----------------------------------------------------------------------------
(* The chain *)

Vote(s) == [height |-> height, status |-> s, final |-> FALSE]
Precommitted(h) ==
    \E i \in DOMAIN log : log[i].height = h /\ log[i].status = StatusPrecommit

\* The validator votes, in as many rounds as the height takes, or not at all.
CastVote(s) ==
    /\ height <= MaxHeight /\ Len(log) < MaxEvents
    /\ log' = Append(log, Vote(s))
    /\ UNCHANGED <<excludePreactions, height, dialVars, statVars, held, signState, processing,
                   bonded, bondedThen, fresh>>

\* A block is committed; handleBlocks will find the validator as its proposer,
\* among the signatures of its last_commit, or not at all. The last commit holds
\* precommits of the height before, and not necessarily all of them.
CommitBlock(s) ==
    /\ height <= MaxHeight /\ Len(log) < MaxEvents
    /\ s = StatusSigned => height = 1 \/ Precommitted(height - 1)
    /\ log' = Append(log, [height |-> height, status |-> s, final |-> TRUE])
    /\ height' = height + 1
    /\ UNCHANGED <<excludePreactions, dialVars, statVars, held, signState, processing,
                   bonded, bondedThen, fresh>>

\* GetValInfo of monitorHealth writes valInfo.Bonded in place, unsynchronised.
RefreshBonded ==
    /\ ~crashed
    /\ bonded' = ~bonded
    /\ UNCHANGED <<envVars, dialVars, statVars, held, signState, processing, bondedThen, fresh>>

-----------------------------------------------------------------------------
(* The session *)

Holding(final) == {u \in held : u.final = final}

\* WsRun tries every candidate URL. The node that answers is anywhere on the chain: it
\* may be behind the last session's node and publish again what that one has published.
\* Without a connection WsRun looks at cc.wsclient, which may be the closed client of
\* an earlier session: then it carries on, and its reader fails at once.
Connect ==
    /\ ~connected /\ sessions < MaxSessions
    /\ sessions' = sessions + 1
    /\ pos' \in 0..Len(log)
    /\ connected' = TRUE /\ wsclient' = TRUE
    /\ noWsNodes' = FALSE
    /\ UNCHANGED <<envVars, statVars, held, signState, processing, bonded, bondedThen, fresh>>

ConnectFails ==
    /\ ~connected
    /\ noWsNodes' = ~wsclient
    /\ UNCHANGED <<pos, connected, wsclient, sessions, envVars, statVars, held, signState,
                   processing, bonded, bondedThen, fresh>>

\* A read error, the idle timeout of handleBlocks or the client's Quit cancels
\* the session. Its goroutines and what they hold are gone; the client stays. The
\* pause before the next session outlasts the work on a block.
Disconnect ==
    /\ connected /\ processing = {}
    /\ connected' = FALSE /\ pos' = Len(log)
    /\ held' = {} /\ signState' = Undecided
    /\ fresh' = TRUE
    /\ UNCHANGED <<wsclient, noWsNodes, sessions, envVars, statVars, processing, bonded,
                   bondedThen>>

\* Mutated: the reader does not wait for the handler.
RouteMutant ==
    /\ connected /\ pos < Len(log)
    /\ held' = held \cup {log[pos + 1]}
    /\ pos' = pos + 1
    /\ UNCHANGED <<connected, wsclient, noWsNodes, sessions, envVars, statVars, signState,
                   processing, bonded, bondedThen, fresh>>

\* The reader hands the next event to its handler, once that one is free.
Route ==
    /\ connected /\ pos < Len(log) /\ Holding(log[pos + 1].final) = {}
    /\ held' = held \cup {log[pos + 1]}
    /\ pos' = pos + 1
    /\ UNCHANGED <<connected, wsclient, noWsNodes, sessions, envVars, statVars, signState,
                   processing, bonded, bondedThen, fresh>>

\* The node has not seen a vote, as one that is catching up sees none.
VoteNotSeen ==
    /\ connected /\ pos < Len(log) /\ ~log[pos + 1].final
    /\ pos' = pos + 1
    /\ UNCHANGED <<connected, wsclient, noWsNodes, sessions, envVars, statVars, held, signState,
                   processing, bonded, bondedThen, fresh>>

-----------------------------------------------------------------------------
(* The result processor *)

\* Mutated: updates are not taken while the validator is not bonded.
ReceiveMutant(u) ==
    /\ ~crashed
    /\ u \in held /\ processing = {} /\ bonded
    /\ held' = held \ {u}
    /\ signState' = IF u.status > signState THEN u.status ELSE signState
    /\ processing' = {v \in {u} : v.final}
    /\ bondedThen' = (u.final /\ bonded)
    /\ UNCHANGED <<envVars, dialVars, statVars, bonded, fresh>>

\* It receives an update from either handler and keeps the highest status.
Receive(u) ==
    /\ ~crashed
    /\ u \in held /\ processing = {}
    /\ held' = held \ {u}
    /\ signState' = IF u.status > signState /\ bonded THEN u.status ELSE signState
    /\ processing' = {v \in {u} : v.final}
    /\ bondedThen' = (u.final /\ bonded)
    /\ UNCHANGED <<envVars, dialVars, statVars, bonded, fresh>>

\* Misses with a preaction extend the run of misses, unless they are excluded.
PreactionRun == IF excludePreactions THEN {} ELSE {"consecutiveMiss"}

\* Mutated: a miss with a preaction is not counted among all misses.
IncrementsNoMiss(s) ==
    CASE s = Statusmissed -> {"miss", "consecutiveMiss"}
      [] s = StatusPrecommit -> {"precommitMiss"} \cup PreactionRun
      [] s = StatusPrevote -> {"prevoteMiss"} \cup PreactionRun
      [] s = StatusSigned -> {"signs"}
      [] s = StatusProposed -> {"props", "signs"}
      [] s = StatusProposedEmpty -> {"propsEmpty", "props", "signs", "consecutiveEmpty"}
      [] OTHER -> {}

\* The counters a decided block moves.
Increments(s) ==
    CASE s = Statusmissed -> {"miss", "consecutiveMiss"}
      [] s = StatusPrecommit -> {"precommitMiss", "miss"} \cup PreactionRun
      [] s = StatusPrevote -> {"prevoteMiss", "miss"} \cup PreactionRun
      [] s = StatusSigned -> {"signs"}
      [] s = StatusProposed -> {"props", "signs"}
      [] s = StatusProposedEmpty -> {"propsEmpty", "props", "signs", "consecutiveEmpty"}
      [] OTHER -> {}

\* Mutated: only a proposal ends a run of misses.
ResetsLate(s) ==
    CASE s \in Preactions -> IF excludePreactions THEN {"consecutiveMiss"} ELSE {}
      [] s = StatusProposed -> {"consecutiveMiss", "consecutiveEmpty"}
      [] OTHER -> {}

Resets(s) ==
    CASE s \in Preactions -> IF excludePreactions THEN {"consecutiveMiss"} ELSE {}
      [] s \in {StatusSigned, StatusProposedEmpty} -> {"consecutiveMiss"}
      [] s = StatusProposed -> {"consecutiveMiss", "consecutiveEmpty"}
      [] OTHER -> {}

Counted(s) ==
    [k \in Counters |-> IF k \in Increments(s) THEN stats[k] + 1
                        ELSE IF k \in Resets(s) THEN 0 ELSE stats[k]]

\* Mutated: the oldest result is not dropped.
ShiftedMutant == <<signState>> \o blocksResults

\* The window of results with the newest in front.
Shifted == <<signState>> \o SubSeq(blocksResults, 1, Window - 1)

\* Mutated: the warning does not look at Bonded.
IndexFailsMutant == signState = Undecided

\* The second look at Bonded guards an index into missTypes, which signState only
\* fits if it has been decided.
IndexFails == bonded /\ signState = Undecided

\* The rest of the work on a final update.
Finalize(u) ==
    /\ ~crashed
    /\ u \in processing
    /\ lastBlockNum' = u.height
    /\ processed' = processed + 1 /\ fresh' = FALSE
    /\ blocksResults' = Shifted
    /\ IF IndexFails
       THEN crashed' = TRUE /\ UNCHANGED <<stats, signState, processing, bondedThen>>
       ELSE /\ stats' = Counted(signState)
            /\ signState' = Undecided
            /\ processing' = {} /\ bondedThen' = FALSE
            /\ UNCHANGED crashed
    /\ UNCHANGED <<envVars, dialVars, held, bonded>>

-----------------------------------------------------------------------------
\* The window may come from the state file; the counters start at zero.
Init ==
    /\ excludePreactions \in BOOLEAN
    /\ height = 1 /\ log = << >> /\ pos = 0
    /\ connected = FALSE /\ wsclient = FALSE /\ noWsNodes = FALSE /\ sessions = 0
    /\ held = {} /\ signState = Undecided /\ processing = {}
    /\ bonded \in BOOLEAN
    /\ stats = [k \in Counters |-> 0]
    /\ blocksResults \in Restored
    /\ lastBlockNum = 0 /\ processed = 0 /\ fresh = TRUE
    /\ bondedThen = FALSE /\ crashed = FALSE

ChainStep ==
    \/ \E s \in VoteStatuses : CastVote(s)
    \/ \E s \in BlockStatuses : CommitBlock(s)
    \/ RefreshBonded

ProcessorStep == \E u \in Updates : Receive(u) \/ Finalize(u)

Next ==
    \/ ChainStep
    \/ Connect \/ ConnectFails \/ Disconnect
    \/ Route \/ VoteNotSeen
    \/ ProcessorStep

Spec == Init /\ [][Next]_vars

\* The session's goroutines run, and the processor takes turns between its two
\* senders. Nothing is assumed of the chain or of the connection.
Fairness ==
    /\ WF_vars(Route)
    /\ \A f \in BOOLEAN : SF_vars(\E u \in Updates : u.final = f /\ Receive(u))
    /\ WF_vars(\E u \in Updates : Finalize(u))

FairSpec == Spec /\ Fairness

-----------------------------------------------------------------------------
(* Properties *)

\* Every variable keeps its type.
TypeOK ==
    /\ excludePreactions \in BOOLEAN
    /\ height \in 1..(MaxHeight + 1)
    /\ log \in Seq(Updates) /\ pos \in 0..Len(log)
    /\ connected \in BOOLEAN /\ wsclient \in BOOLEAN
    /\ noWsNodes \in BOOLEAN /\ sessions \in 0..MaxSessions
    /\ held \subseteq Updates
    /\ signState \in Undecided..StatusProposedEmpty
    /\ processing \subseteq Updates
    /\ bonded \in BOOLEAN /\ bondedThen \in BOOLEAN
    /\ stats \in [Counters -> Nat]
    /\ blocksResults \in [1..Window -> Undecided..StatusProposedEmpty]
    /\ lastBlockNum \in 0..MaxHeight
    /\ processed \in Nat /\ fresh \in BOOLEAN /\ crashed \in BOOLEAN

\* The counters nest the way the alerts and the dashboard take them to: a run of
\* misses is part of all misses, a miss has at most one preaction, an empty
\* proposal is a proposal and a proposal is a signature.
StatsOrdered ==
    /\ stats["consecutiveMiss"] <= stats["miss"]
    /\ stats["prevoteMiss"] + stats["precommitMiss"] <= stats["miss"]
    /\ stats["consecutiveEmpty"] <= stats["propsEmpty"]
    /\ stats["propsEmpty"] <= stats["props"]
    /\ stats["props"] <= stats["signs"]

\* Within a session every block is counted at most once and in the chain's order, whatever
\* the reader, the handlers and the processor do first. Only another session, whose node
\* may be behind, takes the last height back.
CountedInOrder ==
    [][processed' # processed => fresh \/ lastBlockNum' > lastBlockNum]_vars

\* The squares of the window that show the blocks of this process.
Results(S) == {i \in 1..Window : i <= processed /\ blocksResults[i] \in S}
EndsRun(r) == r >= StatusSigned \/ (excludePreactions /\ r \in Preactions)
Misses == Statusmissed..StatusPrecommit
CurrentRun == {i \in Results(Misses) : \A j \in 1..i : ~EndsRun(blocksResults[j])}

\* The counters the alerts read and the blocks the dashboard draws are two views of
\* one history. Until as many blocks as the window is long have come since the start,
\* counting its newest squares gives the counters, whatever the restored ones behind them
\* show; blocks seen while the validator was not bonded count nowhere.
CountersMatchWindow ==
    processed <= Window /\ ~crashed =>
        /\ stats["miss"] = Cardinality(Results(Misses))
        /\ stats["signs"] = Cardinality(Results(StatusSigned..StatusProposedEmpty))
        /\ stats["props"] = Cardinality(Results({StatusProposed, StatusProposedEmpty}))
        /\ stats["consecutiveMiss"] = Cardinality(CurrentRun)

\* The index of -1 into missTypes takes a validator that becomes bonded within the work on
\* one block, after the processor's first look at Bonded and before its second; no order
\* of votes, blocks and sessions brings it about otherwise.
CrashTakesBonding == crashed => ~bondedThen /\ bonded

\* A block of this height is on its way through the session.
Arriving(h) ==
    /\ connected
    /\ \E u \in {log[i] : i \in (pos + 1)..Len(log)} \cup held \cup processing :
          u.final /\ u.height = h

\* No goroutine of a session waits on another for good: a block that has arrived is
\* eventually processed, or the session ends.
BlockIsProcessed ==
    \A h \in Heights :
        Arriving(h) ~> (lastBlockNum = h /\ ~Arriving(h)) \/ ~connected \/ crashed
=============================================================================
