----------------------------- MODULE Governance -----------------------------
(***************************************************************************)
(* The proposals a validator has still to vote on, and their alarms.        *)
(*                                                                          *)
(* GetValInfo asks a provider for the unvoted open proposals and replaces   *)
(* cc.unvotedOpenGovProposals by the answer, without a lock. Two goroutines *)
(* call it: the websocket loop of Run at the start of a session, and        *)
(* monitorHealth once a minute. The default provider asks a node for the    *)
(* proposals in their voting period, then for the validator's vote on each; *)
(* the Namada provider asks its indexers for both lists. watch evaluates    *)
(* the list every two seconds. An alarm stands for its entry in AllAlarms,  *)
(* which outlives the process in the state file; the list does not.         *)
(***************************************************************************)
EXTENDS Naturals

CONSTANTS
    Proposals,     \* proposal IDs
    Providers,     \* the providers a chain may have, among "default", "namada"
    MaxFaults,     \* bound: failed connections and queries
    MaxSessions,   \* bound: websocket sessions
    MaxRestarts    \* bound: restarts of the process

ASSUME GovernanceAssumption ==
    /\ Proposals \subseteq Nat /\ Providers \subseteq {"default", "namada"}
    /\ MaxFaults \in Nat /\ MaxSessions \in Nat /\ MaxRestarts \in Nat

VARIABLES
    provider,   \* cc.Provider.Name
    stage,      \* each proposal on chain; "late": its deadline has passed
    voted,      \* the proposals the validator has voted on
    list,       \* cc.unvotedOpenGovProposals
    call,       \* each caller of GetValInfo
    known,      \* valInfo has a moniker: watch is in its main loop
    eval,       \* watch: between its two reads of the list
    alarms,     \* the proposals with an alarm
    seen,       \* history: proposals voted on that some list has left out
    unasked,    \* history: what the list cannot have, see below
    misheard,   \* history: what the list should not have, see below
    faults, sessions, restarts

history == <<unasked, misheard>>
vars == <<provider, stage, voted, list, call, known, eval, alarms, seen, history,
          faults, sessions, restarts>>
chainVars == <<provider, stage, voted>>
bounds == <<faults, sessions, restarts>>

(***************************************************************************)
(* Two histories of the list, and of a call for the list it will store.     *)
(* unasked: the proposals that were not in the answer to the call, because  *)
(* they were not open then or because the answer was incomplete, and those  *)
(* for which it relied on such a list. misheard: the proposals it has found *)
(* unvoted although a vote had been cast, because a node or an indexer did  *)
(* not tell, or although a list without them was stored in the meantime,    *)
(* and those for which it relied on such a list.                            *)
(***************************************************************************)

Callers == {"ws", "monitor"}
Idle == [at |-> "idle", todo |-> {}, found |-> {}, unasked |-> {}, misheard |-> {}]
NotEvaluating == [at |-> "read", unvotedProposalMap |-> {}, unasked |-> {}]
Open == {p \in Proposals : stage[p] \in {"voting", "late"}}

-----------------------------------------------------------------------------
(* The chain *)

Advance(p, from, to) ==
    /\ stage[p] = from
    /\ stage' = [stage EXCEPT ![p] = to]
    /\ UNCHANGED <<provider, voted, list, call, known, eval, alarms, seen, history, bounds>>

\* Voting ends with the first block after the deadline.
Submit(p) == Advance(p, "future", "voting")
DeadlinePasses(p) == Advance(p, "voting", "late")
Close(p) == Advance(p, "late", "closed")

Vote(p) ==
    /\ p \in Open \ voted
    /\ voted' = voted \cup {p}
    /\ UNCHANGED <<provider, stage, list, call, known, eval, alarms, seen, history, bounds>>

-----------------------------------------------------------------------------
(* GetValInfo *)

\* A call has stored the moniker.
Begin(c) ==
    /\ call[c].at = "idle"
    /\ c = "ws" => sessions < MaxSessions
    /\ sessions' = IF c = "ws" THEN sessions + 1 ELSE sessions
    /\ known' = TRUE
    /\ call' = [call EXCEPT ![c].at = "ask"]
    /\ UNCHANGED <<chainVars, list, eval, alarms, seen, history, faults, restarts>>

\* What a call knows once it has been told of the proposals in A.
Told(r, A) == [r EXCEPT !.at = "votes", !.todo = A, !.unasked = Proposals \ A]

\* The proposals in their voting period.
Answered(c) ==
    /\ call[c].at = "ask"
    /\ call' = [call EXCEPT ![c] = Told(@, Open)]
    /\ UNCHANGED <<chainVars, list, known, eval, alarms, seen, history, bounds>>

Fault == faults < MaxFaults /\ faults' = faults + 1

\* Mutated: no answer is taken for an answer without proposals.
QueryFailsMutant(c) ==
    /\ call[c].at = "ask"
    /\ Fault
    /\ list' = {} /\ unasked' = call[c].unasked /\ misheard' = {}
    /\ call' = [call EXCEPT ![c] = Idle]
    /\ UNCHANGED <<chainVars, known, eval, alarms, seen, sessions, restarts>>

\* No node or indexer answers: the list stays.
QueryFails(c) ==
    /\ call[c].at = "ask"
    /\ Fault
    /\ call' = [call EXCEPT ![c] = Idle]
    /\ UNCHANGED <<chainVars, list, known, eval, alarms, seen, history, sessions, restarts>>

\* The Namada provider does not look at the status of an indexer's answer, and leaves out
\* what it cannot convert: a list that is empty or short, and no error.
AnsweredInPart(c) ==
    /\ provider = "namada" /\ call[c].at = "ask"
    /\ Fault
    /\ \E A \in SUBSET Open : A # Open /\ call' = [call EXCEPT ![c] = Told(@, A)]
    /\ UNCHANGED <<chainVars, list, known, eval, alarms, seen, history, sessions, restarts>>

\* The other call, if it has found p unvoted, may now store it although a list without it
\* has been stored.
Overtaken(c, L) ==
    [d \in Callers |-> IF d = c THEN Idle
                       ELSE [call[d] EXCEPT !.misheard = @ \cup (call[d].found \cap (voted \ L))]]

Replace(c, L) ==
    /\ list' = L
    /\ seen' = seen \cup (voted \ L)
    /\ call' = Overtaken(c, L)

\* The default provider cannot decode the answer. The error is assigned to a
\* variable of the inner block, so nil is returned for it and for the list.
Undecodable(c) ==
    /\ provider = "default" /\ call[c].at = "ask"
    /\ Fault
    /\ Replace(c, {})
    /\ unasked' = Proposals /\ misheard' = {}
    /\ UNCHANGED <<chainVars, known, eval, alarms, sessions, restarts>>

\* Mutated: the index in the answer is kept instead of the ID.
SortedMutant(r, p, hasVoted) ==
    [r EXCEPT !.todo = @ \ {p}, !.found = IF hasVoted THEN @ ELSE @ \cup {p - 1}]

\* What a call has found once the vote on p is known.
Sorted(r, p, hasVoted) ==
    [r EXCEPT !.todo = @ \ {p}, !.found = IF hasVoted THEN @ ELSE @ \cup {p}]

\* What it knows if p is found unvoted although there is a vote.
Misheard(r, P) == [r EXCEPT !.misheard = @ \cup (P \cap voted)]

\* CheckIfValidatorVoted, for one proposal after the other in the order of the answer.
\* The vote on a closed proposal may be kept or not.
VoteAnswered(c) ==
    /\ provider = "default" /\ call[c].at = "votes"
    /\ \E p \in call[c].todo :
         \/ /\ p \in voted
            /\ call' = [call EXCEPT ![c] = Sorted(@, p, TRUE)]
         \/ /\ p \notin voted \cap Open
            /\ call' = [call EXCEPT ![c] = Misheard(Sorted(@, p, FALSE), {p})]
    /\ UNCHANGED <<chainVars, list, known, eval, alarms, seen, history, bounds>>

\* The node answers the vote query with an error and no value, which is taken for the
\* answer of the gov module that there is no vote.
VoteNotTold(c) ==
    /\ provider = "default" /\ call[c].at = "votes"
    /\ Fault
    /\ \E p \in call[c].todo \cap voted :
         call' = [call EXCEPT ![c] = Misheard(Sorted(@, p, FALSE), {p})]
    /\ UNCHANGED <<chainVars, list, known, eval, alarms, seen, history, sessions, restarts>>

wasPreviouslyUnvoted(p) == p \in list

\* It relies on what the list says of p, with what the list does not know.
Relying(r, p) == [r EXCEPT !.unasked = @ \cup (unasked \cap {p}),
                           !.misheard = @ \cup (misheard \cap {p})]

\* Mutated: a vote that could not be asked for counts as not cast.
KeptMutant(r, p) == Relying(Sorted(r, p, FALSE), p)

\* The vote on a proposal could not be asked for: what the list says now is kept.
Kept(r, p) == Relying(Sorted(r, p, ~wasPreviouslyUnvoted(p)), p)

VoteFails(c) ==
    /\ provider = "default" /\ call[c].at = "votes"
    /\ Fault
    /\ \E p \in call[c].todo : call' = [call EXCEPT ![c] = Kept(@, p)]
    /\ UNCHANGED <<chainVars, list, known, eval, alarms, seen, history, sessions, restarts>>

\* What it has found once all votes are known to be V.
Listed(r, V) ==
    [Misheard(r, r.todo \ V) EXCEPT !.todo = {}, !.found = @ \cup (r.todo \ V)]

\* The Namada indexers' lists of the validator's votes, put together. Those that do
\* not answer are left out.
VotesListed(c) ==
    /\ provider = "namada" /\ call[c].at = "votes" /\ call[c].todo # {}
    /\ \E V \in SUBSET voted :
         /\ IF V = voted THEN UNCHANGED faults ELSE Fault
         /\ call' = [call EXCEPT ![c] = Listed(@, V)]
    /\ UNCHANGED <<chainVars, list, known, eval, alarms, seen, history, sessions, restarts>>

\* Mutated: an answer without unvoted proposals is taken for no answer.
StoreMutant(c) ==
    /\ call[c].at = "votes" /\ call[c].todo = {}
    /\ Replace(c, IF call[c].found = {} THEN list ELSE call[c].found)
    /\ unasked' = call[c].unasked /\ misheard' = call[c].misheard
    /\ UNCHANGED <<chainVars, known, eval, alarms, bounds>>

Store(c) ==
    /\ call[c].at = "votes" /\ call[c].todo = {}
    /\ Replace(c, call[c].found)
    /\ unasked' = call[c].unasked /\ misheard' = call[c].misheard
    /\ UNCHANGED <<chainVars, known, eval, alarms, bounds>>

-----------------------------------------------------------------------------
(* watch: evaluateUnvotedGovernanceProposalAlert *)

\* The map of unvoted proposals, for the resolves.
ReadList ==
    /\ known /\ eval.at = "read"
    /\ eval' = [at |-> "act", unvotedProposalMap |-> list, unasked |-> unasked]
    /\ UNCHANGED <<chainVars, list, call, known, alarms, seen, history, bounds>>

\* An alert for every proposal of the list without an alarm, then a resolve for
\* every alarm that is not in the map.
AlarmsAfter == (alarms \cup list) \cap eval.unvotedProposalMap

Evaluate ==
    /\ eval.at = "act"
    /\ alarms' = AlarmsAfter
    /\ eval' = NotEvaluating
    /\ UNCHANGED <<chainVars, list, call, known, seen, history, bounds>>

\* newRpc finds no endpoint and forgets the chain's alarms.
ClearAll ==
    /\ call["ws"].at = "idle"
    /\ Fault
    /\ alarms' = {}
    /\ UNCHANGED <<chainVars, list, call, known, eval, seen, history, sessions, restarts>>

\* The process ends and starts again with the alarms of the state file.
Restart ==
    /\ restarts < MaxRestarts
    /\ restarts' = restarts + 1
    /\ list' = {} /\ unasked' = Proposals /\ misheard' = {}
    /\ call' = [c \in Callers |-> Idle]
    /\ known' = FALSE /\ eval' = NotEvaluating
    /\ UNCHANGED <<chainVars, alarms, seen, faults, sessions>>

-----------------------------------------------------------------------------
Init ==
    /\ provider \in Providers
    /\ stage = [p \in Proposals |-> "future"] /\ voted = {}
    /\ list = {} /\ unasked = Proposals /\ misheard = {}
    /\ call = [c \in Callers |-> Idle]
    /\ known = FALSE /\ eval = NotEvaluating
    /\ alarms = {} /\ seen = {}
    /\ faults = 0 /\ sessions = 0 /\ restarts = 0

Call(c) == Answered(c) \/ VoteAnswered(c) \/ VotesListed(c) \/ Store(c)

Next ==
    \/ \E p \in Proposals : Submit(p) \/ DeadlinePasses(p) \/ Close(p) \/ Vote(p)
    \/ \E c \in Callers : \/ Begin(c) \/ Call(c)
                          \/ QueryFails(c) \/ AnsweredInPart(c) \/ Undecodable(c)
                          \/ VoteNotTold(c) \/ VoteFails(c)
    \/ ReadList \/ Evaluate
    \/ ClearAll \/ Restart

Spec == Init /\ [][Next]_vars

\* monitorHealth's ticker, a call in progress and watch go on; nothing else is owed.
FairSpec ==
    /\ Spec
    /\ WF_vars(Begin("monitor"))
    /\ \A c \in Callers : WF_vars(Call(c))
    /\ WF_vars(ReadList) /\ WF_vars(Evaluate)

-----------------------------------------------------------------------------
(* Properties *)

\* Every variable keeps its type.
TypeOK ==
    /\ provider \in Providers
    /\ stage \in [Proposals -> {"future", "voting", "late", "closed"}]
    /\ voted \subseteq Proposals /\ list \subseteq Proposals /\ alarms \subseteq Proposals
    /\ seen \subseteq voted
    /\ call \in [Callers -> [at : {"idle", "ask", "votes"}, todo : SUBSET Proposals,
                             found : SUBSET Proposals, unasked : SUBSET Proposals,
                             misheard : SUBSET Proposals]]
    /\ eval \in [at : {"read", "act"}, unvotedProposalMap : SUBSET Proposals,
                 unasked : SUBSET Proposals]
    /\ known \in BOOLEAN /\ unasked \subseteq Proposals /\ misheard \subseteq Proposals
    /\ faults \in 0..MaxFaults /\ sessions \in 0..MaxSessions
    /\ restarts \in 0..MaxRestarts

Resolves(p) == eval.at = "act" /\ p \in alarms \ alarms' /\ eval'.at = "read"

\* A resolve before the deadline says "vote recorded". This is true, whatever calls
\* overlapped and vote queries failed, of every proposal that was in the answer behind
\* the list. It need not be of one that was not: one that was not open yet when an
\* overlapping call asked, one that an answer left out, or any after a restart.
RecordedIsTrue ==
    [][\A p \in Proposals :
          Resolves(p) /\ stage[p] = "voting" => p \in voted \cup eval.unasked]_vars

\* Once a list without it has been stored, a proposal that is voted on is not alerted
\* again because a vote query fails, which is what wasPreviouslyUnvoted is for. Only
\* answers that hide the vote, and calls that asked before that list was stored, can
\* bring the alert back.
VoteIsFinal == [][\A p \in seen : p \in alarms' \ alarms => p \in misheard]_vars

\* A proposal that stays open without a vote gets an alarm that stays, once
\* failures, new sessions and restarts are over.
OpenProposalIsAlerted ==
    \A p \in Proposals : <>[](p \in Open \ voted) => <>[](p \in alarms)

\* The alarm of a proposal that is voted on, or closed, goes for good.
AlarmEnds ==
    \A p \in Proposals : (<>[](p \in voted \/ stage[p] = "closed")) => <>[](p \notin alarms)

\* Whatever calls overlapped and queries failed, the alarm of a proposal ends up where
\* its votes say.
AlarmFollowsProposal == OpenProposalIsAlerted /\ AlarmEnds
=============================================================================
