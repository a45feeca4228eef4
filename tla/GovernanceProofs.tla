-------------------------- MODULE GovernanceProofs --------------------------
(***************************************************************************)
(* Proofs about Governance for every set of proposals: types, that "vote    *)
(* recorded" is true of every proposal the call was told of, and that a     *)
(* failing vote query does not bring an alert back.                         *)
(***************************************************************************)
EXTENDS Governance, TLAPS

CallType == [at : {"idle", "ask", "votes"}, todo : SUBSET Proposals,
             found : SUBSET Proposals, unasked : SUBSET Proposals,
             misheard : SUBSET Proposals]

-----------------------------------------------------------------------------
(* Types *)

\* A call that is over, and what a call knows after an answer, have the type of a call.
LEMMA CallTypes ==
    ASSUME TypeOK
    PROVE  /\ Idle \in CallType
           /\ \A r \in CallType, A \in SUBSET Proposals : Told(r, A) \in CallType
           /\ \A r \in CallType, p \in Proposals, v \in BOOLEAN : Sorted(r, p, v) \in CallType
           /\ \A P : \A r \in CallType : Misheard(r, P) \in CallType
           /\ \A r \in CallType, p \in Proposals : Kept(r, p) \in CallType
           /\ \A V : \A r \in CallType : Listed(r, V) \in CallType
<1>1. Idle \in CallType
  BY DEF Idle, CallType
<1>2. ASSUME NEW r \in CallType, NEW p \in Proposals, NEW v \in BOOLEAN
      PROVE  Sorted(r, p, v) \in CallType
  BY DEF Sorted, CallType
<1>3. ASSUME NEW r \in CallType, NEW P PROVE Misheard(r, P) \in CallType
  BY DEF Misheard, CallType, TypeOK
<1>4. ASSUME NEW r \in CallType, NEW V PROVE Listed(r, V) \in CallType
  <2>1. Misheard(r, r.todo \ V) \in CallType
    BY <1>3
  <2>2. \A m \in CallType : [m EXCEPT !.todo = {}, !.found = @ \cup (r.todo \ V)] \in CallType
    BY DEF CallType
  <2>3. QED
    BY <2>1, <2>2 DEF Listed
<1>5. ASSUME NEW r \in CallType, NEW p \in Proposals PROVE Kept(r, p) \in CallType
  <2>1. Sorted(r, p, ~wasPreviouslyUnvoted(p)) \in CallType
    BY <1>2
  <2>2. \A m \in CallType : Relying(m, p) \in CallType
    BY DEF Relying, CallType, TypeOK
  <2>3. QED
    BY <2>1, <2>2 DEF Kept
<1>6. ASSUME NEW r \in CallType, NEW A \in SUBSET Proposals PROVE Told(r, A) \in CallType
  BY DEF Told, CallType
<1>7. QED
  BY <1>1, <1>2, <1>3, <1>4, <1>5, <1>6

\* So have the calls after one of them has stored its list.
LEMMA OvertakenTypes ==
    ASSUME TypeOK, NEW c \in Callers, NEW L
    PROVE  Overtaken(c, L) \in [Callers -> CallType]
<1>1. ASSUME NEW d \in Callers
      PROVE  [call[d] EXCEPT !.misheard = @ \cup (call[d].found \cap (voted \ L))] \in CallType
  BY DEF TypeOK, CallType
<1>2. QED
  BY <1>1, CallTypes DEF Overtaken

\* The types are inductive.
LEMMA GovTypeStep == TypeOK /\ [Next]_vars => TypeOK'
<1> SUFFICES ASSUME TypeOK, [Next]_vars PROVE TypeOK'
  OBVIOUS
<1> USE GovernanceAssumption DEF history
<1>0. call \in [Callers -> CallType]
  BY DEF TypeOK, CallType
<1>1. ASSUME NEW p \in Proposals, Submit(p) \/ DeadlinePasses(p) \/ Close(p) PROVE TypeOK'
  <2>1. PICK from, to \in {"future", "voting", "late", "closed"} : Advance(p, from, to)
    BY <1>1 DEF Submit, DeadlinePasses, Close
  <2>2. stage' \in [Proposals -> {"future", "voting", "late", "closed"}]
    BY <2>1 DEF Advance, TypeOK
  <2>3. QED
    BY <2>1, <2>2 DEF Advance, TypeOK, bounds
<1>2. ASSUME NEW p \in Proposals, Vote(p) PROVE TypeOK'
  BY <1>2 DEF TypeOK, Vote, bounds
<1>3. ASSUME NEW c \in Callers, Begin(c) PROVE TypeOK'
  <2>1. call' \in [Callers -> CallType]
    BY <1>0, <1>3 DEF Begin, CallType
  <2>2. sessions' \in 0..MaxSessions
    <3>1. /\ c = "ws" => sessions < MaxSessions
          /\ sessions' = IF c = "ws" THEN sessions + 1 ELSE sessions
      BY <1>3, Zenon DEF Begin
    <3>2. QED
      BY <3>1 DEF TypeOK
  <2>3. known' = TRUE /\ UNCHANGED <<provider, stage, voted, list, eval, alarms, seen, unasked,
                                      misheard, faults, restarts>>
    BY <1>3 DEF Begin, chainVars
  <2>4. QED
    BY <2>1, <2>2, <2>3 DEF TypeOK, CallType
<1>4. ASSUME NEW c \in Callers, Answered(c) PROVE TypeOK'
  <2>1. call' \in [Callers -> CallType]
    <3>1. Open \in SUBSET Proposals
      BY DEF Open
    <3>2. QED
      BY <1>0, <1>4, <3>1, CallTypes DEF Answered
  <2>2. QED
    BY <1>4, <2>1 DEF TypeOK, Answered, chainVars, bounds, CallType
<1>5. ASSUME NEW c \in Callers, QueryFails(c) PROVE TypeOK'
  <2>1. call' \in [Callers -> CallType]
    BY <1>0, <1>5, CallTypes DEF QueryFails
  <2>2. faults' \in 0..MaxFaults
    BY <1>5 DEF QueryFails, Fault, TypeOK
  <2>3. QED
    BY <1>5, <2>1, <2>2 DEF TypeOK, QueryFails, chainVars, CallType
<1>6. ASSUME NEW c \in Callers, Undecodable(c) PROVE TypeOK'
  <2>1. call' \in [Callers -> CallType] /\ list' = {} /\ seen' = seen \cup (voted \ {})
    BY <1>6, OvertakenTypes DEF Undecodable, Replace
  <2>2. faults' \in 0..MaxFaults
    BY <1>6 DEF Undecodable, Fault, TypeOK
  <2>3. QED
    BY <1>6, <2>1, <2>2 DEF TypeOK, Undecodable, chainVars, CallType
<1>7. ASSUME NEW c \in Callers, VoteAnswered(c) PROVE TypeOK'
  <2>1. PICK p \in call[c].todo :
           \/ call' = [call EXCEPT ![c] = Sorted(@, p, TRUE)]
           \/ call' = [call EXCEPT ![c] = Misheard(Sorted(@, p, FALSE), {p})]
    BY <1>7 DEF VoteAnswered
  <2>2. p \in Proposals
    BY <1>0 DEF CallType
  <2>a. Sorted(call[c], p, TRUE) \in CallType /\ Sorted(call[c], p, FALSE) \in CallType
    BY <1>0, <2>2, CallTypes
  <2>b. Misheard(Sorted(call[c], p, FALSE), {p}) \in CallType
    BY <2>a, CallTypes
  <2>3. call' \in [Callers -> CallType]
    BY <1>0, <2>1, <2>a, <2>b
  <2>4. QED
    BY <1>7, <2>3 DEF TypeOK, VoteAnswered, chainVars, bounds, CallType
<1>8. ASSUME NEW c \in Callers, VoteFails(c) \/ VoteNotTold(c) PROVE TypeOK'
  <2>1. PICK p \in call[c].todo :
           \/ call' = [call EXCEPT ![c] = Kept(@, p)]
           \/ call' = [call EXCEPT ![c] = Misheard(Sorted(@, p, FALSE), {p})]
    BY <1>8 DEF VoteFails, VoteNotTold
  <2>2. p \in Proposals
    BY <1>0 DEF CallType
  <2>a. Sorted(call[c], p, FALSE) \in CallType /\ Kept(call[c], p) \in CallType
    BY <1>0, <2>2, CallTypes
  <2>b. Misheard(Sorted(call[c], p, FALSE), {p}) \in CallType
    BY <2>a, CallTypes
  <2>3. call' \in [Callers -> CallType]
    BY <1>0, <2>1, <2>a, <2>b
  <2>c. faults < MaxFaults /\ faults' = faults + 1
    BY <1>8, Zenon DEF VoteFails, VoteNotTold, Fault
  <2>4. faults' \in 0..MaxFaults
    BY <2>c DEF TypeOK
  <2>5. QED
    BY <1>8, <2>3, <2>4 DEF TypeOK, VoteFails, VoteNotTold, chainVars, CallType
<1>9. ASSUME NEW c \in Callers, VotesListed(c) PROVE TypeOK'
  <2>1. PICK V : call' = [call EXCEPT ![c] = Listed(@, V)]
    BY <1>9 DEF VotesListed
  <2>2. call' \in [Callers -> CallType]
    BY <1>0, <2>1, CallTypes
  <2>3. faults' \in 0..MaxFaults
    BY <1>9 DEF VotesListed, Fault, TypeOK
  <2>4. QED
    BY <1>9, <2>2, <2>3 DEF TypeOK, VotesListed, chainVars, CallType
<1>10. ASSUME NEW c \in Callers, Store(c) PROVE TypeOK'
  <2>1. /\ call' \in [Callers -> CallType] /\ list' = call[c].found
        /\ seen' = seen \cup (voted \ call[c].found)
    BY <1>10, OvertakenTypes DEF Store, Replace
  <2>2. list' \subseteq Proposals /\ unasked' \subseteq Proposals /\ misheard' \subseteq Proposals
    BY <1>0, <1>10, <2>1 DEF Store, CallType
  <2>3. QED
    BY <1>10, <2>1, <2>2 DEF TypeOK, Store, chainVars, bounds, CallType
<1>11. CASE ReadList
  BY <1>11 DEF TypeOK, ReadList, chainVars, bounds
<1>12. CASE Evaluate
  BY <1>12 DEF TypeOK, Evaluate, AlarmsAfter, NotEvaluating, chainVars, bounds
<1>13. CASE ClearAll
  <2>1. faults' \in 0..MaxFaults
    BY <1>13 DEF ClearAll, Fault, TypeOK
  <2>2. QED
    BY <1>13, <2>1 DEF TypeOK, ClearAll, chainVars
<1>14. CASE Restart
  <2>1. call' \in [Callers -> CallType]
    BY <1>14, CallTypes DEF Restart
  <2>2. restarts' \in 0..MaxRestarts
    BY <1>14 DEF Restart, TypeOK
  <2>3. QED
    BY <1>14, <2>1, <2>2 DEF TypeOK, Restart, NotEvaluating, chainVars, CallType
<1>15. CASE UNCHANGED vars
  BY <1>15 DEF TypeOK, vars, chainVars, bounds
<1>16. ASSUME NEW c \in Callers, AnsweredInPart(c) PROVE TypeOK'
  <2>1. PICK A \in SUBSET Open : call' = [call EXCEPT ![c] = Told(@, A)]
    BY <1>16 DEF AnsweredInPart
  <2>2. A \in SUBSET Proposals
    BY DEF Open
  <2>3. call' \in [Callers -> CallType]
    BY <1>0, <2>1, <2>2, CallTypes
  <2>4. faults' \in 0..MaxFaults
    BY <1>16 DEF AnsweredInPart, Fault, TypeOK
  <2>5. QED
    BY <1>16, <2>3, <2>4 DEF TypeOK, AnsweredInPart, chainVars, CallType
<1>17. QED
  BY <1>1, <1>2, <1>3, <1>4, <1>5, <1>6, <1>7, <1>8, <1>9, <1>10, <1>11, <1>12, <1>13,
     <1>14, <1>15, <1>16 DEF Next, Call

\* Every variable keeps its type, for every set of proposals and either provider.
THEOREM GovernanceTypeCorrect == Spec => []TypeOK
<1>1. Init => TypeOK
  <2> SUFFICES ASSUME Init PROVE TypeOK
    OBVIOUS
  <2>1. call \in [Callers -> CallType]
    BY DEF Init, Idle, CallType
  <2>2. 0 \in 0..MaxFaults /\ 0 \in 0..MaxSessions /\ 0 \in 0..MaxRestarts
    BY GovernanceAssumption
  <2>3. QED
    BY <2>1, <2>2 DEF Init, TypeOK, NotEvaluating, CallType
<1>2. QED
  BY <1>1, GovTypeStep, PTL DEF Spec

-----------------------------------------------------------------------------
(* The inductive invariant *)

\* Of the proposals without a vote, a list, a call that has been told of the proposals and
\* a pass of watch leave out only what they have not been told of.
Complete(there, left) == \A p \in Proposals \ (voted \cup there) : p \in left

ListInv == Complete(list, unasked)
CallInv ==
    \A c \in Callers : call[c].at = "votes" =>
        Complete(call[c].todo \cup call[c].found, call[c].unasked)
EvalInv == eval.at = "act" => Complete(eval.unvotedProposalMap, eval.unasked)

\* A proposal that some list has left out since the vote is in another, or found by a
\* call, only if that has misheard it.
SeenInv ==
    /\ seen \cap list \subseteq misheard
    /\ \A c \in Callers : seen \cap call[c].found \subseteq call[c].misheard

GovInv == ListInv /\ CallInv /\ EvalInv /\ SeenInv

\* A step that changes at most one call, and neither the list nor what is known of the
\* chain, keeps the invariant if that call keeps its part of it.
LEMMA OneCallStep ==
    ASSUME TypeOK, GovInv, NEW c \in Callers, NEW r,
           call' = [call EXCEPT ![c] = r],
           UNCHANGED <<voted, list, eval, seen, unasked, misheard>>,
           r.at = "votes" => Complete(r.todo \cup r.found, r.unasked),
           seen \cap r.found \subseteq r.misheard
    PROVE  GovInv'
<1>0. call'[c] = r /\ \A d \in Callers : d # c => call'[d] = call[d]
  BY DEF TypeOK
<1>1. ListInv' /\ EvalInv'
  BY DEF GovInv, ListInv, EvalInv, Complete
<1>2. CallInv'
  BY <1>0 DEF GovInv, CallInv, Complete
<1>3. SeenInv'
  BY <1>0 DEF GovInv, SeenInv
<1>4. QED
  BY <1>1, <1>2, <1>3 DEF GovInv

\* What a call that has asked for a vote knows.
LEMMA SortedEffect ==
    ASSUME TypeOK, NEW r \in CallType, NEW p \in Proposals, NEW v \in BOOLEAN
    PROVE  /\ Sorted(r, p, v).at = r.at /\ Sorted(r, p, v).todo = r.todo \ {p}
           /\ Sorted(r, p, v).found = IF v THEN r.found ELSE r.found \cup {p}
           /\ Sorted(r, p, v).unasked = r.unasked /\ Sorted(r, p, v).misheard = r.misheard
BY DEF Sorted, CallType

LEMMA MisheardEffect ==
    ASSUME NEW r \in CallType, NEW P
    PROVE  /\ Misheard(r, P).at = r.at /\ Misheard(r, P).todo = r.todo
           /\ Misheard(r, P).found = r.found /\ Misheard(r, P).unasked = r.unasked
           /\ Misheard(r, P).misheard = r.misheard \cup (P \cap voted)
BY DEF Misheard, CallType

LEMMA RelyingEffect ==
    ASSUME NEW r \in CallType, NEW p
    PROVE  /\ Relying(r, p).at = r.at /\ Relying(r, p).todo = r.todo
           /\ Relying(r, p).found = r.found
           /\ Relying(r, p).unasked = r.unasked \cup (unasked \cap {p})
           /\ Relying(r, p).misheard = r.misheard \cup (misheard \cap {p})
BY DEF Relying, CallType

\* A vote that is found not to be cast: the proposal is kept, as misheard if it was.
LEMMA NotCast ==
    ASSUME TypeOK, GovInv, NEW c \in Callers, NEW p \in call[c].todo, call[c].at = "votes",
           call' = [call EXCEPT ![c] = Misheard(Sorted(@, p, FALSE), {p})],
           UNCHANGED <<voted, list, eval, seen, unasked, misheard>>
    PROVE  GovInv'
<1> DEFINE t == Sorted(call[c], p, FALSE)
           r == Misheard(t, {p})
<1>1. call[c] \in CallType /\ p \in Proposals /\ seen \subseteq voted
  BY DEF TypeOK, CallType
<1>2. /\ t \in CallType /\ t.at = "votes" /\ t.todo = call[c].todo \ {p}
      /\ t.found = call[c].found \cup {p} /\ t.unasked = call[c].unasked
      /\ t.misheard = call[c].misheard
  BY <1>1, CallTypes, SortedEffect
<1> HIDE DEF t
<1>3. /\ r.at = t.at /\ r.todo = t.todo /\ r.found = t.found /\ r.unasked = t.unasked
      /\ r.misheard = t.misheard \cup ({p} \cap voted)
  BY <1>2, MisheardEffect
<1>4. call' = [call EXCEPT ![c] = r]
  BY DEF t
<1> HIDE DEF r
<1>5. Complete(r.todo \cup r.found, r.unasked)
  BY <1>2, <1>3 DEF GovInv, CallInv, Complete
<1>6. seen \cap r.found \subseteq r.misheard
  BY <1>1, <1>2, <1>3 DEF GovInv, SeenInv
<1>7. QED
  BY <1>4, <1>5, <1>6, OneCallStep

\* The queries of GetValInfo keep the invariant.
LEMMA QueryStep ==
    ASSUME TypeOK, GovInv, NEW c \in Callers,
           \/ Begin(c) \/ Answered(c) \/ QueryFails(c) \/ AnsweredInPart(c)
           \/ VoteAnswered(c) \/ VoteNotTold(c) \/ VoteFails(c) \/ VotesListed(c)
    PROVE  GovInv'
<1>0. call \in [Callers -> CallType] /\ call[c] \in CallType
  BY DEF TypeOK, CallType
<1>a. UNCHANGED <<voted, list, eval, seen, unasked, misheard>>
  BY DEF Begin, Answered, QueryFails, AnsweredInPart, VoteAnswered, VoteNotTold, VoteFails,
         VotesListed, chainVars, history
<1>1. CASE Begin(c)
  <2> DEFINE r == [call[c] EXCEPT !.at = "ask"]
  <2>1. call' = [call EXCEPT ![c] = r]
    BY <1>1 DEF Begin
  <2>2. r.at = "ask" /\ r.found = call[c].found /\ r.misheard = call[c].misheard
    BY <1>0 DEF CallType
  <2> HIDE DEF r
  <2>3. QED
    BY <1>a, <2>1, <2>2, OneCallStep DEF GovInv, SeenInv
<1>2. CASE Answered(c) \/ AnsweredInPart(c)
  <2>1. PICK A : call' = [call EXCEPT ![c] = Told(@, A)]
    BY <1>2 DEF Answered, AnsweredInPart
  <2> DEFINE r == Told(call[c], A)
  <2>2. /\ r.todo = A /\ r.unasked = Proposals \ A
        /\ r.found = call[c].found /\ r.misheard = call[c].misheard
    BY <1>0 DEF Told, CallType
  <2>3. call' = [call EXCEPT ![c] = r]
    BY <2>1
  <2> HIDE DEF r
  <2>4. QED
    BY <1>a, <2>2, <2>3, OneCallStep DEF GovInv, SeenInv, Complete
<1>3. CASE QueryFails(c)
  <2>1. Idle.at = "idle" /\ Idle.found = {} /\ call' = [call EXCEPT ![c] = Idle]
    BY <1>3 DEF QueryFails, Idle
  <2>2. QED
    BY <1>a, <2>1, OneCallStep
<1>4. CASE VoteAnswered(c)
  <2>1. PICK p \in call[c].todo :
           \/ p \in voted /\ call' = [call EXCEPT ![c] = Sorted(@, p, TRUE)]
           \/ call' = [call EXCEPT ![c] = Misheard(Sorted(@, p, FALSE), {p})]
    BY <1>4 DEF VoteAnswered
  <2>2. CASE p \in voted /\ call' = [call EXCEPT ![c] = Sorted(@, p, TRUE)]
    <3> DEFINE r == Sorted(call[c], p, TRUE)
    <3>1. /\ p \in voted /\ call[c].at = "votes"
          /\ r.at = call[c].at /\ r.todo = call[c].todo \ {p} /\ r.found = call[c].found
          /\ r.unasked = call[c].unasked /\ r.misheard = call[c].misheard
      BY <1>0, <1>4, <2>2, SortedEffect DEF VoteAnswered, CallType
    <3>2. call' = [call EXCEPT ![c] = r]
      BY <2>2
    <3> HIDE DEF r
    <3>3. Complete(r.todo \cup r.found, r.unasked)
      BY <3>1 DEF GovInv, CallInv, Complete
    <3>4. QED
      BY <1>a, <3>1, <3>2, <3>3, OneCallStep DEF GovInv, SeenInv
  <2>3. CASE call' = [call EXCEPT ![c] = Misheard(Sorted(@, p, FALSE), {p})]
    BY <1>4, <1>a, <2>3, NotCast DEF VoteAnswered
  <2>4. QED
    BY <2>1, <2>2, <2>3
<1>5. CASE VoteNotTold(c)
  BY <1>5, <1>a, NotCast DEF VoteNotTold
<1>6. CASE VoteFails(c)
  <2>1. PICK p \in call[c].todo : call' = [call EXCEPT ![c] = Kept(@, p)]
    BY <1>6 DEF VoteFails
  <2> DEFINE t == Sorted(call[c], p, ~wasPreviouslyUnvoted(p))
             r == Kept(call[c], p)
  <2>2. /\ t \in CallType /\ t.at = "votes" /\ t.todo = call[c].todo \ {p}
        /\ t.found = (IF p \in list THEN call[c].found \cup {p} ELSE call[c].found)
        /\ t.unasked = call[c].unasked /\ t.misheard = call[c].misheard
    <3>1. p \in Proposals /\ call[c].at = "votes"
      BY <1>0, <1>6 DEF VoteFails, CallType
    <3>2. (~wasPreviouslyUnvoted(p)) \in BOOLEAN /\ (wasPreviouslyUnvoted(p) <=> p \in list)
      BY DEF wasPreviouslyUnvoted
    <3>3. t \in CallType
      BY <1>0, <3>1, <3>2, CallTypes
    <3>4. /\ t.at = call[c].at /\ t.todo = call[c].todo \ {p}
          /\ t.found = (IF ~wasPreviouslyUnvoted(p) THEN call[c].found ELSE call[c].found \cup {p})
          /\ t.unasked = call[c].unasked /\ t.misheard = call[c].misheard
      BY <1>0, <3>1, <3>2, SortedEffect
    <3>5. QED
      BY <3>1, <3>2, <3>3, <3>4
  <2> HIDE DEF t
  <2>3. /\ r.at = t.at /\ r.todo = t.todo /\ r.found = t.found
        /\ r.unasked = t.unasked \cup (unasked \cap {p})
        /\ r.misheard = t.misheard \cup (misheard \cap {p})
    BY <2>2, RelyingEffect DEF Kept, t
  <2>4. call' = [call EXCEPT ![c] = r]
    BY <2>1
  <2> HIDE DEF r
  <2>5. Complete(r.todo \cup r.found, r.unasked)
    <3>1. /\ Complete(call[c].todo \cup call[c].found, call[c].unasked)
          /\ Complete(list, unasked)
      BY <1>6 DEF GovInv, CallInv, ListInv, VoteFails
    <3>2. ASSUME NEW q \in Proposals, q \notin voted, q \notin r.todo \cup r.found
          PROVE  q \in r.unasked
      <4>1. CASE q = p
        BY <2>2, <2>3, <3>1, <3>2, <4>1 DEF Complete
      <4>2. CASE q # p
        <5>1. q \notin call[c].todo \cup call[c].found
          BY <2>2, <2>3, <3>2, <4>2
        <5>2. QED
          BY <2>2, <2>3, <3>1, <3>2, <5>1 DEF Complete
      <4>3. QED
        BY <4>1, <4>2
    <3>3. QED
      BY <3>2 DEF Complete
  <2>6. seen \cap r.found \subseteq r.misheard
    BY <2>2, <2>3 DEF GovInv, SeenInv
  <2>7. QED
    BY <1>a, <2>4, <2>5, <2>6, OneCallStep
<1>7. CASE VotesListed(c)
  <2>1. PICK V \in SUBSET voted : call' = [call EXCEPT ![c] = Listed(@, V)]
    BY <1>7 DEF VotesListed
  <2> DEFINE r == Listed(call[c], V)
  <2>2. /\ r.at = call[c].at /\ call[c].at = "votes"
        /\ r.todo = {} /\ r.found = call[c].found \cup (call[c].todo \ V)
        /\ r.unasked = call[c].unasked
        /\ r.misheard = call[c].misheard \cup ((call[c].todo \ V) \cap voted)
    BY <1>0, <1>7 DEF Listed, Misheard, VotesListed, CallType
  <2>3. call' = [call EXCEPT ![c] = r]
    BY <2>1
  <2> HIDE DEF r
  <2>4. Complete(r.todo \cup r.found, r.unasked)
    BY <2>2 DEF GovInv, CallInv, Complete
  <2>5. seen \cap r.found \subseteq r.misheard
    BY <2>2 DEF GovInv, SeenInv, TypeOK
  <2>6. QED
    BY <1>a, <2>3, <2>4, <2>5, OneCallStep
<1>8. QED
  BY <1>1, <1>2, <1>3, <1>4, <1>5, <1>6, <1>7

\* A list that is stored, or lost because an answer could not be decoded.
LEMMA StoreStep ==
    ASSUME TypeOK, GovInv, NEW c \in Callers, Store(c) \/ Undecodable(c)
    PROVE  GovInv'
<1>1. PICK L :
         /\ list' = L /\ seen' = seen \cup (voted \ L) /\ call' = Overtaken(c, L)
         /\ \/ L = {} /\ unasked' = Proposals /\ misheard' = {}
            \/ /\ call[c].at = "votes" /\ call[c].todo = {} /\ L = call[c].found
               /\ unasked' = call[c].unasked /\ misheard' = call[c].misheard
  BY DEF Store, Undecodable, Replace
<1>2. UNCHANGED <<voted, eval>>
  BY DEF Store, Undecodable, chainVars
<1>3. /\ call'[c].at = "idle" /\ call'[c].found = {}
      /\ \A d \in Callers : d # c =>
            /\ call'[d].at = call[d].at /\ call'[d].todo = call[d].todo
            /\ call'[d].found = call[d].found /\ call'[d].unasked = call[d].unasked
            /\ call'[d].misheard = call[d].misheard \cup (call[d].found \cap (voted \ L))
  BY <1>1 DEF Overtaken, Idle, TypeOK
<1>4. ListInv'
  BY <1>1, <1>2 DEF GovInv, CallInv, ListInv, Complete
<1>5. CallInv'
  BY <1>2, <1>3 DEF GovInv, CallInv, Complete
<1>6. EvalInv'
  BY <1>2 DEF GovInv, EvalInv, Complete
<1>7. SeenInv'
  <2>1. (seen \cap list \subseteq misheard)'
    BY <1>1 DEF GovInv, SeenInv
  <2>2. ASSUME NEW d \in Callers PROVE (seen \cap call[d].found \subseteq call[d].misheard)'
    BY <1>1, <1>3 DEF GovInv, SeenInv
  <2>3. QED
    BY <2>1, <2>2 DEF SeenInv
<1>8. QED
  BY <1>4, <1>5, <1>6, <1>7 DEF GovInv

\* The steps of the chain, of watch, newRpc's clearAll and a restart.
LEMMA OtherStep ==
    ASSUME TypeOK, GovInv,
           \/ \E p \in Proposals : Submit(p) \/ DeadlinePasses(p) \/ Close(p) \/ Vote(p)
           \/ ReadList \/ Evaluate \/ ClearAll \/ Restart
    PROVE  GovInv'
<1> USE DEF history
<1>1. CASE \E p \in Proposals : Submit(p) \/ DeadlinePasses(p) \/ Close(p) \/ Vote(p)
  <2>1. UNCHANGED <<list, call, eval, seen, unasked, misheard>> /\ voted \subseteq voted'
    BY <1>1 DEF Submit, DeadlinePasses, Close, Advance, Vote
  <2>2. QED
    BY <2>1 DEF GovInv, ListInv, CallInv, EvalInv, SeenInv, Complete
<1>2. CASE ReadList \/ Evaluate \/ ClearAll
  <2>1. UNCHANGED <<voted, list, call, seen, unasked, misheard>>
    BY <1>2 DEF ReadList, Evaluate, ClearAll, chainVars
  <2>2. EvalInv'
    BY <1>2, <2>1
       DEF ReadList, Evaluate, NotEvaluating, ClearAll, GovInv, EvalInv, ListInv, Complete
  <2>3. QED
    BY <2>1, <2>2 DEF GovInv, ListInv, CallInv, SeenInv, Complete
<1>3. CASE Restart
  <2>1. /\ list' = {} /\ unasked' = Proposals /\ eval'.at = "read" /\ misheard' = {}
        /\ \A c \in Callers : call'[c].at = "idle" /\ call'[c].found = {}
    BY <1>3 DEF Restart, NotEvaluating, Idle
  <2>2. QED
    BY <2>1 DEF GovInv, ListInv, CallInv, EvalInv, SeenInv, Complete
<1>4. QED
  BY <1>1, <1>2, <1>3

\* The invariant is inductive.
LEMMA GovStep == TypeOK /\ GovInv /\ [Next]_vars => GovInv'
<1> SUFFICES ASSUME TypeOK, GovInv, [Next]_vars PROVE GovInv'
  OBVIOUS
<1>1. CASE Next
  BY <1>1, QueryStep, StoreStep, OtherStep DEF Next, Call
<1>2. CASE UNCHANGED vars
  BY <1>2 DEF vars, history, GovInv, ListInv, CallInv, EvalInv, SeenInv, Complete
<1>3. QED
  BY <1>1, <1>2

\* The invariant holds in every state.
LEMMA GovInvariant == Spec => [](TypeOK /\ GovInv)
<1>1. Init => GovInv
  BY DEF Init, Idle, NotEvaluating, GovInv, ListInv, CallInv, EvalInv, SeenInv, Complete
<1>2. QED
  BY <1>1, GovernanceTypeCorrect, GovStep, PTL DEF Spec

-----------------------------------------------------------------------------
(* The theorems *)

\* For any number of proposals, sessions, failures and restarts, and however calls
\* overlap: a resolve that says "vote recorded" of a proposal that was in the answer
\* behind the list is about one that was voted on.
THEOREM RecordedTheorem == Spec => RecordedIsTrue
<1>1. ASSUME TypeOK, GovInv, [Next]_vars, NEW p \in Proposals, Resolves(p)
      PROVE  p \in voted \cup eval.unasked
  <2>1. p \in alarms /\ p \notin alarms' /\ eval.at = "act" /\ eval'.at = "read"
    BY <1>1 DEF Resolves
  <2>2. Evaluate
    <3>1. p \in alarms /\ p \notin alarms' => Evaluate \/ ClearAll
      BY <1>1 DEF Next, Call, Submit, DeadlinePasses, Close, Advance, Vote, Begin, Answered,
         AnsweredInPart, VoteAnswered, VoteNotTold, VotesListed, Store, QueryFails,
         Undecodable, VoteFails, ReadList, Restart, vars
    <3>2. ~ClearAll
      BY <2>1 DEF ClearAll
    <3>3. QED
      BY <2>1, <3>1, <3>2
  <2>3. p \notin eval.unvotedProposalMap
    BY <2>1, <2>2 DEF Evaluate, AlarmsAfter
  <2>4. QED
    BY <1>1, <2>1, <2>3 DEF GovInv, EvalInv, Complete
<1>2. TypeOK /\ GovInv /\ [Next]_vars =>
         [\A p \in Proposals :
             Resolves(p) /\ stage[p] = "voting" => p \in voted \cup eval.unasked]_vars
  BY <1>1
<1>3. QED
  BY <1>2, GovInvariant, PTL DEF Spec, RecordedIsTrue

\* For any number of proposals: a proposal on which the validator has voted, once some
\* list has left it out, is alerted again only if an answer has hidden the vote or a call
\* was overtaken by the one that stored that list; never because a vote query fails.
THEOREM VoteFinalTheorem == Spec => VoteIsFinal
<1>1. ASSUME TypeOK, GovInv, [Next]_vars, NEW p \in seen, p \in alarms' \ alarms
      PROVE  p \in misheard
  <2>1. Evaluate
    BY <1>1 DEF Next, Call, Submit, DeadlinePasses, Close, Advance, Vote, Begin, Answered,
       AnsweredInPart, VoteAnswered, VoteNotTold, VotesListed, Store, QueryFails, Undecodable,
       VoteFails, ReadList, ClearAll, Restart, vars
  <2>2. p \in list
    BY <1>1, <2>1 DEF Evaluate, AlarmsAfter
  <2>3. QED
    BY <1>1, <2>2 DEF GovInv, SeenInv
<1>2. TypeOK /\ GovInv /\ [Next]_vars =>
         [\A p \in seen : p \in alarms' \ alarms => p \in misheard]_vars
  BY <1>1
<1>3. QED
  BY <1>2, GovInvariant, PTL DEF Spec, VoteIsFinal
=============================================================================
