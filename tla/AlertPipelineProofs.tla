------------------------ MODULE AlertPipelineProofs ------------------------
(***************************************************************************)
(* Invariants of the alert pipeline, for every configuration, any number of *)
(* chains, callers, alarms and dispatch goroutines, and any bound on time.  *)
(***************************************************************************)
EXTENDS AlertPipeline, TLAPS

-----------------------------------------------------------------------------
(* What the helpers return *)

\* The key a message is recorded under is an alert ID.
LEMMA UniqueIdType ==
    ASSUME NEW m \in Messages
    PROVE  UniqueId(m) \in Ids
BY DEF UniqueId, Ids, Messages

\* A caller is always at an alarm of its loop.
LEMMA CurrentType ==
    ASSUME TypeOK, NEW r \in Callers
    PROVE  /\ Current(r) \in Alarms
           /\ NextTurn(r) \in 1..Len(Order[r])
           /\ NextTurn(r) \in Nat
<1>1. /\ Order[r] \in Seq(Alarms)
      /\ turn[r] \in 1..Len(Order[r])
  BY ConfigAssumption DEF TypeOK
<1>2. Len(Order[r]) \in Nat /\ turn[r] \in Nat
  BY <1>1
<1>3. Current(r) \in Alarms
  BY <1>1 DEF Current
<1> QED
  BY <1>1, <1>2, <1>3 DEF NextTurn

\* shouldNotify keeps the types of what it records.
LEMMA ShouldNotifyType ==
    ASSUME TypeOK, NEW m \in Messages, NEW d \in Dests
    PROVE  /\ SentAfter(m, d) \in [Ids -> 0..now]
           /\ FlappingAfter(m, d) \in [Ids -> 0..now]
           /\ ToldAfter(m, d) \in [Ids -> {"none", "firing", "resolved"}]
           /\ PagedAfter(m, d) \in [Ids -> 0..now]
<1> DEFINE u == UniqueId(m)
<1>1. u \in Ids
  BY UniqueIdType
<1>2. now \in 0..now /\ 0 \in 0..now
  BY TimeAssumption DEF TypeOK
<1>3. /\ sent[d] \in [Ids -> 0..now]
      /\ told[d] \in [Ids -> {"none", "firing", "resolved"}]
      /\ flapping \in [Ids -> 0..now] /\ paged \in [Ids -> 0..now]
  BY DEF TypeOK
<1> HIDE DEF u
<1>4. SentAfter(m, d) \in [Ids -> 0..now]
  BY <1>1, <1>2, <1>3 DEF SentAfter, u
<1>5. FlappingAfter(m, d) \in [Ids -> 0..now]
  BY <1>1, <1>2, <1>3 DEF FlappingAfter, u
<1>6. PagedAfter(m, d) \in [Ids -> 0..now]
  BY <1>1, <1>2, <1>3 DEF PagedAfter, u
<1>7. ToldAfter(m, d) \in [Ids -> {"none", "firing", "resolved"}]
  BY <1>1, <1>3 DEF ToldAfter, Kind, u
<1> QED
  BY <1>4, <1>5, <1>6, <1>7

\* A task that goes on is still a task.
LEMMA ContinueType ==
    ASSUME TypeOK, NEW t \in tasks, NEW S \in SUBSET Dests,
           NEW p \in Dests \cup {"none"}, Continue(t, S, p)
    PROVE  tasks' \subseteq TaskRecords
BY DEF TypeOK, Continue, TaskRecords

\* Dispatching adds one task about the given message.
LEMMA DispatchType ==
    ASSUME TypeOK, NEW m \in Messages, Dispatch(m)
    PROVE  tasks' \subseteq TaskRecords
<1>1. Uses(m) \subseteq Dests
  BY ConfigAssumption DEF Uses
<1> QED
  BY <1>1 DEF TypeOK, Dispatch, TaskRecords

-----------------------------------------------------------------------------
(* Type correctness *)

\* The initial state, that of a process without a saved state, is well typed.
LEMMA TypeInit == Init => TypeOK
<1> SUFFICES ASSUME Init PROVE TypeOK
  OBVIOUS
<1>1. \A r \in Callers : 1 \in 1..Len(Order[r])
  <2> SUFFICES ASSUME NEW r \in Callers PROVE 1 \in 1..Len(Order[r])
    OBVIOUS
  <2>1. Order[r] \in Seq(Alarms) /\ Order[r] # << >>
    BY ConfigAssumption
  <2> QED
    BY <2>1
<1>2. now \in 1..MaxTime /\ 0 \in 0..now
  BY TimeAssumption DEF Init
<1> QED
  BY <1>1, <1>2 DEF Init, TypeOK, Signals

\* An evaluator's look at the chain and the two halves of alert() keep the types.
LEMMA TypeCaller ==
    ASSUME TypeOK, NEW r \in Callers, CallerStep(r)
    PROVE  TypeOK'
<1> DEFINE a == Current(r)
<1>1. a \in Alarms /\ NextTurn(r) \in 1..Len(Order[r]) /\ NextTurn(r) \in Nat
  BY CurrentType
<1> HIDE DEF a
<1>2. CASE Evaluate(r)
  <2>1. /\ pc' \in [Callers -> {"evaluate", "send", "book"}]
        /\ clearing' \in [Callers -> BOOLEAN] /\ muted' \in [Callers -> BOOLEAN]
        /\ latch' \in [Alarms -> BOOLEAN]
    BY <1>1, <1>2 DEF Evaluate, TypeOK, a, Fires, Clears, Silenced
  <2>3. signal' \in [Alarms -> Signals]
    BY <1>1, <1>2 DEF Evaluate, TypeOK, a, Signals
  <2>2. /\ turn' \in [Callers -> Nat]
        /\ \A q \in Callers : turn'[q] \in 1..Len(Order[q])
    BY <1>1, <1>2 DEF Evaluate, TypeOK
  <2> QED
    BY <1>2, <2>1, <2>2, <2>3 DEF Evaluate, TypeOK, notifyVars, sweepVars, digestVars
<1>3. CASE Send(r)
  <2>1. [alarm |-> Current(r), escalated |-> FALSE, resolved |-> clearing[r]] \in Messages
    BY <1>1 DEF TypeOK, Messages, a
  <2>2. tasks' \subseteq TaskRecords
    BY <1>3, <2>1, DispatchType DEF Send
  <2>3. tangled' \subseteq Alarms
    BY <1>1, <1>3 DEF Send, TypeOK, a
  <2> QED
    BY <1>3, <2>2, <2>3 DEF Send, TypeOK, notifyVars, sweepVars, digestVars, envVars
<1>4. CASE Book(r)
  <2>1. now \in 0..now /\ 0 \in 0..now
    BY TimeAssumption DEF TypeOK
  <2>2. /\ allAlarms' \in [Alarms -> 0..now]
        /\ escalated' \in [Alarms -> BOOLEAN] /\ tangled' \subseteq Alarms
    BY <1>1, <1>4, <2>1 DEF Book, TypeOK, a
  <2>3. /\ pc' \in [Callers -> {"evaluate", "send", "book"}]
        /\ clearing' \in [Callers -> BOOLEAN] /\ muted' \in [Callers -> BOOLEAN]
        /\ turn' \in [Callers -> Nat]
        /\ \A q \in Callers : turn'[q] \in 1..Len(Order[q])
    BY <1>1, <1>4 DEF Book, TypeOK
  <2> QED
    BY <1>4, <2>2, <2>3 DEF Book, TypeOK, notifyVars, sweepVars, digestVars, envVars
<1> QED
  BY <1>2, <1>3, <1>4 DEF CallerStep

\* A dispatch goroutine keeps the types, whether it notifies, posts or enqueues.
LEMMA TypeTask ==
    ASSUME TypeOK, NEW t \in tasks, TaskStep(t)
    PROVE  TypeOK'
<1>1. /\ t \in TaskRecords /\ t.msg \in Messages
      /\ t.todo \in SUBSET Dests /\ t.posting \in Dests \cup {"none"}
  BY DEF TypeOK, TaskRecords
<1>2. ASSUME NEW d \in Dests, Notify(t, d) PROVE TypeOK'
  <2>1. /\ SentAfter(t.msg, d) \in [Ids -> 0..now]
        /\ FlappingAfter(t.msg, d) \in [Ids -> 0..now]
        /\ ToldAfter(t.msg, d) \in [Ids -> {"none", "firing", "resolved"}]
        /\ PagedAfter(t.msg, d) \in [Ids -> 0..now]
    BY <1>1, ShouldNotifyType
  <2>2. /\ sent' \in [Dests -> [Ids -> 0..now]]
        /\ flapping' \in [Ids -> 0..now]
        /\ told' \in [Dests -> [Ids -> {"none", "firing", "resolved"}]]
        /\ paged' \in [Ids -> 0..now]
    BY <1>2, <2>1 DEF Notify, ShouldNotify, TypeOK
  <2>3. tasks' \subseteq TaskRecords
    <3>1. /\ t.todo \ {d} \in SUBSET Dests
          /\ (IF WillPost(t.msg, d) THEN d ELSE "none") \in Dests \cup {"none"}
          /\ Continue(t, t.todo \ {d}, IF WillPost(t.msg, d) THEN d ELSE "none")
      BY <1>1, <1>2 DEF Notify
    <3> QED
      BY <3>1, ContinueType
  <2> QED
    BY <1>2, <2>2, <2>3
    DEF Notify, TypeOK, cacheVars, callerVars, sweepVars, digestVars, envVars
<1>3. CASE Post(t)
  <2>1. shown' \in [Dests -> [Ids -> {"none", "firing", "resolved", "lost"}]]
    <3>1. UniqueId(t.msg) \in Ids
      BY <1>1, UniqueIdType
    <3>2. PICK ok \in Outcomes :
            shown' = [shown EXCEPT ![t.posting][UniqueId(t.msg)] = Delivered(t.msg, ok)]
      BY <1>3 DEF Post
    <3>3. Delivered(t.msg, ok) \in {"none", "firing", "resolved", "lost"}
      BY DEF Delivered, Kind
    <3>4. t.posting \in Dests
      BY <1>1, <1>3 DEF Post
    <3> QED
      BY <3>1, <3>2, <3>3, <3>4 DEF TypeOK
  <2>2. tasks' \subseteq TaskRecords
    BY <1>1, <1>3, ContinueType DEF Post
  <2> QED
    BY <1>3, <2>1, <2>2
    DEF Post, TypeOK, cacheVars, notifyVars, callerVars, sweepVars, digestVars, envVars
<1>4. CASE Enqueue(t)
  <2>1. \A d \in Dests : /\ SentAfter(t.msg, d) \in [Ids -> 0..now]
                         /\ ToldAfter(t.msg, d) \in [Ids -> {"none", "firing", "resolved"}]
    BY <1>1, ShouldNotifyType
  <2>2. /\ sent' \in [Dests -> [Ids -> 0..now]]
        /\ told' \in [Dests -> [Ids -> {"none", "firing", "resolved"}]]
    BY <1>4, <2>1 DEF Enqueue, TypeOK
  <2>3. buffer' \in [Dests -> Seq(Messages)]
    <3>1. \A d \in Dests : buffer[d] \in Seq(Messages)
                           /\ Append(buffer[d], t.msg) \in Seq(Messages)
      BY <1>1 DEF TypeOK
    <3> QED
      BY <1>4, <3>1 DEF Enqueue
  <2>4. tasks' \subseteq TaskRecords
    BY <1>4 DEF Enqueue, TypeOK
  <2> QED
    BY <1>4, <2>2, <2>3, <2>4
    DEF Enqueue, TypeOK, cacheVars, callerVars, sweepVars, envVars
<1> QED
  BY <1>2, <1>3, <1>4 DEF TaskStep

\* The digester's flush keeps the types.
LEMMA TypeDigest ==
    ASSUME TypeOK, DigestStep
    PROVE  TypeOK'
<1>1. CASE Flush
  <2>1. outgoing' \subseteq [dest : Dests, msgs : Seq(Messages)]
    BY <1>1 DEF Flush, TypeOK
  <2>2. buffer' \in [Dests -> Seq(Messages)]
    BY <1>1 DEF Flush
  <2> QED
    BY <1>1, <2>1, <2>2
    DEF Flush, TypeOK, cacheVars, notifyVars, callerVars, sweepVars, envVars
<1>2. CASE PostDigest
  <2>1. PICK b \in outgoing, ok \in Outcomes :
          /\ outgoing' = outgoing \ {b}
          /\ shown' = [shown EXCEPT ![b.dest] =
                [u \in Ids |-> IF About(u, b.msgs) = {} THEN shown[b.dest][u]
                               ELSE IF ok THEN Summary(u, b) ELSE "lost"]]
          /\ UNCHANGED <<buffer, cacheVars, notifyVars, callerVars, sweepVars, envVars, tasks>>
    BY <1>2 DEF PostDigest
  <2>2. b.dest \in Dests
    BY <2>1 DEF TypeOK
  <2>3. \A u \in Ids :
          (IF About(u, b.msgs) = {} THEN shown[b.dest][u]
           ELSE IF ok THEN Summary(u, b) ELSE "lost")
             \in {"none", "firing", "resolved", "lost"}
    BY <2>2 DEF TypeOK, Summary, Kind
  <2>4. shown' \in [Dests -> [Ids -> {"none", "firing", "resolved", "lost"}]]
    BY <2>1, <2>2, <2>3 DEF TypeOK
  <2> QED
    BY <2>1, <2>4
    DEF TypeOK, cacheVars, notifyVars, callerVars, sweepVars, envVars
<1> QED
  BY <1>1, <1>2 DEF DigestStep

\* The three phases of checkEscalations keep the types.
LEMMA TypeSweep ==
    ASSUME TypeOK, SweepStep
    PROVE  TypeOK'
<1>1. CASE Scan
  BY <1>1 DEF Scan, TypeOK, cacheVars, notifyVars, callerVars, digestVars, envVars
<1>2. ASSUME NEW a \in Alarms, Consider(a) PROVE TypeOK'
  BY <1>2 DEF Consider, TypeOK, cacheVars, notifyVars, callerVars, digestVars, envVars
<1>3. ASSUME NEW a \in Alarms, Mark(a) PROVE TypeOK'
  BY <1>3 DEF Mark, TypeOK, notifyVars, callerVars, digestVars, envVars
<1>4. ASSUME NEW a \in Alarms, SendEscalation(a) PROVE TypeOK'
  <2>1. [alarm |-> a, escalated |-> TRUE, resolved |-> FALSE] \in Messages
    BY DEF Messages
  <2>2. tasks' \subseteq TaskRecords
    BY <1>4, <2>1, DispatchType DEF SendEscalation
  <2> QED
    BY <1>4, <2>2
    DEF SendEscalation, TypeOK, cacheVars, notifyVars, callerVars, digestVars, envVars
<1> QED
  BY <1>1, <1>2, <1>3, <1>4 DEF SweepStep

\* Silencing, unsilencing and clearAll keep the types.
LEMMA TypeChain ==
    ASSUME TypeOK, NEW c \in Chains, ChainStep(c)
    PROVE  TypeOK'
<1>1. CASE SilenceChain(c)
  <2>1. silencedUntil' \in [Chains -> Nat]
    BY <1>1, TimeAssumption DEF SilenceChain, TypeOK
  <2> QED
    BY <1>1, <2>1
    DEF SilenceChain, TypeOK, cacheVars, notifyVars, callerVars, sweepVars, digestVars
<1>2. CASE UnsilenceChain(c)
  BY <1>2 DEF UnsilenceChain, TypeOK, cacheVars, notifyVars, callerVars, sweepVars, digestVars
<1>3. CASE ClearAll(c)
  <2>1. 0 \in 0..now
    BY TimeAssumption DEF TypeOK
  <2>2. /\ allAlarms' \in [Alarms -> 0..now] /\ escalated' \in [Alarms -> BOOLEAN]
        /\ tangled' \subseteq Alarms
    BY <1>3, <2>1 DEF ClearAll, TypeOK, AlarmsOf
  <2> QED
    BY <1>3, <2>2
    DEF ClearAll, TypeOK, notifyVars, callerVars, sweepVars, digestVars, envVars
<1> QED
  BY <1>1, <1>2, <1>3 DEF ChainStep

\* The monitored chain and the clock keep the types.
LEMMA TypeWorld ==
    ASSUME TypeOK, Tick \/ \E a \in Alarms : ChangeSignal(a)
    PROVE  TypeOK'
<1>1. CASE Tick
  <2>1. now' \in 1..MaxTime /\ 0..now \subseteq 0..now'
    BY <1>1, TimeAssumption DEF Tick, TypeOK
  <2> QED
    BY <1>1, <2>1
    DEF Tick, TypeOK, cacheVars, notifyVars, callerVars, sweepVars, digestVars
<1>2. ASSUME NEW a \in Alarms, ChangeSignal(a) PROVE TypeOK'
  BY <1>2
  DEF ChangeSignal, TypeOK, cacheVars, notifyVars, callerVars, sweepVars, digestVars
<1> QED
  BY <1>1, <1>2

\* So every step does.
LEMMA TypeStep == TypeOK /\ [Next]_vars => TypeOK'
<1> SUFFICES ASSUME TypeOK, [Next]_vars PROVE TypeOK'
  OBVIOUS
<1>1. CASE UNCHANGED vars
  BY <1>1 DEF vars, TypeOK, cacheVars, notifyVars, callerVars, sweepVars, digestVars, envVars
<1>2. CASE Next
  BY <1>2, TypeCaller, TypeTask, TypeDigest, TypeSweep, TypeChain, TypeWorld DEF Next
<1> QED
  BY <1>1, <1>2

\* Every reachable state of the pipeline is well typed; in particular no
\* SentTime lies in the future of the clock it is compared with.
THEOREM TypeCorrect == Spec => []TypeOK
<1>1. Init => TypeOK
  BY TypeInit
<1>2. TypeOK /\ [Next]_vars => TypeOK'
  BY TypeStep
<1> QED
  BY <1>1, <1>2, PTL DEF Spec

-----------------------------------------------------------------------------
(* Approvals of one alert on one channel alternate *)

\* The strengthening: a channel's map holds an entry exactly while the last
\* notification approved for that ID is an alert.
NotifyInv ==
    \A d \in Dests, u \in Ids : sent[d][u] # 0 <=> told[d][u] = "firing"

\* One call of shouldNotify, alone or from the digester, preserves it.
LEMMA ShouldNotifyAgrees ==
    ASSUME TypeOK, NotifyInv, NEW m \in Messages, NEW d \in Dests, NEW u \in Ids
    PROVE  SentAfter(m, d)[u] # 0 <=> ToldAfter(m, d)[u] = "firing"
<1>1. now # 0 /\ UniqueId(m) \in Ids
  BY UniqueIdType, TimeAssumption DEF TypeOK
<1>2. DOMAIN sent[d] = Ids /\ DOMAIN told[d] = Ids
  BY DEF TypeOK
<1>3. sent[d][u] # 0 <=> told[d][u] = "firing"
  BY DEF NotifyInv
<1> QED
  BY <1>1, <1>2, <1>3 DEF SentAfter, ToldAfter, Kind

\* Only shouldNotify writes the Sent maps, and it keeps them in agreement.
LEMMA NotifyInvStep == TypeOK /\ NotifyInv /\ [Next]_vars => NotifyInv'
<1> SUFFICES ASSUME TypeOK, NotifyInv, [Next]_vars PROVE NotifyInv'
  OBVIOUS
<1>1. CASE UNCHANGED <<sent, told>>
  BY <1>1 DEF NotifyInv
<1>2. ASSUME NEW t \in tasks, NEW d \in Dests, Notify(t, d) PROVE NotifyInv'
  <2>1. t.msg \in Messages
    BY DEF TypeOK, TaskRecords
  <2>2. \A u \in Ids : SentAfter(t.msg, d)[u] # 0 <=> ToldAfter(t.msg, d)[u] = "firing"
    BY <2>1, ShouldNotifyAgrees
  <2>3. /\ sent' = [sent EXCEPT ![d] = SentAfter(t.msg, d)]
        /\ told' = [told EXCEPT ![d] = ToldAfter(t.msg, d)]
        /\ DOMAIN sent = Dests /\ DOMAIN told = Dests
    BY <1>2 DEF Notify, ShouldNotify, TypeOK
  <2> QED
    BY <2>2, <2>3 DEF NotifyInv
<1>3. ASSUME NEW t \in tasks, Enqueue(t) PROVE NotifyInv'
  <2>1. t.msg \in Messages
    BY DEF TypeOK, TaskRecords
  <2>2. \A d \in Dests, u \in Ids :
           SentAfter(t.msg, d)[u] # 0 <=> ToldAfter(t.msg, d)[u] = "firing"
    BY <2>1, ShouldNotifyAgrees
  <2> QED
    BY <1>3, <2>2 DEF Enqueue, NotifyInv
<1>4. CASE \E r \in Callers : CallerStep(r)
  BY <1>1, <1>4 DEF CallerStep, Evaluate, Send, Book, notifyVars
<1>5. ASSUME NEW t \in tasks, Post(t) PROVE NotifyInv'
  BY <1>1, <1>5 DEF Post, notifyVars
<1>6. CASE DigestStep
  BY <1>1, <1>6 DEF DigestStep, Flush, PostDigest, notifyVars
<1>7. CASE SweepStep
  BY <1>1, <1>7 DEF SweepStep, Scan, Consider, Mark, SendEscalation, notifyVars
<1>8. CASE \E c \in Chains : ChainStep(c)
  BY <1>1, <1>8 DEF ChainStep, SilenceChain, UnsilenceChain, ClearAll, notifyVars
<1>9. CASE Tick \/ \E a \in Alarms : ChangeSignal(a)
  BY <1>1, <1>9 DEF Tick, ChangeSignal, notifyVars
<1>10. CASE UNCHANGED vars
  BY <1>1, <1>10 DEF vars, notifyVars
<1> QED
  BY <1>2, <1>3, <1>4, <1>5, <1>6, <1>7, <1>8, <1>9, <1>10 DEF Next, TaskStep

\* The Sent maps always say what the channels were last told.
LEMMA NotifyInvInvariant == Spec => []NotifyInv
<1>1. Init => NotifyInv
  BY DEF Init, NotifyInv
<1> QED
  BY <1>1, NotifyInvStep, TypeCorrect, PTL DEF Spec

\* For every interleaving of dispatch goroutines, notifications that
\* shouldNotify approves for one ID on one channel alternate between alert and
\* resolve; only the reminder of an open proposal repeats an alert.
THEOREM AlternationTheorem == Spec => []ApprovalsAlternate
<1>1. TypeOK /\ NotifyInv => ApprovalsAlternate
  <2> SUFFICES ASSUME TypeOK, NotifyInv, NEW d \in Dests, NEW m \in Messages, Approves(m, d)
               PROVE  IF m.resolved THEN told[d][UniqueId(m)] = "firing"
                      ELSE told[d][UniqueId(m)] = "firing" => m.alarm \in Proposals
    BY DEF ApprovalsAlternate
  <2>1. sent[d][UniqueId(m)] # 0 <=> told[d][UniqueId(m)] = "firing"
    BY UniqueIdType DEF NotifyInv
  <2> QED
    BY <2>1 DEF Approves, Known, ReminderDue
<1> QED
  BY <1>1, NotifyInvInvariant, TypeCorrect, PTL

-----------------------------------------------------------------------------
(* PagerDuty is rate limited *)

\* The strengthening: outside of reminders, flappingAlarms holds the time of
\* the last trigger.
PageInv ==
    \A u \in Ids : u[1] \notin Proposals => flapping[u] = paged[u]

\* A step leaves the page history alone or is a call of shouldNotify for "pd".
LEMMA PageSteps ==
    ASSUME TypeOK, [Next]_vars
    PROVE  \/ UNCHANGED <<flapping, paged>>
           \/ \E m \in Messages : /\ flapping' = FlappingAfter(m, "pd")
                                  /\ paged' = PagedAfter(m, "pd")
<1>1. ASSUME NEW t \in tasks, NEW d \in Dests, Notify(t, d)
      PROVE  \/ UNCHANGED <<flapping, paged>>
             \/ \E m \in Messages : /\ flapping' = FlappingAfter(m, "pd")
                                    /\ paged' = PagedAfter(m, "pd")
  <2>1. t.msg \in Messages
    BY DEF TypeOK, TaskRecords
  <2>2. flapping' = FlappingAfter(t.msg, d) /\ paged' = PagedAfter(t.msg, d)
    BY <1>1 DEF Notify, ShouldNotify
  <2> QED
    BY <2>1, <2>2 DEF FlappingAfter, PagedAfter
<1>2. ASSUME NEW t \in tasks, Post(t) \/ Enqueue(t) PROVE UNCHANGED <<flapping, paged>>
  BY <1>2 DEF Post, Enqueue, notifyVars
<1>3. CASE \E r \in Callers : CallerStep(r)
  BY <1>3 DEF CallerStep, Evaluate, Send, Book, notifyVars
<1>4. CASE DigestStep
  BY <1>4 DEF DigestStep, Flush, PostDigest, notifyVars
<1>5. CASE SweepStep
  BY <1>5 DEF SweepStep, Scan, Consider, Mark, SendEscalation, notifyVars
<1>6. CASE \E c \in Chains : ChainStep(c)
  BY <1>6 DEF ChainStep, SilenceChain, UnsilenceChain, ClearAll, notifyVars
<1>7. CASE Tick \/ \E a \in Alarms : ChangeSignal(a)
  BY <1>7 DEF Tick, ChangeSignal, notifyVars
<1>8. CASE UNCHANGED vars
  BY <1>8 DEF vars, notifyVars
<1> QED
  BY <1>1, <1>2, <1>3, <1>4, <1>5, <1>6, <1>7, <1>8 DEF Next, TaskStep

\* What a call of shouldNotify for PagerDuty does to one ID that is not a
\* proposal's: nothing, or a trigger recorded in both places, and then the
\* previous one is a flap window ago.
LEMMA PageCall ==
    ASSUME TypeOK, PageInv, NEW m \in Messages, NEW u \in Ids, u[1] \notin Proposals
    PROVE  \/ FlappingAfter(m, "pd")[u] = flapping[u] /\ PagedAfter(m, "pd")[u] = paged[u]
           \/ /\ FlappingAfter(m, "pd")[u] = now /\ PagedAfter(m, "pd")[u] = now
              /\ paged[u] = 0 \/ ~(paged[u] + FlapWindow > now)
<1>1. UniqueId(m) \in Ids /\ UniqueId(m)[1] = m.alarm
  BY UniqueIdType DEF UniqueId
<1>2. DOMAIN flapping = Ids /\ DOMAIN paged = Ids /\ flapping[u] = paged[u]
  BY DEF TypeOK, PageInv
<1>3. CASE u # UniqueId(m)
  BY <1>2, <1>3 DEF FlappingAfter, PagedAfter
<1>4. CASE u = UniqueId(m)
  <2>1. ~ReminderDue(m, "pd")
    BY <1>1, <1>4 DEF ReminderDue
  <2>2. CASE Approves(m, "pd") /\ ~Known(m, "pd")
    BY <1>2, <1>4, <2>2
    DEF Approves, IsFlapping, FlappingAfter, PagedAfter
  <2>3. CASE Approves(m, "pd") /\ Known(m, "pd")
    BY <2>1, <2>3 DEF Approves, FlappingAfter, PagedAfter
  <2>4. CASE ~Approves(m, "pd")
    BY <2>4 DEF FlappingAfter, PagedAfter
  <2> QED
    BY <2>2, <2>3, <2>4
<1> QED
  BY <1>3, <1>4

\* flappingAlarms always holds the time of the last page.
LEMMA PageInvInvariant == Spec => []PageInv
<1>1. Init => PageInv
  BY DEF Init, PageInv
<1>2. TypeOK /\ PageInv /\ [Next]_vars => PageInv'
  <2> SUFFICES ASSUME TypeOK, PageInv, [Next]_vars PROVE PageInv'
    OBVIOUS
  <2>1. CASE UNCHANGED <<flapping, paged>>
    BY <2>1 DEF PageInv
  <2>2. ASSUME NEW m \in Messages, flapping' = FlappingAfter(m, "pd"),
               paged' = PagedAfter(m, "pd")
        PROVE  PageInv'
    BY <2>2, PageCall DEF PageInv
  <2> QED
    BY <2>1, <2>2, PageSteps
<1> QED
  BY <1>1, <1>2, TypeCorrect, PTL DEF Spec

\* For every interleaving, two PagerDuty triggers for one alert ID are at least
\* the flap window apart.
THEOREM PageRateTheorem == Spec => PageRateLimited
<1>1. TypeOK /\ PageInv /\ [Next]_vars =>
        [\A u \in Ids : (u[1] \notin Proposals /\ paged'[u] # paged[u] /\ paged[u] # 0)
             => paged'[u] >= paged[u] + FlapWindow]_paged
  <2> SUFFICES ASSUME TypeOK, PageInv, [Next]_vars, paged' # paged,
                      NEW u \in Ids, u[1] \notin Proposals,
                      paged'[u] # paged[u], paged[u] # 0
               PROVE  paged'[u] >= paged[u] + FlapWindow
    OBVIOUS
  <2>1. PICK m \in Messages : /\ flapping' = FlappingAfter(m, "pd")
                              /\ paged' = PagedAfter(m, "pd")
    BY PageSteps
  <2>2. paged'[u] = now /\ ~(paged[u] + FlapWindow > now)
    BY <2>1, PageCall
  <2>3. paged[u] \in Nat /\ now \in Nat
    BY DEF TypeOK
  <2> QED
    BY <2>2, <2>3, TimeAssumption
<1> QED
  BY <1>1, TypeCorrect, PageInvInvariant, PTL DEF Spec, PageRateLimited

-----------------------------------------------------------------------------
(* Escalations *)

\* A running dispatch of an escalation has no PagerDuty stage ahead of it.
EscalationInv == \A t \in tasks : t.msg.escalated => "pd" \notin t.todo

\* A task that goes on has the message it had, and no new destination.
LEMMA ContinueShrinks ==
    ASSUME TypeOK, NEW t \in tasks, NEW S \in SUBSET t.todo, NEW p, Continue(t, S, p)
    PROVE  \A n \in tasks' : \E o \in tasks :
              o.slot = n.slot /\ o.msg = n.msg /\ n.todo \subseteq o.todo
<1>1. t \in TaskRecords
  BY DEF TypeOK
<1> DEFINE n0 == [t EXCEPT !.todo = S, !.posting = p]
<1>2. n0.slot = t.slot /\ n0.msg = t.msg /\ n0.todo = S
  BY <1>1 DEF TaskRecords
<1> HIDE DEF n0
<1>3. \A n \in tasks' : n \in tasks \/ n = n0
  BY DEF Continue, n0
<1> QED
  BY <1>2, <1>3

\* The sweep clears the pd flag, and no goroutine takes on a new destination.
LEMMA EscalationInvStep == TypeOK /\ EscalationInv /\ [Next]_vars => EscalationInv'
<1> SUFFICES ASSUME TypeOK, EscalationInv, [Next]_vars PROVE EscalationInv'
  OBVIOUS
<1>1. CASE UNCHANGED tasks
  BY <1>1 DEF EscalationInv
<1>2. ASSUME NEW t \in tasks, TaskStep(t) PROVE EscalationInv'
  <2>1. \A n \in tasks' : \E o \in tasks : o.msg = n.msg /\ n.todo \subseteq o.todo
    <3>1. ASSUME NEW d \in Dests, Notify(t, d)
          PROVE  \A n \in tasks' : \E o \in tasks : o.msg = n.msg /\ n.todo \subseteq o.todo
      BY <3>1, ContinueShrinks DEF Notify
    <3>2. CASE Post(t)
      BY <3>2, ContinueShrinks DEF Post
    <3>3. CASE Enqueue(t)
      BY <3>3 DEF Enqueue
    <3> QED
      BY <1>2, <3>1, <3>2, <3>3 DEF TaskStep
  <2> QED
    BY <2>1 DEF EscalationInv
<1>3. ASSUME NEW r \in Callers, CallerStep(r) PROVE EscalationInv'
  <2>1. CASE Send(r)
    <3>1. \A n \in tasks' : n \in tasks \/ ~n.msg.escalated
      BY <2>1 DEF Send, Dispatch
    <3> QED
      BY <3>1 DEF EscalationInv
  <2> QED
    BY <1>1, <1>3, <2>1 DEF CallerStep, Evaluate, Book
<1>4. CASE SweepStep
  <2>1. ASSUME NEW a \in Alarms, SendEscalation(a) PROVE EscalationInv'
    <3> DEFINE m == [alarm |-> a, escalated |-> TRUE, resolved |-> FALSE]
    <3>1. "pd" \notin Uses(m)
      BY DEF Uses
    <3>2. \A n \in tasks' : n \in tasks \/ "pd" \notin n.todo
      BY <2>1, <3>1 DEF SendEscalation, Dispatch
    <3> QED
      BY <3>2 DEF EscalationInv
  <2> QED
    BY <1>1, <1>4, <2>1 DEF SweepStep, Scan, Consider, Mark
<1>5. CASE DigestStep
  BY <1>1, <1>5 DEF DigestStep, Flush, PostDigest
<1>6. CASE \E c \in Chains : ChainStep(c)
  BY <1>1, <1>6 DEF ChainStep, SilenceChain, UnsilenceChain, ClearAll
<1>7. CASE Tick \/ \E a \in Alarms : ChangeSignal(a)
  BY <1>1, <1>7 DEF Tick, ChangeSignal
<1>8. CASE UNCHANGED vars
  BY <1>1, <1>8 DEF vars
<1> QED
  BY <1>2, <1>3, <1>4, <1>5, <1>6, <1>7, <1>8 DEF Next

\* No escalation ever has PagerDuty ahead of it.
LEMMA EscalationInvInvariant == Spec => []EscalationInv
<1>1. Init => EscalationInv
  BY DEF Init, EscalationInv
<1> QED
  BY <1>1, EscalationInvStep, TypeCorrect, PTL DEF Spec

-----------------------------------------------------------------------------
(* Silence *)

\* An alarm has one chain.
LEMMA OneChainEach ==
    ASSUME TypeOK, NEW r \in Callers, NEW c \in Chains, Current(r) \in AlarmsOf(c)
    PROVE  ChainOf[r] = c
<1>1. turn[r] \in 1..Len(Order[r])
  BY DEF TypeOK
<1>2. PICK q \in Callers : ChainOf[q] = c /\ \E i \in 1..Len(Order[q]) : Order[q][i] = Current(r)
  BY DEF AlarmsOf
<1> QED
  BY <1>1, <1>2, ConfigAssumption DEF Current

\* While a chain is silenced, nothing new about it is dispatched once the calls
\* past their silence check are through: neither alert() nor the sweep lets
\* anything by, for any number of chains and callers.
THEOREM SilenceTheorem == Spec => SilenceHolds
<1> DEFINE Holds(c) ==
        /\ Quiet(c)'
        /\ \A t \in tasks' : t.msg.alarm \in AlarmsOf(c) =>
              \E o \in tasks : o.slot = t.slot /\ o.msg = t.msg
<1>1. ASSUME TypeOK, [Next]_vars, NEW c \in Chains, Silenced(c), Quiet(c)
      PROVE  Holds(c)
  <2>1. ASSUME UNCHANGED <<pc, picked, marked>>, tasks' \subseteq tasks
        PROVE  Holds(c)
    BY <1>1, <2>1 DEF Quiet, AlarmsOf
  <2>2. ASSUME NEW r \in Callers, Evaluate(r) PROVE Holds(c)
    <3>1. DOMAIN pc = Callers
      BY <1>1 DEF TypeOK
    <3>2. \A q \in Callers : ChainOf[q] = c => pc'[q] # "send"
      BY <1>1, <2>2, <3>1 DEF Evaluate, Quiet
    <3> QED
      BY <1>1, <2>2, <3>2 DEF Evaluate, Quiet, AlarmsOf, sweepVars
  <2>3. ASSUME NEW r \in Callers, Send(r) PROVE Holds(c)
    <3>1. Current(r) \notin AlarmsOf(c)
      BY <1>1, <2>3, OneChainEach DEF Send, Quiet
    <3>2. \A t \in tasks' : t \in tasks \/ t.msg.alarm = Current(r)
      BY <2>3 DEF Send, Dispatch
    <3>3. \A q \in Callers : ChainOf[q] = c => pc'[q] # "send"
      BY <1>1, <2>3 DEF Send, Quiet, TypeOK
    <3> QED
      BY <1>1, <2>3, <3>1, <3>2, <3>3 DEF Send, Quiet, AlarmsOf, sweepVars
  <2>4. ASSUME NEW r \in Callers, Book(r) PROVE Holds(c)
    <3>1. \A q \in Callers : ChainOf[q] = c => pc'[q] # "send"
      BY <1>1, <2>4 DEF Book, Quiet, TypeOK
    <3> QED
      BY <1>1, <2>4, <3>1 DEF Book, Quiet, AlarmsOf, sweepVars
  <2>5. ASSUME NEW t \in tasks, TaskStep(t) PROVE Holds(c)
    <3>1. \A n \in tasks' : \E o \in tasks : o.slot = n.slot /\ o.msg = n.msg
      <4>1. ASSUME NEW d \in Dests, Notify(t, d)
            PROVE  \A n \in tasks' : \E o \in tasks : o.slot = n.slot /\ o.msg = n.msg
        BY <1>1, <4>1, ContinueShrinks DEF Notify
      <4>2. CASE Post(t)
        BY <1>1, <4>2, ContinueShrinks DEF Post
      <4>3. CASE Enqueue(t)
        BY <4>3 DEF Enqueue
      <4> QED
        BY <2>5, <4>1, <4>2, <4>3 DEF TaskStep
    <3>2. UNCHANGED <<pc, picked, marked>>
      BY <2>5 DEF TaskStep, Notify, Post, Enqueue, callerVars, sweepVars
    <3> QED
      BY <1>1, <3>1, <3>2 DEF Quiet, AlarmsOf
  <2>6. ASSUME NEW a \in Alarms, Consider(a) PROVE Holds(c)
    <3>1. a \in AlarmsOf(c) => picked' = {}
      BY <1>1, <2>6 DEF Consider
    <3>2. picked' \subseteq {a} /\ UNCHANGED <<pc, marked, tasks>>
      BY <2>6 DEF Consider, callerVars
    <3> QED
      BY <1>1, <3>1, <3>2 DEF Quiet, AlarmsOf
  <2>7. ASSUME NEW a \in Alarms, Mark(a) PROVE Holds(c)
    BY <1>1, <2>7 DEF Mark, Quiet, AlarmsOf, callerVars
  <2>8. ASSUME NEW a \in Alarms, SendEscalation(a) PROVE Holds(c)
    <3>1. a \notin AlarmsOf(c)
      BY <1>1, <2>8 DEF SendEscalation, Quiet
    <3>2. \A t \in tasks' : t \in tasks \/ t.msg.alarm = a
      BY <2>8 DEF SendEscalation, Dispatch
    <3> QED
      BY <1>1, <2>8, <3>1, <3>2 DEF SendEscalation, Quiet, AlarmsOf, callerVars
  <2>9. CASE Scan
    BY <2>1, <2>9 DEF Scan, callerVars
  <2>10. CASE DigestStep
    BY <2>1, <2>10 DEF DigestStep, Flush, PostDigest, callerVars, sweepVars
  <2>11. CASE \E d \in Chains : ChainStep(d)
    BY <2>1, <2>11
    DEF ChainStep, SilenceChain, UnsilenceChain, ClearAll, callerVars, sweepVars
  <2>12. CASE Tick \/ \E a \in Alarms : ChangeSignal(a)
    BY <2>1, <2>12 DEF Tick, ChangeSignal, callerVars, sweepVars
  <2>13. CASE UNCHANGED vars
    BY <2>1, <2>13 DEF vars, callerVars, sweepVars
  <2> HIDE DEF Holds
  <2> QED
    BY <1>1, <2>2, <2>3, <2>4, <2>5, <2>6, <2>7, <2>8, <2>9, <2>10, <2>11, <2>12, <2>13
    DEF Next, CallerStep, SweepStep
<1>2. TypeOK /\ [Next]_vars =>
        [\A c \in Chains : Silenced(c) /\ Quiet(c) => Holds(c)]_vars
  BY <1>1
<1> QED
  BY <1>2, TypeCorrect, PTL DEF Spec, SilenceHolds

-----------------------------------------------------------------------------
(* The pipeline implements the abstract channels *)

\* What stands after shouldNotify has been called about m for the channels in D, of
\* which it approved those in A.
LEMMA StandingAfter ==
    ASSUME TypeOK, NEW m \in Messages, NEW D \in SUBSET Dests, NEW A \in SUBSET D,
           A = {d \in D : Approves(m, d)},
           told' = [d \in Dests |-> IF d \in D THEN ToldAfter(m, d) ELSE told[d]]
    PROVE  Standing' = [d \in Dests |->
               IF d \notin A THEN Standing[d]
               ELSE IF m.resolved THEN Standing[d] \ {UniqueId(m)}
               ELSE Standing[d] \cup {UniqueId(m)}]
<1>1. UniqueId(m) \in Ids /\ \A d \in Dests : DOMAIN told[d] = Ids
  BY UniqueIdType DEF TypeOK
<1>2. ASSUME NEW d \in Dests, d \notin A PROVE told'[d] = told[d]
  BY <1>2 DEF ToldAfter
<1>3. ASSUME NEW d \in Dests, d \in A
      PROVE  told'[d] = [told[d] EXCEPT ![UniqueId(m)] = Kind(m)]
  BY <1>3 DEF ToldAfter
<1>4. ASSUME NEW d \in Dests, d \in A, m.resolved
      PROVE  {u \in Ids : told'[d][u] = "firing"} = Standing[d] \ {UniqueId(m)}
  BY <1>1, <1>3, <1>4 DEF Standing, Kind
<1>5. ASSUME NEW d \in Dests, d \in A, ~m.resolved
      PROVE  {u \in Ids : told'[d][u] = "firing"} = Standing[d] \cup {UniqueId(m)}
  BY <1>1, <1>3, <1>5 DEF Standing, Kind
<1> QED
  BY <1>2, <1>4, <1>5 DEF Standing

\* Calls of shouldNotify about one message are a step of the abstract channels: by the
\* Sent maps an alert is new and a resolve is not, and by flappingAlarms a page is due.
LEMMA ApprovalRefines ==
    ASSUME TypeOK, NotifyInv, PageInv, NEW m \in Messages, NEW D \in SUBSET Dests,
           "pd" \in D => ~m.escalated,
           told' = [d \in Dests |-> IF d \in D THEN ToldAfter(m, d) ELSE told[d]],
           paged' = IF "pd" \in D THEN PagedAfter(m, "pd") ELSE paged,
           now' = now
    PROVE  Channel!Next
<1> DEFINE A == {d \in D : Approves(m, d)}
           u == UniqueId(m)
<1>1. /\ u \in Ids /\ u[1] = m.alarm /\ u[2] = m.escalated /\ u = <<m.alarm, m.escalated>>
      /\ m.alarm \in Alarms /\ m.escalated \in BOOLEAN /\ A \in SUBSET Dests
  BY UniqueIdType DEF UniqueId, Messages
<1>2. \A d \in A : u \in Standing[d] <=> sent[d][u] # 0
  BY <1>1 DEF Standing, NotifyInv
<1>3. Standing' = [d \in Dests |-> IF d \notin A THEN Standing[d]
                                   ELSE IF m.resolved THEN Standing[d] \ {u}
                                   ELSE Standing[d] \cup {u}]
  BY StandingAfter
<1>4. \A d \in Dests : {v \in {u} : d \in A} = IF d \in A THEN {u} ELSE {}
  OBVIOUS
<1>5. CASE m.resolved
  <2>1. \A d \in A : u \in Standing[d]
    BY <1>2, <1>5 DEF Approves, Known, ReminderDue
  <2>2. paged' = paged
    BY <1>5 DEF PagedAfter
  <2>3. Standing' = [d \in Dests |-> Standing[d] \ {v \in {u} : d \in A}]
    BY <1>3, <1>4, <1>5
  <2>4. Channel!Resolve(u, A)
    BY <2>1, <2>2, <2>3 DEF Channel!Resolve
  <2> QED
    BY <1>1, <2>4 DEF Channel!Next
<1>6. CASE ~m.resolved
  <2>1. \A d \in A : u \in Standing[d] => u \in Proposals \X BOOLEAN
    BY <1>1, <1>2, <1>6 DEF Approves, Known, ReminderDue
  <2>2. "pd" \in A => Channel!MayPage(u)
    <3> SUFFICES ASSUME "pd" \in A PROVE Channel!MayPage(u)
      OBVIOUS
    <3>1. u \notin Alarms \X {TRUE}
      BY <1>1
    <3>2. CASE m.alarm \in Proposals
      BY <1>1, <3>1, <3>2 DEF Channel!MayPage
    <3>3. CASE m.alarm \notin Proposals
      <4>1. flapping[u] = paged[u] /\ paged[u] \in Nat /\ now \in Nat
        BY <1>1, <3>3 DEF PageInv, TypeOK
      <4>2. ~IsFlapping(m, "pd")
        BY <1>6, <3>3 DEF Approves, ReminderDue
      <4>3. paged[u] = 0 \/ ~(paged[u] + FlapWindow > now)
        BY <4>1, <4>2 DEF IsFlapping
      <4>4. paged[u] = 0 \/ paged[u] + FlapWindow <= now
        BY <4>1, <4>3, TimeAssumption
      <4> QED
        BY <3>1, <4>4 DEF Channel!MayPage
    <3> QED
      BY <3>2, <3>3
  <2>3. paged' = IF "pd" \in A THEN [paged EXCEPT ![u] = now] ELSE paged
    BY <1>6 DEF PagedAfter
  <2>4. Standing' = [d \in Dests |-> Standing[d] \cup {v \in {u} : d \in A}]
    BY <1>3, <1>4, <1>6
  <2>5. Channel!Alert(u, A)
    BY <2>1, <2>2, <2>3, <2>4 DEF Channel!Alert
  <2> QED
    BY <1>1, <2>5 DEF Channel!Next
<1> QED
  BY <1>5, <1>6

\* Every step of the pipeline is a step of the abstract channels, or none.
LEMMA ChannelStep ==
    ASSUME TypeOK, NotifyInv, PageInv, EscalationInv, [Next]_vars
    PROVE  [Channel!Next]_<<now, Standing, paged>>
<1>1. ASSUME UNCHANGED <<now, told, paged>>
      PROVE  UNCHANGED <<now, Standing, paged>>
  BY <1>1 DEF Standing
<1>2. ASSUME NEW t \in tasks, NEW d \in Dests, Notify(t, d) PROVE Channel!Next
  <2>1. t.msg \in Messages /\ d \in t.todo /\ DOMAIN told = Dests
    BY <1>2 DEF TypeOK, TaskRecords, Notify, First
  <2>2. d = "pd" => ~t.msg.escalated
    BY <2>1 DEF EscalationInv
  <2>3. told' = [e \in Dests |-> IF e \in {d} THEN ToldAfter(t.msg, e) ELSE told[e]]
    BY <1>2, <2>1 DEF Notify, ShouldNotify
  <2>4. paged' = IF "pd" \in {d} THEN PagedAfter(t.msg, "pd") ELSE paged
    BY <1>2 DEF Notify, ShouldNotify, PagedAfter
  <2>5. now' = now
    BY <1>2 DEF Notify, envVars
  <2> QED
    BY <2>1, <2>2, <2>3, <2>4, <2>5, ApprovalRefines
<1>3. ASSUME NEW t \in tasks, Enqueue(t) PROVE Channel!Next
  <2>1. t.msg \in Messages /\ t.todo \in SUBSET Dests
    BY DEF TypeOK, TaskRecords
  <2>2. /\ told' = [d \in Dests |-> IF d \in t.todo THEN ToldAfter(t.msg, d) ELSE told[d]]
        /\ "pd" \notin t.todo /\ paged' = paged /\ now' = now
    BY <1>3 DEF Enqueue, envVars
  <2> QED
    BY <2>1, <2>2, ApprovalRefines
<1>4. CASE Tick
  <2>1. now' = now + 1 /\ UNCHANGED <<told, paged>>
    BY <1>4 DEF Tick, notifyVars
  <2>2. Standing' = Standing
    BY <2>1 DEF Standing
  <2> QED
    BY <2>1, <2>2 DEF Channel!Next, Channel!Tick
<1>5. CASE \E r \in Callers : CallerStep(r)
  BY <1>1, <1>5 DEF CallerStep, Evaluate, Send, Book, notifyVars, envVars
<1>6. ASSUME NEW t \in tasks, Post(t) PROVE UNCHANGED <<now, Standing, paged>>
  BY <1>1, <1>6 DEF Post, notifyVars, envVars
<1>7. CASE DigestStep
  BY <1>1, <1>7 DEF DigestStep, Flush, PostDigest, notifyVars, envVars
<1>8. CASE SweepStep
  BY <1>1, <1>8 DEF SweepStep, Scan, Consider, Mark, SendEscalation, notifyVars, envVars
<1>9. CASE \E c \in Chains : ChainStep(c)
  BY <1>1, <1>9 DEF ChainStep, SilenceChain, UnsilenceChain, ClearAll, notifyVars, envVars
<1>10. CASE \E a \in Alarms : ChangeSignal(a)
  BY <1>1, <1>10 DEF ChangeSignal, notifyVars
<1>11. CASE UNCHANGED vars
  BY <1>1, <1>11 DEF vars, notifyVars, envVars
<1> QED
  BY <1>2, <1>3, <1>4, <1>5, <1>6, <1>7, <1>8, <1>9, <1>10, <1>11 DEF Next, TaskStep

\* The pipeline implements the abstract channels, for every configuration, number of
\* dispatch goroutines and interleaving with the sweep and the digester.
THEOREM RefinementTheorem == Spec => ImplementsChannels
<1>1. Init => Channel!Init
  <2> SUFFICES ASSUME Init PROVE Channel!Init
    OBVIOUS
  <2>1. Standing = [d \in Dests |-> {}]
    BY DEF Init, Standing
  <2> QED
    BY <2>1 DEF Init, Channel!Init
<1> QED
  BY <1>1, ChannelStep, TypeCorrect, NotifyInvInvariant, PageInvInvariant,
     EscalationInvInvariant, PTL DEF Spec, ImplementsChannels, Channel!Spec

-----------------------------------------------------------------------------
(* Digests show how an alert ended *)

\* The destinations the digester serves whose messages are all posted.
Digested == Dests \ (MutedResolve \cup {"pd"})

\* With the digester on, only PagerDuty is posted to directly.
PostInv == DigestOn => \A t \in tasks : t.posting \in {"none", "pd"}

\* Among these messages there is a last one about u, and it is of kind k. (That there is
\* a last one is part of the invariant because it cannot be had by induction on them.)
Tells(msgs, u, k) ==
    \E i \in About(u, msgs) : Kind(msgs[i]) = k /\ \A j \in About(u, msgs) : j <= i

\* The last notification approved is the last one in the bucket being filled, else the
\* last one in the bucket being posted, else what the channel shows or has missed.
BufferInv ==
    \A d \in Digested, u \in Ids :
        About(u, buffer[d]) # {} => Tells(buffer[d], u, told[d][u])

OutgoingInv ==
    \A d \in Digested, u \in Ids : \A b \in outgoing :
        b.dest = d /\ About(u, b.msgs) # {} =>
            \E k \in {"none", "firing", "resolved"} :
                Tells(b.msgs, u, k) /\ (About(u, buffer[d]) = {} => k = told[d][u])

ShownInv ==
    \A d \in Digested, u \in Ids :
        About(u, buffer[d]) = {} /\ (\A b \in outgoing : b.dest = d => About(u, b.msgs) = {})
            => ReadsAs(d, u)

QueueInv == PostInv /\ (DigestOn => BufferInv /\ OutgoingInv /\ ShownInv)

\* A message put at the end is the last one about its ID, and about no other.
LEMMA AppendTells ==
    ASSUME NEW msgs \in Seq(Messages), NEW m \in Messages, NEW u, NEW k
    PROVE  /\ u = UniqueId(m) => /\ About(u, Append(msgs, m)) # {}
                                 /\ Tells(Append(msgs, m), u, Kind(m))
           /\ u # UniqueId(m) => /\ About(u, Append(msgs, m)) = About(u, msgs)
                                 /\ Tells(msgs, u, k) => Tells(Append(msgs, m), u, k)
<1> DEFINE n == Len(msgs)
           new == Append(msgs, m)
<1>1. /\ n \in Nat /\ DOMAIN msgs = 1..n /\ DOMAIN new = 1..(n + 1)
      /\ new[n + 1] = m /\ \A i \in 1..n : new[i] = msgs[i]
  OBVIOUS
<1> HIDE DEF n, new
<1>2. CASE u = UniqueId(m)
  <2>1. n + 1 \in About(u, new) /\ \A j \in About(u, new) : j <= n + 1
    BY <1>1, <1>2 DEF About
  <2>2. QED
    BY <1>1, <1>2, <2>1 DEF Tells, new
<1>3. CASE u # UniqueId(m)
  <2>1. About(u, new) = About(u, msgs) /\ About(u, msgs) \subseteq 1..n
    BY <1>1, <1>3 DEF About
  <2>2. Tells(msgs, u, k) => Tells(new, u, k)
    BY <1>1, <2>1 DEF Tells
  <2>3. QED
    BY <1>3, <2>1, <2>2 DEF new
<1>4. QED
  BY <1>2, <1>3

\* Choosing the last message about u finds the one that Tells speaks of.
LEMMA LastTells ==
    ASSUME NEW msgs \in Seq(Messages), NEW u, NEW k, Tells(msgs, u, k)
    PROVE  Kind(msgs[LastAbout(u, msgs)]) = k
<1>1. PICK i \in About(u, msgs) : Kind(msgs[i]) = k /\ \A j \in About(u, msgs) : j <= i
  BY DEF Tells
<1>2. About(u, msgs) \subseteq Nat
  BY DEF About
<1>3. LastAbout(u, msgs) \in About(u, msgs) /\ \A j \in About(u, msgs) : j <= LastAbout(u, msgs)
  BY <1>1 DEF LastAbout
<1>4. LastAbout(u, msgs) = i
  BY <1>1, <1>2, <1>3
<1>5. QED
  BY <1>1, <1>4

\* How a bucket reads agrees with the last message about u in it, except that in a text
\* digest an alert that came back reads as its earlier end.
LEMMA SummaryTells ==
    ASSUME NEW b, b.msgs \in Seq(Messages), NEW u, NEW k, Tells(b.msgs, u, k)
    PROVE  \/ Summary(u, b) = k
           \/ b.dest # "wh" /\ k = "firing" /\ Summary(u, b) = "resolved"
<1>1. CASE b.dest = "wh"
  BY <1>1, LastTells DEF Summary
<1>2. CASE b.dest # "wh"
  <2>1. PICK i \in About(u, b.msgs) : Kind(b.msgs[i]) = k
    BY DEF Tells
  <2>2. QED
    BY <1>2, <2>1 DEF Summary, Kind
<1>3. QED
  BY <1>1, <1>2

\* A step that leaves the digester, the approvals and the channels alone.
LEMMA QueueUntouched ==
    ASSUME QueueInv, UNCHANGED <<buffer, outgoing, told, shown>>, PostInv'
    PROVE  QueueInv'
<1>1. DigestOn => BufferInv'
  BY DEF QueueInv, BufferInv
<1>2. DigestOn => OutgoingInv'
  BY DEF QueueInv, OutgoingInv
<1>3. DigestOn => ShownInv'
  BY DEF QueueInv, ShownInv, ReadsAs
<1>4. QED
  BY <1>1, <1>2, <1>3 DEF QueueInv

\* The goroutines of PagerDuty's posts do not touch what the digester serves.
LEMMA QueueNotify ==
    ASSUME TypeOK, QueueInv, NEW t \in tasks, (\E d \in Dests : Notify(t, d)) \/ Post(t)
    PROVE  QueueInv'
<1>1. PICK todo, posting : Continue(t, todo, posting) /\ (DigestOn => posting \in {"none", "pd"})
  BY DEF Notify, Post, QueueInv, PostInv
<1>2. PostInv'
  <2>1. \A o \in tasks' : o \in tasks \/ o = [t EXCEPT !.todo = todo, !.posting = posting]
    BY <1>1 DEF Continue
  <2>2. t \in TaskRecords
    BY DEF TypeOK
  <2>3. [t EXCEPT !.todo = todo, !.posting = posting].posting = posting
    BY <2>2 DEF TaskRecords
  <2>4. QED
    BY <1>1, <2>1, <2>3 DEF QueueInv, PostInv
<1>3. UNCHANGED <<buffer, outgoing>>
  BY DEF Notify, Post, digestVars
<1>4. DigestOn => \A d \in Digested : told'[d] = told[d] /\ shown'[d] = shown[d]
  <2>1. ASSUME DigestOn, NEW d \in Dests, Notify(t, d)
        PROVE  \A e \in Digested : told'[e] = told[e] /\ shown'[e] = shown[e]
    BY <2>1 DEF Notify, ShouldNotify, Digested, TypeOK
  <2>2. ASSUME DigestOn, Post(t)
        PROVE  \A e \in Digested : told'[e] = told[e] /\ shown'[e] = shown[e]
    <3>1. t.posting = "pd" /\ UNCHANGED told
      BY <2>2 DEF Post, QueueInv, PostInv, notifyVars
    <3>2. QED
      BY <2>2, <3>1 DEF Post, Digested, TypeOK
  <2>3. QED
    BY <2>1, <2>2
<1>5. DigestOn => BufferInv'
  BY <1>3, <1>4 DEF QueueInv, BufferInv
<1>6. DigestOn => OutgoingInv'
  BY <1>3, <1>4 DEF QueueInv, OutgoingInv
<1>7. DigestOn => ShownInv'
  BY <1>3, <1>4 DEF QueueInv, ShownInv, ReadsAs
<1>8. QED
  BY <1>2, <1>5, <1>6, <1>7 DEF QueueInv

\* enqueue: what is approved goes to the end of its bucket.
LEMMA QueueEnqueue ==
    ASSUME TypeOK, QueueInv, NEW t \in tasks, Enqueue(t)
    PROVE  QueueInv'
<1>1. DigestOn /\ t.msg \in Messages /\ tasks' \subseteq tasks /\ UNCHANGED <<outgoing, shown>>
  BY DEF Enqueue, TypeOK, TaskRecords
<1>2. PostInv'
  BY <1>1 DEF QueueInv, PostInv
<1>3. ASSUME NEW d \in Digested, NEW u \in Ids
      PROVE  /\ About(u, buffer'[d]) # {} => Tells(buffer'[d], u, told'[d][u])
             /\ About(u, buffer'[d]) = {} =>
                   About(u, buffer[d]) = {} /\ told'[d][u] = told[d][u]
  <2>1. d \in Dests /\ d \notin MutedResolve /\ buffer[d] \in Seq(Messages)
    BY DEF Digested, TypeOK
  <2>2. About(u, buffer[d]) # {} => Tells(buffer[d], u, told[d][u])
    BY <1>1 DEF QueueInv, BufferInv
  <2>3. CASE d \in t.todo /\ Approves(t.msg, d)
    <3>1. /\ buffer'[d] = Append(buffer[d], t.msg)
          /\ told'[d] = [told[d] EXCEPT ![UniqueId(t.msg)] = Kind(t.msg)]
      BY <2>1, <2>3 DEF Enqueue, WillPost, ToldAfter
    <3>2. told[d] \in [Ids -> {"none", "firing", "resolved"}]
      BY <2>1 DEF TypeOK
    <3>3. CASE u = UniqueId(t.msg)
      <4>1. told'[d][u] = Kind(t.msg)
        BY <3>1, <3>2, <3>3
      <4>2. Append(buffer[d], t.msg) = buffer'[d]
        BY <3>1
      <4>3. About(u, buffer'[d]) # {}
        BY <1>1, <2>1, <3>3, <4>2, AppendTells
      <4>4. Tells(buffer'[d], u, Kind(t.msg))
        BY <1>1, <2>1, <3>3, <4>2, AppendTells
      <4>5. QED
        BY <4>1, <4>3, <4>4
    <3>4. CASE u # UniqueId(t.msg)
      <4>1. told'[d][u] = told[d][u]
        BY <3>1, <3>2, <3>4
      <4>2. About(u, buffer'[d]) = About(u, buffer[d])
        BY <1>1, <2>1, <3>1, <3>4, AppendTells
      <4>3. Tells(buffer[d], u, told[d][u]) => Tells(buffer'[d], u, told[d][u])
        BY <1>1, <2>1, <3>1, <3>4, AppendTells
      <4>4. QED
        BY <2>2, <4>1, <4>2, <4>3
    <3>5. QED
      BY <3>3, <3>4
  <2>4. CASE ~(d \in t.todo /\ Approves(t.msg, d))
    <3>1. buffer'[d] = buffer[d] /\ told'[d] = told[d]
      BY <2>1, <2>4 DEF Enqueue, WillPost, ToldAfter
    <3>2. QED
      BY <2>2, <3>1
  <2>5. QED
    BY <2>3, <2>4
<1>4. BufferInv'
  BY <1>3 DEF BufferInv
<1>5. OutgoingInv'
  BY <1>1, <1>3 DEF QueueInv, OutgoingInv
<1>6. ShownInv'
  BY <1>1, <1>3 DEF QueueInv, ShownInv, ReadsAs
<1>7. QED
  BY <1>2, <1>4, <1>5, <1>6 DEF QueueInv

\* flush: the buckets change hands as they are.
LEMMA QueueFlush ==
    ASSUME TypeOK, QueueInv, Flush
    PROVE  QueueInv'
<1>1. /\ DigestOn /\ outgoing = {} /\ UNCHANGED <<told, shown, tasks>>
      /\ outgoing' = {[dest |-> d, msgs |-> buffer[d]] : d \in {e \in Dests : buffer[e] # << >>}}
      /\ \A d \in Dests : buffer'[d] = << >>
  BY DEF Flush, notifyVars
<1>2. \A u : About(u, << >>) = {}
  BY DEF About
<1>3. PostInv'
  BY <1>1 DEF QueueInv, PostInv
<1>4. ASSUME NEW d \in Digested, NEW u \in Ids
      PROVE  d \in Dests /\ About(u, buffer'[d]) = {}
  BY <1>1, <1>2 DEF Digested
<1>5. BufferInv'
  BY <1>4 DEF BufferInv
<1>6. \A b \in outgoing' : b.msgs = buffer[b.dest]
  BY <1>1
<1>7. OutgoingInv'
  <2>1. \A d \in Digested, u \in Ids : told[d][u] \in {"none", "firing", "resolved"}
    BY DEF TypeOK, Digested
  <2>2. QED
    BY <1>1, <1>6, <2>1 DEF QueueInv, BufferInv, OutgoingInv
<1>8. ASSUME NEW d \in Digested, NEW u \in Ids,
             \A b \in outgoing' : b.dest = d => About(u, b.msgs) = {}
      PROVE  ReadsAs(d, u)
  <2>1. CASE buffer[d] = << >>
    BY <1>1, <1>2, <2>1 DEF QueueInv, ShownInv
  <2>2. CASE buffer[d] # << >>
    <3>1. [dest |-> d, msgs |-> buffer[d]] \in outgoing'
      BY <1>1, <1>4, <2>2
    <3>2. About(u, buffer[d]) = {}
      BY <1>8, <3>1
    <3>3. QED
      BY <1>1, <3>2 DEF QueueInv, ShownInv
  <2>3. QED
    BY <2>1, <2>2
<1>9. ShownInv'
  BY <1>1, <1>8 DEF ShownInv, ReadsAs
<1>10. QED
  BY <1>3, <1>5, <1>7, <1>9 DEF QueueInv

\* A combined post shows the last message about every ID in it, or loses it.
LEMMA QueuePostDigest ==
    ASSUME TypeOK, QueueInv, DigestOn, PostDigest
    PROVE  QueueInv'
<1>1. PICK b \in outgoing, ok \in Outcomes :
         /\ outgoing' = outgoing \ {b}
         /\ shown' = [shown EXCEPT ![b.dest] =
                [u \in Ids |-> IF About(u, b.msgs) = {} THEN shown[b.dest][u]
                               ELSE IF ok THEN Summary(u, b) ELSE "lost"]]
         /\ UNCHANGED <<buffer, told, tasks>>
  BY DEF PostDigest, notifyVars
<1>2. b.dest \in Dests /\ b.msgs \in Seq(Messages)
  BY DEF TypeOK
<1>3. PostInv' /\ BufferInv' /\ OutgoingInv'
  <2>1. PostInv' /\ BufferInv'
    BY <1>1 DEF QueueInv, PostInv, BufferInv
  <2>2. OutgoingInv'
    BY <1>1 DEF QueueInv, OutgoingInv
  <2>3. QED
    BY <2>1, <2>2
<1>4. ASSUME NEW d \in Digested, NEW u \in Ids, About(u, buffer[d]) = {},
             \A o \in outgoing' : o.dest = d => About(u, o.msgs) = {}
      PROVE  ReadsAs(d, u)'
  <2>0. d \in Dests /\ DOMAIN shown = Dests
    BY DEF Digested, TypeOK
  <2>1. CASE b.dest = d /\ About(u, b.msgs) # {}
    <3>1. Tells(b.msgs, u, told[d][u])
      BY <1>4, <2>1 DEF QueueInv, OutgoingInv
    <3>2. \/ Summary(u, b) = told[d][u]
          \/ b.dest # "wh" /\ told[d][u] = "firing" /\ Summary(u, b) = "resolved"
      BY <1>2, <3>1, SummaryTells
    <3>3. shown'[d][u] = IF ok THEN Summary(u, b) ELSE "lost"
      BY <1>1, <2>0, <2>1
    <3>4. QED
      BY <1>1, <2>1, <3>2, <3>3 DEF ReadsAs
  <2>2. CASE ~(b.dest = d /\ About(u, b.msgs) # {})
    <3>1. shown'[d][u] = shown[d][u]
      BY <1>1, <2>0, <2>2
    <3>2. \A o \in outgoing : o.dest = d => About(u, o.msgs) = {}
      BY <1>1, <1>4, <2>2
    <3>3. QED
      BY <1>1, <1>4, <3>1, <3>2 DEF QueueInv, ShownInv, ReadsAs
  <2>3. QED
    BY <2>1, <2>2
<1>5. ShownInv'
  BY <1>1, <1>4 DEF ShownInv
<1>6. QED
  BY <1>3, <1>5 DEF QueueInv

\* Every step preserves the invariant of the queues.
LEMMA QueueStep == TypeOK /\ QueueInv /\ [Next]_vars => QueueInv'
<1> SUFFICES ASSUME TypeOK, QueueInv, [Next]_vars PROVE QueueInv'
  OBVIOUS
<1>1. ASSUME UNCHANGED <<buffer, outgoing, told, shown, tasks>> PROVE QueueInv'
  <2>1. PostInv'
    BY <1>1 DEF QueueInv, PostInv
  <2>2. QED
    BY <1>1, <2>1, QueueUntouched
<1>2. ASSUME NEW m, Dispatch(m), UNCHANGED <<buffer, outgoing, told, shown>> PROVE QueueInv'
  <2>1. \A t \in tasks' : t \in tasks \/ t.posting = "none"
    BY <1>2 DEF Dispatch
  <2>2. PostInv'
    BY <2>1 DEF QueueInv, PostInv
  <2>3. QED
    BY <1>2, <2>2, QueueUntouched
<1>3. ASSUME NEW r \in Callers, CallerStep(r) PROVE QueueInv'
  <2>1. CASE Evaluate(r) \/ Book(r)
    BY <1>1, <2>1 DEF Evaluate, Book, notifyVars, digestVars
  <2>2. CASE Send(r)
    BY <1>2, <2>2 DEF Send, notifyVars, digestVars
  <2>3. QED
    BY <1>3, <2>1, <2>2 DEF CallerStep
<1>4. ASSUME NEW t \in tasks, TaskStep(t) PROVE QueueInv'
  BY <1>4, QueueNotify, QueueEnqueue DEF TaskStep
<1>5. CASE DigestStep
  <2>1. CASE Flush
    BY <2>1, QueueFlush
  <2>2. CASE PostDigest /\ DigestOn
    BY <2>2, QueuePostDigest
  <2>3. CASE PostDigest /\ ~DigestOn
    <3>1. UNCHANGED tasks
      BY <2>3 DEF PostDigest
    <3>2. QED
      BY <2>3, <3>1 DEF QueueInv, PostInv
  <2>4. QED
    BY <1>5, <2>1, <2>2, <2>3 DEF DigestStep
<1>6. CASE SweepStep
  <2>1. CASE Scan \/ \E a \in Alarms : Consider(a) \/ Mark(a)
    BY <1>1, <2>1 DEF Scan, Consider, Mark, notifyVars, digestVars
  <2>2. ASSUME NEW a \in Alarms, SendEscalation(a) PROVE QueueInv'
    BY <1>2, <2>2 DEF SendEscalation, notifyVars, digestVars
  <2>3. QED
    BY <1>6, <2>1, <2>2 DEF SweepStep
<1>7. CASE \E c \in Chains : ChainStep(c)
  BY <1>1, <1>7 DEF ChainStep, SilenceChain, UnsilenceChain, ClearAll, notifyVars, digestVars
<1>8. CASE Tick \/ \E a \in Alarms : ChangeSignal(a)
  BY <1>1, <1>8 DEF Tick, ChangeSignal, notifyVars, digestVars
<1>9. CASE UNCHANGED vars
  BY <1>1, <1>9 DEF vars, notifyVars, digestVars
<1> QED
  BY <1>3, <1>4, <1>5, <1>6, <1>7, <1>8, <1>9 DEF Next

\* In digest mode a channel ends up reading as the last notification approved for an ID,
\* or has missed the last post about it, however enqueueing, flushes and posts of several
\* goroutines interleave and whichever posts fail, for any number of messages. A text
\* digest may read as resolved for an alert that came back, never the other way round.
THEOREM DigestTheorem == Spec => []DigestShowsEnd
<1>1. Init => QueueInv
  <2> SUFFICES ASSUME Init PROVE QueueInv
    OBVIOUS
  <2>1. /\ \A d \in Digested : buffer[d] = << >> /\ d \in Dests
        /\ outgoing = {} /\ tasks = {}
        /\ \A d \in Digested, u \in Ids : shown[d][u] = told[d][u]
    BY DEF Init, Digested
  <2>2. \A d \in Digested, u \in Ids : About(u, buffer[d]) = {}
    BY <2>1 DEF About
  <2>3. QED
    BY <2>1, <2>2 DEF QueueInv, PostInv, BufferInv, OutgoingInv, ShownInv, ReadsAs
<1>2. QueueInv => DigestShowsEnd
  <2> SUFFICES ASSUME QueueInv, DigestOn, NEW d \in Digested, NEW u \in Ids
               PROVE  InTransit(d, u) \/ ReadsAs(d, u)
    BY DEF DigestShowsEnd, Digested
  <2>1. QED
    BY DEF QueueInv, ShownInv, InTransit
<1>3. QED
  BY <1>1, <1>2, QueueStep, TypeCorrect, PTL DEF Spec

-----------------------------------------------------------------------------
(* What is booked and what the channels were told agree *)

\* Only channels that serve an alarm are told of it; a flapping alarm has been paged.
ServedInv ==
    /\ \A t \in tasks : t.todo \subseteq Enabled
    /\ \A d \in Dests, a \in Alarms : told[d][<<a, FALSE>>] = "firing" => Serves(d, a)
    /\ \A u \in Ids : flapping[u] # 0 => paged[u] # 0

\* A caller that is about to send is not silenced.
MutedInv == \A r \in Callers : pc[r] = "send" => ~muted[r]

\* A caller that has sent its message and has yet to book it.
Booking(r, a) == r \in Callers /\ Current(r) = a /\ pc[r] = "book" /\ ~muted[r]

\* Whether the alarm is active, going by the last message sent about it.
Believed(a) ==
    IF \E r \in Callers : Booking(r, a)
    THEN \E r \in Callers : Booking(r, a) /\ ~clearing[r]
    ELSE allAlarms[a] # 0

Heard(d, a, active) ==
    IF active THEN \/ told[d][<<a, FALSE>>] = "firing"
                   \/ d = "pd" /\ paged[<<a, FALSE>>] # 0
    ELSE told[d][<<a, FALSE>>] # "firing"

\* About an alarm that is not tangled, every message under way says what is believed, and
\* a channel that has none to wait for has heard it.
HeardInv ==
    /\ \A t \in tasks :
          ~t.msg.escalated /\ t.todo # {} /\ t.msg.alarm \notin tangled
              => t.msg.resolved = ~Believed(t.msg.alarm)
    /\ \A a \in Alarms \ tangled, d \in Dests :
          Serves(d, a) /\ ~Pending(a, d) => Heard(d, a, Believed(a))

AgreeInv == ServedInv /\ MutedInv /\ HeardInv

\* No two callers are at the same alarm.
LEMMA OneCaller ==
    ASSUME TypeOK, NEW q \in Callers, NEW r \in Callers, Current(q) = Current(r)
    PROVE  q = r
<1>1. turn[q] \in 1..Len(Order[q]) /\ turn[r] \in 1..Len(Order[r])
  BY DEF TypeOK
<1>2. Order[q][turn[q]] = Order[r][turn[r]]
  BY DEF Current
<1>3. QED
  BY <1>1, <1>2, ConfigAssumption

\* After shouldNotify a channel that serves the alarm has heard the message, whether or
\* not it was approved.
LEMMA CallHeard ==
    ASSUME TypeOK, NotifyInv, ServedInv, NEW m \in Messages, ~m.escalated,
           NEW d \in Dests, Subscribed(m, d)
    PROVE  /\ m.resolved => ToldAfter(m, d)[<<m.alarm, FALSE>>] # "firing"
           /\ ~m.resolved => \/ ToldAfter(m, d)[<<m.alarm, FALSE>>] = "firing"
                             \/ d = "pd" /\ paged[<<m.alarm, FALSE>>] # 0
<1> DEFINE u == UniqueId(m)
<1>1. u \in Ids /\ u = <<m.alarm, FALSE>>
  BY UniqueIdType DEF UniqueId, Messages
<1>2. DOMAIN told[d] = Ids /\ (sent[d][u] # 0 <=> told[d][u] = "firing")
  BY <1>1 DEF TypeOK, NotifyInv
<1> HIDE DEF u
<1>3. CASE Approves(m, d)
  <2>1. ToldAfter(m, d)[u] = Kind(m)
    BY <1>1, <1>2, <1>3 DEF ToldAfter, u
  <2>2. QED
    BY <1>1, <2>1 DEF Kind
<1>4. CASE ~Approves(m, d)
  <2>1. ToldAfter(m, d) = told[d]
    BY <1>4 DEF ToldAfter
  <2>2. CASE m.resolved
    BY <1>1, <1>2, <1>4, <2>1, <2>2 DEF Approves, Known, u
  <2>3. CASE ~m.resolved
    <3>1. sent[d][u] # 0 \/ (d = "pd" /\ flapping[u] # 0)
      BY <1>4, <2>3 DEF Approves, Known, IsFlapping, u
    <3>2. QED
      BY <1>1, <1>2, <2>1, <2>3, <3>1 DEF ServedInv
  <2>4. QED
    BY <2>2, <2>3
<1>5. QED
  BY <1>3, <1>4

\* What shouldNotify leaves alone, and what it never takes back.
LEMMA CallKeeps ==
    ASSUME TypeOK, NEW m \in Messages, NEW d \in Dests
    PROVE  /\ \A a \in Alarms : (m.escalated \/ a # m.alarm) =>
                 ToldAfter(m, d)[<<a, FALSE>>] = told[d][<<a, FALSE>>]
           /\ \A a \in Alarms : ToldAfter(m, d)[<<a, FALSE>>] = "firing" =>
                 told[d][<<a, FALSE>>] = "firing" \/ (a = m.alarm /\ Subscribed(m, d))
           /\ \A u \in Ids : paged[u] # 0 => PagedAfter(m, d)[u] # 0
           /\ \A u \in Ids : FlappingAfter(m, d)[u] # 0 =>
                 flapping[u] # 0 \/ PagedAfter(m, d)[u] # 0
<1>1. /\ UniqueId(m) \in Ids /\ UniqueId(m) = <<m.alarm, m.escalated>>
      /\ \A a \in Alarms : <<a, FALSE>> \in Ids
  BY UniqueIdType DEF UniqueId, Ids
<1>2. DOMAIN told[d] = Ids /\ DOMAIN paged = Ids /\ DOMAIN flapping = Ids /\ now # 0
  BY TimeAssumption DEF TypeOK
<1>3. ASSUME NEW a \in Alarms, m.escalated \/ a # m.alarm
      PROVE  ToldAfter(m, d)[<<a, FALSE>>] = told[d][<<a, FALSE>>]
  <2>1. <<a, FALSE>> # UniqueId(m)
    <3>1. /\ <<a, FALSE>>[1] = a /\ <<a, FALSE>>[2] = FALSE
          /\ UniqueId(m)[1] = m.alarm /\ UniqueId(m)[2] = m.escalated
      BY DEF UniqueId
    <3>2. CASE a # m.alarm
      BY <3>1, <3>2
    <3>3. CASE m.escalated
      BY <3>1, <3>3
    <3>4. QED
      BY <1>3, <3>2, <3>3
  <2>2. QED
    BY <1>1, <1>2, <2>1 DEF ToldAfter
<1>4. ASSUME NEW a \in Alarms, ToldAfter(m, d)[<<a, FALSE>>] = "firing"
      PROVE  told[d][<<a, FALSE>>] = "firing" \/ (a = m.alarm /\ Subscribed(m, d))
  <2>1. CASE a # m.alarm
    BY <1>3, <1>4, <2>1
  <2>2. CASE ~Approves(m, d)
    BY <1>4, <2>2 DEF ToldAfter
  <2>3. QED
    BY <2>1, <2>2 DEF Approves
<1>5. \A u \in Ids : paged[u] # 0 => PagedAfter(m, d)[u] # 0
  BY <1>1, <1>2 DEF PagedAfter
<1>6. \A u \in Ids : FlappingAfter(m, d)[u] # 0 => flapping[u] # 0 \/ PagedAfter(m, d)[u] # 0
  BY <1>1, <1>2 DEF PagedAfter, FlappingAfter, Approves
<1>7. QED
  BY <1>3, <1>4, <1>5, <1>6

\* A goroutine has served some of its destinations, with the rest left to do.
LEMMA ServeStep ==
    ASSUME TypeOK, NotifyInv, AgreeInv, NEW t \in tasks, NEW D \in SUBSET t.todo,
           \A d \in Dests : told'[d] = IF d \in D THEN ToldAfter(t.msg, d) ELSE told[d],
           \A u \in Ids : paged[u] # 0 => paged'[u] # 0,
           \A u \in Ids : flapping'[u] # 0 => flapping[u] # 0 \/ paged'[u] # 0,
           \A n \in tasks' : n \in tasks \/ (n.msg = t.msg /\ n.todo = t.todo \ D),
           \A o \in tasks : o # t => o \in tasks',
           t.todo \ D # {} => \E n \in tasks' : n.msg = t.msg /\ n.todo = t.todo \ D,
           UNCHANGED <<allAlarms, tangled, pc, turn, clearing, muted>>
    PROVE  AgreeInv'
<1>1. t.msg \in Messages /\ t.msg.alarm \in Alarms /\ t.todo \subseteq Dests
  BY DEF TypeOK, TaskRecords, Messages
<1>2. MutedInv'
  BY DEF AgreeInv, MutedInv
<1>3. ServedInv'
  <2>1. \A n \in tasks' : n.todo \subseteq Enabled
    BY DEF AgreeInv, ServedInv
  <2>2. ASSUME NEW d \in Dests, NEW a \in Alarms, told'[d][<<a, FALSE>>] = "firing"
        PROVE  Serves(d, a)
    <3>1. CASE told[d][<<a, FALSE>>] = "firing"
      BY <3>1 DEF AgreeInv, ServedInv
    <3>2. CASE told[d][<<a, FALSE>>] # "firing"
      <4>1. d \in D /\ ToldAfter(t.msg, d)[<<a, FALSE>>] = "firing"
        BY <2>2, <3>2
      <4>2. a = t.msg.alarm /\ Subscribed(t.msg, d)
        BY <1>1, <3>2, <4>1, CallKeeps
      <4>3. d \in Enabled
        BY <4>1 DEF AgreeInv, ServedInv
      <4>4. QED
        BY <4>2, <4>3 DEF Serves, Subscribed
    <3>3. QED
      BY <3>1, <3>2
  <2>3. \A u \in Ids : flapping'[u] # 0 => paged'[u] # 0
    BY DEF AgreeInv, ServedInv
  <2>4. QED
    BY <2>1, <2>2, <2>3 DEF ServedInv, Serves
<1>4. \A a \in Alarms : Believed(a)' = Believed(a)
  BY DEF Believed, Booking, Current
<1>5. ASSUME NEW n \in tasks', ~n.msg.escalated, n.todo # {}, n.msg.alarm \notin tangled
      PROVE  n.msg.resolved = ~Believed(n.msg.alarm)'
  <2>1. PICK o \in tasks : o.msg = n.msg /\ o.todo # {}
    BY <1>5
  <2>2. o.msg.alarm \in Alarms
    BY DEF TypeOK, TaskRecords, Messages
  <2>3. QED
    BY <1>4, <1>5, <2>1, <2>2 DEF AgreeInv, HeardInv
<1>6. ASSUME NEW a \in Alarms, a \notin tangled, NEW d \in Dests, Serves(d, a), ~Pending(a, d)'
      PROVE  Heard(d, a, Believed(a))'
  <2>0. <<a, FALSE>> \in Ids
    BY DEF Ids
  <2>1. CASE a = t.msg.alarm /\ ~t.msg.escalated /\ d \in D
    <3>1. t.msg.resolved = ~Believed(a)
      BY <1>6, <2>1 DEF AgreeInv, HeardInv
    <3>2. Subscribed(t.msg, d)
      BY <1>6, <2>1 DEF Serves, Subscribed
    <3>3. told'[d] = ToldAfter(t.msg, d)
      BY <2>1
    <3>4. /\ t.msg.resolved => told'[d][<<a, FALSE>>] # "firing"
          /\ ~t.msg.resolved => \/ told'[d][<<a, FALSE>>] = "firing"
                                \/ d = "pd" /\ paged[<<a, FALSE>>] # 0
      <4>1. ServedInv /\ ~t.msg.escalated
        BY <2>1 DEF AgreeInv
      <4>2. /\ t.msg.resolved => ToldAfter(t.msg, d)[<<t.msg.alarm, FALSE>>] # "firing"
            /\ ~t.msg.resolved => \/ ToldAfter(t.msg, d)[<<t.msg.alarm, FALSE>>] = "firing"
                                  \/ d = "pd" /\ paged[<<t.msg.alarm, FALSE>>] # 0
        BY <1>1, <3>2, <4>1, CallHeard
      <4>3. QED
        BY <2>1, <3>3, <4>2
    <3>5. QED
      BY <1>4, <2>0, <3>1, <3>4 DEF Heard
  <2>2. CASE ~(a = t.msg.alarm /\ ~t.msg.escalated /\ d \in D)
    <3>1. told'[d][<<a, FALSE>>] = told[d][<<a, FALSE>>]
      <4>1. CASE d \in D
        <5>1. t.msg.escalated \/ a # t.msg.alarm
          BY <2>2, <4>1
        <5>2. \A b \in Alarms : (t.msg.escalated \/ b # t.msg.alarm) =>
                 ToldAfter(t.msg, d)[<<b, FALSE>>] = told[d][<<b, FALSE>>]
          BY <1>1, CallKeeps
        <5>3. QED
          BY <4>1, <5>1, <5>2
      <4>2. CASE d \notin D
        BY <4>2
      <4>3. QED
        BY <4>1, <4>2
    <3>2. ~Pending(a, d)
      <4> SUFFICES ASSUME NEW o \in tasks, o.msg.alarm = a, ~o.msg.escalated, d \in o.todo
                   PROVE  FALSE
        BY DEF Pending
      <4>1. CASE o # t
        BY <1>6, <4>1 DEF Pending
      <4>2. CASE o = t
        <5>1. d \in t.todo \ D
          BY <2>2, <4>2
        <5>2. PICK n \in tasks' : n.msg = t.msg /\ n.todo = t.todo \ D
          BY <5>1
        <5>3. QED
          BY <1>6, <4>2, <5>1, <5>2 DEF Pending
      <4>3. QED
        BY <4>1, <4>2
    <3>3. Heard(d, a, Believed(a))
      BY <1>6, <3>2 DEF AgreeInv, HeardInv
    <3>4. QED
      BY <1>4, <2>0, <3>1, <3>3 DEF Heard
  <2>3. QED
    BY <2>1, <2>2
<1>7. HeardInv'
  BY <1>5, <1>6 DEF HeardInv, Serves
<1>8. QED
  BY <1>2, <1>3, <1>7 DEF AgreeInv

\* The goroutine goes on with its message, or ends; the others stay.
LEMMA ContinueOthers ==
    ASSUME TypeOK, NEW t \in tasks, NEW S \in SUBSET Dests, NEW p, Continue(t, S, p)
    PROVE  /\ \A n \in tasks' : n \in tasks \/ (n.msg = t.msg /\ n.todo = S)
           /\ \A o \in tasks : o # t => o \in tasks'
           /\ S # {} => \E n \in tasks' : n.msg = t.msg /\ n.todo = S
<1> DEFINE n0 == [t EXCEPT !.todo = S, !.posting = p]
<1>1. t \in TaskRecords
  BY DEF TypeOK
<1>2. n0.msg = t.msg /\ n0.todo = S
  BY <1>1 DEF TaskRecords
<1>3. tasks' = (tasks \ {t}) \cup (IF S = {} /\ p = "none" THEN {} ELSE {n0})
  BY DEF Continue
<1> HIDE DEF n0
<1>4. QED
  BY <1>2, <1>3

\* The steps of a dispatch goroutine.
LEMMA AgreeTask ==
    ASSUME TypeOK, NotifyInv, AgreeInv, NEW t \in tasks, TaskStep(t)
    PROVE  AgreeInv'
<1>2. t.msg \in Messages /\ t.todo \in SUBSET Dests
  BY DEF TypeOK, TaskRecords
<1>3. ASSUME NEW d \in Dests, Notify(t, d) PROVE AgreeInv'
  <2>1. d \in t.todo /\ t.todo \ {d} \in SUBSET Dests /\ {d} \in SUBSET t.todo
    BY <1>2, <1>3 DEF Notify, First
  <2>2. /\ \A n \in tasks' : n \in tasks \/ (n.msg = t.msg /\ n.todo = t.todo \ {d})
        /\ \A o \in tasks : o # t => o \in tasks'
        /\ t.todo \ {d} # {} => \E n \in tasks' : n.msg = t.msg /\ n.todo = t.todo \ {d}
    BY <1>3, <2>1, ContinueOthers DEF Notify
  <2>3. /\ \A e \in Dests : told'[e] = IF e \in {d} THEN ToldAfter(t.msg, e) ELSE told[e]
        /\ flapping' = FlappingAfter(t.msg, d) /\ paged' = PagedAfter(t.msg, d)
    BY <1>3 DEF Notify, ShouldNotify, TypeOK
  <2>4. /\ \A u \in Ids : paged[u] # 0 => paged'[u] # 0
        /\ \A u \in Ids : flapping'[u] # 0 => flapping[u] # 0 \/ paged'[u] # 0
    BY <1>2, <2>3, CallKeeps
  <2>5. UNCHANGED <<allAlarms, tangled, pc, turn, clearing, muted>>
    BY <1>3 DEF Notify, cacheVars, callerVars
  <2>6. QED
    BY <2>1, <2>2, <2>3, <2>4, <2>5, ServeStep
<1>4. CASE Post(t)
  <2>0. {} \in SUBSET t.todo /\ t.todo \ {} = t.todo
    OBVIOUS
  <2>1. /\ \A n \in tasks' : n \in tasks \/ (n.msg = t.msg /\ n.todo = t.todo)
        /\ \A o \in tasks : o # t => o \in tasks'
        /\ t.todo # {} => \E n \in tasks' : n.msg = t.msg /\ n.todo = t.todo
    BY <1>2, <1>4, ContinueOthers DEF Post
  <2>2. UNCHANGED <<told, flapping, paged, allAlarms, tangled, pc, turn, clearing, muted>>
    BY <1>4 DEF Post, notifyVars, cacheVars, callerVars
  <2>3. QED
    BY <2>0, <2>1, <2>2, ServeStep
<1>5. CASE Enqueue(t)
  <2>1. tasks' = tasks \ {t} /\ t.todo \ t.todo = {} /\ t.todo \in SUBSET t.todo
    BY <1>5 DEF Enqueue
  <2>2. \A e \in Dests : told'[e] = IF e \in t.todo THEN ToldAfter(t.msg, e) ELSE told[e]
    BY <1>5 DEF Enqueue
  <2>3. UNCHANGED <<flapping, paged, allAlarms, tangled, pc, turn, clearing, muted>>
    BY <1>5 DEF Enqueue, cacheVars, callerVars
  <2>4. QED
    BY <2>1, <2>2, <2>3, ServeStep
<1>6. QED
  BY <1>3, <1>4, <1>5 DEF TaskStep

\* A step that touches no message and changes what is believed of tangled alarms only.
LEMMA AgreeSame ==
    ASSUME TypeOK, ServedInv, HeardInv, UNCHANGED <<tasks, told, flapping, paged>>,
           tangled \subseteq tangled',
           \A b \in Alarms \ tangled' : Believed(b)' = Believed(b)
    PROVE  ServedInv' /\ HeardInv'
<1>1. ServedInv'
  BY DEF ServedInv, Serves
<1>2. \A t \in tasks : t.msg.alarm \in Alarms
  BY DEF TypeOK, TaskRecords, Messages
<1>3. \A a, d : Pending(a, d)' = Pending(a, d)
  BY DEF Pending
<1>4. ASSUME NEW t \in tasks, ~t.msg.escalated, t.todo # {}, t.msg.alarm \notin tangled'
      PROVE  t.msg.resolved = ~Believed(t.msg.alarm)'
  BY <1>2, <1>4 DEF HeardInv
<1>5. ASSUME NEW a \in Alarms, a \notin tangled', NEW d \in Dests, Serves(d, a), ~Pending(a, d)'
      PROVE  Heard(d, a, Believed(a))'
  BY <1>3, <1>5 DEF HeardInv, Heard
<1>6. HeardInv'
  BY <1>4, <1>5 DEF HeardInv, Serves
<1>7. QED
  BY <1>1, <1>6

\* A step that touches none of it.
LEMMA AgreeUntouched ==
    ASSUME TypeOK, AgreeInv,
           UNCHANGED <<allAlarms, tangled, pc, turn, clearing, muted, tasks, told,
                       flapping, paged>>
    PROVE  AgreeInv'
<1>1. \A a \in Alarms : Believed(a)' = Believed(a)
  BY DEF Believed, Booking, Current
<1>2. MutedInv'
  BY DEF AgreeInv, MutedInv
<1>3. QED
  BY <1>1, <1>2, AgreeSame DEF AgreeInv

\* A message is dispatched beside those under way.
LEMMA DispatchAdds ==
    ASSUME NEW m, Dispatch(m)
    PROVE  /\ tasks \subseteq tasks'
           /\ \A t \in tasks' : t \in tasks \/ (t.msg = m /\ t.todo = Uses(m))
           /\ Uses(m) # {} => \E t \in tasks' : t.msg = m /\ t.todo = Uses(m)
<1>1. PICK s \in Tasks : tasks' = tasks \cup
                              (IF Uses(m) = {} THEN {}
                               ELSE {[slot |-> s, msg |-> m, todo |-> Uses(m), posting |-> "none"]})
  BY DEF Dispatch
<1> DEFINE n == [slot |-> s, msg |-> m, todo |-> Uses(m), posting |-> "none"]
<1>2. n.msg = m /\ n.todo = Uses(m)
  OBVIOUS
<1>3. tasks' = tasks \cup (IF Uses(m) = {} THEN {} ELSE {n})
  BY <1>1
<1> HIDE DEF n
<1>4. QED
  BY <1>2, <1>3

\* alert() hands over its message: sent alone it untangles the alarm.
LEMMA AgreeSend ==
    ASSUME TypeOK, AgreeInv, NEW r \in Callers, Send(r)
    PROVE  AgreeInv'
<1>0. PICK a \in Alarms, m \in Messages :
         a = Current(r) /\ m = [alarm |-> a, escalated |-> FALSE, resolved |-> clearing[r]]
  BY CurrentType DEF TypeOK, Messages
<1>1. pc[r] = "send" /\ ~muted[r]
  BY DEF Send, AgreeInv, MutedInv
<1>2. /\ tasks \subseteq tasks'
      /\ \A t \in tasks' : t \in tasks \/ (t.msg = m /\ t.todo = Enabled)
      /\ Enabled # {} => \E t \in tasks' : t.msg = m /\ t.todo = Enabled
  <2>1. Dispatch(m) /\ Uses(m) = Enabled
    BY <1>0 DEF Send, Uses
  <2>2. QED
    BY <2>1, DispatchAdds
<1>3. UNCHANGED <<allAlarms, turn, clearing, muted, told, flapping, paged>>
  BY DEF Send, notifyVars
<1>4. pc'[r] = "book" /\ \A q \in Callers \ {r} : pc'[q] = pc[q]
  BY DEF Send, TypeOK
<1>5. \A q \in Callers : Current(q)' = Current(q)
  BY <1>3 DEF Current
<1>6. Believed(a)' = ~clearing[r]
  <2>1. Booking(r, a)'
    BY <1>0, <1>1, <1>3, <1>4, <1>5 DEF Booking
  <2>2. ASSUME NEW q \in Callers, Booking(q, a)' PROVE q = r
    BY <1>0, <1>5, <2>2, OneCaller DEF Booking
  <2>3. QED
    BY <1>3, <2>1, <2>2 DEF Believed
<1>7. ASSUME NEW b \in Alarms, b # a PROVE Believed(b)' = Believed(b)
  <2>1. \A q \in Callers : Booking(q, b)' = Booking(q, b)
    BY <1>0, <1>1, <1>3, <1>4, <1>5, <1>7 DEF Booking
  <2>2. QED
    BY <1>3, <2>1 DEF Believed
<1>8. m.alarm = a /\ m.escalated = FALSE /\ m.resolved = clearing[r]
  BY <1>0
<1>9. /\ tangled \subseteq tangled' \cup {a}
      /\ UnderWay(a) => a \in tangled'
  BY <1>0 DEF Send
<1>10. ServedInv' /\ MutedInv'
  <2>1. ServedInv'
    BY <1>2, <1>3 DEF AgreeInv, ServedInv, Serves
  <2>2. MutedInv'
    BY <1>3, <1>4 DEF AgreeInv, MutedInv
  <2>3. QED
    BY <2>1, <2>2
<1>11. ASSUME NEW t \in tasks', ~t.msg.escalated, t.todo # {}, t.msg.alarm \notin tangled'
       PROVE  t.msg.resolved = ~Believed(t.msg.alarm)'
  <2>1. CASE t \in tasks
    <3>1. t.msg.alarm \in Alarms /\ t.msg.alarm # a
      BY <1>9, <1>11, <2>1 DEF UnderWay, TypeOK, TaskRecords, Messages
    <3>2. t.msg.resolved = ~Believed(t.msg.alarm)
      BY <1>9, <1>11, <2>1, <3>1 DEF AgreeInv, HeardInv
    <3>3. QED
      BY <1>7, <3>1, <3>2
  <2>2. CASE t \notin tasks
    <3>1. t.msg.alarm = a /\ t.msg.resolved = clearing[r]
      BY <1>2, <1>8, <2>2
    <3>2. clearing[r] = ~~clearing[r]
      BY DEF TypeOK
    <3>3. QED
      BY <1>6, <3>1, <3>2
  <2>3. QED
    BY <2>1, <2>2
<1>12. ASSUME NEW b \in Alarms, b \notin tangled', NEW d \in Dests, Serves(d, b), ~Pending(b, d)'
       PROVE  Heard(d, b, Believed(b))'
  <2>1. b # a
    <3>1. d \in Enabled
      BY <1>12 DEF Serves
    <3>2. PICK t \in tasks' : t.msg = m /\ t.todo = Enabled
      BY <1>2, <3>1
    <3>3. QED
      BY <1>8, <1>12, <3>1, <3>2 DEF Pending
  <2>2. ~Pending(b, d)
    BY <1>2, <1>12 DEF Pending
  <2>3. Heard(d, b, Believed(b))
    BY <1>9, <1>12, <2>1, <2>2 DEF AgreeInv, HeardInv
  <2>4. QED
    BY <1>3, <1>7, <2>1, <2>3 DEF Heard
<1>13. HeardInv'
  BY <1>11, <1>12 DEF HeardInv, Serves
<1>14. QED
  BY <1>10, <1>13 DEF AgreeInv

\* alert() books: what was sent becomes what is booked, and an alarm that ends without a
\* message is tangled.
LEMMA AgreeBook ==
    ASSUME TypeOK, AgreeInv, NEW r \in Callers, Book(r)
    PROVE  AgreeInv'
<1>0. PICK a \in Alarms : a = Current(r)
  BY CurrentType
<1>1. pc[r] = "book" /\ now # 0
  BY DEF Book, TypeOK
<1>2. UNCHANGED <<tasks, told, flapping, paged>>
  BY DEF Book, notifyVars
<1>3. /\ pc'[r] = "evaluate"
      /\ \A q \in Callers \ {r} :
            pc'[q] = pc[q] /\ turn'[q] = turn[q] /\ clearing'[q] = clearing[q] /\ muted'[q] = muted[q]
  BY DEF Book, TypeOK
<1>4. /\ allAlarms'[a] = IF clearing[r] THEN 0 ELSE IF ~muted[r] THEN now ELSE allAlarms[a]
      /\ \A b \in Alarms \ {a} : allAlarms'[b] = allAlarms[b]
      /\ tangled \subseteq tangled'
      /\ clearing[r] /\ muted[r] /\ allAlarms[a] # 0 => a \in tangled'
  <2>1. DOMAIN allAlarms = Alarms
    BY DEF TypeOK
  <2>2. QED
    BY <1>0, <2>1 DEF Book
<1>5. \A q \in Callers : Current(q) = a => q = r
  BY <1>0, OneCaller
<1>6. ASSUME NEW q \in Callers PROVE ~Booking(q, a)'
  <2>1. CASE q = r
    BY <1>3, <2>1 DEF Booking
  <2>2. CASE q # r
    <3>1. Current(q)' = Current(q)
      BY <1>3, <2>2 DEF Current
    <3>2. QED
      BY <1>5, <2>2, <3>1 DEF Booking
  <2>3. QED
    BY <2>1, <2>2
<1>7. Believed(a)' = (allAlarms'[a] # 0)
  BY <1>6 DEF Believed
<1>8. a \notin tangled' => Believed(a)' = Believed(a)
  <2>1. CASE muted[r]
    <3>1. ~\E q \in Callers : Booking(q, a)
      BY <1>5, <2>1 DEF Booking
    <3>2. Believed(a) = (allAlarms[a] # 0)
      BY <3>1 DEF Believed
    <3>3. QED
      BY <1>4, <1>7, <2>1, <3>2
  <2>2. CASE ~muted[r]
    <3>1. Booking(r, a)
      BY <1>0, <1>1, <2>2 DEF Booking
    <3>2. \A q \in Callers : Booking(q, a) => q = r
      BY <1>5 DEF Booking
    <3>3. Believed(a) = ~clearing[r]
      BY <3>1, <3>2 DEF Believed
    <3>4. (allAlarms'[a] # 0) = ~clearing[r]
      BY <1>1, <1>4, <2>2
    <3>5. QED
      BY <1>7, <3>3, <3>4
  <2>3. QED
    BY <2>1, <2>2
<1>9. ASSUME NEW b \in Alarms, b # a PROVE Believed(b)' = Believed(b)
  <2>1. \A q \in Callers : /\ Booking(q, b)' = Booking(q, b)
                           /\ Booking(q, b) => clearing'[q] = clearing[q]
    <3> SUFFICES ASSUME NEW q \in Callers
                 PROVE  /\ Booking(q, b)' = Booking(q, b)
                        /\ Booking(q, b) => clearing'[q] = clearing[q]
      OBVIOUS
    <3>1. CASE q = r
      BY <1>0, <1>3, <1>9, <3>1 DEF Booking
    <3>2. CASE q # r
      BY <1>3, <3>2 DEF Booking, Current
    <3>3. QED
      BY <3>1, <3>2
  <2>2. QED
    BY <1>4, <1>9, <2>1 DEF Believed
<1>10. \A b \in Alarms \ tangled' : Believed(b)' = Believed(b)
  BY <1>8, <1>9
<1>11. MutedInv'
  BY <1>3 DEF AgreeInv, MutedInv
<1>12. QED
  BY <1>2, <1>4, <1>10, <1>11, AgreeSame DEF AgreeInv

\* The callers of alert().
LEMMA AgreeCaller ==
    ASSUME TypeOK, AgreeInv, NEW r \in Callers, CallerStep(r)
    PROVE  AgreeInv'
<1>1. CASE Evaluate(r)
  <2>1. UNCHANGED <<allAlarms, tangled, tasks, told, flapping, paged>>
    BY <1>1 DEF Evaluate, notifyVars
  <2>2. /\ pc[r] = "evaluate"
        /\ pc'[r] = "evaluate" \/ (pc'[r] = "send" /\ ~muted'[r]) \/ (pc'[r] = "book" /\ muted'[r])
        /\ \A q \in Callers \ {r} :
              pc'[q] = pc[q] /\ turn'[q] = turn[q] /\ clearing'[q] = clearing[q] /\ muted'[q] = muted[q]
    BY <1>1 DEF Evaluate, TypeOK
  <2>3. \A q \in Callers, a \in Alarms :
           /\ Booking(q, a)' = Booking(q, a)
           /\ Booking(q, a) => clearing'[q] = clearing[q]
    <3> SUFFICES ASSUME NEW q \in Callers, NEW a \in Alarms
                 PROVE  /\ Booking(q, a)' = Booking(q, a)
                        /\ Booking(q, a) => clearing'[q] = clearing[q]
      OBVIOUS
    <3>1. CASE q = r
      BY <2>2, <3>1 DEF Booking
    <3>2. CASE q # r
      BY <2>2, <3>2 DEF Booking, Current
    <3>3. QED
      BY <3>1, <3>2
  <2>4. \A a \in Alarms : Believed(a)' = Believed(a)
    BY <2>1, <2>3 DEF Believed
  <2>5. MutedInv'
    BY <2>2 DEF AgreeInv, MutedInv
  <2>6. QED
    BY <2>1, <2>4, <2>5, AgreeSame DEF AgreeInv
<1>2. CASE Send(r)
  BY <1>2, AgreeSend
<1>3. CASE Book(r)
  BY <1>3, AgreeBook
<1>4. QED
  BY <1>1, <1>2, <1>3 DEF CallerStep

\* A re-sent message is about another ID and leaves what was heard alone.
LEMMA AgreeEscalation ==
    ASSUME TypeOK, AgreeInv, NEW a \in Alarms, SendEscalation(a)
    PROVE  AgreeInv'
<1>0. PICK m : m = [alarm |-> a, escalated |-> TRUE, resolved |-> FALSE]
  OBVIOUS
<1>1. /\ tasks \subseteq tasks'
      /\ \A t \in tasks' : t \in tasks \/ (t.msg.escalated /\ t.todo \subseteq Enabled)
  <2>1. Dispatch(m)
    BY <1>0 DEF SendEscalation
  <2>2. m.escalated /\ Uses(m) \subseteq Enabled
    BY <1>0 DEF Uses
  <2>3. QED
    BY <2>1, <2>2, DispatchAdds
<1>2. UNCHANGED <<allAlarms, tangled, pc, turn, clearing, muted, told, flapping, paged>>
  BY DEF SendEscalation, cacheVars, notifyVars, callerVars
<1>3. \A b \in Alarms : Believed(b)' = Believed(b)
  BY <1>2 DEF Believed, Booking, Current
<1>4. ServedInv' /\ MutedInv'
  <2>1. ServedInv'
    BY <1>1, <1>2 DEF AgreeInv, ServedInv, Serves
  <2>2. MutedInv'
    BY <1>2 DEF AgreeInv, MutedInv
  <2>3. QED
    BY <2>1, <2>2
<1>5. \A b, d : Pending(b, d)' = Pending(b, d)
  BY <1>1 DEF Pending
<1>6. ASSUME NEW t \in tasks', ~t.msg.escalated, t.todo # {}, t.msg.alarm \notin tangled
      PROVE  t.msg.resolved = ~Believed(t.msg.alarm)'
  <2>1. t \in tasks /\ t.msg.alarm \in Alarms
    BY <1>1, <1>6 DEF TypeOK, TaskRecords, Messages
  <2>2. QED
    BY <1>3, <1>6, <2>1 DEF AgreeInv, HeardInv
<1>7. ASSUME NEW b \in Alarms, b \notin tangled, NEW d \in Dests, Serves(d, b), ~Pending(b, d)'
      PROVE  Heard(d, b, Believed(b))'
  BY <1>2, <1>3, <1>5, <1>7 DEF AgreeInv, HeardInv, Heard
<1>8. HeardInv'
  BY <1>2, <1>6, <1>7 DEF HeardInv, Serves
<1>9. QED
  BY <1>4, <1>8 DEF AgreeInv

\* clearAll tangles the alarms it wipes.
LEMMA AgreeClear ==
    ASSUME TypeOK, AgreeInv, NEW c \in Chains, ClearAll(c)
    PROVE  AgreeInv'
<1>1. UNCHANGED <<pc, turn, clearing, muted, tasks, told, flapping, paged>>
  BY DEF ClearAll, notifyVars, callerVars
<1>2. /\ tangled \subseteq tangled'
      /\ \A b \in Alarms \ tangled' : (allAlarms'[b] # 0) = (allAlarms[b] # 0)
  BY DEF ClearAll, TypeOK
<1>3. \A b \in Alarms \ tangled' : Believed(b)' = Believed(b)
  BY <1>1, <1>2 DEF Believed, Booking, Current
<1>4. MutedInv'
  BY <1>1 DEF AgreeInv, MutedInv
<1>5. QED
  BY <1>1, <1>2, <1>3, <1>4, AgreeSame DEF AgreeInv

LEMMA AgreeStep == TypeOK /\ NotifyInv /\ AgreeInv /\ [Next]_vars => AgreeInv'
<1> SUFFICES ASSUME TypeOK, NotifyInv, AgreeInv, [Next]_vars PROVE AgreeInv'
  OBVIOUS
<1> DEFINE Untouched == UNCHANGED <<allAlarms, tangled, pc, turn, clearing, muted,
                                    tasks, told, flapping, paged>>
<1>1. ASSUME NEW r \in Callers, CallerStep(r) PROVE AgreeInv'
  BY <1>1, AgreeCaller
<1>2. ASSUME NEW t \in tasks, TaskStep(t) PROVE AgreeInv'
  BY <1>2, AgreeTask
<1>3. CASE DigestStep
  <2>1. Untouched
    BY <1>3 DEF DigestStep, Flush, PostDigest, cacheVars, notifyVars, callerVars
  <2>2. QED
    BY <2>1, AgreeUntouched
<1>4. CASE SweepStep
  <2>1. CASE Scan \/ \E a \in Alarms : Consider(a) \/ Mark(a)
    <3>1. Untouched
      BY <2>1 DEF Scan, Consider, Mark, cacheVars, notifyVars, callerVars
    <3>2. QED
      BY <3>1, AgreeUntouched
  <2>2. ASSUME NEW a \in Alarms, SendEscalation(a) PROVE AgreeInv'
    BY <2>2, AgreeEscalation
  <2>3. QED
    BY <1>4, <2>1, <2>2 DEF SweepStep
<1>5. ASSUME NEW c \in Chains, ChainStep(c) PROVE AgreeInv'
  <2>1. CASE SilenceChain(c) \/ UnsilenceChain(c)
    <3>1. Untouched
      BY <2>1 DEF SilenceChain, UnsilenceChain, cacheVars, notifyVars, callerVars
    <3>2. QED
      BY <3>1, AgreeUntouched
  <2>2. CASE ClearAll(c)
    BY <2>2, AgreeClear
  <2>3. QED
    BY <1>5, <2>1, <2>2 DEF ChainStep
<1>6. CASE Tick \/ \E a \in Alarms : ChangeSignal(a)
  <2>1. Untouched
    BY <1>6 DEF Tick, ChangeSignal, cacheVars, notifyVars, callerVars
  <2>2. QED
    BY <2>1, AgreeUntouched
<1>7. CASE UNCHANGED vars
  <2>1. Untouched
    BY <1>7 DEF vars, cacheVars, notifyVars, callerVars
  <2>2. QED
    BY <2>1, AgreeUntouched
<1> QED
  BY <1>1, <1>2, <1>3, <1>4, <1>5, <1>6, <1>7 DEF Next

\* What alert() has booked and what the channels were told agree in both directions about
\* every alarm whose last message was sent alone and that has not ended in silence or
\* been wiped since: for any number of dispatch goroutines, and whatever overlapped, was
\* silenced, wiped, flapped, escalated or digested before.
THEOREM AgreementTheorem == Spec => []ChannelsAgree
<1>1. Init => AgreeInv
  <2> SUFFICES ASSUME Init PROVE AgreeInv
    OBVIOUS
  <2>1. ServedInv /\ MutedInv
    BY DEF Init, ServedInv, MutedInv, Ids
  <2>2. /\ \A a \in Alarms : ~Believed(a)
        /\ \A d \in Dests, a \in Alarms : told[d][<<a, FALSE>>] = "none"
    BY DEF Init, Believed, Booking, Ids
  <2>3. HeardInv
    BY <2>2 DEF Init, HeardInv, Heard
  <2>4. QED
    BY <2>1, <2>3 DEF AgreeInv
<1>2. AgreeInv /\ TypeOK => ChannelsAgree
  <2> SUFFICES ASSUME AgreeInv, NEW a \in Alarms, a \notin tangled, NEW d \in Dests,
                      Settled(a), ~Pending(a, d)
               PROVE  /\ allAlarms[a] # 0 /\ Serves(d, a) =>
                            \/ told[d][<<a, FALSE>>] = "firing"
                            \/ d = "pd" /\ paged[<<a, FALSE>>] # 0
                      /\ allAlarms[a] = 0 => told[d][<<a, FALSE>>] # "firing"
    BY DEF ChannelsAgree, ActiveIsAnnounced, ClearIsAnnounced
  <2>1. Believed(a) = (allAlarms[a] # 0)
    BY DEF Believed, Booking, Settled
  <2>2. Serves(d, a) => Heard(d, a, Believed(a))
    BY DEF AgreeInv, HeardInv
  <2>3. told[d][<<a, FALSE>>] = "firing" => Serves(d, a)
    BY DEF AgreeInv, ServedInv
  <2>4. QED
    BY <2>1, <2>2, <2>3 DEF Heard
<1>3. QED
  BY <1>1, <1>2, AgreeStep, TypeCorrect, NotifyInvInvariant, PTL DEF Spec
=============================================================================
