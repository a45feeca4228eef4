-------------------------- MODULE NodeHealthProofs --------------------------
(***************************************************************************)
(* Proofs about NodeHealth for every set of nodes, every threshold and      *)
(* every number of restarts: types, that RPCNodeDown is never premature,    *)
(* and that a node does not have two alarms while only probes write.        *)
(***************************************************************************)
EXTENDS NodeHealth, TLAPS

-----------------------------------------------------------------------------
(* Types *)

\* The ages and the two times that stand for none are numbers.
LEMMA AgeFacts ==
    /\ Long \in Nat \ {0} /\ Long \in Ages /\ Epoch \in Ages /\ 0 \in Ages
    /\ Zero \notin Ages /\ Ages \subseteq Nat /\ Zero \in Nat
    /\ \A a \in Ages : Older(a) \in Ages /\ CountTo(a) \in Ages
    /\ \A a \in Ages \cup {Zero} : AgeOf(a) \in Ages \cup {Zero}
BY NodeAssumption DEF Long, Epoch, Zero, Ages, Older, CountTo, AgeOf

\* The writers of a node's flags keep their types.
LEMMA FlagTypes ==
    ASSUME NEW r \in NodeFlags
    PROVE  /\ MarkDown(r) \in NodeFlags /\ Noted(r) \in NodeFlags /\ Restored(r) \in NodeFlags
           /\ \A n \in Nodes : Failed(n, r) \in NodeFlags
           /\ \A b \in BOOLEAN : Lag(r, b) \in NodeFlags
<1> USE AgeFacts
<1>1. MarkDown(r) \in NodeFlags
  BY DEF MarkDown, NodeFlags
<1>2. Noted(r) \in NodeFlags
  BY DEF Noted, NodeFlags
<1>3. Restored(r) \in NodeFlags
  BY DEF Restored, NodeFlags
<1>4. ASSUME NEW n \in Nodes PROVE Failed(n, r) \in NodeFlags
  BY DEF Failed, MarkDown, NodeFlags
<1>5. ASSUME NEW b \in BOOLEAN PROVE Lag(r, b) \in NodeFlags
  BY DEF Lag, NodeFlags
<1>6. QED
  BY <1>1, <1>2, <1>3, <1>4, <1>5

\* So do the steps of a probe, of Watch and of Tick.
LEMMA StepTypes ==
    ASSUME NEW r \in NodeFlags
    PROVE  /\ [r EXCEPT !.down = FALSE] \in NodeFlags
           /\ Recovered(r) \in NodeFlags
           /\ \A x, y \in BOOLEAN : [r EXCEPT !.wasDown = @ /\ x, !.wasLagging = @ /\ y] \in NodeFlags
           /\ [r EXCEPT !.downSince = AgeOf(@), !.laggingSince = AgeOf(@)] \in NodeFlags
<1> USE AgeFacts
<1>1. [r EXCEPT !.down = FALSE] \in NodeFlags
  BY DEF NodeFlags
<1>2. Recovered(r) \in NodeFlags
  BY DEF Recovered, NodeFlags
<1>3. ASSUME NEW x \in BOOLEAN, NEW y \in BOOLEAN
      PROVE  [r EXCEPT !.wasDown = @ /\ x, !.wasLagging = @ /\ y] \in NodeFlags
  BY DEF NodeFlags
<1>4. [r EXCEPT !.downSince = AgeOf(@), !.laggingSince = AgeOf(@)] \in NodeFlags
  BY DEF NodeFlags
<1>5. QED
  BY <1>1, <1>2, <1>3, <1>4

\* newRpc stays within the list of nodes.
LEMMA AttemptTypes ==
    /\ NotTrying \in Attempts /\ Connected \in Attempts
    /\ \A b \in BOOLEAN : [next |-> 1, anyWorking |-> b] \in Attempts
    /\ \A r \in Attempts : r.next \in DOMAIN Order =>
          /\ [r EXCEPT !.next = @ + 1] \in Attempts
          /\ Order[r.next] \in Nodes
BY NodeAssumption DEF Attempts, NotTrying, Connected

\* The types are inductive.
LEMMA TypeStep == VarTypes /\ [Next]_vars => VarTypes'
<1> SUFFICES ASSUME VarTypes, [Next]_vars PROVE VarTypes'
  OBVIOUS
<1> USE DEF confVars, nodeVars, rpcVars, watchVars
<1>1. ASSUME NEW n \in Nodes, ProbeFails(n) PROVE VarTypes'
  <2>1. node' \in [Nodes -> NodeFlags]
    BY <1>1, FlagTypes DEF ProbeFails, VarTypes
  <2>2. QED
    BY <1>1, <2>1 DEF ProbeFails, VarTypes
<1>2. ASSUME NEW n \in Nodes, ProbeAnswered(n) PROVE VarTypes'
  <2>1. node' \in [Nodes -> NodeFlags]
    BY <1>2, FlagTypes DEF ProbeAnswered, VarTypes
  <2>2. probe' \in [Nodes -> Probes]
    BY <1>2 DEF ProbeAnswered, VarTypes, Probes
  <2>3. sinceOk' \in [Nodes -> Ages]
    BY <1>2, AgeFacts DEF ProbeAnswered, VarTypes
  <2>4. QED
    BY <1>2, <2>1, <2>2, <2>3 DEF ProbeAnswered, VarTypes
<1>3. ASSUME NEW n \in Nodes, ProbeClears(n) PROVE VarTypes'
  <2>1. node' \in [Nodes -> NodeFlags]
    BY <1>3, StepTypes DEF ProbeClears, VarTypes
  <2>2. probe' \in [Nodes -> Probes]
    BY <1>3 DEF ProbeClears, VarTypes, Probes
  <2>3. QED
    BY <1>3, <2>1, <2>2 DEF ProbeClears, VarTypes
<1>4. ASSUME NEW n \in Nodes, ProbeDone(n) PROVE VarTypes'
  <2>1. Recovered(node[n]) \in NodeFlags
    BY StepTypes DEF VarTypes
  <2>2. probe[n].behind \in BOOLEAN
    BY DEF VarTypes, Probes
  <2>3. Lag(Recovered(node[n]), probe[n].behind) \in NodeFlags
    BY <2>1, <2>2, FlagTypes
  <2>4. node' \in [Nodes -> NodeFlags]
    BY <1>4, <2>3 DEF ProbeDone, VarTypes
  <2>5. probe' \in [Nodes -> Probes]
    BY <1>4 DEF ProbeDone, VarTypes, Probes, Idle
  <2>6. QED
    BY <1>4, <2>4, <2>5 DEF ProbeDone, VarTypes
<1>5. CASE StartRpc
  BY <1>5, AttemptTypes DEF StartRpc, VarTypes
<1>6. CASE SkipNode
  BY <1>6, AttemptTypes DEF SkipNode, Trying, VarTypes
<1>7. CASE TryFails
  <2>1. Order[rpc.next] \in Nodes /\ rpc' \in Attempts
    BY <1>7, AttemptTypes DEF TryFails, Trying, VarTypes
  <2>2. node' \in [Nodes -> NodeFlags]
    BY <1>7, <2>1, FlagTypes DEF TryFails, VarTypes
  <2>3. QED
    BY <1>7, <2>1, <2>2 DEF TryFails, VarTypes
<1>8. CASE TrySucceeds
  BY <1>8, AttemptTypes DEF TrySucceeds, VarTypes
<1>9. CASE FallbackSucceeds
  BY <1>9, AttemptTypes DEF FallbackSucceeds, VarTypes
<1>10. CASE FallbackFails
  BY <1>10, AttemptTypes DEF FallbackFails, VarTypes
<1>11. CASE WatchWaits
  <2>1. active' \subseteq Alarms
    BY <1>11 DEF WatchWaits, VarTypes, EndpointsRaised, Alarms
  <2>2. noNodesSec' \in Ages
    BY <1>11, AgeFacts DEF WatchWaits, VarTypes
  <2>3. QED
    BY <1>11, <2>1, <2>2 DEF WatchWaits, VarTypes
<1>12. CASE Watch
  <2>1. node' \in [Nodes -> NodeFlags]
    <3>1. \A n \in Nodes : (~ClearsDown(n)) \in BOOLEAN /\ (~ClearsLagging(n)) \in BOOLEAN
      OBVIOUS
    <3>2. QED
      BY <1>12, <3>1, StepTypes DEF Watch, VarTypes
  <2>2. active' \subseteq Alarms
    BY <1>12 DEF Watch, VarTypes, Raised, RaisesDown, RaisesLagging, EndpointsRaised, Alarms
  <2>3. noNodesSec' \in Ages
    BY <1>12, AgeFacts DEF Watch, VarTypes
  <2>4. QED
    BY <1>12, <2>1, <2>2, <2>3 DEF Watch, VarTypes
<1>13. CASE Tick
  <2>1. node' \in [Nodes -> NodeFlags]
    BY <1>13, StepTypes DEF Tick, VarTypes
  <2>2. phase' \in 0..(ProbePeriod - 1)
    <3>1. \A a \in Nat, p \in Nat \ {0} : (a + 1) % p \in 0..(p - 1)
      OBVIOUS
    <3>2. phase \in Nat /\ ProbePeriod \in Nat \ {0}
      BY NodeAssumption DEF VarTypes
    <3>3. QED
      BY <1>13, <3>1, <3>2 DEF Tick, NextPhase
  <2>3. sinceOk' \in [Nodes -> Ages]
    BY <1>13, AgeFacts DEF Tick, VarTypes
  <2>4. QED
    BY <1>13, <2>1, <2>2, <2>3 DEF Tick, VarTypes
<1>14. ASSUME NEW n \in Nodes, NEW c \in conditions, Change(n, c) PROVE VarTypes'
  BY <1>14 DEF Change, VarTypes
<1>15. CASE Restart
  <2>1. node' \in [Nodes -> NodeFlags]
    BY <1>15, FlagTypes DEF Restart, VarTypes
  <2>2. probe' \in [Nodes -> Probes]
    BY <1>15 DEF Restart, Probes, Idle
  <2>3. phase' \in 0..(ProbePeriod - 1) /\ restarts' \in Nat /\ noNodesSec' \in Ages
    BY <1>15, NodeAssumption, AgeFacts DEF Restart, VarTypes
  <2>4. noNodes' \in BOOLEAN
    BY <1>15 DEF Restart
  <2>5. QED
    BY <1>15, <2>1, <2>2, <2>3, <2>4, AttemptTypes DEF Restart, VarTypes
<1>16. CASE UNCHANGED vars
  BY <1>16 DEF vars, VarTypes
<1>17. CASE GetValInfo
  BY <1>17, AgeFacts DEF GetValInfo, VarTypes
<1>18. CASE WsRunGivesUp
  BY <1>18, AttemptTypes DEF WsRunGivesUp, VarTypes
<1>19. ASSUME NEW opens \in BOOLEAN, WsRun(opens) PROVE VarTypes'
  BY <1>19, AttemptTypes DEF WsRun, VarTypes
<1>20. QED
  BY <1>1, <1>2, <1>3, <1>4, <1>5, <1>6, <1>7, <1>8, <1>9, <1>10, <1>11, <1>12,
     <1>13, <1>14, <1>15, <1>16, <1>17, <1>18, <1>19 DEF Next, ProbeStep, RpcStep, WatchStep

LEMMA VarTypesCorrect == Spec => []VarTypes
<1>1. Init => VarTypes
  <2> SUFFICES ASSUME Init PROVE VarTypes
    OBVIOUS
  <2>1. node \in [Nodes -> NodeFlags]
    BY AgeFacts DEF Init, NewNode, NodeFlags
  <2>2. probe \in [Nodes -> Probes]
    BY DEF Init, Idle, Probes
  <2>3. phase \in 0..(ProbePeriod - 1)
    BY NodeAssumption DEF Init
  <2>4. /\ lasting \in BOOLEAN /\ alertIfNoServers \in BOOLEAN /\ restarts \in Nat
        /\ conditions \subseteq AllConditions /\ ready \in BOOLEAN /\ client \in BOOLEAN
    BY NodeAssumption DEF Init
  <2>5. QED
    BY <2>1, <2>2, <2>3, <2>4, AgeFacts, AttemptTypes DEF Init, VarTypes
<1>2. QED
  BY <1>1, TypeStep, PTL DEF Spec

-----------------------------------------------------------------------------
(* What the writers do to the flags *)

LEMMA MarkDownEffect ==
    ASSUME NEW r \in NodeFlags
    PROVE  /\ MarkDown(r).down /\ MarkDown(r).wasDown = r.wasDown
           /\ MarkDown(r).downSince = IF r.down THEN r.downSince ELSE 0
BY DEF MarkDown, NodeFlags

LEMMA FailedEffect ==
    ASSUME NEW r \in NodeFlags, NEW n \in Nodes
    PROVE  /\ Failed(n, r).down /\ Failed(n, r).wasDown = r.wasDown
           /\ ~Failed(n, r).lagging /\ (Failed(n, r).wasLagging <=> r.wasLagging \/ r.lagging)
           /\ n \in AlertIfDown => Failed(n, r).downSince = IF r.down THEN r.downSince ELSE 0
<1> DEFINE s == IF r.lagging
                THEN [r EXCEPT !.lagging = FALSE, !.laggingSince = Epoch, !.wasLagging = TRUE]
                ELSE r
<1>1. /\ s \in NodeFlags /\ s.down = r.down /\ s.wasDown = r.wasDown /\ ~s.lagging
      /\ s.downSince = r.downSince /\ (s.wasLagging <=> r.wasLagging \/ r.lagging)
  BY AgeFacts DEF NodeFlags
<1> HIDE DEF s
<1>2. /\ MarkDown(s).lagging = s.lagging /\ MarkDown(s).wasLagging = s.wasLagging
      /\ [s EXCEPT !.down = TRUE].lagging = s.lagging
      /\ [s EXCEPT !.down = TRUE].wasLagging = s.wasLagging
      /\ [s EXCEPT !.down = TRUE].wasDown = s.wasDown /\ [s EXCEPT !.down = TRUE].down
  BY <1>1 DEF MarkDown, NodeFlags
<1>3. Failed(n, r) = IF n \in AlertIfDown THEN MarkDown(s) ELSE [s EXCEPT !.down = TRUE]
  BY DEF Failed, s
<1>4. QED
  BY <1>1, <1>2, <1>3, MarkDownEffect

LEMMA NotedEffect ==
    ASSUME NEW r \in NodeFlags
    PROVE  /\ Noted(r).down = r.down /\ (Noted(r).wasDown <=> r.wasDown \/ r.down)
           /\ Noted(r).lagging = r.lagging /\ Noted(r).wasLagging = r.wasLagging
           /\ Noted(r).downSince = r.downSince
BY DEF Noted, NodeFlags

LEMMA DoneEffect ==
    ASSUME NEW r \in NodeFlags, NEW b \in BOOLEAN
    PROVE  /\ Lag(Recovered(r), b).down = r.down /\ Lag(Recovered(r), b).wasDown = r.wasDown
           /\ Lag(Recovered(r), b).downSince = Epoch
           /\ Lag(Recovered(r), b).lagging = b
           /\ Lag(Recovered(r), b).wasLagging <=> r.wasLagging \/ (~b /\ r.lagging)
<1>1. /\ Recovered(r) \in NodeFlags
      /\ Recovered(r).down = r.down /\ Recovered(r).downSince = Epoch
      /\ Recovered(r).wasDown = r.wasDown
      /\ Recovered(r).lagging = r.lagging /\ Recovered(r).wasLagging = r.wasLagging
  <2>1. Recovered(r) \in NodeFlags
    BY StepTypes
  <2>2. /\ Recovered(r).down = r.down /\ Recovered(r).downSince = Epoch
        /\ Recovered(r).wasDown = r.wasDown
        /\ Recovered(r).lagging = r.lagging /\ Recovered(r).wasLagging = r.wasLagging
    BY DEF Recovered, NodeFlags
  <2>3. QED
    BY <2>1, <2>2
<1>2. ASSUME NEW s \in NodeFlags
      PROVE  /\ Lag(s, b).down = s.down /\ Lag(s, b).wasDown = s.wasDown
             /\ Lag(s, b).downSince = s.downSince
             /\ Lag(s, b).lagging = b
             /\ Lag(s, b).wasLagging <=> s.wasLagging \/ (~b /\ s.lagging)
  BY DEF Lag, NodeFlags
<1>3. QED
  BY <1>1, <1>2

-----------------------------------------------------------------------------
(* Alarms of watch *)

\* What one pass of watch raises and takes back for a node.
LEMMA WatchedAlarms ==
    ASSUME NEW n \in Nodes
    PROVE  /\ Down(n) \in Raised <=> RaisesDown(n)
           /\ Lagging(n) \in Raised <=> RaisesLagging(n)
           /\ Down(n) \in Cleared <=> ClearsDown(n)
           /\ Lagging(n) \in Cleared <=> ClearsLagging(n)
           /\ Down(n) # NoRPCEndpoints /\ Lagging(n) # NoRPCEndpoints
BY DEF Raised, Cleared, EndpointsRaised, Down, Lagging, NoRPCEndpoints

\* Without a pass in watch's main loop no alarm of a node is raised.
LEMMA OnlyWatchRaises ==
    ASSUME [Next]_vars, ~Watch, NEW n \in Nodes
    PROVE  /\ Down(n) \in active' => Down(n) \in active
           /\ Lagging(n) \in active' => Lagging(n) \in active
BY WatchedAlarms
   DEF Next, vars, ProbeStep, RpcStep, WatchStep, ProbeFails, ProbeAnswered, ProbeClears,
       ProbeDone, StartRpc, SkipNode, TryFails, TrySucceeds, FallbackSucceeds, FallbackFails,
       GetValInfo, WsRunGivesUp, WsRun, WatchWaits, EndpointsRaised, Tick, Change, Restart,
       watchVars

-----------------------------------------------------------------------------
(* RPCNodeDown is never premature *)

\* An outage that watch may alert is not older than the time without a healthy answer.
\* Where it is, because a probe has just answered or the process was restarted, wasDown
\* is set, and only watch takes that back, when the node is no longer down; or newRpc has
\* come between two writes of a probe, and the node is in torn until a probe clears it.
OutageInv ==
    \A n \in AlertIfDown :
        node[n].down /\ ~node[n].wasDown /\ n \notin torn => node[n].downSince <= sinceOk[n]

\* While the websocket session lasts newRpc is not called, so a node whose flag the
\* probe has cleared is not marked down before the probe is done.
ProbeInv ==
    lasting => /\ rpc = NotTrying
               /\ \A n \in Nodes : probe[n].at = "cleared" => ~node[n].down

HealthInv == OutageInv /\ ProbeInv /\ DownIsDated

\* HealthInv is about these fields of the nodes, and about the probes and newRpc.
LEMMA HealthFrame ==
    ASSUME HealthInv, lasting' = lasting, torn' = torn, sinceOk' = sinceOk,
           UNCHANGED rpc \/ ~lasting,
           \A n \in Nodes : /\ node'[n].down = node[n].down
                            /\ node'[n].downSince = node[n].downSince
                            /\ node[n].down /\ node[n].wasDown => node'[n].wasDown
                            /\ probe'[n].at = "cleared" => probe[n].at = "cleared"
    PROVE  HealthInv'
BY NodeAssumption DEF HealthInv, OutageInv, ProbeInv, DownIsDated

LEMMA HealthStep == VarTypes /\ HealthInv /\ [Next]_vars => HealthInv'
<1> SUFFICES ASSUME VarTypes, HealthInv, [Next]_vars PROVE HealthInv'
  OBVIOUS
<1> USE DEF confVars, nodeVars, rpcVars, watchVars
<1>a. /\ \A n \in Nodes : node[n] \in NodeFlags /\ probe[n] \in Probes
      /\ AlertIfDown \subseteq Nodes
  BY NodeAssumption DEF VarTypes
<1>b. lasting => ~Trying /\ ~FallingBack /\ rpc # Connected
  BY NodeAssumption DEF HealthInv, ProbeInv, NotTrying, Connected, Trying, FallingBack
<1>c. \A n \in Nodes : sinceOk[n] \in Nat
  BY AgeFacts DEF VarTypes
<1>d. 0 # Zero /\ Epoch # Zero
  BY NodeAssumption DEF Zero, Epoch, Long
<1>1. ASSUME NEW n \in Nodes, ProbeFails(n) PROVE HealthInv'
  <2>1. /\ node'[n] = Failed(n, node[n]) /\ \A m \in Nodes : m # n => node'[m] = node[m]
        /\ probe' = probe /\ probe[n] = Idle
    BY <1>1 DEF ProbeFails, VarTypes
  <2>2. OutageInv'
    BY <1>1, <1>a, <1>c, <2>1, FailedEffect DEF ProbeFails, HealthInv, OutageInv
  <2>3. ProbeInv'
    BY <1>1, <2>1 DEF ProbeFails, HealthInv, ProbeInv, Idle
  <2>4. DownIsDated'
    BY <1>a, <1>d, <2>1, FailedEffect DEF HealthInv, DownIsDated
  <2>5. QED
    BY <2>2, <2>3, <2>4 DEF HealthInv
<1>2. ASSUME NEW n \in Nodes, ProbeAnswered(n) PROVE HealthInv'
  <2>1. /\ node'[n] = Noted(node[n]) /\ \A m \in Nodes : m # n => node'[m] = node[m]
        /\ probe'[n].at = "answered" /\ \A m \in Nodes : m # n => probe'[m] = probe[m]
        /\ \A m \in Nodes : m # n => sinceOk'[m] = sinceOk[m]
    BY <1>2 DEF ProbeAnswered, VarTypes
  <2>2. OutageInv'
    BY <1>2, <1>a, <2>1, NotedEffect DEF ProbeAnswered, HealthInv, OutageInv
  <2>3. ProbeInv'
    BY <1>2, <2>1 DEF ProbeAnswered, HealthInv, ProbeInv
  <2>4. DownIsDated'
    <3>1. node'[n].down = node[n].down /\ node'[n].downSince = node[n].downSince
      BY <1>a, <2>1, NotedEffect
    <3>2. QED
      BY <1>a, <2>1, <3>1 DEF HealthInv, DownIsDated
  <2>5. QED
    BY <2>2, <2>3, <2>4 DEF HealthInv
<1>3. ASSUME NEW n \in Nodes, ProbeClears(n) PROVE HealthInv'
  <2>1. ~node'[n].down /\ \A m \in Nodes : m # n => node'[m] = node[m]
    BY <1>3, <1>a DEF ProbeClears, VarTypes, NodeFlags
  <2>2. /\ \A m \in Nodes : m # n => probe'[m] = probe[m]
        /\ \A m \in Nodes : m # n => (m \in torn' <=> m \in torn)
    BY <1>3 DEF ProbeClears, VarTypes
  <2>3. QED
    BY <1>3, <1>a, <2>1, <2>2 DEF ProbeClears, HealthInv, OutageInv, ProbeInv, DownIsDated
<1>4. ASSUME NEW n \in Nodes, ProbeDone(n) PROVE HealthInv'
  <2>1. probe[n].behind \in BOOLEAN /\ (lasting => ~node[n].down)
    BY <1>4, <1>a DEF ProbeDone, HealthInv, ProbeInv, Probes
  <2>2. /\ node'[n] = Lag(Recovered(node[n]), probe[n].behind)
        /\ \A m \in Nodes : m # n => node'[m] = node[m] /\ probe'[m] = probe[m]
        /\ node[n].down => n \in torn'
        /\ torn \subseteq torn'
    BY <1>4 DEF ProbeDone, VarTypes
  <2>3. node'[n].down = node[n].down /\ node'[n].downSince # Zero
    BY <1>a, <1>d, <2>1, <2>2, DoneEffect
  <2>4. QED
    BY <1>4, <1>a, <2>1, <2>2, <2>3 DEF ProbeDone, HealthInv, OutageInv, ProbeInv, DownIsDated
<1>5. CASE StartRpc
  BY <1>5, HealthFrame DEF StartRpc
<1>6. CASE SkipNode
  BY <1>6, <1>b, HealthFrame DEF SkipNode
<1>7. CASE TryFails
  <2>1. ~lasting /\ Order[rpc.next] \in Nodes
    BY <1>7, <1>b, AttemptTypes DEF TryFails, Trying, VarTypes
  <2>2. OutageInv'
    BY <1>7, <1>a, <1>c, <2>1, MarkDownEffect DEF TryFails, HealthInv, OutageInv, VarTypes
  <2>3. DownIsDated'
    BY <1>7, <1>a, <1>d, <2>1, MarkDownEffect DEF TryFails, HealthInv, DownIsDated, VarTypes
  <2>4. QED
    BY <1>7, <2>1, <2>2, <2>3 DEF TryFails, HealthInv, ProbeInv
<1>8. CASE TrySucceeds
  BY <1>8, <1>b, HealthFrame DEF TrySucceeds
<1>9. CASE FallbackSucceeds
  BY <1>9, <1>b, HealthFrame DEF FallbackSucceeds
<1>10. CASE FallbackFails
  BY <1>10, <1>b, HealthFrame DEF FallbackFails
<1>11. CASE WatchWaits
  BY <1>11, HealthFrame DEF WatchWaits
<1>12. CASE Watch
  <2>1. ASSUME NEW n \in Nodes
        PROVE  /\ node'[n].down = node[n].down /\ node'[n].downSince = node[n].downSince
               /\ node[n].down /\ node[n].wasDown => node'[n].wasDown
    BY <1>12, <1>a DEF Watch, ClearsDown, NodeFlags
  <2>2. QED
    BY <1>12, <2>1, HealthFrame DEF Watch
<1>13. CASE Tick
  <2>1. ASSUME NEW n \in Nodes
        PROVE  /\ node'[n].down = node[n].down /\ node'[n].wasDown = node[n].wasDown
               /\ node'[n].downSince = AgeOf(node[n].downSince)
    BY <1>13, <1>a DEF Tick, NodeFlags
  <2>2. ASSUME NEW a \in Ages \cup {Zero}, NEW b \in Ages
        PROVE  (a <= b => AgeOf(a) <= Older(b)) /\ (a # Zero => AgeOf(a) # Zero)
    BY <2>2, NodeAssumption DEF AgeOf, Older, Ages, Zero, Long
  <2>3. \A n \in Nodes : node[n].downSince \in Ages \cup {Zero} /\ sinceOk[n] \in Ages
    BY <1>a DEF NodeFlags, VarTypes
  <2>4. OutageInv'
    <3> SUFFICES ASSUME NEW n \in AlertIfDown, node'[n].down, ~node'[n].wasDown, n \notin torn'
                 PROVE  node'[n].downSince <= sinceOk'[n]
      BY DEF OutageInv
    <3>1. n \in Nodes /\ node[n].downSince <= sinceOk[n]
      BY <1>13, <1>a, <2>1 DEF Tick, HealthInv, OutageInv
    <3>2. AgeOf(node[n].downSince) <= Older(sinceOk[n])
      BY <2>2, <2>3, <3>1
    <3>3. QED
      BY <1>13, <2>1, <3>1, <3>2 DEF Tick
  <2>5. DownIsDated'
    BY <1>a, <2>1, <2>2, <2>3 DEF HealthInv, DownIsDated
  <2>6. ProbeInv'
    BY <1>13, <2>1 DEF Tick, HealthInv, ProbeInv
  <2>7. QED
    BY <2>4, <2>5, <2>6 DEF HealthInv
<1>14. ASSUME NEW n \in Nodes, NEW c \in conditions, Change(n, c) PROVE HealthInv'
  BY <1>14, HealthFrame DEF Change
<1>15. CASE Restart
  <2>1. ~lasting /\ ~lasting'
    BY <1>15 DEF Restart
  <2>2. ASSUME NEW n \in Nodes
        PROVE  node'[n].down => node'[n].wasDown /\ node'[n].downSince # Zero
    BY <1>15 DEF Restart, Restored
  <2>3. QED
    BY <1>a, <2>1, <2>2 DEF HealthInv, OutageInv, ProbeInv, DownIsDated
<1>16. CASE UNCHANGED vars
  BY <1>16, HealthFrame DEF vars
<1>17. CASE GetValInfo
  BY <1>17, HealthFrame DEF GetValInfo
<1>18. CASE WsRunGivesUp
  BY <1>18, <1>b, HealthFrame DEF WsRunGivesUp
<1>19. ASSUME NEW opens \in BOOLEAN, WsRun(opens) PROVE HealthInv'
  BY <1>19, <1>b, HealthFrame DEF WsRun
<1>20. QED
  BY <1>1, <1>2, <1>3, <1>4, <1>5, <1>6, <1>7, <1>8, <1>9, <1>10, <1>11, <1>12,
     <1>13, <1>14, <1>15, <1>16, <1>17, <1>18, <1>19 DEF Next, ProbeStep, RpcStep, WatchStep

LEMMA HealthInvariant == Spec => []HealthInv
<1>1. Init => HealthInv
  <2> SUFFICES ASSUME Init PROVE HealthInv
    OBVIOUS
  <2>1. \A n \in Nodes : ~node[n].down /\ probe[n].at = "idle"
    BY DEF Init, NewNode, Idle
  <2>2. QED
    BY <2>1, NodeAssumption DEF Init, HealthInv, OutageInv, ProbeInv, DownIsDated
<1>2. QED
  BY <1>1, HealthStep, VarTypesCorrect, PTL DEF Spec

\* Every variable keeps its type, for any nodes, thresholds and number of restarts, and a
\* node with alert_if_down that is down has the time since when.
THEOREM NodeTypeCorrect == Spec => []TypeOK
<1>1. VarTypes /\ HealthInv => TypeOK
  BY DEF TypeOK, HealthInv
<1>2. QED
  BY <1>1, VarTypesCorrect, HealthInvariant, PTL

\* Whatever probes, newRpc and restarts do to the flags, watch raises RPCNodeDown only
\* for a node that no probe has found healthy for longer than the threshold, or that
\* newRpc has marked down between two writes of a probe.
THEOREM DownAlarmTheorem == Spec => DownAlarmJustified
<1>1. VarTypes /\ HealthInv /\ [Next]_vars
        => [\A n \in Nodes : Down(n) \in active' \ active => sinceOk[n] = Long \/ n \in torn]_active
  <2> SUFFICES ASSUME VarTypes, HealthInv, [Next]_vars, NEW n \in Nodes,
                      Down(n) \in active' \ active, n \notin torn
               PROVE  sinceOk[n] = Long
    OBVIOUS
  <2>1. Watch
    BY OnlyWatchRaises
  <2>2. RaisesDown(n)
    BY <2>1, WatchedAlarms DEF Watch
  <2>3. Long <= sinceOk[n] /\ sinceOk[n] \in Ages
    BY <2>2 DEF RaisesDown, Expired, HealthInv, OutageInv, VarTypes
  <2>4. QED
    BY <2>3, NodeAssumption DEF Ages, Long
<1>2. QED
  BY <1>1, HealthInvariant, VarTypesCorrect, PTL DEF Spec, DownAlarmJustified

-----------------------------------------------------------------------------
(* One alarm per outage *)

\* While only probes write, an alarm that is open has its flag set or the flag that
\* lets watch take it back, and a node is never down and lagging at once.
AlarmInv ==
    lasting => \A n \in Nodes :
        /\ ~(node[n].down /\ node[n].lagging)
        /\ probe[n].at = "answered" /\ node[n].down => node[n].wasDown
        /\ Down(n) \in active => node[n].down \/ node[n].wasDown
        /\ Lagging(n) \in active => node[n].lagging \/ node[n].wasLagging
        /\ Down(n) \in active \/ Lagging(n) \in active => n \in AlertIfDown

LEMMA AlarmStep == VarTypes /\ ProbeInv /\ AlarmInv /\ [Next]_vars => AlarmInv'
<1> SUFFICES ASSUME VarTypes, ProbeInv, AlarmInv, [Next]_vars, lasting', NEW m \in Nodes
             PROVE  /\ ~(node'[m].down /\ node'[m].lagging)
                    /\ probe'[m].at = "answered" /\ node'[m].down => node'[m].wasDown
                    /\ Down(m) \in active' => node'[m].down \/ node'[m].wasDown
                    /\ Lagging(m) \in active' => node'[m].lagging \/ node'[m].wasLagging
                    /\ Down(m) \in active' \/ Lagging(m) \in active' => m \in AlertIfDown
  BY DEF AlarmInv
<1> DEFINE Holds ==
             /\ ~(node'[m].down /\ node'[m].lagging)
             /\ probe'[m].at = "answered" /\ node'[m].down => node'[m].wasDown
             /\ Down(m) \in active' => node'[m].down \/ node'[m].wasDown
             /\ Lagging(m) \in active' => node'[m].lagging \/ node'[m].wasLagging
             /\ Down(m) \in active' \/ Lagging(m) \in active' => m \in AlertIfDown
<1> SUFFICES Holds
  OBVIOUS
<1> USE DEF confVars, nodeVars, rpcVars, watchVars
<1>a. lasting
  BY DEF Next, vars, ProbeStep, RpcStep, WatchStep, ProbeFails, ProbeAnswered, ProbeClears,
         ProbeDone, StartRpc, SkipNode, TryFails, TrySucceeds, FallbackSucceeds,
         FallbackFails, GetValInfo, WsRunGivesUp, WsRun, WatchWaits, Watch, Tick, Change, Restart
<1>b. node[m] \in NodeFlags /\ probe[m] \in Probes
  BY DEF VarTypes
<1>c. /\ ~(node[m].down /\ node[m].lagging)
      /\ probe[m].at = "answered" /\ node[m].down => node[m].wasDown
      /\ Down(m) \in active => node[m].down \/ node[m].wasDown
      /\ Lagging(m) \in active => node[m].lagging \/ node[m].wasLagging
      /\ Down(m) \in active \/ Lagging(m) \in active => m \in AlertIfDown
  BY <1>a DEF AlarmInv
<1>d. ~Trying /\ ~FallingBack /\ rpc # Connected
  BY <1>a, NodeAssumption DEF ProbeInv, Trying, FallingBack, NotTrying, Connected
<1>e. ASSUME ~Watch
      PROVE  /\ Down(m) \in active' => Down(m) \in active
             /\ Lagging(m) \in active' => Lagging(m) \in active
  BY <1>e, OnlyWatchRaises
<1>1. ASSUME NEW n \in Nodes, ProbeFails(n), ~Watch PROVE Holds
  <2>1. CASE n = m
    <3>1. node'[m] = Failed(m, node[m]) /\ probe'[m] = probe[m] /\ probe[m] = Idle
      BY <1>1, <2>1 DEF ProbeFails, VarTypes
    <3>2. QED
      BY <1>1, <1>b, <1>c, <1>e, <3>1, FailedEffect DEF Idle
  <2>2. CASE n # m
    BY <1>1, <1>c, <1>e, <2>2 DEF ProbeFails, VarTypes
  <2>3. QED
    BY <2>1, <2>2
<1>2. ASSUME NEW n \in Nodes, ProbeAnswered(n), ~Watch PROVE Holds
  <2>1. CASE n = m
    <3>1. node'[m] = Noted(node[m])
      BY <1>2, <2>1 DEF ProbeAnswered, VarTypes
    <3>2. QED
      BY <1>2, <1>b, <1>c, <1>e, <3>1, NotedEffect
  <2>2. CASE n # m
    BY <1>2, <1>c, <1>e, <2>2 DEF ProbeAnswered, VarTypes
  <2>3. QED
    BY <2>1, <2>2
<1>3. ASSUME NEW n \in Nodes, ProbeClears(n), ~Watch PROVE Holds
  <2>1. CASE n = m
    <3>1. /\ ~node'[m].down /\ node'[m].wasDown = node[m].wasDown
          /\ node'[m].lagging = node[m].lagging /\ node'[m].wasLagging = node[m].wasLagging
          /\ probe[m].at = "answered"
      BY <1>3, <1>b, <2>1 DEF ProbeClears, VarTypes, NodeFlags
    <3>2. QED
      BY <1>3, <1>c, <1>e, <3>1
  <2>2. CASE n # m
    BY <1>3, <1>c, <1>e, <2>2 DEF ProbeClears, VarTypes
  <2>3. QED
    BY <2>1, <2>2
<1>4. ASSUME NEW n \in Nodes, ProbeDone(n), ~Watch PROVE Holds
  <2>1. CASE n = m
    <3>1. /\ node'[m] = Lag(Recovered(node[m]), probe[m].behind) /\ probe'[m] = Idle
          /\ probe[m].behind \in BOOLEAN /\ probe[m].at = "cleared"
      BY <1>4, <1>a, <1>b, <2>1 DEF ProbeDone, VarTypes, Probes
    <3>2. ~node[m].down
      BY <1>a, <3>1 DEF ProbeInv
    <3>3. QED
      BY <1>4, <1>b, <1>c, <1>e, <3>1, <3>2, DoneEffect DEF Idle
  <2>2. CASE n # m
    BY <1>4, <1>c, <1>e, <2>2 DEF ProbeDone, VarTypes
  <2>3. QED
    BY <2>1, <2>2
<1>5. CASE RpcStep
  BY <1>5, <1>a, <1>d
     DEF RpcStep, StartRpc, SkipNode, TryFails, TrySucceeds, FallbackSucceeds, FallbackFails,
         WsRunGivesUp, WsRun
<1>6. CASE WatchWaits /\ ~Watch
  BY <1>6, <1>c, <1>e DEF WatchWaits
<1>7. CASE Watch
  <2>1. /\ node'[m].down = node[m].down /\ node'[m].lagging = node[m].lagging
        /\ node'[m].wasDown <=> node[m].wasDown /\ ~ClearsDown(m)
        /\ node'[m].wasLagging <=> node[m].wasLagging /\ ~ClearsLagging(m)
    BY <1>7, <1>b DEF Watch, NodeFlags
  <2>2. /\ Down(m) \in active' => ~ClearsDown(m) /\ (Down(m) \in active \/ RaisesDown(m))
        /\ Lagging(m) \in active' => ~ClearsLagging(m) /\ (Lagging(m) \in active \/ RaisesLagging(m))
    BY <1>7, WatchedAlarms DEF Watch
  <2>3. probe' = probe
    BY <1>7 DEF Watch
  <2>4. QED
    BY <1>c, <2>1, <2>2, <2>3 DEF RaisesDown, RaisesLagging, ClearsDown
<1>8. CASE Tick /\ ~Watch
  <2>1. /\ node'[m].down = node[m].down /\ node'[m].wasDown = node[m].wasDown
        /\ node'[m].lagging = node[m].lagging /\ node'[m].wasLagging = node[m].wasLagging
    BY <1>8, <1>b DEF Tick, NodeFlags
  <2>2. QED
    BY <1>8, <1>c, <1>e, <2>1 DEF Tick
<1>9. ASSUME NEW n \in Nodes, NEW c \in conditions, Change(n, c), ~Watch PROVE Holds
  BY <1>9, <1>c, <1>e DEF Change
<1>10. CASE Restart
  BY <1>10, <1>a DEF Restart
<1>11. CASE UNCHANGED vars /\ ~Watch
  BY <1>11, <1>c DEF vars
<1>12. CASE GetValInfo /\ ~Watch
  BY <1>12, <1>c, <1>e DEF GetValInfo
<1>13. QED
  <2> HIDE DEF Holds
  <2> QED
    BY <1>1, <1>2, <1>3, <1>4, <1>5, <1>6, <1>7, <1>8, <1>9, <1>10, <1>11, <1>12
       DEF Next, ProbeStep, WatchStep

\* A pass of watch leaves a node with at most one alarm.
LEMMA OneAlarmStep ==
    VarTypes /\ ProbeInv /\ AlarmInv /\ OneAlarmPerOutage /\ [Next]_vars => OneAlarmPerOutage'
<1> SUFFICES ASSUME VarTypes, ProbeInv, AlarmInv, OneAlarmPerOutage, [Next]_vars, lasting',
                    NEW n \in Nodes, Down(n) \in active', Lagging(n) \in active'
             PROVE  FALSE
  BY DEF OneAlarmPerOutage
<1>1. lasting
  BY DEF Next, vars, confVars, nodeVars, ProbeStep, RpcStep, WatchStep, ProbeFails,
         ProbeAnswered, ProbeClears, ProbeDone, StartRpc, SkipNode, TryFails, TrySucceeds,
         FallbackSucceeds, FallbackFails, GetValInfo, WsRunGivesUp, WsRun, WatchWaits, Watch,
         Tick, Change, Restart
<1>2. CASE Watch
  <2>1. /\ ~ClearsDown(n) /\ (Down(n) \in active \/ RaisesDown(n))
        /\ ~ClearsLagging(n) /\ (Lagging(n) \in active \/ RaisesLagging(n))
    BY <1>2, WatchedAlarms DEF Watch
  <2>2. /\ ~(node[n].down /\ node[n].lagging)
        /\ Down(n) \in active => n \in AlertIfDown /\ (node[n].down \/ node[n].wasDown)
        /\ Lagging(n) \in active => n \in AlertIfDown /\ (node[n].lagging \/ node[n].wasLagging)
    BY <1>1 DEF AlarmInv
  <2>3. QED
    BY <2>1, <2>2 DEF RaisesDown, RaisesLagging, ClearsDown, ClearsLagging
<1>3. CASE ~Watch
  BY <1>1, <1>3, OnlyWatchRaises DEF OneAlarmPerOutage
<1>4. QED
  BY <1>2, <1>3

\* Whatever order probes and passes of watch come in, a node whose flags only probes
\* write never has RPCNodeDown and RPCNodeLagging open at once.
THEOREM OneAlarmTheorem == Spec => []OneAlarmPerOutage
<1>1. Init => AlarmInv /\ OneAlarmPerOutage
  <2> SUFFICES ASSUME Init PROVE AlarmInv /\ OneAlarmPerOutage
    OBVIOUS
  <2>1. \A n \in Nodes : ~node[n].down
    BY DEF Init, NewNode
  <2>2. QED
    BY <2>1 DEF Init, AlarmInv, OneAlarmPerOutage
<1>2. HealthInv => ProbeInv
  BY DEF HealthInv
<1>3. QED
  BY <1>1, <1>2, AlarmStep, OneAlarmStep, HealthInvariant, VarTypesCorrect, PTL DEF Spec
=============================================================================
