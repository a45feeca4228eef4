------------------------------ MODULE NodeHealth ------------------------------
(***************************************************************************)
(* The RPC endpoints of one chain. Three goroutines share their flags       *)
(* without a lock: monitorHealth probes every node once a period, newRpc     *)
(* looks for a usable node whenever the websocket session has ended, and     *)
(* watch turns the flags into alarms every two seconds. A graceful exit      *)
(* saves part of the flags and the next start restores them.                 *)
(*                                                                           *)
(* Time is kept as ages that stop growing once they exceed NodeDownMin, so   *)
(* behaviours are not bounded in length. One Tick is one turn of watch.      *)
(*                                                                           *)
(* If lasting, the first newRpc of the process has succeeded and no other    *)
(* follows: only probes write the flags. If not, sessions end and restarts   *)
(* come at any time. A probe's writes to a node are separate steps, so       *)
(* newRpc may come between two of them.                                      *)
(***************************************************************************)
EXTENDS Naturals, Sequences, FiniteSets

CONSTANTS
    Nodes,          \* cc.Nodes
    Order,          \* and their order in the configuration
    AlertIfDown,    \* the nodes with alert_if_down
    NodeDownMin,    \* node_down_alert_minutes, in ticks
    ProbePeriod,    \* the ticker of monitorHealth, in ticks
    Scenarios       \* what to start with: lasting, alertIfNoServers, the conditions that
                    \* nodes are in, and how many restarts there are

AllConditions == {"ok", "lagging", "syncing", "dead"}

ASSUME NodeAssumption ==
    /\ Order \in Seq(Nodes)
    /\ Nodes = {Order[i] : i \in DOMAIN Order} /\ IsFiniteSet(Nodes)
    /\ AlertIfDown \subseteq Nodes
    /\ NodeDownMin \in Nat /\ ProbePeriod \in Nat \ {0}
    /\ Scenarios \subseteq [lasting : BOOLEAN, alertIfNoServers : BOOLEAN,
                           conditions : SUBSET AllConditions, restarts : Nat]

VARIABLES
    lasting,     \* the websocket session and the process never end
    alertIfNoServers,  \* alert_if_no_servers, never changes
    conditions,  \* what can become of a node, never changes
    condition,   \* how each node really is
    node,        \* the flags of each NodeConfig
    probe,       \* where the probe of each node is
    probed,      \* nodes probed in this period
    phase,       \* ticks since the period began
    rpc,         \* where newRpc is: the next endpoint, and its anyWorking
    client,      \* cc.client is not nil
    ws,          \* the websocket: cc.wsclient is nil and cc.noWsNodes is not set
                 \* ("untried") or is ("failed"), or cc.wsclient is not nil ("opened")
    noNodes,     \* cc.noNodes
    ready,       \* valInfo has a moniker: watch is in its main loop
    noNodesSec,  \* watch's local counter
    watched,     \* watch has had its turn in this tick
    active,      \* alarms of the chain (alarms.exist)
    sinceOk,     \* history: age of the last answer that found a node healthy
    torn,        \* history: nodes marked down between a probe's write to down and its
                 \* write to downSince, which therefore goes with the wrong outage
    forgotten,   \* history: nodes whose recovery watch had not seen at the last restart
    restarts     \* bound: restarts of the process to come

confVars == <<lasting, alertIfNoServers, conditions>>
nodeVars == <<confVars, condition, node, probe, probed, phase, sinceOk, torn, forgotten>>
rpcVars == <<rpc, client, ws, noNodes, ready>>
watchVars == <<noNodesSec, watched, active>>
vars == <<nodeVars, rpcVars, watchVars, restarts>>

Long == NodeDownMin + 1          \* an age above the threshold
Epoch == Long                    \* time.Unix(0, 0) is decades old
Zero == Long + 1                 \* the zero time.Time, which IsZero
Ages == 0..Long
Older(age) == IF age < Long THEN age + 1 ELSE age

Down(n) == <<"RPCNodeDown", n>>
Lagging(n) == <<"RPCNodeLagging", n>>
NoRPCEndpoints == <<"NoRPCEndpoints", Order>>
Alarms == {Down(n) : n \in AlertIfDown} \cup {Lagging(n) : n \in AlertIfDown} \cup {NoRPCEndpoints}

NodeFlags == [down : BOOLEAN, wasDown : BOOLEAN, downSince : Ages \cup {Zero},
              lagging : BOOLEAN, wasLagging : BOOLEAN, laggingSince : Ages \cup {Zero}]
Probes == [at : {"idle", "answered", "cleared"}, behind : BOOLEAN]
Attempts == [next : 0..(Len(Order) + 2), anyWorking : BOOLEAN]

Idle == [at |-> "idle", behind |-> FALSE]
NotTrying == [next |-> 0, anyWorking |-> FALSE]
\* newRpc has succeeded, and WsRun is next.
Connected == [next |-> Len(Order) + 2, anyWorking |-> FALSE]

NoServers == noNodes \/ ws = "failed"
Usable(n) == condition[n] \in {"ok", "lagging"}

-----------------------------------------------------------------------------
(* monitorHealth: one probe per node and period *)

\* Mutated: a node is marked down without noting since when.
MarkDownMutant(r) == [r EXCEPT !.down = TRUE]

\* Mutated: every failed probe starts the outage anew.
MarkDownAgainMutant(r) == [r EXCEPT !.down = TRUE, !.downSince = 0]

MarkDown(r) == IF r.down THEN r ELSE [r EXCEPT !.down = TRUE, !.downSince = 0]

\* Mutated: a node that goes down stays lagging.
FailedMutant(n, r) == IF n \in AlertIfDown THEN MarkDown(r) ELSE [r EXCEPT !.down = TRUE]

\* The closure alert of a failed probe.
Failed(n, r) ==
    LET s == IF r.lagging
             THEN [r EXCEPT !.lagging = FALSE, !.laggingSince = Epoch, !.wasLagging = TRUE]
             ELSE r
    IN IF n \in AlertIfDown THEN MarkDown(s) ELSE [s EXCEPT !.down = TRUE]

ProbeFails(n) ==
    /\ phase = 0 /\ n \notin probed /\ probe[n] = Idle /\ ~Usable(n)
    /\ node' = [node EXCEPT ![n] = Failed(n, @)]
    /\ probed' = probed \cup {n}
    /\ UNCHANGED <<confVars, condition, probe, phase, sinceOk, torn, forgotten,
                   rpcVars, watchVars, restarts>>

\* Mutated: a probe does not note that the node was down.
NotedMutant(r) == r

Noted(r) == [r EXCEPT !.wasDown = @ \/ r.down]

\* The node answers and is in sync: the probe notes that it was down, then waits
\* until its metric has been taken from statsChan.
ProbeAnswered(n) ==
    /\ phase = 0 /\ n \notin probed /\ probe[n] = Idle /\ Usable(n)
    /\ node' = [node EXCEPT ![n] = Noted(@)]
    /\ probe' = [probe EXCEPT ![n] = [at |-> "answered",
                                      behind |-> condition[n] = "lagging"]]
    /\ sinceOk' = [sinceOk EXCEPT ![n] = 0]
    /\ UNCHANGED <<confVars, condition, probed, phase, torn, forgotten,
                   rpcVars, watchVars, restarts>>

Lag(r, behind) ==
    IF behind
    THEN IF r.lagging THEN r ELSE [r EXCEPT !.lagging = TRUE, !.laggingSince = 0]
    ELSE [r EXCEPT !.wasLagging = @ \/ r.lagging, !.lagging = FALSE, !.laggingSince = Epoch]

\* It clears the flags one after the other: down, downSince, noNodes, lagging.
ProbeClears(n) ==
    /\ probe[n].at = "answered"
    /\ node' = [node EXCEPT ![n].down = FALSE]
    /\ torn' = torn \ {n}
    /\ probe' = [probe EXCEPT ![n].at = "cleared"]
    /\ UNCHANGED <<confVars, condition, probed, phase, sinceOk, forgotten,
                   rpcVars, watchVars, restarts>>

Recovered(r) == [r EXCEPT !.downSince = Epoch]

ProbeDone(n) ==
    /\ probe[n].at = "cleared"
    /\ node' = [node EXCEPT ![n] = Lag(Recovered(@), probe[n].behind)]
    /\ torn' = torn \cup {m \in {n} : node[m].down}
    /\ noNodes' = FALSE
    /\ probe' = [probe EXCEPT ![n] = Idle]
    /\ probed' = probed \cup {n}
    /\ UNCHANGED <<confVars, condition, phase, sinceOk, forgotten,
                   rpc, client, ws, ready, watchVars, restarts>>

-----------------------------------------------------------------------------
(* newRpc, called in a loop with WsRun *)

\* Every call tries some endpoint, and leaves a client behind.
StartRpc ==
    /\ ~lasting /\ rpc = NotTrying
    /\ rpc' = [next |-> 1, anyWorking |-> \E n \in Nodes : ~node[n].down]
    /\ client' = TRUE
    /\ UNCHANGED <<nodeVars, ws, noNodes, ready, watchVars, restarts>>

Trying == rpc.next \in DOMAIN Order
FallingBack == rpc.next = Len(Order) + 1

Skips(n) == rpc.anyWorking /\ node[n].down

SkipNode ==
    /\ Trying /\ Skips(Order[rpc.next])
    /\ rpc' = [rpc EXCEPT !.next = @ + 1]
    /\ UNCHANGED <<nodeVars, client, ws, noNodes, ready, watchVars, restarts>>

\* tryUrl fails: the node is marked down, and nothing else of it is touched.
TryFails ==
    /\ Trying
    /\ LET n == Order[rpc.next] IN
         /\ ~Skips(n) /\ ~Usable(n)
         /\ node' = [node EXCEPT ![n] = MarkDown(@)]
    /\ rpc' = [rpc EXCEPT !.next = @ + 1]
    /\ UNCHANGED <<confVars, condition, probe, probed, phase, sinceOk, torn, forgotten, client, ws,
                   noNodes, ready, watchVars, restarts>>

TrySucceeds ==
    /\ Trying
    /\ ~Skips(Order[rpc.next]) /\ Usable(Order[rpc.next])
    /\ noNodes' = FALSE
    /\ rpc' = Connected
    /\ UNCHANGED <<nodeVars, client, ws, ready, watchVars, restarts>>

\* No node of the configuration was usable: a public fallback is, or is not.
FallbackSucceeds ==
    /\ FallingBack
    /\ noNodes' = FALSE
    /\ rpc' = Connected
    /\ UNCHANGED <<nodeVars, client, ws, ready, watchVars, restarts>>

FallbackFails ==
    /\ FallingBack
    /\ noNodes' = TRUE
    /\ active' = {}
    /\ rpc' = NotTrying
    /\ UNCHANGED <<nodeVars, client, ws, ready, noNodesSec, watched, restarts>>

\* GetValInfo, of the loop or of monitorHealth, gets an answer: the validator has a
\* moniker, and watch goes on to its main loop, with its counter at zero.
GetValInfo ==
    /\ client /\ ~ready
    /\ ready' = TRUE /\ noNodesSec' = 0
    /\ UNCHANGED <<nodeVars, rpc, client, ws, noNodes, watched, active, restarts>>

\* WsRun gives up if GetValInfo has got no answer for two minutes; otherwise it opens
\* a session, or finds no endpoint for one. Then noWsNodes depends on whether an earlier
\* session has left its client behind.
WsRunGivesUp ==
    /\ rpc = Connected /\ ~ready
    /\ rpc' = NotTrying
    /\ UNCHANGED <<nodeVars, client, ws, noNodes, ready, watchVars, restarts>>

WsRun(opens) ==
    /\ rpc = Connected /\ ready
    /\ rpc' = NotTrying
    /\ ws' = IF opens \/ ws = "opened" THEN "opened" ELSE "failed"
    /\ UNCHANGED <<nodeVars, client, noNodes, ready, watchVars, restarts>>

-----------------------------------------------------------------------------
(* watch *)

Expired(age) == age = Long

\* evaluateRPCNodeDownAlert and evaluateRPCNodeLaggingAlert
RaisesDown(n) == n \in AlertIfDown /\ node[n].down /\ ~node[n].wasDown /\ Expired(node[n].downSince)

ClearsDown(n) == n \in AlertIfDown /\ ~node[n].down /\ node[n].wasDown

RaisesLagging(n) ==
    n \in AlertIfDown /\ node[n].lagging /\ ~node[n].wasLagging /\ Expired(node[n].laggingSince)

ClearsLagging(n) == n \in AlertIfDown /\ ~node[n].lagging /\ node[n].wasLagging

\* Before watch knows the moniker it counts from its start, whatever there is;
\* afterwards evaluateNoRPCEndpointsAlert counts while there is no node.
CountTo(k) == IF k < Long THEN k + 1 ELSE k

EndpointsRaised ==
    IF alertIfNoServers /\ NoServers /\ noNodesSec >= NodeDownMin THEN {NoRPCEndpoints} ELSE {}

WatchWaits ==
    /\ ~ready /\ ~watched
    /\ watched' = TRUE
    /\ active' = active \cup EndpointsRaised
    /\ noNodesSec' = IF alertIfNoServers THEN CountTo(noNodesSec) ELSE 0
    /\ UNCHANGED <<nodeVars, rpcVars, restarts>>

Raised ==
    {Down(n) : n \in {m \in Nodes : RaisesDown(m)}}
      \cup {Lagging(n) : n \in {m \in Nodes : RaisesLagging(m)}}
      \cup EndpointsRaised

\* Mutated: NoRPCEndpoints is not resolved.
ClearedMutant ==
    {Down(n) : n \in {m \in Nodes : ClearsDown(m)}}
      \cup {Lagging(n) : n \in {m \in Nodes : ClearsLagging(m)}}

Cleared ==
    {Down(n) : n \in {m \in Nodes : ClearsDown(m)}}
      \cup {Lagging(n) : n \in {m \in Nodes : ClearsLagging(m)}}
      \cup (IF alertIfNoServers /\ ~NoServers THEN {NoRPCEndpoints} ELSE {})

Watch ==
    /\ ready /\ ~watched
    /\ watched' = TRUE
    /\ active' = (active \cup Raised) \ Cleared
    /\ noNodesSec' = IF alertIfNoServers /\ NoServers THEN CountTo(noNodesSec) ELSE 0
    /\ node' = [n \in Nodes |->
                  [node[n] EXCEPT !.wasDown = @ /\ ~ClearsDown(n),
                                  !.wasLagging = @ /\ ~ClearsLagging(n)]]
    /\ UNCHANGED <<confVars, condition, probe, probed, phase, sinceOk, torn, forgotten,
                   rpcVars, restarts>>

-----------------------------------------------------------------------------
(* Time, the nodes, and restarts *)

AgeOf(age) == IF age = Zero THEN Zero ELSE Older(age)

NextPhase == (phase + 1) % ProbePeriod

\* watch is prompt, and newRpc has ten seconds; WsRun may wait for GetValInfo. The probes
\* of a period start together and time out long before those of the next: they fall into
\* its first tick.
Tick ==
    /\ watched
    /\ rpc = NotTrying \/ (rpc = Connected /\ ~ready)
    /\ phase = 0 => probed = Nodes
    /\ watched' = FALSE
    /\ phase' = NextPhase
    /\ probed' = IF phase' = 0 THEN {} ELSE probed
    /\ node' = [n \in Nodes |-> [node[n] EXCEPT !.downSince = AgeOf(@),
                                                !.laggingSince = AgeOf(@)]]
    /\ sinceOk' = [n \in Nodes |-> Older(sinceOk[n])]
    /\ UNCHANGED <<confVars, condition, probe, torn, forgotten,
                   rpcVars, noNodesSec, active, restarts>>

Change(n, c) ==
    /\ condition[n] # c
    /\ condition' = [condition EXCEPT ![n] = c]
    /\ UNCHANGED <<confVars, node, probe, probed, phase, sinceOk, torn, forgotten,
                   rpcVars, watchVars, restarts>>

NewNode == [down |-> FALSE, wasDown |-> FALSE, downSince |-> Zero,
            lagging |-> FALSE, wasLagging |-> FALSE, laggingSince |-> Zero]

\* What saveOnExit writes of a node and loadConfig makes of it.
Restored(r) ==
    LET down == r.down /\ r.downSince # Zero
        lagging == r.lagging /\ r.laggingSince # Zero
    IN [down |-> down, wasDown |-> down,
        downSince |-> IF down THEN r.downSince ELSE Zero,
        lagging |-> lagging, wasLagging |-> lagging,
        laggingSince |-> IF lagging THEN r.laggingSince ELSE Zero]

\* A graceful exit and the start after it, while no alarm has gone stale.
Restart ==
    /\ ~lasting /\ restarts > 0
    /\ restarts' = restarts - 1
    /\ node' = [n \in Nodes |-> Restored(node[n])]
    /\ noNodes' = \A n \in Nodes : node'[n].down
    /\ forgotten' = {n \in Nodes : \/ node[n].wasDown /\ ~node[n].down
                                   \/ node[n].wasLagging /\ ~node[n].lagging}
    /\ ready' = FALSE /\ torn' = {}
    /\ rpc' = NotTrying /\ client' = FALSE /\ ws' = "untried"
    /\ probe' = [n \in Nodes |-> Idle] /\ probed' = {} /\ phase' = 0
    /\ noNodesSec' = 0
    /\ UNCHANGED <<confVars, condition, sinceOk, watched, active>>

-----------------------------------------------------------------------------
Init ==
    /\ \E s \in Scenarios :
          /\ lasting = s.lasting /\ alertIfNoServers = s.alertIfNoServers
          /\ conditions = s.conditions /\ restarts = s.restarts
    /\ condition \in [Nodes -> conditions]
    /\ node = [n \in Nodes |-> NewNode]
    /\ probe = [n \in Nodes |-> Idle] /\ probed = {} /\ phase = 0
    /\ rpc = NotTrying /\ noNodes = FALSE /\ ready = lasting /\ client = lasting
    /\ ws = IF lasting THEN "opened" ELSE "untried"
    /\ noNodesSec = 0 /\ watched = FALSE
    /\ active = {}
    /\ sinceOk = [n \in Nodes |-> 0] /\ torn = {} /\ forgotten = {}

ProbeStep(n) == ProbeFails(n) \/ ProbeAnswered(n) \/ ProbeClears(n) \/ ProbeDone(n)
RpcStep ==
    \/ StartRpc \/ SkipNode \/ TryFails \/ TrySucceeds \/ FallbackSucceeds \/ FallbackFails
    \/ WsRunGivesUp \/ \E opens \in BOOLEAN : WsRun(opens)
WatchStep == WatchWaits \/ Watch

Next ==
    \/ \E n \in Nodes : ProbeStep(n)
    \/ RpcStep
    \/ GetValInfo
    \/ WatchStep
    \/ Tick
    \/ \E n \in Nodes, c \in conditions : Change(n, c)
    \/ Restart

Spec == Init /\ [][Next]_vars

\* Goroutines run and time passes, also while newRpc is called over and over: it
\* sleeps between two calls. newRpc is called again until it has led to a session, and
\* nothing makes a session end. Nothing is assumed of GetValInfo.
Fairness ==
    /\ \A n \in Nodes : WF_vars(ProbeStep(n))
    /\ WF_vars(WatchStep)
    /\ SF_vars(Tick)
    /\ WF_vars(RpcStep /\ (rpc # NotTrying \/ ws # "opened"))

FairSpec == Spec /\ Fairness

-----------------------------------------------------------------------------
(* Properties *)

VarTypes ==
    /\ lasting \in BOOLEAN /\ alertIfNoServers \in BOOLEAN
    /\ conditions \subseteq AllConditions /\ condition \in [Nodes -> conditions]
    /\ node \in [Nodes -> NodeFlags]
    /\ probe \in [Nodes -> Probes]
    /\ probed \subseteq Nodes
    /\ phase \in 0..(ProbePeriod - 1)
    /\ rpc \in Attempts
    /\ client \in BOOLEAN /\ ws \in {"untried", "failed", "opened"}
    /\ noNodes \in BOOLEAN /\ ready \in BOOLEAN
    /\ noNodesSec \in Ages /\ watched \in BOOLEAN
    /\ active \subseteq Alarms
    /\ sinceOk \in [Nodes -> Ages] /\ torn \subseteq Nodes /\ forgotten \subseteq Nodes
    /\ restarts \in Nat

DownIsDated == \A n \in AlertIfDown : node[n].down => node[n].downSince # Zero

\* Every variable keeps its type; node alarms are those of nodes with alert_if_down, and
\* such a node is never down without the time of it, which is all that is saved of it.
TypeOK == VarTypes /\ DownIsDated

\* watch raises RPCNodeDown only for a node that no probe has found healthy for
\* more than NodeDownMin, whatever newRpc and restarts do to its flags in between; with
\* one exception. If newRpc marks the node down just after a probe has cleared down, the
\* probe's next write makes that outage begin in 1970, and it is alerted at once.
DownAlarmJustified ==
    [][\A n \in Nodes : Down(n) \in active' \ active => sinceOk[n] = Long \/ n \in torn]_active

\* The two alarms of a node are never open together: a probe that fails supersedes
\* lagging long before the outage is old enough to be alerted (newRpc does not).
OneAlarmPerOutage == lasting => \A n \in Nodes : ~(Down(n) \in active /\ Lagging(n) \in active)

Unusable(n) == condition[n] \in {"dead", "syncing"}

\* Where only probes write its flags, a node that is out of service for good is
\* eventually alerted, whatever flags earlier outages and lags have left behind.
DownIsAlerted ==
    lasting => \A n \in AlertIfDown : <>[]Unusable(n) => []<>(Down(n) \in active)

\* The same for a node that answers but has fallen behind for good. After a restart
\* it does not hold: a lagging node is restored with wasLagging set.
LaggingIsAlerted ==
    lasting => \A n \in AlertIfDown : <>[](condition[n] = "lagging") => []<>(Lagging(n) \in active)

\* No lasting trouble of a node that is watched goes without an alarm.
OutageIsAlerted == DownIsAlerted /\ LaggingIsAlerted

\* Once a node is healthy for good, and the validator known, its alarms are resolved:
\* wasDown and wasLagging outlive every order of probes, newRpc, watch and restart until
\* watch acts on them; unless the last restart came after a probe had cleared the node and
\* before watch had its turn. Then the alarm is restored without the flag that ends it.
NodeAlarmIsResolved ==
    \A n \in AlertIfDown :
        <>[](condition[n] = "ok" /\ ready /\ n \notin forgotten)
            => []<>(active \cap {Down(n), Lagging(n)} = {})

\* While some node is healthy for good, NoRPCEndpoints does not stay, given that the
\* validator is known and not every websocket has failed: a newRpc that failed before the
\* node came back cannot hold noNodes up.
EndpointsAlarmIsResolved ==
    (\E n \in Nodes : <>[](condition[n] = "ok")) /\ <>[](ready /\ ws # "failed")
        => []<>(NoRPCEndpoints \notin active)
=============================================================================
