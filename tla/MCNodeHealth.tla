----------------------------- MODULE MCNodeHealth -----------------------------
(***************************************************************************)
(* Small instances of NodeHealth for TLC.                                    *)
(***************************************************************************)
EXTENDS NodeHealth

CONSTANTS n1, n2

InOrder == SelectSeq(<<n1, n2>>, LAMBDA n : n \in Nodes)

Scenario(l, a, c, r) ==
    [lasting |-> l, alertIfNoServers |-> a, conditions |-> c, restarts |-> r]

\* One session that lasts; sessions that end, with all endpoints lost; and a restart.
MCScenarios ==
    { Scenario(TRUE, TRUE, AllConditions, 0),
      Scenario(FALSE, TRUE, {"ok", "dead"}, 0),
      Scenario(FALSE, FALSE, {"ok", "lagging", "dead"}, 1) }
=============================================================================
