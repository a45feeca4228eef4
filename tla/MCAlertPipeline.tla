--------------------------- MODULE MCAlertPipeline ---------------------------
(***************************************************************************)
(* Small instances of AlertPipeline for TLC: one chain with its watcher and *)
(* its evidence handler, and one alarm of every kind to choose from.        *)
(***************************************************************************)
EXTENDS AlertPipeline, TLC

CONSTANTS
    hub,                                     \* the chain
    watcher, evidenceHandler,                \* its callers of alert()
    missed, stalled, inactive, doubleSign, proposal,   \* its alarms
    t1, t2                                   \* dispatch goroutines

OnHub == [r \in Callers |-> hub]

\* watch() evaluates ChainStalled, then ValidatorInactive, then missed blocks,
\* and the governance proposals last.
WatchOrder == SelectSeq(<<stalled, inactive, missed, proposal>>,
                        LAMBDA a : a \in Alarms)

CallOrder ==
    [r \in Callers |-> IF r = watcher THEN WatchOrder ELSE <<doubleSign>>]

AlarmSeverity == [a \in Alarms |-> IF a = proposal THEN "warning" ELSE "critical"]

\* PagerDuty takes critical alarms only, the other channels everything.
Thresholds == [d \in Dests |-> IF d = "pd" THEN "critical" ELSE "info"]

TaskSymmetry == Permutations(Tasks)
=============================================================================
