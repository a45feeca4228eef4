---------------------------- MODULE MCDashboard ----------------------------
(***************************************************************************)
(* Two chains for TLC: "a" has the alarm, and the numbers of "b" may not be *)
(* finite. They are not of "a", so the two matter to each other only        *)
(* through the aggregator.                                                  *)
(***************************************************************************)
EXTENDS Dashboard

Setup(hidden, asking, numbers, sweeping) ==
    [hideLogs |-> hidden, gated |-> asking, priced |-> numbers, escalates |-> sweeping]

\* What the page shows while the numbers of another chain come and go, and while watch has
\* to wait for the log; and everyone at the aggregator, the log and the lock. (What a gated
\* evaluator calls, an ungated one may call too.)
MCSetups ==
    { Setup(TRUE, {"a"}, {"b"}, FALSE),
      Setup(FALSE, {"a"}, {}, FALSE),
      Setup(FALSE, {}, {}, TRUE) }
=============================================================================
