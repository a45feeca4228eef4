-------------------------- MODULE MCValidatorStatus --------------------------
(***************************************************************************)
(* A small instance of ValidatorStatus for TLC.                             *)
(***************************************************************************)
EXTENDS ValidatorStatus

\* One validator in the active set, and one that has not been bonded yet.
MCStarts ==
    { [known |-> TRUE, bonded |-> TRUE, stake |-> 100, rate |-> 5],
      [known |-> TRUE, bonded |-> FALSE, stake |-> 0, rate |-> 0] }
=============================================================================
