----------------------------- MODULE MCStartup -----------------------------
(* An instance of Startup for TLC.                                         *)
EXTENDS Startup

\* Every set-up with one way of scanning, and every way of scanning with one
\* set-up.
MCDeployments ==
  {<<e, 1, 1>> : e \in Environment}
    \cup {<<[aws |-> "neither", tee_type |-> "Test", placeholders |-> FALSE,
             file_fresh |-> FALSE, secret_fresh |-> FALSE], step, limit>>
            : step \in Steps, limit \in Limits}
=============================================================================
