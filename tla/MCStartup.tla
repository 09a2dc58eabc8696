------------------------------- MODULE MCStartup -------------------------------
(***************************************************************************)
(* Values for the constants of Startup.                                    *)
(***************************************************************************)
EXTENDS Startup

Env(skip, fedramp) == [SKIP_LEADER_ELECTION |-> skip, FEDRAMP |-> fedramp]

MCEnvironments == {Env(FALSE, "true"), Env(FALSE, "yes"), Env(TRUE, "false")}
MCElection     == {Env(FALSE, "")}
MCLocal        == {Env(TRUE, "")}

\* Bound: failures of all kinds together.
MCFailures == exits + createErrors + nodeFailures <= 2
================================================================================
