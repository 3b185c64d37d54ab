---------------------------- MODULE MCProvisioning ----------------------------
(* What an installation or a sign-in leaves behind: of the MCP server, tenants *)
(* and connections; of the centre app, tokens.  A behaviour exercises one of   *)
(* them, and of the tokens those of the connectors or those of the centres,    *)
(* which share no company token.                                               *)
EXTENDS Provisioning, InstallTokens, TLC

VARIABLE part   \* the part this behaviour exercises

InstallInit ==
    /\ Init /\ GrantInit
    /\ part \in {"accounts", "connectors", "centers"}
    /\ part # "accounts" => tenant = {}

TaskPlaces == {task[t].place : t \in Tasks} \cup {NoTask}

InstallNext ==
    /\ UNCHANGED part
    /\ \/ part = "accounts" /\ Next /\ UNCHANGED grantVars
       \/ part = "connectors" /\ GrantNext /\ TaskPlaces' \cap Centers = {} /\ UNCHANGED vars
       \/ part = "centers" /\ GrantNext /\ TaskPlaces' \cap Apps = {} /\ UNCHANGED vars

InstallSpec == InstallInit /\ [][InstallNext]_<<part, vars, grantVars>>

\* The parts share model values, so that one permutation serves both.
ASSUME SharedValues == Tasks = Requests /\ Apps = Locations

Symmetry ==
    Permutations(Requests) \cup Permutations(Users) \cup Permutations(Tenants)
    \cup Permutations(Locations)
=============================================================================
