------------------------------ MODULE MCWaiting ------------------------------
(* Where requests wait for one another: calls of the report server for a slot  *)
(* of its bulkhead, logins and connects for rows and keys of the database.  A  *)
(* behaviour exercises one of the two.                                         *)
EXTENDS ReportBulkhead

CONSTANTS Nil, Requests, Users, Tenants, Locations, Credentials

VARIABLES tenant, member, conn, cred, req, unseen,
          part   \* the part this behaviour exercises

Account == INSTANCE Provisioning

accountVars == <<tenant, member, conn, cred, req, unseen>>

WaitInit ==
    /\ Init /\ Account!Init
    /\ part \in {"slots", "rows"}
    /\ part = "slots" => tenant = {}

WaitNext ==
    /\ UNCHANGED part
    /\ \/ part = "slots" /\ Next /\ UNCHANGED accountVars
       \/ part = "rows" /\ Account!Next /\ UNCHANGED vars

WaitSpec ==
    /\ WaitInit /\ [][WaitNext]_<<part, vars, accountVars>>
    /\ Fairness /\ Account!Fairness

\* Every login and connect gets to its end, whatever row or key it waits for (Provisioning).
EveryRequestEnds == Account!EveryRequestEnds
=============================================================================
