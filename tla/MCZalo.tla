------------------------------- MODULE MCZalo -------------------------------
(* The Zalo connector: the account's token, and its messages.  The two share *)
(* no state here, so a behaviour exercises one of them.                      *)
EXTENDS ZaloToken, ZaloMessages, TLC

VARIABLE part   \* the part this behaviour exercises

\* Two events are checked without trouble, an event and a reply with one, a single
\* item with two.
ConnectorInit ==
    /\ Init /\ MailInit
    /\ part \in {"token", "mail"}
    /\ LET mix == (Events \cup Replies \cup Notices) \ asked IN
         IF part = "mail" THEN trouble = Cardinality(mix) - 1 + Cardinality(mix \cap Events) \div 2
         ELSE trouble = 0 /\ contact = <<>> /\ mix = Notices

ConnectorNext ==
    /\ UNCHANGED part
    /\ \/ part = "token" /\ Next /\ UNCHANGED mailVars
       \/ part = "mail" /\ MailNext /\ UNCHANGED vars

ConnectorSpec == ConnectorInit /\ [][ConnectorNext]_<<part, vars, mailVars>>

\* The parts share model values, so that one permutation serves both.
ASSUME SharedValues == Handlers = Calls /\ Events = Refreshes

Symmetry == Permutations(Calls) \cup Permutations(Refreshes) \cup Permutations(Instances)
=============================================================================
