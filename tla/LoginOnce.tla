----------------------------- MODULE LoginOnce ------------------------------
(***************************************************************************)
(* What a login request promises: it is spent once, by whichever way of    *)
(* signing in is finished first, gives at most one authorization code, and *)
(* sends its window back with it at most once.  EmailLogin is shown to     *)
(* implement this.                                                         *)
(***************************************************************************)
CONSTANTS Logins,   \* login requests made at /oauth/authorize
          Owners    \* <<user, tenant>> pairs a code may speak for

VARIABLES open,     \* the login requests that may still be finished
          answer,   \* the codes each login request has given, one after the other
          given     \* how often the window of each was sent back with a code

Init ==
    /\ open = {}
    /\ answer = [l \in Logins |-> <<>>]
    /\ given = [l \in Logins |-> 0]

Ask(l) ==
    /\ l \notin open
    /\ answer[l] = <<>>
    /\ open' = open \cup {l}
    /\ UNCHANGED <<answer, given>>

\* Spent by a handler, or expired.
Spend(l) == l \in open /\ open' = open \ {l} /\ UNCHANGED <<answer, given>>

\* The first code is the last.
Answer(l, o) ==
    /\ l \notin open
    /\ answer[l] = <<>>
    /\ answer' = [answer EXCEPT ![l] = <<o>>]
    /\ UNCHANGED <<open, given>>

HandOut(l) ==
    /\ answer[l] # <<>>
    /\ given[l] = 0
    /\ given' = [given EXCEPT ![l] = 1]
    /\ UNCHANGED <<open, answer>>

Next == \E l \in Logins : Ask(l) \/ Spend(l) \/ HandOut(l) \/ \E o \in Owners : Answer(l, o)

Spec == Init /\ [][Next]_<<open, answer, given>>
=============================================================================
