---------------------------- MODULE SessionChain ----------------------------
(***************************************************************************)
(* What the authorization server promises of the session that one login    *)
(* starts: a straight line of token pairs.  A session is at every moment   *)
(* in one phase; the authorization code opens it, each refresh token is    *)
(* exchanged for one successor, and a session that has ended never comes   *)
(* back.  OAuthTokens is shown to implement this.                          *)
(***************************************************************************)
CONSTANT Families        \* identifiers of sessions (token families)

VARIABLE phase           \* the phase of each session

Phases == {"none", "issuing", "ready", "ended"}

Init == phase = [f \in Families |-> "none"]

Move(f, from, to) ==
    /\ phase[f] = from
    /\ phase' = [phase EXCEPT ![f] = to]

\* An authorization code is redeemed.
Redeem(f) == Move(f, "none", "issuing")

\* The refresh token of the pair that is being issued becomes usable.
Issue(f) == Move(f, "issuing", "ready")

\* The session's one usable refresh token is exchanged.
Rotate(f) == Move(f, "ready", "issuing")

\* The session ends: expiry, revocation, a burnt token or a failed request.
End(f) == Move(f, "issuing", "ended") \/ Move(f, "ready", "ended")

Next == \E f \in Families : Redeem(f) \/ Issue(f) \/ Rotate(f) \/ End(f)

Spec == Init /\ [][Next]_phase

\* With the server answering every request it has begun to serve.
FairSpec == Spec /\ \A f \in Families : WF_phase(Issue(f) \/ Move(f, "issuing", "ended"))
=============================================================================
