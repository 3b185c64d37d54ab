----------------------------- MODULE OAuthTokens -----------------------------
(***************************************************************************)
(* The token endpoint of the built-in OAuth server (POST /oauth/token) and *)
(* the two tables it works on, oauth_auth_codes and oauth_tokens.          *)
(*                                                                         *)
(* Several requests are served at once, by one or several processes over   *)
(* the same database.  A request gives up control at each await, so every  *)
(* SQL statement is one step; the JavaScript between two statements runs   *)
(* in the step of the statement before it.                                 *)
(***************************************************************************)
EXTENDS Naturals

CONSTANTS
    Codes,      \* authorization codes
    Tokens,     \* hashes of access and refresh tokens, numbered
    Families,   \* randomUUID() values that name token families
    Clients,    \* registered OAuth clients
    Owners,     \* <<user, tenant>> pairs a login resolved to
    Requests,   \* token requests that can be in flight at the same time
    Nil         \* absence of a value

ASSUME TokensAssumption == Tokens \subseteq Nat

ASSUME NilAssumption ==
    Nil \notin Codes \cup Tokens \cup Families \cup Clients \cup Owners

VARIABLES
    code,       \* oauth_auth_codes
    token,      \* oauth_tokens
    req,        \* the local variables of the requests being served
    known,      \* the tokens that have reached a client in a response
    origin,     \* history: the code each family was started from
    replayed    \* history: the families a replay has revoked, and how

vars == <<code, token, req, known, origin, replayed>>

-----------------------------------------------------------------------------

(* "fresh": unused and unexpired, the only rows consumeAuthCode can match. *)
CodeRow == [status : {"unissued", "fresh", "used", "expired"},
            client : Clients \cup {Nil}, owner : Owners \cup {Nil}]

(* A row is "stored" until the cleanup deletes it. *)
TokenRow == [status : {"unminted", "stored", "purged"},
             kind : {"access", "refresh"}, family : Families \cup {Nil},
             client : Clients \cup {Nil}, owner : Owners \cup {Nil},
             used : BOOLEAN, revoked : BOOLEAN, expired : BOOLEAN]

(* pc names the statement the request executes next: the second statement *)
(* of consumeRefreshToken, the two inserts of issueTokens, the response.  *)
Request == [pc : {"idle", "revoke", "insertAccess", "insertRefresh", "respond"},
            presented : Tokens \cup {Nil},
            family : Families \cup {Nil}, client : Clients \cup {Nil},
            owner : Owners \cup {Nil}, issued : SUBSET Tokens]

NoRequest == [pc |-> "idle", presented |-> Nil, family |-> Nil,
              client |-> Nil, owner |-> Nil, issued |-> {}]

TypeOK ==
    /\ code \in [Codes -> CodeRow]
    /\ token \in [Tokens -> TokenRow]
    /\ req \in [Requests -> Request]
    /\ known \in SUBSET Tokens
    /\ origin \in [Families -> Codes \cup {Nil}]
    /\ replayed \in [Families -> {"no", "raced", "quiet"}]

-----------------------------------------------------------------------------

Stored(t) == token[t].status = "stored"

\* Variant: the used_at test is missing.
ConsumableAgain(t) ==
    /\ Stored(t) /\ token[t].kind = "refresh"
    /\ ~token[t].revoked /\ ~token[t].expired

\* The WHERE clause of consumeRefreshToken: the rows it may mark used.
Consumable(t) ==
    /\ Stored(t)
    /\ token[t].kind = "refresh"
    /\ ~token[t].used /\ ~token[t].revoked /\ ~token[t].expired

\* The WHERE clause of findAccessToken: the tokens /mcp accepts.
AccessLive(t) ==
    /\ Stored(t)
    /\ token[t].kind = "access"
    /\ ~token[t].revoked /\ ~token[t].expired

Live(t) == Consumable(t) \/ AccessLive(t)

\* A request holds a family between consuming a grant and storing the
\* refresh token that replaces it.
Issuing(r) == req[r].pc \in {"insertAccess", "insertRefresh"}

IssuerOf(f) == \E r \in Requests : Issuing(r) /\ req[r].family = f

-----------------------------------------------------------------------------

Init ==
    /\ code = [c \in Codes |-> [status |-> "unissued", client |-> Nil, owner |-> Nil]]
    /\ token = [t \in Tokens |->
                  [status |-> "unminted", kind |-> "access", family |-> Nil,
                   client |-> Nil, owner |-> Nil,
                   used |-> FALSE, revoked |-> FALSE, expired |-> FALSE]]
    /\ req = [r \in Requests |-> NoRequest]
    /\ known = {}
    /\ origin = [f \in Families |-> Nil]
    /\ replayed = [f \in Families |-> "no"]

\* A login has finished and stores the code it sends to the client.
CreateAuthCode(c, client, owner) ==
    /\ code[c].status = "unissued"
    /\ code' = [code EXCEPT ![c] = [status |-> "fresh", client |-> client, owner |-> owner]]
    /\ UNCHANGED <<token, req, known, origin, replayed>>

\* The owner object built by the handler: where the new pair belongs.
Serve(r, f, client, owner) ==
    req' = [req EXCEPT ![r] = [NoRequest EXCEPT !.pc = "insertAccess",
                               !.family = f, !.client = client, !.owner = owner]]

\* Variant: the row is read but not marked used.
RedeemCodeUnmarked(r, c, client, matches) ==
    /\ req[r].pc = "idle"
    /\ code[c].status = "fresh" /\ matches /\ client = code[c].client
    /\ \E f \in Families :
         /\ origin[f] = Nil
         /\ origin' = [origin EXCEPT ![f] = c]
         /\ Serve(r, f, code[c].client, code[c].owner)
    /\ UNCHANGED <<code, token, known, replayed>>

\* Variant: the family is not a new one.
RedeemCodeSharedFamily(r, c, client, matches) ==
    /\ req[r].pc = "idle"
    /\ code[c].status = "fresh" /\ matches /\ client = code[c].client
    /\ code' = [code EXCEPT ![c].status = "used"]
    /\ \E f \in Families :
         /\ origin' = [origin EXCEPT ![f] = c]
         /\ Serve(r, f, code[c].client, code[c].owner)
    /\ UNCHANGED <<token, known, replayed>>

\* grant_type=authorization_code.  consumeAuthCode marks the row used before
\* the client, the redirect URI and the PKCE verifier are compared with it
\* ("matches" says whether the last two agree): a mismatch burns the code.
\* A code that is not fresh matches no row and changes nothing.
RedeemCode(r, c, client, matches) ==
    /\ req[r].pc = "idle"
    /\ code[c].status = "fresh"
    /\ code' = [code EXCEPT ![c].status = "used"]
    /\ \/ /\ matches /\ client = code[c].client
          /\ \E f \in Families :
               /\ origin[f] = Nil
               /\ origin' = [origin EXCEPT ![f] = c]
               /\ Serve(r, f, code[c].client, code[c].owner)
       \/ /\ ~(matches /\ client = code[c].client)
          /\ UNCHANGED <<req, origin>>
    /\ UNCHANGED <<token, known, replayed>>

\* Variant: an expired token is still exchanged.
ConsumeRefreshExpired(r, t, client) ==
    /\ req[r].pc = "idle"
    /\ Stored(t) /\ token[t].kind = "refresh" /\ ~token[t].used /\ ~token[t].revoked
    /\ client = token[t].client
    /\ token' = [token EXCEPT ![t].used = TRUE]
    /\ Serve(r, token[t].family, token[t].client, token[t].owner)
    /\ UNCHANGED <<code, known, origin, replayed>>

\* grant_type=refresh_token, the row matches: marked used, then the client is
\* compared, so that a wrong client burns the token.
ConsumeRefresh(r, t, client) ==
    /\ req[r].pc = "idle"
    /\ Consumable(t)
    /\ token' = [token EXCEPT ![t].used = TRUE]
    /\ \/ /\ client = token[t].client
          /\ Serve(r, token[t].family, token[t].client, token[t].owner)
       \/ /\ client # token[t].client
          /\ UNCHANGED req
    /\ UNCHANGED <<code, known, origin, replayed>>

\* grant_type=refresh_token, no row matches: the second statement follows.
MissRefresh(r, t) ==
    /\ req[r].pc = "idle"
    /\ ~Consumable(t)
    /\ req' = [req EXCEPT ![r] = [NoRequest EXCEPT !.pc = "revoke", !.presented = t]]
    /\ UNCHANGED <<code, token, known, origin, replayed>>

\* The subquery of the second statement: a used refresh token still on file.
ReplayOf(t) == Stored(t) /\ token[t].kind = "refresh" /\ token[t].used

\* Variant: only the refresh tokens are revoked.
RevokedRefreshOnly(f) ==
    [t \in Tokens |-> IF Stored(t) /\ token[t].family = f /\ token[t].kind = "refresh"
                      THEN [token[t] EXCEPT !.revoked = TRUE] ELSE token[t]]

RevokedFamily(f) ==
    [t \in Tokens |-> IF Stored(t) /\ token[t].family = f
                      THEN [token[t] EXCEPT !.revoked = TRUE] ELSE token[t]]

\* A replay revokes every row of the family that is on file at this moment.
RevokeFamily(r) ==
    LET t == req[r].presented
        f == token[t].family
    IN  /\ req[r].pc = "revoke"
        /\ ReplayOf(t)
        /\ token' = RevokedFamily(f)
        /\ replayed' = [replayed EXCEPT ![f] = IF IssuerOf(f) THEN "raced" ELSE "quiet"]
        /\ req' = [req EXCEPT ![r] = NoRequest]
        /\ UNCHANGED <<code, known, origin>>

\* Not a replay: an unknown, expired or already revoked token.
RejectRefresh(r) ==
    /\ req[r].pc = "revoke"
    /\ ~ReplayOf(req[r].presented)
    /\ req' = [req EXCEPT ![r] = NoRequest]
    /\ UNCHANGED <<code, token, known, origin, replayed>>

\* secret() returns a value nobody has seen before: tokens are numbered in the
\* order they are stored.
NextSecret(t) ==
    /\ token[t].status = "unminted"
    /\ \A u \in Tokens : u < t => token[u].status # "unminted"

\* insertOAuthToken.
Insert(r, t, kind) ==
    /\ NextSecret(t)
    /\ token' = [token EXCEPT ![t] =
                   [status |-> "stored", kind |-> kind, family |-> req[r].family,
                    client |-> req[r].client, owner |-> req[r].owner,
                    used |-> FALSE, revoked |-> FALSE, expired |-> FALSE]]
    /\ req' = [req EXCEPT ![r].pc = IF kind = "access" THEN "insertRefresh" ELSE "respond",
                          ![r].issued = @ \cup {t}]
    /\ UNCHANGED <<code, known, origin, replayed>>

InsertAccess(r, t) == req[r].pc = "insertAccess" /\ Insert(r, t, "access")

InsertRefresh(r, t) == req[r].pc = "insertRefresh" /\ Insert(r, t, "refresh")

\* The client receives the pair.
Respond(r) ==
    /\ req[r].pc = "respond"
    /\ known' = known \cup req[r].issued
    /\ req' = [req EXCEPT ![r] = NoRequest]
    /\ UNCHANGED <<code, token, origin, replayed>>

\* Variant: a failed insert starts the pair over, for ever.
AbandonAndRetry(r) ==
    /\ req[r].pc # "idle"
    /\ req' = [req EXCEPT ![r].pc = IF Issuing(r) THEN "insertAccess" ELSE "idle"]
    /\ UNCHANGED <<code, token, known, origin, replayed>>

\* A statement fails (the handler answers 500), the process dies, or the
\* response is lost: what the request has already written stays written.
Abandon(r) ==
    /\ req[r].pc # "idle"
    /\ req' = [req EXCEPT ![r] = NoRequest]
    /\ UNCHANGED <<code, token, known, origin, replayed>>

\* Time passes the expires_at of a row.
ExpireCode(c) ==
    /\ code[c].status = "fresh"
    /\ code' = [code EXCEPT ![c].status = "expired"]
    /\ UNCHANGED <<token, req, known, origin, replayed>>

ExpireToken(t) ==
    /\ Stored(t) /\ ~token[t].expired
    /\ token' = [token EXCEPT ![t].expired = TRUE]
    /\ UNCHANGED <<code, req, known, origin, replayed>>

\* deleteExpiredOAuthArtifacts, started by every issued pair: the rows in S
\* are the ones that have been expired for more than a day.
Purge(S) ==
    /\ \E t \in Tokens : token[t].status # "unminted" /\ token[t].kind = "refresh"
    /\ \A t \in S : Stored(t) /\ token[t].expired
    /\ token' = [t \in Tokens |-> IF t \in S THEN [token[t] EXCEPT !.status = "purged"]
                                  ELSE token[t]]
    /\ UNCHANGED <<code, req, known, origin, replayed>>

Advance(r) ==
    \/ RevokeFamily(r)
    \/ RejectRefresh(r)
    \/ \E t \in Tokens : InsertAccess(r, t) \/ InsertRefresh(r, t)
    \/ Respond(r)

Arrive(r) ==
    \/ \E c \in Codes, client \in Clients, matches \in BOOLEAN : RedeemCode(r, c, client, matches)
    \/ \E t \in known, client \in Clients : ConsumeRefresh(r, t, client)
    \/ \E t \in known : MissRefresh(r, t)

Environment ==
    \/ \E c \in Codes, client \in Clients, owner \in Owners : CreateAuthCode(c, client, owner)
    \/ \E c \in Codes : ExpireCode(c)
    \/ \E t \in Tokens : ExpireToken(t)
    \/ \E S \in (SUBSET Tokens) \ {{}} : Purge(S)

Next ==
    \/ \E r \in Requests : Arrive(r) \/ Advance(r) \/ Abandon(r)
    \/ Environment

Spec == Init /\ [][Next]_vars

\* The event loop resumes every request, and the database answers or fails.
Fairness == \A r \in Requests : WF_vars(Advance(r) \/ Abandon(r))

FairSpec == Spec /\ Fairness

-----------------------------------------------------------------------------

\* A refresh token nobody has exchanged yet, whether or not it still works.
Unspent(t) == Stored(t) /\ token[t].kind = "refresh" /\ ~token[t].used

\* The rotation of a family is a line, never a tree: at most one refresh token
\* is unspent, and none while a request is replacing it.  Two requests that
\* present the same code or the same refresh token at once never both get
\* a pair (consumeAuthCode, consumeRefreshToken, issueTokens).
RotationIsLinear ==
    /\ \A t1, t2 \in Tokens :
          Unspent(t1) /\ Unspent(t2) /\ token[t1].family = token[t2].family => t1 = t2
    /\ \A r \in Requests, t \in Tokens :
          Issuing(r) /\ Unspent(t) => token[t].family # req[r].family
    /\ \A r1, r2 \in Requests :
          Issuing(r1) /\ Issuing(r2) /\ req[r1].family = req[r2].family => r1 = r2

\* One login starts at most one session: no code is the origin of two token
\* families, and the code of a family can never be redeemed again.
OneSessionPerLogin ==
    /\ \A f, g \in Families : origin[f] # Nil /\ origin[f] = origin[g] => f = g
    /\ \A f \in Families : origin[f] # Nil => code[origin[f]].status = "used"

\* However often a family rotates, its tokens speak for the client, user and
\* tenant of the login that started it, and for no other.
TokensSpeakForTheirLogin ==
    /\ \A t \in Tokens : token[t].status # "unminted" =>
          /\ origin[token[t].family] # Nil
          /\ token[t].client = code[origin[token[t].family]].client
          /\ token[t].owner = code[origin[token[t].family]].owner
    /\ \A r \in Requests : Issuing(r) =>
          /\ origin[req[r].family] # Nil
          /\ req[r].client = code[origin[req[r].family]].client
          /\ req[r].owner = code[origin[req[r].family]].owner

\* A replay noticed while nobody is extending the family is final: from then
\* on no token of it works and no request can add one.
QuietReplayIsFinal ==
    \A f \in Families : replayed[f] = "quiet" =>
        /\ ~IssuerOf(f)
        /\ \A t \in Tokens : Live(t) => token[t].family # f

\* The references the code relies on: rows and requests name real families, a
\* second statement names a row, only a family that was started is replayed.
References ==
    /\ \A t \in Tokens : token[t].status # "unminted" => token[t].family \in Families
    /\ \A r \in Requests : Issuing(r) => req[r].family \in Families
    /\ \A r \in Requests : req[r].pc = "revoke" => req[r].presented \in Tokens
    /\ \A f \in Families : replayed[f] # "no" => origin[f] # Nil

\* QuietReplayIsFinal made inductive: every row of such a family is revoked.
QuietFamiliesAreRevoked ==
    \A f \in Families : replayed[f] = "quiet" =>
        /\ ~IssuerOf(f)
        /\ \A t \in Tokens : Stored(t) /\ token[t].family = f => token[t].revoked

IndInv ==
    /\ TypeOK
    /\ References
    /\ RotationIsLinear
    /\ OneSessionPerLogin
    /\ TokensSpeakForTheirLogin
    /\ QuietFamiliesAreRevoked

\* What the comment on consumeRefreshToken says: replaying a used refresh
\* token revokes its whole family.
ReplayRevokesFamily ==
    \A f \in Families : replayed[f] # "no" =>
        \A t \in Tokens : Live(t) => token[t].family # f

\* The session a family stands for.
Usable(f) == \E t \in Tokens : Consumable(t) /\ token[t].family = f

Phase(f) ==
    IF origin[f] = Nil THEN "none"
    ELSE IF IssuerOf(f) THEN "issuing"
    ELSE IF Usable(f) THEN "ready" ELSE "ended"

SessionPhase == [f \in Families |-> Phase(f)]

Session == INSTANCE SessionChain WITH phase <- SessionPhase

\* Every family goes through the life of a session and, once it has ended,
\* nothing the endpoint does brings it back.
SessionsFollowTheChain == Session!Spec

\* Every session whose tokens are being issued gets them or ends; none hangs
\* between the two.
SessionsAreDecided == Session!FairSpec
=============================================================================
