-------------------------- MODULE OAuthTokensProofs --------------------------
(***************************************************************************)
(* What holds of the token endpoint for any number of codes, tokens,       *)
(* families and concurrent requests.                                       *)
(***************************************************************************)
EXTENDS OAuthTokens, TLAPS

USE NilAssumption

\* The edits the statements make to a row or to a request keep its type.
LEMMA TokenRowEdits ==
    ASSUME NEW row \in TokenRow
    PROVE  /\ [row EXCEPT !.used = TRUE] \in TokenRow
           /\ [row EXCEPT !.revoked = TRUE] \in TokenRow
           /\ [row EXCEPT !.expired = TRUE] \in TokenRow
           /\ [row EXCEPT !.status = "purged"] \in TokenRow
  BY DEF TokenRow

LEMMA CodeRowEdits ==
    ASSUME NEW row \in CodeRow, NEW s \in {"used", "expired"}
    PROVE  [row EXCEPT !.status = s] \in CodeRow
  BY DEF CodeRow

LEMMA IdleRequest == NoRequest \in Request
  BY DEF NoRequest, Request

LEMMA ServedRequest ==
    ASSUME NEW f \in Families \cup {Nil}, NEW client \in Clients \cup {Nil},
           NEW owner \in Owners \cup {Nil}
    PROVE  [NoRequest EXCEPT !.pc = "insertAccess", !.family = f,
                             !.client = client, !.owner = owner] \in Request
  BY DEF NoRequest, Request

\* A new row is typed by the request that stores it.
LEMMA InsertTypes ==
    ASSUME TypeOK, NEW r \in Requests, NEW t \in Tokens,
           NEW kind \in {"access", "refresh"}, Insert(r, t, kind)
    PROVE  TypeOK'
<1>1. req[r] \in Request
  BY DEF TypeOK
<1>2. [status |-> "stored", kind |-> kind, family |-> req[r].family,
       client |-> req[r].client, owner |-> req[r].owner,
       used |-> FALSE, revoked |-> FALSE, expired |-> FALSE] \in TokenRow
  BY <1>1 DEF TokenRow, Request
<1>3. token' \in [Tokens -> TokenRow]
  BY <1>2 DEF TypeOK, Insert
<1>4. [req[r] EXCEPT !.pc = IF kind = "access" THEN "insertRefresh" ELSE "respond",
                     !.issued = @ \cup {t}] \in Request
  BY <1>1 DEF Request
<1>5. req' \in [Requests -> Request]
  BY <1>4 DEF TypeOK, Insert
<1>6. QED
  BY <1>3, <1>5 DEF TypeOK, Insert

\* Every variable keeps its type, in every step of every request.
LEMMA TypeStep == TypeOK /\ [Next]_vars => TypeOK'
<1> SUFFICES ASSUME TypeOK, [Next]_vars PROVE TypeOK'
  OBVIOUS
<1>1. ASSUME NEW r \in Requests, NEW c \in Codes, NEW client \in Clients,
             NEW matches \in BOOLEAN, RedeemCode(r, c, client, matches)
      PROVE  TypeOK'
  <2>1. code[c] \in CodeRow
    BY DEF TypeOK
  <2>2. code' \in [Codes -> CodeRow]
    BY <1>1, <2>1, CodeRowEdits DEF RedeemCode, TypeOK
  <2>3. req' \in [Requests -> Request] /\ origin' \in [Families -> Codes \cup {Nil}]
    <3>1. code[c].client \in Clients \cup {Nil} /\ code[c].owner \in Owners \cup {Nil}
      BY <2>1 DEF CodeRow
    <3>2. CASE UNCHANGED <<req, origin>>
      BY <3>2 DEF TypeOK
    <3>3. ASSUME NEW f \in Families, origin' = [origin EXCEPT ![f] = c],
                 Serve(r, f, code[c].client, code[c].owner)
          PROVE  req' \in [Requests -> Request] /\ origin' \in [Families -> Codes \cup {Nil}]
      BY <3>1, <3>3, ServedRequest DEF TypeOK, Serve
    <3>4. QED
      BY <1>1, <3>2, <3>3 DEF RedeemCode
  <2>4. QED
    BY <1>1, <2>2, <2>3 DEF RedeemCode, TypeOK
<1>2. ASSUME NEW r \in Requests, NEW t \in Tokens, NEW client \in Clients,
             ConsumeRefresh(r, t, client)
      PROVE  TypeOK'
  <2>1. token[t] \in TokenRow
    BY DEF TypeOK
  <2>2. token' \in [Tokens -> TokenRow]
    BY <1>2, <2>1, TokenRowEdits DEF ConsumeRefresh, TypeOK
  <2>3. req' \in [Requests -> Request]
    <3>1. /\ token[t].family \in Families \cup {Nil}
          /\ token[t].client \in Clients \cup {Nil}
          /\ token[t].owner \in Owners \cup {Nil}
      BY <2>1 DEF TokenRow
    <3>2. CASE UNCHANGED req
      BY <3>2 DEF TypeOK
    <3>3. CASE Serve(r, token[t].family, token[t].client, token[t].owner)
      BY <3>1, <3>3, ServedRequest DEF TypeOK, Serve
    <3>4. QED
      BY <1>2, <3>2, <3>3 DEF ConsumeRefresh
  <2>4. QED
    BY <1>2, <2>2, <2>3 DEF ConsumeRefresh, TypeOK
<1>3. ASSUME NEW r \in Requests, NEW t \in Tokens, MissRefresh(r, t)
      PROVE  TypeOK'
  <2>1. [NoRequest EXCEPT !.pc = "revoke", !.presented = t] \in Request
    BY DEF NoRequest, Request
  <2>2. QED
    BY <1>3, <2>1 DEF MissRefresh, TypeOK
<1>4. ASSUME NEW r \in Requests, RevokeFamily(r)
      PROVE  TypeOK'
  <2>1. token' \in [Tokens -> TokenRow]
    BY <1>4, TokenRowEdits DEF RevokeFamily, RevokedFamily, TypeOK
  <2>2. QED
    BY <1>4, <2>1, IdleRequest DEF RevokeFamily, TypeOK
<1>5. ASSUME NEW r \in Requests, RejectRefresh(r)
      PROVE  TypeOK'
  BY <1>5, IdleRequest DEF RejectRefresh, TypeOK
<1>6. ASSUME NEW r \in Requests, NEW t \in Tokens, InsertAccess(r, t) \/ InsertRefresh(r, t)
      PROVE  TypeOK'
  BY <1>6, InsertTypes DEF InsertAccess, InsertRefresh
<1>7. ASSUME NEW r \in Requests, Respond(r) \/ Abandon(r)
      PROVE  TypeOK'
  <2>1. req[r].issued \in SUBSET Tokens
    BY DEF TypeOK, Request
  <2>2. QED
    BY <1>7, <2>1, IdleRequest DEF Respond, Abandon, TypeOK
<1>8. ASSUME NEW c \in Codes, NEW client \in Clients, NEW owner \in Owners,
             CreateAuthCode(c, client, owner)
      PROVE  TypeOK'
  BY <1>8 DEF CreateAuthCode, TypeOK, CodeRow
<1>9. ASSUME NEW c \in Codes, ExpireCode(c)
      PROVE  TypeOK'
  BY <1>9, CodeRowEdits DEF ExpireCode, TypeOK
<1>10. ASSUME NEW t \in Tokens, ExpireToken(t)
       PROVE  TypeOK'
  BY <1>10, TokenRowEdits DEF ExpireToken, TypeOK
<1>11. ASSUME NEW S \in (SUBSET Tokens) \ {{}}, Purge(S)
       PROVE  TypeOK'
  BY <1>11, TokenRowEdits DEF Purge, TypeOK
<1>12. CASE UNCHANGED vars
  BY <1>12 DEF vars, TypeOK
<1>13. known \subseteq Tokens
  BY DEF TypeOK
<1>14. QED
  BY <1>1, <1>2, <1>3, <1>4, <1>5, <1>6, <1>7, <1>8, <1>9, <1>10, <1>11, <1>12, <1>13
     DEF Next, Arrive, Advance, Environment

LEMMA InitType == Init => TypeOK
  BY DEF Init, TypeOK, CodeRow, TokenRow, Request, NoRequest

\* oauth_auth_codes, oauth_tokens and the requests stay well typed.
THEOREM TypeCorrect == Spec => []TypeOK
<1>1. Init => TypeOK
  BY InitType
<1>2. TypeOK /\ [Next]_vars => TypeOK'
  BY TypeStep
<1>3. QED
  BY <1>1, <1>2, PTL DEF Spec

-----------------------------------------------------------------------------

\* Most steps only take something away: rows are marked or deleted, requests
\* finish, and nobody gets hold of a family who did not hold it before.
RowsOnlyLose ==
    \A t \in Tokens : token'[t].status # "unminted" =>
        /\ token[t].status # "unminted"
        /\ token'[t].family = token[t].family
        /\ token'[t].client = token[t].client
        /\ token'[t].owner = token[t].owner
        /\ token'[t].kind = token[t].kind
        /\ token'[t].status = "stored" => token[t].status = "stored"
        /\ token[t].used => token'[t].used
        /\ token[t].revoked => token'[t].revoked

IssuersOnlyLeave ==
    \A r \in Requests :
        /\ Issuing(r)' => /\ Issuing(r)
                          /\ req'[r].family = req[r].family
                          /\ req'[r].client = req[r].client
                          /\ req'[r].owner = req[r].owner
        /\ req'[r].pc = "revoke" => req'[r].presented \in Tokens

UsedCodesStay == \A c \in Codes : code[c].status = "used" => code'[c] = code[c]

ReplaysAreEarned ==
    \A f \in Families :
        /\ replayed'[f] # "no" => origin[f] # Nil
        /\ replayed'[f] = "quiet" =>
              \/ replayed[f] = "quiet"
              \/ /\ ~IssuerOf(f)
                 /\ \A t \in Tokens : token'[t].status = "stored" /\ token'[t].family = f
                                       => token'[t].revoked

\* A step that only takes away preserves the invariant.
LEMMA LosingStep ==
    ASSUME IndInv, TypeOK', RowsOnlyLose, IssuersOnlyLeave, UsedCodesStay,
           ReplaysAreEarned, origin' = origin
    PROVE  IndInv'
<1>1. References'
  BY DEF IndInv, References, RowsOnlyLose, IssuersOnlyLeave, ReplaysAreEarned
<1>2. RotationIsLinear'
  <2>1. \A t \in Tokens : Unspent(t)' => Unspent(t) /\ token'[t].family = token[t].family
    BY DEF Unspent, Stored, RowsOnlyLose, IndInv, TypeOK, TokenRow
  <2>2. QED
    BY <2>1 DEF IndInv, RotationIsLinear, IssuersOnlyLeave
<1>3. OneSessionPerLogin'
  BY DEF IndInv, OneSessionPerLogin, UsedCodesStay, TypeOK
<1>4. TokensSpeakForTheirLogin'
  <2>1. \A f \in Families : origin[f] # Nil => code'[origin[f]] = code[origin[f]]
    BY DEF IndInv, OneSessionPerLogin, UsedCodesStay, TypeOK
  <2>2. QED
    BY <2>1 DEF IndInv, References, TokensSpeakForTheirLogin, RowsOnlyLose, IssuersOnlyLeave
<1>5. QuietFamiliesAreRevoked'
  <2> SUFFICES ASSUME NEW f \in Families, replayed'[f] = "quiet"
               PROVE  /\ ~IssuerOf(f)'
                      /\ \A t \in Tokens : Stored(t)' /\ token'[t].family = f => token'[t].revoked
    BY DEF QuietFamiliesAreRevoked
  <2>1. ~IssuerOf(f)
    BY DEF ReplaysAreEarned, IndInv, QuietFamiliesAreRevoked
  <2>2. ~IssuerOf(f)'
    BY <2>1 DEF IssuerOf, IssuersOnlyLeave
  <2>3. QED
    BY <2>2 DEF ReplaysAreEarned, IndInv, QuietFamiliesAreRevoked, RowsOnlyLose, Stored
<1>6. QED
  BY <1>1, <1>2, <1>3, <1>4, <1>5 DEF IndInv

\* A code is redeemed: the family is new, so it has no rows, no other issuer
\* and no replay behind it.
LEMMA RedeemStep ==
    ASSUME IndInv, TypeOK', NEW r \in Requests, NEW c \in Codes, NEW client \in Clients,
           NEW matches \in BOOLEAN, RedeemCode(r, c, client, matches)
    PROVE  IndInv'
<1> USE DEF IndInv
<1>1. /\ code[c].status = "fresh"
      /\ code' = [code EXCEPT ![c].status = "used"]
      /\ UNCHANGED <<token, known, replayed>>
  BY DEF RedeemCode
<1>2. /\ code'[c].status = "used"
      /\ code'[c].client = code[c].client
      /\ code'[c].owner = code[c].owner
  BY <1>1 DEF TypeOK, CodeRow
<1>3. \A d \in Codes : d # c => code'[d] = code[d]
  BY <1>1 DEF TypeOK
<1>4. CASE UNCHANGED <<req, origin>>
  <2>1. UsedCodesStay
    BY <1>1, <1>3 DEF UsedCodesStay
  <2>2. RowsOnlyLose /\ IssuersOnlyLeave /\ ReplaysAreEarned
    BY <1>1, <1>4 DEF RowsOnlyLose, IssuersOnlyLeave, ReplaysAreEarned, Issuing, References
  <2>3. QED
    BY <1>4, <2>1, <2>2, LosingStep
<1>5. ASSUME NEW f \in Families, origin[f] = Nil, origin' = [origin EXCEPT ![f] = c],
             Serve(r, f, code[c].client, code[c].owner)
      PROVE  IndInv'
  <2>1. /\ req'[r].pc = "insertAccess"
        /\ req'[r].family = f
        /\ req'[r].client = code[c].client
        /\ req'[r].owner = code[c].owner
        /\ \A q \in Requests : q # r => req'[q] = req[q]
    BY <1>5 DEF Serve, TypeOK, NoRequest
  <2>2. origin'[f] = c /\ \A g \in Families : g # f => origin'[g] = origin[g]
    BY <1>5 DEF TypeOK
  <2>3. \A g \in Families : origin[g] # c
    BY <1>1 DEF OneSessionPerLogin
  <2>4. /\ \A t \in Tokens : token[t].status # "unminted" => token[t].family # f
        /\ \A q \in Requests : Issuing(q) => req[q].family # f
        /\ replayed[f] = "no"
    BY <1>5 DEF TokensSpeakForTheirLogin, References
  <2>5. \A q \in Requests : q # r => (Issuing(q)' <=> Issuing(q))
    BY <2>1 DEF Issuing
  <2>6. \A g \in Families : g # f /\ origin[g] # Nil => code'[origin'[g]] = code[origin[g]]
    BY <1>3, <2>2, <2>3 DEF TypeOK
  <2>7. References'
    BY <1>1, <1>5, <2>1, <2>2, <2>5 DEF References, Issuing
  <2>8. RotationIsLinear'
    <3>1. \A t \in Tokens : Unspent(t)' => Unspent(t) /\ token[t].status # "unminted"
      BY <1>1 DEF Unspent, Stored
    <3>2. QED
      BY <1>1, <2>1, <2>4, <2>5, <3>1 DEF RotationIsLinear
  <2>9. OneSessionPerLogin'
    BY <1>2, <2>2, <2>3, <2>6 DEF OneSessionPerLogin
  <2>10. TokensSpeakForTheirLogin'
    <3>1. \A t \in Tokens : token[t].status # "unminted" =>
             /\ token[t].family \in Families /\ token[t].family # f
             /\ origin[token[t].family] # Nil
      BY <2>4 DEF References, TokensSpeakForTheirLogin
    <3>2. \A q \in Requests : Issuing(q) =>
             /\ req[q].family \in Families /\ req[q].family # f
             /\ origin[req[q].family] # Nil
      BY <2>4 DEF References, TokensSpeakForTheirLogin
    <3>3. ASSUME NEW t \in Tokens, token'[t].status # "unminted"
          PROVE  /\ origin'[token'[t].family] # Nil
                 /\ token'[t].client = code'[origin'[token'[t].family]].client
                 /\ token'[t].owner = code'[origin'[token'[t].family]].owner
      BY <1>1, <2>2, <2>6, <3>1, <3>3 DEF TokensSpeakForTheirLogin
    <3>4. ASSUME NEW q \in Requests, Issuing(q)'
          PROVE  /\ origin'[req'[q].family] # Nil
                 /\ req'[q].client = code'[origin'[req'[q].family]].client
                 /\ req'[q].owner = code'[origin'[req'[q].family]].owner
      <4>1. CASE q = r
        BY <1>2, <2>1, <2>2, <4>1
      <4>2. CASE q # r
        BY <2>1, <2>2, <2>5, <2>6, <3>2, <3>4, <4>2 DEF TokensSpeakForTheirLogin
      <4>3. QED
        BY <4>1, <4>2
    <3>5. QED
      BY <3>3, <3>4 DEF TokensSpeakForTheirLogin
  <2>11. QuietFamiliesAreRevoked'
    BY <1>1, <2>1, <2>4, <2>5 DEF QuietFamiliesAreRevoked, IssuerOf, Stored
  <2>12. QED
    BY <2>7, <2>8, <2>9, <2>10, <2>11
<1>6. QED
  BY <1>4, <1>5 DEF RedeemCode

\* A refresh token is exchanged: it was the family's only unspent one, so the
\* request takes its place.
LEMMA ConsumeStep ==
    ASSUME IndInv, TypeOK', NEW r \in Requests, NEW t \in Tokens, NEW client \in Clients,
           ConsumeRefresh(r, t, client)
    PROVE  IndInv'
<1> USE DEF IndInv
<1>1. /\ req[r].pc = "idle"
      /\ Consumable(t)
      /\ token' = [token EXCEPT ![t].used = TRUE]
      /\ UNCHANGED <<code, known, origin, replayed>>
  BY DEF ConsumeRefresh
<1>2. /\ token'[t] = [token[t] EXCEPT !.used = TRUE]
      /\ token[t] \in TokenRow
      /\ \A u \in Tokens : u # t => token'[u] = token[u]
  BY <1>1 DEF TypeOK
<1>3. /\ token'[t].status = token[t].status /\ token'[t].kind = token[t].kind
      /\ token'[t].family = token[t].family /\ token'[t].client = token[t].client
      /\ token'[t].owner = token[t].owner /\ token'[t].revoked = token[t].revoked
      /\ token'[t].used
  BY <1>2 DEF TokenRow
<1>4. CASE UNCHANGED req
  <2>1. RowsOnlyLose
    BY <1>2, <1>3 DEF RowsOnlyLose
  <2>2. UsedCodesStay /\ IssuersOnlyLeave /\ ReplaysAreEarned
    <3>1. UsedCodesStay /\ IssuersOnlyLeave
      BY <1>1, <1>4 DEF UsedCodesStay, IssuersOnlyLeave, Issuing, References
    <3>2. ReplaysAreEarned
      BY <1>1 DEF ReplaysAreEarned, References
    <3>3. QED
      BY <3>1, <3>2
  <2>3. QED
    BY <1>1, <2>1, <2>2, LosingStep
<1>5. CASE Serve(r, token[t].family, token[t].client, token[t].owner)
  <2> DEFINE f == token[t].family
  <2>1. /\ req'[r].pc = "insertAccess"
        /\ req'[r].family = f
        /\ req'[r].client = token[t].client
        /\ req'[r].owner = token[t].owner
        /\ \A q \in Requests : q # r => req'[q] = req[q]
    BY <1>5 DEF Serve, TypeOK, NoRequest
  <2>2. token[t].status = "stored" /\ Unspent(t) /\ ~token[t].revoked
    BY <1>1 DEF Consumable, Unspent, Stored
  <2>3. f \in Families /\ replayed[f] # "quiet"
    BY <2>2 DEF References, QuietFamiliesAreRevoked, TypeOK, Stored
  <2>4. \A q \in Requests : q # r => (Issuing(q)' <=> Issuing(q))
    BY <2>1 DEF Issuing
  <2>5. \A u \in Tokens : Unspent(u)' => Unspent(u) /\ u # t
    BY <1>2, <1>3 DEF Unspent, Stored
  <2>6. References'
    BY <1>1, <1>2, <1>3, <2>1, <2>2, <2>3, <2>4 DEF References, Issuing
  <2>7. RotationIsLinear'
    BY <1>2, <2>1, <2>2, <2>4, <2>5 DEF RotationIsLinear
  <2>8. OneSessionPerLogin'
    BY <1>1 DEF OneSessionPerLogin
  <2>9. TokensSpeakForTheirLogin'
    BY <1>1, <1>2, <1>3, <2>1, <2>2, <2>4 DEF TokensSpeakForTheirLogin
  <2>10. QuietFamiliesAreRevoked'
    BY <1>1, <1>2, <1>3, <2>1, <2>3, <2>4 DEF QuietFamiliesAreRevoked, IssuerOf, Stored
  <2>11. QED
    BY <2>6, <2>7, <2>8, <2>9, <2>10
<1>6. QED
  BY <1>4, <1>5 DEF ConsumeRefresh

\* A request stores a token.  Its family is not quiet, because it is its issuer;
\* storing the refresh token hands the family over from the request to the row.
LEMMA InsertStep ==
    ASSUME IndInv, TypeOK', NEW r \in Requests, NEW t \in Tokens,
           InsertAccess(r, t) \/ InsertRefresh(r, t)
    PROVE  IndInv'
<1> USE DEF IndInv
<1> DEFINE f == req[r].family
<1>1. /\ token[t].status = "unminted"
      /\ Issuing(r)
      /\ UNCHANGED <<code, known, origin, replayed>>
  BY DEF InsertAccess, InsertRefresh, Insert, NextSecret, Issuing
<1>2. /\ f \in Families /\ origin[f] # Nil
      /\ req[r].client = code[origin[f]].client
      /\ req[r].owner = code[origin[f]].owner
      /\ replayed[f] # "quiet"
  BY <1>1 DEF References, TokensSpeakForTheirLogin, QuietFamiliesAreRevoked, IssuerOf
<1>3. /\ token'[t].status = "stored" /\ token'[t].family = f
      /\ token'[t].client = req[r].client /\ token'[t].owner = req[r].owner
      /\ \A u \in Tokens : u # t => token'[u] = token[u]
  BY DEF InsertAccess, InsertRefresh, Insert, TypeOK
<1>4. /\ req'[r].family = f /\ req'[r].client = req[r].client
      /\ req'[r].owner = req[r].owner
      /\ \A q \in Requests : q # r => req'[q] = req[q]
  BY DEF InsertAccess, InsertRefresh, Insert, TypeOK, Request
<1>5. \A q \in Requests : q # r => (Issuing(q)' <=> Issuing(q))
  BY <1>4 DEF Issuing
<1>6. /\ InsertAccess(r, t) => token'[t].kind = "access" /\ req'[r].pc = "insertRefresh"
      /\ InsertRefresh(r, t) => token'[t].kind = "refresh" /\ req'[r].pc = "respond"
  BY DEF InsertAccess, InsertRefresh, Insert, TypeOK, Request
<1>7. References'
  BY <1>1, <1>2, <1>3, <1>4, <1>5, <1>6 DEF References, Issuing
<1>8. RotationIsLinear'
  <2>1. \A u \in Tokens : u # t => (Unspent(u)' <=> Unspent(u))
    BY <1>3 DEF Unspent, Stored
  <2>2. CASE InsertAccess(r, t)
    <3>1. ~Unspent(t)'
      BY <1>6, <2>2 DEF Unspent
    <3>2. QED
      BY <1>1, <1>3, <1>4, <1>5, <2>1, <3>1 DEF RotationIsLinear
  <2>3. CASE InsertRefresh(r, t)
    <3>1. ~Issuing(r)'
      BY <1>6, <2>3 DEF Issuing
    <3>2. \A u \in Tokens : Unspent(u) => token[u].family # f
      BY <1>1 DEF RotationIsLinear
    <3>3. \A q \in Requests : q # r /\ Issuing(q) => req[q].family # f
      BY <1>1 DEF RotationIsLinear
    <3>4. QED
      BY <1>3, <1>4, <1>5, <2>1, <3>1, <3>2, <3>3 DEF RotationIsLinear
  <2>4. QED
    BY <2>2, <2>3
<1>9. OneSessionPerLogin'
  BY <1>1 DEF OneSessionPerLogin
<1>10. TokensSpeakForTheirLogin'
  <2>1. ASSUME NEW u \in Tokens, token'[u].status # "unminted"
        PROVE  /\ origin[token'[u].family] # Nil
               /\ token'[u].client = code[origin[token'[u].family]].client
               /\ token'[u].owner = code[origin[token'[u].family]].owner
    BY <1>2, <1>3, <2>1 DEF TokensSpeakForTheirLogin
  <2>2. ASSUME NEW q \in Requests, Issuing(q)'
        PROVE  /\ origin[req'[q].family] # Nil
               /\ req'[q].client = code[origin[req'[q].family]].client
               /\ req'[q].owner = code[origin[req'[q].family]].owner
    BY <1>2, <1>4, <1>5, <2>2 DEF TokensSpeakForTheirLogin
  <2>3. QED
    BY <1>1, <2>1, <2>2 DEF TokensSpeakForTheirLogin
<1>11. QuietFamiliesAreRevoked'
  BY <1>1, <1>2, <1>3, <1>4, <1>5 DEF QuietFamiliesAreRevoked, IssuerOf, Stored
<1>12. QED
  BY <1>7, <1>8, <1>9, <1>10, <1>11

\* A replay revokes every stored row of the family; it is "quiet" only when no
\* request holds the family.
LEMMA RevokeStep ==
    ASSUME IndInv, TypeOK', NEW r \in Requests, RevokeFamily(r)
    PROVE  IndInv'
<1> USE DEF IndInv
<1> DEFINE f == token[req[r].presented].family
<1>1. /\ req[r].presented \in Tokens
      /\ f \in Families /\ origin[f] # Nil
  BY DEF RevokeFamily, ReplayOf, Stored, References, TokensSpeakForTheirLogin
<1>2. \A t \in Tokens :
         /\ Stored(t) /\ token[t].family = f => token'[t] = [token[t] EXCEPT !.revoked = TRUE]
         /\ ~(Stored(t) /\ token[t].family = f) => token'[t] = token[t]
  BY DEF RevokeFamily, RevokedFamily
<1>3. \A t \in Tokens : token[t] \in TokenRow
  BY DEF TypeOK
<1>4. RowsOnlyLose
  <2>1. ASSUME NEW t \in Tokens, token'[t] = [token[t] EXCEPT !.revoked = TRUE]
        PROVE  /\ token'[t].status = token[t].status /\ token'[t].kind = token[t].kind
               /\ token'[t].family = token[t].family /\ token'[t].client = token[t].client
               /\ token'[t].owner = token[t].owner /\ token'[t].used = token[t].used
               /\ token'[t].revoked
    BY <1>3, <2>1 DEF TokenRow
  <2>2. QED
    BY <1>2, <2>1 DEF RowsOnlyLose
<1>5. IssuersOnlyLeave
  <2>1. /\ req'[r].pc = "idle"
        /\ \A q \in Requests : q # r => req'[q] = req[q]
    BY DEF RevokeFamily, NoRequest, TypeOK
  <2>2. QED
    BY <2>1 DEF IssuersOnlyLeave, Issuing, References
<1>6. UsedCodesStay /\ origin' = origin
  BY DEF RevokeFamily, UsedCodesStay
<1>7. ReplaysAreEarned
  <2> SUFFICES ASSUME NEW g \in Families
               PROVE  /\ replayed'[g] # "no" => origin[g] # Nil
                      /\ replayed'[g] = "quiet" =>
                            \/ replayed[g] = "quiet"
                            \/ /\ ~IssuerOf(g)
                               /\ \A t \in Tokens : token'[t].status = "stored" /\ token'[t].family = g
                                                     => token'[t].revoked
    BY DEF ReplaysAreEarned
  <2>1. CASE g # f
    <3>1. replayed'[g] = replayed[g]
      BY <2>1 DEF RevokeFamily, TypeOK
    <3>2. QED
      BY <3>1 DEF References
  <2>2. CASE g = f
    <3>1. replayed'[f] = "quiet" => ~IssuerOf(f)
      BY <1>1 DEF RevokeFamily, TypeOK
    <3>2. \A t \in Tokens : token'[t].status = "stored" /\ token'[t].family = f => token'[t].revoked
      BY <1>2, <1>3 DEF TokenRow, Stored
    <3>3. QED
      BY <1>1, <2>2, <3>1, <3>2
  <2>3. QED
    BY <2>1, <2>2
<1>8. QED
  BY <1>4, <1>5, <1>6, <1>7, LosingStep

\* The invariant is inductive: one case per action.
LEMMA InvariantStep == IndInv /\ [Next]_vars => IndInv'
<1> SUFFICES ASSUME IndInv, [Next]_vars PROVE IndInv'
  OBVIOUS
<1>1. TypeOK /\ References /\ TypeOK'
  BY TypeStep DEF IndInv
<1>2. ASSUME NEW r \in Requests, Arrive(r)
      PROVE  IndInv'
  <2>1. ASSUME NEW t \in Tokens, MissRefresh(r, t)
        PROVE  IndInv'
    <3>1. RowsOnlyLose /\ UsedCodesStay /\ origin' = origin
      BY <1>1, <2>1 DEF MissRefresh, RowsOnlyLose, UsedCodesStay
    <3>2. IssuersOnlyLeave
      BY <1>1, <2>1 DEF MissRefresh, IssuersOnlyLeave, Issuing, NoRequest, TypeOK, References
    <3>3. ReplaysAreEarned
      BY <1>1, <2>1 DEF MissRefresh, ReplaysAreEarned, References
    <3>4. QED
      BY <1>1, <3>1, <3>2, <3>3, LosingStep
  <2>2. known \subseteq Tokens
    BY <1>1 DEF TypeOK
  <2>3. QED
    BY <1>1, <1>2, <2>1, <2>2, RedeemStep, ConsumeStep DEF Arrive
<1>3. ASSUME NEW r \in Requests, RejectRefresh(r) \/ Respond(r) \/ Abandon(r)
      PROVE  IndInv'
  <2>1. RowsOnlyLose /\ UsedCodesStay /\ origin' = origin
    BY <1>1, <1>3 DEF RejectRefresh, Respond, Abandon, RowsOnlyLose, UsedCodesStay
  <2>2. IssuersOnlyLeave
    BY <1>1, <1>3 DEF RejectRefresh, Respond, Abandon, IssuersOnlyLeave, Issuing, NoRequest, TypeOK, References
  <2>3. ReplaysAreEarned
    BY <1>1, <1>3 DEF RejectRefresh, Respond, Abandon, ReplaysAreEarned, References
  <2>4. QED
    BY <1>1, <2>1, <2>2, <2>3, LosingStep
<1>4. ASSUME NEW r \in Requests, Advance(r)
      PROVE  IndInv'
  <2>1. CASE RevokeFamily(r)
    BY <1>1, <2>1, RevokeStep
  <2>2. CASE RejectRefresh(r) \/ Respond(r)
    BY <1>3, <2>2
  <2>3. ASSUME NEW t \in Tokens, InsertAccess(r, t) \/ InsertRefresh(r, t)
        PROVE  IndInv'
    BY <1>1, <2>3, InsertStep
  <2>4. QED
    BY <1>1, <1>4, <2>1, <2>2, <2>3 DEF Advance
<1>5. ASSUME Environment
      PROVE  IndInv'
  <2>1. ASSUME UNCHANGED <<req, origin, replayed>>
        PROVE  IssuersOnlyLeave /\ ReplaysAreEarned /\ origin' = origin
    <3>1. IssuersOnlyLeave
      BY <1>1, <2>1 DEF IssuersOnlyLeave, Issuing, References
    <3>2. ReplaysAreEarned
      BY <1>1, <2>1 DEF ReplaysAreEarned, References
    <3>3. QED
      BY <2>1, <3>1, <3>2
  <2>2. \A t \in Tokens : token[t] \in TokenRow
    BY <1>1 DEF TypeOK
  <2>3. ASSUME NEW c \in Codes, NEW client \in Clients, NEW owner \in Owners,
               CreateAuthCode(c, client, owner)
        PROVE  IndInv'
    <3>1. UsedCodesStay /\ RowsOnlyLose
      BY <1>1, <2>3 DEF CreateAuthCode, UsedCodesStay, RowsOnlyLose, TypeOK
    <3>2. QED
      BY <1>1, <2>1, <2>3, <3>1, LosingStep DEF CreateAuthCode
  <2>4. ASSUME NEW c \in Codes, ExpireCode(c)
        PROVE  IndInv'
    <3>1. UsedCodesStay /\ RowsOnlyLose
      BY <1>1, <2>4 DEF ExpireCode, UsedCodesStay, RowsOnlyLose, TypeOK
    <3>2. QED
      BY <1>1, <2>1, <2>4, <3>1, LosingStep DEF ExpireCode
  <2>5. ASSUME NEW t \in Tokens, ExpireToken(t)
        PROVE  IndInv'
    <3>1. /\ token'[t] = [token[t] EXCEPT !.expired = TRUE]
          /\ \A u \in Tokens : u # t => token'[u] = token[u]
      BY <1>1, <2>5 DEF ExpireToken, TypeOK
    <3>2. UsedCodesStay /\ RowsOnlyLose
      BY <1>1, <2>2, <2>5, <3>1 DEF ExpireToken, UsedCodesStay, RowsOnlyLose, TokenRow
    <3>3. QED
      BY <1>1, <2>1, <2>5, <3>2, LosingStep DEF ExpireToken
  <2>6. ASSUME NEW S \in (SUBSET Tokens) \ {{}}, Purge(S)
        PROVE  IndInv'
    <3>1. \A t \in Tokens : /\ t \in S => token'[t] = [token[t] EXCEPT !.status = "purged"] /\ Stored(t)
                            /\ t \notin S => token'[t] = token[t]
      BY <1>1, <2>6 DEF Purge
    <3>2. UsedCodesStay /\ RowsOnlyLose
      BY <1>1, <2>2, <2>6, <3>1 DEF Purge, UsedCodesStay, RowsOnlyLose, TokenRow, Stored
    <3>3. QED
      BY <1>1, <2>1, <2>6, <3>2, LosingStep DEF Purge
  <2>7. QED
    BY <1>1, <1>5, <2>3, <2>4, <2>5, <2>6 DEF Environment
<1>6. CASE UNCHANGED vars
  <2>1. RowsOnlyLose /\ UsedCodesStay /\ IssuersOnlyLeave
    BY <1>1, <1>6 DEF vars, RowsOnlyLose, UsedCodesStay, IssuersOnlyLeave, Issuing, References
  <2>2. ReplaysAreEarned /\ origin' = origin
    BY <1>1, <1>6 DEF vars, ReplaysAreEarned, References
  <2>3. QED
    BY <1>1, <2>1, <2>2, LosingStep
<1>7. QED
  BY <1>1, <1>2, <1>3, <1>4, <1>5, <1>6 DEF Next

LEMMA InvariantInit == Init => IndInv
<1> SUFFICES ASSUME Init PROVE IndInv
  OBVIOUS
<1>1. /\ \A t \in Tokens : token[t].status = "unminted"
      /\ \A r \in Requests : req[r].pc = "idle"
      /\ \A f \in Families : origin[f] = Nil /\ replayed[f] = "no"
  BY DEF Init, NoRequest
<1>2. References /\ QuietFamiliesAreRevoked
  BY <1>1 DEF References, QuietFamiliesAreRevoked, Issuing
<1>3. RotationIsLinear /\ OneSessionPerLogin /\ TokensSpeakForTheirLogin
  BY <1>1 DEF RotationIsLinear, OneSessionPerLogin, TokensSpeakForTheirLogin,
             Unspent, Stored, Issuing
<1>4. QED
  BY <1>2, <1>3, InitType DEF IndInv

LEMMA Invariance == Spec => []IndInv
  BY InvariantInit, InvariantStep, PTL DEF Spec

\* The rotation of every family is a line: the one-use guarantee of codes and
\* refresh tokens under any number of concurrent requests, failures and expiry.
THEOREM RotationLinear == Spec => []RotationIsLinear
<1>1. IndInv => RotationIsLinear
  BY DEF IndInv
<1>2. QED
  BY <1>1, Invariance, PTL

\* One login, one session.
THEOREM OneSession == Spec => []OneSessionPerLogin
<1>1. IndInv => OneSessionPerLogin
  BY DEF IndInv
<1>2. QED
  BY <1>1, Invariance, PTL

\* Every token and every pending issue speaks for the login it came from.
THEOREM TokensBound == Spec => []TokensSpeakForTheirLogin
<1>1. IndInv => TokensSpeakForTheirLogin
  BY DEF IndInv
<1>2. QED
  BY <1>1, Invariance, PTL

\* A replay noticed while nobody extends the family ends it for good.
THEOREM QuietReplayFinal == Spec => []QuietReplayIsFinal
<1>1. IndInv => QuietReplayIsFinal
  BY DEF IndInv, QuietFamiliesAreRevoked, QuietReplayIsFinal, Live, Consumable, AccessLive
<1>2. QED
  BY <1>1, Invariance, PTL

-----------------------------------------------------------------------------

\* A family nothing happened to stays in its phase.
LEMMA PhaseFrame ==
    ASSUME NEW g \in Families, origin'[g] = origin[g],
           IssuerOf(g)' <=> IssuerOf(g), Usable(g)' <=> Usable(g)
    PROVE  Phase(g)' = Phase(g)
  BY DEF Phase

\* A step that moves at most one family, and that one along the chain, is a
\* step of SessionChain.
LEMMA OneMove ==
    ASSUME NEW f \in Families,
           \A g \in Families : g # f => Phase(g)' = Phase(g),
           \/ Phase(f)' = Phase(f)
           \/ Phase(f) = "none" /\ Phase(f)' = "issuing"
           \/ Phase(f) = "issuing" /\ Phase(f)' \in {"ready", "ended"}
           \/ Phase(f) = "ready" /\ Phase(f)' \in {"issuing", "ended"}
    PROVE  [Session!Next]_SessionPhase
<1>1. CASE Phase(f)' = Phase(f)
  BY <1>1 DEF SessionPhase
<1>2. CASE Phase(f)' # Phase(f)
  <2>1. SessionPhase' = [SessionPhase EXCEPT ![f] = Phase(f)'] /\ SessionPhase[f] = Phase(f)
    BY DEF SessionPhase
  <2>2. \/ Session!Redeem(f) \/ Session!Issue(f) \/ Session!Rotate(f) \/ Session!End(f)
    BY <1>2, <2>1 DEF Session!Redeem, Session!Issue, Session!Rotate, Session!End, Session!Move
  <2>3. QED
    BY <2>2 DEF Session!Next
<1>3. QED
  BY <1>1, <1>2

\* Nothing moves when neither the issuers nor the usable tokens change.
LEMMA NoMove ==
    ASSUME \A g \in Families : Phase(g)' = Phase(g)
    PROVE  [Session!Next]_SessionPhase
  BY DEF SessionPhase

\* A family with an issuer has no usable token.
LEMMA IssuerExcludesUsable ==
    ASSUME IndInv, NEW f \in Families, IssuerOf(f)
    PROVE  ~Usable(f)
  BY DEF IndInv, RotationIsLinear, IssuerOf, Usable, Consumable, Unspent

\* The requests other than r keep the families they hold.
LEMMA OtherIssuers ==
    ASSUME NEW r \in Requests, NEW g \in Families,
           \A q \in Requests : q # r => req'[q] = req[q],
           Issuing(r) => req[r].family # g,
           Issuing(r)' => req'[r].family # g
    PROVE  IssuerOf(g)' <=> IssuerOf(g)
  BY DEF IssuerOf, Issuing

LEMMA RedeemMoves ==
    ASSUME IndInv, IndInv', NEW r \in Requests, NEW c \in Codes, NEW client \in Clients,
           NEW matches \in BOOLEAN, RedeemCode(r, c, client, matches)
    PROVE  [Session!Next]_SessionPhase
<1>1. token' = token /\ req[r].pc = "idle"
  BY DEF RedeemCode
<1>2. \A g \in Families : Usable(g)' <=> Usable(g)
  BY <1>1 DEF Usable, Consumable, Stored
<1>3. CASE UNCHANGED <<req, origin>>
  <2>1. \A g \in Families : IssuerOf(g)' <=> IssuerOf(g)
    BY <1>3 DEF IssuerOf, Issuing
  <2>2. QED
    BY <1>2, <1>3, <2>1, PhaseFrame, NoMove
<1>4. ASSUME NEW f \in Families, origin[f] = Nil, origin' = [origin EXCEPT ![f] = c],
             Serve(r, f, code[c].client, code[c].owner)
      PROVE  [Session!Next]_SessionPhase
  <2>1. /\ req'[r].pc = "insertAccess" /\ req'[r].family = f
        /\ \A q \in Requests : q # r => req'[q] = req[q]
    BY <1>4 DEF Serve, IndInv, TypeOK, NoRequest
  <2>2. ~Issuing(r) /\ Issuing(r)'
    BY <1>1, <2>1 DEF Issuing
  <2>3. Phase(f) = "none"
    BY <1>4 DEF Phase
  <2>4. Phase(f)' = "issuing"
    <3>1. origin'[f] # Nil
      BY <1>4 DEF IndInv, TypeOK
    <3>2. IssuerOf(f)'
      BY <2>1, <2>2 DEF IssuerOf
    <3>3. QED
      BY <3>1, <3>2 DEF Phase
  <2>5. ASSUME NEW g \in Families, g # f
        PROVE  Phase(g)' = Phase(g)
    <3>1. IssuerOf(g)' <=> IssuerOf(g)
      BY <2>1, <2>2, <2>5, OtherIssuers
    <3>2. origin'[g] = origin[g]
      BY <1>4, <2>5 DEF IndInv, TypeOK
    <3>3. QED
      BY <1>2, <3>1, <3>2, PhaseFrame
  <2>6. QED
    BY <2>3, <2>4, <2>5, OneMove
<1>5. QED
  BY <1>3, <1>4 DEF RedeemCode

LEMMA ConsumeMoves ==
    ASSUME IndInv, IndInv', NEW r \in Requests, NEW t \in Tokens, NEW client \in Clients,
           ConsumeRefresh(r, t, client)
    PROVE  [Session!Next]_SessionPhase
<1>1. /\ Consumable(t) /\ Unspent(t) /\ ~Issuing(r) /\ origin' = origin
      /\ \A q \in Requests : q # r => req'[q] = req[q]
  BY DEF ConsumeRefresh, Serve, Consumable, Unspent, Issuing, IndInv, TypeOK
<1>0. PICK f \in Families : f = token[t].family
  BY <1>1 DEF IndInv, References, Unspent, Stored
<1>2. origin[f] # Nil /\ ~IssuerOf(f)
  BY <1>0, <1>1 DEF IndInv, References, TokensSpeakForTheirLogin, RotationIsLinear,
              IssuerOf, Unspent, Stored
<1>3. /\ \A u \in Tokens : u # t => token'[u] = token[u]
      /\ ~Consumable(t)' /\ token'[t].family = f
  BY <1>0, <1>1 DEF ConsumeRefresh, Consumable, IndInv, TypeOK, TokenRow
<1>4. \A u \in Tokens : u # t => (Consumable(u)' <=> Consumable(u))
  BY <1>3 DEF Consumable, Stored
<1>5. \A g \in Families : g # f => (Usable(g)' <=> Usable(g))
  BY <1>0, <1>3, <1>4 DEF Usable
<1>6. Usable(f) /\ Phase(f) = "ready"
  BY <1>0, <1>1, <1>2 DEF Usable, Phase
<1>7. ~Usable(f)'
  <2>1. \A u \in Tokens : u # t /\ Consumable(u) => token[u].family # f
    BY <1>0, <1>1 DEF IndInv, RotationIsLinear, Unspent, Consumable
  <2>2. QED
    BY <1>3, <1>4, <2>1 DEF Usable
<1>8. Phase(f)' \in {"issuing", "ended"}
  BY <1>1, <1>2, <1>7 DEF Phase
<1>9. ASSUME NEW g \in Families, g # f
      PROVE  Phase(g)' = Phase(g)
  <2>1. Issuing(r)' => req'[r].family = f
    <3>1. CASE UNCHANGED req
      BY <1>1, <3>1 DEF Issuing
    <3>2. CASE Serve(r, token[t].family, token[t].client, token[t].owner)
      BY <1>0, <3>2 DEF Serve, NoRequest, IndInv, TypeOK
    <3>3. QED
      BY <3>1, <3>2 DEF ConsumeRefresh
  <2>2. IssuerOf(g)' <=> IssuerOf(g)
    BY <1>1, <1>9, <2>1, OtherIssuers
  <2>3. QED
    BY <1>1, <1>5, <1>9, <2>2, PhaseFrame
<1>10. QED
  BY <1>6, <1>8, <1>9, OneMove

LEMMA InsertMoves ==
    ASSUME IndInv, IndInv', NEW r \in Requests, NEW t \in Tokens,
           InsertAccess(r, t) \/ InsertRefresh(r, t)
    PROVE  [Session!Next]_SessionPhase
<1>0. PICK f \in Families : f = req[r].family
  BY DEF InsertAccess, InsertRefresh, Issuing, IndInv, References
<1>1. /\ Issuing(r) /\ origin' = origin /\ origin[f] # Nil
      /\ ~Stored(t)
      /\ \A u \in Tokens : u # t => token'[u] = token[u]
      /\ \A q \in Requests : q # r => req'[q] = req[q]
  BY <1>0 DEF InsertAccess, InsertRefresh, Insert, NextSecret, Issuing, IndInv, TypeOK,
         References, TokensSpeakForTheirLogin, Stored
<1>2. /\ token'[t].family = f /\ req'[r].family = f
      /\ InsertAccess(r, t) => token'[t].kind = "access" /\ req'[r].pc = "insertRefresh"
      /\ InsertRefresh(r, t) => req'[r].pc = "respond"
  BY <1>0 DEF InsertAccess, InsertRefresh, Insert, IndInv, TypeOK, Request
<1>3. \A u \in Tokens : u # t => (Consumable(u)' <=> Consumable(u))
  BY <1>1 DEF Consumable, Stored
<1>4. ASSUME NEW g \in Families, g # f
      PROVE  Phase(g)' = Phase(g)
  <2>1. Usable(g)' <=> Usable(g)
    BY <1>1, <1>2, <1>3, <1>4 DEF Usable, Consumable
  <2>2. IssuerOf(g)' <=> IssuerOf(g)
    BY <1>0, <1>1, <1>2, <1>4, OtherIssuers
  <2>3. QED
    BY <1>1, <2>1, <2>2, PhaseFrame
<1>5. Phase(f) = "issuing"
  BY <1>0, <1>1 DEF Phase, IssuerOf
<1>6. CASE InsertAccess(r, t)
  <2>1. IssuerOf(f)'
    BY <1>2, <1>6 DEF IssuerOf, Issuing
  <2>2. Phase(f)' = "issuing"
    BY <1>1, <2>1 DEF Phase
  <2>3. QED
    BY <1>4, <1>5, <2>2, OneMove
<1>7. CASE InsertRefresh(r, t)
  <2>1. ~IssuerOf(f)'
    <3>1. \A q \in Requests : q # r /\ Issuing(q) => req[q].family # f
      BY <1>0, <1>1 DEF IndInv, RotationIsLinear
    <3>2. QED
      BY <1>1, <1>2, <1>7, <3>1 DEF IssuerOf, Issuing
  <2>2. Phase(f)' \in {"ready", "ended"}
    BY <1>1, <2>1 DEF Phase
  <2>3. QED
    BY <1>4, <1>5, <2>2, OneMove
<1>8. QED
  BY <1>6, <1>7

\* A revocation ends a family that is ready and leaves an issuing one issuing.
LEMMA RevokeMoves ==
    ASSUME IndInv, IndInv', NEW r \in Requests, RevokeFamily(r)
    PROVE  [Session!Next]_SessionPhase
<1>0. PICK f \in Families : f = token[req[r].presented].family
  BY DEF RevokeFamily, ReplayOf, Stored, IndInv, References
<1>1. /\ origin[f] # Nil /\ origin' = origin
      /\ ~Issuing(r) /\ ~Issuing(r)'
      /\ \A q \in Requests : q # r => req'[q] = req[q]
  BY <1>0 DEF RevokeFamily, ReplayOf, Stored, IndInv, TypeOK, References,
         TokensSpeakForTheirLogin, Issuing, NoRequest
<1>2. \A g \in Families : IssuerOf(g)' <=> IssuerOf(g)
  BY <1>1 DEF IssuerOf, Issuing
<1>3. \A t \in Tokens : token[t].family # f => token'[t] = token[t]
  BY <1>0 DEF RevokeFamily, RevokedFamily
<1>4. \A t \in Tokens : token'[t].family = token[t].family /\ (Consumable(t)' => Consumable(t))
  <2>1. \A t \in Tokens : token[t] \in TokenRow
    BY DEF IndInv, TypeOK
  <2>2. ASSUME NEW t \in Tokens, token'[t] = [token[t] EXCEPT !.revoked = TRUE]
        PROVE  token'[t].family = token[t].family /\ token'[t].revoked
    BY <2>1, <2>2 DEF TokenRow
  <2>3. \A t \in Tokens : token'[t] = token[t] \/ token'[t] = [token[t] EXCEPT !.revoked = TRUE]
    BY DEF RevokeFamily, RevokedFamily
  <2>4. QED
    BY <2>2, <2>3 DEF Consumable, Stored
<1>5. \A g \in Families : g # f => (Usable(g)' <=> Usable(g))
  BY <1>3, <1>4 DEF Usable, Consumable, Stored
<1>6. Usable(f)' => Usable(f)
  BY <1>4 DEF Usable
<1>7. ASSUME NEW g \in Families, g # f
      PROVE  Phase(g)' = Phase(g)
  BY <1>1, <1>2, <1>5, <1>7, PhaseFrame
<1>8. \/ Phase(f)' = Phase(f)
      \/ Phase(f) = "ready" /\ Phase(f)' = "ended"
  BY <1>1, <1>2, <1>6 DEF Phase
<1>9. QED
  BY <1>7, <1>8, OneMove

\* A request that stops, or goes on to the second statement, ends at most the
\* family it holds.
LEMMA RequestMoves ==
    ASSUME IndInv, IndInv', NEW r \in Requests,
           \/ RejectRefresh(r) \/ Respond(r) \/ Abandon(r)
           \/ \E t \in Tokens : MissRefresh(r, t)
    PROVE  [Session!Next]_SessionPhase
<1>1. /\ token' = token /\ origin' = origin /\ ~Issuing(r)'
      /\ \A q \in Requests : q # r => req'[q] = req[q]
  <2>1. \E v \in Request : req' = [req EXCEPT ![r] = v] /\ v.pc \in {"idle", "revoke"}
    <3>1. CASE RejectRefresh(r) \/ Respond(r) \/ Abandon(r)
      BY <3>1, IdleRequest DEF RejectRefresh, Respond, Abandon, NoRequest
    <3>2. ASSUME NEW t \in Tokens, MissRefresh(r, t)
          PROVE  \E v \in Request : req' = [req EXCEPT ![r] = v] /\ v.pc \in {"idle", "revoke"}
      <4> DEFINE v == [NoRequest EXCEPT !.pc = "revoke", !.presented = t]
      <4>1. v \in Request /\ v.pc = "revoke"
        BY DEF NoRequest, Request
      <4>2. QED
        BY <3>2, <4>1 DEF MissRefresh
    <3>3. QED
      BY <3>1, <3>2
  <2>2. QED
    BY <2>1 DEF RejectRefresh, Respond, Abandon, MissRefresh, Issuing, IndInv, TypeOK
<1>2. \A g \in Families : Usable(g)' <=> Usable(g)
  BY <1>1 DEF Usable, Consumable, Stored
<1>3. CASE ~Issuing(r)
  <2>1. ASSUME NEW g \in Families
        PROVE  Phase(g)' = Phase(g)
    <3>1. IssuerOf(g)' <=> IssuerOf(g)
      BY <1>1, <1>3, OtherIssuers
    <3>2. QED
      BY <1>1, <1>2, <3>1, PhaseFrame
  <2>2. QED
    BY <2>1, NoMove
<1>4. CASE Issuing(r)
  <2>0. PICK f \in Families : f = req[r].family
    BY <1>4 DEF IndInv, References
  <2>1. origin[f] # Nil /\ IssuerOf(f) /\ ~Usable(f)
    BY <1>4, <2>0, IssuerExcludesUsable DEF IndInv, References, TokensSpeakForTheirLogin, IssuerOf
  <2>2. ASSUME NEW g \in Families, g # f
        PROVE  Phase(g)' = Phase(g)
    <3>1. IssuerOf(g)' <=> IssuerOf(g)
      BY <1>1, <1>4, <2>0, <2>2, OtherIssuers
    <3>2. QED
      BY <1>1, <1>2, <3>1, PhaseFrame
  <2>3. Phase(f) = "issuing" /\ Phase(f)' \in {"issuing", "ended"}
    BY <1>1, <1>2, <2>1 DEF Phase
  <2>4. QED
    BY <2>2, <2>3, OneMove
<1>5. QED
  BY <1>3, <1>4

\* New codes, time and the cleanup end at most the family of one expiring row.
LEMMA EnvironmentMoves ==
    ASSUME IndInv, IndInv', Environment
    PROVE  [Session!Next]_SessionPhase
<1>1. req' = req /\ origin' = origin
  BY DEF Environment, CreateAuthCode, ExpireCode, ExpireToken, Purge
<1>2. \A g \in Families : IssuerOf(g)' <=> IssuerOf(g)
  BY <1>1 DEF IssuerOf, Issuing
<1>3. ASSUME \A t \in Tokens :
                /\ token'[t].family = token[t].family
                /\ Consumable(t)' <=> Consumable(t)
      PROVE  [Session!Next]_SessionPhase
  <2>1. ASSUME NEW g \in Families
        PROVE  Phase(g)' = Phase(g)
    <3>1. Usable(g)' <=> Usable(g)
      BY <1>3 DEF Usable
    <3>2. QED
      BY <1>1, <1>2, <3>1, PhaseFrame
  <2>2. QED
    BY <2>1, NoMove
<1>4. ASSUME token' = token
      PROVE  [Session!Next]_SessionPhase
  BY <1>3, <1>4 DEF Consumable, Stored
<1>5. ASSUME NEW S \in (SUBSET Tokens) \ {{}}, Purge(S)
      PROVE  [Session!Next]_SessionPhase
  <2>1. \A t \in Tokens : token[t] \in TokenRow
    BY DEF IndInv, TypeOK
  <2>2. ASSUME NEW t \in Tokens
        PROVE  token'[t].family = token[t].family /\ (Consumable(t)' <=> Consumable(t))
    <3>1. CASE t \in S
      BY <1>5, <2>1, <3>1 DEF Purge, Consumable, Stored, TokenRow
    <3>2. CASE t \notin S
      BY <1>5, <3>2 DEF Purge, Consumable, Stored
    <3>3. QED
      BY <3>1, <3>2
  <2>3. QED
    BY <1>3, <2>2
<1>6. ASSUME NEW t \in Tokens, ExpireToken(t)
      PROVE  [Session!Next]_SessionPhase
  <2>0. PICK f \in Families : f = token[t].family
    BY <1>6 DEF ExpireToken, IndInv, References, Stored
  <2>1. /\ token'[t] = [token[t] EXCEPT !.expired = TRUE]
        /\ token[t] \in TokenRow /\ Stored(t)
        /\ \A u \in Tokens : u # t => token'[u] = token[u]
    BY <1>6 DEF ExpireToken, IndInv, TypeOK
  <2>2. token'[t].family = f /\ ~Consumable(t)'
    BY <2>0, <2>1 DEF Consumable, TokenRow
  <2>3. \A u \in Tokens : u # t => (Consumable(u)' <=> Consumable(u))
    BY <2>1 DEF Consumable, Stored
  <2>4. origin[f] # Nil
    BY <2>0, <2>1 DEF IndInv, References, TokensSpeakForTheirLogin, Stored
  <2>5. \A g \in Families : g # f => (Usable(g)' <=> Usable(g))
    BY <2>0, <2>1, <2>2, <2>3 DEF Usable
  <2>6. Usable(f)' => Usable(f)
    BY <2>0, <2>1, <2>2, <2>3 DEF Usable
  <2>7. ASSUME NEW g \in Families, g # f
        PROVE  Phase(g)' = Phase(g)
    BY <1>1, <1>2, <2>5, <2>7, PhaseFrame
  <2>8. Phase(f)' = Phase(f) \/ (Phase(f) = "ready" /\ Phase(f)' = "ended")
    BY <1>1, <1>2, <2>4, <2>6 DEF Phase
  <2>9. QED
    BY <2>7, <2>8, OneMove
<1>7. QED
  BY <1>4, <1>5, <1>6 DEF Environment, CreateAuthCode, ExpireCode

\* The endpoint implements the chain: what happens to the sessions is what
\* SessionChain allows, and no session that has ended ever works again.
THEOREM ImplementsSessionChain == Spec => SessionsFollowTheChain
<1>1. Init => Session!Init
  BY DEF Init, Session!Init, SessionPhase, Phase
<1>2. IndInv /\ IndInv' /\ [Next]_vars => [Session!Next]_SessionPhase
  <2> SUFFICES ASSUME IndInv, IndInv', [Next]_vars PROVE [Session!Next]_SessionPhase
    OBVIOUS
  <2>1. known \subseteq Tokens
    BY DEF IndInv, TypeOK
  <2>2. ASSUME NEW r \in Requests, Arrive(r)
        PROVE  [Session!Next]_SessionPhase
    BY <2>1, <2>2, RedeemMoves, ConsumeMoves, RequestMoves DEF Arrive
  <2>3. ASSUME NEW r \in Requests, Advance(r)
        PROVE  [Session!Next]_SessionPhase
    BY <2>3, RevokeMoves, InsertMoves, RequestMoves DEF Advance
  <2>4. ASSUME NEW r \in Requests, Abandon(r)
        PROVE  [Session!Next]_SessionPhase
    BY <2>4, RequestMoves
  <2>5. CASE UNCHANGED vars
    BY <2>5 DEF vars, SessionPhase, Phase, IssuerOf, Issuing, Usable, Consumable, Stored
  <2>6. QED
    BY <2>2, <2>3, <2>4, <2>5, EnvironmentMoves DEF Next
<1>3. QED
  BY <1>1, <1>2, Invariance, PTL DEF Spec, SessionsFollowTheChain, Session!Spec
=============================================================================
