---------------------------- MODULE InstallTokens ----------------------------
(***************************************************************************)
(* The HighLevel tokens of the centre app.  An installation stores a       *)
(* credential per sub-account: one with a refresh token of its own, or one *)
(* minted from the token of the agency that installed, of which there is   *)
(* one per app.  The connector apps ask through ghl-apps.mjs, which        *)
(* serves one refresh at a time; the centre app through ghl-write.mjs,     *)
(* which keeps each tenant's credential in memory and does not.            *)
(*                                                                         *)
(* One process, one event loop.  A step is one SQL statement, one upstream *)
(* call, or what a task does between two awaits.                           *)
(***************************************************************************)
EXTENDS Naturals, FiniteSets

CONSTANTS
    Apps,           \* sub-accounts with a connector app
    Centers,        \* sub-accounts of the centre app
    Tasks,          \* installations and requests for a token under way
    LastToken,      \* tokens HighLevel can issue, 1..LastToken
    MaxMishaps,     \* failed statements, lost answers, crashes
    NoTask          \* absence of a value

VARIABLES
    grant,          \* app_installs and tenants: the credential of each place
    company,        \* ghl_company_tokens: the agency's token per app, 0 for none
    known,          \* ghl-company's cache of it
    renewing,       \* ghl-company's refresh under way, per app
    served,         \* tokenCache: the access token per place, 0 for none
    serving,        \* ghl-apps' request under way, per place
    held,           \* tenantStates: the credential the centre app works with
    task,           \* the tasks
    issued,         \* HighLevel: tokens issued so far
    used,           \* HighLevel: tokens whose refresh token has been exchanged
    aged,           \* tokens whose access token is within a minute of its end
    wasted,         \* history: used tokens whose successor was not stored
    mishaps         \* failures so far

grantVars == <<grant, company, known, renewing, served, serving, held, task,
               issued, used, aged, wasted, mishaps>>

ASSUME GrantAssumption ==
    /\ NoTask \notin Tasks
    /\ Apps \cap Centers = {}      \* the connectors and the centre app are apps of their own

Places == Apps \cup Centers
App(p) == IF p \in Apps THEN "connector" ELSE "center"   \* whose company token it uses
AppKeys == {"connector", "center"}

NoGrant  == [mode |-> "none", n |-> 0]
\* cred: the credential read; got: the token HighLevel gave for it; base: the
\* company token read.
Asleep == [at |-> "asleep", place |-> NoTask, installs |-> FALSE, cred |-> NoGrant, got |-> 0, base |-> 0]

GrantInit ==
    /\ grant = [p \in Places |-> NoGrant]
    /\ company = [k \in AppKeys |-> 0] /\ known = company
    /\ renewing = [k \in AppKeys |-> NoTask]
    /\ served = [p \in Places |-> 0]
    /\ serving = [p \in Apps |-> NoTask]
    /\ held = [p \in Centers |-> NoGrant]
    /\ task = [t \in Tasks |-> Asleep]
    /\ issued = 0 /\ used = {} /\ aged = {} /\ wasted = {} /\ mishaps = 0

-----------------------------------------------------------------------------
\* Tasks, tokens, mishaps

Turn(t, at) == task' = [task EXCEPT ![t].at = at]
Mishap == mishaps < MaxMishaps /\ mishaps' = mishaps + 1
Issue  == issued < LastToken /\ issued' = issued + 1

\* A refresh token is exchanged once; its successor is the next token.
Exchanges(n) == n \notin used /\ used' = used \cup {n} /\ Issue

\* The end of t, and of those who share its promise: of its place's request when
\* it serves the place, of its company refresh when that failed under it.
Ends(t) ==
    LET p == task[t].place  k == App(p)
        renewed == IF renewing[k] = t THEN {x \in Tasks : task[x].at = "shared" /\ App(task[x].place) = k} ELSE {}
        over    == {t} \cup renewed
        places  == {task[x].place : x \in {y \in over : y \in {serving[q] : q \in Apps}}} IN
    /\ task' = [x \in Tasks |->
                  IF x \in over \/ (task[x].at = "joined" /\ task[x].place \in places) THEN Asleep ELSE task[x]]
    /\ serving' = [q \in Apps |-> IF q \in places THEN NoTask ELSE serving[q]]
    /\ renewing' = [renewing EXCEPT ![k] = IF @ = t THEN NoTask ELSE @]

-----------------------------------------------------------------------------
\* A request for the token of a place

\* A plausible bug: every request reads and refreshes by itself.
AskTokenApart(t, p) ==
    /\ task[t].at = "asleep" /\ served[p] \in {0} \cup aged
    /\ task' = [task EXCEPT ![t] = [Asleep EXCEPT !.at = "read", !.place = p]]
    /\ UNCHANGED <<grant, company, known, renewing, served, serving, held, issued, used, aged, wasted, mishaps>>

\* getAppLocationToken() joins the request under way; getAccessToken() starts anew.
AskToken(t, p) ==
    /\ task[t].at = "asleep" /\ served[p] \in {0} \cup aged
    /\ LET joins == p \in Apps /\ serving[p] # NoTask IN
       /\ task' = [task EXCEPT ![t] = [Asleep EXCEPT !.at = IF joins THEN "joined" ELSE "read", !.place = p]]
       /\ serving' = IF p \in Centers \/ joins THEN serving ELSE [serving EXCEPT ![p] = t]
    /\ UNCHANGED <<grant, company, known, renewing, served, held, issued, used, aged, wasted, mishaps>>

\* The row of the place; the centre app reads it once and works with its copy.
Read(t) ==
    LET p == task[t].place
        c == IF p \in Centers /\ held[p] # NoGrant THEN held[p] ELSE grant[p] IN
    /\ task[t].at = "read"
    /\ held' = IF p \in Centers THEN [held EXCEPT ![p] = c] ELSE held
    /\ \/ c.mode = "none" /\ Ends(t) /\ UNCHANGED served
       \/ /\ c.mode # "none" /\ c.n \notin aged
          /\ served' = [served EXCEPT ![p] = c.n] /\ Ends(t)
       \/ /\ c.n \in aged
          /\ task' = [task EXCEPT ![t].cred = c, ![t].at = IF c.mode = "company" THEN "company" ELSE "refresh"]
          /\ UNCHANGED <<served, serving, renewing>>
    /\ UNCHANGED <<grant, company, known, issued, used, aged, wasted, mishaps>>

\* The refresh token of the place is at HighLevel, which refuses a used one.
RefreshGrant(t) ==
    LET n == task[t].cred.n IN
    /\ task[t].at = "refresh"
    /\ \/ /\ Exchanges(n)
          /\ \/ /\ task' = [task EXCEPT ![t].got = issued', ![t].at = "keep"]
                /\ UNCHANGED <<serving, renewing, wasted, mishaps>>
             \/ Mishap /\ wasted' = wasted \cup {n} /\ Ends(t)
       \/ Ends(t) /\ UNCHANGED <<issued, used, wasted, mishaps>>
    /\ UNCHANGED <<grant, company, known, served, held, aged>>

\* The answer is put into memory before it is stored.
KeepGrant(t) ==
    LET p == task[t].place IN
    /\ task[t].at = "keep"
    /\ IF p \in Apps THEN served' = [served EXCEPT ![p] = task[t].got] /\ UNCHANGED held
       ELSE held' = [held EXCEPT ![p] = [mode |-> task[t].cred.mode, n |-> task[t].got]] /\ UNCHANGED served
    /\ Turn(t, "save")
    /\ UNCHANGED <<grant, company, known, renewing, serving, issued, used, aged, wasted, mishaps>>

\* A plausible bug: only what was minted is stored.
SaveMintedOnly(t) ==
    LET p == task[t].place IN
    /\ task[t].at = "save"
    /\ grant' = IF task[t].cred.mode = "company" THEN [grant EXCEPT ![p].n = task[t].got] ELSE grant
    /\ served' = [served EXCEPT ![p] = task[t].got] /\ Ends(t)
    /\ UNCHANGED <<company, known, held, issued, used, aged, wasted, mishaps>>

\* The credential is stored with the mode it was read in, whatever an installation
\* stored meanwhile.
SaveGrant(t) ==
    LET p == task[t].place  n == task[t].got IN
    /\ task[t].at = "save" /\ Ends(t)
    /\ \/ /\ grant' = [grant EXCEPT ![p] = [mode |-> task[t].cred.mode, n |-> n]]
          /\ served' = [served EXCEPT ![p] = n]
          /\ UNCHANGED <<wasted, mishaps>>
       \/ Mishap /\ wasted' = wasted \cup {task[t].cred.n} /\ UNCHANGED <<grant, served>>
    /\ UNCHANGED <<company, known, held, issued, used, aged>>

-----------------------------------------------------------------------------
\* The token of the company

\* The company token c is good as it is, or refreshed once for all who need it.
TokenOrRefresh(t, c) ==
    LET k  == App(task[t].place)
        at == IF c \notin aged THEN "mint" ELSE IF renewing[k] # NoTask THEN "shared" ELSE "renew" IN
    \/ c = 0 /\ Ends(t)
    \/ /\ c # 0
       /\ task' = [task EXCEPT ![t].base = c, ![t].at = at]
       /\ renewing' = IF at = "renew" THEN [renewing EXCEPT ![k] = t] ELSE renewing
       /\ UNCHANGED serving

\* getCompanyAccessToken(): load() takes the cache, else the row.
LoadCompany(t) ==
    LET k == App(task[t].place) IN
    /\ task[t].at = "company"
    /\ IF known[k] # 0 THEN TokenOrRefresh(t, known[k])
       ELSE /\ task' = [task EXCEPT ![t].base = company[k], ![t].at = "loaded"]
            /\ UNCHANGED <<serving, renewing>>
    /\ UNCHANGED <<grant, company, known, served, held, issued, used, aged, wasted, mishaps>>

\* The row read is put into the cache, whatever is in it by now.
Loaded(t) ==
    LET k == App(task[t].place)  c == task[t].base IN
    /\ task[t].at = "loaded"
    /\ known' = IF c = 0 THEN known ELSE [known EXCEPT ![k] = c]
    /\ TokenOrRefresh(t, c)
    /\ UNCHANGED <<grant, company, served, held, issued, used, aged, wasted, mishaps>>

Renew(t) ==
    LET c == task[t].base IN
    /\ task[t].at = "renew"
    /\ \/ /\ Exchanges(c)
          /\ \/ /\ task' = [task EXCEPT ![t].got = issued', ![t].at = "renewed"]
                /\ UNCHANGED <<serving, renewing, wasted, mishaps>>
             \/ Mishap /\ wasted' = wasted \cup {c} /\ Ends(t)
       \/ Ends(t) /\ UNCHANGED <<issued, used, wasted, mishaps>>
    /\ UNCHANGED <<grant, company, known, served, held, aged>>

\* Into the cache before the row: the old token is dead.
Renewed(t) ==
    /\ task[t].at = "renewed"
    /\ known' = [known EXCEPT ![App(task[t].place)] = task[t].got]
    /\ Turn(t, "persist")
    /\ UNCHANGED <<grant, company, renewing, served, serving, held, issued, used, aged, wasted, mishaps>>

\* persist(), of a refresh or of an installation: three attempts.  Everybody who
\* waits for the refresh goes on with it.
PersistCompany(t) ==
    LET k == App(task[t].place) IN
    /\ task[t].at = "persist"
    /\ \/ /\ company' = [company EXCEPT ![k] = task[t].got]
          /\ LET waiting == IF renewing[k] = t
                            THEN {t} \cup {x \in Tasks : task[x].at = "shared" /\ App(task[x].place) = k} ELSE {} IN
             task' = [x \in Tasks |-> CASE x \in waiting -> [task[x] EXCEPT !.at = "mint", !.got = 0]
                                        [] x = t /\ x \notin waiting -> [task[x] EXCEPT !.at = "company", !.got = 0]
                                        [] OTHER -> task[x]]
          /\ renewing' = [renewing EXCEPT ![k] = IF @ = t THEN NoTask ELSE @]
          /\ UNCHANGED <<serving, wasted, mishaps>>
       \/ Mishap /\ wasted' = wasted \cup ({task[t].base} \ {0}) /\ Ends(t) /\ UNCHANGED company
    /\ UNCHANGED <<grant, known, served, held, issued, used, aged>>

\* mintLocationToken(): a token of the sub-account, which has no refresh token.
Mint(t) ==
    /\ task[t].at = "mint"
    /\ \/ /\ Issue
          /\ task' = [task EXCEPT ![t].got = issued', ![t].at = IF task[t].installs THEN "install" ELSE "keep"]
          /\ UNCHANGED <<serving, renewing>>
       \/ Ends(t) /\ UNCHANGED issued
    /\ UNCHANGED <<grant, company, known, served, held, used, aged, wasted, mishaps>>

-----------------------------------------------------------------------------
\* Installations

\* handleInstall() and handleOAuthInstall(): the code buys a token of the
\* sub-account, or one of the company, cached at once.
Install(t, p, mode) ==
    /\ task[t].at = "asleep" /\ Issue
    /\ task' = [task EXCEPT ![t] = [Asleep EXCEPT !.place = p, !.installs = TRUE, !.got = issued',
                    !.at = IF mode = "company" THEN "persist" ELSE "install", !.cred = [mode |-> mode, n |-> 0]]]
    /\ known' = IF mode = "company" THEN [known EXCEPT ![App(p)] = issued'] ELSE known
    /\ UNCHANGED <<grant, company, renewing, served, serving, held, used, aged, wasted, mishaps>>

\* save(): a connector's row; its cached token is dropped.
StoreConnector(t) ==
    LET p == task[t].place IN
    /\ p \in Apps
    /\ grant' = [grant EXCEPT ![p] = [mode |-> task[t].cred.mode, n |-> task[t].got]]
    /\ served' = [served EXCEPT ![p] = 0]
    /\ UNCHANGED held

\* The tenant of a centre; its state is dropped only when it is new and has been
\* seeded from HighLevel.
StoreCenter(t) ==
    LET p == task[t].place  new == grant[p] = NoGrant IN
    /\ p \in Centers
    /\ grant' = [grant EXCEPT ![p] = [mode |-> task[t].cred.mode, n |-> task[t].got]]
    /\ served' = IF new THEN [served EXCEPT ![p] = 0] ELSE served
    /\ held'   = IF new THEN [held EXCEPT ![p] = NoGrant] ELSE held

StoreInstall(t) ==
    /\ task[t].at = "install" /\ Ends(t)
    /\ \/ (StoreConnector(t) \/ StoreCenter(t)) /\ UNCHANGED mishaps
       \/ Mishap /\ UNCHANGED <<grant, served, held>>
    /\ UNCHANGED <<company, known, issued, used, aged, wasted>>

-----------------------------------------------------------------------------
\* A day passes, the process dies

\* An access token lives for a day, longer than any task that was given it.
Age(n) ==
    /\ n \in 1..issued \ aged
    /\ \A t \in Tasks : task[t].got # n /\ task[t].cred.n # n /\ task[t].base # n
    /\ aged' = aged \cup {n}
    /\ UNCHANGED <<grant, company, known, renewing, served, serving, held, task, issued, used, wasted, mishaps>>

Restart ==
    /\ Mishap
    /\ known' = [k \in AppKeys |-> 0] /\ renewing' = [k \in AppKeys |-> NoTask]
    /\ served' = [p \in Places |-> 0] /\ serving' = [p \in Apps |-> NoTask]
    /\ held' = [p \in Centers |-> NoGrant] /\ task' = [t \in Tasks |-> Asleep]
    /\ wasted' = used \cap ({grant[p].n : p \in Places} \cup {company[k] : k \in AppKeys})
    /\ UNCHANGED <<grant, company, issued, used, aged>>

GrantNext ==
    \/ \E t \in Tasks :
         \/ \E p \in Places : AskToken(t, p) \/ \E mode \in {"location", "company"} : Install(t, p, mode)
         \/ Read(t) \/ RefreshGrant(t) \/ KeepGrant(t) \/ SaveGrant(t)
         \/ LoadCompany(t) \/ Loaded(t) \/ Renew(t) \/ Renewed(t) \/ PersistCompany(t)
         \/ Mint(t) \/ StoreInstall(t)
    \/ \E n \in 1..issued : Age(n)
    \/ Restart

-----------------------------------------------------------------------------
\* Properties

\* A connector never presents a refresh token that was already exchanged, however
\* requests and installations interleave, unless the answer of that exchange was
\* lost or could not be stored: the read of the row is inside the one request
\* under way, and that request ends only after its successor is stored.
ConnectorsRefreshLiveTokens ==
    \A t \in Tasks :
        task[t].at = "refresh" /\ task[t].place \in Apps =>
            task[t].cred.n \notin used \/ task[t].cred.n \in wasted

\* Every stored credential can be refreshed, or its successor is on its way into
\* the row, unless a successor was lost: late writes of older requests included.
StoredTokensCanRefresh ==
    /\ \A p \in Places :
         grant[p].mode = "location" /\ grant[p].n \in used \ wasted =>
             \E t \in Tasks : task[t].at \in {"keep", "save"} /\ task[t].cred.n = grant[p].n
    /\ \A k \in AppKeys :
         company[k] \in used \ wasted =>
             \E t \in Tasks : task[t].at \in {"renewed", "persist"} /\ task[t].base = company[k]
=============================================================================
