------------------------------ MODULE MCServer ------------------------------
(* The MCP server's sign-in, its posts and their retries, and the plans that *)
(* limit them.  A behaviour exercises one of these and leaves the rest at    *)
(* its start.                                                                *)
EXTENDS EmailLogin, SocialPosts, TLC

VARIABLE part   \* the part this behaviour exercises

ServerInit ==
    /\ LoginInit /\ PostInit
    /\ part \in {"login", "posts", "plans"}
    /\ part # "plans" => limit = [p \in Plans |-> NoLimit]

\* Bound: posts are tried with every tool and the content there is already, on all
\* platforms, in one minute, under no limit, by no user of Auth0 ...
PostsAreTried ==
    /\ UNCHANGED <<minute, plan, limit>>
    /\ \A c \in Calls :
          call'[c].content \in {"none", posts[1].key[1]} /\ call'[c].who # "auth0"

\* ... and plans by editors with new posts of all contents, on one platform, which the
\* memory keeps and the list does not show yet, unverified and without restarts.
PlansAreTried ==
    /\ UNCHANGED restarts
    /\ \A k \in Keys : recent'[k] >= recent[k]
    /\ \A i \in 1..Len(posts) : posts'[i].listed = posts[i].listed
    /\ \A c \in Calls :
          /\ call'[c].role # "tenant_admin" /\ call'[c].pc # "verify"
          /\ call'[c].tool \in {"none", "create"}
          /\ call'[c].content # posts[1].key[1]
          /\ call'[c].todo \subseteq {posts[1].key[2]}

ServerNext ==
    /\ UNCHANGED part
    /\ \/ part = "login" /\ LoginNext /\ UNCHANGED postVars
       \/ part = "posts" /\ PostNext /\ PostsAreTried /\ UNCHANGED loginVars
       \/ part = "plans" /\ PostNext /\ PlansAreTried /\ UNCHANGED loginVars

ServerSpec == ServerInit /\ [][ServerNext]_<<part, loginVars, postVars>>

\* HighLevel gives every user's address; they share one with the invited teammate.
SharedAddress == [u \in HighLevelUsers |-> CHOOSE a \in Addresses : TRUE]

Symmetry == Permutations(Calls) \cup Permutations(Plans)
=============================================================================
