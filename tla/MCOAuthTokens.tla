---------------------------- MODULE MCOAuthTokens ----------------------------
(* Small instances of OAuthTokens for TLC. *)
EXTENDS OAuthTokens, TLC

(* Everything but the numbered tokens is interchangeable; sound for the    *)
(* invariants only, the temporal runs do not use it.                       *)
Symmetry == Permutations(Families) \cup Permutations(Requests) \cup Permutations(Codes)
            \cup Permutations(Clients) \cup Permutations(Owners)
=============================================================================
