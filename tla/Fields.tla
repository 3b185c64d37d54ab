------------------------------- MODULE Fields -------------------------------
(* JavaScript objects as functions: { ...a, ...b }, a Map and its entries.   *)

\* Fields laid over those a record has, and an entry put into a map.
Over(f, g)   == [x \in DOMAIN f \cup DOMAIN g |-> IF x \in DOMAIN f THEN f[x] ELSE g[x]]
Put(f, i, x) == [k \in DOMAIN f \cup {i} |-> IF k = i THEN x ELSE f[k]]

\* The entry of a map, if there is one; no fields otherwise.
At(f, i)     == IF i \in DOMAIN f THEN f[i] ELSE <<>>
=============================================================================
