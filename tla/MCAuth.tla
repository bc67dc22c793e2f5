------------------------------- MODULE MCAuth -------------------------------
(***************************************************************************)
(* Small instances of Auth.                                                *)
(***************************************************************************)
EXTENDS Auth, FiniteSets, TLC

Sym == Permutations(Requests) \cup Permutations(Tokens) \cup Permutations(Links)
       \cup Permutations(Jars)

Issued(rows) == {x \in DOMAIN rows : rows[x].st # "unissued"}

\* Bound: three refresh tokens and a link, or two links and a refresh token.
\* Without the index, which tokens do not notice, one refresh token.
Budget ==
    /\ Cardinality(Issued(rt)) + 2 * Cardinality(Issued(link)) <= 5
    /\ indexed \/ Cardinality(Issued(rt)) <= 1
=============================================================================
