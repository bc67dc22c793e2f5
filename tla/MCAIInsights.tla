---------------------------- MODULE MCAIInsights ----------------------------
(***************************************************************************)
(* Two requests; a TTL of two days and a retention of three, looked at for *)
(* five, so that the cache runs out and the clean-up deletes.  Room for    *)
(* more answers than requests.                                             *)
(***************************************************************************)
EXTENDS AIInsights, TLC

MCReplies == [items : 2 .. 4, sound : BOOLEAN]

Sym == Permutations(Requests)
=============================================================================
