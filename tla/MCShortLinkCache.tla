-------------------------- MODULE MCShortLinkCache --------------------------
(* Small instances of the cached short link for TLC.                       *)
EXTENDS ShortLinkCache, TLC

RequestSymmetry == Permutations(Updaters)
=============================================================================
