------------------------- MODULE MCShortLinkCreate -------------------------
(* A small instance of the creation and listing of short links for TLC.    *)
EXTENDS ShortLinkListing, TLC

CONSTANTS c1, c2, c3, o1, o2

(* The second id gives a code that a request may ask for.                  *)
CodeOfId == <<c1, c2, c3>>

AnyRequest == {[owner |-> o1, code |-> None], [owner |-> o2, code |-> c2]}

(* A client pages while no more than two creates are under way.            *)
Explored ==
  /\ listing # NoListing => Cardinality({t \in Threads : pc[t] # "idle"}) <= 2
  /\ listing.stage # "done"

ThreadSymmetry == Permutations(Threads)
=============================================================================
