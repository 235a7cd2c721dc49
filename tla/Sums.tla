-------------------------------- MODULE Sums --------------------------------
(***************************************************************************)
(* Sums of counts, said without recursion: as the number of units that the *)
(* counts hold together.                                                   *)
(***************************************************************************)
EXTENDS Naturals, FiniteSets

(* SUM(column) over the rows x that f maps to their counts.                *)
Units(f) == UNION {{x} \X (1..f[x]) : x \in DOMAIN f}
SumOf(f) == Cardinality(Units(f))
=============================================================================
