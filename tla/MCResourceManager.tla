------------------------- MODULE MCResourceManager --------------------------
(* Three kinds of programs; RAM for several of them at once, so that the   *)
(* layout gets holes in all orders, and disk and cores that run out first  *)
(* for some mixtures.                                                      *)
EXTENDS ResourceManager

Demand(m, h, c) == [r \in Resources |-> IF r = "ram" THEN m ELSE IF r = "hdd" THEN h ELSE c]

Catalog == {Demand(1, 1, 1), Demand(2, 1, 1), Demand(3, 2, 1)}
Machine == Demand(7, 4, 3)

Symmetry == Permutations(Tasks)

=============================================================================
