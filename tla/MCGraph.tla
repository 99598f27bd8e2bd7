------------------------------ MODULE MCGraph ------------------------------
(* Small instances of Graph for TLC.                                       *)
EXTENDS Graph, TLC

CONSTANTS Hidden, Exempt    \* members of Tag

(* Entities with the tag Hidden are left out, unless they have Exempt.     *)
HidingScope ==
    [requireTags |-> {}, excludeTag |-> Hidden, unlessTags |-> {Exempt},
     autoTags |-> {}]

(* No property tells one id from another.                                  *)
Symmetry == Permutations(Entity)
=============================================================================
