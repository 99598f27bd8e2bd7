------------------------------ MODULE MCScoped ------------------------------
(* Small instances of Scoped for TLC.                                      *)
EXTENDS Scoped, TLC

CONSTANTS
    Acme, Other, Private,    \* members of Tag
    Plain,                   \* a reader of one tenant
    Wide,                    \* requires two tags
    Open,                    \* another tenant; it hides nothing
    Long                     \* exempts two tags

(* All but Open append Acme first.                                         *)
Required ==
    [r \in Reader |-> CASE r \in {Plain, Long} -> <<Acme>>
                        [] r = Wide -> <<Acme, Other>>
                        [] r = Open -> <<Other>>]

Exempted ==
    [r \in Reader |-> CASE r \in {Plain, Open} -> <<Other>>
                        [] r = Wide -> <<Acme>>
                        [] r = Long -> <<Acme, Other>>]

Scopes ==
    [r \in Reader |->
        [requireTags |-> Elements(Required[r]),
         excludeTag |-> IF r = Open THEN NoTag ELSE Private,
         unlessTags |-> Elements(Exempted[r]),
         autoTags |-> Elements(Required[r])]]

(* Two more tags fit, and one more exemption.                              *)
Room == [s \in Slice |-> IF s = "tags" THEN 2 ELSE 1]

(* No property tells one id from another.                                  *)
Symmetry == Permutations(Entity)
=============================================================================
