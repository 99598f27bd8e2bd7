------------------------------ MODULE MCPages ------------------------------
(* Small instances of Pages for TLC.                                       *)
EXTENDS Pages, TLC

CONSTANTS Shown    \* a member of Tag

ShownOnly == [NoFilter EXCEPT !.tags = {Shown}]

Symmetry == Permutations(Writer) \cup Permutations(Entity \ {Centre})

(* What neither a guard nor a listing of the kind looks at is not told     *)
(* apart: the tags, but for the filtered listing, and updated_at where no  *)
(* entities are listed.                                                    *)
Seen(row) ==
    [st |-> row.st,
     updated |-> IF kind \in {"byType", "filtered"} THEN row.updated ELSE 0,
     tags |-> IF kind = "filtered" THEN row.tags ELSE {}]

View == <<now, start, [e \in Entity |-> Seen(entity[e])], relation, event, tagged, pageVars, histVars>>
=============================================================================
