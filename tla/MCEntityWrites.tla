--------------------------- MODULE MCEntityWrites ---------------------------
(* Small instances of EntityWrites for TLC.                                *)
EXTENDS EntityWrites, TLC

CONSTANTS
    Main, Other,   \* members of Entity
    Long           \* the sessions whose transactions have two operations

FullDoc == [k \in Key |-> CHOOSE v \in Val : TRUE]

Plain(kind, e) ==
    [kind |-> kind, id |-> e, doc |-> EmptyDoc, tags |-> {}, anchor |-> NoAnchor,
     pres |-> <<>>]

Condition(a, must, required, forbidden) ==
    [on |-> a, must |-> must, required |-> required, forbidden |-> forbidden]

(* Writes of the data of Main.  A create writes the empty document, which  *)
(* an update or a merge changes and an update restores.                    *)
WriteOps ==
    {Plain("create", Main), Plain("delete", Main), Plain("hardDelete", Main),
     Plain("update", Main),
     [Plain("merge", Main) EXCEPT !.doc = FullDoc]}

(* The same, what moves the anchor to and from Other, and a change of tags *)
(* alone.  With a single tag, SetTags to nothing is RemoveTag, and AddTags *)
(* is what an update does with its tags.                                   *)
AllOps ==
    WriteOps
    \cup {Plain("hardDelete", Other)}
    \cup {[Plain("removeTags", Main) EXCEPT !.tags = {t}] : t \in Tag}
    \cup {[Plain("update", Main) EXCEPT
             !.doc = FullDoc, !.tags = {t}, !.anchor = a,
             !.pres = <<Condition(a, {"exist"}, NoTag, t)>>] : a \in Anchor, t \in Tag}
    \cup {[Plain("create", Other) EXCEPT
             !.anchor = a, !.pres = <<Condition(a, {"notExist"}, NoTag, NoTag)>>] : a \in Anchor}

(* Creates that each require that no entity has the anchor.                *)
UniqueOps ==
    {[Plain("create", e) EXCEPT
        !.anchor = a, !.pres = <<Condition(a, {"notExist"}, NoTag, NoTag)>>]
     : e \in Entity, a \in Anchor}

OpsPerTx == [s \in Session |-> IF s \in Long THEN 2 ELSE 1]
=============================================================================
