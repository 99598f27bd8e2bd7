------------------------------ MODULE Filters ------------------------------
(***************************************************************************)
(* Tag filters of the read queries (matching.QueryFilter and the WHERE     *)
(* clauses that use it) and of a ScopedStore (ScopeConfig, scoped.go).     *)
(***************************************************************************)
EXTENDS Naturals, FiniteSets

CONSTANTS
    Tag,
    NoTag       \* the empty string: no ExcludeTag

ASSUME TagAssumption == NoTag \notin Tag

QueryFilter == [tags : SUBSET Tag, anyTags : SUBSET Tag,
                excludeTag : Tag \cup {NoTag}, unlessTags : SUBSET Tag]

NoFilter == [tags |-> {}, anyTags |-> {}, excludeTag |-> NoTag, unlessTags |-> {}]

ScopeConfig == [requireTags : SUBSET Tag, excludeTag : Tag \cup {NoTag},
                unlessTags : SUBSET Tag, autoTags : SUBSET Tag]

(* The condition on tags that the filtered queries share; Kept is its      *)
(* clause on the ExcludeTag.                                               *)
Kept(f, tags) ==
    \/ f.excludeTag = NoTag
    \/ f.excludeTag \notin tags
    \/ f.unlessTags \cap tags # {}

Matches(f, tags) ==
    /\ f.tags \subseteq tags
    /\ f.anyTags = {} \/ f.anyTags \cap tags # {}
    /\ Kept(f, tags)

(* mergeFilter: what a scope adds to the filter of its caller.  An         *)
(* ExcludeTag of the caller gives way to the one of the scope.             *)
MergeFilter(c, f) ==
    [tags |-> f.tags \cup c.requireTags,
     anyTags |-> f.anyTags,
     excludeTag |-> IF c.excludeTag = NoTag THEN f.excludeTag ELSE c.excludeTag,
     unlessTags |-> IF c.excludeTag = NoTag THEN f.unlessTags
                                            ELSE f.unlessTags \cup c.unlessTags]

(* entityVisible: the same rule, for an entity that was fetched unfiltered. *)
EntityVisible(c, tags) ==
    /\ c.requireTags \subseteq tags
    /\ c.excludeTag # NoTag /\ c.excludeTag \in tags => c.unlessTags \cap tags # {}

(* LIMIT n, for a query whose other clauses leave the rows of S and do not *)
(* determine their order: the pages it may return.                         *)
Limited(S, n) ==
    {page \in SUBSET S :
        Cardinality(page) = IF Cardinality(S) < n THEN Cardinality(S) ELSE n}
=============================================================================
