------------------------------- MODULE Scoped -------------------------------
(***************************************************************************)
(* Scoped stores (scoped.go) that read one table concurrently.             *)
(*                                                                         *)
(* Goroutines, each with a ScopedStore of its own, pass the same           *)
(* *QueryFilter to their reads.  mergeFilter appends the RequireTags of    *)
(* the scope to filter.Tags and, if the scope has an ExcludeTag, its       *)
(* UnlessTags to filter.UnlessTags.  When such a slice has spare capacity, *)
(* append writes into its backing array, which all merged filters then     *)
(* share; the array is read only later, when the query is sent.  The       *)
(* append itself is taken to be atomic.                                    *)
(***************************************************************************)
EXTENDS Filters, Naturals, Sequences

CONSTANTS
    Reader,     \* goroutines
    Scope,      \* per reader: its ScopeConfig
    Require,    \* per reader: its RequireTags, as the slice they are
    Unless,     \* per reader: its UnlessTags, likewise
    Filter,     \* the caller's filter
    Spare,      \* spare capacity of the caller's slices
    MaxResults, \* the LIMIT of Search
    Entity

(* The slices of the caller that mergeFilter appends to.                   *)
Slice == {"tags", "unlessTags"}

(* The elements of a slice.                                                *)
Elements(s) == {s[i] : i \in 1..Len(s)}

ASSUME ScopedAssumption ==
    /\ Scope \in [Reader -> ScopeConfig]
    /\ Require \in [Reader -> Seq(Tag)] /\ Unless \in [Reader -> Seq(Tag)]
    /\ \A r \in Reader : /\ Scope[r].requireTags = Elements(Require[r])
                         /\ Scope[r].unlessTags = Elements(Unless[r])
    /\ Filter \in QueryFilter
    /\ Spare \in [Slice -> Nat]
    /\ MaxResults \in Nat \ {0}

VARIABLES
    state,      \* per entity: "none", "live", "deleted" or "gone"
    tags,       \* per entity
    array,      \* per slice of the caller: its backing array, beyond its length
    merged,     \* per reader: its merged filter is waiting to be sent
    overlapped  \* history: the waiting readers whose part of an array another
                \* reader has overwritten with other elements

vars == <<state, tags, array, merged, overlapped>>
tableVars == <<state, tags>>

-----------------------------------------------------------------------------

(* Mutant: the exemptions of the scope are forgotten.                      *)
AppendedTagsOnly(r, s) == IF s = "tags" THEN Require[r] ELSE <<>>

(* What mergeFilter appends to a slice of the caller.                      *)
Appended(r, s) ==
    CASE s = "tags" -> Require[r]
      [] s = "unlessTags" -> IF Scope[r].excludeTag = NoTag THEN <<>> ELSE Unless[r]

(* append writes into the array of the caller if there is room.            *)
InPlace(r, s) == Len(Appended(r, s)) \in 1..Spare[s]

Overwrite(r) ==
    [s \in Slice |->
        [i \in 1..Spare[s] |->
            IF InPlace(r, s) /\ i <= Len(Appended(r, s)) THEN Appended(r, s)[i]
                                                       ELSE array[s][i]]]

(* A slice of the merged filter of r when its query is sent.               *)
MergedSlice(r, s) ==
    Filter[s] \cup (IF InPlace(r, s) THEN {array[s][i] : i \in 1..Len(Appended(r, s))}
                                     ELSE Elements(Appended(r, s)))

(* The filter of r that the query carries.                                 *)
SentFilter(r) ==
    [MergeFilter(Scope[r], Filter) EXCEPT !.tags = MergedSlice(r, "tags"),
                                          !.unlessTags = MergedSlice(r, "unlessTags")]

(* What the clauses on tags let through in the reads of r that merge the   *)
(* filter, GetEntitiesByType and the Find queries, before any LIMIT.       *)
Admitted(r) ==
    {e \in Entity : state[e] = "live" /\ Matches(SentFilter(r), tags[e])}

(* Mutant: the tags are left out as well.                                  *)
SearchAnyTags(r, named) == Limited({e \in named : state[e] = "live"}, MaxResults)

(* Search: the entities of named, whose display name matches, by the Tags  *)
(* of the filter alone.  The order, by similarity, is left open.           *)
SearchByDisplayName(r, named) ==
    Limited({e \in named : state[e] = "live" /\ SentFilter(r).tags \subseteq tags[e]},
            MaxResults)

(* If there are none, a search by tokens, which carries the whole filter;  *)
(* which entities have a token of the query is left open.                  *)
FindByTokens(r) == {page \in SUBSET Admitted(r) : Cardinality(page) <= MaxResults}

Search(r, named) ==
    IF {} \in SearchByDisplayName(r, named) THEN FindByTokens(r)
                                            ELSE SearchByDisplayName(r, named)

Init ==
    /\ state = [e \in Entity |-> "none"]
    /\ tags = [e \in Entity |-> {}]
    /\ array = [s \in Slice |-> [i \in 1..Spare[s] |-> NoTag]]
    /\ merged = [r \in Reader |-> FALSE]
    /\ overlapped = {}

(* BatchWrite: a create gets the AutoTags of the scope.                    *)
Create(r, e, T) ==
    /\ state[e] = "none"
    /\ state' = [state EXCEPT ![e] = "live"]
    /\ tags' = [tags EXCEPT ![e] = T \cup Scope[r].autoTags]
    /\ UNCHANGED <<array, merged, overlapped>>

(* SetTags, AddTags and RemoveTag pass through, whoever calls them.        *)
SetTags(e, T) ==
    /\ state[e] \in {"live", "deleted"}
    /\ tags' = [tags EXCEPT ![e] = T]
    /\ UNCHANGED <<state, array, merged, overlapped>>

(* So do DeleteEntity and HardDeleteEntity.                                *)
Delete(e, to) ==
    /\ state[e] = "live" \/ (state[e] = "deleted" /\ to = "gone")
    /\ state' = [state EXCEPT ![e] = to]
    /\ UNCHANGED <<tags, array, merged, overlapped>>

(* Some array has an element that both append, and not the same one.       *)
Disagree(r, q) ==
    \E s \in Slice :
        /\ InPlace(r, s) /\ InPlace(q, s)
        /\ \E i \in 1..Len(Appended(r, s)) :
              i <= Len(Appended(q, s)) /\ Appended(r, s)[i] # Appended(q, s)[i]

(* mergeFilter.                                                            *)
Merge(r) ==
    /\ ~merged[r]
    /\ merged' = [merged EXCEPT ![r] = TRUE]
    /\ array' = Overwrite(r)
    /\ overlapped' = overlapped \cup {q \in Reader : merged[q] /\ Disagree(r, q)}
    /\ UNCHANGED tableVars

(* The query is sent and answered.                                         *)
Query(r) ==
    /\ merged[r]
    /\ merged' = [merged EXCEPT ![r] = FALSE]
    /\ overlapped' = overlapped \ {r}
    /\ UNCHANGED <<tableVars, array>>

Next ==
    \/ \E e \in Entity, T \in SUBSET Tag :
          (\E r \in Reader : Create(r, e, T)) \/ SetTags(e, T)
    \/ \E e \in Entity, to \in {"deleted", "gone"} : Delete(e, to)
    \/ \E r \in Reader : Merge(r) \/ Query(r)

Spec == Init /\ [][Next]_vars

-----------------------------------------------------------------------------
(* Properties.                                                             *)

(* What r is to see: the entities of its scope that match the filter of    *)
(* the caller, its ExcludeTag aside where the scope has one.               *)
InScope(r) ==
    {e \in Entity :
        /\ state[e] = "live"
        /\ EntityVisible(Scope[r], tags[e])
        /\ Filter.tags \subseteq tags[e]
        /\ Filter.anyTags = {} \/ Filter.anyTags \cap tags[e] # {}
        /\ Scope[r].excludeTag = NoTag => Kept(Filter, tags[e])}

(* The filter of the caller exempts nothing that a scope hides.            *)
CallerNarrows ==
    \A r \in Reader :
        Scope[r].excludeTag # NoTag => Filter.unlessTags \subseteq Scope[r].unlessTags

(* Every filtered read of a scoped store admits the entities that          *)
(* entityVisible does and no others, unless another scope appended other   *)
(* tags to the same filter between its merge and its query.  What a scope  *)
(* left in the arrays before, and what it appends beyond the slice of a    *)
(* reader or in agreement with it, does no harm.                           *)
ScopedReadsExact ==
    \A r \in Reader : merged[r] /\ r \notin overlapped => Admitted(r) = InScope(r)

(* The clauses of a filter that SearchByDisplayName leaves out.            *)
OnlyTags(r) ==
    /\ Scope[r].excludeTag = NoTag
    /\ Filter.anyTags = {} /\ Filter.excludeTag = NoTag

(* Search misses an entity of the scope that has a matching name only on a *)
(* full page, and falls back to tokens only if there is none; under a      *)
(* scope and a filter of required tags alone, a full page is full of       *)
(* entities of the scope: the merged Tags reach both of its queries.       *)
SearchSound ==
    \A r \in Reader : merged[r] /\ r \notin overlapped =>
        \A named \in SUBSET Entity : \A found \in Search(r, named) :
            /\ named \cap InScope(r) \subseteq found \/ Cardinality(found) = MaxResults
            /\ named \cap InScope(r) # {} => found # {} /\ found \subseteq named
            /\ OnlyTags(r) => found \subseteq InScope(r)
=============================================================================
