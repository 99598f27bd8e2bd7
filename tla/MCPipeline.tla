----------------------------- MODULE MCPipeline -----------------------------
(***************************************************************************)
(* Pipeline for three annotated messages.                                  *)
(***************************************************************************)
EXTENDS Pipeline, TLC

Plain == [anchor |-> FALSE, token_field |-> FALSE, embed |-> FALSE, extract |-> "unset",
          normalizer |-> "unspecified", weight |-> 0, similarity |-> "unspecified",
          conflict |-> "unspecified"]

LowerLetter == [c \in Letter |-> IF c = "A" THEN "a" ELSE c]

\* The values documents have: spellings of one value, and another value.
DocumentTexts ==
    [email |-> {<<"a">>, <<"A", " ">>, <<"b">>},
     name |-> {<<"a", "b">>, <<"b">>, <<"+">>},
     phone |-> {<<"1">>, <<"1", "+">>, <<"+">>},
     note |-> {<<"b">>}]

\* An anchor that a human must decide about; a name that may change, and that
\* cannot be stored if there is no letter in it.
Person == [fields |-> <<"email", "name">>,
           opts |-> [email |-> [Plain EXCEPT !.anchor = TRUE, !.normalizer = "lowercase_trim",
                                             !.weight = 40,
                                             !.conflict = "highest_confidence"],
                     name |-> [Plain EXCEPT !.token_field = TRUE, !.embed = TRUE,
                                            !.normalizer = "lowercase_trim", !.weight = 80,
                                            !.similarity = "jaro_winkler",
                                            !.conflict = "latest_wins"]],
           composites |-> <<>>, display |-> <<"name", "email">>,
           thresholds |-> [auto |-> 75, review |-> 30]]

\* Two anchors, one of which may change, a field without options and one that
\* is not extracted.
Contact == [fields |-> <<"email", "phone", "note">>,
            opts |-> [email |-> [Plain EXCEPT !.anchor = TRUE, !.normalizer = "lowercase_trim",
                                              !.conflict = "latest_wins"],
                      phone |-> [Plain EXCEPT !.anchor = TRUE, !.normalizer = "phone_normalize",
                                              !.conflict = "flag_for_review"],
                      note |-> [Plain EXCEPT !.extract = "false"]],
            composites |-> <<>>, display |-> <<"note">>, thresholds |-> NoThresholds]

\* Identified by two fields together.
Citizen == [fields |-> <<"name", "phone">>,
            opts |-> [name |-> [Plain EXCEPT !.normalizer = "lowercase_trim"],
                      phone |-> [Plain EXCEPT !.normalizer = "phone_normalize"]],
            composites |-> <<<<"name", "phone">>>>, display |-> <<"name">>,
            thresholds |-> NoThresholds]

PassTypes == {Person, Contact}
CompositeTypes == {Citizen}

Symmetry == Permutations(Extractor) \cup Permutations(Entity)
=============================================================================
