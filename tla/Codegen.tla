------------------------------ MODULE Codegen ------------------------------
(***************************************************************************)
(* What protoc-gen-entitystore makes of an annotated message               *)
(* (src/cmd/protoc-gen-entitystore/main.go).  The generator prints Go      *)
(* code; an operator here is what the printed function returns.            *)
(*                                                                         *)
(* A message type ty is a record of its fields in proto order, the options *)
(* of the annotated ones, its composite anchors, the display fields and    *)
(* the thresholds, as percentages.  A message is a function from the       *)
(* fields to texts; the getter of an absent field returns Empty.           *)
(***************************************************************************)
EXTENDS Text, FiniteSets

CONSTANTS
    FieldName,
    NoThresholds    \* match_thresholds is not set

FieldOptions ==
    [anchor : BOOLEAN, token_field : BOOLEAN, embed : BOOLEAN,
     extract : {"unset", "true", "false"},
     normalizer : {"unspecified", "lowercase_trim", "phone_normalize"},
     weight : Nat,
     similarity : {"unspecified", "exact", "jaro_winkler", "levenshtein", "token_jaccard"},
     conflict : {"unspecified", "flag_for_review", "latest_wins", "highest_confidence"}]

\* Type correctness of a message type; the fields of composite anchors and
\* display fields are names the generator looks up and may not find.
IsMessageType(ty) ==
    /\ ty.fields \in Seq(FieldName) /\ IsInjective(ty.fields)
    /\ DOMAIN ty.opts \subseteq ToSet(ty.fields)
    /\ \A f \in DOMAIN ty.opts : ty.opts[f] \in FieldOptions
    /\ ty.composites \in Seq(Seq(FieldName))
    /\ ty.display \in Seq(FieldName)
    /\ ty.thresholds = NoThresholds
       \/ ty.thresholds \in [auto : Nat, review : Nat]

Message(ty, texts) == [ToSet(ty.fields) -> texts]

\* annotatedFieldsEx: the fields whose options pass the test, in proto order.
Annotated(ty, passing) == Select(ty.fields, passing)

-----------------------------------------------------------------------------
\* generateMatchConfig.

similarityIdent(sf) == IF sf = "unspecified" THEN "exact" ELSE sf

conflictIdent(cs) == IF cs = "unspecified" THEN "flag_for_review" ELSE cs

normalizerIdent(n) ==
    CASE n = "lowercase_trim" -> "NormalizeLowercaseTrim"
      [] n = "phone_normalize" -> "NormalizePhone"
      [] OTHER -> "nil"

\* The normalizer of a field; nil for a field without options.
NormalizerOf(ty, f) ==
    IF f \in DOMAIN ty.opts THEN normalizerIdent(ty.opts[f].normalizer) ELSE "nil"

AnchorField(ty, f) == [field |-> f, normalizer |-> NormalizerOf(ty, f)]

\* DefaultMatchThresholds.
DefaultThresholds == [auto |-> 85, review |-> 60]

MatchConfig(ty) ==
    LET anchors == Annotated(ty, {f \in DOMAIN ty.opts : ty.opts[f].anchor})
        weighted == Annotated(ty, {f \in DOMAIN ty.opts : ty.opts[f].weight > 0})
        conflicted == {f \in DOMAIN ty.opts : ty.opts[f].conflict # "unspecified"}
        normalized == {f \in DOMAIN ty.opts : ty.opts[f].normalizer # "unspecified"}
    IN  [singles |-> [i \in DOMAIN anchors |-> AnchorField(ty, anchors[i])],
         composites |-> [i \in DOMAIN ty.composites |->
                            [j \in DOMAIN ty.composites[i] |->
                                AnchorField(ty, ty.composites[i][j])]],
         weights |-> [i \in DOMAIN weighted |->
                        [field |-> weighted[i], weight |-> ty.opts[weighted[i]].weight,
                         similarity |-> similarityIdent(ty.opts[weighted[i]].similarity)]],
         strategies |-> [f \in conflicted |-> conflictIdent(ty.opts[f].conflict)],
         thresholds |-> IF ty.thresholds = NoThresholds THEN DefaultThresholds
                        ELSE ty.thresholds,
         embedFields |-> Annotated(ty, {f \in DOMAIN ty.opts : ty.opts[f].embed}),
         tokenFields |-> Annotated(ty, {f \in DOMAIN ty.opts : ty.opts[f].token_field}),
         normalizers |-> [f \in normalized |-> normalizerIdent(ty.opts[f].normalizer)]]

-----------------------------------------------------------------------------
\* generateExtractionSchema: annotated fields unless extract is false, and the
\* others; anchors are required.
ExtractionSchema(ty) ==
    LET refused == {f \in DOMAIN ty.opts : ty.opts[f].extract = "false"}
        wanted == Select(ty.fields, ToSet(ty.fields) \ refused)
    IN  [i \in DOMAIN wanted |->
            [name |-> wanted[i],
             required |-> wanted[i] \in DOMAIN ty.opts /\ ty.opts[wanted[i]].anchor]]

-----------------------------------------------------------------------------
\* The functions on messages.

\* generateTokens: a field that is all punctuation gets the empty list that
\* Tokenize returns, which is a nil slice.
Tokens(ty, msg) ==
    LET fs == ToSet(Annotated(ty, {f \in DOMAIN ty.opts : ty.opts[f].token_field}))
    IN  [f \in {g \in fs : msg[g] # Empty} |-> Tokenize(msg[f])]

\* generateEmbedText: the values as they are.
EmbedText(ty, msg) ==
    LET embeds == Annotated(ty, {f \in DOMAIN ty.opts : ty.opts[f].embed})
        fs == Select(embeds, {f \in DOMAIN msg : msg[f] # Empty})
    IN  Join([i \in DOMAIN fs |-> msg[fs[i]]], <<" ">>)

\* An anchor: the fields, how their names are joined, and the value.  A single
\* name is joined to nothing, in a composite anchor too.
Anchor(fields, sep, value) ==
    [fields |-> fields, sep |-> IF Len(fields) = 1 THEN "" ELSE sep, value |-> value]

\* Mutant of SingleAnchors: the value as it is in the message.
SingleAnchorsRaw(ty, msg) ==
    {Anchor(<<f>>, "", msg[f]) :
        f \in {g \in DOMAIN ty.opts : ty.opts[g].anchor /\ msg[g] # Empty}}

\* generateAnchors, one if statement per annotated anchor.
SingleAnchors(ty, msg) ==
    {Anchor(<<f>>, "", Normalize(NormalizerOf(ty, f), msg[f])) :
        f \in {g \in DOMAIN ty.opts : ty.opts[g].anchor /\ msg[g] # Empty}}

\* compositeVal, a field at a time.  Fields without options are left out,
\* although a later field puts its "|" in front of itself.
CompositeValue(ty, msg, c) ==
    LET norm(f) == Normalize(NormalizerOf(ty, f), msg[f])
        built[i \in 0 .. Len(c)] ==
            IF i = 0 THEN Empty
            ELSE IF c[i] \notin DOMAIN ty.opts THEN built[i - 1]
            ELSE IF i = 1 THEN norm(c[i])
            ELSE built[i - 1] \o <<"|">> \o norm(c[i])
    IN  built[Len(c)]

\* generateAnchors, one if statement per composite anchor.  Fields without
\* options are left out of the condition, too; the name has them all.
CompositeAnchors(ty, msg) ==
    LET known(c) == ToSet(c) \cap DOMAIN ty.opts
        complete(c) == known(c) # {} /\ \A f \in known(c) : msg[f] # Empty
    IN  {Anchor(c, "+", CompositeValue(ty, msg, c)) :
            c \in {d \in ToSet(ty.composites) : complete(d)}}

Anchors(ty, msg) == SingleAnchors(ty, msg) \cup CompositeAnchors(ty, msg)

\* generateDisplayName: the first display field with a value.
DisplayName(ty, msg) ==
    LET fs == Select(ty.display, {f \in DOMAIN msg : msg[f] # Empty})
    IN  IF fs = <<>> THEN Empty ELSE msg[Head(fs)]

\* generateWriteOp.
WriteOp(ty, msg, action) ==
    [action |-> action, data |-> msg, anchors |-> Anchors(ty, msg),
     tokens |-> Tokens(ty, msg), display |-> DisplayName(ty, msg)]

=============================================================================
