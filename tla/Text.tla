-------------------------------- MODULE Text --------------------------------
(***************************************************************************)
(* Strings as sequences of characters, and what the built-in normalizers   *)
(* and Tokenize make of them (src/matching/matching.go, resolve.go).       *)
(* Characters are letters, digits, white space and everything else; Lower  *)
(* is unicode.ToLower on letters.                                          *)
(***************************************************************************)
EXTENDS Naturals, Sequences, SequencesExt

CONSTANTS Letter, Digit, Space, Punct, Lower

ASSUME CharAssumption ==
    /\ Letter \cap Digit = {} /\ Letter \cap Space = {} /\ Digit \cap Space = {}
    /\ Punct \cap (Letter \cup Digit \cup Space) = {}
    /\ {"+", "|"} \subseteq Punct
    /\ Lower \in [Letter -> Letter]
    /\ \A c \in Letter : Lower[Lower[c]] = Lower[c]

Char == Letter \cup Digit \cup Space \cup Punct
Empty == <<>>

\* A loop that appends the elements of s which are in S: what it has after i
\* rounds, and at the end.  (SelectSeq, in a form that can be reasoned about.)
Selected(s, S) ==
    LET kept[i \in 0 .. Len(s)] ==
            IF i = 0 THEN <<>>
            ELSE IF s[i] \in S THEN Append(kept[i - 1], s[i]) ELSE kept[i - 1]
    IN  kept

Select(s, S) == Selected(s, S)[Len(s)]

\* strings.Join.
Join(parts, sep) ==
    FoldLeftDomain(LAMBDA s, i : IF i = 1 THEN parts[1] ELSE s \o sep \o parts[i],
                   Empty, parts)

LowerChar(c) == IF c \in Letter THEN Lower[c] ELSE c
ToLower(s) == [i \in DOMAIN s |-> LowerChar(s[i])]

\* strings.TrimSpace: from the first to the last character that is no space.
TrimSpace(s) ==
    LET ink == {i \in DOMAIN s : s[i] \notin Space}
    IN  IF ink = {} THEN Empty
        ELSE SubSeq(s, CHOOSE i \in ink : \A j \in ink : i <= j,
                       CHOOSE i \in ink : \A j \in ink : i >= j)

NormalizeLowercaseTrim(s) == ToLower(TrimSpace(s))

\* Digits, and a '+' if it is the very first character once trimmed.
NormalizePhone(s) ==
    LET t == TrimSpace(s)
        digits(u) == Select(u, Digit)
    IN  IF t = Empty THEN Empty
        ELSE IF Head(t) = "+" THEN <<"+">> \o digits(Tail(t))
        ELSE digits(t)

\* What normalizerIdent selects; "nil" leaves the string alone.
Normalizer == {"nil", "NormalizeLowercaseTrim", "NormalizePhone"}

Normalize(fn, s) ==
    CASE fn = "NormalizeLowercaseTrim" -> NormalizeLowercaseTrim(s)
      [] fn = "NormalizePhone" -> NormalizePhone(s)
      [] fn = "nil" -> s

\* The maximal runs of characters of Keep: strings.Fields, with what is not in
\* Keep turned into a space.
Runs(s, Keep) ==
    LET inWord(i) == i \in DOMAIN s /\ s[i] \in Keep
    IN  {SubSeq(s, r[1], r[2]) :
            r \in {q \in (DOMAIN s) \X (DOMAIN s) :
                       /\ q[1] <= q[2]
                       /\ \A i \in q[1] .. q[2] : inWord(i)
                       /\ ~inWord(q[1] - 1) /\ ~inWord(q[2] + 1)}}

\* Mutant of Tokenize: the case of the letters is kept.
TokenizeCased(s) == Runs(s, Letter \cup Digit)

\* Tokenize: letters and digits only, duplicates removed. The order of the
\* tokens is never used: the store compares arrays of tokens as sets.
Tokenize(s) == Runs(ToLower(s), Letter \cup Digit)

\* tokenSet: split at white space only, punctuation stays in the token.
TokenSet(s) == Runs(ToLower(s), Char \ Space)

=============================================================================
