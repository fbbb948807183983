------------------------------ MODULE OVSText ------------------------------
(***************************************************************************)
(* How the OVS client (src/dpf-utils/internal/utils/ovsclient) reads what  *)
(* ovs-vsctl prints.  A text is a sequence of symbols: the ones that mean  *)
(* something to the parser, and words.                                     *)
(***************************************************************************)
EXTENDS Naturals, Sequences, SequencesExt, FiniteSetsExt

CONSTANT Plain  \* words that ovs-vsctl prints without quotes

Quote == "\""
Blanks == {" ", "\n"}

-----------------------------------------------------------------------------
(***************************************************************************)
(* ovs-vsctl: strings other than plain words are quoted, and a map is      *)
(* printed in the order of its keys.                                       *)
(***************************************************************************)
Printed(v) ==
    IF Len(v) = 1 /\ v[1] \in Plain THEN v ELSE <<Quote>> \o v \o <<Quote>>

Joined(pairs) ==
    FoldLeft(LAMBDA acc, p : IF acc = <<>> THEN p ELSE acc \o <<", ">> \o p,
             <<>>, pairs)

\* ids is a function from keys, which are plain words, to texts.
PrintedMap(ids, keyOrder) ==
    LET keys == SelectSeq(keyOrder, LAMBDA k : k \in DOMAIN ids)
        pairs == [i \in DOMAIN keys |-> <<keys[i], "=">> \o Printed(ids[keys[i]])]
    IN  <<" ", "{">> \o Joined(pairs) \o <<"}", "\n">>

-----------------------------------------------------------------------------
(***************************************************************************)
(* Go's strings.TrimSpace, Trim and Split, and getExternalIDsAsMap.        *)
(***************************************************************************)
TrimAll(s, cut) ==
    LET kept == {i \in DOMAIN s : s[i] \notin cut}
    IN  IF kept = {} THEN <<>> ELSE SubSeq(s, Min(kept), Max(kept))
TrimBlanks(s) == TrimAll(s, Blanks)

Split(s, sep) ==
    FoldLeft(LAMBDA acc, c : IF c = sep THEN Append(acc, <<>>)
                             ELSE [acc EXCEPT ![Len(acc)] = Append(@, c)],
             << <<>> >>, s)

ErrorAnswer == [kind |-> "error"]
Panic == [kind |-> "panic"]
IDs(f) == [kind |-> "ids", ids |-> f]

\* The pairs in turn: more than one "=" is an error, none is an index out of
\* range, and a later pair overrides an earlier one with its key.
ParsePairs(text) ==
    LET parts == Split(text, ", ")
        pairs == [i \in DOMAIN parts |-> Split(parts[i], "=")]
        bad == {i \in DOMAIN pairs : Len(pairs[i]) # 2}
        Key(i) == TrimBlanks(pairs[i][1])
        ValueOf(k) == TrimBlanks(pairs[Max({i \in DOMAIN pairs : Key(i) = k})][2])
    IN  IF bad # {}
        THEN IF Len(pairs[Min(bad)]) > 2 THEN ErrorAnswer ELSE Panic
        ELSE IDs([k \in {Key(i) : i \in DOMAIN pairs} |-> ValueOf(k)])

\* A mutated form for the checks: the braces are cut off as if they were blanks,
\* and what is left is always taken for pairs.
GetExternalIDsAsMap_NoEmpty(raw) ==
    ParsePairs(TrimAll(TrimBlanks(raw), {"{", "}"}))

\* An empty text has no first symbol; one that is only "{" has no last one.
GetExternalIDsAsMap(raw) ==
    LET trimmed == TrimBlanks(raw)
        opened == IF Head(trimmed) = "{" THEN Tail(trimmed) ELSE trimmed
        inner == IF Last(opened) = "}" THEN Front(opened) ELSE opened
    IN  IF trimmed = <<>> \/ trimmed = <<"{">> THEN Panic
        ELSE IF inner = <<>> THEN IDs(<<>>)
        ELSE ParsePairs(inner)

=============================================================================
