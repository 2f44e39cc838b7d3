---------------------------- MODULE MCDocChunks -----------------------------
(* Small batches for the TLC runs of DocChunks: letter "a", digit "1", space "_",
   newline "n", the SentencePiece mark "M" and one other byte ".". *)
EXTENDS DocChunks

Strings(alphabet, n) == [1..n -> alphabet]
Token(text, l, r) == [text |-> text, lstrip |-> l, rstrip |-> r]

(* Batches of up to four documents of no bytes to ten, with every set of places to
   cut the longest at, and two documents of which the second starts in the head and
   ends in the tail; no added tokens. *)
Words(n, cuts) == [p \in 1..n |-> IF p - 1 \in cuts THEN "_" ELSE "a"]
Uncut(n) == [p \in 1..n |-> "a"]
MCDocs == {Uncut(0), Uncut(1), Uncut(3), Uncut(9)} \cup { Words(10, c) : c \in SUBSET {1, 3, 5, 8} }
Batches == UNION { [1..n -> MCDocs] : n \in 0..2 }
           \cup { <<a, b, Uncut(0), d>> : a \in MCDocs, b \in {Uncut(1), Uncut(3)}, d \in MCDocs }
           \cup { <<a, Words(18, c)>> : a \in {Uncut(9), Words(18, {4, 10})},
                                       c \in SUBSET {3, 6, 9, 12, 15} }
GroupInputs == [docs: Batches, tokens: {{}}, prefix: {FALSE}, target: {3, 4}, lpt: BOOLEAN, model: {ByteLevel}]

(* One oversized document and one added token of each shape, alone or beside a
   short one without a space. *)
Texts == {<<"a">>, <<"a", "_">>, <<"_", "a">>, <<"a", "_", "a">>, <<".">>, <<"_", "a", "_">>}
LoneTokens ==
    { {Token(t, l, r)} : t \in Texts, l \in BOOLEAN, r \in BOOLEAN }
    \cup { {Token(t, FALSE, r), Token(<<"a">>, FALSE, s)} :
               t \in Texts \ {<<"a">>}, r \in BOOLEAN, s \in BOOLEAN }
LoneInputs ==
    [docs: { <<d>> : d \in Strings({"a", "_"}, 8) }, tokens: LoneTokens, prefix: {FALSE},
     target: {3}, lpt: BOOLEAN, model: {ByteLevel}]
    \cup [docs: { <<d>> : d \in Strings({"a", "_", "."}, 7) },
          tokens: { {Token(<<".">>, l, r)} : l \in BOOLEAN, r \in BOOLEAN }, prefix: {TRUE},
          target: {3}, lpt: {FALSE}, model: {ByteLevel}]
    \cup [docs: { <<d>> : d \in Strings({"a", "_", "1"}, 7) },
          tokens: { {Token(<<"1">>, FALSE, TRUE)} }, prefix: {FALSE}, target: {3}, lpt: {FALSE}, model: {ByteLevel}]

(* SentencePiece models.  Merges: inside a word, over a run of marks, over the mark in
   front of a word ("crossing"), over two of them (too complex), and with punctuation.
   Schemes: Llama 2, Metaspace with and without split, normalizers that strip. *)
Pair(x, y) == <<x, y>>
Wordly == <<Pair(<<"M">>, <<"M">>), Pair(<<"M", "M">>, <<"a">>), Pair(<<"a">>, <<"a">>),
            Pair(<<"M">>, <<"a">>)>>
Crossing == <<Pair(<<"a">>, <<"M">>), Pair(<<"a", "M">>, <<"a">>), Pair(<<"M">>, <<"a">>)>>
Complex == <<Pair(<<"a">>, <<"M">>), Pair(<<"M">>, <<"M">>), Pair(<<"a", "M">>, <<"M">>)>>
Punctual == <<Pair(<<"M">>, <<".">>), Pair(<<".">>, <<"M">>), Pair(<<"a">>, <<"a">>)>>
Model(merges, norm, metaspace, split) ==
    [merges |-> merges, pieces |-> {<<"a", "a", "a">>}, norm |-> norm, metaspace |-> metaspace,
     split |-> split]
Schemes(ms) ==
    { Model(x, s[1], s[2], s[3]) : x \in ms,
        s \in {<<"prepend", "absent", FALSE>>, <<"none", "always", TRUE>>, <<"replace", "first", FALSE>>} }
AllModels ==
    Schemes({Wordly, Crossing, Complex, Punctual})
    \cup { Model(x, s[1], s[2], s[3]) : x \in {Crossing, Punctual},
            s \in {<<"strip", "first", FALSE>>, <<"prepend", "always", TRUE>>, <<"replace", "absent", FALSE>>,
                   <<"none", "never", FALSE>>} }

SpBatches(docs, tokens, models) ==
    [docs: docs, tokens: tokens, prefix: {FALSE}, target: {2}, lpt: {FALSE}, model: models]
One(strings) == { <<d>> : d \in strings }

SpTexts == {<<"a">>, <<"a", "_">>, <<"_", "a">>, <<"a", "_", "a">>, <<".">>, <<"a", "a">>}
SpTokens ==
    { {Token(t, l, r)} : t \in SpTexts, l \in BOOLEAN, r \in BOOLEAN }
    \cup { {Token(<<"a", "_">>, FALSE, FALSE), Token(<<"_", "a">>, TRUE, r)} : r \in BOOLEAN }

(* Every text over five characters, alone; with added tokens of every shape; and
   behind and before others. *)
SpRows ==
    SpBatches({ <<<<"a">>, a, <<>>, b, <<"_">>>> : a \in Strings({"a", "_"}, 5), b \in Strings({"a", "_"}, 3) },
              {{}}, Schemes({Wordly}))
SpInputs ==
    SpBatches(One(Strings({"a", "_", "M", "."}, 5)), {{}}, AllModels)
    \cup SpBatches(One(Strings({"a", "_"}, 6) \cup Strings({"a", "_", "n"}, 5)), SpTokens, Schemes({Crossing}))
    \cup SpRows
MCInputs == GroupInputs \cup LoneInputs \cup SpInputs

(* What the theorems ask of an input holds of those for a byte-level tokenizer, and of the
   SentencePiece ones (all of them do, which takes TLC longer to evaluate). *)
ASSUME MCInputsExact ==
    \A i \in GroupInputs \cup LoneInputs \cup SpRows
             \cup SpBatches(One(Strings({"a", "_"}, 5)), SpTokens, Schemes({Crossing})) : CutsExact(i)

(* Two tokens with spaces, of different lengths. *)
MixedTokens == {{Token(<<"a", "_", "a">>, FALSE, FALSE), Token(<<".", ".", "_", ".">>, FALSE, FALSE)}}
MixedInputs ==
    [docs: { <<d>> : d \in Strings({"a", "_"}, 9) }, tokens: MixedTokens, prefix: {FALSE},
     target: {3, 4}, lpt: {FALSE}, model: {ByteLevel}]
=============================================================================
