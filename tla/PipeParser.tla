----------------------------- MODULE PipeParser -----------------------------
(***************************************************************************)
(* pipe/parser.c: a line of commands with '|' between them is cut into     *)
(* commands and their arguments, in place.  A text is a sequence of        *)
(* characters; where the code puts '\0', it is cut.                        *)
(***************************************************************************)
EXTENDS Integers, Sequences, FiniteSets

Sx == INSTANCE SequencesExt

Bar   == "|"
Blank == " "
White == {" ", "\n"}     \* isspace

Before(s, c) == LET i == Sx!SelectInSeq(s, LAMBDA x : x = c)
                IN  IF i = 0 THEN s ELSE SubSeq(s, 1, i - 1)
After(s, c)  == LET i == Sx!SelectInSeq(s, LAMBDA x : x = c) IN SubSeq(s, i + 1, Len(s))
Has(s, c)    == Sx!Contains(s, c)

SkipWhite(s) == LET i == Sx!SelectInSeq(s, LAMBDA x : x \notin White)
                IN  IF i = 0 THEN <<>> ELSE SubSeq(s, i, Len(s))

\* count_tokens: a text without '|' has none.
CountTokens(t) == LET bars == Cardinality({i \in DOMAIN t : t[i] = Bar})
                  IN  IF bars = 0 THEN 0 ELSE bars + 1

\* faulty: white space is not skipped
NextArgumentWhite(s) == After(s, Blank)

\* What is left of command s after its first argument, which a blank ends.
NextArgument(s) == SkipWhite(After(s, Blank))

\* get_argc_cmd: the first argument counts even if it is empty.
Argc(s) == LET count[n \in 0 .. Len(s)] ==     \* of the last n characters of s
                 LET u == SubSeq(s, Len(s) - n + 1, Len(s))
                 IN  IF Has(u, Blank) /\ NextArgument(u) # <<>>
                     THEN 1 + count[Len(NextArgument(u))] ELSE 1
           IN  count[Len(s)]

\* get_argv_cmd: as many arguments, each up to the next blank.
Argv(s) == LET rest[k \in 0 .. Argc(s)] == IF k = 0 THEN s ELSE NextArgument(rest[k - 1])
           IN  [k \in 1 .. Argc(s) |-> Before(rest[k - 1], Blank)]

\* placing_pointers_in_text
Commands(t) == LET rest[k \in 0 .. CountTokens(t)] == IF k = 0 THEN t ELSE After(rest[k - 1], Bar)
               IN  [k \in 1 .. CountTokens(t) |-> Argv(SkipWhite(Before(rest[k - 1], Bar)))]
-----------------------------------------------------------------------------
(* What the user means: the parts between the bars, and in them the        *)
(* longest runs of characters that are not white.                          *)

Ordered(S) == [k \in 1 .. Cardinality(S) |->
                 CHOOSE m \in S : Cardinality({n \in S : n <= m}) = k]

Runs(t, i, j) ==   \* the words of the part of t from i to j
  LET in(m)  == m \in i .. j /\ t[m] \notin White
      firsts == Ordered({m \in i .. j : in(m) /\ ~in(m - 1)})
      lasts  == Ordered({m \in i .. j : in(m) /\ ~in(m + 1)})
  IN  [k \in DOMAIN firsts |-> SubSeq(t, firsts[k], lasts[k])]

Meant(t) ==
  LET bars == Ordered({i \in DOMAIN t : t[i] = Bar} \cup {0, Len(t) + 1})
  IN  [k \in 1 .. Len(bars) - 1 |-> Runs(t, bars[k] + 1, bars[k + 1] - 1)]
=============================================================================
