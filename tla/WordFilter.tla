----------------------------- MODULE WordFilter -----------------------------
(***************************************************************************)
(* BIZZBUZZ/main.c: a file is copied word by word, and numbers that 3 or 5 *)
(* divides are replaced.  It is read in chunks of MAX_LEN characters,      *)
(* through the same descriptor that words which stay are copied from; a    *)
(* word may lie in several chunks.                                         *)
(*                                                                         *)
(* A character is a digit, the minus, a space or a letter.  The output is  *)
(* the sequence of the calls of print_word: the type, and the part of the  *)
(* file that it stands for.  A call that fails ends the program and is     *)
(* left out, and so is the check of the type, which anylise_word cannot    *)
(* fail.                                                                   *)
(***************************************************************************)
EXTENDS Integers, Sequences

Sx == INSTANCE SequencesExt

CONSTANTS MAX_LEN,  \* the size of the buffer
          Files     \* the files, sequences of characters

Digit  == 0 .. 9
Minus  == 10
Space  == 11
Letter == 12
Chars  == Digit \cup {Minus, Space, Letter}

ASSUME LengthAssumption == MAX_LEN \in Nat \ {0}
ASSUME FilesAssumption  == Files \subseteq Seq(Chars)

VARIABLES file,
          pos,          \* where the descriptor is
          buffer, offset_buf, offset_read,
          size,         \* how much of the file is not done
          mode, type,
          long_word_size, offset_file,
          num_mod_3, last_digit,  \* static in anylise_word
          out

statics == <<num_mod_3, last_digit>>
vars    == <<file, pos, buffer, offset_buf, offset_read, size, mode, type,
             long_word_size, offset_file, statics, out>>

Init == /\ file \in Files /\ pos = 0
        /\ buffer = <<>> /\ offset_buf = 0 /\ offset_read = 0 /\ size = Len(file)
        /\ mode = "NEXT" /\ type = "DEFAULT"
        /\ long_word_size = 0 /\ offset_file = 0
        /\ num_mod_3 = 0 /\ last_digit = 1
        /\ out = <<>>
-----------------------------------------------------------------------------
(* The words *)

\* find_word: how many characters at the beginning of w are of the kind of
\* the first, which are spaces or not.
Length(w) == LET other == Sx!SelectInSeq(w, LAMBDA c : (c = Space) # (w[1] = Space))
             IN  IF other = 0 THEN Len(w) ELSE other - 1

FindMode(w) == IF w[1] = Space THEN "SPACE" ELSE IF Length(w) < Len(w) THEN "NEXT" ELSE "CONTINUE"

\* anylise_word: a minus is skipped, and digits are added up from what the
\* statics have until another character comes.  A word that goes on in the
\* next chunk, or ends with the file, starts with the statics of earlier ones.
Unsigned(w) == IF w[1] = Minus /\ Len(w) > 1 THEN Tail(w) ELSE w

Digits(w) == LET other == Sx!SelectInSeq(w, LAMBDA c : c \notin Digit)
             IN  IF other = 0 THEN w ELSE SubSeq(w, 1, other - 1)

\* The remainder after the digits u, from r before them.
Remainder(r, u) == LET mod[k \in 0 .. Len(u)] == IF k = 0 THEN r ELSE (u[k] + mod[k - 1]) % 3
                   IN  mod[Len(u)]

\* faulty: the sum goes on from word to word
NewStaticsKept(m, w) ==
  /\ num_mod_3' = Remainder(num_mod_3, Digits(Unsigned(w)))
  /\ last_digit' = IF Digits(Unsigned(w)) # <<>> THEN Sx!Last(Digits(Unsigned(w))) ELSE 1

NewStatics(m, w) ==
  /\ num_mod_3' = Remainder(IF m = "NEXT" THEN 0 ELSE num_mod_3, Digits(Unsigned(w)))
  /\ last_digit' = IF Digits(Unsigned(w)) # <<>> THEN Sx!Last(Digits(Unsigned(w)))
                   ELSE IF m = "NEXT" THEN 1 ELSE last_digit

\* The type, after the statics have been brought up to date.
TypeOf(w) == IF Digits(Unsigned(w)) # Unsigned(w) THEN "STR"
             ELSE CASE num_mod_3' = 0 /\ last_digit' % 5 = 0 -> "BIZZBUZZ"
                    [] num_mod_3' = 0 /\ last_digit' % 5 # 0 -> "BIZZ"
                    [] num_mod_3' # 0 /\ last_digit' % 5 = 0 -> "BUZZ"
                    [] OTHER                                 -> "STR"
-----------------------------------------------------------------------------
\* faulty: the descriptor stays where the word was copied from
PrintWordMoves(t, n) ==
  /\ out' = Append(out, [type |-> t, from |-> offset_file, size |-> n])
  /\ offset_file' = offset_file + n
  /\ pos' = IF t = "STR" THEN offset_file + n ELSE offset_read'

\* print_word moves the descriptor to copy a word, and lseek64 back.
PrintWord(t, n) ==
  /\ out' = Append(out, [type |-> t, from |-> offset_file, size |-> n])
  /\ offset_file' = offset_file + n
  /\ pos' = offset_read'

Smaller(a, b) == IF a < b THEN a ELSE b

\* The outer loop.  A word that was not finished in the last chunk is, if
\* this one begins with a space.
ReadChunk ==
  LET n == Smaller(MAX_LEN, Len(file) - pos) IN
  /\ size > 0 /\ offset_buf = Len(buffer)
  /\ buffer' = SubSeq(file, pos + 1, pos + n) /\ offset_buf' = 0
  /\ offset_read' = offset_read + n
  /\ \/ /\ mode = "CONTINUE" /\ buffer'[1] = Space
        /\ PrintWord(type, long_word_size)
        /\ long_word_size' = 0 /\ type' = "DEFAULT" /\ mode' = "NEXT"
     \/ /\ mode # "CONTINUE" \/ buffer'[1] # Space
        /\ pos' = pos + n
        /\ UNCHANGED <<out, offset_file, long_word_size, type, mode>>
  /\ UNCHANGED <<file, size, statics>>

\* faulty: only the last piece counts
LongWordLast(m, n) == CASE m = "CONTINUE" -> n
                        [] m = "NEXT"     -> 0
                        [] m = "SPACE"    -> long_word_size

LongWord(m, n) == CASE m = "CONTINUE" -> long_word_size + n
                    [] m = "NEXT"     -> 0
                    [] m = "SPACE"    -> long_word_size

Rest == SubSeq(buffer, offset_buf + 1, Len(buffer))

\* The inner loop
Piece ==
  LET n == Length(Rest) IN
  /\ offset_buf < Len(buffer)
  /\ mode' = FindMode(Rest) /\ offset_buf' = offset_buf + n
  /\ UNCHANGED <<file, buffer, offset_read>>
  /\ LET kind(t) ==    \* the type of this piece is t
           \/ /\ mode' \in {"NEXT", "SPACE"} \/ size = offset_buf'
              /\ PrintWord(t, long_word_size + n) /\ type' = "DEFAULT"
           \/ /\ mode' = "CONTINUE" /\ size # offset_buf' /\ type' = t
              /\ UNCHANGED <<out, offset_file, pos>>
     IN  \/ mode' = "SPACE" /\ kind("STR") /\ UNCHANGED statics
         \/ mode' = "CONTINUE" /\ type = "STR" /\ kind("STR") /\ UNCHANGED statics
         \/ /\ mode' = "NEXT" \/ (mode' = "CONTINUE" /\ type # "STR")
            /\ NewStatics(mode', SubSeq(Rest, 1, n))
            /\ kind(TypeOf(SubSeq(Rest, 1, n)))
  /\ long_word_size' = LongWord(mode', n)
  /\ size' = IF offset_buf' = Len(buffer) THEN size - Len(buffer) ELSE size

Done == size = 0 /\ UNCHANGED vars

Next == ReadChunk \/ Piece \/ Done
Spec == Init /\ [][Next]_vars
-----------------------------------------------------------------------------
Types == {"STR", "BIZZ", "BUZZ", "BIZZBUZZ"}

(* The types; also, the chunk in the buffer is the one before offset_read, *)
(* and what is neither written nor waits as a piece of a word is ahead.    *)
TypeOK ==
  /\ file \in Files /\ offset_buf \in 0 .. Len(buffer) /\ Len(buffer) <= MAX_LEN
  /\ pos = offset_read /\ offset_read \in 0 .. Len(file)
  /\ buffer = SubSeq(file, offset_read - Len(buffer) + 1, offset_read)
  /\ mode \in {"NEXT", "SPACE", "CONTINUE"} /\ type \in Types \cup {"DEFAULT"}
  /\ num_mod_3 \in 0 .. 2 /\ last_digit \in Digit
  /\ size > 0 => offset_file + long_word_size = offset_read - Len(buffer) + offset_buf

SpaceAt(i) == file[i + 1] = Space
End(w)     == w.from + w.size

(* The output stands for the file from its beginning on, without gap or    *)
(* overlap, and is complete at the end; a word is written in one piece,    *)
(* in however many chunks it lies.                                         *)
WordsInOrder ==
  /\ \A k \in DOMAIN out : out[k].from = IF k = 1 THEN 0 ELSE End(out[k - 1])
  /\ size = 0 /\ out # <<>> => End(Sx!Last(out)) = Len(file)
  /\ size = 0 /\ file # <<>> => out # <<>>
  /\ \A k \in DOMAIN out :
       LET w == out[k] IN
       /\ w.size > 0
       /\ \A i \in w.from .. End(w) - 1 : SpaceAt(i) = SpaceAt(w.from)
       /\ ~SpaceAt(w.from) => /\ w.from > 0 => SpaceAt(w.from - 1)
                              /\ End(w) < Len(file) => SpaceAt(End(w))

\* What README.md says of a word w: a number that 3 divides, or 5, or both.
Number(w)   == w # <<>> /\ w # <<Minus>> /\ \A i \in DOMAIN w : w[i] \in Digit \/ (i = 1 /\ w[i] = Minus)
Value(w)    == LET u == Unsigned(w)
                   value[k \in 0 .. Len(u)] == IF k = 0 THEN 0 ELSE 10 * value[k - 1] + u[k]
               IN  value[Len(u)]
Expected(w) == IF ~Number(w) THEN "STR"
               ELSE CASE Value(w) % 15 = 0 -> "BIZZBUZZ"
                      [] Value(w) % 3 = 0 /\ Value(w) % 5 # 0 -> "BIZZ"
                      [] Value(w) % 5 = 0 /\ Value(w) % 3 # 0 -> "BUZZ"
                      [] OTHER -> "STR"

(* A word is replaced exactly if it should be, whatever came before it.    *)
(* It takes that the word and a space after it are in the same chunk: of a *)
(* longer one only the last piece counts (main.c:165), and one at the end  *)
(* of the chunk or of the file goes on from an earlier sum (main.c:266),   *)
(* although README.md says that numbers can be as long as you want.        *)
ReplacedIfDivisible ==
  \A k \in DOMAIN out :
    LET w == out[k] IN
    ~SpaceAt(w.from) /\ End(w) < Len(file) /\ w.from \div MAX_LEN = End(w) \div MAX_LEN
      => w.type = Expected(SubSeq(file, w.from + 1, End(w)))
=============================================================================
