---------------------------- MODULE MCWordFilter ----------------------------
EXTENDS WordFilter

CONSTANT MaxFile  \* how long files are

\* 1 and 5 give all remainders; a minus inside a word is like a letter.
TheFiles == UNION {[1 .. n -> {1, 5, Minus, Space}] : n \in 0 .. MaxFile}
=============================================================================
