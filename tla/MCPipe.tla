------------------------------- MODULE MCPipe -------------------------------
EXTENDS Pipe

CONSTANT MaxText  \* how long the texts are that are only parsed

\* Every short text, whose commands cannot be executed, and lines of all
\* kinds of commands.
ShortTexts == {t \in UNION {[1 .. n -> {"x", " ", "\n", "|"}] : n \in 0 .. MaxText} :
                 CountTokens(t) <= MaxCommands}
Lines == {<<a, " ", "|", " ", b>> : a, b \in {"gen", "cat", "head", "x"}}
         \cup {<<a, "|", b, " ", "x", "|", c>> : a, b, c \in {"gen", "cat", "head", "x"}}
TheTexts == ShortTexts \cup Lines
=============================================================================
