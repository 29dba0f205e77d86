--------------------------- MODULE MCDaemonStart ---------------------------
EXTENDS DaemonStart

CONSTANTS d1, d2, d3

\* From a shell, with an inherited descriptor more, and with standard input,
\* output or both closed.
TheStarts == {{0, 1, 2}, {0, 1, 2, 3}, {1, 2}, {0, 2}, {2}}
=============================================================================
