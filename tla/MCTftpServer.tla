---------------------------- MODULE MCTftpServer ----------------------------
\* TftpServer on small instances; clients are strings, as a file's owner is.
EXTENDS TftpServer, TLC

\* One client after the other or at the same time, block numbers wrap around; and
\* one client on a network that loses, repeats and reorders.
Reliable == [who |-> {"g", "p", "r", "a"}, blocks |-> 9, tries |-> 0,
             loses |-> FALSE, repeats |-> FALSE]
Lossy == [who |-> {"c"}, blocks |-> 4, tries |-> 3, loses |-> TRUE, repeats |-> TRUE]

BothNetworks == {Reliable, Lossy}
=============================================================================
