---------------------------- MODULE MCFileCopies ----------------------------
\* FileCopies on small sizes, odd and even.
EXTENDS FileCopies, TLC
=============================================================================
