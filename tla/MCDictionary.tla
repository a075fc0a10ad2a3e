---------------------------- MODULE MCDictionary ----------------------------
\* Dictionary on small instances.
EXTENDS Dictionary, TLC

CONSTANTS a, b, d

\* Two inserts, the second one not full; a line that is no entry; a word twice in
\* different inserts; no file.
SomeFiles == {<<a, NoEntry, b, d>>, <<a, b, a>>, Missing}
=============================================================================
