---------------------------- MODULE MCMailboxes ----------------------------
\* Mailboxes on small instances, every program in one state graph.
EXTENDS Mailboxes, TLC
=============================================================================
