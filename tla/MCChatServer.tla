---------------------------- MODULE MCChatServer ----------------------------
\* ChatServer on small instances.
EXTENDS ChatServer, TLC

CONSTANTS c1, c2, c3

\* Three clients on two descriptors, one of them stays: a descriptor is reused while
\* older tasks may still name it, and accept can run out of descriptors.
Crowd == [coming |-> {c1, c2, c3}, quitting |-> {c1}, vanishing |-> {c2},
          talking |-> {c2}, verbose |-> {}]

\* Two clients who may both leave, one of them after a text of more than a buffer.
Pair == [coming |-> {c1, c2}, quitting |-> {c1}, vanishing |-> {c1, c2},
         talking |-> {c2}, verbose |-> {c2}]

\* Nobody writes and nobody dies.
Silent == [coming |-> {c1, c2}, quitting |-> {c1}, vanishing |-> {}, talking |-> {}, verbose |-> {}]

AllHabits == {Crowd, Pair}
SilentOnly == {Silent}
=============================================================================
