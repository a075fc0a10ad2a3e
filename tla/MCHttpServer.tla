---------------------------- MODULE MCHttpServer ----------------------------
\* HttpServer on small instances.
EXTENDS HttpServer

\* The server may make anything of what a rude client sends (Parsed), so one kind
\* stands for all.
ServingInit == Init /\ (manners = "rude" => \A c \in Clients : kind[c] = "page")

ServingSpec == ServingInit /\ [][Next]_vars /\ Fairness
=============================================================================
