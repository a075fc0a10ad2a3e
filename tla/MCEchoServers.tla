--------------------------- MODULE MCEchoServers ---------------------------
\* EchoServers on small instances, every kind of server in one state graph.
EXTENDS EchoServers, TLC
=============================================================================
