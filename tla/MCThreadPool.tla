---------------------------- MODULE MCThreadPool ----------------------------
\* ThreadPool on small instances.  The workers, the main thread and "nobody" are
\* model values of the configuration; no symmetry is declared, because the run
\* checks liveness as well.
EXTENDS ThreadPool
=============================================================================
