----------------------------- MODULE MCBarrier -----------------------------
\* Two requests, the closing request and two spawned tasks.
EXTENDS Barrier

CONSTANTS r1, r2, close, c1, c2, noScope

MCTasks == {r1, r2, close, c1, c2}
MCRoots == {r1, r2, close}
=============================================================================
