---- MODULE MCWorkerQueue ----
EXTENDS WorkerQueue, TLC
CONSTANTS w1, w2, c1, c2, c3, c4
\* Two workers, and enough callers that two wait while two work.
MCWorkers == {w1, w2}
MCCallers == {c1, c2, c3, c4}
====
