--------------------------- MODULE MCWorkerHealth ---------------------------
EXTENDS WorkerHealth

CONSTANTS p1, p2, p3

=============================================================================
