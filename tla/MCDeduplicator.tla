--------------------------- MODULE MCDeduplicator ---------------------------
(* Two calls for one subscription; two ticks are one update period (1 s). *)
EXTENDS Deduplicator
=============================================================================
