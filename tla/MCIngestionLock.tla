-------------------------- MODULE MCIngestionLock --------------------------
(***************************************************************************)
(* IngestionLock on a small instance: two slots, two request ids, a TTL of *)
(* two ticks, so that a file is seen fresh, half-way and stale.            *)
(***************************************************************************)
EXTENDS IngestionLock

=============================================================================
