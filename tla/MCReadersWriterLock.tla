------------------------- MODULE MCReadersWriterLock -------------------------
(* The lock with three threads, each two reader sections deep at most.      *)
EXTENDS ReadersWriterLock

=============================================================================
