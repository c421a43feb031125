--------------------------- MODULE MCKVCacheManager ---------------------------
(* KVCacheManager on small instances.  A full entry is 256 and a compressed    *)
(* one 3 units, the limit 512: one full entry is already "full pressure", two   *)
(* compressed ones cross the thresholds one after the other, and three full     *)
(* entries exceed the limit.                                                    *)
EXTENDS KVCacheManager
=============================================================================
