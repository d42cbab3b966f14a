---------------------------- MODULE MCMemoryPool ----------------------------
(* Instances of MemoryPool.                                                    *)
EXTENDS MemoryPool
=============================================================================
