----------------------------- MODULE MCMemPool -----------------------------
(* The pool on a small instance: three blocks, two threads, and addresses  *)
(* before, inside and past the blocks for the frees that must be refused.  *)
EXTENDS MemPoolThreads

MCBadAddress == { -2, -1, 1, 3, 6, 7 }
=============================================================================
