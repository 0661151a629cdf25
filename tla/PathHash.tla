------------------------------- MODULE PathHash -------------------------------
(***************************************************************************)
(* Paths are sequences of character codes.  hashFunction of the naming     *)
(* server (src/init_naming_server.c) folds them into a bucket of the cache. *)
(* Codes are 7-bit: a byte above 127 is negative where char is signed and  *)
(* wraps modulo 2^32 before the remainder is taken, which picks another    *)
(* bucket and nothing else.                                                *)
(***************************************************************************)
EXTENDS Naturals, SequencesExt

HashFunction(path, capacity) ==
    FoldLeft(LAMBDA hash, char : (hash * 31 + char) % capacity, 0, path)
=============================================================================
