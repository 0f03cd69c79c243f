----------------------------- MODULE MCLruCache -----------------------------
(* TLC instances of LruCache.  Of the numbers, 0 and 1 fit the eight bits of *)
(* a signature, 256 does not and has the signature of 0.  The wide numbers   *)
(* are on both sides of 256.                                                 *)
EXTENDS LruCache

MCSeqNos == {0, 1, 256}
MCWideSeqNos == {255, 256}
=============================================================================
