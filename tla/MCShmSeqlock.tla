----------------------------- MODULE MCShmSeqlock -----------------------------
(* Instances of ShmSeqlock for TLC: a ring of two slots of two units, and   *)
(* enough frames to lap it.                                                 *)
EXTENDS ShmSeqlockStore
===============================================================================
