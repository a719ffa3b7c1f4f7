---- MODULE MCFreeList ----
(* FreeList for model checking.  There is no symmetry set: the properties     *)
(* include a liveness property.                                               *)
EXTENDS FreeList
====
