------------------------------ MODULE MCBootm ------------------------------
(* Bootm on five words of memory, with a kernel that is moved, one that    *)
(* runs where it was read, one whose place overlaps, and one that is       *)
(* compressed.                                                             *)
EXTENDS Bootm
CONSTANTS moved, inplace, overlapping, zipped

Header(type, comp, load, ep, size) ==
  [arch |-> TRUE, type |-> type, comp |-> comp, load |-> load, ep |-> ep, size |-> size]

MCImages ==
  [i \in {moved, inplace, overlapping, zipped} |->
     CASE i = moved       -> Header("kernel", "none", 1, 1, 1)
       [] i = inplace     -> Header("noload", "none", 1, 1, 2)
       [] i = overlapping -> Header("kernel", "none", 1, 1, 2)
       [] i = zipped      -> Header("kernel", "gzip", 1, 1, 1)]
=============================================================================
