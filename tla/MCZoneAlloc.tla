---------------------------- MODULE MCZoneAlloc ----------------------------
(* Two threads, a small class of two objects a page and a large class, two *)
(* entries in a zone page.  The threads are interchangeable.               *)
EXTENDS ZoneAlloc, TLC

Symmetry == Permutations(Threads)

=============================================================================
