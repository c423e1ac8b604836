------------------------------ MODULE MCSynch ------------------------------
(* Synch with every semaphore built as in synchdisk.cc, post.cc and        *)
(* progtest.cc: with value 0, to be raised by a handler.  Nothing tells    *)
(* the threads other than the first apart.                                 *)
EXTENDS Synch, TLC

Zero == [s \in Semaphore |-> 0]

MCSymmetry == Permutations(Thread \ {Main})
=============================================================================
