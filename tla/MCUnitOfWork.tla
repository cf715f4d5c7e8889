---------------------------- MODULE MCUnitOfWork ----------------------------
(* Small instances of UnitOfWork for TLC. *)
EXTENDS UnitOfWork, TLC

\* Tasks are interchangeable: none has a priority on the lock.
Symmetry == Permutations(Tasks)
=============================================================================
