----------------------------- MODULE MCService -----------------------------
(* Small instances of Service for TLC.                                     *)
EXTENDS Service, TLC

CONSTANTS r1, r2, r3, q1, sweeper, pruner

MCRpcs == {r1, r2, r3}
MCRests == {q1}
MCLoops == {sweeper, pruner}
=============================================================================
