----------------------------- MODULE LogQueueMC -----------------------------
(***************************************************************************)
(* LogQueue for TLC: the instances are interchangeable.                    *)
(***************************************************************************)
EXTENDS LogQueue, TLC

Symmetric == Permutations(Instances)
=============================================================================
