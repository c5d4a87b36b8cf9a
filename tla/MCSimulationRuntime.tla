------------------------- MODULE MCSimulationRuntime -------------------------
(***************************************************************************)
(* Instances of SimulationRuntime: the users and what they do differ from  *)
(* run to run, see the .cfg files.                                         *)
(***************************************************************************)
EXTENDS SimulationRuntime, TLC

\* Every operation of the exported class.
AnyOps == {"start", "pause", "stop", "runPulse"}

\* What the command line does: start once, stop on a signal.
CliOps == {"start", "stop"}

\* Neither callers nor activations are told apart (safety runs only).
Interchangeable == Permutations(Callers) \cup Permutations(Execs)
===============================================================================
