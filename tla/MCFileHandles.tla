----------------------------- MODULE MCFileHandles -----------------------------
(* FileHandles for TLC. *)
EXTENDS FileHandles, TLC

Interchangeable == Permutations(Procs) \cup Permutations(Streams)
================================================================================
