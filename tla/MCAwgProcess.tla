---------------------------- MODULE MCAwgProcess ----------------------------
(* A small instance of AwgProcess.  The bound is Proc: a behaviour spawns  *)
(* each process at most once, so there are at most Cardinality(Proc)       *)
(* incarnations; a start can always fail instead.                          *)
EXTENDS AwgProcess
=============================================================================
