----------------------------- MODULE MCExecutor -----------------------------
(* Small instances of Executor for TLC.                                    *)
EXTENDS Executor
CONSTANT o1
OneOrder == {o1}
==============================================================================
