-------------------------- MODULE MCSparkTestSession --------------------------
(* A module with grants of its own between two without, on two dispatchers. *)
EXTENDS SparkTestSession

CONSTANTS spark, testusers, nobody, root, stub1, stub2

Plain == [service |-> spark, user |-> nobody, extra |-> FALSE]
MCModules == <<Plain, [service |-> testusers, user |-> root, extra |-> TRUE], Plain>>
==============================================================================
