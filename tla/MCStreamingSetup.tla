-------------------------- MODULE MCStreamingSetup --------------------------
(* Requests for a full set, for less of it, and for more than is supported. *)
EXTENDS StreamingSetup

MCRequests == {[kafka |-> 2, cassandra |-> 0], [kafka |-> 1, cassandra |-> 2]}
==============================================================================
