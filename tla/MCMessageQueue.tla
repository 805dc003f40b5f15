-------------------------- MODULE MCMessageQueue --------------------------
(***************************************************************************)
(* Two threads that make synchronous calls, each with its own id, and one  *)
(* asynchronous id with two payloads.                                      *)
(***************************************************************************)
EXTENDS MessageQueue

MCCallers == {"t1", "t2"}
MCMessage ==
    {[id |-> "SYNC1", data |-> 0], [id |-> "SYNC2", data |-> 0],
     [id |-> "ASYNC", data |-> 1], [id |-> "ASYNC", data |-> 2]}
MCSyncId == [c \in MCCallers |-> IF c = "t1" THEN "SYNC1" ELSE "SYNC2"]
===========================================================================
