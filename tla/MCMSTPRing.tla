---------------------------- MODULE MCMSTPRing ----------------------------
(* Model checking of MSTPRing: what the application may send.              *)
EXTENDS MSTPRing

MCTraffic ==
    {[type |-> "DATA_EXPECTING_REPLY", destination |-> 1],
     [type |-> "DATA_NOT_EXPECTING_REPLY", destination |-> 0],
     [type |-> "DATA_NOT_EXPECTING_REPLY", destination |-> BROADCAST],
     [type |-> "TEST_REQUEST", destination |-> 3]}
=============================================================================
