------------------------------ MODULE MCClient --------------------------------
(***************************************************************************)
(* A client, or, beside it, one datagram of any kind: the two have nothing *)
(* to do with each other, and one run checks both.                         *)
(***************************************************************************)
EXTENDS Client, Wire

None == [type |-> "none", fields |-> <<>>, text |-> <<>>]

MCInit == Init /\ (InitDatagram \/ datagram = None)

MCNext ==
  \/ datagram = None /\ Next /\ UNCHANGED datagram
  \/ datagram # None /\ SendDatagram /\ UNCHANGED vars

MCSpec == MCInit /\ [][MCNext]_<<vars, datagram>> /\ Fairness
=============================================================================
