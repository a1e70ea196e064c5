------------------------------ MODULE MCTunnel ------------------------------
(***************************************************************************)
(* A client with two interfaces, or with one, and one server address.       *)
(***************************************************************************)
EXTENDS Tunnel, TLC

CONSTANTS wan, lte, addr

MCTwoInterfaces == {<<wan, addr>>, <<lte, addr>>}
MCOneInterface == {<<wan, addr>>}

(* Nothing tells the two interfaces apart, and the run states no liveness.  *)
Symmetry == Permutations({wan, lte})

(* "a session ID, which is randomly generated every time an Endpoint is     *)
(* created": an endpoint that is created anew, and numbers its packets from *)
(* 0, is a new session to its peer.  The client's sorter would then discard *)
(* a packet on its first arrival only after a later one of its numbering.   *)
DownlinkLateIsOvertaken == [][LateIsOvertaken(clientInput, clientInput', clientSorter)]_vars
=============================================================================
