---------------------------- MODULE MCReceivePath ----------------------------
(***************************************************************************)
(* Instances of ReceivePath for TLC, whose constants are in the .cfg files, *)
(* and what comments in the code say of the sorter, each checked against    *)
(* what the code does.                                                      *)
(***************************************************************************)
EXTENDS ReceivePath

(* insert_packet logs "Large sequence jump detected. Clear packet queue and *)
(* insert packet": after a jump nothing older than the new packet is held.  *)
JumpClearsQueue ==
    [][\A k \in arrived' \ arrived : IsJump(sorter, k) => \A j \in Held(sorter)' : j >= k]_vars

(* "Start deadline timer when we have new packets": the deadline measures   *)
(* how long the first held packet waited, so the gap below it is given up   *)
(* only when that packet has waited for the full deadline.                  *)
GapWaitsForDeadline ==
    [][(sorter.deadline_timer = 0 /\ sorter'.next_seq > sorter.next_seq /\ arrived' = arrived)
       => sorter.packet_queue[FirstKey(sorter.packet_queue)] = Deadline]_vars
==============================================================================
