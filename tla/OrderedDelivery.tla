--------------------------- MODULE OrderedDelivery ---------------------------
(***************************************************************************)
(* What the receiving side of a tunnel promises, whatever the network does: *)
(* a packet is delivered only if it arrived, at most once, and never after  *)
(* a packet with a higher sequence number.                                  *)
(***************************************************************************)
EXTENDS Naturals, Sequences

VARIABLES
    arrived,    \* sequence numbers the network has handed over
    delivered   \* sequence numbers given to the reader, oldest first

odVars == <<arrived, delivered>>

ODInit == arrived = {} /\ delivered = <<>>

(* A packet arrives, possibly not for the first time. *)
Arrive ==
    /\ \E seq \in arrived' : arrived' = arrived \cup {seq}
    /\ UNCHANGED delivered

(* A packet above all those delivered so far is delivered. *)
Deliver ==
    /\ \E seq \in arrived :
        /\ \A i \in 1 .. Len(delivered) : delivered[i] < seq
        /\ delivered' = Append(delivered, seq)
    /\ UNCHANGED arrived

ODSpec == ODInit /\ [][Arrive \/ Deliver]_odVars
==============================================================================
