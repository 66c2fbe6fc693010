---------------------------- MODULE LossyChannel ----------------------------
(***************************************************************************)
(* What a PacketConn over datagrams promises in one direction: ReadPacket  *)
(* returns only packets that WritePacket took, whole, each at most once,   *)
(* in any order; a packet may get lost at any point.                       *)
(***************************************************************************)
EXTENDS Sequences, SequencesExt

CONSTANT Packet

VARIABLES sent,      \* set of packets taken by WritePacket
          delivered  \* packets returned by ReadPacket, in order

vars == <<sent, delivered>>

Init == sent = {} /\ delivered = <<>>

Send(d) == sent' = sent \cup {d} /\ UNCHANGED delivered

Deliver(d) == /\ d \in sent \ Range(delivered)
              /\ delivered' = Append(delivered, d)
              /\ UNCHANGED sent

Next == \E d \in Packet : Send(d) \/ Deliver(d)

Spec == Init /\ [][Next]_vars
=============================================================================
