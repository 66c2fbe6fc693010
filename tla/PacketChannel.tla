---------------------------- MODULE PacketChannel ----------------------------
(***************************************************************************)
(* What a PacketConn over a reliable stream promises its two users         *)
(* (internal/transport/transport.go, interface PacketConn): in each        *)
(* direction the packets ReadPacket returns are the packets WritePacket    *)
(* took at the other end, in that order, none twice and none skipped,      *)
(* except that a WritePacket whose send failed takes its packet back, and  *)
(* then the packet is never delivered.  Packets may stay undelivered: a    *)
(* session can be closed at any moment.                                    *)
(***************************************************************************)
EXTENDS Naturals, Sequences, SequencesExt

CONSTANTS End,      \* the two ends of the connection
          Packet,   \* the packets that can be written
          Peer(_)   \* the other end

VARIABLES sent,      \* sent[e]: packets taken by WritePacket at e
          delivered  \* delivered[e]: packets returned by ReadPacket at e

vars == <<sent, delivered>>

Init == /\ sent = [e \in End |-> <<>>]
        /\ delivered = [e \in End |-> <<>>]

Send(e, d) == /\ sent' = [sent EXCEPT ![e] = Append(@, d)]
              /\ UNCHANGED delivered

TakeBack(e) == /\ Len(sent[e]) > Len(delivered[Peer(e)])
               /\ sent' = [sent EXCEPT ![e] = Front(@)]
               /\ UNCHANGED delivered

Deliver(e) == LET n == Len(delivered[e]) + 1 IN
              /\ n <= Len(sent[Peer(e)])
              /\ delivered' = [delivered EXCEPT ![e] = Append(@, sent[Peer(e)][n])]
              /\ UNCHANGED sent

Next == \E e \in End : \/ Deliver(e)
                       \/ TakeBack(e)
                       \/ \E d \in Packet : Send(e, d)

Spec == Init /\ [][Next]_vars
=============================================================================
