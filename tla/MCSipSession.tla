---------------------------- MODULE MCSipSession ----------------------------
(* Values for the constants of SipSession. *)
EXTENDS SipSession, TLC

CONSTANTS w1, w2

User(writers, client, server, faults) ==
    [writers |-> writers, faults |-> faults,
     writes |-> [e \in End |-> IF e = "client" THEN client ELSE server]]

(* Both ways at once, and one slow consumer, with every fault; and a       *)
(* second writer after one that gave up waiting.                           *)
Faulty == {User({w1}, 1, 1, FaultKinds), User({w1}, 3, 0, FaultKinds),
           User({w1, w2}, 2, 0, {"timeout"})}

(* Two writers at each end and no fault; a close at any moment. *)
Lively == {User({w1, w2}, 2, 1, {}), User({w1}, 1, 1, {"close"})}

(* Nothing tells two packets apart but their order. *)
Packets == Permutations(Packet)
=============================================================================
