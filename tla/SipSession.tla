----------------------------- MODULE SipSession -----------------------------
(***************************************************************************)
(* The data phase of one SIP connection: internal/transport/sip.go after   *)
(* clientAuth and serverAuth have succeeded and start() has run at both    *)
(* ends.  At each end four kinds of goroutine share one sipConn:           *)
(*                                                                         *)
(*   - writers, inside WritePacket: one MESSAGE, then wait for its 200 OK; *)
(*   - the responder started by start(): one 200 OK per queued request;    *)
(*   - readLoop: reads the connection and feeds ack, responses and rx;     *)
(*   - the consumer, inside ReadPacket.                                    *)
(*                                                                         *)
(* The connection is one FIFO byte stream per direction.  A SIP message    *)
(* goes out in two pieces, "head" and "body", because writeAll may need    *)
(* several writes; only the wire mutex keeps the pieces of a writer and of *)
(* the responder apart.                                                    *)
(***************************************************************************)
EXTENDS Naturals, Sequences, SequencesExt

CONSTANTS
    Writer,     \* goroutines that call WritePacket at one end
    Packet,     \* payloads of 1..MTU bytes; WritePacket refuses any other
    Plans,      \* bound: what the users of a session do, and what befalls it
    SockCap,    \* pieces the connection buffers per direction
    RxCap,      \* capacity of rx (256 in newSIP)
    AckCap,     \* capacity of ack (8 in newSIP)
    RespCap     \* capacity of responses (8 in start)

(* "close": the application calls Close; "drop": the connection dies under *)
(* the session (network failure, or serveStream's AfterFunc closing n);    *)
(* "deadline": a blocked write passes its 15 s deadline; "timeout": the    *)
(* 15 s wait for a 200 OK ends.                                            *)
FaultKinds == {"close", "drop", "deadline", "timeout"}

ASSUME SipAssumption ==
    /\ \A p \in Plans : /\ p.writers \subseteq Writer
                        /\ p.writes \in [{"client", "server"} -> Nat]
                        /\ p.faults \subseteq FaultKinds
    /\ {SockCap, RxCap, AckCap, RespCap} \subseteq Nat \ {0}
    /\ "resp" \notin Writer

End == {"client", "server"}
Peer(e) == IF e = "client" THEN "server" ELSE "client"

VARIABLES
    seq,        \* seq[e]: CSeq number of the last request made at e
    pc,         \* pc[e][t]: where writer or responder t of end e is
    body,       \* body[e]: what the writer that holds tx has sealed last
    reply,      \* reply[e]: CSeq of the request the responder is answering
    recvSeq,    \* recvSeq[e]: CSeq number of the last request accepted at e
    rd,         \* rd[e]: where readLoop is
    held,       \* held[e]: the message readLoop is reading or handling
    net,        \* net[e]: pieces written at e and not yet read at Peer(e)
    ack, responses, rx,  \* the three channels
    done,       \* done[e]: Close has closed the done channel
    open,       \* open[e]: the net.Conn of e has not been closed
    eof,        \* eof[e]: the consumer has been told io.EOF and stopped
    sent,       \* history: packets of the requests made at e, in order
    delivered,  \* history: packets returned by ReadPacket at e, in order
    cause,      \* history: an outside event or an rx overflow has happened
    plan        \* which of Plans this session follows; never changes

sendVars == <<seq, pc, body, reply>>
readVars == <<recvSeq, rd, held>>
chanVars == <<ack, responses, rx>>
connVars == <<done, open>>
userVars == <<eof, sent, delivered>>
vars == <<sendVars, readVars, net, chanVars, connVars, userVars, cause, plan>>

(* A message: its kind, its CSeq, the additional data its body was sealed  *)
(* with, and the payload (a 200 OK has an empty body).                     *)
Request(n, a, d) == [kind |-> "MESSAGE", cseq |-> n, ad |-> a, data |-> d]
Response(n) == [kind |-> "200 OK", cseq |-> n]

(* The client has made two OPTIONS requests in the handshake, the server   *)
(* none; neither side's handshake touched recvSeq.                         *)
FirstSeq(e) == IF e = "client" THEN 2 ELSE 0

Init ==
    /\ seq = [e \in End |-> FirstSeq(e)]
    /\ pc = [e \in End |-> [t \in Writer \cup {"resp"} |-> "idle"]]
    /\ body = [e \in End |-> <<>>]
    /\ reply = [e \in End |-> 0]
    /\ recvSeq = [e \in End |-> 0]
    /\ rd = [e \in End |-> "first"]
    /\ held = [e \in End |-> Response(0)]
    /\ net = [e \in End |-> <<>>]
    /\ ack = [e \in End |-> <<>>]
    /\ responses = [e \in End |-> <<>>]
    /\ rx = [e \in End |-> <<>>]
    /\ done = [e \in End |-> FALSE]
    /\ open = [e \in End |-> TRUE]
    /\ eof = [e \in End |-> FALSE]
    /\ sent = [e \in End |-> <<>>]
    /\ delivered = [e \in End |-> <<>>]
    /\ cause = FALSE
    /\ plan \in Plans

(* Mutant of Close: the connection stays open. *)
CloseDoneOnly(e) == /\ done' = [done EXCEPT ![e] = TRUE]
                    /\ UNCHANGED open

(* Close: sync.Once closes done and the connection. *)
Close(e) == /\ done' = [done EXCEPT ![e] = TRUE]
            /\ open' = [open EXCEPT ![e] = FALSE]

Goto(e, t, where) == pc' = [pc EXCEPT ![e][t] = where]

(* Mutants of the mutexes: tx given back once the request is out, and no   *)
(* wire mutex at all.                                                      *)
TxFreeAfterSend(e) == \A w \in Writer : pc[e][w] \in {"idle", "failed", "await"}
WireUnlocked(e) == TRUE

(* The two mutexes: tx is held for a whole WritePacket, wire for a send. *)
TxFree(e) == \A w \in Writer : pc[e][w] \in {"idle", "failed"}
WireFree(e) == \A t \in Writer \cup {"resp"} : pc[e][t] \notin {"head", "body"}

-----------------------------------------------------------------------------
(* WritePacket: take tx, and seal the packet under the CSeq that the next  *)
(* request is expected to take.                                            *)
Seal(e, w, d) ==
    /\ pc[e][w] = "idle"
    /\ w \in plan.writers
    /\ TxFree(e)
    /\ seq[e] < FirstSeq(e) + plan.writes[e]
    /\ body' = [body EXCEPT ![e] = [ad |-> seq[e] + 1, data |-> d]]
    /\ Goto(e, w, "seal")
    /\ UNCHANGED <<seq, reply, readVars, net, chanVars, connVars, userVars, cause>>

(* request, up to send: advance seq, for the header.  The session has the  *)
(* packet now.                                                             *)
MakeRequest(e, w) ==
    /\ pc[e][w] = "seal"
    /\ seq' = [seq EXCEPT ![e] = @ + 1]
    /\ sent' = [sent EXCEPT ![e] = Append(@, body[e].data)]
    /\ Goto(e, w, "lock")
    /\ UNCHANGED <<body, reply, readVars, net, chanVars, connVars, eof, delivered, cause>>

(* The message t is sending: a request under tx, or the reply in hand. *)
Outgoing(e, t) ==
    IF t = "resp" THEN Response(reply[e])
                  ELSE Request(seq[e], body[e].ad, body[e].data)

(* send: s.wire.Lock() *)
LockWire(e, t) ==
    /\ pc[e][t] = "lock"
    /\ WireFree(e)
    /\ Goto(e, t, "head")
    /\ UNCHANGED <<seq, body, reply, readVars, net, chanVars, connVars, userVars, cause>>

(* send: one write of writeAll.  It blocks while the stream is full.  The  *)
(* last one ends the call: wire is released, a writer goes on to wait for  *)
(* its 200 OK and the responder returns to its select.                     *)
WritePiece(e, t) ==
    /\ pc[e][t] \in {"head", "body"}
    /\ open[e]
    /\ Len(net[e]) < SockCap
    /\ net' = [net EXCEPT ![e] = Append(@, [part |-> pc[e][t], msg |-> Outgoing(e, t)])]
    /\ Goto(e, t, IF pc[e][t] = "head" THEN "body"
                  ELSE IF t = "resp" THEN "idle" ELSE "await")
    /\ UNCHANGED <<seq, body, reply, readVars, chanVars, connVars, userVars, cause>>

(* send fails: the connection is closed here or at the peer, or the write  *)
(* was blocked past its deadline.  A writer returns the error and leaves   *)
(* the connection open; the responder closes the session.                  *)
SendError(e, t) ==
    /\ pc[e][t] \in {"head", "body"}
    /\ \/ (~open[e] \/ ~open[Peer(e)]) /\ UNCHANGED cause
       \/ /\ "deadline" \in plan.faults
          /\ Len(net[e]) >= SockCap
          /\ cause' = TRUE
    /\ IF t = "resp"
       THEN Close(e) /\ Goto(e, t, "stopped") /\ UNCHANGED sent
       ELSE /\ Goto(e, t, "failed")
            /\ sent' = [sent EXCEPT ![e] = Front(@)]
            /\ UNCHANGED connVars
    /\ UNCHANGED <<seq, body, reply, readVars, net, chanVars, eof, delivered>>

(* WritePacket: got := <-s.ack.  Only the CSeq of this request will do. *)
ReceiveAck(e, w) ==
    /\ pc[e][w] = "await"
    /\ ack[e] # <<>>
    /\ ack' = [ack EXCEPT ![e] = Tail(@)]
    /\ Goto(e, w, IF Head(ack[e]) = seq[e] THEN "idle" ELSE "failed")
    /\ UNCHANGED <<seq, body, reply, readVars, net, responses, rx, connVars, userVars,
                   cause>>

(* WritePacket: <-s.done, or the timer, which closes the session. *)
AwaitEnds(e, w) ==
    /\ pc[e][w] = "await"
    /\ \/ done[e] /\ UNCHANGED <<connVars, cause>>
       \/ /\ "timeout" \in plan.faults
          /\ Close(e)
          /\ cause' = TRUE
    /\ Goto(e, w, "failed")
    /\ UNCHANGED <<seq, body, reply, readVars, net, chanVars, userVars>>

-----------------------------------------------------------------------------
(* The responder's select. *)
TakeResponse(e) ==
    /\ pc[e]["resp"] = "idle"
    /\ responses[e] # <<>>
    /\ reply' = [reply EXCEPT ![e] = Head(responses[e])]
    /\ responses' = [responses EXCEPT ![e] = Tail(@)]
    /\ Goto(e, "resp", "lock")
    /\ UNCHANGED <<seq, body, readVars, net, ack, rx, connVars, userVars, cause>>

ResponderStops(e) ==
    /\ pc[e]["resp"] = "idle"
    /\ done[e]
    /\ Goto(e, "resp", "stopped")
    /\ UNCHANGED <<seq, body, reply, readVars, net, chanVars, connVars, userVars, cause>>

-----------------------------------------------------------------------------
(* readLoop returns, and its deferred Close runs. *)
LeaveReadLoop(e) == Close(e) /\ rd' = [rd EXCEPT ![e] = "stopped"]

(* A request readLoop accepts: newer than every earlier one, and its body  *)
(* opens under its own CSeq.                                               *)
Acceptable(e, m) == m.cseq > recvSeq[e] /\ m.ad = m.cseq

(* Mutant of AtMessage: readLoop sends each 200 OK itself, so it reads no  *)
(* further before the reply is out.                                        *)
AtMessageReplied(e) == /\ rd[e] = "first"
                       /\ pc[e]["resp"] = "idle" /\ responses[e] = <<>>

(* readLoop is back at readSIP. *)
AtMessage(e) == rd[e] = "first"

(* readSIP: the first piece of a message. *)
ReadHead(e) ==
    /\ AtMessage(e)
    /\ open[e]
    /\ net[Peer(e)] # <<>>
    /\ net' = [net EXCEPT ![Peer(e)] = Tail(@)]
    /\ LET p == Head(net[Peer(e)]) IN
       IF p.part = "head"
       THEN /\ held' = [held EXCEPT ![e] = p.msg]
            /\ rd' = [rd EXCEPT ![e] = "rest"]
            /\ UNCHANGED connVars
       ELSE LeaveReadLoop(e) /\ UNCHANGED held
    /\ UNCHANGED <<recvSeq, sendVars, chanVars, userVars, cause>>

(* readSIP returns a message and readLoop dispatches on it.  Pieces of two *)
(* different messages do not parse, or do not decrypt.  A response goes to *)
(* ack; an acceptable request is queued for the responder if there is      *)
(* room, before its payload goes to rx; anything else ends the session.    *)
ReadBody(e) ==
    /\ rd[e] = "rest"
    /\ open[e]
    /\ net[Peer(e)] # <<>>
    /\ net' = [net EXCEPT ![Peer(e)] = Tail(@)]
    /\ LET m == held[e]
           whole == Head(net[Peer(e)]) = [part |-> "body", msg |-> m]
           isAck == whole /\ m.kind = "200 OK"
           isReq == whole /\ m.kind = "MESSAGE" /\ Acceptable(e, m)
       IN /\ recvSeq' = IF whole /\ m.kind = "MESSAGE" /\ m.cseq > recvSeq[e]
                        THEN [recvSeq EXCEPT ![e] = m.cseq] ELSE recvSeq
          /\ \/ /\ isAck
                /\ rd' = [rd EXCEPT ![e] = "ack"]
                /\ UNCHANGED <<responses, connVars>>
             \/ /\ isReq
                /\ Len(responses[e]) < RespCap
                /\ responses' = [responses EXCEPT ![e] = Append(@, m.cseq)]
                /\ rd' = [rd EXCEPT ![e] = "rx"]
                /\ UNCHANGED connVars
             \/ /\ isReq => done[e] \/ Len(responses[e]) >= RespCap
                /\ ~isAck
                /\ LeaveReadLoop(e)
                /\ UNCHANGED responses
    /\ UNCHANGED <<held, sendVars, ack, rx, userVars, cause>>

(* readSIP fails: the connection was closed here, or the peer closed it    *)
(* (end of stream, or a reset that overtakes data still unread).           *)
ReadFails(e) ==
    /\ rd[e] \in {"first", "rest"}
    /\ ~open[e] \/ ~open[Peer(e)]
    /\ LeaveReadLoop(e)
    /\ UNCHANGED <<recvSeq, held, net, sendVars, chanVars, userVars, cause>>

(* readLoop: s.ack <- cseq, or done. *)
PushAck(e) ==
    /\ rd[e] = "ack"
    /\ \/ /\ Len(ack[e]) < AckCap
          /\ ack' = [ack EXCEPT ![e] = Append(@, held[e].cseq)]
          /\ rd' = [rd EXCEPT ![e] = "first"]
          /\ UNCHANGED connVars
       \/ done[e] /\ LeaveReadLoop(e) /\ UNCHANGED ack
    /\ UNCHANGED <<recvSeq, held, sendVars, net, responses, rx, userVars, cause>>

(* Mutant of Overflow: the packet is dropped and the loop goes on. *)
OverflowDrops(e) == rd' = [rd EXCEPT ![e] = "first"] /\ UNCHANGED connVars

(* A consumer that is RxCap packets behind ends the session. *)
Overflow(e) == LeaveReadLoop(e)

(* readLoop: s.rx <- b, or done, or the queue is full: the session ends. *)
PushRx(e) ==
    /\ rd[e] = "rx"
    /\ \/ /\ Len(rx[e]) < RxCap
          /\ rx' = [rx EXCEPT ![e] = Append(@, held[e].data)]
          /\ rd' = [rd EXCEPT ![e] = "first"]
          /\ UNCHANGED <<connVars, cause>>
       \/ done[e] /\ LeaveReadLoop(e) /\ UNCHANGED <<rx, cause>>
       \/ /\ Len(rx[e]) >= RxCap /\ ~done[e]
          /\ Overflow(e)
          /\ cause' = TRUE
          /\ UNCHANGED rx
    /\ UNCHANGED <<recvSeq, held, sendVars, net, ack, responses, userVars>>

-----------------------------------------------------------------------------
(* ReadPacket: a packet if one is queued, io.EOF if the session is done.   *)
(* When both are true Go's select picks either.                            *)
ReadPacket(e) ==
    /\ ~eof[e]
    /\ \/ /\ rx[e] # <<>>
          /\ rx' = [rx EXCEPT ![e] = Tail(@)]
          /\ delivered' = [delivered EXCEPT ![e] = Append(@, Head(rx[e]))]
          /\ UNCHANGED eof
       \/ done[e] /\ eof' = [eof EXCEPT ![e] = TRUE] /\ UNCHANGED <<rx, delivered>>
    /\ UNCHANGED <<sendVars, readVars, net, ack, responses, connVars, sent, cause>>

(* Outside events. *)
AppClose(e) ==
    /\ "close" \in plan.faults
    /\ ~done[e]
    /\ Close(e)
    /\ cause' = TRUE
    /\ UNCHANGED <<sendVars, readVars, net, chanVars, userVars>>

ConnDrop(e) ==
    /\ "drop" \in plan.faults
    /\ open[e]
    /\ open' = [open EXCEPT ![e] = FALSE]
    /\ cause' = TRUE
    /\ UNCHANGED <<sendVars, readVars, net, chanVars, done, userVars>>

-----------------------------------------------------------------------------
(* One disjunction per goroutine.  Whether an application writes at all is *)
(* its own choice, so Seal is not part of the steps a writer owes.         *)
WriterNext(e, w) == \/ MakeRequest(e, w) \/ LockWire(e, w) \/ WritePiece(e, w)
                    \/ SendError(e, w) \/ ReceiveAck(e, w) \/ AwaitEnds(e, w)
ResponderNext(e) == \/ TakeResponse(e) \/ ResponderStops(e) \/ LockWire(e, "resp")
                    \/ WritePiece(e, "resp") \/ SendError(e, "resp")
ReaderNext(e) == ReadHead(e) \/ ReadBody(e) \/ ReadFails(e) \/ PushAck(e) \/ PushRx(e)

Next == /\ UNCHANGED plan
        /\ \E e \in End : \/ \E w \in Writer, d \in Packet : Seal(e, w, d)
                          \/ \E w \in Writer : WriterNext(e, w)
                          \/ ResponderNext(e)
                          \/ ReaderNext(e)
                          \/ ReadPacket(e)
                          \/ AppClose(e)
                          \/ ConnDrop(e)

Spec == Init /\ [][Next]_vars

(* Every goroutine that can run eventually does (Go's scheduler), the      *)
(* consumer calls ReadPacket again after each packet (as Bridge does),     *)
(* and no outside event is ever owed.                                      *)
Fairness == \A e \in End :
    /\ \A w \in Writer : WF_vars(UNCHANGED plan /\ WriterNext(e, w))
    /\ WF_vars(UNCHANGED plan /\ ResponderNext(e))
    /\ WF_vars(UNCHANGED plan /\ ReaderNext(e))
    /\ WF_vars(UNCHANGED plan /\ ReadPacket(e))

LiveSpec == Spec /\ Fairness

-----------------------------------------------------------------------------
(* Both directions of the session are packet channels: whatever the        *)
(* goroutines interleave, and whenever the session dies, what ReadPacket   *)
(* returns is a prefix of what WritePacket made requests of, and a packet  *)
(* whose send failed is never delivered.                                   *)
Channel == INSTANCE PacketChannel WITH End <- End, Packet <- Packet, Peer <- Peer,
                                       sent <- sent, delivered <- delivered
ImplementsPacketChannel == Channel!Spec

(* Because WritePacket holds tx until its 200 OK is in, an honest peer has *)
(* at most one unanswered request: neither ack nor responses ever holds    *)
(* more than one entry, so readLoop never ends a session because one of    *)
(* them is full, and its wait in "s.ack <- cseq" never blocks.             *)
QueuesNeverFill == \A e \in End : Len(responses[e]) <= 1 /\ Len(ack[e]) <= 1

(* No interleaving of honest ends closes a session by itself: done is      *)
(* closed only after the application closed an end, the connection died,   *)
(* a deadline passed or a consumer fell RxCap packets behind.  So messages *)
(* of writer and responder never mix on the wire, no CSeq is refused and   *)
(* no body fails to open.                                                  *)
ClosedForCause == (\E e \in End : done[e]) => cause

(* Nor does a WritePacket fail by itself: the 200 OK that it finds in ack  *)
(* is that of its own request, whichever of the writers made the one       *)
(* before, so it never returns "unexpected SIP transaction".               *)
FailsForCause == (\E e \in End, w \in Writer : pc[e][w] = "failed") => cause

(* So whatever ends a session, or a write in it, is one of those events.   *)
EndsForCause == ClosedForCause /\ FailsForCause

(* Some goroutine of e can go on by itself, in a session that is whole:    *)
(* the guards of its step.                                                 *)
Runnable(e) ==
    \/ \E w \in Writer : pc[e][w] = "seal"
    \/ \E t \in Writer \cup {"resp"} : pc[e][t] = "lock" /\ WireFree(e)
    \/ ~WireFree(e) /\ Len(net[e]) < SockCap
    \/ (\E w \in Writer : pc[e][w] = "await") /\ ack[e] # <<>>
    \/ pc[e]["resp"] = "idle" /\ responses[e] # <<>>
    \/ (AtMessage(e) \/ rd[e] = "rest") /\ net[Peer(e)] # <<>>
    \/ rd[e] = "ack" /\ Len(ack[e]) < AckCap
    \/ rd[e] = "rx"

(* Nobody waits for somebody who waits for them: while any WritePacket has *)
(* not returned and nothing has befallen the session, a goroutine of one   *)
(* of the ends can go on.  Two full directions do not stop each other, nor *)
(* do writers, responder and readLoop of one end.                          *)
NoLockUp == cause \/ (\A e \in End, w \in Writer : pc[e][w] = "idle")
                  \/ \E e \in End : Runnable(e)

(* readLoop answers a request before it queues the payload.  Even so, once *)
(* no writer of e is inside WritePacket, every packet taken at e has been  *)
(* delivered, is in rx or is on its way into rx at the peer, unless the    *)
(* peer is closed or a write here failed.                                  *)
AckedMeansAccepted ==
    \A e \in End : LET p == Peer(e) IN
        \/ done[p]
        \/ \E w \in Writer : pc[e][w] # "idle"
        \/ Len(sent[e]) = Len(delivered[p]) + Len(rx[p]) + (IF rd[p] = "rx" THEN 1 ELSE 0)

(* While nothing befalls the session, writing both ways at once over a     *)
(* connection that can hold almost nothing never locks up: every           *)
(* WritePacket gets its 200 OK, because readLoop never writes to the       *)
(* connection itself.                                                      *)
EveryWriteAcked ==
    \A e \in End : (\E w \in Writer : pc[e][w] # "idle")
                      ~> cause \/ \A w \in Writer : pc[e][w] = "idle"

(* Nothing outlives a session: when one end is done, so is the other in    *)
(* the end, and at both readLoop, the responder and the consumer stop and  *)
(* every WritePacket returns.                                              *)
CloseReleasesAll ==
    (\E e \in End : done[e]) ~> \A e \in End :
        /\ done[e] /\ eof[e]
        /\ rd[e] = "stopped" /\ pc[e]["resp"] = "stopped"
        /\ \A w \in Writer : pc[e][w] \in {"idle", "failed"}
=============================================================================
