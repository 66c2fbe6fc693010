--------------------------- MODULE SipSessionProofs ---------------------------
(***************************************************************************)
(* For any number of writers and packets, any capacity of the connection   *)
(* and the channels, and any outside events: a SIP session implements a    *)
(* pair of packet channels, ack and responses never hold more than one     *)
(* entry, an acknowledged packet was accepted, and the session ends only   *)
(* for a cause; until then no WritePacket fails and the session never      *)
(* locks up.                                                               *)
(*                                                                         *)
(* The argument: a request and its answer are one token, which passes from *)
(* the writer over the wire to the peer's responder and back, and which is *)
(* in one place at a time (Single, OneToken) while its writer waits for it *)
(* (Owed).  So a writer that sends finds no token: its CSeq is the highest *)
(* (Numbers), the peer's queue has room, and the books of the direction    *)
(* balance (Balance, InOrder).  Since nobody refuses anything, the session *)
(* stays whole until something from outside befalls it (Untouched).  Until *)
(* then the token of a waiting writer is still somewhere, bears the CSeq   *)
(* the writer waits for (Answered), and whoever has it can pass it on.     *)
(***************************************************************************)
EXTENDS SipSession, SequenceTheorems, TLAPS

(* The goroutines that send, the messages and the pieces they send, and    *)
(* the types of all variables.                                             *)
Thread == Writer \cup {"resp"}
Message == [kind : {"MESSAGE"}, cseq : Nat, ad : Nat, data : Packet]
           \cup [kind : {"200 OK"}, cseq : Nat]
Piece == [part : {"head", "body"}, msg : Message]

TypeInv ==
    /\ seq \in [End -> Nat] /\ reply \in [End -> Nat] /\ recvSeq \in [End -> Nat]
    /\ pc \in [End -> [Thread -> {"idle", "seal", "lock", "head", "body", "await", "failed", "stopped"}]]
    /\ rd \in [End -> {"first", "rest", "ack", "rx", "stopped"}]
    /\ held \in [End -> Message]
    /\ net \in [End -> Seq(Piece)]
    /\ ack \in [End -> Seq(Nat)] /\ responses \in [End -> Seq(Nat)]
    /\ rx \in [End -> Seq(Packet)]
    /\ sent \in [End -> Seq(Packet)] /\ delivered \in [End -> Seq(Packet)]
    /\ done \in [End -> BOOLEAN] /\ open \in [End -> BOOLEAN] /\ eof \in [End -> BOOLEAN]
    /\ cause \in BOOLEAN /\ plan \in Plans

(* Where the threads of an end can be; tx and wire have one holder each; a *)
(* closed session has a closed connection, and one without readLoop is     *)
(* closed; what readLoop is about to queue came in the right message.      *)
Threads(e) ==
    /\ pc[e]["resp"] \notin {"seal", "await", "failed"}
    /\ \A w \in Writer : pc[e][w] # "stopped"
    /\ \A v, w \in Writer : pc[e][v] \notin {"idle", "failed"}
                            /\ pc[e][w] \notin {"idle", "failed"} => v = w
    /\ \A s, t \in Thread : pc[e][s] \in {"head", "body"}
                            /\ pc[e][t] \in {"head", "body"} => s = t
Lifecycle(e) ==
    /\ done[e] => ~open[e]
    /\ rd[e] = "stopped" => done[e]
    /\ rd[e] = "ack" => held[e].kind = "200 OK"
    /\ rd[e] = "rx" => held[e].kind = "MESSAGE"

-----------------------------------------------------------------------------
(* The stages of the request made at e and of its answer, one place each:  *)
(* the request on the wire, queued for the responder of the peer, in the   *)
(* responder's hands, the reply on the wire, read, and in ack.             *)
RequestAt(e, i) == net[e][i].part = "body" /\ net[e][i].msg.kind = "MESSAGE"
ReplyAt(e, i) == net[e][i].part = "body" /\ net[e][i].msg.kind = "200 OK"
InRequest(e) == \E i \in 1 .. Len(net[e]) : RequestAt(e, i)
InReply(e) == \E i \in 1 .. Len(net[e]) : ReplyAt(e, i)
Queued(e) == responses[e] # <<>>
Replying(e) == pc[e]["resp"] \in {"lock", "head", "body"}
Acking(e) == rd[e] = "ack"
Acked(e) == ack[e] # <<>>
Token(e) == LET p == Peer(e) IN
    InRequest(e) \/ Queued(p) \/ Replying(p) \/ InReply(p) \/ Acking(e) \/ Acked(e)

Awaiting(e) == \E w \in Writer : pc[e][w] = "await"
Sending(e) == \E w \in Writer : pc[e][w] \in {"lock", "head", "body"}
GivenUp(e) == ~open[e] /\ \E w \in Writer : pc[e][w] = "failed"

(* At each place there is at most one of them, *)
Single(e) ==
    /\ \A i, j \in 1 .. Len(net[e]) : RequestAt(e, i) /\ RequestAt(e, j) => i = j
    /\ \A i, j \in 1 .. Len(net[e]) : ReplyAt(e, i) /\ ReplyAt(e, j) => i = j
    /\ Len(responses[e]) <= 1 /\ Len(ack[e]) <= 1

(* and at only one of the places; *)
OneToken(e) == LET p == Peer(e) IN
    /\ InRequest(e) => ~(Queued(p) \/ Replying(p) \/ InReply(p) \/ Acking(e) \/ Acked(e))
    /\ Queued(p) => ~(Replying(p) \/ InReply(p) \/ Acking(e) \/ Acked(e))
    /\ Replying(p) => ~(InReply(p) \/ Acking(e) \/ Acked(e))
    /\ InReply(p) => ~(Acking(e) \/ Acked(e))
    /\ Acking(e) => ~Acked(e)

(* and until e has closed and given up, a writer of e waits for it. *)
Owed(e) == Token(e) => GivenUp(e) \/ Awaiting(e)

-----------------------------------------------------------------------------
Busy(e) == IF Sending(e) THEN 1 ELSE 0

(* CSeq numbers: a request on the wire is newer than what its reader has   *)
(* accepted, and the one being sent is newer still.                        *)
Numbers(e) ==
    /\ recvSeq[Peer(e)] + Busy(e) <= seq[e]
    /\ \A i \in 1 .. Len(net[e]) : RequestAt(e, i) =>
         /\ recvSeq[Peer(e)] < net[e][i].msg.cseq
         /\ net[e][i].msg.ad = net[e][i].msg.cseq
         /\ net[e][i].msg.cseq + Busy(e) <= seq[e]

(* What the reader of a direction has accepted, and what is on its way.    *)
Accepted(p) == Len(delivered[p]) + Len(rx[p]) + (IF rd[p] = "rx" THEN 1 ELSE 0)
Running(p) == rd[p] # "stopped"
OnWire(e) == IF Running(Peer(e)) /\ InRequest(e) THEN 1 ELSE 0

(* Packets are accepted in the order they were taken, and the books of a   *)
(* direction balance until its reader stops or a write is given up.        *)
Balance(e) == LET p == Peer(e) IN
    /\ Accepted(p) + Busy(e) + OnWire(e) <= Len(sent[e])
    /\ Running(p) /\ ~GivenUp(e) => Accepted(p) + Busy(e) + OnWire(e) = Len(sent[e])
InOrder(e) == LET p == Peer(e) IN
    /\ \A i \in 1 .. Len(rx[p]) : rx[p][i] = sent[e][Len(delivered[p]) + i]
    /\ rd[p] = "rx" => held[p].data = sent[e][Accepted(p)]
    /\ \A i \in 1 .. Len(net[e]) : RequestAt(e, i) /\ Running(p)
         => net[e][i].msg.data = sent[e][Accepted(p) + 1]

-----------------------------------------------------------------------------
(* Before anything befalls the session, nobody has closed it, and every    *)
(* head on the wire is followed by its body, except the one whose body is  *)
(* being written.  Due is what a thread has to send: under tx the body of  *)
(* a request is its packet, sealed under the CSeq of its header (Sealing). *)
Due(e, t) == IF t = "resp" THEN Response(reply[e])
                           ELSE Request(seq[e], seq[e], Last(sent[e]))
BodyOf(m) == [part |-> "body", msg |-> m]
HeadOf(m) == [part |-> "head", msg |-> m]
Paired(e) ==
    \A i \in 1 .. Len(net[e]) - 1 :
        IF net[e][i].part = "head" THEN net[e][i + 1] = BodyOf(net[e][i].msg)
                                   ELSE net[e][i + 1].part = "head"
FrontPiece(e) ==
    Len(net[e]) > 0 => IF rd[Peer(e)] = "rest" THEN net[e][1] = BodyOf(held[Peer(e)])
                                               ELSE net[e][1].part = "head"
BackPiece(e) ==
    /\ \A t \in Thread : pc[e][t] = "body" =>
         IF Len(net[e]) > 0 THEN net[e][Len(net[e])] = HeadOf(Due(e, t))
                            ELSE rd[Peer(e)] = "rest" /\ held[Peer(e)] = Due(e, t)
    /\ (\A t \in Thread : pc[e][t] # "body") =>
         IF Len(net[e]) > 0 THEN net[e][Len(net[e])].part = "body"
                            ELSE rd[Peer(e)] # "rest"
Untouched(e) == cause \/ (/\ open[e] /\ ~done[e] /\ Running(e)
                          /\ Paired(e) /\ FrontPiece(e) /\ BackPiece(e))

IInv ==
    /\ TypeInv
    /\ \A e \in End : /\ Threads(e) /\ Lifecycle(e)
                      /\ Single(e) /\ OneToken(e) /\ Owed(e)
                      /\ Numbers(e) /\ Balance(e) /\ InOrder(e)
                      /\ Untouched(e)

(* What a writer has sealed under the expected CSeq is sealed, once it has *)
(* made its request, under the CSeq of the request.                        *)
Sealing ==
    /\ DOMAIN body = End
    /\ \A e \in End, w \in Writer :
         /\ pc[e][w] = "seal" => \E d \in Packet : body[e] = [ad |-> seq[e] + 1, data |-> d]
         /\ pc[e][w] \in {"lock", "head", "body"} =>
                body[e] = [ad |-> seq[e], data |-> Last(sent[e])]

-----------------------------------------------------------------------------
(* The two ends are each other's peers. *)
LEMMA EndFacts ==
    ASSUME NEW e \in End
    PROVE  Peer(e) \in End /\ Peer(e) # e /\ Peer(Peer(e)) = e /\ End = {e, Peer(e)}
  BY DEF End, Peer

(* Taking the first element of a sequence. *)
LEMMA TailFacts ==
    ASSUME NEW S, NEW s \in Seq(S), s # <<>>
    PROVE  /\ Len(s) \in Nat /\ Len(s) > 0
           /\ Head(s) = s[1] /\ Head(s) \in S
           /\ Tail(s) \in Seq(S) /\ Len(Tail(s)) = Len(s) - 1
           /\ \A i \in 1 .. Len(s) - 1 : Tail(s)[i] = s[i + 1]
  BY HeadTailProperties, EmptySeq, LenProperties

(* Taking back the last element of a sequence. *)
LEMMA FrontFacts ==
    ASSUME NEW S, NEW s \in Seq(S), Len(s) > 0
    PROVE  /\ Front(s) \in Seq(S) /\ Len(Front(s)) = Len(s) - 1
           /\ \A i \in 1 .. Len(s) - 1 : Front(s)[i] = s[i]
           /\ Last(s) = s[Len(s)] /\ Last(s) \in S
  <1>1. Len(s) \in Nat /\ \A i \in 1 .. Len(s) : s[i] \in S
    BY LenProperties, ElementOfSeq
  <1>2. Len(s) - 1 \in Int /\ 1 \in Int /\ \A i \in 1 .. Len(s) - 1 : s[i] \in S
    BY <1>1
  <1> DEFINE f == SubSeq(s, 1, Len(s) - 1)
  <1>3. /\ f \in Seq(S)
        /\ Len(f) = IF 1 <= Len(s) - 1 THEN Len(s) - 1 - 1 + 1 ELSE 0
        /\ \A i \in 1 .. Len(s) - 1 - 1 + 1 : f[i] = s[1 + i - 1]
    BY <1>1, <1>2, SubSeqProperties
  <1>4. Front(s) = f /\ Last(s) = s[Len(s)]
    BY DEF Front, Last
  <1> HIDE DEF f
  <1>5. Len(f) = Len(s) - 1
    <2>1. \A n \in Nat : n > 0 => (IF 1 <= n - 1 THEN n - 1 - 1 + 1 ELSE 0) = n - 1
      OBVIOUS
    <2> QED BY <2>1, <1>1, <1>3
  <1>6. ASSUME NEW i \in 1 .. Len(s) - 1 PROVE f[i] = s[i]
    <2>1. i \in Nat /\ 1 + i - 1 = i /\ i \in 1 .. Len(s) - 1 - 1 + 1
      BY <1>1
    <2>2. f[i] = s[1 + i - 1]
      BY <2>1, <1>3
    <2> QED BY <2>1, <2>2
  <1> QED BY <1>1, <1>3, <1>4, <1>5, <1>6

(* The session starts well typed. *)
LEMMA InitType == Init => TypeInv
  <1> SUFFICES ASSUME Init PROVE TypeInv
    OBVIOUS
  <1>1. \A e \in End : FirstSeq(e) \in Nat /\ Response(0) \in Message
    BY DEF FirstSeq, Response, Message
  <1>2. \A S : <<>> \in Seq(S)
    OBVIOUS
  <1> QED BY <1>1, <1>2 DEF Init, TypeInv, Thread

(* What a thread sends is a message: a writer has its packet in sent. *)
LEMMA DueType ==
    ASSUME TypeInv, NEW e \in End, NEW t \in Thread,
           t \in Writer => Len(sent[e]) > 0
    PROVE  Due(e, t) \in Message
  <1>1. seq[e] \in Nat /\ reply[e] \in Nat /\ sent[e] \in Seq(Packet)
    BY DEF TypeInv
  <1>2. CASE t = "resp"
    BY <1>1, <1>2 DEF Due, Message, Response
  <1>3. CASE t # "resp"
    <2>1. Last(sent[e]) \in Packet
      BY <1>1, <1>3, FrontFacts DEF Thread
    <2> QED BY <1>1, <1>3, <2>1 DEF Due, Message, Request
  <1> QED BY <1>2, <1>3

-----------------------------------------------------------------------------
(* What each step does, variable by variable, at its own end and the peer. *)
Where == {"idle", "seal", "lock", "head", "body", "await", "failed", "stopped"}

(* Goto moves one thread of one end. *)
LEMMA Moved ==
    ASSUME TypeInv, NEW e \in End, NEW t \in Thread, NEW x \in Where, Goto(e, t, x)
    PROVE  /\ pc' \in [End -> [Thread -> Where]]
           /\ pc'[e][t] = x /\ \A s \in Thread \ {t} : pc'[e][s] = pc[e][s]
           /\ pc'[Peer(e)] = pc[Peer(e)]
  BY EndFacts DEF TypeInv, Goto, Where

(* Close closes one end. *)
LEMMA Closed ==
    ASSUME TypeInv, NEW e \in End, Close(e)
    PROVE  /\ done' \in [End -> BOOLEAN] /\ open' \in [End -> BOOLEAN]
           /\ done'[e] /\ ~open'[e]
           /\ done'[Peer(e)] = done[Peer(e)] /\ open'[Peer(e)] = open[Peer(e)]
  BY EndFacts DEF TypeInv, Close

(* An update at one end leaves the other alone. *)
LEMMA Updated ==
    ASSUME NEW S, NEW f \in [End -> S], NEW e \in End, NEW v \in S,
           NEW g, g = [f EXCEPT ![e] = v]
    PROVE  g \in [End -> S] /\ g[e] = v /\ g[Peer(e)] = f[Peer(e)]
  BY EndFacts

(* LeaveReadLoop stops one readLoop and closes its end. *)
LEMMA ReadLoopLeft ==
    ASSUME TypeInv, NEW e \in End, LeaveReadLoop(e)
    PROVE  /\ rd' \in [End -> {"first", "rest", "ack", "rx", "stopped"}]
           /\ rd'[e] = "stopped" /\ rd'[Peer(e)] = rd[Peer(e)]
           /\ done' \in [End -> BOOLEAN] /\ open' \in [End -> BOOLEAN]
           /\ done'[e] /\ ~open'[e]
           /\ done'[Peer(e)] = done[Peer(e)] /\ open'[Peer(e)] = open[Peer(e)]
  <1>1. Close(e) /\ rd' = [rd EXCEPT ![e] = "stopped"]
    BY DEF LeaveReadLoop
  <1>2. /\ rd' \in [End -> {"first", "rest", "ack", "rx", "stopped"}]
        /\ rd'[e] = "stopped" /\ rd'[Peer(e)] = rd[Peer(e)]
    BY <1>1, EndFacts DEF TypeInv
  <1> QED BY <1>1, <1>2, Closed

(* A writer has tx, and has sealed its packet. *)
LEMMA SealEffect ==
    ASSUME TypeInv, NEW e \in End, NEW w \in Writer, NEW d \in Packet, Seal(e, w, d),
           UNCHANGED plan
    PROVE  /\ TypeInv'
           /\ pc'[e][w] = "seal" /\ \A s \in Thread \ {w} : pc'[e][s] = pc[e][s]
           /\ pc'[Peer(e)] = pc[Peer(e)]
           /\ UNCHANGED <<seq, reply, recvSeq, rd, held, net, ack, responses, rx, done, open, eof,
                          sent, delivered, cause>>
  <1>1. /\ pc' \in [End -> [Thread -> Where]]
        /\ pc'[e][w] = "seal" /\ \A s \in Thread \ {w} : pc'[e][s] = pc[e][s]
        /\ pc'[Peer(e)] = pc[Peer(e)]
    BY Moved DEF Seal, Thread, Where
  <1>2. UNCHANGED <<seq, reply, recvSeq, rd, held, net, ack, responses, rx, done, open, eof, sent,
                    delivered, cause>>
    BY DEF Seal, readVars, chanVars, connVars, userVars
  <1> QED BY <1>1, <1>2 DEF TypeInv, Where

(* A writer advances seq for its request. *)
LEMMA MakeRequestEffect ==
    ASSUME TypeInv, NEW e \in End, NEW w \in Writer, NEW d \in Packet,
           MakeRequest(e, w), body[e].data = d, UNCHANGED plan
    PROVE  /\ TypeInv'
           /\ seq'[e] = seq[e] + 1 /\ seq'[Peer(e)] = seq[Peer(e)]
           /\ sent'[e] = Append(sent[e], d) /\ sent'[Peer(e)] = sent[Peer(e)]
           /\ pc'[e][w] = "lock" /\ \A s \in Thread \ {w} : pc'[e][s] = pc[e][s]
           /\ pc'[Peer(e)] = pc[Peer(e)]
           /\ UNCHANGED <<reply, recvSeq, rd, held, net, ack, responses, rx, done, open, eof,
                          delivered, cause>>
  <1>1. /\ pc' \in [End -> [Thread -> Where]]
        /\ pc'[e][w] = "lock" /\ \A s \in Thread \ {w} : pc'[e][s] = pc[e][s]
        /\ pc'[Peer(e)] = pc[Peer(e)]
    BY Moved DEF MakeRequest, Thread, Where
  <1>2. /\ seq' \in [End -> Nat]
        /\ seq'[e] = seq[e] + 1 /\ seq'[Peer(e)] = seq[Peer(e)]
    <2>1. seq \in [End -> Nat] /\ seq[e] + 1 \in Nat /\ seq' = [seq EXCEPT ![e] = seq[e] + 1]
      BY DEF TypeInv, MakeRequest
    <2> QED BY <2>1, Updated
  <1>3. /\ sent' \in [End -> Seq(Packet)]
        /\ sent'[e] = Append(sent[e], d) /\ sent'[Peer(e)] = sent[Peer(e)]
    <2>1. /\ sent \in [End -> Seq(Packet)] /\ Append(sent[e], d) \in Seq(Packet)
          /\ sent' = [sent EXCEPT ![e] = Append(sent[e], d)]
      BY DEF TypeInv, MakeRequest
    <2> QED BY <2>1, EndFacts
  <1>4. UNCHANGED <<reply, recvSeq, rd, held, net, ack, responses, rx, done, open, eof, delivered,
                    cause>>
    BY DEF MakeRequest, readVars, chanVars, connVars
  <1> QED BY <1>1, <1>2, <1>3, <1>4 DEF TypeInv, Where

(* A thread takes the wire mutex. *)
LEMMA LockWireEffect ==
    ASSUME TypeInv, NEW e \in End, NEW t \in Thread, LockWire(e, t), UNCHANGED plan
    PROVE  /\ TypeInv'
           /\ pc'[e][t] = "head" /\ \A s \in Thread \ {t} : pc'[e][s] = pc[e][s]
           /\ pc'[Peer(e)] = pc[Peer(e)]
           /\ UNCHANGED <<seq, reply, recvSeq, rd, held, net, ack, responses, rx, done, open, eof,
                          sent, delivered, cause>>
  <1>1. /\ pc' \in [End -> [Thread -> Where]]
        /\ pc'[e][t] = "head" /\ \A s \in Thread \ {t} : pc'[e][s] = pc[e][s]
        /\ pc'[Peer(e)] = pc[Peer(e)]
    BY Moved DEF LockWire, Where
  <1>2. UNCHANGED <<seq, reply, recvSeq, rd, held, net, ack, responses, rx, done, open, eof, sent,
                    delivered, cause>>
    BY DEF LockWire, readVars, chanVars, connVars, userVars
  <1> QED BY <1>1, <1>2 DEF TypeInv, Where

(* The books are kept in natural numbers. *)
LEMMA Counts ==
    ASSUME TypeInv, NEW e \in End
    PROVE  /\ Len(sent[e]) \in Nat /\ Len(delivered[e]) \in Nat /\ Len(rx[e]) \in Nat
           /\ Len(net[e]) \in Nat
           /\ Busy(e) \in {0, 1} /\ OnWire(e) \in {0, 1} /\ Accepted(e) \in Nat
           /\ rd[e] = "rx" => Accepted(e) = Len(delivered[e]) + Len(rx[e]) + 1
           /\ rd[e] # "rx" => Accepted(e) = Len(delivered[e]) + Len(rx[e])
  <1>1. /\ Len(sent[e]) \in Nat /\ Len(delivered[e]) \in Nat /\ Len(rx[e]) \in Nat
        /\ Len(net[e]) \in Nat
    BY LenProperties DEF TypeInv
  <1>2. \A m, n \in Nat : m + n + 0 = m + n /\ m + n \in Nat /\ m + n + 1 \in Nat
    OBVIOUS
  <1>3. CASE rd[e] = "rx"
    <2>1. Accepted(e) = Len(delivered[e]) + Len(rx[e]) + 1
      BY <1>3, Zenon DEF Accepted
    <2> QED BY <1>1, <1>2, <1>3, <2>1, Zenon DEF Busy, OnWire
  <1>4. CASE rd[e] # "rx"
    <2>1. Accepted(e) = Len(delivered[e]) + Len(rx[e]) + 0
      BY <1>4, Zenon DEF Accepted
    <2>2. Accepted(e) = Len(delivered[e]) + Len(rx[e])
      BY <1>1, <1>2, <2>1, Zenon
    <2> QED BY <1>1, <1>2, <1>4, <2>2, Zenon DEF Busy, OnWire
  <1> QED BY <1>3, <1>4, Zenon

(* A writer that is still sending has its packet in sent. *)
LEMMA SenderHasSent ==
    ASSUME TypeInv, NEW e \in End, Balance(e), NEW w \in Writer, pc[e][w] \in {"lock", "head", "body"}
    PROVE  Len(sent[e]) > 0
  <1>1. Peer(e) \in End
    BY EndFacts
  <1>2. Len(sent[e]) \in Nat /\ Accepted(Peer(e)) \in Nat
    BY <1>1, Counts
  <1>3. Busy(e) = 1 /\ OnWire(e) \in Nat
    BY DEF Sending, Busy, OnWire
  <1>4. Accepted(Peer(e)) + Busy(e) + OnWire(e) <= Len(sent[e])
    BY DEF Balance
  <1> QED BY <1>2, <1>3, <1>4

(* One piece goes out; the thread moves on to the next place. *)
LEMMA WritePieceEffect ==
    ASSUME TypeInv, Sealing, NEW e \in End, Balance(e), NEW t \in Thread, WritePiece(e, t),
           UNCHANGED plan
    PROVE  LET piece == [part |-> pc[e][t], msg |-> Due(e, t)] IN
           /\ TypeInv' /\ piece \in Piece
           /\ net'[e] = Append(net[e], piece) /\ net'[Peer(e)] = net[Peer(e)]
           /\ pc'[e][t] = IF pc[e][t] = "head" THEN "body"
                          ELSE IF t = "resp" THEN "idle" ELSE "await"
           /\ \A s \in Thread \ {t} : pc'[e][s] = pc[e][s]
           /\ pc'[Peer(e)] = pc[Peer(e)]
           /\ UNCHANGED <<seq, reply, recvSeq, rd, held, ack, responses, rx, done, open, eof, sent,
                          delivered, cause>>
  <1> DEFINE piece == [part |-> pc[e][t], msg |-> Due(e, t)]
             x == IF pc[e][t] = "head" THEN "body" ELSE IF t = "resp" THEN "idle" ELSE "await"
  <1>1. /\ pc' \in [End -> [Thread -> Where]]
        /\ pc'[e][t] = x /\ \A s \in Thread \ {t} : pc'[e][s] = pc[e][s]
        /\ pc'[Peer(e)] = pc[Peer(e)]
    <2>1. Goto(e, t, x) /\ x \in Where
      BY DEF WritePiece, Where
    <2> QED BY <2>1, Moved
  <1>2. piece \in Piece
    <2>1. t \in Writer => Len(sent[e]) > 0
      BY SenderHasSent DEF WritePiece
    <2>2. Due(e, t) \in Message /\ pc[e][t] \in {"head", "body"}
      BY <2>1, DueType DEF WritePiece
    <2> QED BY <2>2 DEF Piece
  <1>3. /\ net' \in [End -> Seq(Piece)]
        /\ net'[e] = Append(net[e], piece) /\ net'[Peer(e)] = net[Peer(e)]
    <2>1. /\ net \in [End -> Seq(Piece)] /\ net' = [net EXCEPT ![e] = Append(net[e], piece)]
      <3>1. Outgoing(e, t) = Due(e, t)
        BY DEF WritePiece, Sealing, Outgoing, Due, Thread
      <3> QED BY <3>1 DEF TypeInv, WritePiece
    <2>2. Append(net[e], piece) \in Seq(Piece)
      BY <1>2, <2>1, AppendProperties
    <2> QED BY <2>1, <2>2, EndFacts
  <1>4. UNCHANGED <<seq, reply, recvSeq, rd, held, ack, responses, rx, done, open, eof, sent,
                    delivered, cause>>
    BY DEF WritePiece, readVars, chanVars, connVars, userVars
  <1>5. TypeInv'
    BY <1>1, <1>3, <1>4 DEF TypeInv, Where
  <1> QED BY <1>1, <1>2, <1>3, <1>4, <1>5

(* A send fails, for a cause or on a closed connection. *)
LEMMA SendErrorEffect ==
    ASSUME TypeInv, NEW e \in End, Balance(e), NEW t \in Thread, SendError(e, t), UNCHANGED plan
    PROVE  /\ TypeInv'
           /\ ~open[e] \/ ~open[Peer(e)] \/ cause'
           /\ cause => cause'
           /\ IF t = "resp"
              THEN /\ pc'[e][t] = "stopped" /\ done'[e] /\ ~open'[e]
                   /\ done'[Peer(e)] = done[Peer(e)] /\ open'[Peer(e)] = open[Peer(e)]
                   /\ UNCHANGED sent
              ELSE /\ pc'[e][t] = "failed"
                   /\ sent'[e] = Front(sent[e]) /\ sent'[Peer(e)] = sent[Peer(e)]
                   /\ UNCHANGED <<done, open>>
           /\ \A s \in Thread \ {t} : pc'[e][s] = pc[e][s]
           /\ pc'[Peer(e)] = pc[Peer(e)]
           /\ UNCHANGED <<seq, reply, recvSeq, rd, held, net, ack, responses, rx, eof, delivered>>
  <1>1. UNCHANGED <<seq, reply, recvSeq, rd, held, net, ack, responses, rx, eof, delivered>>
    BY DEF SendError, readVars, chanVars
  <1>2. /\ ~open[e] \/ ~open[Peer(e)] \/ cause'
        /\ cause => cause'
        /\ cause' \in BOOLEAN
    <2>1. cause \in BOOLEAN
      BY DEF TypeInv
    <2>2. CASE (~open[e] \/ ~open[Peer(e)]) /\ cause' = cause
      BY <2>1, <2>2, Zenon
    <2>3. CASE cause' = TRUE
      BY <2>3
    <2> QED BY <2>2, <2>3 DEF SendError
  <1>3. CASE t = "resp"
    <2>1. Close(e) /\ Goto(e, t, "stopped") /\ UNCHANGED sent
      BY <1>3 DEF SendError
    <2>2. /\ pc' \in [End -> [Thread -> Where]]
          /\ pc'[e][t] = "stopped" /\ \A s \in Thread \ {t} : pc'[e][s] = pc[e][s]
          /\ pc'[Peer(e)] = pc[Peer(e)]
      BY <2>1, Moved DEF Where
    <2>3. /\ done' \in [End -> BOOLEAN] /\ open' \in [End -> BOOLEAN]
          /\ done'[e] /\ ~open'[e]
          /\ done'[Peer(e)] = done[Peer(e)] /\ open'[Peer(e)] = open[Peer(e)]
      BY <2>1, Closed
    <2>4. TypeInv'
      BY <1>1, <1>2, <2>1, <2>2, <2>3 DEF TypeInv, Where
    <2> QED BY <1>1, <1>2, <1>3, <2>1, <2>2, <2>3, <2>4
  <1>4. CASE t # "resp"
    <2>1. /\ Goto(e, t, "failed") /\ UNCHANGED <<done, open>>
          /\ sent' = [sent EXCEPT ![e] = Front(sent[e])]
          /\ pc[e][t] \in {"head", "body"}
      BY <1>4 DEF SendError, connVars
    <2>2. /\ pc' \in [End -> [Thread -> Where]]
          /\ pc'[e][t] = "failed" /\ \A s \in Thread \ {t} : pc'[e][s] = pc[e][s]
          /\ pc'[Peer(e)] = pc[Peer(e)]
      BY <2>1, Moved DEF Where
    <2>3. sent \in [End -> Seq(Packet)] /\ Front(sent[e]) \in Seq(Packet)
      BY <1>4, <2>1, SenderHasSent, FrontFacts DEF TypeInv, Thread
    <2>4. /\ sent' \in [End -> Seq(Packet)]
          /\ sent'[e] = Front(sent[e]) /\ sent'[Peer(e)] = sent[Peer(e)]
      BY <2>1, <2>3, EndFacts
    <2>5. TypeInv'
      BY <1>1, <1>2, <2>1, <2>2, <2>4 DEF TypeInv, Where
    <2> QED BY <1>1, <1>2, <1>4, <2>1, <2>2, <2>4, <2>5
  <1> QED BY <1>3, <1>4

(* A writer takes an answer from ack and returns. *)
LEMMA ReceiveAckEffect ==
    ASSUME TypeInv, NEW e \in End, NEW w \in Writer, ReceiveAck(e, w), UNCHANGED plan
    PROVE  /\ TypeInv'
           /\ ack[e] # <<>> /\ ack'[e] = Tail(ack[e]) /\ ack'[Peer(e)] = ack[Peer(e)]
           /\ pc'[e][w] \in {"idle", "failed"}
           /\ \A s \in Thread \ {w} : pc'[e][s] = pc[e][s]
           /\ pc'[Peer(e)] = pc[Peer(e)]
           /\ UNCHANGED <<seq, reply, recvSeq, rd, held, net, responses, rx, done, open, eof, sent,
                          delivered, cause>>
  <1> DEFINE x == IF Head(ack[e]) = seq[e] THEN "idle" ELSE "failed"
  <1>1. /\ pc' \in [End -> [Thread -> Where]]
        /\ pc'[e][w] = x /\ \A s \in Thread \ {w} : pc'[e][s] = pc[e][s]
        /\ pc'[Peer(e)] = pc[Peer(e)]
    <2>1. Goto(e, w, x) /\ x \in Where /\ w \in Thread
      BY DEF ReceiveAck, Where, Thread
    <2> QED BY <2>1, Moved
  <1>2. /\ ack' \in [End -> Seq(Nat)]
        /\ ack[e] # <<>> /\ ack'[e] = Tail(ack[e]) /\ ack'[Peer(e)] = ack[Peer(e)]
    <2>1. /\ ack \in [End -> Seq(Nat)] /\ ack[e] # <<>>
          /\ ack' = [ack EXCEPT ![e] = Tail(ack[e])]
      BY DEF TypeInv, ReceiveAck
    <2>2. Tail(ack[e]) \in Seq(Nat)
      BY <2>1, TailFacts
    <2> QED BY <2>1, <2>2, EndFacts
  <1>3. UNCHANGED <<seq, reply, recvSeq, rd, held, net, responses, rx, done, open, eof, sent,
                    delivered, cause>>
    BY DEF ReceiveAck, readVars, connVars, userVars
  <1>4. TypeInv'
    BY <1>1, <1>2, <1>3 DEF TypeInv, Where
  <1>5. pc'[e][w] \in {"idle", "failed"}
    BY <1>1
  <1> QED BY <1>1, <1>2, <1>3, <1>4, <1>5

(* A writer returns without an answer, its end being closed. *)
LEMMA AwaitEndsEffect ==
    ASSUME TypeInv, NEW e \in End, NEW w \in Writer, AwaitEnds(e, w), UNCHANGED plan
    PROVE  /\ TypeInv'
           /\ \/ done[e] /\ UNCHANGED <<done, open, cause>>
              \/ /\ done'[e] /\ ~open'[e] /\ cause'
                 /\ done'[Peer(e)] = done[Peer(e)] /\ open'[Peer(e)] = open[Peer(e)]
           /\ pc'[e][w] = "failed" /\ \A s \in Thread \ {w} : pc'[e][s] = pc[e][s]
           /\ pc'[Peer(e)] = pc[Peer(e)]
           /\ UNCHANGED <<seq, reply, recvSeq, rd, held, net, ack, responses, rx, eof, sent,
                          delivered>>
  <1>1. /\ pc' \in [End -> [Thread -> Where]]
        /\ pc'[e][w] = "failed" /\ \A s \in Thread \ {w} : pc'[e][s] = pc[e][s]
        /\ pc'[Peer(e)] = pc[Peer(e)]
    BY Moved DEF AwaitEnds, Where, Thread
  <1>2. /\ done' \in [End -> BOOLEAN] /\ open' \in [End -> BOOLEAN] /\ cause' \in BOOLEAN
        /\ \/ done[e] /\ UNCHANGED <<done, open, cause>>
           \/ /\ done'[e] /\ ~open'[e] /\ cause'
              /\ done'[Peer(e)] = done[Peer(e)] /\ open'[Peer(e)] = open[Peer(e)]
    <2>1. CASE done[e] /\ UNCHANGED <<connVars, cause>>
      BY <2>1 DEF connVars, TypeInv
    <2>2. CASE Close(e) /\ cause' = TRUE
      BY <2>2, Closed
    <2> QED BY <2>1, <2>2 DEF AwaitEnds
  <1>3. UNCHANGED <<seq, reply, recvSeq, rd, held, net, ack, responses, rx, eof, sent, delivered>>
    BY DEF AwaitEnds, readVars, chanVars, userVars
  <1>4. TypeInv'
    BY <1>1, <1>2, <1>3 DEF TypeInv, Where
  <1> QED BY <1>1, <1>2, <1>3, <1>4

(* The responder takes a CSeq to answer. *)
LEMMA TakeResponseEffect ==
    ASSUME TypeInv, NEW e \in End, TakeResponse(e), UNCHANGED plan
    PROVE  /\ TypeInv'
           /\ responses[e] # <<>> /\ responses'[e] = Tail(responses[e])
           /\ responses'[Peer(e)] = responses[Peer(e)]
           /\ reply'[Peer(e)] = reply[Peer(e)]
           /\ pc'[e]["resp"] = "lock" /\ \A s \in Writer : pc'[e][s] = pc[e][s]
           /\ pc'[Peer(e)] = pc[Peer(e)]
           /\ UNCHANGED <<seq, recvSeq, rd, held, net, ack, rx, done, open, eof, sent, delivered,
                          cause>>
  <1>1. /\ pc' \in [End -> [Thread -> Where]]
        /\ pc'[e]["resp"] = "lock" /\ \A s \in Writer : pc'[e][s] = pc[e][s]
        /\ pc'[Peer(e)] = pc[Peer(e)]
    <2>1. Goto(e, "resp", "lock") /\ "lock" \in Where /\ "resp" \in Thread
      BY DEF TakeResponse, Where, Thread
    <2>2. Writer \subseteq Thread \ {"resp"}
      BY SipAssumption DEF Thread
    <2> QED BY <2>1, <2>2, Moved
  <1>2. /\ responses' \in [End -> Seq(Nat)] /\ reply' \in [End -> Nat]
        /\ responses[e] # <<>> /\ responses'[e] = Tail(responses[e])
        /\ responses'[Peer(e)] = responses[Peer(e)]
        /\ reply'[Peer(e)] = reply[Peer(e)]
    <2>1. /\ responses \in [End -> Seq(Nat)] /\ responses[e] # <<>> /\ reply \in [End -> Nat]
          /\ responses' = [responses EXCEPT ![e] = Tail(responses[e])]
          /\ reply' = [reply EXCEPT ![e] = Head(responses[e])]
      BY DEF TypeInv, TakeResponse
    <2>2. Tail(responses[e]) \in Seq(Nat) /\ Head(responses[e]) \in Nat
      BY <2>1, TailFacts
    <2> QED BY <2>1, <2>2, EndFacts
  <1>3. UNCHANGED <<seq, recvSeq, rd, held, net, ack, rx, done, open, eof, sent, delivered, cause>>
    BY DEF TakeResponse, readVars, connVars, userVars
  <1>4. TypeInv'
    BY <1>1, <1>2, <1>3 DEF TypeInv, Where
  <1> QED BY <1>1, <1>2, <1>3, <1>4

(* The responder leaves its loop. *)
LEMMA ResponderStopsEffect ==
    ASSUME TypeInv, NEW e \in End, ResponderStops(e), UNCHANGED plan
    PROVE  /\ TypeInv'
           /\ pc'[e]["resp"] = "stopped" /\ \A s \in Writer : pc'[e][s] = pc[e][s]
           /\ pc'[Peer(e)] = pc[Peer(e)]
           /\ UNCHANGED <<seq, reply, recvSeq, rd, held, net, ack, responses, rx, done, open, eof,
                          sent, delivered, cause>>
  <1>1. /\ pc' \in [End -> [Thread -> Where]]
        /\ pc'[e]["resp"] = "stopped" /\ \A s \in Writer : pc'[e][s] = pc[e][s]
        /\ pc'[Peer(e)] = pc[Peer(e)]
    <2>1. Goto(e, "resp", "stopped") /\ "stopped" \in Where /\ "resp" \in Thread
      BY DEF ResponderStops, Where, Thread
    <2>2. Writer \subseteq Thread \ {"resp"}
      BY SipAssumption DEF Thread
    <2> QED BY <2>1, <2>2, Moved
  <1>2. UNCHANGED <<seq, reply, recvSeq, rd, held, net, ack, responses, rx, done, open, eof, sent,
                    delivered, cause>>
    BY DEF ResponderStops, readVars, chanVars, connVars, userVars
  <1> QED BY <1>1, <1>2 DEF TypeInv, Where

(* The steps that close an end, and nothing else that matters: readLoop    *)
(* fails to read, or finds the session done; an outside event.             *)
Ends(e) ==
    \/ ReadFails(e) \/ AppClose(e) \/ ConnDrop(e)
    \/ rd[e] \in {"ack", "rx"} /\ LeaveReadLoop(e)
         /\ UNCHANGED <<recvSeq, held, net, sendVars, chanVars, userVars>>
         /\ ((done[e] /\ cause' = cause) \/ cause' = TRUE)

(* A closing step shuts one connection and changes no data. *)
LEMMA EndsEffect ==
    ASSUME TypeInv, NEW e \in End, Ends(e), UNCHANGED plan
    PROVE  /\ TypeInv'
           /\ ~open'[e] /\ open'[Peer(e)] = open[Peer(e)]
           /\ done'[Peer(e)] = done[Peer(e)] /\ (done[e] => done'[e])
           /\ rd'[e] = rd[e] \/ (rd'[e] = "stopped" /\ done'[e])
           /\ rd'[Peer(e)] = rd[Peer(e)]
           /\ cause' = TRUE \/ (cause' = cause /\ (done[e] \/ ~open[e] \/ ~open[Peer(e)]))
           /\ UNCHANGED <<seq, pc, reply, recvSeq, held, net, ack, responses, rx, eof, sent,
                          delivered>>
  <1>1. UNCHANGED <<seq, pc, reply, recvSeq, held, net, ack, responses, rx, eof, sent, delivered>>
    BY DEF Ends, ReadFails, AppClose, ConnDrop, sendVars, readVars, chanVars, userVars
  <1>2. ASSUME LeaveReadLoop(e),
               cause' = TRUE \/ (cause' = cause /\ (done[e] \/ ~open[e] \/ ~open[Peer(e)]))
        PROVE  /\ TypeInv'
               /\ ~open'[e] /\ open'[Peer(e)] = open[Peer(e)]
               /\ done'[Peer(e)] = done[Peer(e)] /\ (done[e] => done'[e])
               /\ rd'[e] = rd[e] \/ (rd'[e] = "stopped" /\ done'[e])
               /\ rd'[Peer(e)] = rd[Peer(e)]
               /\ cause' = TRUE \/ (cause' = cause /\ (done[e] \/ ~open[e] \/ ~open[Peer(e)]))
    <2>1. cause' \in BOOLEAN
      <3>1. cause \in BOOLEAN
        BY DEF TypeInv
      <3>2. CASE cause' = TRUE
        BY <3>2
      <3>3. CASE cause' = cause
        BY <3>1, <3>3, Zenon
      <3> QED BY <1>2, <3>2, <3>3
    <2>2. TypeInv'
      BY <1>1, <1>2, <2>1, ReadLoopLeft DEF TypeInv
    <2>3. /\ rd'[e] = "stopped" /\ rd'[Peer(e)] = rd[Peer(e)] /\ done'[e] /\ ~open'[e]
          /\ done'[Peer(e)] = done[Peer(e)] /\ open'[Peer(e)] = open[Peer(e)]
      BY <1>2, ReadLoopLeft
    <2> QED BY <1>1, <1>2, <2>2, <2>3, Zenon
  <1>3. CASE ReadFails(e)
    <2>1. LeaveReadLoop(e) /\ cause' = cause /\ (~open[e] \/ ~open[Peer(e)])
      BY <1>3 DEF ReadFails
    <2> QED BY <1>1, <1>2, <2>1, Zenon
  <1>4. CASE AppClose(e)
    <2>1. Close(e) /\ cause' = TRUE /\ UNCHANGED rd
      BY <1>4 DEF AppClose, readVars
    <2>2. TypeInv'
      BY <1>1, <2>1, Closed DEF TypeInv
    <2>3. /\ done'[e] /\ ~open'[e]
          /\ done'[Peer(e)] = done[Peer(e)] /\ open'[Peer(e)] = open[Peer(e)]
      BY <2>1, Closed
    <2> QED BY <1>1, <2>1, <2>2, <2>3
  <1>5. CASE ConnDrop(e)
    <2>1. /\ open' = [open EXCEPT ![e] = FALSE] /\ cause' = TRUE /\ UNCHANGED <<rd, done>>
      BY <1>5 DEF ConnDrop, readVars
    <2>2. open' \in [End -> BOOLEAN] /\ ~open'[e] /\ open'[Peer(e)] = open[Peer(e)]
      BY <2>1, EndFacts DEF TypeInv
    <2>3. TypeInv'
      BY <1>1, <2>1, <2>2 DEF TypeInv
    <2> QED BY <1>1, <2>1, <2>2, <2>3
  <1>6. CASE rd[e] \in {"ack", "rx"} /\ LeaveReadLoop(e) /\ ((done[e] /\ cause' = cause) \/ cause' = TRUE)
    BY <1>1, <1>2, <1>6, Zenon
  <1> QED BY <1>3, <1>4, <1>5, <1>6 DEF Ends

(* readLoop takes a head in hand, or leaves. *)
LEMMA ReadHeadEffect ==
    ASSUME TypeInv, NEW e \in End, ReadHead(e), UNCHANGED plan
    PROVE  LET p == Peer(e) IN
           /\ TypeInv'
           /\ rd[e] = "first" /\ open[e]
           /\ net[p] # <<>> /\ net'[p] = Tail(net[p]) /\ net'[e] = net[e]
           /\ \/ /\ Head(net[p]).part = "head"
                 /\ held'[e] = Head(net[p]).msg /\ rd'[e] = "rest"
                 /\ UNCHANGED <<done, open>>
              \/ /\ Head(net[p]).part # "head"
                 /\ rd'[e] = "stopped" /\ done'[e] /\ ~open'[e]
                 /\ UNCHANGED held
           /\ rd'[p] = rd[p] /\ held'[p] = held[p] /\ done'[p] = done[p] /\ open'[p] = open[p]
           /\ UNCHANGED <<seq, pc, reply, recvSeq, ack, responses, rx, eof, sent, delivered, cause>>
  <1> DEFINE p == Peer(e)
  <1>1. /\ net' \in [End -> Seq(Piece)] /\ Head(net[p]).msg \in Message
        /\ net[p] # <<>> /\ net'[p] = Tail(net[p]) /\ net'[e] = net[e]
    <2>1. /\ p \in End /\ net \in [End -> Seq(Piece)] /\ net[p] # <<>>
          /\ net' = [net EXCEPT ![p] = Tail(net[p])]
      BY EndFacts DEF TypeInv, ReadHead
    <2>2. Tail(net[p]) \in Seq(Piece) /\ Head(net[p]) \in Piece
      BY <2>1, TailFacts
    <2> QED BY <2>1, <2>2, EndFacts DEF Piece
  <1>2. UNCHANGED <<seq, pc, reply, recvSeq, ack, responses, rx, eof, sent, delivered, cause>>
    BY DEF ReadHead, sendVars, chanVars, userVars
  <1>3. rd[e] = "first" /\ open[e]
    BY DEF ReadHead, AtMessage
  <1>4. CASE Head(net[p]).part = "head"
    <2>1. /\ held' = [held EXCEPT ![e] = Head(net[p]).msg] /\ rd' = [rd EXCEPT ![e] = "rest"]
          /\ UNCHANGED <<done, open>>
      BY <1>4 DEF ReadHead, connVars
    <2>2. held' \in [End -> Message] /\ held'[e] = Head(net[p]).msg /\ held'[p] = held[p]
      BY <2>1, <1>1, EndFacts DEF TypeInv
    <2>3. /\ rd' \in [End -> {"first", "rest", "ack", "rx", "stopped"}]
          /\ rd'[e] = "rest" /\ rd'[p] = rd[p]
      BY <2>1, EndFacts DEF TypeInv
    <2>4. TypeInv'
      BY <1>1, <1>2, <2>1, <2>2, <2>3 DEF TypeInv
    <2> QED BY <1>1, <1>2, <1>3, <1>4, <2>1, <2>2, <2>3, <2>4
  <1>5. CASE Head(net[p]).part # "head"
    <2>1. LeaveReadLoop(e) /\ UNCHANGED held
      BY <1>5 DEF ReadHead
    <2>2. TypeInv'
      BY <1>1, <1>2, <2>1, ReadLoopLeft DEF TypeInv
    <2>3. /\ rd'[e] = "stopped" /\ done'[e] /\ ~open'[e]
          /\ rd'[p] = rd[p] /\ done'[p] = done[p] /\ open'[p] = open[p]
      BY <2>1, ReadLoopLeft
    <2> QED BY <1>1, <1>2, <1>3, <1>5, <2>1, <2>2, <2>3
  <1> QED BY <1>4, <1>5

(* readSIP has found the body of the message in hand. *)
Whole(e) == Head(net[Peer(e)]) = [part |-> "body", msg |-> held[e]]
IsRequest(e) == Whole(e) /\ held[e].kind = "MESSAGE" /\ Acceptable(e, held[e])

(* readLoop takes a reply, accepts a request, or leaves. *)
LEMMA ReadBodyEffect ==
    ASSUME TypeInv, NEW e \in End, ReadBody(e), UNCHANGED plan
    PROVE  LET p == Peer(e) IN
           /\ TypeInv'
           /\ rd[e] = "rest" /\ open[e]
           /\ net[p] # <<>> /\ net'[p] = Tail(net[p]) /\ net'[e] = net[e]
           /\ recvSeq'[e] = IF Whole(e) /\ held[e].kind = "MESSAGE" /\ held[e].cseq > recvSeq[e]
                            THEN held[e].cseq ELSE recvSeq[e]
           /\ \/ /\ Whole(e) /\ held[e].kind = "200 OK" /\ rd'[e] = "ack"
                 /\ UNCHANGED <<responses, done, open>>
              \/ /\ IsRequest(e) /\ rd'[e] = "rx"
                 /\ responses'[e] = Append(responses[e], held[e].cseq)
                 /\ UNCHANGED <<done, open>>
              \/ /\ IsRequest(e) => done[e] \/ Len(responses[e]) >= RespCap
                 /\ ~(Whole(e) /\ held[e].kind = "200 OK")
                 /\ rd'[e] = "stopped" /\ done'[e] /\ ~open'[e]
                 /\ UNCHANGED responses
           /\ recvSeq'[p] = recvSeq[p] /\ responses'[p] = responses[p]
           /\ rd'[p] = rd[p] /\ done'[p] = done[p] /\ open'[p] = open[p]
           /\ UNCHANGED <<seq, pc, reply, held, ack, rx, eof, sent, delivered, cause>>
  <1> DEFINE p == Peer(e)
             newer == Whole(e) /\ held[e].kind = "MESSAGE" /\ held[e].cseq > recvSeq[e]
  <1>1. /\ net' \in [End -> Seq(Piece)]
        /\ net[p] # <<>> /\ net'[p] = Tail(net[p]) /\ net'[e] = net[e]
    <2>1. /\ p \in End /\ net \in [End -> Seq(Piece)] /\ net[p] # <<>>
          /\ net' = [net EXCEPT ![p] = Tail(net[p])]
      BY EndFacts DEF TypeInv, ReadBody
    <2>2. Tail(net[p]) \in Seq(Piece)
      BY <2>1, TailFacts
    <2> QED BY <2>1, <2>2, EndFacts
  <1>2. UNCHANGED <<seq, pc, reply, held, ack, rx, eof, sent, delivered, cause>>
    BY DEF ReadBody, sendVars, userVars
  <1>3. rd[e] = "rest" /\ open[e]
    BY DEF ReadBody
  <1>4. held[e] \in Message /\ held[e].cseq \in Nat
    BY DEF TypeInv, Message
  <1>5. /\ recvSeq' \in [End -> Nat] /\ recvSeq'[p] = recvSeq[p]
        /\ recvSeq'[e] = IF newer THEN held[e].cseq ELSE recvSeq[e]
    <2>1. recvSeq \in [End -> Nat]
      BY DEF TypeInv
    <2>2. CASE newer
      <3>1. recvSeq' = [recvSeq EXCEPT ![e] = held[e].cseq]
        BY <2>2 DEF ReadBody, Whole
      <3> QED BY <1>4, <2>1, <2>2, <3>1, EndFacts
    <2>3. CASE ~newer
      <3>1. recvSeq' = recvSeq
        BY <2>3 DEF ReadBody, Whole
      <3> QED BY <2>1, <2>3, <3>1
    <2> QED BY <2>2, <2>3
  <1>6. \/ /\ Whole(e) /\ held[e].kind = "200 OK" /\ rd' = [rd EXCEPT ![e] = "ack"]
           /\ UNCHANGED <<responses, connVars>>
        \/ /\ IsRequest(e)
           /\ responses' = [responses EXCEPT ![e] = Append(responses[e], held[e].cseq)]
           /\ rd' = [rd EXCEPT ![e] = "rx"]
           /\ UNCHANGED connVars
        \/ /\ IsRequest(e) => done[e] \/ Len(responses[e]) >= RespCap
           /\ ~(Whole(e) /\ held[e].kind = "200 OK")
           /\ LeaveReadLoop(e)
           /\ UNCHANGED responses
    BY DEF ReadBody, IsRequest, Whole
  <1>7. CASE /\ Whole(e) /\ held[e].kind = "200 OK" /\ rd' = [rd EXCEPT ![e] = "ack"]
             /\ UNCHANGED <<responses, connVars>>
    <2>1. /\ rd' \in [End -> {"first", "rest", "ack", "rx", "stopped"}]
          /\ rd'[e] = "ack" /\ rd'[p] = rd[p]
      BY <1>7, EndFacts DEF TypeInv
    <2>2. UNCHANGED <<responses, done, open>>
      BY <1>7 DEF connVars
    <2>3. TypeInv'
      BY <1>1, <1>2, <1>5, <2>1, <2>2 DEF TypeInv
    <2> QED BY <1>1, <1>2, <1>3, <1>5, <1>7, <2>1, <2>2, <2>3
  <1>8. CASE /\ IsRequest(e)
             /\ responses' = [responses EXCEPT ![e] = Append(responses[e], held[e].cseq)]
             /\ rd' = [rd EXCEPT ![e] = "rx"]
             /\ UNCHANGED connVars
    <2>1. /\ rd' \in [End -> {"first", "rest", "ack", "rx", "stopped"}]
          /\ rd'[e] = "rx" /\ rd'[p] = rd[p]
      BY <1>8, EndFacts DEF TypeInv
    <2>2. UNCHANGED <<done, open>>
      BY <1>8 DEF connVars
    <2>3. Append(responses[e], held[e].cseq) \in Seq(Nat)
      BY <1>4, AppendProperties DEF TypeInv
    <2>4. /\ responses' \in [End -> Seq(Nat)]
          /\ responses'[e] = Append(responses[e], held[e].cseq) /\ responses'[p] = responses[p]
      BY <1>8, <2>3, EndFacts DEF TypeInv
    <2>5. TypeInv'
      BY <1>1, <1>2, <1>5, <2>1, <2>2, <2>4 DEF TypeInv
    <2> QED BY <1>1, <1>2, <1>3, <1>5, <1>8, <2>1, <2>2, <2>4, <2>5
  <1>9. CASE /\ IsRequest(e) => done[e] \/ Len(responses[e]) >= RespCap
             /\ ~(Whole(e) /\ held[e].kind = "200 OK")
             /\ LeaveReadLoop(e)
             /\ UNCHANGED responses
    <2>1. TypeInv'
      BY <1>1, <1>2, <1>5, <1>9, ReadLoopLeft DEF TypeInv
    <2>2. /\ rd'[e] = "stopped" /\ done'[e] /\ ~open'[e]
          /\ rd'[p] = rd[p] /\ done'[p] = done[p] /\ open'[p] = open[p]
      BY <1>9, ReadLoopLeft
    <2> QED BY <1>1, <1>2, <1>3, <1>5, <1>9, <2>1, <2>2
  <1> QED BY <1>6, <1>7, <1>8, <1>9

(* readLoop passes on what it has in hand: the two sends that succeed.     *)
AckPushed(e) ==
    /\ rd[e] = "ack" /\ Len(ack[e]) < AckCap
    /\ ack' = [ack EXCEPT ![e] = Append(@, held[e].cseq)]
    /\ rd' = [rd EXCEPT ![e] = "first"]
    /\ UNCHANGED <<recvSeq, held, sendVars, net, responses, rx, connVars, userVars, cause>>
RxPushed(e) ==
    /\ rd[e] = "rx" /\ Len(rx[e]) < RxCap
    /\ rx' = [rx EXCEPT ![e] = Append(@, held[e].data)]
    /\ rd' = [rd EXCEPT ![e] = "first"]
    /\ UNCHANGED <<recvSeq, held, sendVars, net, ack, responses, connVars, userVars, cause>>

(* What readLoop has in hand it passes on, or it ends the session. *)
LEMMA PushCases ==
    ASSUME NEW e \in End, PushAck(e) \/ PushRx(e)
    PROVE  AckPushed(e) \/ RxPushed(e) \/ Ends(e)
  <1>1. CASE PushAck(e)
    <2>1. CASE done[e] /\ LeaveReadLoop(e) /\ UNCHANGED ack
      BY <1>1, <2>1 DEF PushAck, Ends, chanVars
    <2> QED BY <1>1, <2>1 DEF PushAck, AckPushed
  <1>2. CASE PushRx(e)
    <2>1. CASE done[e] /\ LeaveReadLoop(e) /\ UNCHANGED <<rx, cause>>
      BY <1>2, <2>1 DEF PushRx, Ends, chanVars
    <2>2. CASE Overflow(e) /\ cause' = TRUE /\ UNCHANGED rx
      BY <1>2, <2>2 DEF PushRx, Ends, chanVars, Overflow
    <2> QED BY <1>2, <2>1, <2>2 DEF PushRx, RxPushed
  <1> QED BY <1>1, <1>2

(* A CSeq goes into ack. *)
LEMMA AckPushedEffect ==
    ASSUME TypeInv, NEW e \in End, AckPushed(e), UNCHANGED plan
    PROVE  /\ TypeInv'
           /\ rd[e] = "ack" /\ rd'[e] = "first" /\ rd'[Peer(e)] = rd[Peer(e)]
           /\ ack'[e] = Append(ack[e], held[e].cseq) /\ ack'[Peer(e)] = ack[Peer(e)]
           /\ held[e].cseq \in Nat
           /\ UNCHANGED <<seq, pc, reply, recvSeq, held, net, responses, rx, done, open, eof, sent,
                          delivered, cause>>
  <1>1. held[e].cseq \in Nat
    BY DEF TypeInv, Message
  <1>2. UNCHANGED <<seq, pc, reply, recvSeq, held, net, responses, rx, done, open, eof, sent,
                    delivered, cause>>
    BY DEF AckPushed, sendVars, connVars, userVars
  <1>3. /\ rd' \in [End -> {"first", "rest", "ack", "rx", "stopped"}]
        /\ rd[e] = "ack" /\ rd'[e] = "first" /\ rd'[Peer(e)] = rd[Peer(e)]
    BY EndFacts DEF TypeInv, AckPushed
  <1>4. /\ ack' \in [End -> Seq(Nat)]
        /\ ack'[e] = Append(ack[e], held[e].cseq) /\ ack'[Peer(e)] = ack[Peer(e)]
    <2>1. /\ Append(ack[e], held[e].cseq) \in Seq(Nat) /\ ack \in [End -> Seq(Nat)]
          /\ ack' = [ack EXCEPT ![e] = Append(ack[e], held[e].cseq)]
      BY <1>1, AppendProperties DEF TypeInv, AckPushed
    <2> QED BY <2>1, EndFacts
  <1>5. TypeInv'
    BY <1>2, <1>3, <1>4 DEF TypeInv
  <1> QED BY <1>1, <1>2, <1>3, <1>4, <1>5

(* An accepted packet goes into rx. *)
LEMMA RxPushedEffect ==
    ASSUME TypeInv, NEW e \in End, Lifecycle(e), RxPushed(e), UNCHANGED plan
    PROVE  /\ TypeInv'
           /\ rd[e] = "rx" /\ rd'[e] = "first" /\ rd'[Peer(e)] = rd[Peer(e)]
           /\ rx'[e] = Append(rx[e], held[e].data) /\ rx'[Peer(e)] = rx[Peer(e)]
           /\ held[e].data \in Packet
           /\ UNCHANGED <<seq, pc, reply, recvSeq, held, net, ack, responses, done, open, eof, sent,
                          delivered, cause>>
  <1>1. held[e].data \in Packet
    BY DEF TypeInv, Message, Lifecycle, RxPushed
  <1>2. UNCHANGED <<seq, pc, reply, recvSeq, held, net, ack, responses, done, open, eof, sent,
                    delivered, cause>>
    BY DEF RxPushed, sendVars, connVars, userVars
  <1>3. /\ rd' \in [End -> {"first", "rest", "ack", "rx", "stopped"}]
        /\ rd[e] = "rx" /\ rd'[e] = "first" /\ rd'[Peer(e)] = rd[Peer(e)]
    BY EndFacts DEF TypeInv, RxPushed
  <1>4. /\ rx' \in [End -> Seq(Packet)]
        /\ rx'[e] = Append(rx[e], held[e].data) /\ rx'[Peer(e)] = rx[Peer(e)]
    <2>1. /\ Append(rx[e], held[e].data) \in Seq(Packet) /\ rx \in [End -> Seq(Packet)]
          /\ rx' = [rx EXCEPT ![e] = Append(rx[e], held[e].data)]
      BY <1>1, AppendProperties DEF TypeInv, RxPushed
    <2> QED BY <2>1, EndFacts
  <1>5. TypeInv'
    BY <1>2, <1>3, <1>4 DEF TypeInv
  <1> QED BY <1>1, <1>2, <1>3, <1>4, <1>5

(* The consumer takes a packet, or is told the end. *)
LEMMA ReadPacketEffect ==
    ASSUME TypeInv, NEW e \in End, ReadPacket(e), UNCHANGED plan
    PROVE  /\ TypeInv'
           /\ \/ /\ rx[e] # <<>> /\ rx'[e] = Tail(rx[e]) /\ rx'[Peer(e)] = rx[Peer(e)]
                 /\ delivered'[e] = Append(delivered[e], Head(rx[e]))
                 /\ delivered'[Peer(e)] = delivered[Peer(e)]
              \/ UNCHANGED <<rx, delivered>>
           /\ UNCHANGED <<seq, pc, reply, recvSeq, rd, held, net, ack, responses, done, open, sent,
                          cause>>
  <1>1. UNCHANGED <<seq, pc, reply, recvSeq, rd, held, net, ack, responses, done, open, sent, cause>>
    BY DEF ReadPacket, sendVars, readVars, connVars
  <1>2. CASE /\ rx[e] # <<>> /\ rx' = [rx EXCEPT ![e] = Tail(@)]
             /\ delivered' = [delivered EXCEPT ![e] = Append(@, Head(rx[e]))]
             /\ UNCHANGED eof
    <2>1. /\ rx \in [End -> Seq(Packet)] /\ delivered \in [End -> Seq(Packet)]
          /\ Tail(rx[e]) \in Seq(Packet) /\ Append(delivered[e], Head(rx[e])) \in Seq(Packet)
      BY <1>2, TailFacts, AppendProperties DEF TypeInv
    <2>2. /\ rx' \in [End -> Seq(Packet)]
          /\ rx'[e] = Tail(rx[e]) /\ rx'[Peer(e)] = rx[Peer(e)]
      BY <1>2, <2>1, EndFacts
    <2>3. /\ delivered' \in [End -> Seq(Packet)]
          /\ delivered'[e] = Append(delivered[e], Head(rx[e]))
          /\ delivered'[Peer(e)] = delivered[Peer(e)]
      BY <1>2, <2>1, EndFacts
    <2>4. TypeInv'
      BY <1>1, <1>2, <2>2, <2>3 DEF TypeInv
    <2> QED BY <1>1, <1>2, <2>2, <2>3, <2>4
  <1>3. CASE done[e] /\ eof' = [eof EXCEPT ![e] = TRUE] /\ UNCHANGED <<rx, delivered>>
    <2>1. eof' \in [End -> BOOLEAN]
      BY <1>3 DEF TypeInv
    <2>2. TypeInv'
      BY <1>1, <1>3, <2>1 DEF TypeInv
    <2> QED BY <1>1, <1>3, <2>2
  <1> QED BY <1>2, <1>3 DEF ReadPacket

-----------------------------------------------------------------------------
(* The conjuncts of IInv at one end. *)
Good(e) == /\ Threads(e) /\ Lifecycle(e)
           /\ Single(e) /\ OneToken(e) /\ Owed(e)
           /\ Numbers(e) /\ Balance(e) /\ InOrder(e)
           /\ Untouched(e)

(* IInv speaks of the two ends. *)
LEMMA GoodIsIInv ==
    ASSUME NEW e \in End
    PROVE  /\ IInv => TypeInv /\ Good(e) /\ Good(Peer(e))
           /\ TypeInv' /\ Good(e)' /\ Good(Peer(e))' => IInv'
  BY EndFacts DEF IInv, Good

(* Every piece on the wire is one. *)
LEMMA PieceTypes ==
    ASSUME TypeInv, NEW e \in End, NEW i \in 1 .. Len(net[e])
    PROVE  /\ net[e][i] \in Piece /\ net[e][i].part \in {"head", "body"}
           /\ net[e][i].msg \in Message /\ net[e][i].msg.cseq \in Nat
  <1>1. net[e][i] \in Piece
    BY ElementOfSeq DEF TypeInv
  <1> QED BY <1>1 DEF Piece, Message

(* What a step owes to Untouched that writes and reads no piece of the     *)
(* direction from e to its peer, and closes nothing.                       *)
LEMMA UntouchedFrame ==
    ASSUME NEW e \in End, Untouched(e),
           UNCHANGED <<cause, open[e], done[e], Running(e), rd[Peer(e)] = "rest", held[Peer(e)],
                       net[e]>>,
           \A t \in Thread : pc'[e][t] = "body" <=> pc[e][t] = "body",
           \A t \in Thread : pc[e][t] = "body" => Due(e, t)' = Due(e, t)
    PROVE  Untouched(e)'
  <1> USE EndFacts
  <1>1. CASE cause
    BY <1>1 DEF Untouched
  <1>2. CASE ~cause
    <2>1. open[e]' /\ ~done[e]' /\ Running(e)'
      BY <1>2 DEF Untouched
    <2>2. Paired(e)'
      BY <1>2 DEF Untouched, Paired
    <2>3. FrontPiece(e)'
      BY <1>2 DEF Untouched, FrontPiece
    <2>4. BackPiece(e)'
      BY <1>2 DEF Untouched, BackPiece
    <2> QED BY <2>1, <2>2, <2>3, <2>4 DEF Untouched
  <1> QED BY <1>1, <1>2

(* Packets accepted or on the wire have their places in what was sent. *)
LEMMA WithinBooks ==
    ASSUME TypeInv, NEW e \in End, NEW m \in Nat, Accepted(Peer(e)) + OnWire(e) <= m
    PROVE  LET p == Peer(e) IN
           /\ \A i \in 1 .. Len(rx[p]) : Len(delivered[p]) + i \in 1 .. m
           /\ rd[p] = "rx" => Accepted(p) \in 1 .. m
           /\ Running(p) /\ InRequest(e) => Accepted(p) + 1 \in 1 .. m
  <1> DEFINE p == Peer(e)
  <1>1. p \in End
    BY EndFacts
  <1>2. /\ Len(delivered[p]) \in Nat /\ Len(rx[p]) \in Nat
        /\ Accepted(p) \in Nat /\ OnWire(e) \in {0, 1}
        /\ Running(p) /\ InRequest(e) => OnWire(e) = 1
    BY <1>1, Counts DEF OnWire
  <1>3. Accepted(p) <= m
    BY <1>2
  <1>4. /\ rd[p] = "rx" => Accepted(p) = Len(delivered[p]) + Len(rx[p]) + 1
        /\ rd[p] # "rx" => Accepted(p) = Len(delivered[p]) + Len(rx[p])
    BY <1>1, Counts
  <1>5. \A i \in 1 .. Len(rx[p]) : Len(delivered[p]) + i \in 1 .. m
    <2>1. \A d, r, a \in Nat : (a = d + r + 1 \/ a = d + r) /\ a <= m
                                 => \A i \in 1 .. r : d + i \in 1 .. m
      OBVIOUS
    <2> QED BY <1>2, <1>3, <1>4, <2>1
  <1>6. rd[p] = "rx" => Accepted(p) \in 1 .. m
    <2>1. \A d, r, a \in Nat : a = d + r + 1 /\ a <= m => a \in 1 .. m
      OBVIOUS
    <2> QED BY <1>2, <1>3, <1>4, <2>1
  <1>7. Running(p) /\ InRequest(e) => Accepted(p) + 1 \in 1 .. m
    BY <1>2
  <1> QED BY <1>5, <1>6, <1>7

(* So do they within the books that balance. *)
LEMMA WithinSent ==
    ASSUME TypeInv, NEW e \in End, Balance(e)
    PROVE  LET p == Peer(e) IN
           /\ \A i \in 1 .. Len(rx[p]) : Len(delivered[p]) + i \in 1 .. Len(sent[e])
           /\ rd[p] = "rx" => Accepted(p) \in 1 .. Len(sent[e])
           /\ Running(p) /\ InRequest(e) => Accepted(p) + 1 \in 1 .. Len(sent[e])
  <1>1. /\ Len(sent[e]) \in Nat /\ Accepted(Peer(e)) \in Nat
        /\ Busy(e) \in {0, 1} /\ OnWire(e) \in {0, 1}
        /\ Accepted(Peer(e)) + Busy(e) + OnWire(e) <= Len(sent[e])
    BY EndFacts, Counts DEF Balance
  <1>2. Accepted(Peer(e)) + OnWire(e) <= Len(sent[e])
    BY <1>1
  <1> QED BY <1>1, <1>2, WithinBooks

(* MakeRequest: tx was free before, so no request of e is outstanding. *)
LEMMA MakeRequestStep ==
    ASSUME IInv, NEW e \in End, NEW w \in Writer, NEW d \in Packet,
           MakeRequest(e, w), body[e].data = d, UNCHANGED plan
    PROVE  IInv'
  <1> DEFINE p == Peer(e)
  <1>1. TypeInv /\ Good(e) /\ Good(p) /\ p \in End /\ Peer(p) = e /\ p # e
    BY GoodIsIInv, EndFacts
  <1>2. /\ TypeInv'
        /\ seq'[e] = seq[e] + 1 /\ seq'[p] = seq[p]
        /\ sent'[e] = Append(sent[e], d) /\ sent'[p] = sent[p]
        /\ pc'[e][w] = "lock" /\ \A s \in Thread \ {w} : pc'[e][s] = pc[e][s]
        /\ pc'[p] = pc[p]
        /\ UNCHANGED <<reply, recvSeq, rd, held, net, ack, responses, rx, done, open, eof,
                       delivered, cause>>
    BY <1>1, MakeRequestEffect
  <1>3. /\ \A v \in Writer : v = w \/ pc[e][v] \in {"idle", "failed"}
        /\ pc[e][w] = "seal" /\ w \in Thread
        /\ "resp" \in Thread /\ "resp" # w /\ pc'[e]["resp"] = pc[e]["resp"]
        /\ Writer \subseteq Thread
    BY <1>1, <1>2, SipAssumption DEF MakeRequest, Threads, Thread, Good
  <1>4. Threads(e)' /\ Threads(p)'
    BY <1>1, <1>2, <1>3 DEF Threads, Good
  <1>5. Lifecycle(e)' /\ Lifecycle(p)'
    BY <1>1, <1>2 DEF Lifecycle, Good
  <1>6. Single(e)' /\ Single(p)'
    BY <1>1, <1>2 DEF Single, RequestAt, ReplyAt, Good
  <1>7. OneToken(e)' /\ OneToken(p)'
    BY <1>1, <1>2, <1>3 DEF OneToken, InRequest, InReply, RequestAt, ReplyAt, Queued, Replying, Acking,
       Acked, Good
  <1>8. Owed(e)' /\ Owed(p)'
    BY <1>1, <1>2, <1>3 DEF Owed, Token, GivenUp, Awaiting, InRequest, InReply, RequestAt, ReplyAt, Queued,
       Replying, Acking, Acked, Good
  <1>9. Busy(e)' = 1 /\ Busy(e) = 0 /\ Busy(p)' = Busy(p)
    BY <1>1, <1>2, <1>3 DEF Busy, Sending
  <1>10. Numbers(e)' /\ Numbers(p)'
    <2>1. /\ seq[e] \in Nat /\ seq[p] \in Nat /\ recvSeq[e] \in Nat /\ recvSeq[p] \in Nat
          /\ \A i \in 1 .. Len(net[e]) : net[e][i].msg.cseq \in Nat
      BY <1>1, PieceTypes DEF TypeInv
    <2>2. Numbers(e)'
      <3>1. /\ recvSeq[p] <= seq[e]
            /\ \A i \in 1 .. Len(net[e]) : RequestAt(e, i) =>
                 /\ recvSeq[p] < net[e][i].msg.cseq
                 /\ net[e][i].msg.ad = net[e][i].msg.cseq
                 /\ net[e][i].msg.cseq <= seq[e]
        BY <1>1, <1>9, <2>1 DEF Numbers, Good
      <3>2. /\ seq'[e] = seq[e] + 1 /\ recvSeq'[p] = recvSeq[p] /\ net'[e] = net[e]
            /\ \A i : RequestAt(e, i)' <=> RequestAt(e, i)
        BY <1>2 DEF RequestAt
      <3> QED BY <1>9, <2>1, <3>1, <3>2 DEF Numbers
    <2>3. Numbers(p)'
      BY <1>1, <1>2, <1>9, <2>1 DEF Numbers, RequestAt, Good
    <2> QED BY <2>2, <2>3
  <1>11. Balance(e)' /\ Balance(p)'
    <2>1. /\ Len(sent'[e]) = Len(sent[e]) + 1 /\ UNCHANGED <<Accepted(e), Accepted(p)>>
          /\ UNCHANGED <<OnWire(e), OnWire(p), Running(e), Running(p), GivenUp(p)>>
          /\ GivenUp(e)' <=> GivenUp(e)
      <3>1. Len(sent'[e]) = Len(sent[e]) + 1
        BY <1>1, <1>2, AppendProperties DEF TypeInv
      <3>2. UNCHANGED <<Accepted(e), Accepted(p), OnWire(e), OnWire(p), Running(e), Running(p)>>
        BY <1>1, <1>2 DEF Accepted, OnWire, Running, InRequest, RequestAt
      <3>3. (GivenUp(e)' <=> GivenUp(e)) /\ UNCHANGED GivenUp(p)
        BY <1>1, <1>2, <1>3 DEF GivenUp
      <3> QED BY <3>1, <3>2, <3>3
    <2>2. Balance(e)'
      <3>1. /\ Accepted(p) \in Nat /\ OnWire(e) \in {0, 1} /\ Len(sent[e]) \in Nat
            /\ Accepted(p) + 0 + OnWire(e) <= Len(sent[e])
            /\ Running(p) /\ ~GivenUp(e) => Accepted(p) + 0 + OnWire(e) = Len(sent[e])
        BY <1>1, <1>9, Counts DEF Balance, Good
      <3>2. \A a, n \in Nat, k \in {0, 1} : /\ a + 0 + k <= n => a + 1 + k <= n + 1
                                         /\ a + 0 + k = n => a + 1 + k = n + 1
        OBVIOUS
      <3>3. /\ Accepted(p) + 1 + OnWire(e) <= Len(sent'[e])
            /\ Running(p) /\ ~GivenUp(e) => Accepted(p) + 1 + OnWire(e) = Len(sent'[e])
        BY <2>1, <3>1, <3>2
      <3> QED BY <1>1, <1>9, <2>1, <3>3 DEF Balance
    <2>3. Balance(p)'
      BY <1>1, <1>2, <1>9, <2>1 DEF Balance, Good
    <2> QED BY <2>2, <2>3
  <1>12. InOrder(e)' /\ InOrder(p)'
    <2>1. \A i \in 1 .. Len(sent[e]) : sent'[e][i] = sent[e][i]
      BY <1>1, <1>2 DEF TypeInv
    <2>2. /\ \A i \in 1 .. Len(rx[p]) : Len(delivered[p]) + i \in 1 .. Len(sent[e])
          /\ rd[p] = "rx" => Accepted(p) \in 1 .. Len(sent[e])
          /\ Running(p) /\ InRequest(e) => Accepted(p) + 1 \in 1 .. Len(sent[e])
      BY <1>1, WithinSent DEF Good
    <2>3. UNCHANGED <<Accepted(e), Accepted(p), Running(e), Running(p)>>
      BY <1>2 DEF Accepted, Running
    <2>4. InOrder(e)'
      BY <1>1, <1>2, <2>1, <2>2, <2>3 DEF InOrder, InRequest, RequestAt, Good
    <2>5. InOrder(p)'
      BY <1>1, <1>2, <2>3 DEF InOrder, RequestAt, Good
    <2> QED BY <2>4, <2>5
  <1>13. Untouched(e)' /\ Untouched(p)'
    <2>1. \A t \in Thread : /\ pc'[e][t] = "body" <=> pc[e][t] = "body"
                            /\ pc[e][t] = "body" => Due(e, t)' = Due(e, t)
      BY <1>2, <1>3 DEF Due, Response, Thread
    <2>2. \A t \in Thread : /\ pc'[p][t] = "body" <=> pc[p][t] = "body"
                            /\ Due(p, t)' = Due(p, t)
      BY <1>2 DEF Due, Response, Request
    <2>3. Untouched(e)'
      BY <1>1, <1>2, <2>1, UntouchedFrame DEF Good, Running
    <2>4. Untouched(p)'
      BY <1>1, <1>2, <2>2, UntouchedFrame DEF Good, Running
    <2> QED BY <2>3, <2>4
  <1> QED BY <1>1, <1>2, <1>4, <1>5, <1>6, <1>7, <1>8, <1>10, <1>11, <1>12, <1>13, GoodIsIInv DEF Good

(* Seal, LockWire, ResponderStops: the thread changes its place, neither   *)
(* what it is sending nor which requests are outstanding.                  *)
LEMMA PlaceOnlyStep ==
    ASSUME IInv, TypeInv', NEW e \in End, pc'[Peer(e)] = pc[Peer(e)],
           Threads(e)', Replying(e)' <=> Replying(e),
           \A w \in Writer :
             /\ pc'[e][w] \in {"lock", "head", "body"} <=> pc[e][w] \in {"lock", "head", "body"}
             /\ pc'[e][w] = "await" <=> pc[e][w] = "await"
             /\ pc'[e][w] = "failed" <=> pc[e][w] = "failed",
           \A t \in Thread : pc'[e][t] = "body" <=> pc[e][t] = "body",
           UNCHANGED <<seq, reply, recvSeq, rd, held, net, ack, responses, rx, done, open, eof,
                       sent, delivered, cause>>
    PROVE  IInv'
  <1> DEFINE p == Peer(e)
  <1>1. TypeInv /\ Good(e) /\ Good(p) /\ p \in End /\ Peer(p) = e /\ p # e
    BY GoodIsIInv, EndFacts
  <1>2. Threads(p)'
    BY <1>1 DEF Threads, Good
  <1>10. Lifecycle(e)' /\ Lifecycle(p)'
    BY <1>1 DEF Lifecycle, Good
  <1>11. Single(e)' /\ Single(p)'
    BY <1>1 DEF Single, RequestAt, ReplyAt, Good
  <1>3. OneToken(e)' /\ OneToken(p)'
    BY <1>1 DEF OneToken, InRequest, InReply, RequestAt, ReplyAt, Queued, Replying, Acking, Acked, Good
  <1>4. Owed(e)' /\ Owed(p)'
    BY <1>1 DEF Owed, Token, GivenUp, Awaiting, InRequest, InReply, RequestAt, ReplyAt, Queued,
       Replying, Acking, Acked, Good
  <1>5. UNCHANGED <<Busy(e), Busy(p), OnWire(e), OnWire(p), Accepted(e), Accepted(p)>>
    BY <1>1 DEF Busy, Sending, OnWire, Accepted, Running, InRequest, RequestAt
  <1>6. Numbers(e)' /\ Numbers(p)'
    BY <1>1, <1>5 DEF Numbers, RequestAt, Good
  <1>7. Balance(e)' /\ Balance(p)'
    BY <1>1, <1>5 DEF Balance, Running, GivenUp, Good
  <1>8. InOrder(e)' /\ InOrder(p)'
    BY <1>1, <1>5 DEF InOrder, Running, RequestAt, Good
  <1>9. Untouched(e)' /\ Untouched(p)'
    <2>1. \A x \in End, t \in Thread : Due(x, t)' = Due(x, t)
      BY DEF Due, Response, Request
    <2> QED BY <1>1, <2>1, UntouchedFrame DEF Good, Running
  <1> QED BY <1>1, <1>2, <1>10, <1>11, <1>3, <1>4, <1>6, <1>7, <1>8, <1>9, GoodIsIInv DEF Good

(* tx is taken only when nobody holds it. *)
LEMMA SealStep ==
    ASSUME IInv, NEW e \in End, NEW w \in Writer, NEW d \in Packet, Seal(e, w, d),
           UNCHANGED plan
    PROVE  IInv'
  <1>1. TypeInv /\ Good(e)
    BY GoodIsIInv
  <1>2. /\ TypeInv'
        /\ pc'[e][w] = "seal" /\ \A s \in Thread \ {w} : pc'[e][s] = pc[e][s]
        /\ pc'[Peer(e)] = pc[Peer(e)]
        /\ UNCHANGED <<seq, reply, recvSeq, rd, held, net, ack, responses, rx, done, open, eof,
                       sent, delivered, cause>>
    BY <1>1, SealEffect
  <1>3. /\ pc[e][w] = "idle" /\ \A v \in Writer : pc[e][v] \in {"idle", "failed"}
        /\ w # "resp" /\ "resp" \in Thread /\ Writer \subseteq Thread
    BY SipAssumption DEF Seal, TxFree, Thread
  <1>4. Threads(e)'
    BY <1>1, <1>2, <1>3 DEF Threads, Good, Thread
  <1>5. /\ Replying(e)' <=> Replying(e)
        /\ \A s \in Thread : pc'[e][s] = "body" <=> pc[e][s] = "body"
    BY <1>2, <1>3 DEF Replying
  <1>6. \A v \in Writer :
             /\ pc'[e][v] \in {"lock", "head", "body"} <=> pc[e][v] \in {"lock", "head", "body"}
             /\ pc'[e][v] = "await" <=> pc[e][v] = "await"
             /\ pc'[e][v] = "failed" <=> pc[e][v] = "failed"
    BY <1>2, <1>3
  <1> QED BY <1>2, <1>4, <1>5, <1>6, PlaceOnlyStep

(* The wire mutex is taken only when nobody holds it. *)
LEMMA LockWireStep ==
    ASSUME IInv, NEW e \in End, NEW t \in Thread, LockWire(e, t), UNCHANGED plan
    PROVE  IInv'
  <1>1. TypeInv /\ Good(e)
    BY GoodIsIInv
  <1>2. /\ TypeInv'
        /\ pc'[e][t] = "head" /\ \A s \in Thread \ {t} : pc'[e][s] = pc[e][s]
        /\ pc'[Peer(e)] = pc[Peer(e)]
        /\ UNCHANGED <<seq, reply, recvSeq, rd, held, net, ack, responses, rx, done, open, eof,
                       sent, delivered, cause>>
    BY <1>1, LockWireEffect
  <1>3. pc[e][t] = "lock" /\ \A s \in Thread : pc[e][s] \notin {"head", "body"}
    BY DEF LockWire, WireFree, Thread
  <1>4. Threads(e)'
    BY <1>1, <1>2, <1>3, SipAssumption DEF Threads, Good, Thread
  <1>5. /\ Replying(e)' <=> Replying(e)
        /\ \A s \in Thread : pc'[e][s] = "body" <=> pc[e][s] = "body"
    BY <1>2, <1>3 DEF Replying, Thread
  <1>6. \A w \in Writer :
             /\ pc'[e][w] \in {"lock", "head", "body"} <=> pc[e][w] \in {"lock", "head", "body"}
             /\ pc'[e][w] = "await" <=> pc[e][w] = "await"
             /\ pc'[e][w] = "failed" <=> pc[e][w] = "failed"
    BY <1>2, <1>3 DEF Thread
  <1> QED BY <1>2, <1>4, <1>5, <1>6, PlaceOnlyStep

(* The responder stops between two replies. *)
LEMMA ResponderStopsStep ==
    ASSUME IInv, NEW e \in End, ResponderStops(e), UNCHANGED plan
    PROVE  IInv'
  <1>1. TypeInv /\ Good(e)
    BY GoodIsIInv
  <1>2. /\ TypeInv'
        /\ pc'[e]["resp"] = "stopped" /\ \A s \in Writer : pc'[e][s] = pc[e][s]
        /\ pc'[Peer(e)] = pc[Peer(e)]
        /\ UNCHANGED <<seq, reply, recvSeq, rd, held, net, ack, responses, rx, done, open, eof,
                       sent, delivered, cause>>
    BY <1>1, ResponderStopsEffect
  <1>3. pc[e]["resp"] = "idle"
    BY DEF ResponderStops
  <1>4. Threads(e)'
    BY <1>1, <1>2, <1>3 DEF Threads, Good, Thread
  <1>5. /\ Replying(e)' <=> Replying(e)
        /\ \A s \in Thread : pc'[e][s] = "body" <=> pc[e][s] = "body"
    BY <1>2, <1>3 DEF Replying, Thread
  <1> QED BY <1>2, <1>4, <1>5, PlaceOnlyStep

(* Once something has befallen the session, Untouched asks for nothing.    *)
LEMMA TouchedStep ==
    ASSUME NEW e \in End, cause'
    PROVE  Untouched(e)' /\ Untouched(Peer(e))'
  BY DEF Untouched

(* The outside events, and the session's own closing after one. *)
LEMMA EndsStep ==
    ASSUME IInv, NEW e \in End, Ends(e), UNCHANGED plan
    PROVE  IInv'
  <1> DEFINE p == Peer(e)
  <1>1. TypeInv /\ Good(e) /\ Good(p) /\ p \in End /\ Peer(p) = e /\ p # e
    BY GoodIsIInv, EndFacts
  <1>2. /\ TypeInv'
        /\ ~open'[e] /\ open'[p] = open[p]
        /\ done'[p] = done[p] /\ (done[e] => done'[e])
        /\ rd'[e] = rd[e] \/ (rd'[e] = "stopped" /\ done'[e])
        /\ rd'[p] = rd[p]
        /\ cause' = TRUE \/ (cause' = cause /\ (done[e] \/ ~open[e] \/ ~open[p]))
        /\ UNCHANGED <<seq, pc, reply, recvSeq, held, net, ack, responses, rx, eof, sent, delivered>>
    BY <1>1, EndsEffect
  <1>3. Threads(e)' /\ Threads(p)'
    BY <1>1, <1>2 DEF Threads, Good
  <1>12. Single(e)' /\ Single(p)'
    BY <1>1, <1>2 DEF Single, RequestAt, ReplyAt, Good
  <1>4. Lifecycle(e)' /\ Lifecycle(p)'
    BY <1>1, <1>2 DEF Lifecycle, Good
  <1>5. OneToken(e)' /\ OneToken(p)'
    BY <1>1, <1>2 DEF OneToken, InRequest, InReply, RequestAt, ReplyAt, Queued, Replying, Acking, Acked,
       Good
  <1>6. Owed(e)' /\ Owed(p)'
    BY <1>1, <1>2 DEF Owed, Token, GivenUp, Awaiting, InRequest, InReply, RequestAt, ReplyAt, Queued,
       Replying, Acking, Acked, Good
  <1>7. UNCHANGED <<Busy(e), Busy(p), OnWire(e), Accepted(p), Running(p), InRequest(p)>>
    BY <1>1, <1>2 DEF Busy, Sending, OnWire, Accepted, Running, InRequest, RequestAt
  <1>8. Numbers(e)' /\ Numbers(p)'
    BY <1>1, <1>2, <1>7 DEF Numbers, RequestAt, Good
  <1>9. Balance(e)' /\ InOrder(e)'
    BY <1>1, <1>2, <1>7 DEF Balance, InOrder, GivenUp, RequestAt, Good
  <1>10. Balance(p)' /\ InOrder(p)'
    <2>1. CASE rd'[e] = rd[e]
      <3>1. UNCHANGED <<Accepted(e), OnWire(p), Running(e), GivenUp(p)>>
        BY <1>1, <1>2, <2>1 DEF Accepted, OnWire, Running, GivenUp, InRequest, RequestAt
      <3> QED BY <1>1, <1>2, <1>7, <2>1, <3>1 DEF Balance, InOrder, RequestAt, Good
    <2>2. CASE rd'[e] = "stopped"
      <3>1. ~Running(e)' /\ OnWire(p)' = 0
        BY <1>1, <2>2 DEF Running, OnWire
      <3>2. Accepted(e)' <= Accepted(e)
        <4>1. Len(delivered[e]) \in Nat /\ Len(rx[e]) \in Nat /\ Accepted(e) \in Nat
              /\ (Accepted(e) = Len(delivered[e]) + Len(rx[e]) + 1
                  \/ Accepted(e) = Len(delivered[e]) + Len(rx[e]))
          BY <1>1, Counts
        <4>2. Accepted(e)' = Len(delivered[e]) + Len(rx[e]) + 0
          BY <1>2, <2>2 DEF Accepted
        <4>3. \A m, n \in Nat : m + n + 0 <= m + n /\ m + n + 0 <= m + n + 1
          OBVIOUS
        <4> QED BY <4>1, <4>2, <4>3
      <3>3. Balance(p)'
        <4>1. /\ Accepted(e) \in Nat /\ Accepted(e)' \in Nat /\ Len(sent[p]) \in Nat
              /\ Busy(p) \in {0, 1} /\ OnWire(p) \in {0, 1}
              /\ Accepted(e) + Busy(p) + OnWire(p) <= Len(sent[p])
          <5>1. Accepted(e)' \in Nat
            <6>1. Len(delivered[e]) \in Nat /\ Len(rx[e]) \in Nat
              BY <1>1, Counts
            <6>2. Accepted(e)' = Len(delivered[e]) + Len(rx[e]) + 0
              BY <1>2, <2>2 DEF Accepted
            <6>3. \A m, n \in Nat : m + n + 0 \in Nat
              OBVIOUS
            <6> QED BY <6>1, <6>2, <6>3
          <5> QED BY <1>1, <5>1, Counts DEF Balance, Good
        <4>2. Accepted(e)' + Busy(p) + 0 <= Len(sent[p])
          BY <3>2, <4>1
        <4> QED BY <1>1, <1>2, <1>7, <3>1, <4>2 DEF Balance
      <3>4. InOrder(p)'
        BY <1>1, <1>2, <2>2, <3>1 DEF InOrder, Good
      <3> QED BY <3>3, <3>4
    <2> QED BY <1>2, <2>1, <2>2
  <1>11. Untouched(e)' /\ Untouched(p)'
    <2>1. cause'
      BY <1>1, <1>2 DEF Untouched, Good
    <2> QED BY <2>1, TouchedStep
  <1> QED BY <1>1, <1>2, <1>3, <1>12, <1>4, <1>5, <1>6, <1>8, <1>9, <1>10, <1>11, GoodIsIInv DEF Good

-----------------------------------------------------------------------------
(* A direction that gains a piece, and one that loses one. *)
LEMMA Grown ==
    ASSUME TypeInv, NEW e \in End, NEW x \in Piece, net'[e] = Append(net[e], x)
    PROVE  /\ Len(net[e]) \in Nat /\ Len(net'[e]) = Len(net[e]) + 1
           /\ 1 .. Len(net'[e]) = (1 .. Len(net[e])) \cup {Len(net[e]) + 1}
           /\ net'[e][Len(net[e]) + 1] = x
           /\ \A i \in 1 .. Len(net[e]) : net'[e][i] = net[e][i]
  <1>1. net[e] \in Seq(Piece)
    BY DEF TypeInv
  <1>2. Len(net[e]) \in Nat
    BY <1>1, LenProperties
  <1>3. /\ Len(net'[e]) = Len(net[e]) + 1
        /\ net'[e][Len(net[e]) + 1] = x
        /\ \A i \in 1 .. Len(net[e]) : net'[e][i] = net[e][i]
    BY <1>1, AppendProperties
  <1>4. \A n \in Nat : 1 .. n + 1 = (1 .. n) \cup {n + 1}
    OBVIOUS
  <1> QED BY <1>2, <1>3, <1>4

(* And a direction that loses its front piece. *)
LEMMA Shrunk ==
    ASSUME TypeInv, NEW e \in End, net[e] # <<>>, net'[e] = Tail(net[e])
    PROVE  /\ Len(net[e]) \in Nat /\ Len(net[e]) > 0 /\ Len(net'[e]) = Len(net[e]) - 1
           /\ Head(net[e]) = net[e][1] /\ 1 \in 1 .. Len(net[e])
           /\ \A i \in 1 .. Len(net'[e]) : i + 1 \in 1 .. Len(net[e]) /\ net'[e][i] = net[e][i + 1]
           /\ \A j \in 1 .. Len(net[e]) : j # 1 => \E i \in 1 .. Len(net'[e]) : j = i + 1
  <1>1. net[e] \in Seq(Piece)
    BY DEF TypeInv
  <1>2. /\ Len(net[e]) \in Nat /\ Len(net[e]) > 0 /\ Len(net'[e]) = Len(net[e]) - 1
        /\ Head(net[e]) = net[e][1]
        /\ \A i \in 1 .. Len(net[e]) - 1 : net'[e][i] = net[e][i + 1]
    BY <1>1, TailFacts
  <1>3. \A n \in Nat : n > 0 => /\ 1 \in 1 .. n
                               /\ \A i \in 1 .. n - 1 : i + 1 \in 1 .. n
                               /\ \A j \in 1 .. n : j # 1 => j - 1 \in 1 .. n - 1 /\ j = j - 1 + 1
    OBVIOUS
  <1> QED BY <1>2, <1>3

(* A head is nobody's request or reply; a body is one of the two. *)
LEMMA GrownTokens ==
    ASSUME TypeInv, NEW e \in End, NEW x \in Piece, net'[e] = Append(net[e], x)
    PROVE  /\ \A i \in 1 .. Len(net[e]) : /\ RequestAt(e, i)' <=> RequestAt(e, i)
                                          /\ ReplyAt(e, i)' <=> ReplyAt(e, i)
           /\ \A i \in {Len(net[e]) + 1} :
                /\ RequestAt(e, i)' <=> (x.part = "body" /\ x.msg.kind = "MESSAGE")
                /\ ReplyAt(e, i)' <=> (x.part = "body" /\ x.msg.kind = "200 OK")
           /\ InRequest(e)' <=> (InRequest(e) \/ (x.part = "body" /\ x.msg.kind = "MESSAGE"))
           /\ InReply(e)' <=> (InReply(e) \/ (x.part = "body" /\ x.msg.kind = "200 OK"))
  <1>1. /\ 1 .. Len(net'[e]) = (1 .. Len(net[e])) \cup {Len(net[e]) + 1}
        /\ net'[e][Len(net[e]) + 1] = x
        /\ \A i \in 1 .. Len(net[e]) : net'[e][i] = net[e][i]
    BY Grown
  <1>2. /\ \A i \in 1 .. Len(net[e]) : /\ RequestAt(e, i)' <=> RequestAt(e, i)
                                       /\ ReplyAt(e, i)' <=> ReplyAt(e, i)
        /\ \A i \in {Len(net[e]) + 1} :
             /\ RequestAt(e, i)' <=> (x.part = "body" /\ x.msg.kind = "MESSAGE")
             /\ ReplyAt(e, i)' <=> (x.part = "body" /\ x.msg.kind = "200 OK")
    BY <1>1 DEF RequestAt, ReplyAt
  <1>3. InRequest(e)' <=> (InRequest(e) \/ (x.part = "body" /\ x.msg.kind = "MESSAGE"))
    BY <1>1, <1>2 DEF InRequest
  <1>4. InReply(e)' <=> (InReply(e) \/ (x.part = "body" /\ x.msg.kind = "200 OK"))
    BY <1>1, <1>2 DEF InReply
  <1> QED BY <1>2, <1>3, <1>4

(* The front piece goes; the tokens behind it stay. *)
LEMMA ShrunkTokens ==
    ASSUME TypeInv, NEW e \in End, net[e] # <<>>, net'[e] = Tail(net[e]), Single(e)
    PROVE  /\ \A i \in 1 .. Len(net'[e]) : /\ RequestAt(e, i)' <=> RequestAt(e, i + 1)
                                           /\ ReplyAt(e, i)' <=> ReplyAt(e, i + 1)
           /\ InRequest(e)' <=> (InRequest(e) /\ ~RequestAt(e, 1))
           /\ InReply(e)' <=> (InReply(e) /\ ~ReplyAt(e, 1))
           /\ RequestAt(e, 1) => InRequest(e)
           /\ ReplyAt(e, 1) => InReply(e)
  <1>1. /\ 1 \in 1 .. Len(net[e])
        /\ \A i \in 1 .. Len(net'[e]) : i + 1 \in 1 .. Len(net[e]) /\ net'[e][i] = net[e][i + 1]
        /\ \A j \in 1 .. Len(net[e]) : j # 1 => \E i \in 1 .. Len(net'[e]) : j = i + 1
    BY Shrunk
  <1>2. \A i \in 1 .. Len(net'[e]) : /\ RequestAt(e, i)' <=> RequestAt(e, i + 1)
                                     /\ ReplyAt(e, i)' <=> ReplyAt(e, i + 1)
    BY <1>1 DEF RequestAt, ReplyAt
  <1>3. \A i \in 1 .. Len(net'[e]) : i + 1 # 1
    <2>1. \A n : \A i \in 1 .. n : i + 1 # 1
      OBVIOUS
    <2> QED BY <2>1
  <1>4. InRequest(e)' <=> (InRequest(e) /\ ~RequestAt(e, 1))
    <2>1. InRequest(e)' => InRequest(e)
      BY <1>1, <1>2 DEF InRequest
    <2>2. InRequest(e)' => ~RequestAt(e, 1)
      BY <1>1, <1>2, <1>3 DEF InRequest, Single
    <2>3. InRequest(e) /\ ~RequestAt(e, 1) => InRequest(e)'
      BY <1>1, <1>2 DEF InRequest
    <2> QED BY <2>1, <2>2, <2>3
  <1>5. InReply(e)' <=> (InReply(e) /\ ~ReplyAt(e, 1))
    <2>1. InReply(e)' => InReply(e)
      BY <1>1, <1>2 DEF InReply
    <2>2. InReply(e)' => ~ReplyAt(e, 1)
      BY <1>1, <1>2, <1>3 DEF InReply, Single
    <2>3. InReply(e) /\ ~ReplyAt(e, 1) => InReply(e)'
      BY <1>1, <1>2 DEF InReply
    <2> QED BY <2>1, <2>2, <2>3
  <1> QED BY <1>1, <1>2, <1>4, <1>5 DEF InRequest, InReply

(* The books of a direction in which nothing is sent, read or accepted. *)
LEMMA BooksKept ==
    ASSUME NEW e \in End, Good(e),
           UNCHANGED <<seq[e], net[e], sent[e], recvSeq[Peer(e)], Accepted(Peer(e)),
                       Running(Peer(e))>>,
           Sending(e)' <=> Sending(e), GivenUp(e) => GivenUp(e)'
    PROVE  /\ Numbers(e)' /\ Balance(e)'
           /\ \A i \in 1 .. Len(net'[e]) : RequestAt(e, i)' /\ Running(Peer(e))'
                => net'[e][i].msg.data = sent'[e][Accepted(Peer(e))' + 1]
  <1>1. UNCHANGED <<Busy(e), OnWire(e)>>
    BY DEF Busy, OnWire, InRequest, RequestAt
  <1>2. Numbers(e)'
    BY <1>1 DEF Numbers, RequestAt, Good
  <1>3. Balance(e)'
    BY <1>1 DEF Balance, Good
  <1>4. \A i \in 1 .. Len(net'[e]) : RequestAt(e, i)' /\ Running(Peer(e))'
          => net'[e][i].msg.data = sent'[e][Accepted(Peer(e))' + 1]
    BY DEF InOrder, RequestAt, Good
  <1> QED BY <1>2, <1>3, <1>4

(* The books of a direction no step of which is taken. *)
LEMMA BooksFrame ==
    ASSUME NEW e \in End, Good(e),
           UNCHANGED <<seq[e], net[e], sent[e], recvSeq[Peer(e)], rd[Peer(e)], held[Peer(e)],
                       delivered[Peer(e)], rx[Peer(e)]>>,
           Sending(e)' <=> Sending(e), GivenUp(e) => GivenUp(e)'
    PROVE  Numbers(e)' /\ Balance(e)' /\ InOrder(e)'
  <1>1. UNCHANGED <<Accepted(Peer(e)), Running(Peer(e))>>
    BY DEF Accepted, Running
  <1>2. /\ Numbers(e)' /\ Balance(e)'
        /\ \A i \in 1 .. Len(net'[e]) : RequestAt(e, i)' /\ Running(Peer(e))'
             => net'[e][i].msg.data = sent'[e][Accepted(Peer(e))' + 1]
    BY <1>1, BooksKept
  <1>3. InOrder(e)'
    BY <1>1, <1>2 DEF InOrder, Good
  <1> QED BY <1>2, <1>3

(* The wire mutex keeps the pieces of two messages apart. *)
LEMMA WritePieceUntouched ==
    ASSUME IInv, Sealing, NEW e \in End, NEW t \in Thread, WritePiece(e, t), UNCHANGED plan
    PROVE  Untouched(e)' /\ Untouched(Peer(e))'
  <1> DEFINE p == Peer(e)
             n == Len(net[e])
             x == [part |-> pc[e][t], msg |-> Due(e, t)]
  <1>1. TypeInv /\ Good(e) /\ Good(p) /\ p \in End /\ Peer(p) = e /\ p # e
    BY GoodIsIInv, EndFacts
  <1>2. /\ x \in Piece
        /\ net'[e] = Append(net[e], x) /\ net'[p] = net[p]
        /\ pc'[e][t] = IF pc[e][t] = "head" THEN "body"
                       ELSE IF t = "resp" THEN "idle" ELSE "await"
        /\ \A s \in Thread \ {t} : pc'[e][s] = pc[e][s]
        /\ pc'[p] = pc[p]
        /\ UNCHANGED <<seq, reply, recvSeq, rd, held, ack, responses, rx, done, open, eof, sent,
                       delivered, cause>>
    BY <1>1, WritePieceEffect DEF Good
  <1>3. \A z \in End, s \in Thread : Due(z, s)' = Due(z, s)
    BY <1>2 DEF Due, Response, Request
  <1>4. Untouched(p)'
    BY <1>1, <1>2, <1>3, UntouchedFrame DEF Good, Running
  <1>5. /\ n \in Nat /\ Len(net'[e]) = n + 1
        /\ net'[e][n + 1] = x
        /\ \A i \in 1 .. n : net'[e][i] = net[e][i]
    BY <1>1, <1>2, Grown
  <1>6. /\ pc[e][t] \in {"head", "body"}
        /\ \A s \in Thread \ {t} : pc[e][s] \notin {"head", "body"}
    BY <1>1 DEF WritePiece, Threads, Good
  <1>7. CASE cause
    BY <1>2, <1>7 DEF Untouched
  <1>8. CASE ~cause
    <2>1. /\ open[e]' /\ ~done[e]' /\ Running(e)'
          /\ Paired(e) /\ FrontPiece(e) /\ BackPiece(e)
      BY <1>1, <1>2, <1>8 DEF Untouched, Good, Running
    <2>2. CASE pc[e][t] = "head"
      <3>1. IF n > 0 THEN net[e][n].part = "body" ELSE rd[p] # "rest"
        BY <1>6, <2>1, <2>2 DEF BackPiece
      <3>2. x = HeadOf(Due(e, t)) /\ x.part = "head"
        BY <2>2 DEF HeadOf
      <3>3. Paired(e)'
        <4>1. \A i \in 1 .. n - 1 : i \in 1 .. n /\ i + 1 \in 1 .. n
          BY <1>5
        <4>2. \A i \in 1 .. n : i = n \/ i \in 1 .. n - 1
          BY <1>5
        <4>3. n + 1 - 1 = n
          BY <1>5
        <4>4. ASSUME NEW i \in 1 .. n
              PROVE  IF net'[e][i].part = "head" THEN net'[e][i + 1] = BodyOf(net'[e][i].msg)
                                                 ELSE net'[e][i + 1].part = "head"
          <5>1. CASE i \in 1 .. n - 1
            BY <1>5, <2>1, <4>1, <5>1 DEF Paired
          <5>2. CASE i = n
            <6>1. n > 0
              BY <5>2
            <6>2. net'[e][i].part = "body" /\ net'[e][i + 1].part = "head"
              BY <1>5, <3>1, <3>2, <5>2, <6>1
            <6> QED BY <6>2
          <5> QED BY <4>2, <5>1, <5>2
        <4>5. Len(net'[e]) - 1 = n
          BY <1>5, <4>3
        <4> QED BY <4>4, <4>5 DEF Paired
      <3>4. FrontPiece(e)'
        <4>1. CASE n > 0
          <5>1. net'[e][1] = net[e][1]
            BY <1>5, <4>1
          <5> QED BY <1>2, <2>1, <4>1, <5>1 DEF FrontPiece
        <4>2. CASE n = 0
          <5>1. net'[e][1] = x /\ rd[p] # "rest"
            BY <1>5, <3>1, <4>2
          <5> QED BY <1>2, <3>2, <5>1 DEF FrontPiece
        <4> QED BY <1>5, <4>1, <4>2
      <3>5. BackPiece(e)'
        <4>1. n + 1 > 0
          BY <1>5
        <4>2. pc'[e][t] = "body" /\ \A s \in Thread : pc'[e][s] = "body" => s = t
          BY <1>2, <1>6, <2>2
        <4>3. net'[e][Len(net'[e])] = HeadOf(Due(e, t)')
          BY <1>3, <1>5, <3>2
        <4> QED BY <1>5, <4>1, <4>2, <4>3 DEF BackPiece
      <3> QED BY <1>4, <2>1, <3>3, <3>4, <3>5 DEF Untouched
    <2>3. CASE pc[e][t] = "body"
      <3>1. IF n > 0 THEN net[e][n] = HeadOf(Due(e, t))
                     ELSE rd[p] = "rest" /\ held[p] = Due(e, t)
        BY <2>1, <2>3 DEF BackPiece
      <3>2. x = BodyOf(Due(e, t)) /\ x.part = "body"
        BY <2>3 DEF BodyOf
      <3>3. Paired(e)'
        <4>1. \A i \in 1 .. n - 1 : i \in 1 .. n /\ i + 1 \in 1 .. n
          BY <1>5
        <4>2. \A i \in 1 .. n : i = n \/ i \in 1 .. n - 1
          BY <1>5
        <4>3. n + 1 - 1 = n
          BY <1>5
        <4>4. ASSUME NEW i \in 1 .. n
              PROVE  IF net'[e][i].part = "head" THEN net'[e][i + 1] = BodyOf(net'[e][i].msg)
                                                 ELSE net'[e][i + 1].part = "head"
          <5>1. CASE i \in 1 .. n - 1
            BY <1>5, <2>1, <4>1, <5>1 DEF Paired
          <5>2. CASE i = n
            <6>1. n > 0
              BY <5>2
            <6>2. net'[e][i] = HeadOf(Due(e, t)) /\ net'[e][i + 1] = BodyOf(Due(e, t))
              BY <1>5, <3>1, <3>2, <5>2, <6>1
            <6> QED BY <6>2 DEF HeadOf
          <5> QED BY <4>2, <5>1, <5>2
        <4>5. Len(net'[e]) - 1 = n
          BY <1>5, <4>3
        <4> QED BY <4>4, <4>5 DEF Paired
      <3>4. FrontPiece(e)'
        <4>1. CASE n > 0
          <5>1. net'[e][1] = net[e][1]
            BY <1>5, <4>1
          <5> QED BY <1>2, <2>1, <4>1, <5>1 DEF FrontPiece
        <4>2. CASE n = 0
          <5>1. net'[e][1] = BodyOf(held[p]) /\ rd[p] = "rest"
            BY <1>5, <3>1, <3>2, <4>2
          <5> QED BY <1>2, <5>1 DEF FrontPiece
        <4> QED BY <1>5, <4>1, <4>2
      <3>5. BackPiece(e)'
        <4>1. n + 1 > 0
          BY <1>5
        <4>2. \A s \in Thread : pc'[e][s] # "body"
          BY <1>2, <1>6, <2>3
        <4>3. net'[e][Len(net'[e])].part = "body"
          BY <1>5, <3>2
        <4> QED BY <1>5, <4>1, <4>2, <4>3 DEF BackPiece
      <3> QED BY <1>4, <2>1, <3>3, <3>4, <3>5 DEF Untouched
    <2> QED BY <1>6, <2>2, <2>3
  <1> QED BY <1>4, <1>7, <1>8

(* What a write leaves to show: its own direction. *)
LEMMA WritePieceFrame ==
    ASSUME IInv, Sealing, NEW e \in End, NEW t \in Thread, WritePiece(e, t), UNCHANGED plan,
           Threads(e)', Single(e)', OneToken(e)', OneToken(Peer(e))', Owed(e)', Owed(Peer(e))',
           Numbers(e)', Balance(e)', InOrder(e)'
    PROVE  IInv'
  <1> DEFINE p == Peer(e)
  <1>1. TypeInv /\ Good(e) /\ Good(p) /\ p \in End /\ Peer(p) = e /\ p # e
    BY GoodIsIInv, EndFacts
  <1>2. /\ TypeInv' /\ net'[p] = net[p] /\ pc'[p] = pc[p]
        /\ UNCHANGED <<seq, reply, recvSeq, rd, held, ack, responses, rx, done, open, eof, sent,
                       delivered, cause>>
    BY <1>1, WritePieceEffect DEF Good
  <1>3. Threads(p)'
    BY <1>1, <1>2 DEF Threads, Good
  <1>4. Lifecycle(e)' /\ Lifecycle(p)'
    BY <1>1, <1>2 DEF Lifecycle, Good
  <1>5. Single(p)'
    BY <1>1, <1>2 DEF Single, RequestAt, ReplyAt, Good
  <1>6. Numbers(p)' /\ Balance(p)' /\ InOrder(p)'
    <2>1. (Sending(p)' <=> Sending(p)) /\ (GivenUp(p) => GivenUp(p)')
      BY <1>2 DEF Sending, GivenUp
    <2> QED BY <1>1, <1>2, <2>1, BooksFrame
  <1>7. Untouched(e)' /\ Untouched(p)'
    BY WritePieceUntouched
  <1> QED BY <1>1, <1>2, <1>3, <1>4, <1>5, <1>6, <1>7, GoodIsIInv DEF Good

(* The head of a message is no request or reply yet. *)
LEMMA WriteHeadStep ==
    ASSUME IInv, Sealing, NEW e \in End, NEW t \in Thread, WritePiece(e, t), UNCHANGED plan,
           pc[e][t] = "head"
    PROVE  IInv'
  <1> DEFINE p == Peer(e)
             x == [part |-> pc[e][t], msg |-> Due(e, t)]
  <1>1. TypeInv /\ Good(e) /\ Good(p) /\ p \in End /\ Peer(p) = e /\ p # e
    BY GoodIsIInv, EndFacts
  <1>2. /\ x \in Piece
        /\ net'[e] = Append(net[e], x) /\ net'[p] = net[p]
        /\ pc'[e][t] = "body" /\ \A s \in Thread \ {t} : pc'[e][s] = pc[e][s]
        /\ pc'[p] = pc[p]
        /\ UNCHANGED <<seq, reply, recvSeq, rd, held, ack, responses, rx, done, open, eof, sent,
                       delivered, cause>>
    BY <1>1, WritePieceEffect DEF Good
  <1>3. x.part = "head" /\ x.part # "body"
    OBVIOUS
  <1>4. /\ Len(net[e]) \in Nat
        /\ 1 .. Len(net'[e]) = (1 .. Len(net[e])) \cup {Len(net[e]) + 1}
        /\ \A i \in 1 .. Len(net[e]) : net'[e][i] = net[e][i]
    BY <1>1, <1>2, Grown
  <1>5. /\ \A i \in 1 .. Len(net[e]) : /\ RequestAt(e, i)' <=> RequestAt(e, i)
                                       /\ ReplyAt(e, i)' <=> ReplyAt(e, i)
        /\ \A i \in {Len(net[e]) + 1} : ~RequestAt(e, i)' /\ ~ReplyAt(e, i)'
        /\ InRequest(e)' <=> InRequest(e)
        /\ InReply(e)' <=> InReply(e)
    BY <1>1, <1>2, <1>3, GrownTokens
  <1>6. /\ \A s \in Thread : pc'[e][s] \in {"head", "body"} <=> pc[e][s] \in {"head", "body"}
        /\ \A w \in Writer :
             /\ pc'[e][w] \in {"idle", "failed"} <=> pc[e][w] \in {"idle", "failed"}
             /\ pc'[e][w] \in {"lock", "head", "body"} <=> pc[e][w] \in {"lock", "head", "body"}
             /\ pc'[e][w] = "stopped" <=> pc[e][w] = "stopped"
             /\ pc'[e][w] = "await" <=> pc[e][w] = "await"
             /\ pc'[e][w] = "failed" <=> pc[e][w] = "failed"
        /\ pc'[e]["resp"] \in {"seal", "await", "failed"}
              <=> pc[e]["resp"] \in {"seal", "await", "failed"}
        /\ Replying(e)' <=> Replying(e)
    BY <1>2, SipAssumption DEF Thread, Replying
  <1>7. (Sending(e)' <=> Sending(e)) /\ (Awaiting(e)' <=> Awaiting(e)) /\ (GivenUp(e)' <=> GivenUp(e))
    BY <1>2, <1>6 DEF Sending, Awaiting, GivenUp
  <1>8. Threads(e)'
    BY <1>1, <1>6 DEF Threads, Good
  <1>9. Single(e)'
    <2>1. \A i, j \in 1 .. Len(net'[e]) : RequestAt(e, i)' /\ RequestAt(e, j)' => i = j
      BY <1>1, <1>4, <1>5 DEF Single, Good
    <2>2. \A i, j \in 1 .. Len(net'[e]) : ReplyAt(e, i)' /\ ReplyAt(e, j)' => i = j
      BY <1>1, <1>4, <1>5 DEF Single, Good
    <2> QED BY <1>1, <1>2, <2>1, <2>2 DEF Single, Good
  <1>10. UNCHANGED <<InRequest(p), InReply(p), Queued(e), Queued(p), Acking(e), Acking(p), Acked(e),
                     Acked(p), Replying(p), Awaiting(p), GivenUp(p)>>
    BY <1>2 DEF InRequest, InReply, RequestAt, ReplyAt, Queued, Acking, Acked, Replying, Awaiting,
       GivenUp
  <1>11. OneToken(e)' /\ OneToken(p)'
    BY <1>1, <1>5, <1>6, <1>10 DEF OneToken, Good
  <1>12. Owed(e)' /\ Owed(p)'
    BY <1>1, <1>5, <1>6, <1>7, <1>10 DEF Owed, Token, Good
  <1>13. UNCHANGED <<Busy(e), OnWire(e), Accepted(p), Running(p)>>
    BY <1>2, <1>5, <1>7 DEF Busy, OnWire, Accepted, Running
  <1>14. Numbers(e)'
    <2>1. \A i \in 1 .. Len(net'[e]) : RequestAt(e, i)' =>
            RequestAt(e, i) /\ i \in 1 .. Len(net[e]) /\ net'[e][i] = net[e][i]
      BY <1>4, <1>5
    <2> QED BY <1>1, <1>2, <1>13, <2>1 DEF Numbers, Good
  <1>15. Balance(e)'
    BY <1>1, <1>2, <1>7, <1>13 DEF Balance, Good
  <1>16. InOrder(e)'
    <2>1. \A i \in 1 .. Len(net'[e]) : RequestAt(e, i)' =>
            RequestAt(e, i) /\ i \in 1 .. Len(net[e]) /\ net'[e][i] = net[e][i]
      BY <1>4, <1>5
    <2> QED BY <1>1, <1>2, <1>13, <2>1 DEF InOrder, Good
  <1> QED BY <1>8, <1>9, <1>11, <1>12, <1>14, <1>15, <1>16, WritePieceFrame

(* The responder's 200 OK goes out: the token passes from its hands to the *)
(* wire.                                                                   *)
LEMMA WriteReplyStep ==
    ASSUME IInv, Sealing, NEW e \in End, WritePiece(e, "resp"), UNCHANGED plan, pc[e]["resp"] = "body"
    PROVE  IInv'
  <1> DEFINE p == Peer(e)
             x == [part |-> pc[e]["resp"], msg |-> Due(e, "resp")]
  <1>1. TypeInv /\ Good(e) /\ Good(p) /\ p \in End /\ Peer(p) = e /\ p # e
    BY GoodIsIInv, EndFacts
  <1>2. "resp" \in Thread /\ Writer \subseteq Thread \ {"resp"}
    BY SipAssumption DEF Thread
  <1>3. /\ x \in Piece
        /\ net'[e] = Append(net[e], x) /\ net'[p] = net[p]
        /\ pc'[e]["resp"] = "idle" /\ \A s \in Thread \ {"resp"} : pc'[e][s] = pc[e][s]
        /\ pc'[p] = pc[p]
        /\ UNCHANGED <<seq, reply, recvSeq, rd, held, ack, responses, rx, done, open, eof, sent,
                       delivered, cause>>
    BY <1>1, <1>2, WritePieceEffect DEF Good
  <1>4. x.part = "body" /\ x.msg.kind = "200 OK" /\ x.msg.kind # "MESSAGE"
    BY DEF Due, Response
  <1>5. /\ Len(net[e]) \in Nat
        /\ 1 .. Len(net'[e]) = (1 .. Len(net[e])) \cup {Len(net[e]) + 1}
        /\ \A i \in 1 .. Len(net[e]) : net'[e][i] = net[e][i]
    BY <1>1, <1>3, Grown
  <1>6. /\ \A i \in 1 .. Len(net[e]) : /\ RequestAt(e, i)' <=> RequestAt(e, i)
                                       /\ ReplyAt(e, i)' <=> ReplyAt(e, i)
        /\ \A i \in {Len(net[e]) + 1} : ~RequestAt(e, i)' /\ ReplyAt(e, i)'
        /\ InRequest(e)' <=> InRequest(e)
        /\ InReply(e)'
    BY <1>1, <1>3, <1>4, GrownTokens
  <1>7. /\ Replying(e) /\ ~Replying(e)'
        /\ ~InRequest(p) /\ ~Queued(e) /\ ~InReply(e) /\ ~Acking(p) /\ ~Acked(p)
    BY <1>1, <1>3 DEF Replying, OneToken, Good
  <1>8. (Sending(e)' <=> Sending(e)) /\ (Awaiting(e)' <=> Awaiting(e)) /\ (GivenUp(e)' <=> GivenUp(e))
    BY <1>2, <1>3 DEF Sending, Awaiting, GivenUp
  <1>9. Threads(e)'
    BY <1>1, <1>2, <1>3 DEF Threads, Good
  <1>10. Single(e)'
    <2>1. \A i, j \in 1 .. Len(net'[e]) : RequestAt(e, i)' /\ RequestAt(e, j)' => i = j
      BY <1>1, <1>5, <1>6 DEF Single, Good
    <2>2. \A i, j \in 1 .. Len(net'[e]) : ReplyAt(e, i)' /\ ReplyAt(e, j)' => i = j
      BY <1>5, <1>6, <1>7 DEF InReply
    <2> QED BY <1>1, <1>3, <2>1, <2>2 DEF Single, Good
  <1>11. UNCHANGED <<InRequest(p), InReply(p), Queued(e), Queued(p), Acking(e), Acking(p), Acked(e),
                     Acked(p), Replying(p), Awaiting(p), GivenUp(p)>>
    BY <1>3 DEF InRequest, InReply, RequestAt, ReplyAt, Queued, Acking, Acked, Replying, Awaiting,
       GivenUp
  <1>12. OneToken(e)' /\ OneToken(p)'
    BY <1>1, <1>6, <1>7, <1>11 DEF OneToken, Good
  <1>13. Owed(e)' /\ Owed(p)'
    BY <1>1, <1>6, <1>7, <1>8, <1>11 DEF Owed, Token, Good
  <1>14. UNCHANGED <<Busy(e), OnWire(e), Accepted(p), Running(p)>>
    BY <1>3, <1>6, <1>8 DEF Busy, OnWire, Accepted, Running
  <1>15. \A i \in 1 .. Len(net'[e]) : RequestAt(e, i)' =>
           RequestAt(e, i) /\ i \in 1 .. Len(net[e]) /\ net'[e][i] = net[e][i]
    BY <1>5, <1>6
  <1>16. Numbers(e)'
    BY <1>1, <1>3, <1>14, <1>15 DEF Numbers, Good
  <1>17. Balance(e)'
    BY <1>1, <1>3, <1>8, <1>14 DEF Balance, Good
  <1>18. InOrder(e)'
    BY <1>1, <1>3, <1>14, <1>15 DEF InOrder, Good
  <1> QED BY <1>2, <1>9, <1>10, <1>12, <1>13, <1>16, <1>17, <1>18, WritePieceFrame

(* A request goes out: tx says that it is the only one outstanding.        *)
LEMMA WriteRequestStep ==
    ASSUME IInv, Sealing, NEW e \in End, NEW w \in Writer, WritePiece(e, w), UNCHANGED plan,
           pc[e][w] = "body"
    PROVE  IInv'
  <1> DEFINE p == Peer(e)
             n == Len(net[e])
             x == [part |-> pc[e][w], msg |-> Due(e, w)]
  <1>1. TypeInv /\ Good(e) /\ Good(p) /\ p \in End /\ Peer(p) = e /\ p # e
    BY GoodIsIInv, EndFacts
  <1>2. w \in Thread /\ w # "resp" /\ "resp" \in Thread /\ Writer \subseteq Thread
    BY SipAssumption DEF Thread
  <1>3. /\ x \in Piece
        /\ net'[e] = Append(net[e], x) /\ net'[p] = net[p]
        /\ pc'[e][w] = "await" /\ \A s \in Thread \ {w} : pc'[e][s] = pc[e][s]
        /\ pc'[p] = pc[p]
        /\ UNCHANGED <<seq, reply, recvSeq, rd, held, ack, responses, rx, done, open, eof, sent,
                       delivered, cause>>
    BY <1>1, <1>2, WritePieceEffect DEF Good
  <1>4. /\ x.part = "body" /\ x.msg.kind = "MESSAGE" /\ x.msg.kind # "200 OK"
        /\ x.msg.cseq = seq[e] /\ x.msg.ad = seq[e] /\ x.msg.data = Last(sent[e])
    BY <1>2 DEF Due, Request
  <1>5. /\ n \in Nat
        /\ 1 .. Len(net'[e]) = (1 .. n) \cup {n + 1}
        /\ net'[e][n + 1] = x
        /\ \A i \in 1 .. n : net'[e][i] = net[e][i]
    BY <1>1, <1>3, Grown
  <1>6. /\ \A i \in 1 .. n : /\ RequestAt(e, i)' <=> RequestAt(e, i)
                             /\ ReplyAt(e, i)' <=> ReplyAt(e, i)
        /\ \A i \in {n + 1} : RequestAt(e, i)' /\ ~ReplyAt(e, i)'
        /\ InRequest(e)'
        /\ InReply(e)' <=> InReply(e)
    BY <1>1, <1>3, <1>4, GrownTokens
  <1>7. \A v \in Writer \ {w} : pc[e][v] \in {"idle", "failed"}
    BY <1>1 DEF Threads, Good
  <1>8. /\ Sending(e) /\ ~Sending(e)' /\ Awaiting(e)' /\ ~Awaiting(e)
        /\ ~GivenUp(e) /\ ~GivenUp(e)'
    <2>1. open[e] /\ open'[e]
      BY <1>3 DEF WritePiece
    <2> QED BY <1>2, <1>3, <1>7, <2>1 DEF Sending, Awaiting, GivenUp
  <1>9. ~Token(e)
    BY <1>1, <1>8 DEF Owed, Good
  <1>10. Threads(e)'
    BY <1>1, <1>2, <1>3 DEF Threads, Good
  <1>11. Single(e)'
    <2>1. \A i, j \in 1 .. Len(net'[e]) : RequestAt(e, i)' /\ RequestAt(e, j)' => i = j
      BY <1>5, <1>6, <1>9 DEF InRequest, Token
    <2>2. \A i, j \in 1 .. Len(net'[e]) : ReplyAt(e, i)' /\ ReplyAt(e, j)' => i = j
      BY <1>1, <1>5, <1>6 DEF Single, Good
    <2> QED BY <1>1, <1>3, <2>1, <2>2 DEF Single, Good
  <1>12. UNCHANGED <<InRequest(p), InReply(p), Queued(e), Queued(p), Acking(e), Acking(p), Acked(e),
                     Acked(p), Replying(e), Replying(p), Awaiting(p), GivenUp(p)>>
    BY <1>2, <1>3 DEF InRequest, InReply, RequestAt, ReplyAt, Queued, Acking, Acked, Replying,
       Awaiting, GivenUp
  <1>13. OneToken(e)' /\ OneToken(p)'
    BY <1>1, <1>6, <1>9, <1>12 DEF OneToken, Token, Good
  <1>14. Owed(e)' /\ Owed(p)'
    BY <1>1, <1>6, <1>8, <1>12 DEF Owed, Token, Good
  <1>15. /\ Busy(e) = 1 /\ Busy(e)' = 0 /\ OnWire(e) = 0
         /\ OnWire(e)' = (IF Running(p) THEN 1 ELSE 0)
         /\ UNCHANGED <<Accepted(p), Running(p)>>
    BY <1>3, <1>6, <1>8, <1>9 DEF Busy, OnWire, Accepted, Running, Token
  <1>16. Numbers(e)'
    <2>1. /\ seq[e] \in Nat /\ recvSeq[p] \in Nat /\ recvSeq[p] + 1 <= seq[e]
      BY <1>1, <1>15 DEF Numbers, TypeInv, Good
    <2>2. recvSeq[p] + 0 <= seq[e] /\ recvSeq[p] < seq[e] /\ seq[e] + 0 <= seq[e]
      BY <2>1
    <2>3. \A i \in 1 .. Len(net'[e]) : RequestAt(e, i)' => i = n + 1
      BY <1>5, <1>6, <1>9 DEF InRequest, Token
    <2> QED BY <1>3, <1>4, <1>5, <1>15, <2>2, <2>3 DEF Numbers
  <1>17. /\ Accepted(p) \in Nat /\ Len(sent[e]) \in Nat
         /\ Accepted(p) + 1 + 0 <= Len(sent[e])
         /\ Running(p) => Accepted(p) + 1 + 0 = Len(sent[e])
    BY <1>1, <1>8, <1>15, Counts DEF Balance, Good
  <1>18. Balance(e)'
    <2>1. \A a, m \in Nat : /\ a + 1 + 0 <= m => a + 0 + 1 <= m /\ a + 0 + 0 <= m
                            /\ a + 1 + 0 = m => a + 0 + 1 = m
      OBVIOUS
    <2>2. /\ Accepted(p) + 0 + 1 <= Len(sent[e]) /\ Accepted(p) + 0 + 0 <= Len(sent[e])
          /\ Running(p) => Accepted(p) + 0 + 1 = Len(sent[e])
      BY <1>17, <2>1
    <2>3. CASE Running(p)
      BY <1>3, <1>15, <2>2, <2>3 DEF Balance
    <2>4. CASE ~Running(p)
      BY <1>3, <1>15, <2>2, <2>4 DEF Balance
    <2> QED BY <2>3, <2>4
  <1>19. InOrder(e)'
    <2>1. \A i \in 1 .. Len(net'[e]) : RequestAt(e, i)' => i = n + 1
      BY <1>5, <1>6, <1>9 DEF InRequest, Token
    <2>2. Running(p) => Accepted(p) + 1 = Len(sent[e])
      BY <1>17
    <2>3. x.msg.data = sent[e][Len(sent[e])]
      <3>1. sent[e] \in Seq(Packet) /\ Len(sent[e]) > 0
        <4>1. \A a, m \in Nat : a + 1 + 0 <= m => m > 0
          OBVIOUS
        <4> QED BY <1>1, <1>17, <4>1 DEF TypeInv
      <3> QED BY <1>4, <3>1, FrontFacts
    <2> QED BY <1>1, <1>3, <1>5, <1>15, <2>1, <2>2, <2>3 DEF InOrder, Good
  <1> QED BY <1>2, <1>10, <1>11, <1>13, <1>14, <1>16, <1>18, <1>19, WritePieceFrame

(* One piece goes out: a head, a reply or a request. *)
LEMMA WritePieceStep ==
    ASSUME IInv, Sealing, NEW e \in End, NEW t \in Thread, WritePiece(e, t), UNCHANGED plan
    PROVE  IInv'
  <1>1. pc[e][t] \in {"head", "body"} /\ (t = "resp" \/ t \in Writer)
    BY DEF WritePiece, Thread
  <1> QED BY <1>1, WriteHeadStep, WriteReplyStep, WriteRequestStep

(* Where nothing has befallen a session both ends are open, so a send that *)
(* fails on a closed connection fails for a cause.                         *)
LEMMA SendErrorCause ==
    ASSUME IInv, NEW e \in End, NEW t \in Thread, SendError(e, t), UNCHANGED plan
    PROVE  cause' /\ Untouched(e)' /\ Untouched(Peer(e))'
  <1>1. TypeInv /\ Good(e) /\ Good(Peer(e))
    BY GoodIsIInv
  <1>2. (~open[e] \/ ~open[Peer(e)] \/ cause') /\ (cause => cause')
    BY <1>1, SendErrorEffect DEF Good
  <1>3. cause'
    BY <1>1, <1>2 DEF Untouched, Good
  <1> QED BY <1>3, TouchedStep

(* A reply that fails takes its token with it, and the session. *)
LEMMA ReplyErrorStep ==
    ASSUME IInv, NEW e \in End, SendError(e, "resp"), UNCHANGED plan
    PROVE  IInv'
  <1> DEFINE p == Peer(e)
  <1>1. TypeInv /\ Good(e) /\ Good(p) /\ p \in End /\ Peer(p) = e /\ p # e
    BY GoodIsIInv, EndFacts
  <1>2. "resp" \in Thread /\ Writer \subseteq Thread \ {"resp"}
    BY SipAssumption DEF Thread
  <1>3. /\ TypeInv'
        /\ pc'[e]["resp"] = "stopped" /\ done'[e] /\ ~open'[e]
        /\ done'[p] = done[p] /\ open'[p] = open[p]
        /\ \A s \in Thread \ {"resp"} : pc'[e][s] = pc[e][s]
        /\ pc'[p] = pc[p]
        /\ UNCHANGED <<seq, reply, recvSeq, rd, held, net, ack, responses, rx, eof, sent, delivered>>
    BY <1>1, <1>2, SendErrorEffect DEF Good
  <1>4. \A w \in Writer : pc'[e][w] = pc[e][w]
    BY <1>2, <1>3
  <1>5. Threads(e)' /\ Threads(p)'
    <2>1. Threads(e)'
      BY <1>1, <1>2, <1>3, <1>4 DEF Threads, Good
    <2>2. Threads(p)'
      BY <1>1, <1>3 DEF Threads, Good
    <2> QED BY <2>1, <2>2
  <1>6. Lifecycle(e)' /\ Lifecycle(p)'
    BY <1>1, <1>3 DEF Lifecycle, Good
  <1>7. Single(e)' /\ Single(p)'
    BY <1>1, <1>3 DEF Single, RequestAt, ReplyAt, Good
  <1>8. /\ UNCHANGED <<InRequest(e), InRequest(p), InReply(e), InReply(p), Queued(e), Queued(p),
                       Acking(e), Acking(p), Acked(e), Acked(p), Replying(p)>>
        /\ ~Replying(e)'
    BY <1>3 DEF InRequest, InReply, RequestAt, ReplyAt, Queued, Acking, Acked, Replying
  <1>9. /\ Awaiting(e)' <=> Awaiting(e)
        /\ Sending(e)' <=> Sending(e)
        /\ GivenUp(e) => GivenUp(e)'
        /\ UNCHANGED <<Awaiting(p), Sending(p), GivenUp(p)>>
    BY <1>3, <1>4 DEF Awaiting, Sending, GivenUp
  <1>10. OneToken(e)' /\ OneToken(p)'
    BY <1>1, <1>8 DEF OneToken, Good
  <1>11. Owed(e)' /\ Owed(p)'
    BY <1>1, <1>8, <1>9 DEF Owed, Token, Good
  <1>12. Numbers(e)' /\ Balance(e)' /\ InOrder(e)'
    BY <1>1, <1>3, <1>9, BooksFrame
  <1>13. Numbers(p)' /\ Balance(p)' /\ InOrder(p)'
    BY <1>1, <1>3, <1>9, BooksFrame
  <1>14. Untouched(e)' /\ Untouched(p)'
    BY <1>2, SendErrorCause
  <1> QED BY <1>1, <1>3, <1>5, <1>6, <1>7, <1>10, <1>11, <1>12, <1>13, <1>14, GoodIsIInv DEF Good

(* WritePacket takes back the packet whose send failed: none of the        *)
(* packets sent before it is touched.                                      *)
LEMMA RequestErrorStep ==
    ASSUME IInv, NEW e \in End, NEW w \in Writer, SendError(e, w), UNCHANGED plan
    PROVE  IInv'
  <1> DEFINE p == Peer(e)
             m == Len(sent[e]) - 1
  <1>1. TypeInv /\ Good(e) /\ Good(p) /\ p \in End /\ Peer(p) = e /\ p # e
    BY GoodIsIInv, EndFacts
  <1>2. w \in Thread /\ w # "resp" /\ "resp" \in Thread /\ Writer \subseteq Thread
    BY SipAssumption DEF Thread
  <1>3. /\ TypeInv'
        /\ pc'[e][w] = "failed"
        /\ sent'[e] = Front(sent[e]) /\ sent'[p] = sent[p]
        /\ \A s \in Thread \ {w} : pc'[e][s] = pc[e][s]
        /\ pc'[p] = pc[p]
        /\ UNCHANGED <<seq, reply, recvSeq, rd, held, net, ack, responses, rx, done, open, eof,
                       delivered>>
    BY <1>1, <1>2, SendErrorEffect DEF Good
  <1>4. /\ pc[e][w] \in {"head", "body"}
        /\ \A v \in Writer \ {w} : pc[e][v] \in {"idle", "failed"}
    BY <1>1 DEF SendError, Threads, Good
  <1>5. Threads(e)' /\ Threads(p)'
    <2>1. Threads(e)'
      BY <1>1, <1>2, <1>3, <1>4 DEF Threads, Good
    <2>2. Threads(p)'
      BY <1>1, <1>3 DEF Threads, Good
    <2> QED BY <2>1, <2>2
  <1>6. Lifecycle(e)' /\ Lifecycle(p)'
    BY <1>1, <1>3 DEF Lifecycle, Good
  <1>7. Single(e)' /\ Single(p)'
    BY <1>1, <1>3 DEF Single, RequestAt, ReplyAt, Good
  <1>8. UNCHANGED <<InRequest(e), InRequest(p), InReply(e), InReply(p), Queued(e), Queued(p),
                    Acking(e), Acking(p), Acked(e), Acked(p), Replying(e), Replying(p)>>
    BY <1>2, <1>3 DEF InRequest, InReply, RequestAt, ReplyAt, Queued, Acking, Acked, Replying
  <1>9. /\ Sending(e) /\ ~Sending(e)' /\ ~Awaiting(e)
        /\ GivenUp(e) => GivenUp(e)'
        /\ UNCHANGED <<Awaiting(p), Sending(p), GivenUp(p)>>
    BY <1>2, <1>3, <1>4 DEF Awaiting, Sending, GivenUp
  <1>10. OneToken(e)' /\ OneToken(p)'
    BY <1>1, <1>8 DEF OneToken, Good
  <1>11. Owed(e)' /\ Owed(p)'
    BY <1>1, <1>8, <1>9 DEF Owed, Token, Good
  <1>12. Busy(e) = 1 /\ Busy(e)' = 0 /\ UNCHANGED <<OnWire(e), Accepted(p), Running(p)>>
    BY <1>3, <1>9 DEF Busy, OnWire, Accepted, Running, InRequest, RequestAt
  <1>13. /\ Accepted(p) \in Nat /\ OnWire(e) \in {0, 1} /\ Len(sent[e]) \in Nat
         /\ Accepted(p) + 1 + OnWire(e) <= Len(sent[e])
         /\ Running(p) /\ ~GivenUp(e) => Accepted(p) + 1 + OnWire(e) = Len(sent[e])
    BY <1>1, <1>12, Counts DEF Balance, Good
  <1>14. /\ m \in Nat /\ Len(sent[e]) > 0 /\ Accepted(p) + OnWire(e) <= m
         /\ Accepted(p) + 0 + OnWire(e) <= m
         /\ Running(p) /\ ~GivenUp(e) => Accepted(p) + 0 + OnWire(e) = m
    <2>1. \A a, s \in Nat, k \in {0, 1} :
            /\ a + 1 + k <= s => s - 1 \in Nat /\ s > 0 /\ a + k <= s - 1 /\ a + 0 + k <= s - 1
            /\ a + 1 + k = s => a + 0 + k = s - 1
      OBVIOUS
    <2> QED BY <1>13, <2>1
  <1>15. Len(sent'[e]) = m /\ \A i \in 1 .. m : sent'[e][i] = sent[e][i]
    <2>1. sent[e] \in Seq(Packet)
      BY <1>1 DEF TypeInv
    <2> QED BY <1>3, <1>14, <2>1, FrontFacts
  <1>16. Numbers(e)'
    <2>1. /\ seq[e] \in Nat /\ recvSeq[p] \in Nat
          /\ \A i \in 1 .. Len(net[e]) : net[e][i].msg.cseq \in Nat
      BY <1>1, PieceTypes DEF TypeInv
    <2>2. \A a, s \in Nat : a + 1 <= s => a + 0 <= s
      OBVIOUS
    <2> QED BY <1>1, <1>3, <1>12, <2>1, <2>2 DEF Numbers, RequestAt, Good
  <1>17. Balance(e)'
    BY <1>3, <1>9, <1>12, <1>14, <1>15 DEF Balance
  <1>18. InOrder(e)'
    <2>1. /\ \A i \in 1 .. Len(rx[p]) : Len(delivered[p]) + i \in 1 .. m
          /\ rd[p] = "rx" => Accepted(p) \in 1 .. m
          /\ Running(p) /\ InRequest(e) => Accepted(p) + 1 \in 1 .. m
      BY <1>1, <1>14, WithinBooks
    <2> QED BY <1>1, <1>3, <1>12, <1>15, <2>1 DEF InOrder, InRequest, RequestAt, Good
  <1>19. Numbers(p)' /\ Balance(p)' /\ InOrder(p)'
    BY <1>1, <1>3, <1>9, BooksFrame
  <1>20. Untouched(e)' /\ Untouched(p)'
    BY <1>2, SendErrorCause
  <1> QED BY <1>1, <1>3, <1>5, <1>6, <1>7, <1>10, <1>11, <1>16, <1>17, <1>18, <1>19, <1>20,
             GoodIsIInv DEF Good

(* A send fails, of a writer or of the responder. *)
LEMMA SendErrorStep ==
    ASSUME IInv, NEW e \in End, NEW t \in Thread, SendError(e, t), UNCHANGED plan
    PROVE  IInv'
  <1>1. t = "resp" \/ t \in Writer
    BY DEF Thread
  <1> QED BY <1>1, ReplyErrorStep, RequestErrorStep

(* A step of one thread after its send, or of the responder before it: it  *)
(* neither touches the connection nor the books.                           *)
LEMMA OffWireStep ==
    ASSUME IInv, TypeInv', NEW e \in End,
           pc'[Peer(e)] = pc[Peer(e)],
           \A t \in Thread : pc'[e][t] = "body" <=> pc[e][t] = "body",
           reply' = reply \/ pc[e]["resp"] # "body", reply'[Peer(e)] = reply[Peer(e)],
           Sending(e)' <=> Sending(e), GivenUp(e) => GivenUp(e)',
           UNCHANGED <<seq, recvSeq, rd, held, net, rx, done, open, sent, delivered, cause>>
    PROVE  LET p == Peer(e) IN
           /\ Threads(p)' /\ Lifecycle(e)' /\ Lifecycle(p)'
           /\ Numbers(e)' /\ Balance(e)' /\ InOrder(e)' /\ Untouched(e)'
           /\ Numbers(p)' /\ Balance(p)' /\ InOrder(p)' /\ Untouched(p)'
           /\ UNCHANGED <<InRequest(e), InRequest(p), InReply(e), InReply(p), Acking(e), Acking(p),
                          Replying(p), Awaiting(p), GivenUp(p)>>
  <1> DEFINE p == Peer(e)
  <1>1. TypeInv /\ Good(e) /\ Good(p) /\ p \in End /\ Peer(p) = e /\ p # e
    BY GoodIsIInv, EndFacts
  <1>2. Threads(p)'
    BY <1>1 DEF Threads, Good
  <1>3. Lifecycle(e)' /\ Lifecycle(p)'
    BY <1>1 DEF Lifecycle, Good
  <1>4. Numbers(e)' /\ Balance(e)' /\ InOrder(e)'
    BY <1>1, BooksFrame
  <1>5. Numbers(p)' /\ Balance(p)' /\ InOrder(p)'
    <2>1. (Sending(p)' <=> Sending(p)) /\ (GivenUp(p) => GivenUp(p)')
      BY DEF Sending, GivenUp
    <2> QED BY <1>1, <2>1, BooksFrame
  <1>6. Untouched(e)'
    <2>1. \A t \in Thread : pc[e][t] = "body" => Due(e, t)' = Due(e, t)
      BY DEF Due, Response, Request
    <2> QED BY <1>1, <2>1, UntouchedFrame DEF Good, Running
  <1>7. Untouched(p)'
    <2>1. \A t \in Thread : Due(p, t)' = Due(p, t)
      BY DEF Due, Response, Request
    <2> QED BY <1>1, <2>1, UntouchedFrame DEF Good, Running
  <1>8. UNCHANGED <<InRequest(e), InRequest(p), InReply(e), InReply(p), Acking(e), Acking(p),
                    Replying(p), Awaiting(p), GivenUp(p)>>
    BY DEF InRequest, InReply, RequestAt, ReplyAt, Acking, Replying, Awaiting, GivenUp
  <1> QED BY <1>2, <1>3, <1>4, <1>5, <1>6, <1>7, <1>8

(* WritePacket has its answer: it was the only one. *)
LEMMA ReceiveAckStep ==
    ASSUME IInv, NEW e \in End, NEW w \in Writer, ReceiveAck(e, w), UNCHANGED plan
    PROVE  IInv'
  <1> DEFINE p == Peer(e)
  <1>1. TypeInv /\ Good(e) /\ Good(p) /\ p \in End /\ Peer(p) = e /\ p # e
    BY GoodIsIInv, EndFacts
  <1>2. w \in Thread /\ w # "resp" /\ "resp" \in Thread /\ Writer \subseteq Thread
    BY SipAssumption DEF Thread
  <1>3. /\ TypeInv'
        /\ ack[e] # <<>> /\ ack'[e] = Tail(ack[e]) /\ ack'[p] = ack[p]
        /\ pc'[e][w] \in {"idle", "failed"}
        /\ \A s \in Thread \ {w} : pc'[e][s] = pc[e][s]
        /\ pc'[p] = pc[p]
        /\ UNCHANGED <<seq, reply, recvSeq, rd, held, net, responses, rx, done, open, eof, sent,
                       delivered, cause>>
    BY <1>1, ReceiveAckEffect
  <1>4. pc[e][w] = "await" /\ \A v \in Writer \ {w} : pc[e][v] \in {"idle", "failed"}
    BY <1>1 DEF ReceiveAck, Threads, Good
  <1>5. Threads(e)'
    BY <1>1, <1>2, <1>3, <1>4 DEF Threads, Good
  <1>6. /\ Sending(e)' <=> Sending(e)
        /\ GivenUp(e) => GivenUp(e)'
        /\ \A t \in Thread : pc'[e][t] = "body" <=> pc[e][t] = "body"
    BY <1>2, <1>3, <1>4 DEF Sending, GivenUp
  <1>7. /\ Threads(p)' /\ Lifecycle(e)' /\ Lifecycle(p)'
        /\ Numbers(e)' /\ Balance(e)' /\ InOrder(e)' /\ Untouched(e)'
        /\ Numbers(p)' /\ Balance(p)' /\ InOrder(p)' /\ Untouched(p)'
        /\ UNCHANGED <<InRequest(e), InRequest(p), InReply(e), InReply(p), Acking(e), Acking(p),
                       Replying(p), Awaiting(p), GivenUp(p)>>
    BY <1>3, <1>6, OffWireStep
  <1>8. ack'[e] = <<>>
    <2>1. ack[e] \in Seq(Nat) /\ ack'[e] \in Seq(Nat) /\ Len(ack[e]) <= 1
      BY <1>1, <1>3 DEF TypeInv, Single, Good
    <2>2. Len(ack'[e]) = Len(ack[e]) - 1 /\ Len(ack[e]) \in Nat /\ Len(ack[e]) > 0
      BY <1>3, <2>1, TailFacts
    <2>3. Len(ack'[e]) = 0
      <3>1. \A m \in Nat : m <= 1 /\ m > 0 => m - 1 = 0
        OBVIOUS
      <3> QED BY <2>1, <2>2, <3>1
    <2> QED BY <2>1, <2>3, EmptySeq
  <1>9. Single(e)' /\ Single(p)'
    <2>1. Len(ack'[e]) <= 1
      BY <1>8
    <2>2. Single(e)'
      BY <1>1, <1>3, <2>1 DEF Single, RequestAt, ReplyAt, Good
    <2>3. Single(p)'
      BY <1>1, <1>3 DEF Single, RequestAt, ReplyAt, Good
    <2> QED BY <2>2, <2>3
  <1>10. /\ Acked(e) /\ ~Acked(e)'
         /\ UNCHANGED <<Acked(p), Queued(e), Queued(p), Replying(e)>>
    BY <1>2, <1>3, <1>8 DEF Acked, Queued, Replying
  <1>11. ~InRequest(e) /\ ~Queued(p) /\ ~Replying(p) /\ ~InReply(p) /\ ~Acking(e)
    BY <1>1, <1>10 DEF OneToken, Good
  <1>12. OneToken(e)' /\ OneToken(p)'
    BY <1>1, <1>7, <1>10, <1>11 DEF OneToken, Good
  <1>13. Owed(e)' /\ Owed(p)'
    BY <1>1, <1>7, <1>10, <1>11 DEF Owed, Token, Good
  <1> QED BY <1>1, <1>3, <1>5, <1>7, <1>9, <1>12, <1>13, GoodIsIInv DEF Good

(* WritePacket returns without an answer, at an end that is closed. *)
LEMMA AwaitEndsStep ==
    ASSUME IInv, NEW e \in End, NEW w \in Writer, AwaitEnds(e, w), UNCHANGED plan
    PROVE  IInv'
  <1> DEFINE p == Peer(e)
  <1>1. TypeInv /\ Good(e) /\ Good(p) /\ p \in End /\ Peer(p) = e /\ p # e
    BY GoodIsIInv, EndFacts
  <1>2. w \in Thread /\ w # "resp" /\ "resp" \in Thread /\ Writer \subseteq Thread
    BY SipAssumption DEF Thread
  <1>3. /\ TypeInv'
        /\ \/ done[e] /\ UNCHANGED <<done, open, cause>>
           \/ /\ done'[e] /\ ~open'[e] /\ cause'
              /\ done'[p] = done[p] /\ open'[p] = open[p]
        /\ pc'[e][w] = "failed" /\ \A s \in Thread \ {w} : pc'[e][s] = pc[e][s]
        /\ pc'[p] = pc[p]
        /\ UNCHANGED <<seq, reply, recvSeq, rd, held, net, ack, responses, rx, eof, sent, delivered>>
    BY <1>1, AwaitEndsEffect
  <1>4. pc[e][w] = "await" /\ \A v \in Writer \ {w} : pc[e][v] \in {"idle", "failed"}
    BY <1>1 DEF AwaitEnds, Threads, Good
  <1>5. Threads(e)' /\ Threads(p)'
    <2>1. Threads(e)'
      BY <1>1, <1>2, <1>3, <1>4 DEF Threads, Good
    <2>2. Threads(p)'
      BY <1>1, <1>3 DEF Threads, Good
    <2> QED BY <2>1, <2>2
  <1>6. /\ done'[e] /\ ~open'[e] /\ done'[p] = done[p] /\ open'[p] = open[p]
        /\ cause'
    <2>1. CASE done[e] /\ UNCHANGED <<done, open, cause>>
      <3>1. ~open[e] /\ cause
        BY <1>1, <2>1 DEF Lifecycle, Untouched, Good
      <3> QED BY <2>1, <3>1
    <2>2. CASE /\ done'[e] /\ ~open'[e] /\ cause'
               /\ done'[p] = done[p] /\ open'[p] = open[p]
      BY <2>2
    <2> QED BY <1>3, <2>1, <2>2
  <1>7. Lifecycle(e)' /\ Lifecycle(p)'
    BY <1>1, <1>3, <1>6 DEF Lifecycle, Good
  <1>8. Single(e)' /\ Single(p)'
    BY <1>1, <1>3 DEF Single, RequestAt, ReplyAt, Good
  <1>9. UNCHANGED <<InRequest(e), InRequest(p), InReply(e), InReply(p), Queued(e), Queued(p),
                    Acking(e), Acking(p), Acked(e), Acked(p), Replying(e), Replying(p)>>
    BY <1>2, <1>3 DEF InRequest, InReply, RequestAt, ReplyAt, Queued, Acking, Acked, Replying
  <1>10. /\ Sending(e)' <=> Sending(e)
         /\ GivenUp(e)'
         /\ UNCHANGED <<Awaiting(p), Sending(p), GivenUp(p)>>
    BY <1>2, <1>3, <1>4, <1>6 DEF Awaiting, Sending, GivenUp
  <1>11. OneToken(e)' /\ OneToken(p)'
    BY <1>1, <1>9 DEF OneToken, Good
  <1>12. Owed(e)' /\ Owed(p)'
    BY <1>1, <1>9, <1>10 DEF Owed, Token, Good
  <1>13. Numbers(e)' /\ Balance(e)' /\ InOrder(e)'
    BY <1>1, <1>3, <1>10, BooksFrame
  <1>14. Numbers(p)' /\ Balance(p)' /\ InOrder(p)'
    BY <1>1, <1>3, <1>10, BooksFrame
  <1>15. Untouched(e)' /\ Untouched(p)'
    BY <1>6, TouchedStep
  <1> QED BY <1>1, <1>3, <1>5, <1>7, <1>8, <1>11, <1>12, <1>13, <1>14, <1>15, GoodIsIInv DEF Good

(* The responder takes the one request that is queued. *)
LEMMA TakeResponseStep ==
    ASSUME IInv, NEW e \in End, TakeResponse(e), UNCHANGED plan
    PROVE  IInv'
  <1> DEFINE p == Peer(e)
  <1>1. TypeInv /\ Good(e) /\ Good(p) /\ p \in End /\ Peer(p) = e /\ p # e
    BY GoodIsIInv, EndFacts
  <1>2. "resp" \in Thread /\ Writer \subseteq Thread /\ "resp" \notin Writer
        /\ Thread = Writer \cup {"resp"}
    BY SipAssumption DEF Thread
  <1>3. /\ TypeInv'
        /\ responses[e] # <<>> /\ responses'[e] = Tail(responses[e])
        /\ responses'[p] = responses[p]
        /\ reply'[p] = reply[p]
        /\ pc'[e]["resp"] = "lock" /\ \A s \in Writer : pc'[e][s] = pc[e][s]
        /\ pc'[p] = pc[p]
        /\ UNCHANGED <<seq, recvSeq, rd, held, net, ack, rx, done, open, eof, sent, delivered, cause>>
    BY <1>1, TakeResponseEffect
  <1>4. pc[e]["resp"] = "idle"
    BY DEF TakeResponse
  <1>5. Threads(e)'
    BY <1>1, <1>2, <1>3, <1>4 DEF Threads, Good
  <1>6. /\ Sending(e)' <=> Sending(e)
        /\ Awaiting(e)' <=> Awaiting(e)
        /\ GivenUp(e)' <=> GivenUp(e)
        /\ \A t \in Thread : pc'[e][t] = "body" <=> pc[e][t] = "body"
    BY <1>2, <1>3, <1>4 DEF Sending, Awaiting, GivenUp
  <1>7. /\ Threads(p)' /\ Lifecycle(e)' /\ Lifecycle(p)'
        /\ Numbers(e)' /\ Balance(e)' /\ InOrder(e)' /\ Untouched(e)'
        /\ Numbers(p)' /\ Balance(p)' /\ InOrder(p)' /\ Untouched(p)'
        /\ UNCHANGED <<InRequest(e), InRequest(p), InReply(e), InReply(p), Acking(e), Acking(p),
                       Replying(p), Awaiting(p), GivenUp(p)>>
    BY <1>3, <1>4, <1>6, OffWireStep
  <1>8. responses'[e] = <<>>
    <2>1. responses[e] \in Seq(Nat) /\ responses'[e] \in Seq(Nat) /\ Len(responses[e]) <= 1
      BY <1>1, <1>3 DEF TypeInv, Single, Good
    <2>2. Len(responses'[e]) = Len(responses[e]) - 1 /\ Len(responses[e]) \in Nat /\ Len(responses[e]) > 0
      BY <1>3, <2>1, TailFacts
    <2>3. Len(responses'[e]) = 0
      <3>1. \A m \in Nat : m <= 1 /\ m > 0 => m - 1 = 0
        OBVIOUS
      <3> QED BY <2>1, <2>2, <3>1
    <2> QED BY <2>1, <2>3, EmptySeq
  <1>9. Single(e)' /\ Single(p)'
    <2>1. Len(responses'[e]) <= 1
      BY <1>8
    <2>2. Single(e)'
      BY <1>1, <1>3, <2>1 DEF Single, RequestAt, ReplyAt, Good
    <2>3. Single(p)'
      BY <1>1, <1>3 DEF Single, RequestAt, ReplyAt, Good
    <2> QED BY <2>2, <2>3
  <1>10. /\ Queued(e) /\ ~Queued(e)' /\ Replying(e)'
         /\ UNCHANGED <<Queued(p), Acked(e), Acked(p)>>
    BY <1>3, <1>8 DEF Acked, Queued, Replying
  <1>11. ~InRequest(p) /\ ~Replying(e) /\ ~InReply(e) /\ ~Acking(p) /\ ~Acked(p)
    BY <1>1, <1>10 DEF OneToken, Good
  <1>12. OneToken(e)' /\ OneToken(p)'
    BY <1>1, <1>7, <1>10, <1>11 DEF OneToken, Good
  <1>13. Owed(e)' /\ Owed(p)'
    BY <1>1, <1>6, <1>7, <1>10, <1>11 DEF Owed, Token, Good
  <1> QED BY <1>1, <1>3, <1>5, <1>7, <1>9, <1>12, <1>13, GoodIsIInv DEF Good

-----------------------------------------------------------------------------
(* readLoop takes the front piece of the other direction.  As long as      *)
(* nothing has befallen the session, it meets heads and bodies in turn.    *)
LEMMA ReadUntouched ==
    ASSUME TypeInv, NEW e \in End, Untouched(Peer(e)),
           net[Peer(e)] # <<>>, net'[Peer(e)] = Tail(net[Peer(e)]),
           \/ /\ rd[e] = "first" /\ net[Peer(e)][1].part = "head"
              /\ rd'[e] = "rest" /\ held'[e] = net[Peer(e)][1].msg
           \/ rd[e] = "rest" /\ rd'[e] # "rest",
           UNCHANGED <<seq, reply, sent, pc, cause, open[Peer(e)], done[Peer(e)], rd[Peer(e)]>>
    PROVE  Untouched(Peer(e))'
  <1> DEFINE p == Peer(e)
             n == Len(net[p])
  <1>1. p \in End /\ Peer(p) = e
    BY EndFacts
  <1>2. \A t \in Thread : Due(p, t)' = Due(p, t)
    BY DEF Due, Response, Request
  <1>3. /\ n \in Nat /\ n > 0 /\ Len(net'[p]) = n - 1
        /\ \A i \in 1 .. n - 1 : net'[p][i] = net[p][i + 1]
    BY <1>1, Shrunk
  <1>4. CASE cause
    BY <1>4 DEF Untouched
  <1>5. CASE ~cause
    <2>1. /\ open[p]' /\ ~done[p]' /\ Running(p)'
          /\ Paired(p) /\ FrontPiece(p) /\ BackPiece(p)
      BY <1>5 DEF Untouched, Running
    <2>2. Paired(p)'
      <3>1. \A i \in 1 .. n - 1 - 1 : /\ i \in 1 .. n - 1 /\ i + 1 \in 1 .. n - 1
                                      /\ net'[p][i] = net[p][i + 1] /\ net'[p][i + 1] = net[p][i + 1 + 1]
        BY <1>3
      <3>2. \A i \in 1 .. Len(net'[p]) - 1 : i \in 1 .. n - 1 - 1
        BY <1>3
      <3> QED BY <2>1, <3>1, <3>2 DEF Paired
    <2>3. FrontPiece(p)'
      <3> SUFFICES ASSUME Len(net'[p]) > 0
                   PROVE  IF rd'[e] = "rest" THEN net'[p][1] = BodyOf(held'[e])
                                             ELSE net'[p][1].part = "head"
        BY <1>1 DEF FrontPiece
      <3>1. 1 \in 1 .. n - 1 /\ 1 + 1 = 2
        BY <1>3
      <3>2. /\ net'[p][1] = net[p][2]
            /\ IF net[p][1].part = "head" THEN net[p][2] = BodyOf(net[p][1].msg)
                                          ELSE net[p][2].part = "head"
        BY <1>3, <2>1, <3>1 DEF Paired
      <3>3. CASE rd[e] = "first" /\ net[p][1].part = "head" /\ rd'[e] = "rest" /\ held'[e] = net[p][1].msg
        BY <3>2, <3>3
      <3>4. CASE rd[e] = "rest" /\ rd'[e] # "rest"
        <4>1. net[p][1].part = "body"
          BY <1>1, <1>3, <2>1, <3>4 DEF FrontPiece, BodyOf
        <4> QED BY <3>2, <3>4, <4>1
      <3> QED BY <3>3, <3>4
    <2>4. BackPiece(p)'
      <3>1. CASE n - 1 > 0
        <4>1. n - 1 \in 1 .. n - 1 /\ n - 1 + 1 = n
          BY <1>3, <3>1
        <4>2. net'[p][Len(net'[p])] = net[p][n]
          BY <1>3, <4>1
        <4> QED BY <1>2, <1>3, <2>1, <3>1, <4>2 DEF BackPiece
      <3>2. CASE n = 1
        <4>1. Len(net'[p]) = 0
          <5>1. 1 - 1 = 0
            OBVIOUS
          <5> QED BY <1>3, <3>2, <5>1, Zenon
        <4>2. ~(Len(net'[p]) > 0)
          <5>1. ~(0 > 0)
            OBVIOUS
          <5> QED BY <4>1, <5>1, Zenon
        <4>3. Len(net[p]) > 0 /\ net[p][Len(net[p])] = net[p][1]
          BY <1>3, <3>2
        <4>4. CASE rd[e] = "first" /\ net[p][1].part = "head" /\ rd'[e] = "rest" /\ held'[e] = net[p][1].msg
          <5>1. ASSUME NEW t \in Thread, pc[p][t] = "body"
                PROVE  held'[e] = Due(p, t)
            <6>1. net[p][1] = HeadOf(Due(p, t))
              BY <2>1, <4>3, <5>1 DEF BackPiece
            <6> QED BY <4>4, <6>1 DEF HeadOf
          <5>2. ~(\A t \in Thread : pc[p][t] # "body")
            BY <2>1, <4>3, <4>4 DEF BackPiece
          <5> QED BY <1>1, <1>2, <4>2, <4>4, <5>1, <5>2 DEF BackPiece
        <4>5. CASE rd[e] = "rest" /\ rd'[e] # "rest"
          <5>1. net[p][1].part = "body"
            BY <1>1, <1>3, <2>1, <4>5 DEF FrontPiece, BodyOf
          <5>2. \A t \in Thread : pc[p][t] # "body"
            <6>1. \A m : HeadOf(m).part # "body"
              BY DEF HeadOf
            <6> QED BY <2>1, <4>3, <5>1, <6>1 DEF BackPiece
          <5>3. \A t \in Thread : pc'[p][t] # "body"
            BY <5>2
          <5>4. rd'[Peer(p)] # "rest"
            BY <1>1, <4>5
          <5> QED BY <4>2, <5>3, <5>4 DEF BackPiece
        <4> QED BY <4>4, <4>5
      <3>3. n - 1 > 0 \/ n = 1
        <4>1. \A m \in Nat : m > 0 => m - 1 > 0 \/ m = 1
          OBVIOUS
        <4> QED BY <1>3, <4>1
      <3> QED BY <3>1, <3>2, <3>3
    <2> QED BY <2>1, <2>2, <2>3, <2>4 DEF Untouched
  <1> QED BY <1>4, <1>5

(* The books of the direction readLoop reads, when it accepts nothing.     *)
LEMMA ReadBooks ==
    ASSUME TypeInv, NEW e \in End, Good(Peer(e)),
           net[Peer(e)] # <<>>, net'[Peer(e)] = Tail(net[Peer(e)]),
           rd[e] # "rx", rd'[e] # "rx",
           Running(e)' => Running(e) /\ ~RequestAt(Peer(e), 1),
           UNCHANGED <<seq, pc, sent, rx, delivered, recvSeq[e], open[Peer(e)]>>
    PROVE  Numbers(Peer(e))' /\ Balance(Peer(e))' /\ InOrder(Peer(e))'
  <1> DEFINE p == Peer(e)
  <1>1. p \in End /\ Peer(p) = e /\ Numbers(p) /\ Balance(p) /\ InOrder(p) /\ Single(p)
    BY EndFacts DEF Good
  <1>2. /\ \A i \in 1 .. Len(net'[p]) : i + 1 \in 1 .. Len(net[p]) /\ net'[p][i] = net[p][i + 1]
        /\ \A i \in 1 .. Len(net'[p]) : RequestAt(p, i)' <=> RequestAt(p, i + 1)
        /\ InRequest(p)' <=> (InRequest(p) /\ ~RequestAt(p, 1))
    BY <1>1, Shrunk, ShrunkTokens
  <1>3. UNCHANGED <<Busy(p), Accepted(e), GivenUp(p)>>
    BY DEF Busy, Sending, Accepted, GivenUp
  <1>4. Numbers(p)'
    BY <1>1, <1>2, <1>3 DEF Numbers
  <1>5. Balance(p)'
    <2>1. CASE Running(e)'
      <3>1. OnWire(p)' = OnWire(p)
        BY <1>1, <1>2, <2>1 DEF OnWire
      <3> QED BY <1>1, <1>3, <2>1, <3>1 DEF Balance
    <2>2. CASE ~Running(e)'
      <3>1. OnWire(p)' = 0
        BY <1>1, <2>2 DEF OnWire
      <3>2. /\ Accepted(e) \in Nat /\ Len(sent[p]) \in Nat
            /\ Busy(p) \in {0, 1} /\ OnWire(p) \in {0, 1}
            /\ Accepted(e) + Busy(p) + OnWire(p) <= Len(sent[p])
        BY <1>1, Counts DEF Balance
      <3>3. Accepted(e) + Busy(p) + 0 <= Len(sent[p])
        BY <3>2
      <3> QED BY <1>1, <1>3, <2>2, <3>1, <3>3 DEF Balance
    <2> QED BY <2>1, <2>2
  <1>6. InOrder(p)'
    BY <1>1, <1>2, <1>3 DEF InOrder
  <1> QED BY <1>4, <1>5, <1>6

(* What reading a piece leaves alone: the threads, and the direction in    *)
(* which its own end writes.                                               *)
LEMMA ReadFrame ==
    ASSUME IInv, NEW e \in End,
           net[Peer(e)] # <<>>, net'[Peer(e)] = Tail(net[Peer(e)]), net'[e] = net[e],
           recvSeq'[Peer(e)] = recvSeq[Peer(e)], responses'[Peer(e)] = responses[Peer(e)],
           rd'[Peer(e)] = rd[Peer(e)], held'[Peer(e)] = held[Peer(e)],
           done'[Peer(e)] = done[Peer(e)], open'[Peer(e)] = open[Peer(e)],
           open'[e] = open[e] \/ ~open'[e],
           UNCHANGED <<seq, pc, reply, ack, rx, sent, delivered, cause>>
    PROVE  LET p == Peer(e) IN
           /\ Threads(e)' /\ Threads(p)' /\ Lifecycle(p)' /\ Single(p)'
           /\ (Len(responses'[e]) <= 1 => Single(e)')
           /\ Numbers(e)' /\ Balance(e)' /\ InOrder(e)'
           /\ GivenUp(e) => GivenUp(e)'
           /\ UNCHANGED <<InRequest(e), InReply(e), Queued(p), Replying(e), Replying(p), Acking(p),
                          Acked(e), Acked(p), Awaiting(e), Awaiting(p), GivenUp(p)>>
  <1> DEFINE p == Peer(e)
  <1>1. TypeInv /\ Good(e) /\ Good(p) /\ p \in End /\ Peer(p) = e /\ p # e
    BY GoodIsIInv, EndFacts
  <1>2. Threads(e)' /\ Threads(p)'
    BY <1>1 DEF Threads, Good
  <1>3. Lifecycle(p)'
    BY <1>1 DEF Lifecycle, Good
  <1>4. Single(p)'
    <2>1. /\ \A i \in 1 .. Len(net'[p]) : i + 1 \in 1 .. Len(net[p])
          /\ \A i \in 1 .. Len(net'[p]) : /\ RequestAt(p, i)' <=> RequestAt(p, i + 1)
                                          /\ ReplyAt(p, i)' <=> ReplyAt(p, i + 1)
      BY <1>1, Shrunk, ShrunkTokens DEF Good
    <2>2. \A m : \A i, j \in 1 .. m : i + 1 = j + 1 => i = j
      OBVIOUS
    <2>3. \A i, j \in 1 .. Len(net'[p]) : RequestAt(p, i)' /\ RequestAt(p, j)' => i = j
      <3>1. ASSUME NEW i \in 1 .. Len(net'[p]), NEW j \in 1 .. Len(net'[p]),
                   RequestAt(p, i)', RequestAt(p, j)'
            PROVE  i + 1 = j + 1
        BY <1>1, <2>1, <3>1 DEF Single, Good
      <3> QED BY <2>2, <3>1
    <2>4. \A i, j \in 1 .. Len(net'[p]) : ReplyAt(p, i)' /\ ReplyAt(p, j)' => i = j
      <3>1. ASSUME NEW i \in 1 .. Len(net'[p]), NEW j \in 1 .. Len(net'[p]),
                   ReplyAt(p, i)', ReplyAt(p, j)'
            PROVE  i + 1 = j + 1
        BY <1>1, <2>1, <3>1 DEF Single, Good
      <3> QED BY <2>2, <3>1
    <2> QED BY <1>1, <2>3, <2>4 DEF Single, Good
  <1>5. Len(responses'[e]) <= 1 => Single(e)'
    BY <1>1 DEF Single, RequestAt, ReplyAt, Good
  <1>6. GivenUp(e) => GivenUp(e)'
    BY DEF GivenUp
  <1>7. Numbers(e)' /\ Balance(e)' /\ InOrder(e)'
    <2>1. Sending(e)' <=> Sending(e)
      BY DEF Sending
    <2> QED BY <1>1, <1>6, <2>1, BooksFrame
  <1>8. UNCHANGED <<InRequest(e), InReply(e), Queued(p), Replying(e), Replying(p), Acking(p),
                    Acked(e), Acked(p), Awaiting(e), Awaiting(p), GivenUp(p)>>
    BY DEF InRequest, InReply, RequestAt, ReplyAt, Queued, Replying, Acking, Acked, Awaiting, GivenUp
  <1> QED BY <1>2, <1>3, <1>4, <1>5, <1>6, <1>7, <1>8

(* readLoop meets a head, unless something has befallen the session. *)
LEMMA ReadHeadStep ==
    ASSUME IInv, NEW e \in End, ReadHead(e), UNCHANGED plan
    PROVE  IInv'
  <1> DEFINE p == Peer(e)
  <1>1. TypeInv /\ Good(e) /\ Good(p) /\ p \in End /\ Peer(p) = e /\ p # e
    BY GoodIsIInv, EndFacts
  <1>2. /\ TypeInv'
        /\ rd[e] = "first" /\ open[e]
        /\ net[p] # <<>> /\ net'[p] = Tail(net[p]) /\ net'[e] = net[e]
        /\ \/ /\ Head(net[p]).part = "head"
              /\ held'[e] = Head(net[p]).msg /\ rd'[e] = "rest"
              /\ UNCHANGED <<done, open>>
           \/ /\ Head(net[p]).part # "head"
              /\ rd'[e] = "stopped" /\ done'[e] /\ ~open'[e]
              /\ UNCHANGED held
        /\ rd'[p] = rd[p] /\ held'[p] = held[p] /\ done'[p] = done[p] /\ open'[p] = open[p]
        /\ UNCHANGED <<seq, pc, reply, recvSeq, ack, responses, rx, eof, sent, delivered, cause>>
    BY <1>1, ReadHeadEffect
  <1>3. /\ Threads(e)' /\ Threads(p)' /\ Lifecycle(p)' /\ Single(p)'
        /\ (Len(responses'[e]) <= 1 => Single(e)')
        /\ Numbers(e)' /\ Balance(e)' /\ InOrder(e)'
        /\ GivenUp(e) => GivenUp(e)'
        /\ UNCHANGED <<InRequest(e), InReply(e), Queued(p), Replying(e), Replying(p), Acking(p),
                       Acked(e), Acked(p), Awaiting(e), Awaiting(p), GivenUp(p)>>
    BY <1>2, ReadFrame
  <1>4. Single(e)'
    BY <1>1, <1>2, <1>3 DEF Single, Good
  <1>5. Lifecycle(e)'
    BY <1>1, <1>2 DEF Lifecycle, Good
  <1>6. Head(net[p]) = net[p][1] /\ Len(net[p]) > 0
    BY <1>1, <1>2, Shrunk
  <1>7. /\ InRequest(p)' => InRequest(p)
        /\ InReply(p)' => InReply(p)
        /\ ~Acking(e) /\ ~Acking(e)' /\ UNCHANGED Queued(e)
    BY <1>1, <1>2, ShrunkTokens DEF Acking, Queued, Good
  <1>8. OneToken(e)' /\ OneToken(p)'
    BY <1>1, <1>3, <1>7 DEF OneToken, Good
  <1>9. Owed(e)' /\ Owed(p)'
    BY <1>1, <1>3, <1>7 DEF Owed, Token, Good
  <1>10. Running(e)' => Running(e) /\ ~RequestAt(p, 1)
    BY <1>2, <1>6 DEF Running, RequestAt
  <1>11. Numbers(p)' /\ Balance(p)' /\ InOrder(p)'
    <2>1. rd[e] # "rx" /\ rd'[e] # "rx"
      BY <1>2
    <2> QED BY <1>1, <1>2, <1>10, <2>1, ReadBooks
  <1>12. Untouched(e)' /\ Untouched(p)'
    <2>1. CASE Head(net[p]).part = "head"
      <3>1. held'[e] = net[p][1].msg /\ rd'[e] = "rest" /\ UNCHANGED <<done, open>>
        BY <1>2, <1>6, <2>1
      <3>2. Untouched(p)'
        BY <1>1, <1>2, <1>6, <2>1, <3>1, ReadUntouched DEF Good
      <3>3. Untouched(e)'
        <4>1. \A t \in Thread : Due(e, t)' = Due(e, t)
          BY <1>2 DEF Due, Response, Request
        <4>2. UNCHANGED Running(e)
          BY <1>2, <3>1 DEF Running
        <4> QED BY <1>1, <1>2, <3>1, <4>1, <4>2, UntouchedFrame DEF Good
      <3> QED BY <3>2, <3>3
    <2>2. CASE Head(net[p]).part # "head"
      <3>1. cause
        BY <1>1, <1>2, <1>6, <2>2 DEF Untouched, FrontPiece, Good
      <3> QED BY <1>2, <3>1, TouchedStep
    <2> QED BY <2>1, <2>2
  <1> QED BY <1>1, <1>2, <1>3, <1>4, <1>5, <1>8, <1>9, <1>11, <1>12, GoodIsIInv DEF Good

(* readLoop reads a 200 OK: the token passes from the wire to its hands.   *)
LEMMA ReadReplyStep ==
    ASSUME IInv, NEW e \in End, ReadBody(e), UNCHANGED plan, rd'[e] = "ack"
    PROVE  IInv'
  <1> DEFINE p == Peer(e)
  <1>1. TypeInv /\ Good(e) /\ Good(p) /\ p \in End /\ Peer(p) = e /\ p # e
    BY GoodIsIInv, EndFacts
  <1>2. /\ TypeInv'
        /\ rd[e] = "rest" /\ open[e]
        /\ net[p] # <<>> /\ net'[p] = Tail(net[p]) /\ net'[e] = net[e]
        /\ Whole(e) /\ held[e].kind = "200 OK"
        /\ UNCHANGED <<responses, done, open>>
        /\ recvSeq'[e] = recvSeq[e] /\ recvSeq'[p] = recvSeq[p]
        /\ rd'[p] = rd[p]
        /\ UNCHANGED <<seq, pc, reply, held, ack, rx, eof, sent, delivered, cause>>
    BY <1>1, ReadBodyEffect
  <1>3. /\ Threads(e)' /\ Threads(p)' /\ Lifecycle(p)' /\ Single(p)'
        /\ (Len(responses'[e]) <= 1 => Single(e)')
        /\ Numbers(e)' /\ Balance(e)' /\ InOrder(e)'
        /\ GivenUp(e) => GivenUp(e)'
        /\ UNCHANGED <<InRequest(e), InReply(e), Queued(p), Replying(e), Replying(p), Acking(p),
                       Acked(e), Acked(p), Awaiting(e), Awaiting(p), GivenUp(p)>>
    BY <1>2, ReadFrame
  <1>4. Single(e)'
    BY <1>1, <1>2, <1>3 DEF Single, Good
  <1>5. Lifecycle(e)'
    BY <1>1, <1>2 DEF Lifecycle, Good
  <1>6. ReplyAt(p, 1) /\ ~RequestAt(p, 1)
    <2>1. Head(net[p]) = net[p][1]
      BY <1>1, <1>2, Shrunk
    <2>2. net[p][1] = [part |-> "body", msg |-> held[e]]
      BY <1>2, <2>1 DEF Whole
    <2>3. net[p][1].part = "body" /\ net[p][1].msg = held[e]
      BY <2>2
    <2> QED BY <1>2, <2>3 DEF ReplyAt, RequestAt
  <1>7. /\ InReply(p) /\ ~InReply(p)'
        /\ InRequest(p)' <=> InRequest(p)
        /\ ~Acking(e) /\ Acking(e)' /\ UNCHANGED Queued(e)
    BY <1>1, <1>2, <1>6, ShrunkTokens DEF Acking, Queued, Good
  <1>8. ~InRequest(e) /\ ~Queued(p) /\ ~Replying(p) /\ ~Acked(e)
    BY <1>1, <1>7 DEF OneToken, Good
  <1>9. OneToken(e)' /\ OneToken(p)'
    BY <1>1, <1>3, <1>7, <1>8 DEF OneToken, Good
  <1>10. Owed(e)' /\ Owed(p)'
    BY <1>1, <1>3, <1>7 DEF Owed, Token, Good
  <1>11. Numbers(p)' /\ Balance(p)' /\ InOrder(p)'
    <2>1. /\ rd[e] # "rx" /\ rd'[e] # "rx"
          /\ Running(e)' => Running(e) /\ ~RequestAt(p, 1)
      BY <1>2, <1>6 DEF Running
    <2> QED BY <1>1, <1>2, <2>1, ReadBooks
  <1>12. Untouched(e)' /\ Untouched(p)'
    <2>1. Untouched(p)'
      <3>1. rd[e] = "rest" /\ rd'[e] # "rest"
        BY <1>2
      <3> QED BY <1>1, <1>2, <3>1, ReadUntouched DEF Good
    <2>2. Untouched(e)'
      <3>1. \A t \in Thread : Due(e, t)' = Due(e, t)
        BY <1>2 DEF Due, Response, Request
      <3>2. UNCHANGED Running(e)
        BY <1>2 DEF Running
      <3> QED BY <1>1, <1>2, <3>1, <3>2, UntouchedFrame DEF Good
    <2> QED BY <2>1, <2>2
  <1> QED BY <1>1, <1>2, <1>3, <1>4, <1>5, <1>9, <1>10, <1>11, <1>12, GoodIsIInv DEF Good

(* readLoop accepts a request: the token passes from the wire to the       *)
(* responder's queue, and the packet is the next of those sent.            *)
LEMMA ReadRequestStep ==
    ASSUME IInv, NEW e \in End, ReadBody(e), UNCHANGED plan, rd'[e] = "rx"
    PROVE  IInv'
  <1> DEFINE p == Peer(e)
  <1>1. TypeInv /\ Good(e) /\ Good(p) /\ p \in End /\ Peer(p) = e /\ p # e
    BY GoodIsIInv, EndFacts
  <1>2. /\ TypeInv'
        /\ rd[e] = "rest" /\ open[e]
        /\ net[p] # <<>> /\ net'[p] = Tail(net[p]) /\ net'[e] = net[e]
        /\ IsRequest(e)
        /\ responses'[e] = Append(responses[e], held[e].cseq) /\ responses'[p] = responses[p]
        /\ UNCHANGED <<done, open>>
        /\ recvSeq'[p] = recvSeq[p]
        /\ rd'[p] = rd[p]
        /\ UNCHANGED <<seq, pc, reply, held, ack, rx, eof, sent, delivered, cause>>
    BY <1>1, ReadBodyEffect
  <1>3. recvSeq'[e] = held[e].cseq
    BY <1>1, <1>2, ReadBodyEffect DEF IsRequest, Acceptable
  <1>4. /\ Threads(e)' /\ Threads(p)' /\ Lifecycle(p)' /\ Single(p)'
        /\ (Len(responses'[e]) <= 1 => Single(e)')
        /\ Numbers(e)' /\ Balance(e)' /\ InOrder(e)'
        /\ GivenUp(e) => GivenUp(e)'
        /\ UNCHANGED <<InRequest(e), InReply(e), Queued(p), Replying(e), Replying(p), Acking(p),
                       Acked(e), Acked(p), Awaiting(e), Awaiting(p), GivenUp(p)>>
    BY <1>2, ReadFrame
  <1>5. Lifecycle(e)'
    BY <1>1, <1>2 DEF Lifecycle, IsRequest, Good
  <1>6. RequestAt(p, 1) /\ ~ReplyAt(p, 1) /\ net[p][1].msg = held[e] /\ 1 \in 1 .. Len(net[p])
    <2>1. Head(net[p]) = net[p][1] /\ 1 \in 1 .. Len(net[p])
      BY <1>1, <1>2, Shrunk
    <2>2. net[p][1] = [part |-> "body", msg |-> held[e]]
      BY <1>2, <2>1 DEF IsRequest, Whole
    <2>3. net[p][1].part = "body" /\ net[p][1].msg = held[e] /\ held[e].kind = "MESSAGE"
      BY <1>2, <2>2 DEF IsRequest
    <2> QED BY <2>1, <2>3 DEF ReplyAt, RequestAt
  <1>7. /\ InRequest(p) /\ ~InRequest(p)'
        /\ InReply(p)' <=> InReply(p)
        /\ UNCHANGED Acking(e)
    BY <1>1, <1>2, <1>6, ShrunkTokens DEF Acking, Good
  <1>8. ~Queued(e) /\ ~Replying(e) /\ ~InReply(e) /\ ~Acking(p) /\ ~Acked(p)
    BY <1>1, <1>7 DEF OneToken, Good
  <1>9. Queued(e)' /\ Single(e)'
    <2>1. held[e].cseq \in Nat
      BY <1>1 DEF TypeInv, Message
    <2>2. responses'[e] # <<>> /\ Len(responses'[e]) = 1
      <3>1. responses'[e] = Append(<<>>, held[e].cseq)
        BY <1>2, <1>8 DEF Queued
      <3>2. <<>> \in Seq(Nat) /\ Len(<<>>) = 0 /\ 0 + 1 = 1
        OBVIOUS
      <3> QED BY <2>1, <3>1, <3>2, AppendProperties
    <2> QED BY <1>4, <2>2 DEF Queued
  <1>10. OneToken(e)' /\ OneToken(p)'
    BY <1>1, <1>4, <1>7, <1>8, <1>9 DEF OneToken, Good
  <1>11. Owed(e)' /\ Owed(p)'
    BY <1>1, <1>4, <1>7, <1>9 DEF Owed, Token, Good
  <1>12. UNCHANGED Busy(p) /\ OnWire(p) = 1 /\ OnWire(p)' = 0
    BY <1>1, <1>2, <1>7 DEF Busy, Sending, OnWire, Running
  <1>13. Accepted(e) \in Nat /\ Accepted(e)' = Accepted(e) + 1
    <2>1. /\ Len(delivered[e]) \in Nat /\ Len(rx[e]) \in Nat /\ Accepted(e) \in Nat
          /\ Accepted(e) = Len(delivered[e]) + Len(rx[e])
      BY <1>1, <1>2, Counts
    <2>2. Accepted(e)' = Len(delivered[e]) + Len(rx[e]) + 1
      BY <1>2 DEF Accepted
    <2> QED BY <2>1, <2>2
  <1>14. \A i \in 1 .. Len(net'[p]) : ~RequestAt(p, i)'
    BY <1>7 DEF InRequest
  <1>15. Numbers(p)'
    <2>1. held[e].cseq + Busy(p) <= seq[p]
      BY <1>1, <1>6 DEF Numbers, Good
    <2> QED BY <1>1, <1>2, <1>3, <1>12, <1>14, <2>1 DEF Numbers
  <1>16. Balance(p)'
    <2>1. /\ Len(sent[p]) \in Nat /\ Busy(p) \in {0, 1}
          /\ Accepted(e) + Busy(p) + 1 <= Len(sent[p])
          /\ Running(e) /\ ~GivenUp(p) => Accepted(e) + Busy(p) + 1 = Len(sent[p])
      BY <1>1, <1>12, Counts DEF Balance, Good
    <2>2. \A a \in Nat, b \in {0, 1} : a + 1 + b + 0 = a + b + 1
      OBVIOUS
    <2>3. Accepted(e) + 1 + Busy(p) + 0 = Accepted(e) + Busy(p) + 1
      BY <1>13, <2>1, <2>2
    <2>4. /\ Accepted(e)' + Busy(p)' + OnWire(p)' = Accepted(e) + Busy(p) + 1
          /\ Running(e) /\ UNCHANGED GivenUp(p) /\ UNCHANGED sent
      BY <1>2, <1>4, <1>12, <1>13, <2>3 DEF Running
    <2> QED BY <1>1, <2>1, <2>4 DEF Balance
  <1>17. InOrder(p)'
    <2>1. held[e].data = sent[p][Accepted(e) + 1]
      BY <1>1, <1>2, <1>6 DEF InOrder, Running, Good
    <2> QED BY <1>1, <1>2, <1>13, <1>14, <2>1 DEF InOrder, Good
  <1>18. Untouched(e)' /\ Untouched(p)'
    <2>1. Untouched(p)'
      <3>1. rd[e] = "rest" /\ rd'[e] # "rest"
        BY <1>2
      <3> QED BY <1>1, <1>2, <3>1, ReadUntouched DEF Good
    <2>2. Untouched(e)'
      <3>1. \A t \in Thread : Due(e, t)' = Due(e, t)
        BY <1>2 DEF Due, Response, Request
      <3>2. UNCHANGED Running(e)
        BY <1>2 DEF Running
      <3> QED BY <1>1, <1>2, <3>1, <3>2, UntouchedFrame DEF Good
    <2> QED BY <2>1, <2>2
  <1> QED BY <1>1, <1>2, <1>4, <1>5, <1>9, <1>10, <1>11, <1>15, <1>16, <1>17, <1>18, GoodIsIInv DEF Good

(* Nothing that an honest peer sends is refused: whatever readLoop meets   *)
(* in a session that nothing has befallen is a reply or a new request, and *)
(* the responder's queue has room for it.                                  *)
Refused(e) ==
    /\ IsRequest(e) => done[e] \/ Len(responses[e]) >= RespCap
    /\ ~(Whole(e) /\ held[e].kind = "200 OK")

(* So a refusal means that something has befallen the session. *)
LEMMA RefusalHasCause ==
    ASSUME IInv, NEW e \in End, rd[e] = "rest", net[Peer(e)] # <<>>, Refused(e)
    PROVE  cause
  <1> DEFINE p == Peer(e)
  <1>1. TypeInv /\ Good(e) /\ Good(p) /\ p \in End /\ Peer(p) = e /\ p # e
    BY GoodIsIInv, EndFacts
  <1>2. SUFFICES ASSUME ~cause PROVE FALSE
    OBVIOUS
  <1>3. /\ Len(net[p]) > 0 /\ 1 \in 1 .. Len(net[p]) /\ Head(net[p]) = net[p][1]
    <2>1. net[p] \in Seq(Piece)
      BY <1>1 DEF TypeInv
    <2>2. Len(net[p]) \in Nat /\ Len(net[p]) > 0 /\ Head(net[p]) = net[p][1]
      BY <2>1, TailFacts
    <2>3. \A n \in Nat : n > 0 => 1 \in 1 .. n
      OBVIOUS
    <2> QED BY <2>2, <2>3
  <1>4. Whole(e) /\ net[p][1].part = "body" /\ net[p][1].msg = held[e]
    <2>1. net[p][1] = [part |-> "body", msg |-> held[e]]
      BY <1>1, <1>2, <1>3 DEF Untouched, FrontPiece, BodyOf, Good
    <2>2. net[p][1].part = "body" /\ net[p][1].msg = held[e]
      BY <2>1
    <2> QED BY <1>3, <2>1, <2>2 DEF Whole
  <1>5. held[e].kind = "MESSAGE" /\ held[e].cseq \in Nat
    BY <1>1, <1>4 DEF Refused, TypeInv, Message
  <1>6. RequestAt(p, 1) /\ InRequest(p)
    BY <1>3, <1>4, <1>5 DEF RequestAt, InRequest
  <1>7. IsRequest(e)
    <2>1. recvSeq[e] \in Nat /\ recvSeq[e] < held[e].cseq /\ held[e].ad = held[e].cseq
      BY <1>1, <1>3, <1>4, <1>6 DEF Numbers, TypeInv, Good
    <2> QED BY <1>4, <1>5, <2>1 DEF IsRequest, Acceptable
  <1>8. ~done[e]
    BY <1>1, <1>2 DEF Untouched, Good
  <1>9. ~(Len(responses[e]) >= RespCap)
    <2>1. responses[e] = <<>>
      BY <1>1, <1>6 DEF OneToken, Queued, Good
    <2>2. Len(responses[e]) = 0
      BY <2>1
    <2>3. \A c \in Nat \ {0} : ~(0 >= c)
      OBVIOUS
    <2>4. RespCap \in Nat \ {0}
      BY SipAssumption
    <2> QED BY <2>2, <2>3, <2>4
  <1> QED BY <1>7, <1>8, <1>9, Zenon DEF Refused

(* readLoop refuses what it read, and closes the session. *)
LEMMA RefuseStep ==
    ASSUME IInv, NEW e \in End, ReadBody(e), UNCHANGED plan, rd'[e] = "stopped"
    PROVE  IInv'
  <1> DEFINE p == Peer(e)
             newer == Whole(e) /\ held[e].kind = "MESSAGE" /\ held[e].cseq > recvSeq[e]
  <1>1. TypeInv /\ Good(e) /\ Good(p) /\ p \in End /\ Peer(p) = e /\ p # e
    BY GoodIsIInv, EndFacts
  <1>2. /\ TypeInv'
        /\ rd[e] = "rest" /\ open[e]
        /\ net[p] # <<>> /\ net'[p] = Tail(net[p]) /\ net'[e] = net[e]
        /\ IsRequest(e) => done[e] \/ Len(responses[e]) >= RespCap
        /\ ~(Whole(e) /\ held[e].kind = "200 OK")
        /\ done'[e] /\ ~open'[e]
        /\ UNCHANGED responses
        /\ recvSeq'[e] = (IF newer THEN held[e].cseq ELSE recvSeq[e])
        /\ recvSeq'[p] = recvSeq[p]
        /\ rd'[p] = rd[p] /\ done'[p] = done[p] /\ open'[p] = open[p]
        /\ UNCHANGED <<seq, pc, reply, held, ack, rx, eof, sent, delivered, cause>>
    BY <1>1, ReadBodyEffect
  <1>3. /\ Threads(e)' /\ Threads(p)' /\ Lifecycle(p)' /\ Single(p)'
        /\ (Len(responses'[e]) <= 1 => Single(e)')
        /\ Numbers(e)' /\ Balance(e)' /\ InOrder(e)'
        /\ GivenUp(e) => GivenUp(e)'
        /\ UNCHANGED <<InRequest(e), InReply(e), Queued(p), Replying(e), Replying(p), Acking(p),
                       Acked(e), Acked(p), Awaiting(e), Awaiting(p), GivenUp(p)>>
    BY <1>2, ReadFrame
  <1>4. Single(e)'
    BY <1>1, <1>2, <1>3 DEF Single, Good
  <1>5. Lifecycle(e)'
    BY <1>2 DEF Lifecycle
  <1>6. /\ InRequest(p)' => InRequest(p)
        /\ InReply(p)' => InReply(p)
        /\ ~Acking(e) /\ ~Acking(e)' /\ UNCHANGED Queued(e)
    BY <1>1, <1>2, ShrunkTokens DEF Acking, Queued, Good
  <1>7. OneToken(e)' /\ OneToken(p)'
    BY <1>1, <1>3, <1>6 DEF OneToken, Good
  <1>8. Owed(e)' /\ Owed(p)'
    BY <1>1, <1>3, <1>6 DEF Owed, Token, Good
  <1>9. ~Running(e)'
    BY DEF Running
  <1>10. Numbers(p)' /\ Balance(p)' /\ InOrder(p)'
    <2>1. rd[e] # "rx" /\ rd'[e] # "rx"
      BY <1>2
    <2>2. CASE ~newer
      <3>1. recvSeq'[e] = recvSeq[e]
        BY <1>2, <2>2
      <3> QED BY <1>1, <1>2, <1>9, <2>1, <3>1, ReadBooks
    <2>3. CASE newer
      <3>1. RequestAt(p, 1) /\ net[p][1].msg = held[e] /\ 1 \in 1 .. Len(net[p])
        <4>1. Head(net[p]) = net[p][1] /\ 1 \in 1 .. Len(net[p])
          BY <1>1, <1>2, Shrunk
        <4> QED BY <2>3, <4>1 DEF Whole, RequestAt
      <3>2. \A i \in 1 .. Len(net'[p]) : ~RequestAt(p, i)'
        <4>1. ~InRequest(p)'
          BY <1>1, <1>2, <3>1, ShrunkTokens DEF Good
        <4> QED BY <4>1 DEF InRequest
      <3>3. UNCHANGED <<Busy(p), Accepted(e)>> /\ OnWire(p)' = 0
        <4>1. UNCHANGED Busy(p)
          BY <1>2 DEF Busy, Sending
        <4>2. UNCHANGED Accepted(e)
          BY <1>2, <2>1 DEF Accepted
        <4>3. OnWire(p)' = 0
          BY <1>1, <1>9 DEF OnWire
        <4> QED BY <4>1, <4>2, <4>3
      <3>4. Numbers(p)'
        <4>1. held[e].cseq + Busy(p) <= seq[p]
          BY <1>1, <3>1 DEF Numbers, Good
        <4> QED BY <1>1, <1>2, <2>3, <3>2, <3>3, <4>1 DEF Numbers
      <3>5. Balance(p)'
        <4>1. /\ Accepted(e) \in Nat /\ Len(sent[p]) \in Nat
              /\ Busy(p) \in {0, 1} /\ OnWire(p) \in {0, 1}
              /\ Accepted(e) + Busy(p) + OnWire(p) <= Len(sent[p])
          BY <1>1, Counts DEF Balance, Good
        <4>2. Accepted(e) + Busy(p) + 0 <= Len(sent[p])
          BY <4>1
        <4> QED BY <1>1, <1>2, <1>9, <3>3, <4>2 DEF Balance
      <3>6. InOrder(p)'
        BY <1>1, <1>2, <1>9, <2>1, <3>2, <3>3 DEF InOrder, Good
      <3> QED BY <3>4, <3>5, <3>6
    <2> QED BY <2>2, <2>3
  <1>11. Untouched(e)' /\ Untouched(p)'
    <2>1. cause
      BY <1>2, RefusalHasCause DEF Refused
    <2> QED BY <1>2, <2>1, TouchedStep
  <1> QED BY <1>1, <1>2, <1>3, <1>4, <1>5, <1>7, <1>8, <1>10, <1>11, GoodIsIInv DEF Good

(* readLoop has a whole message, or what is none. *)
LEMMA ReadBodyStep ==
    ASSUME IInv, NEW e \in End, ReadBody(e), UNCHANGED plan
    PROVE  IInv'
  <1>1. TypeInv
    BY DEF IInv
  <1>2. rd'[e] \in {"ack", "rx", "stopped"}
    BY <1>1, ReadBodyEffect
  <1> QED BY <1>2, ReadReplyStep, ReadRequestStep, RefuseStep

(* What readLoop's hand-over, and the consumer, leave alone. *)
LEMMA LocalStep ==
    ASSUME IInv, TypeInv', NEW e \in End,
           Accepted(e)' = Accepted(e), rd'[Peer(e)] = rd[Peer(e)],
           rd'[e] = rd[e] \/ (rd[e] \in {"ack", "rx"} /\ rd'[e] = "first"),
           rx'[Peer(e)] = rx[Peer(e)], delivered'[Peer(e)] = delivered[Peer(e)],
           UNCHANGED <<seq, pc, reply, recvSeq, held, net, responses, done, open, sent, cause>>
    PROVE  LET p == Peer(e) IN
           /\ Threads(e)' /\ Threads(p)' /\ Lifecycle(e)' /\ Lifecycle(p)'
           /\ Numbers(e)' /\ Balance(e)' /\ InOrder(e)' /\ Untouched(e)'
           /\ Numbers(p)' /\ Balance(p)' /\ Untouched(p)'
           /\ \A i \in 1 .. Len(net'[p]) : RequestAt(p, i)' /\ Running(e)'
                => net'[p][i].msg.data = sent'[p][Accepted(e)' + 1]
           /\ (ack'[p] = ack[p] => Single(p)') /\ (Len(ack'[e]) <= 1 => Single(e)')
           /\ UNCHANGED <<InRequest(e), InRequest(p), InReply(e), InReply(p), Queued(e), Queued(p),
                          Replying(e), Replying(p), Acking(p), Awaiting(e), Awaiting(p),
                          GivenUp(e), GivenUp(p)>>
  <1> DEFINE p == Peer(e)
  <1>1. TypeInv /\ Good(e) /\ Good(p) /\ p \in End /\ Peer(p) = e /\ p # e
    BY GoodIsIInv, EndFacts
  <1>2. Threads(e)' /\ Threads(p)'
    <2>1. Threads(e)'
      BY <1>1 DEF Threads, Good
    <2>2. Threads(p)'
      BY <1>1 DEF Threads, Good
    <2> QED BY <2>1, <2>2
  <1>3. Lifecycle(e)' /\ Lifecycle(p)'
    BY <1>1 DEF Lifecycle, Good
  <1>4. /\ Sending(e)' <=> Sending(e)
        /\ Sending(p)' <=> Sending(p)
        /\ UNCHANGED <<Awaiting(e), Awaiting(p), GivenUp(e), GivenUp(p)>>
    BY DEF Sending, Awaiting, GivenUp
  <1>5. Numbers(e)' /\ Balance(e)' /\ InOrder(e)'
    BY <1>1, <1>4, BooksFrame
  <1>6. UNCHANGED <<Running(e), Running(p), rd[e] = "rest">>
    BY DEF Running
  <1>7. /\ Numbers(p)' /\ Balance(p)'
        /\ \A i \in 1 .. Len(net'[p]) : RequestAt(p, i)' /\ Running(e)'
             => net'[p][i].msg.data = sent'[p][Accepted(e)' + 1]
    <2>1. UNCHANGED <<seq[p], net[p], sent[p], recvSeq[e], Accepted(e), Running(e)>>
      BY <1>6
    <2> QED BY <1>1, <1>4, <2>1, BooksKept
  <1>8. Untouched(e)' /\ Untouched(p)'
    <2>1. \A x \in End, t \in Thread : Due(x, t)' = Due(x, t)
      BY DEF Due, Response, Request
    <2>2. Untouched(e)'
      BY <1>1, <1>6, <2>1, UntouchedFrame DEF Good
    <2>3. Untouched(p)'
      BY <1>1, <1>6, <2>1, UntouchedFrame DEF Good
    <2> QED BY <2>2, <2>3
  <1>9. (ack'[p] = ack[p] => Single(p)') /\ (Len(ack'[e]) <= 1 => Single(e)')
    <2>1. ack'[p] = ack[p] => Single(p)'
      BY <1>1 DEF Single, RequestAt, ReplyAt, Good
    <2>2. Len(ack'[e]) <= 1 => Single(e)'
      BY <1>1 DEF Single, RequestAt, ReplyAt, Good
    <2> QED BY <2>1, <2>2
  <1>10. UNCHANGED <<InRequest(e), InRequest(p), InReply(e), InReply(p), Queued(e), Queued(p),
                     Replying(e), Replying(p), Acking(p)>>
    BY DEF InRequest, InReply, RequestAt, ReplyAt, Queued, Replying, Acking
  <1> QED BY <1>2, <1>3, <1>4, <1>5, <1>7, <1>8, <1>9, <1>10

(* readLoop puts the CSeq of a 200 OK into ack, which is empty.            *)
LEMMA AckPushedStep ==
    ASSUME IInv, NEW e \in End, AckPushed(e), UNCHANGED plan
    PROVE  IInv'
  <1> DEFINE p == Peer(e)
  <1>1. TypeInv /\ Good(e) /\ Good(p) /\ p \in End /\ Peer(p) = e /\ p # e
    BY GoodIsIInv, EndFacts
  <1>2. /\ TypeInv'
        /\ rd[e] = "ack" /\ rd'[e] = "first" /\ rd'[p] = rd[p]
        /\ ack'[e] = Append(ack[e], held[e].cseq) /\ ack'[p] = ack[p]
        /\ held[e].cseq \in Nat
        /\ UNCHANGED <<seq, pc, reply, recvSeq, held, net, responses, rx, done, open, eof, sent,
                       delivered, cause>>
    BY <1>1, AckPushedEffect
  <1>3. Accepted(e)' = Accepted(e)
    BY <1>2 DEF Accepted
  <1>4. /\ Threads(e)' /\ Threads(p)' /\ Lifecycle(e)' /\ Lifecycle(p)'
        /\ Numbers(e)' /\ Balance(e)' /\ InOrder(e)' /\ Untouched(e)'
        /\ Numbers(p)' /\ Balance(p)' /\ Untouched(p)'
        /\ \A i \in 1 .. Len(net'[p]) : RequestAt(p, i)' /\ Running(e)'
             => net'[p][i].msg.data = sent'[p][Accepted(e)' + 1]
        /\ Single(p)' /\ (Len(ack'[e]) <= 1 => Single(e)')
        /\ UNCHANGED <<InRequest(e), InRequest(p), InReply(e), InReply(p), Queued(e), Queued(p),
                       Replying(e), Replying(p), Acking(p), Awaiting(e), Awaiting(p),
                       GivenUp(e), GivenUp(p)>>
    BY <1>2, <1>3, LocalStep
  <1>5. InOrder(p)'
    BY <1>1, <1>2, <1>4 DEF InOrder, Good
  <1>6. Acking(e) /\ ~Acking(e)' /\ UNCHANGED Acked(p)
    BY <1>2 DEF Acking, Acked
  <1>7. ~InRequest(e) /\ ~Queued(p) /\ ~Replying(p) /\ ~InReply(p) /\ ~Acked(e)
    BY <1>1, <1>6 DEF OneToken, Good
  <1>8. Acked(e)' /\ Single(e)'
    <2>1. ack'[e] # <<>> /\ Len(ack'[e]) = 1
      <3>1. ack'[e] = Append(<<>>, held[e].cseq)
        BY <1>2, <1>7 DEF Acked
      <3>2. <<>> \in Seq(Nat) /\ Len(<<>>) = 0 /\ 0 + 1 = 1
        OBVIOUS
      <3> QED BY <1>2, <3>1, <3>2, AppendProperties
    <2> QED BY <1>4, <2>1 DEF Acked
  <1>9. OneToken(e)' /\ OneToken(p)'
    BY <1>1, <1>4, <1>6, <1>7, <1>8 DEF OneToken, Good
  <1>10. Owed(e)' /\ Owed(p)'
    BY <1>1, <1>4, <1>6, <1>8 DEF Owed, Token, Good
  <1> QED BY <1>1, <1>2, <1>4, <1>5, <1>8, <1>9, <1>10, GoodIsIInv DEF Good

(* readLoop puts the packet it has accepted into rx. *)
LEMMA RxPushedStep ==
    ASSUME IInv, NEW e \in End, RxPushed(e), UNCHANGED plan
    PROVE  IInv'
  <1> DEFINE p == Peer(e)
  <1>1. TypeInv /\ Good(e) /\ Good(p) /\ p \in End /\ Peer(p) = e /\ p # e
    BY GoodIsIInv, EndFacts
  <1>2. /\ TypeInv'
        /\ rd[e] = "rx" /\ rd'[e] = "first" /\ rd'[p] = rd[p]
        /\ rx'[e] = Append(rx[e], held[e].data) /\ rx'[p] = rx[p]
        /\ held[e].data \in Packet
        /\ UNCHANGED <<seq, pc, reply, recvSeq, held, net, ack, responses, done, open, eof, sent,
                       delivered, cause>>
    BY <1>1, RxPushedEffect DEF Good
  <1>3. /\ Len(delivered[e]) \in Nat /\ Len(rx[e]) \in Nat
        /\ Accepted(e) = Len(delivered[e]) + Len(rx[e]) + 1
    BY <1>1, <1>2, Counts
  <1>4. /\ Len(rx'[e]) = Len(rx[e]) + 1
        /\ rx'[e][Len(rx[e]) + 1] = held[e].data
        /\ \A i \in 1 .. Len(rx[e]) : rx'[e][i] = rx[e][i]
    <2>1. rx[e] \in Seq(Packet)
      BY <1>1 DEF TypeInv
    <2> QED BY <1>2, <2>1, AppendProperties
  <1>5. Accepted(e)' = Accepted(e)
    <2>1. Accepted(e)' = Len(delivered[e]) + (Len(rx[e]) + 1) + 0
      BY <1>2, <1>4 DEF Accepted
    <2>2. \A m, n \in Nat : m + (n + 1) + 0 = m + n + 1
      OBVIOUS
    <2> QED BY <1>3, <2>1, <2>2
  <1>6. /\ Threads(e)' /\ Threads(p)' /\ Lifecycle(e)' /\ Lifecycle(p)'
        /\ Numbers(e)' /\ Balance(e)' /\ InOrder(e)' /\ Untouched(e)'
        /\ Numbers(p)' /\ Balance(p)' /\ Untouched(p)'
        /\ \A i \in 1 .. Len(net'[p]) : RequestAt(p, i)' /\ Running(e)'
             => net'[p][i].msg.data = sent'[p][Accepted(e)' + 1]
        /\ Single(p)' /\ (Len(ack'[e]) <= 1 => Single(e)')
        /\ UNCHANGED <<InRequest(e), InRequest(p), InReply(e), InReply(p), Queued(e), Queued(p),
                       Replying(e), Replying(p), Acking(p), Awaiting(e), Awaiting(p),
                       GivenUp(e), GivenUp(p)>>
    BY <1>2, <1>5, LocalStep
  <1>7. Single(e)'
    BY <1>1, <1>2, <1>6 DEF Single, Good
  <1>8. ~Acking(e) /\ ~Acking(e)' /\ UNCHANGED <<Acked(e), Acked(p)>>
    BY <1>2 DEF Acking, Acked
  <1>9. OneToken(e)' /\ OneToken(p)'
    BY <1>1, <1>6, <1>8 DEF OneToken, Good
  <1>10. Owed(e)' /\ Owed(p)'
    BY <1>1, <1>6, <1>8 DEF Owed, Token, Good
  <1>11. InOrder(p)'
    <2>1. ASSUME NEW i \in 1 .. Len(rx'[e])
          PROVE  rx'[e][i] = sent[p][Len(delivered[e]) + i]
      <3>1. i \in 1 .. Len(rx[e]) \/ i = Len(rx[e]) + 1
        <4>1. \A n \in Nat : \A j \in 1 .. n + 1 : j \in 1 .. n \/ j = n + 1
          OBVIOUS
        <4> QED BY <1>3, <1>4, <4>1
      <3>2. CASE i \in 1 .. Len(rx[e])
        BY <1>1, <1>4, <3>2 DEF InOrder, Good
      <3>3. CASE i = Len(rx[e]) + 1
        <4>1. rx'[e][i] = sent[p][Accepted(e)]
          BY <1>1, <1>2, <1>4, <3>3 DEF InOrder, Good
        <4>2. \A m, n \in Nat : m + n + 1 = m + (n + 1)
          OBVIOUS
        <4> QED BY <1>3, <3>3, <4>1, <4>2
      <3> QED BY <3>1, <3>2, <3>3
    <2> QED BY <1>1, <1>2, <1>6, <2>1 DEF InOrder
  <1> QED BY <1>1, <1>2, <1>6, <1>7, <1>9, <1>10, <1>11, GoodIsIInv DEF Good

(* The consumer takes the oldest packet: it is the next one not yet        *)
(* delivered.                                                              *)
LEMMA DeliveredNext ==
    ASSUME IInv, NEW e \in End, rx[e] # <<>>
    PROVE  LET p == Peer(e) IN
           /\ Len(delivered[e]) + 1 \in 1 .. Len(sent[p])
           /\ Head(rx[e]) = sent[p][Len(delivered[e]) + 1]
  <1> DEFINE p == Peer(e)
  <1>1. TypeInv /\ Good(p) /\ p \in End /\ Peer(p) = e
    BY GoodIsIInv, EndFacts
  <1>2. rx[e] \in Seq(Packet)
    BY <1>1 DEF TypeInv
  <1>3. Len(rx[e]) \in Nat /\ Len(rx[e]) > 0 /\ Head(rx[e]) = rx[e][1]
    BY <1>2, TailFacts
  <1>4. 1 \in 1 .. Len(rx[e])
    <2>1. \A n \in Nat : n > 0 => 1 \in 1 .. n
      OBVIOUS
    <2> QED BY <1>3, <2>1
  <1>5. Len(delivered[e]) + 1 \in 1 .. Len(sent[p])
    BY <1>1, <1>4, WithinSent DEF Good
  <1>6. rx[e][1] = sent[p][Len(delivered[e]) + 1]
    BY <1>1, <1>4 DEF InOrder, Good
  <1> QED BY <1>3, <1>5, <1>6

(* The consumer moves a packet from rx to delivered: the count stays. *)
LEMMA ReadPacketStep ==
    ASSUME IInv, NEW e \in End, ReadPacket(e), UNCHANGED plan
    PROVE  IInv'
  <1> DEFINE p == Peer(e)
  <1>1. TypeInv /\ Good(e) /\ Good(p) /\ p \in End /\ Peer(p) = e /\ p # e
    BY GoodIsIInv, EndFacts
  <1>2. /\ TypeInv'
        /\ \/ /\ rx[e] # <<>> /\ rx'[e] = Tail(rx[e]) /\ rx'[p] = rx[p]
              /\ delivered'[e] = Append(delivered[e], Head(rx[e]))
              /\ delivered'[p] = delivered[p]
           \/ UNCHANGED <<rx, delivered>>
        /\ UNCHANGED <<seq, pc, reply, recvSeq, rd, held, net, ack, responses, done, open, sent,
                       cause>>
    BY <1>1, ReadPacketEffect
  <1>3. ASSUME rx[e] # <<>>, rx'[e] = Tail(rx[e]), delivered'[e] = Append(delivered[e], Head(rx[e]))
        PROVE  /\ Len(delivered[e]) \in Nat /\ Len(rx[e]) \in Nat /\ Len(rx[e]) > 0
               /\ Len(rx'[e]) = Len(rx[e]) - 1 /\ Len(delivered'[e]) = Len(delivered[e]) + 1
               /\ \A i \in 1 .. Len(rx[e]) - 1 : rx'[e][i] = rx[e][i + 1]
    <2>1. rx[e] \in Seq(Packet) /\ delivered[e] \in Seq(Packet)
      BY <1>1 DEF TypeInv
    <2>2. /\ Len(rx[e]) \in Nat /\ Len(rx[e]) > 0 /\ Head(rx[e]) \in Packet
          /\ Len(rx'[e]) = Len(rx[e]) - 1
          /\ \A i \in 1 .. Len(rx[e]) - 1 : rx'[e][i] = rx[e][i + 1]
      BY <1>3, <2>1, TailFacts
    <2>3. Len(delivered[e]) \in Nat /\ Len(delivered'[e]) = Len(delivered[e]) + 1
      BY <1>3, <2>1, <2>2, AppendProperties, LenProperties
    <2> QED BY <2>2, <2>3
  <1>4. Accepted(e)' = Accepted(e)
    <2>1. CASE UNCHANGED <<rx, delivered>>
      BY <1>2, <2>1 DEF Accepted
    <2>2. CASE /\ rx[e] # <<>> /\ rx'[e] = Tail(rx[e]) /\ rx'[p] = rx[p]
               /\ delivered'[e] = Append(delivered[e], Head(rx[e]))
               /\ delivered'[p] = delivered[p]
      <3>1. \A m, n \in Nat : n > 0 => /\ m + 1 + (n - 1) + 1 = m + n + 1
                                      /\ m + 1 + (n - 1) + 0 = m + n + 0
        OBVIOUS
      <3>2. CASE rd[e] = "rx"
        <4>1. Accepted(e) = Len(delivered[e]) + Len(rx[e]) + 1
          BY <3>2 DEF Accepted
        <4>2. Accepted(e)' = Len(delivered[e]) + 1 + (Len(rx[e]) - 1) + 1
          BY <1>2, <1>3, <2>2, <3>2 DEF Accepted
        <4> QED BY <1>3, <2>2, <3>1, <4>1, <4>2
      <3>3. CASE rd[e] # "rx"
        <4>1. Accepted(e) = Len(delivered[e]) + Len(rx[e]) + 0
          BY <3>3 DEF Accepted
        <4>2. Accepted(e)' = Len(delivered[e]) + 1 + (Len(rx[e]) - 1) + 0
          BY <1>2, <1>3, <2>2, <3>3 DEF Accepted
        <4> QED BY <1>3, <2>2, <3>1, <4>1, <4>2
      <3> QED BY <3>2, <3>3
    <2> QED BY <1>2, <2>1, <2>2
  <1>5. /\ Threads(e)' /\ Threads(p)' /\ Lifecycle(e)' /\ Lifecycle(p)'
        /\ Numbers(e)' /\ Balance(e)' /\ InOrder(e)' /\ Untouched(e)'
        /\ Numbers(p)' /\ Balance(p)' /\ Untouched(p)'
        /\ \A i \in 1 .. Len(net'[p]) : RequestAt(p, i)' /\ Running(e)'
             => net'[p][i].msg.data = sent'[p][Accepted(e)' + 1]
        /\ Single(p)' /\ (Len(ack'[e]) <= 1 => Single(e)')
        /\ UNCHANGED <<InRequest(e), InRequest(p), InReply(e), InReply(p), Queued(e), Queued(p),
                       Replying(e), Replying(p), Acking(p), Awaiting(e), Awaiting(p),
                       GivenUp(e), GivenUp(p)>>
    <2>1. rx'[p] = rx[p] /\ delivered'[p] = delivered[p] /\ rd'[e] = rd[e] /\ rd'[p] = rd[p]
          /\ ack'[p] = ack[p]
      BY <1>2
    <2> QED BY <1>2, <1>4, <2>1, LocalStep
  <1>6. Single(e)'
    BY <1>1, <1>2, <1>5 DEF Single, Good
  <1>7. UNCHANGED <<Acking(e), Acked(e), Acked(p)>>
    BY <1>2 DEF Acking, Acked
  <1>8. OneToken(e)' /\ OneToken(p)'
    BY <1>1, <1>5, <1>7 DEF OneToken, Good
  <1>9. Owed(e)' /\ Owed(p)'
    BY <1>1, <1>5, <1>7 DEF Owed, Token, Good
  <1>10. InOrder(p)'
    <2>1. \A i \in 1 .. Len(rx'[e]) : rx'[e][i] = sent[p][Len(delivered'[e]) + i]
      <3>1. CASE UNCHANGED <<rx, delivered>>
        BY <1>1, <3>1 DEF InOrder, Good
      <3>2. CASE /\ rx[e] # <<>> /\ rx'[e] = Tail(rx[e]) /\ rx'[p] = rx[p]
                 /\ delivered'[e] = Append(delivered[e], Head(rx[e]))
                 /\ delivered'[p] = delivered[p]
        <4>1. ASSUME NEW i \in 1 .. Len(rx[e]) - 1
              PROVE  rx'[e][i] = sent[p][Len(delivered[e]) + (i + 1)]
          <5>1. \A n \in Nat : \A j \in 1 .. n - 1 : j + 1 \in 1 .. n
            OBVIOUS
          <5>2. i + 1 \in 1 .. Len(rx[e]) /\ rx'[e][i] = rx[e][i + 1]
            BY <1>3, <3>2, <5>1
          <5> QED BY <1>1, <5>2 DEF InOrder, Good
        <4>2. \A m, n \in Nat : \A i \in 1 .. n - 1 : m + (i + 1) = m + 1 + i
          OBVIOUS
        <4>3. /\ Len(delivered[e]) \in Nat /\ Len(rx[e]) \in Nat
              /\ Len(rx'[e]) = Len(rx[e]) - 1 /\ Len(delivered'[e]) = Len(delivered[e]) + 1
          BY <1>3, <3>2
        <4>4. ASSUME NEW i \in 1 .. Len(rx[e]) - 1
              PROVE  rx'[e][i] = sent[p][Len(delivered[e]) + 1 + i]
          <5>1. Len(delivered[e]) + (i + 1) = Len(delivered[e]) + 1 + i
            BY <4>2, <4>3
          <5> QED BY <4>1, <5>1
        <4> QED BY <4>3, <4>4
      <3> QED BY <1>2, <3>1, <3>2
    <2>2. rd[e] = "rx" => held[e].data = sent[p][Accepted(e)]
      BY <1>1 DEF InOrder, Good
    <2> QED BY <1>1, <1>2, <1>4, <1>5, <2>1, <2>2 DEF InOrder
  <1> QED BY <1>1, <1>2, <1>5, <1>6, <1>8, <1>9, <1>10, GoodIsIInv DEF Good

-----------------------------------------------------------------------------
(* The session starts with empty books and no token. *)
LEMMA InitIInv == Init => IInv
  <1> SUFFICES ASSUME Init PROVE IInv
    OBVIOUS
  <1>1. TypeInv
    BY InitType
  <1>2. ASSUME NEW e \in End
        PROVE  /\ seq[e] \in Nat /\ recvSeq[e] = 0 /\ rd[e] = "first" /\ reply[e] = 0
               /\ \A t \in Thread : pc[e][t] = "idle"
               /\ net[e] = <<>> /\ ack[e] = <<>> /\ responses[e] = <<>> /\ rx[e] = <<>>
               /\ sent[e] = <<>> /\ delivered[e] = <<>> /\ ~done[e] /\ open[e]
    BY <1>1 DEF Init, Thread, TypeInv
  <1>3. Len(<<>>) = 0 /\ 1 .. 0 = {}
    OBVIOUS
  <1>4. "resp" \in Thread /\ Writer \subseteq Thread
    BY DEF Thread
  <1>5. ASSUME NEW e \in End PROVE Good(e)
    <2> DEFINE p == Peer(e)
    <2>1. p \in End
      BY EndFacts
    <2>2. Threads(e)
      BY <1>2, <1>4 DEF Threads
    <2>3. Lifecycle(e)
      BY <1>2 DEF Lifecycle
    <2>4. Single(e)
      BY <1>2, <1>3 DEF Single
    <2>5. /\ ~InRequest(e) /\ ~InReply(p) /\ ~Queued(p) /\ ~Replying(p) /\ ~Acking(e) /\ ~Acked(e)
      BY <1>2, <1>3, <1>4, <2>1 DEF InRequest, InReply, Queued, Replying, Acking, Acked
    <2>6. OneToken(e) /\ Owed(e)
      BY <2>5 DEF OneToken, Owed, Token
    <2>7. Busy(e) = 0 /\ OnWire(e) = 0
      BY <1>2, <1>4, <2>5 DEF Busy, Sending, OnWire
    <2>8. Numbers(e)
      <3>1. 0 + 0 <= seq[e]
        BY <1>2
      <3> QED BY <1>2, <1>3, <2>1, <2>7, <3>1 DEF Numbers
    <2>9. Accepted(p) = 0
      <3>1. Accepted(p) = 0 + 0 + 0
        BY <1>2, <1>3, <2>1 DEF Accepted
      <3> QED BY <3>1
    <2>10. Balance(e)
      <3>1. 0 + 0 + 0 = 0 /\ 0 + 0 + 0 <= 0
        OBVIOUS
      <3> QED BY <1>2, <1>3, <2>7, <2>9, <3>1 DEF Balance
    <2>11. InOrder(e)
      BY <1>2, <1>3, <2>1 DEF InOrder
    <2>12. Untouched(e)
      <3>1. Running(e)
        BY <1>2 DEF Running
      <3>2. Paired(e)
        <4>1. 1 .. 0 - 1 = {}
          OBVIOUS
        <4> QED BY <1>2, <1>3, <4>1 DEF Paired
      <3>3. FrontPiece(e) /\ BackPiece(e)
        <4>1. ~(Len(net[e]) > 0) /\ rd[p] # "rest"
          BY <1>2, <1>3, <2>1
        <4> QED BY <1>2, <4>1 DEF FrontPiece, BackPiece
      <3> QED BY <1>2, <3>1, <3>2, <3>3 DEF Untouched
    <2> QED BY <2>2, <2>3, <2>4, <2>6, <2>8, <2>10, <2>11, <2>12 DEF Good
  <1> QED BY <1>1, <1>5 DEF IInv, Good

(* A step of the session that takes no variable anywhere. *)
LEMMA StutterIInv ==
    ASSUME IInv, UNCHANGED vars
    PROVE  IInv'
  <1>1. UNCHANGED <<seq, pc, reply, recvSeq, rd, held, net, ack, responses, rx, done, open, eof,
                    sent, delivered, cause, plan>>
    BY DEF vars, sendVars, readVars, chanVars, connVars, userVars
  <1>2. TypeInv'
    BY <1>1 DEF IInv, TypeInv
  <1>3. ASSUME NEW e \in End PROVE Good(e)'
    <2>1. Good(e) /\ Good(Peer(e))
      BY GoodIsIInv
    <2>2. Threads(e)'
      BY <1>1, <2>1 DEF Good, Threads
    <2>3. Lifecycle(e)' /\ Single(e)'
      BY <1>1, <2>1 DEF Good, Lifecycle, Single, RequestAt, ReplyAt
    <2>4. OneToken(e)' /\ Owed(e)'
      BY <1>1, <2>1 DEF Good, OneToken, Owed, Token, GivenUp, Awaiting, InRequest, InReply, RequestAt,
         ReplyAt, Queued, Replying, Acking, Acked
    <2>5. Numbers(e)' /\ Balance(e)' /\ InOrder(e)'
      <3>1. (Sending(e)' <=> Sending(e)) /\ (GivenUp(e) => GivenUp(e)')
        BY <1>1 DEF Sending, GivenUp
      <3> QED BY <1>1, <2>1, <3>1, BooksFrame
    <2>6. Untouched(e)'
      <3>1. \A t \in Thread : Due(e, t)' = Due(e, t)
        BY <1>1 DEF Due, Response, Request
      <3> QED BY <1>1, <2>1, <3>1, UntouchedFrame DEF Good, Running
    <2> QED BY <2>2, <2>3, <2>4, <2>5, <2>6 DEF Good
  <1> QED BY <1>2, <1>3 DEF IInv, Good

(* Every step of every goroutine, and every outside event, keeps it. *)
LEMMA NextIInv == IInv /\ Sealing /\ [Next]_vars => IInv'
  <1> SUFFICES ASSUME IInv, Sealing, [Next]_vars PROVE IInv'
    OBVIOUS
  <1>1. CASE UNCHANGED vars
    BY <1>1, StutterIInv
  <1>2. CASE Next
    <2>1. UNCHANGED plan
      BY <1>2 DEF Next
    <2>2. "resp" \in Thread /\ Writer \subseteq Thread
      BY DEF Thread
    <2>3. PICK e \in End : \/ \E w \in Writer, d \in Packet : Seal(e, w, d)
                           \/ \E w \in Writer : WriterNext(e, w)
                           \/ ResponderNext(e)
                           \/ ReaderNext(e)
                           \/ ReadPacket(e)
                           \/ AppClose(e)
                           \/ ConnDrop(e)
      BY <1>2 DEF Next
    <2>4. CASE \E w \in Writer, d \in Packet : Seal(e, w, d)
      BY <2>1, <2>4, SealStep
    <2>5. ASSUME NEW w \in Writer, WriterNext(e, w) PROVE IInv'
      <3>1. CASE LockWire(e, w)
        BY <2>1, <2>2, <3>1, LockWireStep
      <3>2. CASE WritePiece(e, w)
        BY <2>1, <2>2, <3>2, WritePieceStep
      <3>3. CASE SendError(e, w)
        BY <2>1, <2>2, <3>3, SendErrorStep
      <3>4. CASE ReceiveAck(e, w)
        BY <2>1, <3>4, ReceiveAckStep
      <3>5. CASE AwaitEnds(e, w)
        BY <2>1, <3>5, AwaitEndsStep
      <3>6. CASE MakeRequest(e, w)
        <4>1. body[e].data \in Packet
          BY <3>6 DEF MakeRequest, Sealing
        <4> QED BY <2>1, <3>6, <4>1, MakeRequestStep
      <3> QED BY <2>5, <3>1, <3>2, <3>3, <3>4, <3>5, <3>6 DEF WriterNext
    <2>6. CASE ResponderNext(e)
      <3>1. CASE TakeResponse(e)
        BY <2>1, <3>1, TakeResponseStep
      <3>2. CASE ResponderStops(e)
        BY <2>1, <3>2, ResponderStopsStep
      <3>3. CASE LockWire(e, "resp")
        BY <2>1, <2>2, <3>3, LockWireStep
      <3>4. CASE WritePiece(e, "resp")
        BY <2>1, <2>2, <3>4, WritePieceStep
      <3>5. CASE SendError(e, "resp")
        BY <2>1, <2>2, <3>5, SendErrorStep
      <3> QED BY <2>6, <3>1, <3>2, <3>3, <3>4, <3>5 DEF ResponderNext
    <2>7. CASE ReaderNext(e)
      <3>1. CASE ReadHead(e)
        BY <2>1, <3>1, ReadHeadStep
      <3>2. CASE ReadBody(e)
        BY <2>1, <3>2, ReadBodyStep
      <3>3. CASE ReadFails(e)
        BY <2>1, <3>3, EndsStep DEF Ends
      <3>4. CASE PushAck(e) \/ PushRx(e)
        <4>1. AckPushed(e) \/ RxPushed(e) \/ Ends(e)
          BY <3>4, PushCases
        <4> QED BY <2>1, <4>1, AckPushedStep, RxPushedStep, EndsStep
      <3> QED BY <2>7, <3>1, <3>2, <3>3, <3>4 DEF ReaderNext
    <2>8. CASE ReadPacket(e)
      BY <2>1, <2>8, ReadPacketStep
    <2>9. CASE AppClose(e) \/ ConnDrop(e)
      <3>1. Ends(e)
        BY <2>9 DEF Ends
      <3> QED BY <2>1, <3>1, EndsStep
    <2> QED BY <2>3, <2>4, <2>5, <2>6, <2>7, <2>8, <2>9
  <1> QED BY <1>1, <1>2

(* A step that makes no request and takes none back keeps what is sealed.  *)
LEMMA SealingFrame ==
    ASSUME Sealing, UNCHANGED <<seq, body, sent>>,
           \A e \in End, w \in Writer :
             /\ pc'[e][w] = "seal" => pc[e][w] = "seal"
             /\ pc'[e][w] \in {"lock", "head", "body"} => pc[e][w] \in {"lock", "head", "body"}
    PROVE  Sealing'
BY DEF Sealing

(* Nor does any other: only the holder of tx seals, makes a request or     *)
(* takes one back.                                                         *)
LEMMA NextSealing == IInv /\ Sealing /\ [Next]_vars => Sealing'
  <1> SUFFICES ASSUME IInv, Sealing, [Next]_vars PROVE Sealing'
    OBVIOUS
  <1>1. CASE UNCHANGED vars
    BY <1>1, SealingFrame DEF vars, sendVars, userVars
  <1>2. CASE Next
    <2>1. "resp" \in Thread /\ Writer \subseteq Thread \ {"resp"}
      BY SipAssumption DEF Thread
    <2>2. PICK e \in End : \/ \E w \in Writer, d \in Packet : Seal(e, w, d)
                           \/ \E w \in Writer : WriterNext(e, w)
                           \/ ResponderNext(e)
                           \/ ReaderNext(e)
                           \/ ReadPacket(e)
                           \/ AppClose(e)
                           \/ ConnDrop(e)
      BY <1>2 DEF Next
    <2>3. TypeInv /\ Threads(e)
      BY GoodIsIInv DEF Good
    <2>4. ASSUME NEW t \in Thread, NEW x \in Where, Goto(e, t, x)
          PROVE  \A z \in End, s \in Thread :
                   pc'[z][s] = IF z = e /\ s = t THEN x ELSE pc[z][s]
      BY <2>3, <2>4 DEF Goto, TypeInv
    <2>5. ASSUME NEW w \in Writer, NEW d \in Packet, Seal(e, w, d) PROVE Sealing'
      <3>1. \A z \in End, s \in Thread :
              pc'[z][s] = IF z = e /\ s = w THEN "seal" ELSE pc[z][s]
        BY <2>1, <2>4, <2>5 DEF Seal, Where
      <3>2. \A v \in Writer : pc[e][v] \in {"idle", "failed"}
        BY <2>5 DEF Seal, TxFree
      <3>3. /\ UNCHANGED <<seq, sent>>
            /\ body' = [body EXCEPT ![e] = [ad |-> seq[e] + 1, data |-> d]]
        BY <2>5 DEF Seal, userVars
      <3> QED BY <2>1, <3>1, <3>2, <3>3 DEF Sealing
    <2>6. ASSUME NEW w \in Writer, MakeRequest(e, w) PROVE Sealing'
      <3>1. \A z \in End, s \in Thread :
              pc'[z][s] = IF z = e /\ s = w THEN "lock" ELSE pc[z][s]
        BY <2>1, <2>4, <2>6 DEF MakeRequest, Where
      <3>2. \A v \in Writer \ {w} : pc[e][v] \in {"idle", "failed"}
        BY <2>3, <2>6 DEF MakeRequest, Threads
      <3>3. PICK d \in Packet : body[e] = [ad |-> seq[e] + 1, data |-> d]
        BY <2>6 DEF MakeRequest, Sealing
      <3>4. body'[e] = [ad |-> seq'[e], data |-> Last(sent'[e])]
        <4>1. seq'[e] = seq[e] + 1 /\ sent'[e] = Append(sent[e], d) /\ body' = body
          BY <2>3, <2>6, <3>3 DEF MakeRequest, TypeInv
        <4>2. Last(Append(sent[e], d)) = d
          BY <2>3, AppendProperties DEF TypeInv, Last
        <4> QED BY <3>3, <4>1, <4>2
      <3>5. \A z \in End \ {e} : UNCHANGED <<seq[z], sent[z], body[z]>>
        BY <2>3, <2>6 DEF MakeRequest, TypeInv
      <3>6. DOMAIN body' = End
        BY <2>6 DEF MakeRequest, Sealing
      <3> QED BY <2>1, <3>1, <3>2, <3>4, <3>5, <3>6 DEF Sealing
    <2>7. ASSUME NEW t \in Thread, SendError(e, t) PROVE Sealing'
      <3>1. CASE t = "resp"
        <4>1. Goto(e, t, "stopped") /\ UNCHANGED <<seq, body, sent>>
          BY <2>7, <3>1 DEF SendError
        <4> QED BY <2>1, <2>4, <3>1, <4>1, SealingFrame DEF Where
      <3>2. CASE t # "resp"
        <4>1. /\ Goto(e, t, "failed") /\ UNCHANGED <<seq, body>>
              /\ sent' = [sent EXCEPT ![e] = Front(@)]
          BY <2>7, <3>2 DEF SendError
        <4>2. \A z \in End, s \in Thread :
                pc'[z][s] = IF z = e /\ s = t THEN "failed" ELSE pc[z][s]
          BY <2>4, <4>1 DEF Where
        <4>3. \A v \in Writer : pc'[e][v] \in {"idle", "failed"}
          BY <2>1, <2>3, <2>7, <3>2, <4>2 DEF SendError, Threads, Thread
        <4>4. \A z \in End \ {e} : sent'[z] = sent[z]
          BY <2>3, <4>1 DEF TypeInv
        <4> QED BY <2>1, <4>1, <4>2, <4>3, <4>4 DEF Sealing
      <3> QED BY <3>1, <3>2
    <2>8. ASSUME NEW t \in Thread, LockWire(e, t) \/ WritePiece(e, t) PROVE Sealing'
      <3>1. UNCHANGED <<seq, body, sent>>
        BY <2>8 DEF LockWire, WritePiece, userVars
      <3>2. CASE LockWire(e, t)
        BY <2>1, <2>4, <3>1, <3>2, SealingFrame DEF LockWire, Where
      <3>3. CASE WritePiece(e, t)
        <4> DEFINE x == IF pc[e][t] = "head" THEN "body"
                        ELSE IF t = "resp" THEN "idle" ELSE "await"
        <4>1. Goto(e, t, x) /\ x \in Where /\ pc[e][t] \in {"head", "body"}
              /\ x \in {"body", "idle", "await"}
          BY <3>3 DEF WritePiece, Where
        <4> HIDE DEF x
        <4> QED BY <2>1, <2>4, <3>1, <4>1, SealingFrame
      <3> QED BY <2>8, <3>2, <3>3
    <2>9. ASSUME NEW w \in Writer, ReceiveAck(e, w) \/ AwaitEnds(e, w) PROVE Sealing'
      <3>1. UNCHANGED <<seq, body, sent>>
        BY <2>9 DEF ReceiveAck, AwaitEnds, userVars
      <3>2. Goto(e, w, "idle") \/ Goto(e, w, "failed")
        BY <2>9 DEF ReceiveAck, AwaitEnds
      <3> QED BY <2>1, <2>4, <3>1, <3>2, SealingFrame DEF Where
    <2>10. CASE TakeResponse(e) \/ ResponderStops(e)
      <3>1. UNCHANGED <<seq, body, sent>>
        BY <2>10 DEF TakeResponse, ResponderStops, userVars
      <3>2. Goto(e, "resp", "lock") \/ Goto(e, "resp", "stopped")
        BY <2>10 DEF TakeResponse, ResponderStops
      <3> QED BY <2>1, <2>4, <3>1, <3>2, SealingFrame DEF Where
    <2>11. CASE ReaderNext(e) \/ ReadPacket(e) \/ AppClose(e) \/ ConnDrop(e)
      <3>1. UNCHANGED <<seq, body, sent, pc>>
        BY <2>11 DEF ReaderNext, ReadHead, ReadBody, ReadFails, PushAck, PushRx, ReadPacket,
                     AppClose, ConnDrop, userVars, sendVars
      <3> QED BY <3>1, SealingFrame
    <2> QED BY <2>1, <2>2, <2>5, <2>6, <2>7, <2>8, <2>9, <2>10, <2>11 DEF WriterNext, ResponderNext
  <1> QED BY <1>1, <1>2

(* Nobody has sealed anything at the start. *)
LEMMA InitSealing == Init => Sealing
  BY DEF Init, Sealing

(* The invariant all the others follow from. *)
THEOREM SessionInv == Spec => [](IInv /\ Sealing)
  BY InitIInv, NextIInv, InitSealing, NextSealing, PTL DEF Spec

(* Because WritePacket holds tx until its 200 OK is in, the responder's    *)
(* queue and ack hold one entry at most: readLoop never has to end a       *)
(* session because the first is full, nor to wait at the second.           *)
THEOREM QueuesHoldOne == Spec => []QueuesNeverFill
  <1>1. IInv => QueuesNeverFill
    BY DEF IInv, Single, QueuesNeverFill
  <1> QED BY <1>1, SessionInv, PTL

(* When no writer of e is inside WritePacket and none has failed, every    *)
(* packet WritePacket reported as sent is delivered, in rx or on its way   *)
(* into rx at a peer that is not closed.                                   *)
LEMMA IdleMeansAccepted ==
    ASSUME IInv, NEW e \in End, ~done[Peer(e)], \A w \in Writer : pc[e][w] = "idle"
    PROVE  Len(sent[e]) = Accepted(Peer(e))
  <1> DEFINE p == Peer(e)
  <1>1. TypeInv /\ Good(e) /\ Good(p) /\ p \in End
    BY GoodIsIInv, EndFacts
  <1>2. ~GivenUp(e) /\ ~Awaiting(e) /\ ~Sending(e)
    BY DEF GivenUp, Awaiting, Sending
  <1>3. ~InRequest(e)
    BY <1>1, <1>2 DEF Owed, Token, Good
  <1>4. Running(p)
    BY <1>1 DEF Lifecycle, Running, Good
  <1>5. Busy(e) = 0 /\ OnWire(e) = 0
    BY <1>2, <1>3 DEF Busy, OnWire
  <1>6. Accepted(p) \in Nat /\ Accepted(p) + 0 + 0 = Len(sent[e])
    BY <1>1, <1>2, <1>4, <1>5, Counts DEF Balance, Good
  <1> QED BY <1>6

(* A WritePacket that returned nil was accepted by the peer: readLoop has  *)
(* answered it before queueing the packet, and yet none is lost.           *)
THEOREM AnsweredIsAccepted == Spec => []AckedMeansAccepted
  <1>1. IInv => AckedMeansAccepted
    BY IdleMeansAccepted DEF AckedMeansAccepted, Accepted
  <1> QED BY <1>1, SessionInv, PTL

-----------------------------------------------------------------------------
(* The refinement.  MakeRequest is Send, a failed send of a writer takes   *)
(* its packet back, ReadPacket is Deliver; no other step shows.            *)
LEMMA SendRefines ==
    ASSUME Sealing, NEW e \in End, NEW w \in Writer, MakeRequest(e, w)
    PROVE  Channel!Next
  <1>1. body[e].data \in Packet
    BY DEF MakeRequest, Sealing
  <1>2. Channel!Send(e, body[e].data)
    BY DEF MakeRequest, Channel!Send
  <1> QED BY <1>1, <1>2 DEF Channel!Next

(* A failed request takes its packet back before it could be delivered. *)
LEMMA SendErrorRefines ==
    ASSUME IInv, NEW e \in End, NEW t \in Thread, SendError(e, t)
    PROVE  Channel!Next \/ UNCHANGED <<sent, delivered>>
  <1>1. CASE t = "resp"
    BY <1>1 DEF SendError
  <1>2. CASE t # "resp"
    <2>1. sent' = [sent EXCEPT ![e] = Front(@)] /\ UNCHANGED delivered
      BY <1>2 DEF SendError
    <2>2. Len(sent[e]) > Len(delivered[Peer(e)])
      <3>1. TypeInv /\ Balance(e) /\ Peer(e) \in End
        BY GoodIsIInv, EndFacts DEF Good
      <3>2. Busy(e) = 1
        BY <1>2 DEF SendError, Busy, Sending, Thread
      <3>3. /\ Len(sent[e]) \in Nat /\ Len(delivered[Peer(e)]) \in Nat /\ Len(rx[Peer(e)]) \in Nat
            /\ Accepted(Peer(e)) \in Nat /\ OnWire(e) \in {0, 1}
            /\ Accepted(Peer(e)) + 1 + OnWire(e) <= Len(sent[e])
            /\ \/ Accepted(Peer(e)) = Len(delivered[Peer(e)]) + Len(rx[Peer(e)]) + 1
               \/ Accepted(Peer(e)) = Len(delivered[Peer(e)]) + Len(rx[Peer(e)])
        BY <3>1, <3>2, Counts DEF Balance
      <3>4. \A a, d, r, s \in Nat, k \in {0, 1} :
              a + 1 + k <= s /\ (a = d + r + 1 \/ a = d + r) => s > d
        OBVIOUS
      <3> QED BY <3>3, <3>4
    <2>3. Channel!TakeBack(e)
      BY <2>1, <2>2 DEF Channel!TakeBack, Front, Channel!Front
    <2> QED BY <2>3 DEF Channel!Next
  <1> QED BY <1>1, <1>2

(* ReadPacket is Deliver, or the end is told and nothing shows. *)
LEMMA ReadPacketRefines ==
    ASSUME IInv, NEW e \in End, ReadPacket(e)
    PROVE  Channel!Next \/ UNCHANGED <<sent, delivered>>
  <1>1. UNCHANGED sent
    BY DEF ReadPacket
  <1>2. CASE /\ rx[e] # <<>>
             /\ delivered' = [delivered EXCEPT ![e] = Append(@, Head(rx[e]))]
    <2>1. /\ Len(delivered[e]) + 1 \in 1 .. Len(sent[Peer(e)])
          /\ Head(rx[e]) = sent[Peer(e)][Len(delivered[e]) + 1]
      BY <1>2, DeliveredNext
    <2>2. Len(delivered[e]) + 1 <= Len(sent[Peer(e)])
      <3>1. Len(sent[Peer(e)]) \in Nat /\ Len(delivered[e]) \in Nat
        BY EndFacts, Counts DEF IInv
      <3> QED BY <2>1, <3>1
    <2>3. Channel!Deliver(e)
      BY <1>1, <1>2, <2>1, <2>2 DEF Channel!Deliver
    <2> QED BY <2>3 DEF Channel!Next
  <1>3. CASE UNCHANGED delivered
    BY <1>1, <1>3
  <1> QED BY <1>2, <1>3 DEF ReadPacket

(* Nothing is sent or delivered at the start. *)
LEMMA ChannelInit == Init => Channel!Init
  BY DEF Init, Channel!Init

(* Every step of the session is a step of the channel, or does not show. *)
LEMMA ChannelNext == IInv /\ Sealing /\ [Next]_vars => [Channel!Next]_(Channel!vars)
  <1> SUFFICES ASSUME IInv, Sealing, [Next]_vars
               PROVE  Channel!Next \/ UNCHANGED <<sent, delivered>>
    BY DEF Channel!vars
  <1>1. CASE UNCHANGED vars
    BY <1>1 DEF vars, userVars
  <1>2. CASE Next
    <2>1. "resp" \in Thread /\ Writer \subseteq Thread
      BY DEF Thread
    <2>2. PICK e \in End : \/ \E w \in Writer, d \in Packet : Seal(e, w, d)
                           \/ \E w \in Writer : WriterNext(e, w)
                           \/ ResponderNext(e)
                           \/ ReaderNext(e)
                           \/ ReadPacket(e)
                           \/ AppClose(e)
                           \/ ConnDrop(e)
      BY <1>2 DEF Next
    <2>3. CASE \E w \in Writer, d \in Packet : Seal(e, w, d)
      BY <2>3 DEF Seal, userVars
    <2>4. ASSUME NEW w \in Writer, WriterNext(e, w)
          PROVE  Channel!Next \/ UNCHANGED <<sent, delivered>>
      <3>1. CASE SendError(e, w)
        BY <2>1, <3>1, SendErrorRefines
      <3>2. CASE LockWire(e, w) \/ WritePiece(e, w) \/ ReceiveAck(e, w) \/ AwaitEnds(e, w)
        BY <3>2 DEF LockWire, WritePiece, ReceiveAck, AwaitEnds, userVars
      <3>3. CASE MakeRequest(e, w)
        BY <3>3, SendRefines
      <3> QED BY <2>4, <3>1, <3>2, <3>3 DEF WriterNext
    <2>5. CASE ResponderNext(e)
      <3>1. CASE SendError(e, "resp")
        BY <2>1, <3>1, SendErrorRefines
      <3>2. CASE \/ TakeResponse(e) \/ ResponderStops(e) \/ LockWire(e, "resp")
                 \/ WritePiece(e, "resp")
        BY <3>2 DEF TakeResponse, ResponderStops, LockWire, WritePiece, userVars
      <3> QED BY <2>5, <3>1, <3>2 DEF ResponderNext
    <2>6. CASE ReaderNext(e)
      BY <2>6 DEF ReaderNext, ReadHead, ReadBody, ReadFails, PushAck, PushRx, userVars
    <2>7. CASE ReadPacket(e)
      BY <2>7, ReadPacketRefines
    <2>8. CASE AppClose(e) \/ ConnDrop(e)
      BY <2>8 DEF AppClose, ConnDrop, userVars
    <2> QED BY <2>2, <2>3, <2>4, <2>5, <2>6, <2>7, <2>8
  <1> QED BY <1>1, <1>2

(* Whatever the goroutines of both ends interleave and whenever the        *)
(* session dies, each direction is a packet channel: ReadPacket returns    *)
(* the packets WritePacket took, in order, each once, and never one whose  *)
(* send failed.                                                            *)
THEOREM SessionIsPacketChannel == Spec => ImplementsPacketChannel
  BY SessionInv, ChannelInit, ChannelNext, PTL DEF Spec, ImplementsPacketChannel, Channel!Spec

-----------------------------------------------------------------------------
(* Until something befalls the session.  Wherever the request of e or its  *)
(* answer is, it bears the CSeq that the writer of e waits for; *)
Numbered(e) == LET p == Peer(e) IN
    /\ \A i \in 1 .. Len(net[e]) : RequestAt(e, i) => net[e][i].msg.cseq = seq[e]
    /\ \A i \in 1 .. Len(net[p]) : ReplyAt(p, i) => net[p][i].msg.cseq = seq[e]
    /\ \A i \in 1 .. Len(responses[p]) : responses[p][i] = seq[e]
    /\ Replying(p) => reply[p] = seq[e]
    /\ Acking(e) => held[e].cseq = seq[e]
    /\ \A i \in 1 .. Len(ack[e]) : ack[e][i] = seq[e]

(* and no writer waits without it, nor has one failed or a responder gone. *)
Waited(e) ==
    /\ pc[e]["resp"] # "stopped"
    /\ \A w \in Writer : pc[e][w] # "failed"
    /\ Awaiting(e) => Token(e)

Answered == cause \/ \A e \in End : Numbered(e) /\ Waited(e)

(* A step that leaves the CSeq numbers and their places alone. *)
LEMMA NumberedFrame ==
    ASSUME NEW e \in End, Numbered(e),
           UNCHANGED <<seq[e], net[e], net[Peer(e)], responses[Peer(e)], reply[Peer(e)],
                       held[e], ack[e]>>,
           Replying(Peer(e))' => Replying(Peer(e)), Acking(e)' => Acking(e)
    PROVE  Numbered(e)'
BY DEF Numbered, RequestAt, ReplyAt

(* And one that leaves the token where it is. *)
LEMMA TokenFrame ==
    ASSUME NEW e \in End,
           UNCHANGED <<net[e], net[Peer(e)], responses[Peer(e)], ack[e]>>,
           Replying(Peer(e))' <=> Replying(Peer(e)), Acking(e)' <=> Acking(e)
    PROVE  Token(e)' <=> Token(e)
BY DEF Token, InRequest, InReply, RequestAt, ReplyAt, Queued, Acked

(* While nothing has befallen the session, nobody gives up. *)
LEMMA NobodyGivesUp ==
    ASSUME IInv, IInv', ~cause', NEW e \in End, UNCHANGED plan
    PROVE  /\ \A t \in Thread : ~SendError(e, t)
           /\ \A w \in Writer : ~AwaitEnds(e, w)
           /\ ~ResponderStops(e) /\ ~Ends(e)
  <1>1. TypeInv /\ Good(e) /\ Good(Peer(e))
    BY GoodIsIInv
  <1>2. /\ cause \/ (open[e] /\ open[Peer(e)] /\ ~done[e])
        /\ open'[e] /\ ~done'[e]
    BY <1>1, GoodIsIInv DEF Good, Untouched, IInv
  <1>3. ASSUME NEW t \in Thread PROVE ~SendError(e, t)
    BY <1>1, <1>2, SendErrorEffect DEF Good
  <1>4. ASSUME NEW w \in Writer PROVE ~AwaitEnds(e, w)
    BY <1>1, <1>2, AwaitEndsEffect
  <1>5. ~ResponderStops(e)
    BY <1>1, <1>2, ResponderStopsEffect DEF ResponderStops
  <1>6. ~Ends(e)
    BY <1>1, <1>2, EndsEffect
  <1> QED BY <1>3, <1>4, <1>5, <1>6

(* Where there is no token, no CSeq can be wrong. *)
LEMMA NoTokenNumbered ==
    ASSUME NEW e \in End, ~Token(e)'
    PROVE  Numbered(e)'
  <1>1. Len(<<>>) = 0 /\ 1 .. 0 = {}
    OBVIOUS
  <1> QED BY <1>1 DEF Numbered, Token, InRequest, InReply, Queued, Acked

(* The first of at most one. *)
LEMMA OneEntry ==
    ASSUME NEW s \in Seq(Nat), s # <<>>, Len(s) <= 1
    PROVE  Head(s) = s[1] /\ 1 \in 1 .. Len(s) /\ Tail(s) = <<>>
  <1>1. /\ Len(s) \in Nat /\ Len(s) > 0 /\ Head(s) = s[1]
        /\ Tail(s) \in Seq(Nat) /\ Len(Tail(s)) = Len(s) - 1
    BY TailFacts
  <1>2. Len(s) = 1
    <2>1. \A n \in Nat : n > 0 /\ n <= 1 => n = 1
      OBVIOUS
    <2> QED BY <1>1, <2>1
  <1>3. 1 - 1 = 0 /\ 1 \in 1 .. 1
    OBVIOUS
  <1>4. Len(Tail(s)) = 0
    BY <1>1, <1>2, <1>3, Zenon
  <1> QED BY <1>1, <1>2, <1>3, <1>4, EmptySeq

(* A request is made when none of e is out. *)
LEMMA MakeRequestAnswered ==
    ASSUME IInv, ~cause, Answered, NEW e \in End, NEW w \in Writer, NEW d \in Packet,
           MakeRequest(e, w), body[e].data = d, UNCHANGED plan
    PROVE  Answered'
  <1> DEFINE p == Peer(e)
  <1>1. TypeInv /\ Good(e) /\ p \in End /\ Peer(p) = e /\ p # e /\ End = {e, p}
    BY GoodIsIInv, EndFacts
  <1>2. Numbered(e) /\ Waited(e) /\ Numbered(p) /\ Waited(p)
    BY <1>1 DEF Answered
  <1>3. /\ pc'[e][w] = "lock" /\ \A s \in Thread \ {w} : pc'[e][s] = pc[e][s]
        /\ pc'[p] = pc[p] /\ seq'[p] = seq[p]
        /\ UNCHANGED <<reply, recvSeq, rd, held, net, ack, responses, rx, done, open, eof,
                       delivered, cause>>
    BY <1>1, MakeRequestEffect
  <1>4. \A v \in Writer : v \in Thread \ {w} \/ v = w
    BY DEF Thread
  <1>5. "resp" \in Thread \ {w}
    BY SipAssumption DEF Thread
  <1>6. ~Awaiting(e) /\ ~GivenUp(e) /\ ~Awaiting(e)'
    BY <1>1, <1>2, <1>3, <1>4 DEF MakeRequest, Threads, Awaiting, GivenUp, Waited, Good
  <1>7. ~Token(e)
    BY <1>1, <1>6 DEF Owed, Good
  <1>8. (Replying(e)' <=> Replying(e)) /\ (Replying(p)' <=> Replying(p))
    BY <1>1, <1>3, <1>5 DEF Replying
  <1>9. (Acking(e)' <=> Acking(e)) /\ (Acking(p)' <=> Acking(p))
    BY <1>3 DEF Acking
  <1>10. Numbered(e)'
    <2>1. ~Token(e)'
      BY <1>3, <1>7, <1>8, <1>9, TokenFrame
    <2> QED BY <2>1, NoTokenNumbered
  <1>11. Numbered(p)'
    BY <1>1, <1>2, <1>3, <1>8, <1>9, NumberedFrame
  <1>12. Waited(e)'
    BY <1>2, <1>3, <1>4, <1>5, <1>6 DEF Waited
  <1>13. Waited(p)'
    <2>1. Token(p)' <=> Token(p)
      BY <1>1, <1>3, <1>8, <1>9, TokenFrame
    <2> QED BY <1>2, <1>3, <2>1 DEF Waited, Awaiting
  <1> QED BY <1>1, <1>10, <1>11, <1>12, <1>13 DEF Answered

(* A step of e that moves no token and changes no CSeq in its place. *)
LEMMA QuietAnswered ==
    ASSUME IInv, ~cause, Answered, NEW e \in End, pc'[Peer(e)] = pc[Peer(e)],
           Replying(e)' <=> Replying(e),
           Acking(e)' <=> Acking(e), Acking(Peer(e))' <=> Acking(Peer(e)),
           pc'[e]["resp"] # "stopped",
           \A w \in Writer : pc'[e][w] # "failed",
           \A w \in Writer : pc'[e][w] = "await" <=> pc[e][w] = "await",
           UNCHANGED <<seq, reply, held, net, ack, responses>>
    PROVE  Answered'
  <1> DEFINE p == Peer(e)
  <1>1. p \in End /\ Peer(p) = e /\ End = {e, p}
    BY EndFacts
  <1>2. Numbered(e) /\ Waited(e) /\ Numbered(p) /\ Waited(p)
    BY <1>1 DEF Answered
  <1>3. Replying(p)' <=> Replying(p)
    BY DEF Replying
  <1>4. Numbered(e)' /\ Numbered(p)'
    BY <1>1, <1>2, <1>3, NumberedFrame
  <1>5. (Token(e)' <=> Token(e)) /\ (Token(p)' <=> Token(p))
    BY <1>1, <1>3, TokenFrame
  <1>6. Waited(e)' /\ Waited(p)'
    BY <1>2, <1>5 DEF Waited, Awaiting
  <1> QED BY <1>1, <1>4, <1>6 DEF Answered

(* Sealing is such a step; *)
LEMMA SealAnswered ==
    ASSUME IInv, ~cause, Answered, NEW e \in End, NEW w \in Writer, NEW d \in Packet,
           Seal(e, w, d), UNCHANGED plan
    PROVE  Answered'
  <1>1. TypeInv /\ Waited(e)
    BY GoodIsIInv DEF Answered
  <1>2. /\ pc'[e][w] = "seal" /\ \A s \in Thread \ {w} : pc'[e][s] = pc[e][s]
        /\ pc'[Peer(e)] = pc[Peer(e)]
        /\ UNCHANGED <<seq, reply, recvSeq, rd, held, net, ack, responses, rx, done, open, eof,
                       sent, delivered, cause>>
    BY <1>1, SealEffect
  <1>3. pc[e][w] = "idle" /\ "resp" \in Thread \ {w} /\ Writer \subseteq Thread
    BY SipAssumption DEF Seal, Thread
  <1>4. /\ Replying(e)' <=> Replying(e)
        /\ Acking(e)' <=> Acking(e)
        /\ Acking(Peer(e))' <=> Acking(Peer(e))
    BY <1>2, <1>3 DEF Replying, Acking
  <1>5. /\ pc'[e]["resp"] # "stopped"
        /\ \A v \in Writer : pc'[e][v] # "failed"
        /\ \A v \in Writer : pc'[e][v] = "await" <=> pc[e][v] = "await"
    BY <1>1, <1>2, <1>3 DEF Waited
  <1>6. pc'[Peer(e)] = pc[Peer(e)] /\ UNCHANGED <<seq, reply, held, net, ack, responses>>
    BY <1>2
  <1> QED BY <1>4, <1>5, <1>6, QuietAnswered DEF Replying, Acking

(* so is taking the wire mutex, *)
LEMMA LockWireAnswered ==
    ASSUME IInv, ~cause, Answered, NEW e \in End, NEW t \in Thread, LockWire(e, t),
           UNCHANGED plan
    PROVE  Answered'
  <1>1. TypeInv /\ Waited(e)
    BY GoodIsIInv DEF Answered
  <1>2. /\ pc'[e][t] = "head" /\ \A s \in Thread \ {t} : pc'[e][s] = pc[e][s]
        /\ pc'[Peer(e)] = pc[Peer(e)]
        /\ UNCHANGED <<seq, reply, recvSeq, rd, held, net, ack, responses, rx, done, open, eof,
                       sent, delivered, cause>>
    BY <1>1, LockWireEffect
  <1>3. pc[e][t] = "lock" /\ "resp" \in Thread /\ Writer \subseteq Thread
    BY DEF LockWire, Thread
  <1>4. /\ Replying(e)' <=> Replying(e)
        /\ Acking(e)' <=> Acking(e)
        /\ Acking(Peer(e))' <=> Acking(Peer(e))
    BY <1>2, <1>3 DEF Replying, Acking
  <1>5. /\ pc'[e]["resp"] # "stopped"
        /\ \A w \in Writer : pc'[e][w] # "failed"
        /\ \A w \in Writer : pc'[e][w] = "await" <=> pc[e][w] = "await"
    BY <1>1, <1>2, <1>3 DEF Waited
  <1>6. pc'[Peer(e)] = pc[Peer(e)] /\ UNCHANGED <<seq, reply, held, net, ack, responses>>
    BY <1>2
  <1> QED BY <1>4, <1>5, <1>6, QuietAnswered DEF Replying, Acking

(* and putting a packet into rx; *)
LEMMA RxPushedAnswered ==
    ASSUME IInv, ~cause, Answered, NEW e \in End, RxPushed(e), UNCHANGED plan
    PROVE  Answered'
  <1>1. TypeInv /\ Good(e) /\ Waited(e)
    BY GoodIsIInv DEF Answered
  <1>2. /\ rd[e] = "rx" /\ rd'[e] = "first" /\ rd'[Peer(e)] = rd[Peer(e)]
        /\ UNCHANGED <<seq, pc, reply, recvSeq, held, net, ack, responses, done, open, eof, sent,
                       delivered, cause>>
    BY <1>1, RxPushedEffect DEF Good
  <1> QED BY <1>1, <1>2, QuietAnswered DEF Replying, Acking, Waited

(* and so is taking one out of it. *)
LEMMA ReadPacketAnswered ==
    ASSUME IInv, ~cause, Answered, NEW e \in End, ReadPacket(e), UNCHANGED plan
    PROVE  Answered'
  <1>1. TypeInv /\ Waited(e)
    BY GoodIsIInv DEF Answered
  <1>2. UNCHANGED <<seq, pc, reply, rd, held, net, ack, responses>>
    BY <1>1, ReadPacketEffect
  <1> QED BY <1>1, <1>2, QuietAnswered DEF Replying, Acking, Waited

(* A writer takes the answer to its own request. *)
LEMMA ReceiveAckAnswered ==
    ASSUME IInv, ~cause, Answered, NEW e \in End, NEW w \in Writer, ReceiveAck(e, w),
           UNCHANGED plan
    PROVE  Answered'
  <1> DEFINE p == Peer(e)
  <1>1. TypeInv /\ Good(e) /\ p \in End /\ Peer(p) = e /\ p # e /\ End = {e, p}
    BY GoodIsIInv, EndFacts
  <1>2. Numbered(e) /\ Waited(e) /\ Numbered(p) /\ Waited(p)
    BY <1>1 DEF Answered
  <1>3. /\ ack[e] # <<>> /\ ack'[e] = Tail(ack[e]) /\ ack'[p] = ack[p]
        /\ \A s \in Thread \ {w} : pc'[e][s] = pc[e][s]
        /\ pc'[p] = pc[p]
        /\ UNCHANGED <<seq, reply, recvSeq, rd, held, net, responses, rx, done, open, eof, sent,
                       delivered, cause>>
    BY <1>1, ReceiveAckEffect
  <1>4. ack[e] \in Seq(Nat) /\ Len(ack[e]) <= 1
    BY <1>1 DEF TypeInv, Single, Good
  <1>5. Head(ack[e]) = seq[e]
    BY <1>2, <1>3, <1>4, OneEntry DEF Numbered
  <1>6. pc'[e][w] = "idle" /\ pc[e][w] = "await"
    <2>1. Goto(e, w, "idle") /\ pc[e][w] = "await"
      BY <1>5 DEF ReceiveAck
    <2>2. "idle" \in Where /\ w \in Thread
      BY DEF Where, Thread
    <2> QED BY <1>1, <2>1, <2>2, Moved
  <1>7. ack'[e] = <<>>
    BY <1>3, <1>4, OneEntry
  <1>8. \A v \in Writer : v \in Thread \ {w} \/ v = w
    BY DEF Thread
  <1>9. "resp" \in Thread \ {w}
    BY SipAssumption DEF Thread
  <1>10. ~Awaiting(e)'
    BY <1>1, <1>3, <1>6, <1>8 DEF Awaiting, Threads, Good
  <1>11. (Replying(e)' <=> Replying(e)) /\ (Replying(p)' <=> Replying(p))
    BY <1>3, <1>9 DEF Replying
  <1>12. (Acking(e)' <=> Acking(e)) /\ (Acking(p)' <=> Acking(p))
    BY <1>3 DEF Acking
  <1>13. Numbered(e)'
    <2>1. Len(<<>>) = 0 /\ 1 .. 0 = {}
      OBVIOUS
    <2> QED BY <1>2, <1>3, <1>7, <1>11, <1>12, <2>1 DEF Numbered, RequestAt, ReplyAt
  <1>14. Waited(e)'
    BY <1>2, <1>3, <1>6, <1>8, <1>9, <1>10 DEF Waited
  <1>15. Numbered(p)'
    BY <1>1, <1>2, <1>3, <1>11, <1>12, NumberedFrame
  <1>16. Waited(p)'
    <2>1. Token(p)' <=> Token(p)
      BY <1>1, <1>3, <1>11, <1>12, TokenFrame
    <2> QED BY <1>2, <1>3, <2>1 DEF Waited, Awaiting
  <1> QED BY <1>1, <1>13, <1>14, <1>15, <1>16 DEF Answered

(* The responder takes the CSeq that the peer waits for. *)
LEMMA TakeResponseAnswered ==
    ASSUME IInv, ~cause, Answered, NEW e \in End, TakeResponse(e), UNCHANGED plan
    PROVE  Answered'
  <1> DEFINE p == Peer(e)
  <1>1. TypeInv /\ Good(e) /\ p \in End /\ Peer(p) = e /\ p # e /\ End = {e, p}
    BY GoodIsIInv, EndFacts
  <1>2. Numbered(e) /\ Waited(e) /\ Numbered(p) /\ Waited(p)
    BY <1>1 DEF Answered
  <1>3. /\ responses[e] # <<>> /\ responses'[e] = Tail(responses[e])
        /\ responses'[p] = responses[p] /\ reply'[p] = reply[p]
        /\ pc'[e]["resp"] = "lock" /\ \A s \in Writer : pc'[e][s] = pc[e][s]
        /\ pc'[p] = pc[p]
        /\ UNCHANGED <<seq, recvSeq, rd, held, net, ack, rx, done, open, eof, sent, delivered,
                       cause>>
    BY <1>1, TakeResponseEffect
  <1>4. responses[e] \in Seq(Nat) /\ Len(responses[e]) <= 1
    BY <1>1 DEF TypeInv, Single, Good
  <1>5. reply'[e] = seq[p]
    <2>1. reply'[e] = Head(responses[e])
      BY <1>1 DEF TakeResponse, TypeInv
    <2>2. Head(responses[e]) = responses[e][1] /\ 1 \in 1 .. Len(responses[e])
      BY <1>3, <1>4, OneEntry
    <2> QED BY <1>1, <1>2, <2>1, <2>2 DEF Numbered
  <1>6. responses'[e] = <<>>
    BY <1>3, <1>4, OneEntry
  <1>7. (Acking(e)' <=> Acking(e)) /\ (Acking(p)' <=> Acking(p))
    BY <1>3 DEF Acking
  <1>8. Replying(e)' /\ (Replying(p)' <=> Replying(p))
    BY <1>3 DEF Replying
  <1>9. Numbered(p)'
    <2>1. Len(<<>>) = 0 /\ 1 .. 0 = {}
      OBVIOUS
    <2> QED BY <1>1, <1>2, <1>3, <1>5, <1>6, <1>7, <2>1 DEF Numbered, RequestAt, ReplyAt
  <1>10. Waited(p)'
    BY <1>1, <1>2, <1>3, <1>8 DEF Waited, Token
  <1>11. Numbered(e)'
    BY <1>1, <1>2, <1>3, <1>7, <1>8, NumberedFrame
  <1>12. Waited(e)'
    <2>1. Token(e)' <=> Token(e)
      BY <1>1, <1>3, <1>7, <1>8, TokenFrame
    <2> QED BY <1>2, <1>3, <2>1 DEF Waited, Awaiting
  <1> QED BY <1>1, <1>9, <1>10, <1>11, <1>12 DEF Answered

(* readLoop gives the CSeq of the answer it has in hand to the writer. *)
LEMMA AckPushedAnswered ==
    ASSUME IInv, ~cause, Answered, NEW e \in End, AckPushed(e), UNCHANGED plan
    PROVE  Answered'
  <1> DEFINE p == Peer(e)
  <1>1. TypeInv /\ Good(e) /\ p \in End /\ Peer(p) = e /\ p # e /\ End = {e, p}
    BY GoodIsIInv, EndFacts
  <1>2. Numbered(e) /\ Waited(e) /\ Numbered(p) /\ Waited(p)
    BY <1>1 DEF Answered
  <1>3. /\ rd[e] = "ack" /\ rd'[e] = "first" /\ rd'[p] = rd[p]
        /\ ack'[e] = Append(ack[e], held[e].cseq) /\ ack'[p] = ack[p]
        /\ held[e].cseq \in Nat
        /\ UNCHANGED <<seq, pc, reply, recvSeq, held, net, responses, rx, done, open, eof, sent,
                       delivered, cause>>
    BY <1>1, AckPushedEffect
  <1>4. ack[e] \in Seq(Nat) /\ ack[e] = <<>>
    BY <1>1, <1>3 DEF TypeInv, OneToken, Acking, Acked, Good
  <1>5. ack'[e] = <<seq[e]>>
    BY <1>2, <1>3, <1>4 DEF Numbered, Acking
  <1>6. ~Acking(e)' /\ (Acking(p)' <=> Acking(p)) /\ Acked(e)'
    BY <1>3, <1>5 DEF Acking, Acked
  <1>7. (Replying(e)' <=> Replying(e)) /\ (Replying(p)' <=> Replying(p))
    BY <1>3 DEF Replying
  <1>8. Numbered(e)'
    <2>1. Len(ack'[e]) = 1 /\ ack'[e][1] = seq[e] /\ \A i \in 1 .. 1 : i = 1
      BY <1>5
    <2> QED BY <1>2, <1>3, <1>6, <1>7, <2>1 DEF Numbered, RequestAt, ReplyAt
  <1>9. Waited(e)'
    BY <1>2, <1>3, <1>6 DEF Waited, Token
  <1>10. Numbered(p)'
    BY <1>1, <1>2, <1>3, <1>6, <1>7, NumberedFrame
  <1>11. Waited(p)'
    <2>1. Token(p)' <=> Token(p)
      BY <1>1, <1>3, <1>6, <1>7, TokenFrame
    <2> QED BY <1>2, <1>3, <2>1 DEF Waited, Awaiting
  <1> QED BY <1>1, <1>8, <1>9, <1>10, <1>11 DEF Answered
(* A direction that gains a piece keeps its numbers if the body that goes  *)
(* out bears the right one;                                                *)
LEMMA GrownNumbered ==
    ASSUME TypeInv, NEW e \in End, Numbered(e), Numbered(Peer(e)), NEW x \in Piece,
           net'[e] = Append(net[e], x), net'[Peer(e)] = net[Peer(e)],
           UNCHANGED <<seq, reply, rd, held, responses, ack>>,
           Replying(e)' => Replying(e), Replying(Peer(e))' => Replying(Peer(e)),
           x.part = "body" /\ x.msg.kind = "MESSAGE" => x.msg.cseq = seq[e],
           x.part = "body" /\ x.msg.kind = "200 OK" => x.msg.cseq = seq[Peer(e)]
    PROVE  Numbered(e)' /\ Numbered(Peer(e))'
  <1> DEFINE p == Peer(e)
  <1>1. p \in End /\ Peer(p) = e
    BY EndFacts
  <1>2. /\ 1 .. Len(net'[e]) = (1 .. Len(net[e])) \cup {Len(net[e]) + 1}
        /\ net'[e][Len(net[e]) + 1] = x
        /\ \A i \in 1 .. Len(net[e]) : net'[e][i] = net[e][i]
    BY Grown
  <1>3. /\ \A i \in 1 .. Len(net[e]) : /\ RequestAt(e, i)' <=> RequestAt(e, i)
                                       /\ ReplyAt(e, i)' <=> ReplyAt(e, i)
        /\ \A i \in {Len(net[e]) + 1} :
             /\ RequestAt(e, i)' <=> (x.part = "body" /\ x.msg.kind = "MESSAGE")
             /\ ReplyAt(e, i)' <=> (x.part = "body" /\ x.msg.kind = "200 OK")
    BY GrownTokens
  <1>4. \A i \in 1 .. Len(net'[e]) : RequestAt(e, i)' => net'[e][i].msg.cseq = seq[e]
    BY <1>2, <1>3 DEF Numbered
  <1>5. \A i \in 1 .. Len(net'[e]) : ReplyAt(e, i)' => net'[e][i].msg.cseq = seq[p]
    <2>1. \A i \in 1 .. Len(net[e]) : ReplyAt(e, i) => net[e][i].msg.cseq = seq[p]
      BY <1>1 DEF Numbered
    <2> QED BY <1>2, <1>3, <2>1
  <1>6. /\ \A i \in 1 .. Len(net'[p]) : RequestAt(p, i)' => net'[p][i].msg.cseq = seq[p]
        /\ \A i \in 1 .. Len(net'[p]) : ReplyAt(p, i)' => net'[p][i].msg.cseq = seq[e]
    BY <1>1 DEF Numbered, RequestAt, ReplyAt
  <1>7. (Acking(e)' => Acking(e)) /\ (Acking(p)' => Acking(p))
    BY DEF Acking
  <1>8. Numbered(e)'
    BY <1>4, <1>6, <1>7 DEF Numbered
  <1>9. Numbered(p)'
    BY <1>1, <1>5, <1>6, <1>7 DEF Numbered
  <1> QED BY <1>8, <1>9

(* and one that loses its front piece, if what is made of the piece does.  *)
LEMMA ShrunkNumbered ==
    ASSUME TypeInv, NEW e \in End, Numbered(e), Numbered(Peer(e)), Single(Peer(e)),
           net[Peer(e)] # <<>>, net'[Peer(e)] = Tail(net[Peer(e)]), net'[e] = net[e],
           responses'[Peer(e)] = responses[Peer(e)],
           rd'[Peer(e)] = rd[Peer(e)], held'[Peer(e)] = held[Peer(e)],
           UNCHANGED <<seq, pc, reply, ack>>,
           Acking(e)' => held'[e].cseq = seq[e],
           \A i \in 1 .. Len(responses'[e]) : responses'[e][i] = seq[Peer(e)]
    PROVE  Numbered(e)' /\ Numbered(Peer(e))'
  <1> DEFINE p == Peer(e)
  <1>1. p \in End /\ Peer(p) = e
    BY EndFacts
  <1>2. \A i \in 1 .. Len(net'[p]) : i + 1 \in 1 .. Len(net[p]) /\ net'[p][i] = net[p][i + 1]
    BY <1>1, Shrunk
  <1>3. \A i \in 1 .. Len(net'[p]) : /\ RequestAt(p, i)' <=> RequestAt(p, i + 1)
                                     /\ ReplyAt(p, i)' <=> ReplyAt(p, i + 1)
    BY <1>1, ShrunkTokens
  <1>4. \A i \in 1 .. Len(net'[p]) : RequestAt(p, i)' => net'[p][i].msg.cseq = seq[p]
    BY <1>2, <1>3 DEF Numbered
  <1>5. \A i \in 1 .. Len(net'[p]) : ReplyAt(p, i)' => net'[p][i].msg.cseq = seq[e]
    BY <1>2, <1>3 DEF Numbered
  <1>6. /\ \A i \in 1 .. Len(net'[e]) : RequestAt(e, i)' => net'[e][i].msg.cseq = seq[e]
        /\ \A i \in 1 .. Len(net'[e]) : ReplyAt(e, i)' => net'[e][i].msg.cseq = seq[p]
    <2>1. /\ \A i \in 1 .. Len(net[e]) : RequestAt(e, i) => net[e][i].msg.cseq = seq[e]
          /\ \A i \in 1 .. Len(net[e]) : ReplyAt(e, i) => net[e][i].msg.cseq = seq[p]
      BY <1>1 DEF Numbered
    <2> QED BY <2>1 DEF RequestAt, ReplyAt
  <1>7. (Acking(p)' => Acking(p)) /\ (Replying(e)' => Replying(e)) /\ (Replying(p)' => Replying(p))
    BY DEF Acking, Replying
  <1>8. Numbered(e)'
    BY <1>5, <1>6, <1>7 DEF Numbered
  <1>9. Numbered(p)'
    BY <1>1, <1>4, <1>6, <1>7 DEF Numbered
  <1> QED BY <1>8, <1>9

(* The head of a message moves no token. *)
LEMMA WriteHeadAnswered ==
    ASSUME IInv, Sealing, ~cause, Answered, NEW e \in End, NEW t \in Thread, WritePiece(e, t),
           UNCHANGED plan, pc[e][t] = "head"
    PROVE  Answered'
  <1> DEFINE p == Peer(e)
             x == [part |-> pc[e][t], msg |-> Due(e, t)]
  <1>1. TypeInv /\ Good(e) /\ p \in End /\ Peer(p) = e /\ p # e /\ End = {e, p}
    BY GoodIsIInv, EndFacts
  <1>2. Numbered(e) /\ Waited(e) /\ Numbered(p) /\ Waited(p)
    BY <1>1 DEF Answered
  <1>3. /\ x \in Piece
        /\ net'[e] = Append(net[e], x) /\ net'[p] = net[p]
        /\ pc'[e][t] = "body" /\ \A s \in Thread \ {t} : pc'[e][s] = pc[e][s]
        /\ pc'[p] = pc[p]
        /\ UNCHANGED <<seq, reply, recvSeq, rd, held, ack, responses, rx, done, open, eof, sent,
                       delivered, cause>>
    BY <1>1, WritePieceEffect DEF Good
  <1>4. x.part # "body"
    OBVIOUS
  <1>5. (InRequest(e)' <=> InRequest(e)) /\ (InReply(e)' <=> InReply(e))
    BY <1>1, <1>3, <1>4, GrownTokens
  <1>6. "resp" \in Thread /\ Writer \subseteq Thread
    BY DEF Thread
  <1>7. (Replying(e)' <=> Replying(e)) /\ (Replying(p)' <=> Replying(p))
    BY <1>3, <1>6 DEF Replying
  <1>8. Numbered(e)' /\ Numbered(p)'
    BY <1>1, <1>2, <1>3, <1>4, <1>7, GrownNumbered
  <1>9. /\ InRequest(p)' <=> InRequest(p)
        /\ InReply(p)' <=> InReply(p)
        /\ UNCHANGED <<Queued(e), Queued(p), Acking(e), Acking(p), Acked(e), Acked(p)>>
    BY <1>3 DEF InRequest, InReply, RequestAt, ReplyAt, Queued, Acking, Acked
  <1>10. (Token(e)' <=> Token(e)) /\ (Token(p)' <=> Token(p))
    BY <1>1, <1>5, <1>7, <1>9 DEF Token
  <1>11. Waited(e)'
    <2>1. /\ \A v \in Writer : pc'[e][v] # "failed"
          /\ \A v \in Writer : pc'[e][v] = "await" => pc[e][v] = "await"
          /\ pc'[e]["resp"] # "stopped"
      BY <1>2, <1>3, <1>6 DEF Waited
    <2> QED BY <1>2, <1>10, <2>1 DEF Waited, Awaiting
  <1>12. Waited(p)'
    BY <1>2, <1>3, <1>10 DEF Waited, Awaiting
  <1> QED BY <1>1, <1>8, <1>11, <1>12 DEF Answered

(* The reply carries the CSeq that the peer waits for. *)
LEMMA WriteReplyAnswered ==
    ASSUME IInv, Sealing, ~cause, Answered, NEW e \in End, WritePiece(e, "resp"), UNCHANGED plan,
           pc[e]["resp"] = "body"
    PROVE  Answered'
  <1> DEFINE p == Peer(e)
             x == [part |-> pc[e]["resp"], msg |-> Due(e, "resp")]
  <1>1. TypeInv /\ Good(e) /\ p \in End /\ Peer(p) = e /\ p # e /\ End = {e, p}
    BY GoodIsIInv, EndFacts
  <1>2. Numbered(e) /\ Waited(e) /\ Numbered(p) /\ Waited(p)
    BY <1>1 DEF Answered
  <1>3. "resp" \in Thread /\ Writer \subseteq Thread \ {"resp"}
    BY SipAssumption DEF Thread
  <1>4. /\ x \in Piece
        /\ net'[e] = Append(net[e], x) /\ net'[p] = net[p]
        /\ pc'[e]["resp"] = "idle" /\ \A s \in Thread \ {"resp"} : pc'[e][s] = pc[e][s]
        /\ pc'[p] = pc[p]
        /\ UNCHANGED <<seq, reply, recvSeq, rd, held, ack, responses, rx, done, open, eof, sent,
                       delivered, cause>>
    BY <1>1, <1>3, WritePieceEffect DEF Good
  <1>5. /\ x.part = "body" /\ x.msg.kind = "200 OK" /\ x.msg.kind # "MESSAGE"
        /\ x.msg.cseq = reply[e]
    BY DEF Due, Response
  <1>6. Replying(e) /\ ~Replying(e)' /\ (Replying(p)' <=> Replying(p))
    BY <1>4 DEF Replying
  <1>7. x.msg.cseq = seq[p]
    BY <1>1, <1>2, <1>5, <1>6 DEF Numbered
  <1>8. (InRequest(e)' <=> InRequest(e)) /\ InReply(e)'
    BY <1>1, <1>4, <1>5, GrownTokens
  <1>9. Numbered(e)' /\ Numbered(p)'
    BY <1>1, <1>2, <1>4, <1>5, <1>6, <1>7, GrownNumbered
  <1>10. /\ InReply(p)' <=> InReply(p)
         /\ UNCHANGED <<Queued(p), Acking(e), Acked(e)>>
    BY <1>4 DEF InReply, ReplyAt, Queued, Acking, Acked
  <1>11. (Token(e)' <=> Token(e)) /\ Token(p)'
    BY <1>1, <1>6, <1>8, <1>10 DEF Token
  <1>12. Waited(e)'
    BY <1>2, <1>3, <1>4, <1>11 DEF Waited, Awaiting
  <1>13. Waited(p)'
    BY <1>2, <1>4, <1>11 DEF Waited
  <1> QED BY <1>1, <1>9, <1>12, <1>13 DEF Answered

(* The request takes the CSeq that its writer goes on to wait for. *)
LEMMA WriteRequestAnswered ==
    ASSUME IInv, Sealing, ~cause, Answered, NEW e \in End, NEW w \in Writer, WritePiece(e, w),
           UNCHANGED plan, pc[e][w] = "body"
    PROVE  Answered'
  <1> DEFINE p == Peer(e)
             x == [part |-> pc[e][w], msg |-> Due(e, w)]
  <1>1. TypeInv /\ Good(e) /\ p \in End /\ Peer(p) = e /\ p # e /\ End = {e, p}
    BY GoodIsIInv, EndFacts
  <1>2. Numbered(e) /\ Waited(e) /\ Numbered(p) /\ Waited(p)
    BY <1>1 DEF Answered
  <1>3. w \in Thread /\ w # "resp" /\ "resp" \in Thread /\ Writer \subseteq Thread
    BY SipAssumption DEF Thread
  <1>4. /\ x \in Piece
        /\ net'[e] = Append(net[e], x) /\ net'[p] = net[p]
        /\ pc'[e][w] = "await" /\ \A s \in Thread \ {w} : pc'[e][s] = pc[e][s]
        /\ pc'[p] = pc[p]
        /\ UNCHANGED <<seq, reply, recvSeq, rd, held, ack, responses, rx, done, open, eof, sent,
                       delivered, cause>>
    BY <1>1, <1>3, WritePieceEffect DEF Good
  <1>5. /\ x.part = "body" /\ x.msg.kind = "MESSAGE" /\ x.msg.kind # "200 OK"
        /\ x.msg.cseq = seq[e]
    BY <1>3 DEF Due, Request
  <1>6. (Replying(e)' <=> Replying(e)) /\ (Replying(p)' <=> Replying(p))
    BY <1>3, <1>4 DEF Replying
  <1>7. InRequest(e)' /\ (InReply(e)' <=> InReply(e))
    BY <1>1, <1>4, <1>5, GrownTokens
  <1>8. Numbered(e)' /\ Numbered(p)'
    BY <1>1, <1>2, <1>4, <1>5, <1>6, GrownNumbered
  <1>9. /\ InRequest(p)' <=> InRequest(p)
        /\ UNCHANGED <<Queued(e), Acking(p), Acked(p)>>
    BY <1>4 DEF InRequest, RequestAt, Queued, Acking, Acked
  <1>10. Token(e)' /\ (Token(p)' <=> Token(p))
    BY <1>1, <1>6, <1>7, <1>9 DEF Token
  <1>11. Waited(e)'
    <2>1. \A v \in Writer : pc'[e][v] # "failed"
      BY <1>2, <1>3, <1>4 DEF Waited
    <2> QED BY <1>2, <1>3, <1>4, <1>10, <2>1 DEF Waited
  <1>12. Waited(p)'
    BY <1>2, <1>4, <1>10 DEF Waited, Awaiting
  <1> QED BY <1>1, <1>8, <1>11, <1>12 DEF Answered

(* readLoop reads a head: the tokens stay on the wire. *)
LEMMA ReadHeadAnswered ==
    ASSUME IInv, IInv', ~cause, Answered, NEW e \in End, ReadHead(e), UNCHANGED plan
    PROVE  Answered'
  <1> DEFINE p == Peer(e)
  <1>1. /\ TypeInv /\ Good(e) /\ Good(p) /\ Good(e)'
        /\ p \in End /\ Peer(p) = e /\ p # e /\ End = {e, p}
    BY GoodIsIInv, EndFacts DEF IInv, Good
  <1>2. Numbered(e) /\ Waited(e) /\ Numbered(p) /\ Waited(p)
    BY <1>1 DEF Answered
  <1>3. /\ rd[e] = "first"
        /\ net[p] # <<>> /\ net'[p] = Tail(net[p]) /\ net'[e] = net[e]
        /\ \/ Head(net[p]).part = "head" /\ rd'[e] = "rest"
           \/ ~open'[e]
        /\ rd'[p] = rd[p] /\ held'[p] = held[p]
        /\ UNCHANGED <<seq, pc, reply, recvSeq, ack, responses, rx, eof, sent, delivered, cause>>
    BY <1>1, ReadHeadEffect
  <1>4. Head(net[p]).part = "head" /\ rd'[e] = "rest"
    BY <1>1, <1>3 DEF Untouched, Good
  <1>5. ~RequestAt(p, 1) /\ ~ReplyAt(p, 1)
    BY <1>1, <1>3, <1>4, Shrunk DEF RequestAt, ReplyAt
  <1>6. ~Acking(e) /\ ~Acking(e)'
    BY <1>3, <1>4 DEF Acking
  <1>7. Numbered(e)' /\ Numbered(p)'
    <2>1. \A i \in 1 .. Len(responses'[e]) : responses'[e][i] = seq[p]
      BY <1>1, <1>2, <1>3 DEF Numbered
    <2> QED BY <1>1, <1>2, <1>3, <1>6, <2>1, ShrunkNumbered DEF Good
  <1>8. (InRequest(p)' <=> InRequest(p)) /\ (InReply(p)' <=> InReply(p))
    BY <1>1, <1>3, <1>5, ShrunkTokens DEF Good
  <1>9. /\ InRequest(e)' <=> InRequest(e)
        /\ InReply(e)' <=> InReply(e)
        /\ UNCHANGED <<Queued(e), Queued(p), Replying(e), Replying(p), Acking(p), Acked(e), Acked(p),
                       Awaiting(e), Awaiting(p)>>
    BY <1>3 DEF InRequest, InReply, RequestAt, ReplyAt, Queued, Replying, Acking, Acked, Awaiting
  <1>10. (Token(e)' <=> Token(e)) /\ (Token(p)' <=> Token(p))
    BY <1>1, <1>6, <1>8, <1>9 DEF Token
  <1>11. Waited(e)' /\ Waited(p)'
    BY <1>2, <1>3, <1>9, <1>10 DEF Waited
  <1> QED BY <1>1, <1>7, <1>11 DEF Answered
(* readLoop reads a 200 OK, and has the token in hand. *)
LEMMA ReadReplyAnswered ==
    ASSUME IInv, ~cause, Answered, NEW e \in End, ReadBody(e), UNCHANGED plan, rd'[e] = "ack"
    PROVE  Answered'
  <1> DEFINE p == Peer(e)
  <1>1. /\ TypeInv /\ Good(e) /\ Good(p)
        /\ p \in End /\ Peer(p) = e /\ p # e /\ End = {e, p}
    BY GoodIsIInv, EndFacts
  <1>2. Numbered(e) /\ Waited(e) /\ Numbered(p) /\ Waited(p)
    BY <1>1 DEF Answered
  <1>3. /\ rd[e] = "rest"
        /\ net[p] # <<>> /\ net'[p] = Tail(net[p]) /\ net'[e] = net[e]
        /\ Whole(e) /\ held[e].kind = "200 OK"
        /\ UNCHANGED responses
        /\ rd'[p] = rd[p]
        /\ UNCHANGED <<seq, pc, reply, held, ack, rx, eof, sent, delivered, cause>>
    BY <1>1, ReadBodyEffect
  <1>4. Head(net[p]) = net[p][1] /\ 1 \in 1 .. Len(net[p])
    BY <1>1, <1>3, Shrunk
  <1>5. ReplyAt(p, 1) /\ ~RequestAt(p, 1) /\ net[p][1].msg = held[e]
    <2>1. net[p][1] = [part |-> "body", msg |-> held[e]]
      BY <1>3, <1>4 DEF Whole
    <2>2. net[p][1].part = "body" /\ net[p][1].msg = held[e]
      BY <2>1
    <2> QED BY <1>3, <2>2 DEF ReplyAt, RequestAt
  <1>6. held'[e].cseq = seq[e]
    BY <1>2, <1>3, <1>4, <1>5 DEF Numbered
  <1>7. Numbered(e)' /\ Numbered(p)'
    <2>1. \A i \in 1 .. Len(responses'[e]) : responses'[e][i] = seq[p]
      BY <1>1, <1>2, <1>3 DEF Numbered
    <2> QED BY <1>1, <1>2, <1>3, <1>6, <2>1, ShrunkNumbered DEF Good
  <1>8. InRequest(p)' <=> InRequest(p)
    BY <1>1, <1>3, <1>5, ShrunkTokens DEF Good
  <1>9. /\ InReply(e)' <=> InReply(e)
        /\ UNCHANGED <<Queued(e), Replying(e), Acking(p), Acked(p), Awaiting(e), Awaiting(p)>>
    BY <1>3 DEF InReply, ReplyAt, Queued, Replying, Acking, Acked, Awaiting
  <1>10. Token(e)' /\ (Token(p)' <=> Token(p))
    BY <1>1, <1>8, <1>9 DEF Token, Acking
  <1>11. Waited(e)' /\ Waited(p)'
    BY <1>2, <1>3, <1>9, <1>10 DEF Waited
  <1> QED BY <1>1, <1>7, <1>11 DEF Answered

(* readLoop accepts a request, and its CSeq is queued for the responder. *)
LEMMA ReadRequestAnswered ==
    ASSUME IInv, ~cause, Answered, NEW e \in End, ReadBody(e), UNCHANGED plan, rd'[e] = "rx"
    PROVE  Answered'
  <1> DEFINE p == Peer(e)
  <1>1. /\ TypeInv /\ Good(e) /\ Good(p)
        /\ p \in End /\ Peer(p) = e /\ p # e /\ End = {e, p}
    BY GoodIsIInv, EndFacts
  <1>2. Numbered(e) /\ Waited(e) /\ Numbered(p) /\ Waited(p)
    BY <1>1 DEF Answered
  <1>3. /\ rd[e] = "rest"
        /\ net[p] # <<>> /\ net'[p] = Tail(net[p]) /\ net'[e] = net[e]
        /\ IsRequest(e)
        /\ responses'[e] = Append(responses[e], held[e].cseq) /\ responses'[p] = responses[p]
        /\ rd'[p] = rd[p]
        /\ UNCHANGED <<seq, pc, reply, held, ack, rx, eof, sent, delivered, cause>>
    BY <1>1, ReadBodyEffect
  <1>4. Head(net[p]) = net[p][1] /\ 1 \in 1 .. Len(net[p])
    BY <1>1, <1>3, Shrunk
  <1>5. RequestAt(p, 1) /\ ~ReplyAt(p, 1) /\ net[p][1].msg = held[e]
    <2>1. net[p][1] = [part |-> "body", msg |-> held[e]]
      BY <1>3, <1>4 DEF IsRequest, Whole
    <2>2. net[p][1].part = "body" /\ net[p][1].msg = held[e] /\ held[e].kind = "MESSAGE"
      BY <1>3, <2>1 DEF IsRequest
    <2> QED BY <2>2 DEF ReplyAt, RequestAt
  <1>6. held[e].cseq = seq[p]
    BY <1>2, <1>4, <1>5 DEF Numbered
  <1>7. responses[e] = <<>>
    <2>1. InRequest(p)
      BY <1>4, <1>5 DEF InRequest
    <2> QED BY <1>1, <2>1 DEF OneToken, Queued, Good
  <1>8. responses'[e] = <<seq[p]>>
    BY <1>3, <1>6, <1>7
  <1>9. ~Acking(e) /\ ~Acking(e)'
    BY <1>3 DEF Acking
  <1>10. Numbered(e)' /\ Numbered(p)'
    <2>1. \A i \in 1 .. Len(responses'[e]) : responses'[e][i] = seq[p]
      BY <1>8
    <2> QED BY <1>1, <1>2, <1>3, <1>9, <2>1, ShrunkNumbered DEF Good
  <1>11. InReply(p)' <=> InReply(p)
    BY <1>1, <1>3, <1>5, ShrunkTokens DEF Good
  <1>12. /\ InRequest(e)' <=> InRequest(e)
         /\ UNCHANGED <<Queued(p), Replying(p), Acked(e), Awaiting(e), Awaiting(p)>>
    BY <1>3 DEF InRequest, RequestAt, Queued, Replying, Acked, Awaiting
  <1>13. Queued(e)'
    BY <1>8 DEF Queued
  <1>14. (Token(e)' <=> Token(e)) /\ Token(p)'
    BY <1>1, <1>9, <1>11, <1>12, <1>13 DEF Token
  <1>15. Waited(e)' /\ Waited(p)'
    BY <1>2, <1>3, <1>12, <1>14 DEF Waited
  <1> QED BY <1>1, <1>10, <1>15 DEF Answered

(* readLoop never refuses what it reads in a session that is whole. *)
LEMMA ReadBodyAnswered ==
    ASSUME IInv, IInv', ~cause, Answered, NEW e \in End, ReadBody(e), UNCHANGED plan
    PROVE  Answered'
  <1>1. TypeInv /\ Good(e)'
    BY GoodIsIInv DEF IInv, Good
  <1>2. (rd'[e] \in {"ack", "rx"} \/ ~open'[e]) /\ UNCHANGED cause
    BY <1>1, ReadBodyEffect
  <1>3. rd'[e] \in {"ack", "rx"}
    BY <1>1, <1>2 DEF Untouched, Good
  <1> QED BY <1>3, ReadReplyAnswered, ReadRequestAnswered

(* Nobody has written yet. *)
LEMMA InitAnswered == Init => Answered
  <1> SUFFICES ASSUME Init, NEW e \in End PROVE Numbered(e) /\ Waited(e)
    BY DEF Answered
  <1> DEFINE p == Peer(e)
  <1>1. p \in End
    BY EndFacts
  <1>2. Len(<<>>) = 0 /\ 1 .. 0 = {}
    OBVIOUS
  <1>3. /\ net[e] = <<>> /\ net[p] = <<>> /\ responses[p] = <<>> /\ ack[e] = <<>> /\ rd[e] = "first"
        /\ pc[p]["resp"] = "idle" /\ pc[e]["resp"] = "idle" /\ \A w \in Writer : pc[e][w] = "idle"
    BY <1>1 DEF Init
  <1>4. Numbered(e)
    BY <1>2, <1>3 DEF Numbered, Replying, Acking
  <1>5. Waited(e)
    BY <1>3 DEF Waited, Awaiting
  <1> QED BY <1>4, <1>5

(* What has befallen a session has befallen it. *)
LEMMA CauseStays ==
    ASSUME Next, cause
    PROVE  cause'
  <1>1. PICK e \in End : \/ \E w \in Writer, d \in Packet : Seal(e, w, d)
                         \/ \E w \in Writer : WriterNext(e, w)
                         \/ ResponderNext(e)
                         \/ ReaderNext(e)
                         \/ ReadPacket(e)
                         \/ AppClose(e)
                         \/ ConnDrop(e)
    BY DEF Next
  <1>2. ASSUME NEW t \in Thread, LockWire(e, t) \/ WritePiece(e, t) \/ SendError(e, t) PROVE cause'
    BY <1>2 DEF LockWire, WritePiece, SendError
  <1>3. "resp" \in Thread /\ Writer \subseteq Thread
    BY DEF Thread
  <1>4. CASE \E w \in Writer, d \in Packet : Seal(e, w, d)
    BY <1>4 DEF Seal
  <1>5. CASE \E w \in Writer : WriterNext(e, w)
    BY <1>2, <1>3, <1>5 DEF WriterNext, MakeRequest, ReceiveAck, AwaitEnds
  <1>6. CASE ResponderNext(e)
    BY <1>2, <1>3, <1>6 DEF ResponderNext, TakeResponse, ResponderStops
  <1>7. CASE ReaderNext(e)
    <2>1. CASE ReadHead(e) \/ ReadBody(e) \/ ReadFails(e)
      BY <2>1 DEF ReadHead, ReadBody, ReadFails
    <2>2. CASE PushAck(e) \/ PushRx(e)
      BY <2>2 DEF PushAck, PushRx
    <2> QED BY <1>7, <2>1, <2>2 DEF ReaderNext
  <1>8. CASE ReadPacket(e) \/ AppClose(e) \/ ConnDrop(e)
    BY <1>8 DEF ReadPacket, AppClose, ConnDrop
  <1> QED BY <1>1, <1>4, <1>5, <1>6, <1>7, <1>8

(* Every step of every goroutine keeps Answered, and an outside event ends *)
(* what it says.                                                           *)
LEMMA NextAnswered == IInv /\ Sealing /\ Answered /\ [Next]_vars => Answered'
  <1> SUFFICES ASSUME IInv, Sealing, Answered, [Next]_vars PROVE Answered'
    OBVIOUS
  <1>1. CASE UNCHANGED vars
    <2>1. UNCHANGED <<seq, pc, reply, rd, held, net, ack, responses, cause>>
      BY <1>1 DEF vars, sendVars, readVars, chanVars
    <2>2. CASE cause
      BY <2>1, <2>2 DEF Answered
    <2>3. CASE ~cause
      <3>1. ASSUME NEW e \in End PROVE Numbered(e)' /\ Waited(e)'
        <4>1. Numbered(e) /\ Waited(e)
          BY <2>3 DEF Answered
        <4>2. /\ Replying(Peer(e))' <=> Replying(Peer(e))
              /\ Acking(e)' <=> Acking(e)
          BY <2>1 DEF Replying, Acking
        <4>3. Numbered(e)'
          BY <2>1, <4>1, <4>2, NumberedFrame
        <4>4. Token(e)' <=> Token(e)
          BY <2>1, <4>2, TokenFrame
        <4> QED BY <2>1, <4>1, <4>3, <4>4 DEF Waited, Awaiting
      <3> QED BY <3>1 DEF Answered
    <2> QED BY <2>2, <2>3
  <1>2. CASE Next /\ cause'
    BY <1>2 DEF Answered
  <1>3. CASE Next /\ ~cause'
    <2>1. UNCHANGED plan /\ ~cause /\ IInv'
      BY <1>3, CauseStays, NextIInv DEF Next
    <2>2. "resp" \in Thread /\ Writer \subseteq Thread
      BY DEF Thread
    <2>3. PICK e \in End : \/ \E w \in Writer, d \in Packet : Seal(e, w, d)
                           \/ \E w \in Writer : WriterNext(e, w)
                           \/ ResponderNext(e)
                           \/ ReaderNext(e)
                           \/ ReadPacket(e)
                           \/ AppClose(e)
                           \/ ConnDrop(e)
      BY <1>3 DEF Next
    <2>4. /\ \A t \in Thread : ~SendError(e, t)
          /\ \A w \in Writer : ~AwaitEnds(e, w)
          /\ ~ResponderStops(e) /\ ~Ends(e)
      BY <1>3, <2>1, NobodyGivesUp
    <2>5. ASSUME NEW t \in Thread, WritePiece(e, t) PROVE Answered'
      <3>1. pc[e][t] \in {"head", "body"} /\ (t = "resp" \/ t \in Writer)
        BY <2>5 DEF WritePiece, Thread
      <3> QED BY <2>1, <2>5, <3>1, WriteHeadAnswered, WriteReplyAnswered, WriteRequestAnswered
    <2>6. CASE \E w \in Writer, d \in Packet : Seal(e, w, d)
      BY <2>1, <2>6, SealAnswered
    <2>7. ASSUME NEW w \in Writer, WriterNext(e, w) PROVE Answered'
      <3>1. MakeRequest(e, w) \/ LockWire(e, w) \/ WritePiece(e, w) \/ ReceiveAck(e, w)
        BY <2>2, <2>4, <2>7 DEF WriterNext
      <3>2. MakeRequest(e, w) => body[e].data \in Packet
        BY DEF MakeRequest, Sealing
      <3> QED BY <2>1, <2>2, <2>5, <3>1, <3>2, MakeRequestAnswered, LockWireAnswered,
                 ReceiveAckAnswered
    <2>8. CASE ResponderNext(e)
      <3>1. TakeResponse(e) \/ LockWire(e, "resp") \/ WritePiece(e, "resp")
        BY <2>2, <2>4, <2>8 DEF ResponderNext
      <3> QED BY <2>1, <2>2, <2>5, <3>1, LockWireAnswered, TakeResponseAnswered
    <2>9. CASE ReaderNext(e)
      <3>1. ReadHead(e) \/ ReadBody(e) \/ PushAck(e) \/ PushRx(e)
        BY <2>4, <2>9 DEF ReaderNext, Ends
      <3>2. PushAck(e) \/ PushRx(e) => AckPushed(e) \/ RxPushed(e)
        BY <2>4, PushCases
      <3> QED BY <2>1, <3>1, <3>2, ReadHeadAnswered, ReadBodyAnswered, AckPushedAnswered,
                 RxPushedAnswered
    <2>10. CASE ReadPacket(e)
      BY <2>1, <2>10, ReadPacketAnswered
    <2>11. ~AppClose(e) /\ ~ConnDrop(e)
      BY <2>4 DEF Ends
    <2> QED BY <2>3, <2>6, <2>7, <2>8, <2>9, <2>10, <2>11
  <1> QED BY <1>1, <1>2, <1>3

(* Both invariants together. *)
THEOREM SessionAnswered == Spec => [](IInv /\ Answered)
  BY InitIInv, NextIInv, InitSealing, NextSealing, InitAnswered, NextAnswered, PTL DEF Spec

(* No interleaving of two honest ends closes a session by itself, nor      *)
(* fails a WritePacket in it: that takes an outside event, a deadline or   *)
(* an rx overflow.  The 200 OK that WritePacket takes from ack answers its *)
(* own request, so it never returns "unexpected SIP transaction".          *)
THEOREM NothingEndsByItself == Spec => []EndsForCause
  <1>1. IInv => ClosedForCause
    BY DEF IInv, Untouched, ClosedForCause
  <1>2. Answered => FailsForCause
    BY DEF Answered, Waited, FailsForCause
  <1>3. IInv /\ Answered => EndsForCause
    BY <1>1, <1>2 DEF EndsForCause
  <1> QED BY <1>3, SessionAnswered, PTL

-----------------------------------------------------------------------------
(* ack is empty while readLoop has a 200 OK for it in hand. *)
LEMMA AckHasRoom ==
    ASSUME IInv, NEW e \in End, rd[e] = "ack"
    PROVE  Len(ack[e]) < AckCap
  <1>1. Good(e)
    BY GoodIsIInv
  <1>2. ack[e] = <<>>
    BY <1>1 DEF OneToken, Acking, Acked, Good
  <1>3. AckCap \in Nat \ {0}
    BY SipAssumption
  <1>4. Len(<<>>) = 0 /\ \A n \in Nat \ {0} : 0 < n
    OBVIOUS
  <1> QED BY <1>2, <1>3, <1>4

(* The peer's readLoop takes pieces off a wire that is not empty, or has   *)
(* one in hand that it can pass on: ack is empty while it holds a 200 OK.  *)
LEMMA WireDrains ==
    ASSUME IInv, ~cause, NEW e \in End, net[e] # <<>>
    PROVE  Runnable(Peer(e))
  <1> DEFINE p == Peer(e)
  <1>1. TypeInv /\ Good(p) /\ p \in End /\ Peer(p) = e
    BY GoodIsIInv, EndFacts
  <1>2. rd[p] \in {"first", "rest", "ack", "rx"}
    BY <1>1 DEF TypeInv, Untouched, Running, Good
  <1>3. CASE rd[p] \in {"first", "rest"}
    BY <1>1, <1>3 DEF Runnable, AtMessage
  <1>4. CASE rd[p] = "ack"
    BY <1>1, <1>4, AckHasRoom DEF Runnable
  <1>5. CASE rd[p] = "rx"
    BY <1>5 DEF Runnable
  <1> QED BY <1>2, <1>3, <1>4, <1>5

(* Whoever has the wire mutex can write, or the wire is full and drains. *)
LEMMA HolderMoves ==
    ASSUME IInv, ~cause, NEW e \in End, ~WireFree(e)
    PROVE  Runnable(e) \/ Runnable(Peer(e))
  <1>1. net[e] \in Seq(Piece)
    BY DEF IInv, TypeInv
  <1>2. CASE Len(net[e]) < SockCap
    BY <1>2 DEF Runnable
  <1>3. CASE ~(Len(net[e]) < SockCap)
    <2>1. SockCap \in Nat \ {0}
      BY SipAssumption
    <2>2. Len(<<>>) = 0 /\ \A n \in Nat \ {0} : 0 < n
      OBVIOUS
    <2>3. net[e] # <<>>
      BY <1>3, <2>1, <2>2
    <2> QED BY <2>3, WireDrains
  <1> QED BY <1>2, <1>3

(* A thread that waits for the wire mutex finds it free, or its holder. *)
LEMMA LockMoves ==
    ASSUME IInv, ~cause, NEW e \in End, NEW t \in Thread, pc[e][t] \in {"lock", "head", "body"}
    PROVE  Runnable(e) \/ Runnable(Peer(e))
  <1>1. CASE WireFree(e)
    <2>1. pc[e][t] = "lock"
      BY <1>1 DEF WireFree, Thread
    <2> QED BY <1>1, <2>1 DEF Runnable, Thread
  <1>2. CASE ~WireFree(e)
    BY <1>2, HolderMoves
  <1> QED BY <1>1, <1>2

(* Whoever has the token of e can go on, or waits for somebody who can. *)
LEMMA TokenMoves ==
    ASSUME IInv, ~cause, Answered, NEW e \in End, Awaiting(e)
    PROVE  Runnable(e) \/ Runnable(Peer(e))
  <1> DEFINE p == Peer(e)
  <1>1. TypeInv /\ Good(e) /\ Good(p) /\ p \in End /\ Peer(p) = e
    BY GoodIsIInv, EndFacts
  <1>2. Token(e) /\ Waited(p)
    BY <1>1 DEF Answered, Waited
  <1>3. Len(<<>>) = 0 /\ 1 .. 0 = {}
    OBVIOUS
  <1>4. CASE InRequest(e)
    <2>1. net[e] # <<>>
      BY <1>3, <1>4 DEF InRequest
    <2> QED BY <2>1, WireDrains
  <1>5. CASE Replying(p)
    <2>1. "resp" \in Thread
      BY DEF Thread
    <2> QED BY <1>1, <1>5, <2>1, LockMoves DEF Replying
  <1>6. CASE Queued(p)
    <2>1. "resp" \in Thread
      BY DEF Thread
    <2>2. pc[p]["resp"] = "idle" \/ Replying(p)
      BY <1>1, <1>2, <2>1 DEF TypeInv, Threads, Waited, Replying, Good
    <2>3. CASE pc[p]["resp"] = "idle"
      BY <1>6, <2>3 DEF Queued, Runnable
    <2> QED BY <1>5, <2>2, <2>3
  <1>7. CASE InReply(p)
    <2>1. net[p] # <<>>
      BY <1>3, <1>7 DEF InReply
    <2> QED BY <1>1, <2>1, WireDrains
  <1>8. CASE Acking(e)
    BY <1>8, AckHasRoom DEF Acking, Runnable
  <1>9. CASE Acked(e)
    BY <1>9 DEF Acked, Awaiting, Runnable
  <1> QED BY <1>2, <1>4, <1>5, <1>6, <1>7, <1>8, <1>9 DEF Token

(* Until something befalls the session no WritePacket waits for somebody   *)
(* who waits for it: one goroutine of the two ends can always go on.       *)
THEOREM NeverLocksUp == Spec => []NoLockUp
  <1>1. ASSUME IInv, Answered, ~cause, NEW e \in End, NEW w \in Writer, pc[e][w] # "idle"
        PROVE  Runnable(e) \/ Runnable(Peer(e))
    <2>1. TypeInv /\ Good(e) /\ Waited(e) /\ w \in Thread
      BY <1>1, GoodIsIInv DEF Answered, Thread
    <2>2. pc[e][w] \in {"seal", "lock", "head", "body", "await"}
      BY <1>1, <2>1 DEF TypeInv, Threads, Waited, Good
    <2>3. CASE pc[e][w] = "await"
      BY <1>1, <2>3, TokenMoves DEF Awaiting
    <2>4. CASE pc[e][w] = "seal"
      BY <2>4 DEF Runnable
    <2>5. CASE pc[e][w] \in {"lock", "head", "body"}
      BY <1>1, <2>1, <2>5, LockMoves
    <2> QED BY <2>2, <2>3, <2>4, <2>5
  <1>2. IInv /\ Answered => NoLockUp
    <2> SUFFICES ASSUME IInv, Answered, ~cause, NEW e \in End, NEW w \in Writer, pc[e][w] # "idle"
                 PROVE  \E f \in End : Runnable(f)
      BY DEF NoLockUp
    <2> QED BY <1>1, EndFacts
  <1> QED BY <1>2, SessionAnswered, PTL
=============================================================================
