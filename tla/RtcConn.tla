------------------------------- MODULE RtcConn -------------------------------
(***************************************************************************)
(* internal/transport/webrtc.go, rtcConn: one end of a WebRTC connection,  *)
(* around the assembler of Fragments.  Four kinds of goroutine share it:   *)
(*                                                                         *)
(*   - its user: wait, then ReadPacket until io.EOF;                       *)
(*   - OnTrack: reads fragments, pushes them, queues whole packets in rx;  *)
(*   - the keepalive, which sends "TL00" every second;                     *)
(*   - Pion's state callbacks, and the "go p.Close()" they start.          *)
(*                                                                         *)
(* The peer's WritePacket is Send of Fragments; what this end writes       *)
(* matters here only to the keepalive, which takes an error as the end.    *)
(***************************************************************************)
EXTENDS Fragments, SequencesExt

CONSTANTS RxCap,  \* capacity of rx (256 in newPeer)
          Modes   \* bound: which of "calm", "stormy", "free" is explored

ASSUME RtcAssumption == RxCap \in Nat \ {0} /\ Modes \subseteq {"calm", "stormy", "free"}

VARIABLES
    mode,     \* "calm": connected from the start, nothing fails, the user
              \* keeps up, and the network is tried out; "stormy": the life
              \* of the connection is, with StormPackets packets and no
              \* time passing; "free": both, unbounded
    ready,    \* the channel closed when the peer connection is connected
    done,     \* the channel closed by Close
    closing,  \* a goroutine started with "go p.Close()" has yet to run
    user,     \* the user: "wait", "open" or "gone"
    keeper,   \* the keepalive: "wait" for ready, "send", "tick" or "stopped"
    track,    \* OnTrack: "read", "push" or "stopped"
    hand,     \* the packet OnTrack is about to queue
    rx,       \* the channel of packets
    delivered \* history: the packets ReadPacket returned, in order, until
              \* the assembler has let one through twice

lifeVars == <<mode, ready, done, closing, user, keeper>>
rtcVars == <<lifeVars, track, hand, rx, delivered>>
allVars == <<vars, rtcVars>>

StormPackets == 2

RInit ==
    /\ Init
    /\ mode \in Modes
    /\ ready = (mode = "calm")
    /\ user = IF ready THEN "open" ELSE "wait"
    /\ keeper = IF ready THEN "tick" ELSE "wait"
    /\ done = FALSE /\ closing = FALSE
    /\ track = "read" /\ hand = <<>> /\ rx = <<>> /\ delivered = <<>>

(* Close: only the first call counts. *)
Close == done' = TRUE

(* Bound of the calm mode: a packet that is whole is read at once. *)
KeepsUp == mode = "calm" => hand = <<>> /\ rx = <<>>

-----------------------------------------------------------------------------
(* The peer and the network. *)
Peer ==
    /\ \/ \E n \in Lengths : Send(n)
       \/ mode # "stormy" /\ Tick
    /\ mode = "stormy" => Len(sent') <= StormPackets
    /\ KeepsUp
    /\ UNCHANGED rtcVars

(* OnTrack: a fragment that yields no packet; an error of push closes the  *)
(* connection from a goroutine of its own.                                 *)
PushPart ==
    /\ track = "read" /\ KeepsUp
    /\ \E f \in net :
         \/ (Ignore(f) \/ Refuse(f) \/ Keep(f)) /\ UNCHANGED <<track, closing>>
         \/ Reject(f) /\ track' = "stopped" /\ closing' = TRUE
    /\ UNCHANGED <<mode, ready, done, user, keeper, hand, rx, delivered>>

(* OnTrack: the fragment that completes a packet. *)
PushLast ==
    /\ track = "read" /\ KeepsUp
    /\ \E f \in net : Complete(f) /\ hand' = <<Returned(f)>>
    /\ track' = "push"
    /\ UNCHANGED <<lifeVars, rx, delivered>>

(* OnTrack: the select.  A full queue drops the packet. *)
Queue ==
    /\ track = "push"
    /\ \/ Len(rx) < RxCap /\ rx' = rx \o hand /\ track' = "read"
       \/ done /\ track' = "stopped" /\ UNCHANGED rx
       \/ Len(rx) >= RxCap /\ ~done /\ track' = "read" /\ UNCHANGED rx
    /\ hand' = <<>>
    /\ UNCHANGED <<vars, lifeVars, delivered>>

(* OnTrack: ReadRTP fails, because this end is closed or the track ended.  *)
TrackEnds ==
    /\ track = "read"
    /\ done \/ mode # "calm"
    /\ track' = "stopped"
    /\ UNCHANGED <<vars, lifeVars, hand, rx, delivered>>

-----------------------------------------------------------------------------
(* Pion reports "connected". *)
Connected ==
    /\ ~ready /\ ~done
    /\ ready' = TRUE
    /\ UNCHANGED <<vars, mode, done, closing, user, keeper, track, hand, rx, delivered>>

(* Pion reports "failed", at any time: go p.Close(). *)
Failed ==
    /\ mode # "calm" /\ ~closing /\ ~done
    /\ closing' = TRUE
    /\ UNCHANGED <<vars, mode, ready, done, user, keeper, track, hand, rx, delivered>>

GoClose ==
    /\ closing
    /\ Close /\ closing' = FALSE
    /\ UNCHANGED <<vars, mode, ready, user, keeper, track, hand, rx, delivered>>

(* wait: nil once ready; otherwise done, the context or the 30 s timer end *)
(* it, and the caller closes the connection.                               *)
Wait ==
    /\ user = "wait"
    /\ \/ ready /\ user' = "open" /\ UNCHANGED done
       \/ Close /\ user' = "gone"
    /\ UNCHANGED <<vars, mode, ready, closing, keeper, track, hand, rx, delivered>>

(* ReadPacket: a packet, or io.EOF; with both there, either. *)
ReadPacket ==
    /\ user = "open"
    /\ \/ /\ rx # <<>>
          /\ delivered' = IF again = {} THEN Append(delivered, Head(rx)) ELSE delivered
          /\ rx' = Tail(rx)
          /\ UNCHANGED user
       \/ done /\ user' = "gone" /\ UNCHANGED <<rx, delivered>>
    /\ UNCHANGED <<vars, mode, ready, done, closing, keeper, track, hand>>

(* The user closes the connection under its own ReadPacket. *)
UserCloses ==
    /\ mode # "calm" /\ user = "open" /\ ~done
    /\ Close
    /\ UNCHANGED <<vars, mode, ready, closing, user, keeper, track, hand, rx, delivered>>

-----------------------------------------------------------------------------
(* Mutant of GivesUp: a connection that never gets ready is waited for. *)
GivesUpLater == done /\ ready

(* The keepalive's first select, case done. *)
GivesUp == done

(* The keepalive: wait for ready, then send and wait for the tick in turn; *)
(* a failed send closes the connection.                                    *)
Keepalive ==
    /\ \/ keeper = "wait" /\ ready /\ keeper' = "send" /\ UNCHANGED done
       \/ keeper = "wait" /\ GivesUp /\ keeper' = "stopped" /\ UNCHANGED done
       \/ keeper = "send" /\ ~done /\ keeper' = "tick" /\ UNCHANGED done
       \/ keeper = "send" /\ Close /\ keeper' = "stopped"
       \/ keeper = "tick" /\ mode # "calm" /\ keeper' = "send" /\ UNCHANGED done
       \/ keeper = "tick" /\ done /\ keeper' = "stopped" /\ UNCHANGED done
    /\ UNCHANGED <<vars, mode, ready, closing, user, track, hand, rx, delivered>>

TrackNext == PushPart \/ PushLast \/ Queue \/ TrackEnds

RNext == \/ Peer \/ TrackNext
         \/ Connected \/ Failed \/ GoClose
         \/ Wait \/ ReadPacket \/ UserCloses
         \/ Keepalive

(* Go runs every goroutine that can run; after Close, ReadRTP may return   *)
(* some more fragments but not for ever (SF); the user calls ReadPacket    *)
(* again after each packet; and wait is bounded by its timer.              *)
RSpec == /\ RInit /\ [][RNext]_allVars
         /\ WF_allVars(Queue) /\ SF_allVars(done /\ TrackEnds) /\ WF_allVars(GoClose)
         /\ WF_allVars(Wait) /\ WF_allVars(ReadPacket) /\ WF_allVars(Keepalive)

-----------------------------------------------------------------------------
Whole(s) == [of |-> {s}, len |-> sent[s].len]

Lossy == INSTANCE LossyChannel WITH
    Packet <- [of : {{s} : s \in 1 .. MaxPackets}, len : Lengths],
    sent <- {Whole(s) : s \in DOMAIN sent},
    delivered <- delivered

(* The connection implements the lossy packet channel: fragments lost,     *)
(* repeated and mixed up, an rx that overflows, and a Close at any moment  *)
(* make it lose packets, never alter or repeat one.  (Excused are the wrap *)
(* of ids, and what NoDuplicates excuses.)                                 *)
ImplementsLossyChannel ==
    Lossy!Init /\ [][Lossy!Next \/ Collision' \/ again' # {}]_(Lossy!vars)

(* Whoever closes, or whatever fails, and at whatever moment, before the   *)
(* connection is up too: once done is closed the user's wait or ReadPacket *)
(* returns, OnTrack ends even if rx is full and nobody reads it, and so    *)
(* does the keepalive.                                                     *)
DoneReleasesAll ==
    done ~> user = "gone" /\ track = "stopped" /\ keeper = "stopped"
=============================================================================
