---------------------------- MODULE OfferServer -----------------------------
(***************************************************************************)
(* internal/transport/webrtc.go, serveWebRTC: an HTTP handler takes an     *)
(* offer, claims the one place (busy), gathers an answer, and hands the    *)
(* peer over to a session goroutine; the context's end shuts the HTTP      *)
(* server down, politely for 3 s and then by force.                        *)
(*                                                                         *)
(* An offer comes on a connection of its own.  Of net/http the model has   *)
(* what serveWebRTC relies on: Shutdown stops the listener at once, makes  *)
(* ServeTLS return, closes idle connections and waits for the busy ones;   *)
(* Close closes all connections, which cancels the requests' contexts, and *)
(* waits for nobody.                                                       *)
(***************************************************************************)
EXTENDS Naturals, FiniteSets

CONSTANTS Client,  \* bound: offers that are made, one by each
          Faults   \* "slow": a handler can outlast the 3 s of Shutdown

ASSUME OfferAssumption == Faults \subseteq {"slow"}

VARIABLES
    main,       \* serveWebRTC: "serve", "stopped" (<-stopped), "join", "returned"
    stopper,    \* the AfterFunc: "armed", "shutdown" or "done"
    cancelled,  \* the context is cancelled
    conn,       \* conn[c]: the HTTP connection: "none", "open" or "closed"
    handler,    \* handler[c]: where the HTTP handler is
    task,       \* task[c]: where the session goroutine is
    ready,      \* ready[c]: the peer connection is connected
    peer,       \* peer[c]: the rtcConn: "none", "open" or "closed"
    busy,       \* the flag
    wg,         \* the WaitGroup's counter
    forced      \* history: Shutdown gave up on a handler

serverVars == <<main, stopper, cancelled, forced>>
vars == <<serverVars, conn, handler, task, ready, peer, busy, wg>>

Init ==
    /\ main = "serve" /\ stopper = "armed" /\ cancelled = FALSE /\ forced = FALSE
    /\ conn = [c \in Client |-> "none"] /\ peer = [c \in Client |-> "none"]
    /\ handler = [c \in Client |-> "none"] /\ task = [c \in Client |-> "none"]
    /\ ready = [c \in Client |-> FALSE]
    /\ busy = FALSE /\ wg = 0

HandlerAt(c, where) == handler' = [handler EXCEPT ![c] = where]
TaskAt(c, where) == task' = [task EXCEPT ![c] = where]
ClosePeer(c) == peer' = [peer EXCEPT ![c] = "closed"]

-----------------------------------------------------------------------------
Connect(c) ==
    /\ main = "serve" /\ conn[c] = "none"
    /\ conn' = [conn EXCEPT ![c] = "open"]
    /\ UNCHANGED <<serverVars, handler, task, ready, peer, busy, wg>>

(* Mutant of Claim: the flag is looked at, and set, without an exchange.   *)
ClaimByLooking(c) == HandlerAt(c, "claimed") /\ UNCHANGED busy

(* busy.CompareAndSwap(false, true) *)
Claim(c) == ~busy /\ busy' = TRUE /\ HandlerAt(c, "claimed")

(* An offer with the right method and token; 409 if one is active. *)
Offer(c) ==
    /\ conn[c] = "open" /\ handler[c] = "none"
    /\ \/ Claim(c)
       \/ busy /\ HandlerAt(c, "gone") /\ UNCHANGED busy
    /\ UNCHANGED <<serverVars, conn, task, ready, peer, wg>>

(* newPeer and p.remote succeed. *)
MakePeer(c) ==
    /\ handler[c] = "claimed"
    /\ HandlerAt(c, "gather")
    /\ peer' = [peer EXCEPT ![c] = "open"]
    /\ UNCHANGED <<serverVars, conn, task, ready, busy, wg>>

(* localSDP has gathered the answer, and Encode has written it, perhaps    *)
(* only to the response's buffer: a closed connection may go unnoticed.    *)
Answer(c) ==
    /\ handler[c] = "gather"
    /\ HandlerAt(c, "handing")
    /\ UNCHANGED <<serverVars, conn, task, ready, peer, busy, wg>>

(* Mutant of GiveBack: only the peer is closed. *)
GiveBackNot == UNCHANGED busy

(* The handler's first deferred call, unless the peer was handed over. *)
GiveBack == busy' = FALSE

(* Bad offer, no peer, bad SDP, gathering failed, timed out or was left by *)
(* its client, or no answer could be written: p.Close() and GiveBack.      *)
HandlerFails(c) ==
    /\ handler[c] \in {"claimed", "gather"}
    /\ HandlerAt(c, "gone")
    /\ IF handler[c] = "gather" THEN ClosePeer(c) ELSE UNCHANGED peer
    /\ GiveBack
    /\ UNCHANGED <<serverVars, conn, task, ready, wg>>

(* handed = true; wg.Add(1); the session goroutine starts.  The answer     *)
(* goes out as the handler returns, unless its connection is closed.       *)
HandOver(c) ==
    /\ handler[c] = "handing"
    /\ \/ conn[c] = "open" /\ HandlerAt(c, "answered")
       \/ HandlerAt(c, "gone")
    /\ TaskAt(c, "wait")
    /\ wg' = wg + 1
    /\ UNCHANGED <<serverVars, conn, ready, peer, busy>>

-----------------------------------------------------------------------------
(* A client that got its answer connects. *)
Connected(c) ==
    /\ task[c] = "wait" /\ handler[c] = "answered" /\ peer[c] = "open" /\ ~ready[c]
    /\ ready' = [ready EXCEPT ![c] = TRUE]
    /\ UNCHANGED <<serverVars, conn, handler, task, peer, busy, wg>>

(* p.wait: ready; or closed, cancelled or 30 s over. *)
Wait(c) ==
    /\ task[c] = "wait"
    /\ \/ ready[c] /\ TaskAt(c, "handle")
       \/ TaskAt(c, "close")
    /\ UNCHANGED <<serverVars, conn, handler, ready, peer, busy, wg>>

SessionReturns(c) ==
    /\ task[c] = "handle"
    /\ TaskAt(c, "close")
    /\ UNCHANGED <<serverVars, conn, handler, ready, peer, busy, wg>>

(* The session's deferred calls: p.Close(), busy.Store(false), wg.Done().  *)
Unwind(c) ==
    /\ \/ task[c] = "close" /\ TaskAt(c, "release") /\ ClosePeer(c)
          /\ UNCHANGED <<busy, wg>>
       \/ task[c] = "release" /\ TaskAt(c, "leave") /\ busy' = FALSE
          /\ UNCHANGED <<peer, wg>>
       \/ task[c] = "leave" /\ TaskAt(c, "done") /\ wg' = wg - 1
          /\ UNCHANGED <<peer, busy>>
    /\ UNCHANGED <<serverVars, conn, handler, ready>>

(* The peer connection fails or its client goes; the session's AfterFunc.  *)
PeerEnds(c) ==
    /\ task[c] \in {"wait", "handle"} /\ peer[c] = "open"
    /\ ClosePeer(c)
    /\ UNCHANGED <<serverVars, conn, handler, task, ready, busy, wg>>

-----------------------------------------------------------------------------
Cancel == /\ ~cancelled /\ cancelled' = TRUE
          /\ UNCHANGED <<main, stopper, forced, conn, handler, task, ready, peer, busy, wg>>

(* No handler runs on the connection, open or left by its client. *)
Idle(c) == handler[c] \in {"none", "gone", "answered"}

(* The AfterFunc: Shutdown, which after 3 s gives way to Close. *)
Stop ==
    /\ \/ stopper = "armed" /\ cancelled /\ stopper' = "shutdown"
          /\ UNCHANGED <<conn, forced>>
       \/ /\ stopper = "shutdown"
          /\ (\A c \in Client : Idle(c)) \/ "slow" \in Faults
          /\ forced' = \E c \in Client : ~Idle(c)
          /\ stopper' = "done"
          /\ conn' = [c \in Client |-> "closed"]
    /\ UNCHANGED <<main, cancelled, handler, task, ready, peer, busy, wg>>

(* An idle connection is closed, by Shutdown, a timeout or the client; the *)
(* client may leave its request, too.                                      *)
ConnEnds(c) ==
    /\ conn[c] = "open"
    /\ conn' = [conn EXCEPT ![c] = "closed"]
    /\ UNCHANGED <<serverVars, handler, task, ready, peer, busy, wg>>

(* Mutant of Stopped: main does not wait for Shutdown. *)
StoppedUnasked == TRUE

Stopped == stopper = "done"

(* Mutant of CancelAfterServe: the call is left out. *)
CancelNotAfterServe == UNCHANGED cancelled

(* cancel(), once ServeTLS has returned. *)
CancelAfterServe == cancelled' = TRUE

(* serveWebRTC: ServeTLS returns once Shutdown has begun, or with an error *)
(* of its own; CancelAfterServe; <-stopped; wg.Wait().                     *)
ServeEnds ==
    /\ main = "serve"
    /\ main' = "stopped" /\ CancelAfterServe
    /\ UNCHANGED <<stopper, forced, conn, handler, task, ready, peer, busy, wg>>

Return ==
    /\ \/ main = "stopped" /\ Stopped /\ main' = "join"
       \/ main = "join" /\ wg = 0 /\ main' = "returned"
    /\ UNCHANGED <<stopper, cancelled, forced, conn, handler, task, ready, peer, busy, wg>>

-----------------------------------------------------------------------------
(* What a handler and a session goroutine do by themselves, within the     *)
(* 30 s of localSDP and of wait.                                           *)
HandlerStep(c) == MakePeer(c) \/ Answer(c) \/ HandlerFails(c) \/ HandOver(c)
TaskStep(c) == \/ Wait(c) \/ Unwind(c)
               \/ (cancelled \/ peer[c] = "closed") /\ SessionReturns(c)

Next == \/ Cancel \/ Stop \/ ServeEnds \/ Return
        \/ \E c \in Client : \/ Connect(c) \/ Offer(c) \/ HandlerStep(c)
                             \/ Connected(c) \/ PeerEnds(c) \/ ConnEnds(c)
                             \/ TaskStep(c) \/ SessionReturns(c)

Spec == /\ Init /\ [][Next]_vars
        /\ WF_vars(Stop) /\ WF_vars(Return)
        /\ WF_vars(stopper # "armed" /\ ServeEnds)
        /\ \A c \in Client : WF_vars(HandlerStep(c)) /\ WF_vars(TaskStep(c))

-----------------------------------------------------------------------------
(* The WebRTC server keeps Serve's promise, also when Shutdown gives up on *)
(* a handler: one client's handler at a time, none after the return.       *)
Abstract == INSTANCE OneSession WITH
    Client <- Client,
    session <- {c \in Client : task[c] = "handle"},
    returned <- main = "returned"
ImplementsOneSession == Abstract!Spec

(* busy is handed from the HTTP handler to the session goroutine: it is    *)
(* set exactly while one of them owns it, never two, so no failure on the  *)
(* way locks every later client out, and two peers are never open at once. *)
Owners == {c \in Client : \/ handler[c] \in {"claimed", "gather", "handing"}
                          \/ task[c] \in {"wait", "handle", "close", "release"}}
BusyHasOneOwner == /\ Cardinality(Owners) = (IF busy THEN 1 ELSE 0)
                   /\ \A c \in Client : peer[c] = "open" => c \in Owners

(* serveWebRTC returns, whatever offers and sessions are under way, once   *)
(* the context is cancelled or the HTTP server has failed.                 *)
ServeReturns == cancelled \/ main # "serve" ~> main = "returned"

(* "Shutdown waits for offer handlers before waiting for their session     *)
(* goroutines" (webrtc.go): when serveWebRTC returns, neither runs.        *)
JoinedOnReturn ==
    main = "returned" => \A c \in Client : /\ Idle(c)
                                           /\ task[c] \in {"none", "done"}
                                           /\ peer[c] # "open"

(* That much is true of a Shutdown that did not have to give up: a handler *)
(* that hands over while the server stops is waited for, and so is the     *)
(* session it starts, although wg.Add and wg.Wait run concurrently.        *)
JoinedUnlessForced == ~forced => JoinedOnReturn
=============================================================================
