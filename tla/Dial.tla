-------------------------------- MODULE Dial --------------------------------
(***************************************************************************)
(* internal/transport: Dial of the three transports, from its first        *)
(* resource to its last deferred call, against a server that answers, is   *)
(* silent or goes: the SIP handshake (clientAuth, serverAuth, setKey), the *)
(* framed token check over REALITY (dialReality, authStream), and the      *)
(* WebRTC offer (dialWebRTC).                                              *)
(*                                                                         *)
(* Both nonces are fresh and of one handshake, so a proof is told apart by *)
(* its token and label; a message is its kind and its proof.               *)
(***************************************************************************)
EXTENDS Sequences

VARIABLES
    kind,       \* the transport: "sip", "reality" or "webrtc"
    same,       \* both ends were configured with the same token
    stage,      \* Dial: "start", "second", "request", "answer", "verdict",
                \* "wait", "undo", "leave", "returned"; then its caller:
                \* "closing", "closed"
    outcome,    \* "none", "conn" or "error"
    closes,     \* the calls of an error path, or of Close, still to come
    todo,       \* the deferred calls still to come, the next one first
    held,       \* what is open: "conn"; the Xray "instance" under it; of the
                \* offer's HTTP exchange the "response" and an "idle" connection
    watch,      \* context.AfterFunc: "none", "armed", "running" or "stopped"
    limit,      \* deadline or timer: "none", "set", "passed", "over" (cancel())
    ctxDone,    \* the caller's context is cancelled
    lost,       \* the connection has failed, or its server is gone
    wire,       \* the message under way
    accepted,   \* the server has let the client in
    keys,       \* the AEAD keys of the two ends
    reading,    \* the ends of a SIP session whose readLoop has started
    excused     \* history: cancelled or late before Dial returned

client == <<stage, outcome, closes, todo, held, watch, limit>>
world == <<kind, same>>
secrets == <<accepted, keys, reading>>
dialVars == <<client, world, ctxDone, lost, wire, secrets, excused>>

Nothing == << >>
Unset == [tx |-> Nothing, rx |-> Nothing]

DInit == /\ kind \in {"sip", "reality", "webrtc"} /\ same \in BOOLEAN
         /\ stage = "start" /\ outcome = "none" /\ held = {}
         /\ closes = << >> /\ todo = << >>
         /\ watch = "none" /\ limit = "none"
         /\ ctxDone = FALSE /\ lost = FALSE /\ accepted = FALSE /\ excused = FALSE
         /\ wire = Nothing
         /\ keys = [client |-> Unset, server |-> Unset] /\ reading = {}

Token(end) == IF end = "server" /\ ~same THEN "another" ELSE "token"
Proof(end, label) == <<Token(end), label>>

(* setKey *)
Keys(end) ==
    IF end = "client"
    THEN [tx |-> Proof(end, "client-key:"), rx |-> Proof(end, "server-key:")]
    ELSE [tx |-> Proof(end, "server-key:"), rx |-> Proof(end, "client-key:")]

-----------------------------------------------------------------------------
(* Mutant of Deferred: the two deferred calls of dialReality change places. *)
DeferredCancelFirst ==
    CASE kind = "reality" -> <<"cancel", "stop">>
      [] kind = "sip" -> <<"stop">>
      [] kind = "webrtc" -> <<"unless">>

(* What the transport defers once it has a connection, a function's last   *)
(* defer first: stop(); stop() and cancel(); p.Close() unless ok is set.   *)
Deferred ==
    CASE kind = "reality" -> <<"stop", "cancel">>
      [] kind = "sip" -> <<"stop">>
      [] kind = "webrtc" -> <<"unless">>

(* clientTLS or DialContext fails, then clientAuth. *)
SipCloses == IF stage = "start" THEN << >> ELSE <<"conn">>

(* Mutant of RealityCloses: the instance stays when core.Dial fails. *)
RealityClosesLess ==
    IF stage \in {"start", "second"} THEN << >> ELSE <<"conn", "instance">>

(* StartInstance fails, core.Dial, or authStream. *)
RealityCloses ==
    CASE stage = "start" -> << >>
      [] stage = "second" -> <<"instance">>
      [] OTHER -> <<"conn", "instance">>

(* NewPeerConnection fails, or newPeer has no track for it; from then on   *)
(* dialWebRTC leaves it all to its deferred calls.                         *)
PeerCloses == IF stage = "second" THEN <<"conn">> ELSE << >>

(* The calls of the error path a failure takes at this stage. *)
Closes == CASE kind = "sip" -> SipCloses
            [] kind = "reality" -> RealityCloses
            [] kind = "webrtc" -> PeerCloses

(* Mutant of Watching: REALITY relies on the connection's deadlines. *)
WatchingDeadline == kind = "sip"

(* Who closes the connection with a context.AfterFunc. *)
Watching == kind \in {"sip", "reality"}

(* The Xray instance; or a peer connection, still without its track. *)
First == /\ stage = "start" /\ kind # "sip"
         /\ stage' = "second"
         /\ held' = IF kind = "reality" THEN {"instance"} ELSE {"conn"}
         /\ UNCHANGED <<world, outcome, closes, todo, watch, limit, ctxDone, lost,
                        wire, secrets, excused>>

(* The TCP or TLS connection; the one through the instance; the rtcConn.   *)
(* With it the time runs: the handshake's 15 s, authCtx's 20 s, or         *)
(* WebRTC's timers, as one.                                                *)
Acquire ==
    /\ stage = IF kind = "sip" THEN "start" ELSE "second"
    /\ stage' = "request" /\ held' = held \cup {"conn"}
    /\ todo' = Deferred /\ limit' = "set"
    /\ watch' = IF Watching THEN "armed" ELSE "none"
    /\ UNCHANGED <<world, outcome, closes, ctxDone, lost, wire, secrets, excused>>

(* The connection fails reads and writes.  Xray's has no read deadline.    *)
Broken == lost \/ "conn" \notin held \/ (limit = "passed" /\ kind # "reality")

Hello == CASE kind = "sip" -> <<"hello">>
           [] kind = "reality" -> <<"token", Token("client")>>
           [] kind = "webrtc" -> <<"offer", Token("client")>>

(* The first request.  dialWebRTC has gathered its offer by now, and has   *)
(* deferred CloseIdleConnections.                                          *)
Request == /\ stage = "request" /\ ~Broken
           /\ stage' = "answer" /\ wire' = Hello
           /\ todo' = IF kind = "webrtc" THEN <<"idle">> \o todo ELSE todo
           /\ UNCHANGED <<world, outcome, closes, held, watch, limit, ctxDone, lost,
                          secrets, excused>>

(* clientAuth checks the server's proof and sends its own. *)
Prove == /\ stage = "answer" /\ kind = "sip" /\ ~Broken
         /\ wire = <<"challenge", Proof("client", "server:")>>
         /\ stage' = "verdict" /\ wire' = <<"proof", Proof("client", "client:")>>
         /\ UNCHANGED <<world, outcome, closes, todo, held, watch, limit, ctxDone,
                        lost, secrets, excused>>

(* client.Do returns a response, of whatever status, whose body is to be   *)
(* closed.                                                                 *)
Responded == /\ stage = "answer" /\ kind = "webrtc" /\ ~Broken
             /\ wire \in {<<"ok">>, <<"refused">>}
             /\ stage' = "verdict" /\ held' = held \cup {"response"}
             /\ todo' = <<"body">> \o todo
             /\ UNCHANGED <<world, outcome, closes, watch, limit, ctxDone, lost, wire,
                            secrets, excused>>

(* clientAuth clears its deadline when it returns; the timers are local.   *)
Untimed == limit' = IF kind = "reality" THEN limit ELSE "none"

Succeeds == stage' = "leave" /\ outcome' = "conn" /\ Untimed

(* The server lets the client in: setKey and start, and WebRTC still has   *)
(* to connect.                                                             *)
Accepted == /\ stage = IF kind = "reality" THEN "answer" ELSE "verdict"
            /\ ~Broken /\ wire = <<"ok">>
            /\ wire' = Nothing
            /\ IF kind = "webrtc" THEN stage' = "wait" /\ UNCHANGED <<outcome, limit>>
                                  ELSE Succeeds
            /\ IF kind = "sip" THEN /\ keys' = [keys EXCEPT !.client = Keys("client")]
                                    /\ reading' = reading \cup {"client"}
                               ELSE UNCHANGED <<keys, reading>>
            /\ UNCHANGED <<world, closes, todo, held, watch, ctxDone, lost, accepted,
                           excused>>

(* p.wait: ready is closed; ok is set. *)
Connected == /\ stage = "wait" /\ accepted
             /\ Succeeds
             /\ UNCHANGED <<world, closes, todo, held, watch, ctxDone, lost, wire,
                            secrets, excused>>

(* A refusal, or a proof made with another token. *)
Bad == /\ stage \in {"answer", "verdict"} /\ kind # "webrtc"
       /\ \/ wire = <<"refused">>
          \/ wire = <<"challenge", Proof("server", "server:")>> /\ ~same

(* A step fails by itself (no instance or connection; no track or offer;   *)
(* a status or an answer that will not do), finds the connection broken,   *)
(* or, WebRTC, the context done or the time over.                          *)
Fails == /\ \/ stage \in {"start", "second"}
            \/ stage \in {"request", "verdict"} /\ kind = "webrtc"
            \/ stage \in {"request", "answer", "verdict", "wait"} /\ Broken
            \/ stage \in {"answer", "wait"} /\ kind = "webrtc" /\ ctxDone
            \/ Bad
         /\ stage' = "undo" /\ outcome' = "error" /\ Untimed
         /\ closes' = Closes
         /\ UNCHANGED <<world, todo, held, watch, ctxDone, lost, wire, secrets, excused>>

(* The calls of an error path, one after the other, before the deferred    *)
(* ones; and those of the Close of Dial's caller.                          *)
Undo == /\ stage \in {"undo", "closing"}
        /\ IF closes = << >>
           THEN /\ stage' = IF stage = "undo" THEN "leave" ELSE "closed"
                /\ UNCHANGED <<closes, held>>
           ELSE /\ held' = held \ {Head(closes)} /\ closes' = Tail(closes)
                /\ UNCHANGED stage
        /\ UNCHANGED <<world, outcome, todo, watch, limit, ctxDone, lost, wire, secrets,
                       excused>>

(* What a deferred call closes, and what it may leave instead: the         *)
(* connection of a response whose body is closed can become an idle one.   *)
Frees(call) == CASE call = "unless" -> IF outcome = "error" THEN {"conn"} ELSE {}
                 [] call = "body" -> {"response"}
                 [] call = "idle" -> {"idle"}
                 [] call \in {"stop", "cancel"} -> {}
Leaves(call) == IF call = "body" THEN {{}, {"idle"}} ELSE {{}}

(* One deferred call after the other, and Dial returns. *)
Leave ==
    /\ stage = "leave"
    /\ IF todo = << >>
       THEN stage' = "returned" /\ UNCHANGED <<todo, held, watch, limit>>
       ELSE LET call == Head(todo) IN
            /\ todo' = Tail(todo) /\ UNCHANGED stage
            /\ held' \in {(held \ Frees(call)) \cup more : more \in Leaves(call)}
            /\ watch' = IF call = "stop" /\ watch = "armed" THEN "stopped" ELSE watch
            /\ limit' = IF call = "cancel" THEN "over" ELSE limit
    /\ UNCHANGED <<world, outcome, closes, ctxDone, lost, wire, secrets, excused>>

(* The caller closes what it was given; a realityConn closes the           *)
(* connection and then the instance.                                       *)
Close == /\ stage = "returned" /\ outcome = "conn"
         /\ stage' = "closing"
         /\ closes' = IF kind = "reality" THEN <<"conn", "instance">> ELSE <<"conn">>
         /\ UNCHANGED <<world, outcome, todo, held, watch, limit, ctxDone, lost, wire,
                        secrets, excused>>

-----------------------------------------------------------------------------
(* The AfterFunc starts once its context is done, authCtx for REALITY, and *)
(* stop() no longer stops it then; it closes the connection.               *)
WatchStarts == /\ watch = "armed"
               /\ ctxDone \/ (kind = "reality" /\ limit \in {"passed", "over"})
               /\ watch' = "running"
               /\ UNCHANGED <<world, stage, outcome, closes, todo, held, limit, ctxDone,
                              lost, wire, secrets, excused>>

WatchCloses == /\ watch = "running"
               /\ watch' = "stopped" /\ held' = held \ {"conn"}
               /\ UNCHANGED <<world, stage, outcome, closes, todo, limit, ctxDone, lost,
                              wire, secrets, excused>>

Dialing == stage \notin {"returned", "closing", "closed"}

Expire == /\ limit = "set"
          /\ limit' = "passed" /\ excused' = (excused \/ Dialing)
          /\ UNCHANGED <<world, stage, outcome, closes, todo, held, watch, ctxDone, lost,
                         wire, secrets>>

CancelDial == /\ ~ctxDone
              /\ ctxDone' = TRUE /\ excused' = (excused \/ Dialing)
              /\ UNCHANGED <<world, client, lost, wire, secrets>>

LinkFails == /\ ~lost /\ lost' = TRUE
             /\ UNCHANGED <<world, client, ctxDone, wire, secrets, excused>>

(* serverAuth, authStream and the offer's handler.  A token that is not    *)
(* equal is answered by the end of the connection; an offer may be refused *)
(* for other reasons.                                                      *)
Verdict(yes) == IF yes THEN {<<"ok">>} ELSE {<<"refused">>}
Answers(m) ==
    CASE m[1] = "hello" -> {<<"challenge", Proof("server", "server:")>>}
      [] m[1] = "proof" -> Verdict(m[2] = Proof("server", "client:"))
      [] m[1] = "token" -> Verdict(m[2] = Token("server"))
      [] m[1] = "offer" -> Verdict(m[2] = Token("server")) \cup Verdict(FALSE)

ServerAnswers ==
    /\ ~lost /\ wire # Nothing /\ wire[1] \in {"hello", "proof", "token", "offer"}
    /\ wire' \in Answers(wire)
    /\ accepted' = (wire' = <<"ok">>)
    /\ UNCHANGED <<world, client, ctxDone, lost, keys, reading, excused>>

(* serverAuth sets its key after its last reply, when the client may have  *)
(* returned, and written, already.                                         *)
ServerKeyed == /\ kind = "sip" /\ accepted /\ keys.server = Unset
               /\ keys' = [keys EXCEPT !.server = Keys("server")]
               /\ UNCHANGED <<world, client, ctxDone, lost, wire, accepted, reading,
                              excused>>

(* Mutant of Authenticated: start once the client has its answer. *)
AuthenticatedSoon == accepted

(* serverAuth has returned without an error. *)
Authenticated == keys.server # Unset

(* Serve starts the session: readLoop opens what the client has sent.      *)
ServerStarts == /\ kind = "sip" /\ "server" \notin reading
                /\ Authenticated
                /\ reading' = reading \cup {"server"}
                /\ UNCHANGED <<world, client, ctxDone, lost, wire, accepted, keys,
                               excused>>

-----------------------------------------------------------------------------
Step == \/ First \/ Acquire \/ Request \/ Prove \/ Responded \/ Accepted
        \/ Connected \/ Fails \/ Undo \/ Leave

DNext == \/ Step \/ Close \/ WatchStarts \/ WatchCloses
         \/ Expire \/ CancelDial \/ LinkFails
         \/ ServerAnswers \/ ServerKeyed \/ ServerStarts

(* Dial, the AfterFunc and the clock run; no server has to answer, and the *)
(* connections that Acquire makes have their own time limits.              *)
DSpec == /\ DInit /\ [][DNext]_dialVars
         /\ WF_dialVars(Step) /\ WF_dialVars(WatchStarts)
         /\ WF_dialVars(WatchCloses) /\ WF_dialVars(Expire)

-----------------------------------------------------------------------------
(* Whichever step of whichever transport fails, and whenever the AfterFunc *)
(* runs: the calls of that error path and the deferred ones leave nothing  *)
(* open, neither the connection nor the Xray instance under it, nor the    *)
(* HTTP exchange of an offer; and nothing is left once the caller has      *)
(* closed what Dial returned.                                              *)
NothingLeft == stage = "closed" \/ (stage = "returned" /\ outcome = "error") => held = {}

(* A connection that Dial hands over stays: unless the context ended or    *)
(* the time passed before Dial returned, no deferred call, AfterFunc or    *)
(* deadline of the handshake reaches it later, and a later cancellation is *)
(* the caller's business.                                                  *)
KeptOnReturn == stage = "returned" /\ outcome = "conn" /\ ~excused =>
                   "conn" \in held /\ limit # "passed"

(* Who gets a connection shares the server's token and was accepted by it. *)
(* An end of a SIP session that reads can open whatever the other may have *)
(* sent by then, though each sets its keys by itself and the client may    *)
(* write before the server has any; and the two directions, whose CSeq     *)
(* numbers overlap, never share a key.                                     *)
EndsAgree ==
    /\ outcome = "conn" => same /\ accepted /\ (kind = "sip" => "client" \in reading)
    /\ \A e \in reading : LET other == IF e = "client" THEN "server" ELSE "client" IN
           /\ keys[other] # Unset => keys[e].rx = keys[other].tx
           /\ keys[e].tx # keys[e].rx

(* Dial returns, though the server never answers a word, and although an   *)
(* Xray connection has no read deadline.                                   *)
DialReturns == <>(~Dialing)
=============================================================================
