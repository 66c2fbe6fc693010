---------------------------- MODULE StreamServer ----------------------------
(***************************************************************************)
(* internal/transport/transport.go, serveStream: the accept loop of the    *)
(* SIP and REALITY servers, one goroutine per admitted connection, the     *)
(* gate that admits one at a time, and the two kinds of context.AfterFunc, *)
(* which close the listener and the connection.                            *)
(***************************************************************************)
EXTENDS Naturals

CONSTANT Client  \* bound: connections that are made, one by each

VARIABLES
    loop,       \* "accept", "gate", "join" (the deferred wg.Wait) or "returned"
    at,         \* the connection the loop has accepted last
    listening,  \* the listener is open
    cancelled,  \* the context is cancelled
    gate,       \* tokens in the gate channel
    conn,       \* conn[c]: "none", "queued", "open", "lost" or "closed" here
    task        \* task[c]: where the goroutine of c is

vars == <<loop, at, listening, cancelled, gate, conn, task>>

(* The goroutine's life: authentication; authenticated, with the deadline  *)
(* of 15 s still set; the handler; its deferred calls one by one.          *)
Life == {"auth", "authed", "handle", "close", "release", "leave"}

Init == /\ loop = "accept" /\ at \in Client /\ listening = TRUE /\ cancelled = FALSE /\ gate = 0
        /\ conn = [c \in Client |-> "none"]
        /\ task = [c \in Client |-> "none"]

Goto(c, where) == task' = [task EXCEPT ![c] = where]
Becomes(c, state) == conn' = [conn EXCEPT ![c] = state]

-----------------------------------------------------------------------------
Connect(c) == /\ listening /\ conn[c] = "none"
              /\ Becomes(c, "queued")
              /\ UNCHANGED <<loop, at, listening, cancelled, gate, task>>

Accept(c) == /\ loop = "accept" /\ listening /\ conn[c] = "queued"
             /\ Becomes(c, "open")
             /\ at' = c /\ loop' = "gate"
             /\ UNCHANGED <<listening, cancelled, gate, task>>

(* Accept returns an error, because the listener is closed or on its own:  *)
(* serveStream is about to return, and cancels.                            *)
AcceptFails == /\ loop = "accept"
               /\ loop' = "join" /\ cancelled' = TRUE
               /\ UNCHANGED <<at, listening, gate, conn, task>>

(* Mutant of Room: a gate for two. *)
RoomForTwo == gate < 2

(* The capacity of gate. *)
Room == gate < 1

(* The select on gate: a goroutine for the connection, or its end. *)
Admit == /\ loop = "gate"
         /\ loop' = "accept"
         /\ \/ Room /\ gate' = gate + 1 /\ Goto(at, "auth") /\ UNCHANGED conn
            \/ ~Room /\ Becomes(at, "closed") /\ UNCHANGED <<gate, task>>
         /\ UNCHANGED <<at, listening, cancelled>>

(* Mutant of Joined: wg.Add once the client is authenticated. *)
JoinedAuthed == \A c \in Client : task[c] \in {"none", "auth", "done"}

Joined == \A c \in Client : task[c] \in {"none", "done"}

(* wg.Wait and the other deferred calls. *)
Return == /\ loop = "join" /\ Joined
          /\ loop' = "returned" /\ listening' = FALSE
          /\ UNCHANGED <<at, cancelled, gate, conn, task>>

-----------------------------------------------------------------------------
(* auth(n) succeeds: serverAuth or authStream has seen the token. *)
AuthSucceeds(c) == /\ task[c] = "auth" /\ conn[c] = "open"
                   /\ Goto(c, "authed")
                   /\ UNCHANGED <<loop, at, listening, cancelled, gate, conn>>

(* Mutant of AuthMayFail: without SetDeadline, a silent client is awaited. *)
AuthMayFailNoDeadline(c) == conn[c] # "open"

(* The client is wrong or gone, or has not got it done in 15 s. *)
AuthMayFail(c) == TRUE

AuthFails(c) == /\ task[c] = "auth" /\ AuthMayFail(c)
                /\ Goto(c, "close")
                /\ UNCHANGED <<loop, at, listening, cancelled, gate, conn>>

(* The deadline is cleared, just in time or too late. *)
Handle(c) == /\ task[c] = "authed"
             /\ Goto(c, "handle")
             /\ \/ UNCHANGED conn
                \/ conn[c] = "open" /\ Becomes(c, "lost")
             /\ UNCHANGED <<loop, at, listening, cancelled, gate>>

(* h returns: on its own, or because its context or connection has ended.  *)
HandlerReturns(c) == /\ task[c] = "handle"
                     /\ Goto(c, "close")
                     /\ UNCHANGED <<loop, at, listening, cancelled, gate, conn>>

(* The deferred calls: n.Close(), <-gate, wg.Done(). *)
Unwind(c) == /\ \/ /\ task[c] = "close" /\ Goto(c, "release")
                   /\ Becomes(c, "closed") /\ UNCHANGED gate
                \/ /\ task[c] = "release" /\ Goto(c, "leave")
                   /\ gate' = gate - 1 /\ UNCHANGED conn
                \/ /\ task[c] = "leave" /\ Goto(c, "done")
                   /\ UNCHANGED <<gate, conn>>
             /\ UNCHANGED <<loop, at, listening, cancelled>>

-----------------------------------------------------------------------------
(* Mutant of Watched: the listener is closed only by the deferred call. *)
WatchedNever == FALSE

(* The AfterFuncs, each in a goroutine of its own. *)
Watched == cancelled

CloseListener == /\ Watched /\ listening
                 /\ listening' = FALSE
                 /\ UNCHANGED <<loop, at, cancelled, gate, conn, task>>

CloseConn(c) == /\ cancelled
                /\ task[c] \in {"auth", "authed", "handle"} /\ conn[c] # "closed"
                /\ Becomes(c, "closed")
                /\ UNCHANGED <<loop, at, listening, cancelled, gate, task>>

(* The caller, or a handler whose cleanup failed, cancels; a client goes.  *)
Cancel == /\ ~cancelled /\ cancelled' = TRUE
          /\ UNCHANGED <<loop, at, listening, gate, conn, task>>

ClientGoes(c) == /\ conn[c] = "open"
                 /\ Becomes(c, "lost")
                 /\ UNCHANGED <<loop, at, listening, cancelled, gate, task>>

-----------------------------------------------------------------------------
Task(c) == AuthFails(c) \/ Handle(c) \/ Unwind(c)
Loop == Admit \/ Return \/ (~listening /\ AcceptFails)

Next == \/ AcceptFails \/ Loop \/ CloseListener \/ Cancel
        \/ \E c \in Client : \/ Connect(c) \/ Accept(c) \/ ClientGoes(c)
                             \/ AuthSucceeds(c) \/ Task(c) \/ HandlerReturns(c)
                             \/ CloseConn(c)

(* Goroutines run; the deadline ends an authentication; a handler returns  *)
(* once its context is cancelled or its connection has ended (module       *)
(* Bridge); no client, error or cancellation is owed.                      *)
Spec == /\ Init /\ [][Next]_vars
        /\ WF_vars(Loop) /\ WF_vars(CloseListener)
        /\ \A c \in Client :
             /\ WF_vars(Task(c)) /\ WF_vars(CloseConn(c))
             /\ WF_vars((cancelled \/ conn[c] # "open") /\ HandlerReturns(c))

-----------------------------------------------------------------------------
(* The accept loop keeps Serve's promise: one handler at a time, whichever *)
(* connections arrive, fail, time out or go, and none after the return.    *)
Abstract == INSTANCE OneSession WITH
    Client <- Client,
    session <- {c \in Client : task[c] = "handle"},
    returned <- loop = "returned"
ImplementsOneSession == Abstract!Spec

(* "Serve joins all session handlers before returning" (main.go), also a   *)
(* connection that was accepted while the context was cancelled: nothing   *)
(* of any client is left, and the gate and the listener are given back.    *)
JoinedOnReturn ==
    loop = "returned" => /\ ~listening /\ gate = 0
                         /\ \A c \in Client : /\ task[c] \in {"none", "done"}
                                              /\ conn[c] \notin {"open", "lost"}

(* Unauthenticated work is bounded: an admitted client that is silent,     *)
(* wrong or gone never keeps the one place from the others for ever.       *)
PlaceComesFree == gate > 0 ~> gate = 0 \/ \E c \in Client : task[c] = "handle"

(* Cancelling the context makes serveStream return, wherever the loop and  *)
(* the goroutines are: in Accept, between Accept and the gate, in an       *)
(* authentication nobody answers, or in a handler.                         *)
CancelReturns == cancelled ~> loop = "returned"
=============================================================================
