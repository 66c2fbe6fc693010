---------------------------- MODULE ConnectProofs ----------------------------
(***************************************************************************)
(* How a connection comes about and ends, at the server and at the client. *)
(* For any number of connections: serveStream implements OneSession, and   *)
(* leaves nothing of any client behind when it returns.  For every dial:   *)
(* an error leaves nothing open, a success stays open, and both ends agree *)
(* on the token and the keys.  The two modules share no name; each has an  *)
(* invariant of its own.                                                   *)
(***************************************************************************)
EXTENDS StreamServer, Dial, SequenceTheorems, TLAPS

(* serveStream.                                                            *)
Types ==
    /\ loop \in {"accept", "gate", "join", "returned"}
    /\ at \in Client
    /\ conn \in [Client -> {"none", "queued", "open", "lost", "closed"}]
    /\ task \in [Client -> Life \cup {"none", "done"}]

(* A goroutine is started once per connection, by Admit, for the one that  *)
(* Accept has handed it.                                                   *)
Fresh(c) == task[c] = "none" => \/ conn[c] \in {"none", "queued", "closed"}
                                \/ loop = "gate" /\ at = c
Started == /\ \A c \in Client : conn[c] \in {"none", "queued"} => task[c] = "none"
           /\ \A c \in Client : Fresh(c)
           /\ loop = "gate" => task[at] = "none" /\ conn[at] \notin {"none", "queued"}

(* The token in the gate stands for exactly one goroutine. *)
Holders == {c \in Client : task[c] \in Life \ {"leave"}}
GateHolds == \/ gate = 0 /\ Holders = {}
             \/ gate = 1 /\ \E c \in Client : Holders = {c}

(* n.Close() has run before the token is given back. *)
Closed == \A c \in Client : task[c] \in {"release", "leave", "done"} => conn[c] = "closed"

Over == loop = "returned" => ~listening /\ Joined

IInv == Types /\ Started /\ GateHolds /\ Closed /\ Over

LEMMA InitIInv == Init => IInv
BY DEF Init, IInv, Types, Started, Fresh, GateHolds, Holders, Closed, Over, Life

(* One connection's goroutine moves, not into or out of Holders.           *)
LEMMA SameHolders ==
    ASSUME Types, NEW c \in Client, NEW there \in Life \cup {"none", "done"},
           Goto(c, there),
           task[c] \in Life \ {"leave"} <=> there \in Life \ {"leave"}
    PROVE  Holders' = Holders
BY DEF Types, Goto, Holders

LEMMA StepIInv == IInv /\ [Next]_vars => IInv'
<1> SUFFICES ASSUME IInv, [Next]_vars PROVE IInv'
  OBVIOUS
<1> USE DEF IInv, Types, Started, Fresh, Closed, Over, Joined, Goto, Becomes
<1>1. CASE AcceptFails
  BY <1>1 DEF AcceptFails, GateHolds, Holders
<1>2. CASE Admit
  <2>1. CASE Room /\ gate' = gate + 1 /\ Goto(at, "auth") /\ UNCHANGED conn
    <3>1. gate = 0 /\ Holders = {}
      BY <2>1 DEF GateHolds, Room
    <3>2. Holders' = {at}
      BY <3>1, <2>1 DEF Holders, Life
    <3>3. GateHolds'
      BY <3>1, <3>2, <2>1, <1>2 DEF GateHolds, Admit
    <3> QED BY <3>3, <2>1, <1>2 DEF Admit, Life
  <2>2. CASE ~Room /\ Becomes(at, "closed") /\ UNCHANGED <<gate, task>>
    BY <2>2, <1>2 DEF Admit, GateHolds, Holders
  <2> QED BY <2>1, <2>2, <1>2 DEF Admit
<1>3. CASE Return
  BY <1>3 DEF Return, GateHolds, Holders
<1>4. CASE CloseListener
  BY <1>4 DEF CloseListener, GateHolds, Holders
<1>5. CASE Cancel
  BY <1>5 DEF Cancel, GateHolds, Holders
<1>6. ASSUME NEW c \in Client, Connect(c) PROVE IInv'
  BY <1>6 DEF Connect, GateHolds, Holders
<1>7. ASSUME NEW c \in Client, Accept(c) PROVE IInv'
  BY <1>7 DEF Accept, GateHolds, Holders
<1>8. ASSUME NEW c \in Client, ClientGoes(c) PROVE IInv'
  BY <1>8 DEF ClientGoes, GateHolds, Holders
<1>9. ASSUME NEW c \in Client, AuthSucceeds(c) PROVE IInv'
  <2>1. Holders' = Holders
    BY <1>9, SameHolders DEF AuthSucceeds, Life
  <2> QED BY <2>1, <1>9 DEF AuthSucceeds, GateHolds, Life
<1>10. ASSUME NEW c \in Client, AuthFails(c) PROVE IInv'
  <2>1. Holders' = Holders
    BY <1>10, SameHolders DEF AuthFails, Life
  <2> QED BY <2>1, <1>10 DEF AuthFails, GateHolds, Life
<1>11. ASSUME NEW c \in Client, Handle(c) PROVE IInv'
  <2>1. Holders' = Holders
    BY <1>11, SameHolders DEF Handle, Life
  <2> QED BY <2>1, <1>11 DEF Handle, GateHolds, Life
<1>12. ASSUME NEW c \in Client, HandlerReturns(c) PROVE IInv'
  <2>1. Holders' = Holders
    BY <1>12, SameHolders DEF HandlerReturns, Life
  <2> QED BY <2>1, <1>12 DEF HandlerReturns, GateHolds, Life
<1>13. ASSUME NEW c \in Client, Unwind(c) PROVE IInv'
  <2>1. CASE task[c] = "close"
    <3>1. Holders' = Holders
      BY <2>1, <1>13, SameHolders DEF Unwind, Life
    <3> QED BY <3>1, <2>1, <1>13 DEF Unwind, GateHolds, Life
  <2>2. CASE task[c] = "release"
    <3>1. gate = 1 /\ Holders = {c}
      BY <2>2 DEF GateHolds, Holders, Life
    <3>2. Holders' = {}
      BY <3>1, <2>2, <1>13 DEF Unwind, Holders, Life
    <3> QED BY <3>1, <3>2, <2>2, <1>13 DEF Unwind, GateHolds, Life
  <2>3. CASE task[c] = "leave"
    <3>1. Holders' = Holders
      BY <2>3, <1>13, SameHolders DEF Unwind, Life
    <3> QED BY <3>1, <2>3, <1>13 DEF Unwind, GateHolds, Life
  <2> QED BY <2>1, <2>2, <2>3, <1>13 DEF Unwind
<1>14. ASSUME NEW c \in Client, CloseConn(c) PROVE IInv'
  BY <1>14 DEF CloseConn, GateHolds, Holders
<1>15. CASE UNCHANGED vars
  BY <1>15 DEF vars, GateHolds, Holders
<1> QED
  BY <1>1, <1>2, <1>3, <1>4, <1>5, <1>6, <1>7, <1>8, <1>9, <1>10, <1>11, <1>12, <1>13,
     <1>14, <1>15 DEF Next, Loop, Task

-----------------------------------------------------------------------------
(* What serveStream leaves behind when it returns: nothing.                *)
THEOREM StreamJoins == Spec => []JoinedOnReturn
<1>1. IInv => JoinedOnReturn
  BY DEF IInv, Types, Started, Fresh, GateHolds, Holders, Closed, Over, Joined,
         JoinedOnReturn, Life
<1> QED BY InitIInv, StepIInv, <1>1, PTL DEF Spec

(* One handler at a time, and none once serveStream has returned.          *)
THEOREM StreamOneSession == Spec => ImplementsOneSession
<1> DEFINE session == {c \in Client : task[c] = "handle"}
<1>1. Init => Abstract!Init
  BY DEF Init, Abstract!Init
<1>2. IInv /\ [Next]_vars => [Abstract!Next]_(Abstract!vars)
  <2> SUFFICES ASSUME IInv, [Next]_vars PROVE [Abstract!Next]_(Abstract!vars)
    OBVIOUS
  <2> USE DEF IInv, Types, Goto, Abstract!vars, Abstract!Next
  <2>1. CASE Return
    BY <2>1 DEF Return, Joined, Abstract!Return
  <2>2. ASSUME NEW c \in Client, Handle(c) PROVE Abstract!Begin(c)
    <3>1. Holders = {c}
      BY <2>2 DEF Handle, GateHolds, Holders, Life
    <3>2. session = {}
      BY <3>1, <2>2 DEF Handle, Holders, Life
    <3>3. session' = {c}
      BY <3>2, <2>2 DEF Handle
    <3>4. loop # "returned" /\ UNCHANGED loop
      BY <2>2 DEF Handle, Over, Joined
    <3> QED BY <3>2, <3>3, <3>4 DEF Abstract!Begin
  <2>3. ASSUME NEW c \in Client, HandlerReturns(c) PROVE Abstract!End
    <3>1. Holders = {c}
      BY <2>3 DEF HandlerReturns, GateHolds, Holders, Life
    <3>2. session' = {}
      BY <3>1, <2>3 DEF HandlerReturns, Holders, Life
    <3>3. loop # "returned" /\ UNCHANGED loop
      BY <2>3 DEF HandlerReturns, Over, Joined
    <3> QED BY <3>2, <3>3 DEF Abstract!End
  <2>4. CASE AcceptFails \/ Admit \/ CloseListener \/ Cancel
    <3>1. session' = session
      BY <2>4 DEF AcceptFails, Admit, CloseListener, Cancel, Started
    <3>2. (loop' = "returned") = (loop = "returned")
      BY <2>4 DEF AcceptFails, Admit, CloseListener, Cancel
    <3> QED BY <3>1, <3>2
  <2>5. ASSUME NEW c \in Client,
               \/ Connect(c) \/ Accept(c) \/ ClientGoes(c) \/ CloseConn(c)
               \/ AuthSucceeds(c) \/ AuthFails(c) \/ Unwind(c)
        PROVE  UNCHANGED Abstract!vars
    <3>1. session' = session
      BY <2>5 DEF Connect, Accept, ClientGoes, CloseConn, AuthSucceeds, AuthFails, Unwind
    <3>2. (loop' = "returned") = (loop = "returned")
      BY <2>5 DEF Connect, Accept, ClientGoes, CloseConn, AuthSucceeds, AuthFails, Unwind
    <3> QED BY <3>1, <3>2
  <2>6. CASE UNCHANGED vars
    BY <2>6 DEF vars
  <2> QED BY <2>1, <2>2, <2>3, <2>4, <2>5, <2>6 DEF Next, Loop, Task
<1> QED
  BY InitIInv, StepIInv, <1>1, <1>2, PTL DEF Spec, ImplementsOneSession, Abstract!Spec

-----------------------------------------------------------------------------
(* The dial.  The calls that can be to come are few: Close's and each      *)
(* error path's, and the deferred ones, without those that have run.       *)
ConnThenInstance == <<"conn", "instance">>
OnlyInstance == <<"instance">>
OnlyConn == <<"conn">>

StopThenCancel == <<"stop", "cancel">>
OnlyStop == <<"stop">>
OnlyCancel == <<"cancel">>

FromBody == <<"body", "idle", "unless">>
FromIdle == <<"idle", "unless">>
OnlyUnless == <<"unless">>
Withdraws == {FromBody, FromIdle, OnlyUnless}

LEMMA Closing ==
    /\ << >> \notin {ConnThenInstance, OnlyInstance, OnlyConn}
    /\ Head(ConnThenInstance) = "conn" /\ Tail(ConnThenInstance) = OnlyInstance
    /\ Head(OnlyInstance) = "instance" /\ Tail(OnlyInstance) = << >>
    /\ Head(OnlyConn) = "conn" /\ Tail(OnlyConn) = << >>
<1>1. << >> \notin {ConnThenInstance, OnlyInstance, OnlyConn}
  BY DEF ConnThenInstance, OnlyInstance, OnlyConn
<1>2. Head(ConnThenInstance) = "conn" /\ Tail(ConnThenInstance) = OnlyInstance
  BY DEF ConnThenInstance, OnlyInstance
<1>3. /\ Head(OnlyInstance) = "instance" /\ Tail(OnlyInstance) = << >>
      /\ Head(OnlyConn) = "conn" /\ Tail(OnlyConn) = << >>
  BY DEF OnlyInstance, OnlyConn
<1> QED BY <1>1, <1>2, <1>3

LEMMA Deferring ==
    /\ << >> \notin {StopThenCancel, OnlyStop, OnlyCancel} \cup Withdraws
    /\ Head(StopThenCancel) = "stop" /\ Tail(StopThenCancel) = OnlyCancel
    /\ Head(OnlyStop) = "stop" /\ Tail(OnlyStop) = << >>
    /\ Head(OnlyCancel) = "cancel" /\ Tail(OnlyCancel) = << >>
    /\ Head(FromBody) = "body" /\ Tail(FromBody) = FromIdle
    /\ Head(FromIdle) = "idle" /\ Tail(FromIdle) = OnlyUnless
    /\ Head(OnlyUnless) = "unless" /\ Tail(OnlyUnless) = << >>
<1>1. << >> \notin {StopThenCancel, OnlyStop, OnlyCancel} \cup Withdraws
  BY DEF StopThenCancel, OnlyStop, OnlyCancel, Withdraws, FromBody, FromIdle, OnlyUnless
<1>2. /\ Head(StopThenCancel) = "stop" /\ Tail(StopThenCancel) = OnlyCancel
      /\ Head(OnlyStop) = "stop" /\ Tail(OnlyStop) = << >>
      /\ Head(OnlyCancel) = "cancel" /\ Tail(OnlyCancel) = << >>
  BY DEF StopThenCancel, OnlyStop, OnlyCancel
<1>3. Head(FromBody) = "body" /\ Tail(FromBody) = FromIdle
  BY DEF FromBody, FromIdle
<1>4. /\ Head(FromIdle) = "idle" /\ Tail(FromIdle) = OnlyUnless
      /\ Head(OnlyUnless) = "unless" /\ Tail(OnlyUnless) = << >>
  BY DEF FromIdle, OnlyUnless
<1> QED BY <1>1, <1>2, <1>3, <1>4

(* A call that is deferred last runs first. *)
LEMMA Pushing ==
    /\ <<"idle">> \o OnlyUnless = FromIdle
    /\ <<"body">> \o FromIdle = FromBody
<1> DEFINE Call == {"body", "idle", "unless"}
<1>1. OnlyUnless \in Seq(Call) /\ Len(OnlyUnless) = 1 /\ OnlyUnless[1] = "unless"
  BY DEF OnlyUnless
<1>2. /\ FromIdle \in Seq(Call) /\ Len(FromIdle) = 2
      /\ FromIdle[1] = "idle" /\ FromIdle[2] = "unless"
  BY DEF FromIdle
<1>3. /\ FromBody \in Seq(Call) /\ Len(FromBody) = 3
      /\ FromBody[1] = "body" /\ FromBody[2] = "idle" /\ FromBody[3] = "unless"
  BY DEF FromBody
<1>4. /\ <<"idle">> \in Seq(Call) /\ Len(<<"idle">>) = 1
      /\ <<"body">> \in Seq(Call) /\ Len(<<"body">>) = 1
  OBVIOUS
<1> HIDE DEF Call
<1>5. <<"idle">> \o OnlyUnless = FromIdle
  <2> DEFINE joined == <<"idle">> \o OnlyUnless
  <2>1. /\ joined \in Seq(Call) /\ Len(joined) = Len(FromIdle)
        /\ \A i \in 1 .. Len(joined) : joined[i] = FromIdle[i]
    BY <1>1, <1>2, <1>4, ConcatProperties
  <2> QED BY <1>2, <2>1, SeqEqual
<1>6. <<"body">> \o FromIdle = FromBody
  <2> DEFINE joined == <<"body">> \o FromIdle
  <2>1. joined \in Seq(Call) /\ Len(joined) = 3
    <3>1. joined \in Seq(Call) /\ Len(joined) = Len(<<"body">>) + Len(FromIdle)
      BY <1>2, <1>4, ConcatProperties
    <3> HIDE DEF joined
    <3> QED BY <1>2, <1>4, <3>1
  <2>2. joined[1] = "body" /\ joined[2] = "idle" /\ joined[3] = "unless"
    <3>1. \A i \in 1 .. 3 : joined[i] = IF i <= 1 THEN <<"body">>[i] ELSE FromIdle[i - 1]
      BY <1>2, <1>4, ConcatProperties
    <3> HIDE DEF joined
    <3> QED BY <1>2, <3>1
  <2> HIDE DEF joined
  <2>3. \A i \in 1 .. Len(joined) : joined[i] = FromBody[i]
    BY <1>3, <2>1, <2>2
  <2>4. joined = FromBody
    BY <1>3, <2>1, <2>3, SeqEqual
  <2> QED BY <2>4 DEF joined
<1> QED BY <1>5, <1>6

DTypes ==
    /\ kind \in {"sip", "reality", "webrtc"} /\ same \in BOOLEAN
    /\ stage \in {"start", "second", "request", "answer", "verdict", "wait", "undo",
                  "leave", "returned", "closing", "closed"}
    /\ outcome \in {"none", "conn", "error"}
    /\ closes \in {<< >>, ConnThenInstance, OnlyInstance, OnlyConn}
    /\ todo \in {<< >>, StopThenCancel, OnlyStop, OnlyCancel} \cup Withdraws
    /\ watch \in {"none", "armed", "running", "stopped"}
    /\ limit \in {"none", "set", "passed", "over"}

(* Where Dial stands says what the outcome is and what it has deferred;    *)
(* nothing has begun at the start.                                         *)
Underway == {"request", "answer", "verdict", "wait"}
Course ==
    /\ outcome = "none" <=> stage \in {"start", "second"} \cup Underway
    /\ stage \in {"closing", "closed"} => outcome = "conn"
    /\ stage = "undo" => outcome = "error"
    /\ stage = "second" => kind # "sip"
    /\ stage = "wait" => kind = "webrtc"
    /\ stage \in {"start", "second"} => watch = "none" /\ limit = "none"
    /\ stage \notin {"undo", "closing"} => closes = << >>
    /\ stage \notin {"undo", "leave"} \cup Underway => todo = << >>
    /\ todo \in Withdraws => kind = "webrtc"
    /\ stage \in Underway /\ kind = "sip" => todo = OnlyStop
    /\ stage \in Underway /\ kind = "reality" => todo = StopThenCancel
    /\ stage = "request" /\ kind = "webrtc" => todo = OnlyUnless
    /\ stage = "answer" /\ kind = "webrtc" => todo = FromIdle
    /\ stage \in {"verdict", "wait"} /\ kind = "webrtc" => todo = FromBody

(* What can be open at all, by transport, stage and deferred calls.        *)
Opened ==
    /\ kind = "sip" => held \subseteq {"conn"}
    /\ kind = "reality" => held \subseteq {"conn", "instance"}
    /\ kind = "webrtc" => held \subseteq {"conn", "response", "idle"}
    /\ stage = "start" => held = {}
    /\ stage = "second" => "conn" \notin held \/ kind = "webrtc"
    /\ "response" \in held => todo = FromBody
    /\ "idle" \in held => todo = FromIdle /\ stage = "leave"

(* After an error, and when the caller closes, everything open has a call  *)
(* to come that closes it.                                                 *)
Covered ==
    outcome = "error" \/ stage \in {"closing", "closed"} =>
        \/ todo \in Withdraws
        \/ /\ "conn" \in held => closes \in {ConnThenInstance, OnlyConn}
           /\ "instance" \in held => closes \in {ConnThenInstance, OnlyInstance}

(* A deferred call is still to come for an armed AfterFunc and a running   *)
(* limit, and stop comes before cancel.                                    *)
Defers ==
    /\ watch = "armed" => todo \in {StopThenCancel, OnlyStop}
    /\ limit = "over" => todo = << >>
    /\ limit \in {"set", "passed"} /\ outcome # "none" => kind = "reality"
    /\ limit \in {"set", "passed"} /\ kind = "reality" =>
           todo \in {StopThenCancel, OnlyCancel}

(* Without a cancellation or a late answer no AfterFunc starts before Dial *)
(* returns, and none is armed any more then: the connection stays.         *)
Kept ==
    /\ Dialing /\ ~excused => ~ctxDone /\ limit # "passed"
    /\ ~excused /\ outcome # "error" /\ stage \in Underway \cup {"leave", "returned"} =>
           "conn" \in held /\ watch # "running"

Control == DTypes /\ Course /\ Opened /\ Covered /\ Defers /\ Kept

LEMMA InitControl == DInit => Control
BY Closing, Deferring
DEF DInit, Control, DTypes, Course, Opened, Covered, Defers, Kept, Dialing, Underway,
    Withdraws

(* The calls of an error path, or of Close, one by one. *)
LEMMA UndoStep == Control /\ Undo => Control'
<1> SUFFICES ASSUME Control, Undo PROVE Control'
  OBVIOUS
<1>1. \/ closes = << >> /\ closes' = << >> /\ held' = held
         /\ stage' = IF stage = "undo" THEN "leave" ELSE "closed"
      \/ closes = ConnThenInstance /\ closes' = OnlyInstance /\ held' = held \ {"conn"}
         /\ stage' = stage
      \/ closes = OnlyInstance /\ closes' = << >> /\ held' = held \ {"instance"}
         /\ stage' = stage
      \/ closes = OnlyConn /\ closes' = << >> /\ held' = held \ {"conn"}
         /\ stage' = stage
  BY Closing DEF Undo, Control, DTypes
<1>2. /\ stage \in {"undo", "closing"}
      /\ UNCHANGED <<kind, same, outcome, todo, watch, limit, ctxDone, excused>>
  BY DEF Undo, world
<1> USE Closing, Deferring DEF Control, DTypes, Course, Opened, Covered, Defers, Kept,
        Dialing, Withdraws, Underway
<1> QED BY <1>1, <1>2

(* The deferred calls, one by one. *)
LEMMA LeaveStep == Control /\ Leave => Control'
<1> SUFFICES ASSUME Control, Leave PROVE Control'
  OBVIOUS
<1>1. \/ /\ todo = << >> /\ todo' = << >> /\ stage' = "returned"
         /\ UNCHANGED <<held, watch, limit>>
      \/ /\ stage' = "leave"
         /\ \/ /\ \/ todo = StopThenCancel /\ todo' = OnlyCancel
                  \/ todo = OnlyStop /\ todo' = << >>
               /\ watch' = IF watch = "armed" THEN "stopped" ELSE watch
               /\ UNCHANGED <<held, limit>>
            \/ /\ todo = OnlyCancel /\ todo' = << >>
               /\ limit' = "over" /\ UNCHANGED <<held, watch>>
            \/ /\ todo = FromBody /\ todo' = FromIdle
               /\ held' \in {held \ {"response"}, (held \ {"response"}) \cup {"idle"}}
               /\ UNCHANGED <<watch, limit>>
            \/ /\ todo = FromIdle /\ todo' = OnlyUnless
               /\ held' = held \ {"idle"} /\ UNCHANGED <<watch, limit>>
            \/ /\ todo = OnlyUnless /\ todo' = << >>
               /\ held' = IF outcome = "error" THEN held \ {"conn"} ELSE held
               /\ UNCHANGED <<watch, limit>>
  <2>1. CASE todo = << >>
    BY <2>1 DEF Leave
  <2>2. CASE todo # << >>
    <3>1. /\ stage' = "leave" /\ todo' = Tail(todo)
          /\ held' \in {(held \ Frees(Head(todo))) \cup more : more \in Leaves(Head(todo))}
          /\ watch' = IF Head(todo) = "stop" /\ watch = "armed" THEN "stopped" ELSE watch
          /\ limit' = IF Head(todo) = "cancel" THEN "over" ELSE limit
      BY <2>2 DEF Leave
    <3>2. CASE todo \in {StopThenCancel, OnlyStop, OnlyCancel}
      <4>1. Head(todo) \in {"stop", "cancel"}
        BY <3>2, Deferring
      <4>2. Frees(Head(todo)) = {} /\ Leaves(Head(todo)) = {{}}
        BY <4>1 DEF Frees, Leaves
      <4>3. held' = held
        BY <3>1, <4>2
      <4> QED BY <3>1, <3>2, <4>3, Deferring
    <3>3. CASE todo = FromBody
      <4>1. Frees(Head(todo)) = {"response"} /\ Leaves(Head(todo)) = {{}, {"idle"}}
        BY <3>3, Deferring DEF Frees, Leaves
      <4>2. held' \in {held \ {"response"}, (held \ {"response"}) \cup {"idle"}}
        BY <3>1, <4>1
      <4> QED BY <3>1, <3>3, <4>2, Deferring
    <3>4. CASE todo = FromIdle
      <4>1. Frees(Head(todo)) = {"idle"} /\ Leaves(Head(todo)) = {{}}
        BY <3>4, Deferring DEF Frees, Leaves
      <4>2. held' = held \ {"idle"}
        BY <3>1, <4>1
      <4> QED BY <3>1, <3>4, <4>2, Deferring
    <3>5. CASE todo = OnlyUnless
      <4>1. /\ Frees(Head(todo)) = IF outcome = "error" THEN {"conn"} ELSE {}
            /\ Leaves(Head(todo)) = {{}}
        BY <3>5, Deferring DEF Frees, Leaves
      <4>2. held' = IF outcome = "error" THEN held \ {"conn"} ELSE held
        BY <3>1, <4>1
      <4> QED BY <3>1, <3>5, <4>2, Deferring
    <3> QED BY <2>2, <3>2, <3>3, <3>4, <3>5 DEF Control, DTypes, Withdraws
  <2> QED BY <2>1, <2>2
<1>2. /\ stage = "leave"
      /\ UNCHANGED <<kind, same, outcome, closes, ctxDone, excused>>
  BY DEF Leave, world
<1> USE Closing, Deferring DEF Control, DTypes, Course, Opened, Covered, Defers, Kept,
        Dialing, Withdraws, Underway
<1> QED BY <1>1, <1>2

LEMMA StepControl == Control /\ [DNext]_dialVars => Control'
<1> SUFFICES ASSUME Control, [DNext]_dialVars PROVE Control'
  OBVIOUS
<1> USE Closing, Deferring DEF Control, DTypes, Course, Opened, Covered, Defers, Kept,
        Dialing, Withdraws, Underway
<1>1. CASE First
  BY <1>1 DEF First, world
<1>2. CASE Acquire
  <2>1. /\ stage = (IF kind = "sip" THEN "start" ELSE "second") /\ stage' = "request"
        /\ held' = held \cup {"conn"} /\ limit' = "set"
        /\ kind = "sip" => todo' = OnlyStop /\ watch' = "armed"
        /\ kind = "reality" => todo' = StopThenCancel /\ watch' = "armed"
        /\ kind = "webrtc" => todo' = OnlyUnless /\ watch' = "none"
        /\ UNCHANGED <<kind, same, outcome, closes, ctxDone, excused>>
    BY <1>2 DEF Acquire, Deferred, Watching, OnlyStop, StopThenCancel, OnlyUnless, world
  <2> QED BY <2>1
<1>3. CASE Request
  <2>1. /\ stage = "request" /\ stage' = "answer"
        /\ todo' = IF kind = "webrtc" THEN FromIdle ELSE todo
        /\ UNCHANGED <<kind, same, outcome, closes, held, watch, limit, ctxDone, excused>>
    <3>1. kind = "webrtc" => todo' = <<"idle">> \o OnlyUnless
      BY <1>3 DEF Request, Control, Course
    <3> QED BY <3>1, <1>3, Pushing DEF Request, world
  <2> QED BY <2>1
<1>4. CASE Prove
  BY <1>4 DEF Prove, world
<1>5. CASE Responded
  <2>1. /\ stage = "answer" /\ stage' = "verdict" /\ kind = "webrtc"
        /\ held' = held \cup {"response"} /\ todo' = FromBody
        /\ UNCHANGED <<kind, same, outcome, closes, watch, limit, ctxDone, excused>>
    <3>1. todo' = <<"body">> \o FromIdle
      BY <1>5 DEF Responded, Control, Course
    <3> QED BY <3>1, <1>5, Pushing DEF Responded, world
  <2> QED BY <2>1
<1>6. CASE Accepted
  <2>1. /\ stage = IF kind = "reality" THEN "answer" ELSE "verdict"
        /\ kind = "webrtc" => stage' = "wait" /\ UNCHANGED <<outcome, limit>>
        /\ kind # "webrtc" => /\ stage' = "leave" /\ outcome' = "conn" /\ "conn" \in held
                              /\ limit' = IF kind = "reality" THEN limit ELSE "none"
        /\ UNCHANGED <<kind, same, closes, todo, held, watch, ctxDone, excused>>
    BY <1>6 DEF Accepted, Broken, Succeeds, Untimed, world
  <2> QED BY <2>1
<1>7. CASE Connected
  BY <1>7 DEF Connected, Succeeds, Untimed, world
<1>8. CASE Fails
  <2>1. /\ stage \in {"start", "second"} \cup Underway
        /\ stage' = "undo" /\ outcome' = "error" /\ closes' = Closes
        /\ limit' = IF kind = "reality" THEN limit ELSE "none"
        /\ UNCHANGED <<kind, same, todo, held, watch, ctxDone, excused>>
    BY <1>8 DEF Fails, Bad, Underway, Untimed, world
  <2>2. /\ kind = "sip" => closes' = IF stage = "start" THEN << >> ELSE OnlyConn
        /\ kind = "reality" => closes' = IF stage = "start" THEN << >>
                                         ELSE IF stage = "second" THEN OnlyInstance
                                         ELSE ConnThenInstance
        /\ kind = "webrtc" => closes' = IF stage = "second" THEN OnlyConn ELSE << >>
    BY <2>1 DEF Closes, SipCloses, RealityCloses, PeerCloses, OnlyConn, OnlyInstance,
                ConnThenInstance
  <2> QED BY <2>1, <2>2
<1>9. CASE Undo
  BY <1>9, UndoStep
<1>10. CASE Leave
  BY <1>10, LeaveStep
<1>11. CASE Close
  <2>1. /\ stage = "returned" /\ stage' = "closing" /\ outcome = "conn"
        /\ closes' = IF kind = "reality" THEN ConnThenInstance ELSE OnlyConn
        /\ UNCHANGED <<kind, same, outcome, todo, held, watch, limit, ctxDone, excused>>
    BY <1>11 DEF Close, ConnThenInstance, OnlyConn, world
  <2> QED BY <2>1
<1>12. CASE WatchStarts
  BY <1>12 DEF WatchStarts, world
<1>13. CASE WatchCloses
  BY <1>13 DEF WatchCloses, world
<1>14. CASE Expire
  <2>1. /\ limit = "set" /\ limit' = "passed" /\ (excused' <=> excused \/ Dialing)
        /\ UNCHANGED <<kind, same, stage, outcome, closes, todo, held, watch, ctxDone>>
    BY <1>14 DEF Expire, world
  <2> QED BY <2>1
<1>15. CASE CancelDial
  <2>1. /\ ctxDone' = TRUE /\ (excused' <=> excused \/ Dialing)
        /\ UNCHANGED <<kind, same, stage, outcome, closes, todo, held, watch, limit>>
    BY <1>15 DEF CancelDial, client, world
  <2> QED BY <2>1
<1>16. CASE LinkFails \/ ServerAnswers \/ ServerKeyed \/ ServerStarts \/ UNCHANGED dialVars
  <2>1. UNCHANGED <<client, world, ctxDone, excused>>
    BY <1>16 DEF LinkFails, ServerAnswers, ServerKeyed, ServerStarts, dialVars
  <2> QED BY <2>1 DEF client, world
<1> QED
  BY <1>1, <1>2, <1>3, <1>4, <1>5, <1>6, <1>7, <1>8, <1>9, <1>10, <1>11, <1>12, <1>13,
     <1>14, <1>15, <1>16 DEF DNext, Step

(* The second half: the messages and what they prove.  A message is one of *)
(* this handshake's, an acceptance was given with "ok", and nothing is     *)
(* under way once the client has its result.                               *)
Letter ==
    /\ wire \in {Nothing, <<"ok">>, <<"refused">>, Hello}
       \/ (kind = "sip" /\ wire \in {<<"challenge", Proof("server", "server:")>>,
                                     <<"proof", Proof("client", "client:")>>})
    /\ stage \in {"start", "second", "request"} => ~accepted /\ wire = Nothing
    /\ wire = <<"ok">> => accepted
    /\ accepted => wire \in {Nothing, <<"ok">>}
    /\ stage = "wait" \/ outcome = "conn" => wire = Nothing

(* Accepted is who has shown the server's token; who reads has set keys    *)
(* before, as setKey does it, and no end has set any without acceptance.   *)
Agreed ==
    /\ accepted => same
    /\ \A e \in {"client", "server"} :
           /\ keys[e] \in {Unset, Keys(e)}
           /\ keys[e] # Unset => accepted
    /\ DOMAIN keys = {"client", "server"}
    /\ reading \subseteq {"client", "server"}
    /\ \A e \in reading : keys[e] = Keys(e)
    /\ outcome = "conn" => accepted /\ (kind = "sip" => "client" \in reading)

Mail == Letter /\ Agreed

LEMMA InitMail == DInit => Mail
BY DEF DInit, Mail, Letter, Agreed, Nothing

LEMMA StepMail == Control /\ Mail /\ [DNext]_dialVars => Mail'
<1> SUFFICES ASSUME Control, Mail, [DNext]_dialVars PROVE Mail'
  OBVIOUS
<1> USE DEF Control, DTypes, Course, Underway, Mail, Letter, Agreed, world, secrets, Hello,
            Proof, Token, Keys, Nothing, Unset
<1>1. CASE First
  BY <1>1 DEF First
<1>2. CASE Acquire
  BY <1>2 DEF Acquire
<1>3. CASE Request
  BY <1>3 DEF Request
<1>4. CASE Prove
  BY <1>4 DEF Prove
<1>5. CASE Responded
  BY <1>5 DEF Responded
<1>6. CASE Accepted
  <2>1. accepted /\ same /\ wire' = Nothing /\ UNCHANGED <<kind, same, accepted>>
    BY <1>6 DEF Accepted
  <2>2. Letter'
    BY <2>1, <1>6 DEF Accepted, Succeeds
  <2>3. CASE kind = "sip"
    <3>1. /\ keys' = [keys EXCEPT !.client = Keys("client")]
          /\ reading' = reading \cup {"client"}
      BY <2>3, <1>6 DEF Accepted
    <3> HIDE DEF Keys, Letter
    <3>2. Keys("client")' = Keys("client") /\ Keys("server")' = Keys("server")
      BY <2>1 DEF Keys
    <3>3. keys'.client = Keys("client") /\ keys'.server = keys.server
      BY <3>1
    <3>4. DOMAIN keys' = {"client", "server"}
      BY <3>1
    <3>5. Agreed'
      BY <2>1, <3>1, <3>2, <3>3, <3>4
    <3> QED BY <2>2, <3>5
  <2>4. CASE kind # "sip"
    BY <2>1, <2>2, <2>4, <1>6 DEF Accepted
  <2> QED BY <2>3, <2>4
<1>7. CASE Connected
  BY <1>7 DEF Connected, Succeeds
<1>8. CASE Fails
  BY <1>8 DEF Fails, Bad
<1>9. CASE Leave
  BY <1>9 DEF Leave
<1>10. CASE Close
  BY <1>10 DEF Close
<1>11. CASE WatchStarts
  BY <1>11 DEF WatchStarts
<1>12. CASE WatchCloses
  BY <1>12 DEF WatchCloses
<1>13. CASE Expire
  BY <1>13 DEF Expire
<1>14. CASE CancelDial
  BY <1>14 DEF CancelDial, client
<1>15. CASE LinkFails
  BY <1>15 DEF LinkFails, client
<1>16. CASE ServerAnswers
  <2>1. stage \notin {"start", "second", "request", "wait"} /\ outcome # "conn" /\ ~accepted
    BY <1>16 DEF ServerAnswers
  <2>2. UNCHANGED <<kind, same, stage, outcome, keys, reading>>
    BY <1>16 DEF ServerAnswers, client
  <2>3. wire' \in {<<"ok">>, <<"refused">>, <<"challenge", Proof("server", "server:")>>}
    BY <1>16 DEF ServerAnswers, Answers, Verdict
  <2>4. wire' = <<"challenge", Proof("server", "server:")>> => kind = "sip"
    BY <1>16 DEF ServerAnswers, Answers, Verdict
  <2>5. CASE wire' = <<"ok">>
    <3>1. accepted'
      BY <2>5, <1>16 DEF ServerAnswers
    <3>2. same
      BY <2>5, <1>16 DEF ServerAnswers, Answers, Verdict
    <3> QED BY <2>1, <2>2, <2>5, <3>1, <3>2
  <2>6. CASE wire' # <<"ok">>
    <3>1. ~accepted'
      BY <2>6, <1>16 DEF ServerAnswers
    <3> QED BY <2>1, <2>2, <2>3, <2>4, <2>6, <3>1
  <2> QED BY <2>5, <2>6
<1>17. CASE ServerKeyed
  <2>1. /\ keys' = [keys EXCEPT !.server = Keys("server")] /\ keys.server = Unset
        /\ accepted
        /\ UNCHANGED <<kind, same, stage, outcome, wire, accepted, reading>>
    BY <1>17 DEF ServerKeyed, client
  <2> HIDE DEF Keys, Unset
  <2>2. Keys("client")' = Keys("client") /\ Keys("server")' = Keys("server")
    BY <2>1 DEF Keys
  <2>3. keys'.server = Keys("server") /\ keys'.client = keys.client
    BY <2>1
  <2>4. DOMAIN keys' = {"client", "server"}
    BY <2>1
  <2>5. Agreed'
    BY <2>1, <2>2, <2>3, <2>4
  <2>6. Letter'
    BY <2>1
  <2> QED BY <2>5, <2>6
<1>18. CASE ServerStarts
  BY <1>18 DEF ServerStarts, client, Authenticated
<1>19. CASE Undo
  BY <1>19 DEF Undo
<1>20. CASE UNCHANGED dialVars
  BY <1>20 DEF dialVars, client
<1> QED
  BY <1>1, <1>2, <1>3, <1>4, <1>5, <1>6, <1>7, <1>8, <1>9, <1>10, <1>11, <1>12, <1>13,
     <1>14, <1>15, <1>16, <1>17, <1>18, <1>19, <1>20 DEF DNext, Step

(* Whichever step of a dial over whichever transport fails, and whenever   *)
(* the AfterFunc runs: the calls of that error path with the deferred ones *)
(* close everything open then, and so do those of the caller's Close.      *)
THEOREM DialLeavesNothing == DSpec => []NothingLeft
<1>1. Control => NothingLeft
  BY Closing, Deferring DEF Control, DTypes, Course, Opened, Covered, NothingLeft, Withdraws
<1> QED BY InitControl, StepControl, <1>1, PTL DEF DSpec

(* A connection that Dial returned is not closed by what Dial deferred or  *)
(* armed, nor does a time limit of the handshake hang over it.             *)
THEOREM DialKeeps == DSpec => []KeptOnReturn
<1>1. Control => KeptOnReturn
  BY Deferring DEF Control, DTypes, Course, Defers, Kept, Dialing, KeptOnReturn
<1> QED BY InitControl, StepControl, <1>1, PTL DEF DSpec

(* Whoever gets a connection was accepted under the server's token; an end *)
(* of a SIP session that reads has the key of whatever the other can have  *)
(* sent, and one key per direction.                                        *)
THEOREM DialEndsAgree == DSpec => []EndsAgree
<1>1. Mail => EndsAgree
  <2> SUFFICES ASSUME Mail PROVE EndsAgree
    OBVIOUS
  <2>1. outcome = "conn" => same /\ accepted /\ (kind = "sip" => "client" \in reading)
    BY DEF Mail, Agreed
  <2>2. ASSUME NEW e \in reading, NEW other \in {"client", "server"}, other # e
        PROVE  /\ keys[other] # Unset => keys[e].rx = keys[other].tx
               /\ keys[e].tx # keys[e].rx
    <3>1. e \in {"client", "server"} /\ keys[e] = Keys(e)
      BY <2>2 DEF Mail, Agreed
    <3>2. keys[other] # Unset => keys[other] = Keys(other) /\ accepted /\ same
      BY <2>2 DEF Mail, Agreed
    <3> QED BY <2>2, <3>1, <3>2 DEF Keys, Proof, Token
  <2>3. reading \subseteq {"client", "server"}
    BY DEF Mail, Agreed
  <2> QED BY <2>1, <2>2, <2>3 DEF EndsAgree
<1> QED BY InitControl, StepControl, InitMail, StepMail, <1>1, PTL DEF DSpec
=============================================================================
