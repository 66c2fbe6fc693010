-------------------------- MODULE OfferServerProofs --------------------------
(***************************************************************************)
(* For any number of offers: busy has exactly one owner, serveWebRTC       *)
(* implements OneSession, and it returns with everything joined unless     *)
(* Shutdown had to give up on a handler.                                   *)
(***************************************************************************)
EXTENDS OfferServer, FiniteSetTheorems, TLAPS

Types ==
    /\ main \in {"serve", "stopped", "join", "returned"}
    /\ stopper \in {"armed", "shutdown", "done"}
    /\ conn \in [Client -> {"none", "open", "closed"}]
    /\ handler \in [Client -> {"none", "claimed", "gather", "handing", "answered", "gone"}]
    /\ task \in [Client -> {"none", "wait", "handle", "close", "release", "leave", "done"}]
    /\ ready \in [Client -> BOOLEAN]
    /\ peer \in [Client -> {"none", "open", "closed"}]
    /\ busy \in BOOLEAN

(* An offer's handler comes before its session goroutine, and the peer is  *)
(* in the hands of one of them.                                            *)
HandedOver ==
    \A c \in Client :
        /\ task[c] # "none" => handler[c] \in {"answered", "gone"}
        /\ handler[c] = "answered" => task[c] # "none"
        /\ ready[c] => handler[c] = "answered"
        /\ peer[c] = "open" => \/ handler[c] \in {"gather", "handing"}
                               \/ task[c] \in {"wait", "handle", "close"}

OwnerHolds == \/ ~busy /\ Owners = {}
              \/ busy /\ \E c \in Client : Owners = {c}

(* The WaitGroup counts the session goroutines that have started.          *)
Active == {c \in Client : task[c] \in {"wait", "handle", "close", "release", "leave"}}
Counted == IsFiniteSet(Active) /\ wg = Cardinality(Active)

(* Once Shutdown or Close is through no offer can come, and a session      *)
(* goroutine that still starts has a client that never got its answer.     *)
Stopping ==
    /\ main \in {"join", "returned"} => stopper = "done"
    /\ stopper = "done" => /\ \A c \in Client : conn[c] = "closed"
                           /\ forced \/ \A c \in Client : Idle(c)
    /\ main = "returned" =>
         \A c \in Client : /\ task[c] # "handle"
                           /\ task[c] = "wait" => ~ready[c] /\ handler[c] = "gone"
                           /\ ~forced => task[c] \in {"none", "done"}

IInv == Types /\ HandedOver /\ OwnerHolds /\ Counted /\ Stopping

LEMMA InitIInv == Init => IInv
<1> SUFFICES ASSUME Init PROVE IInv
  OBVIOUS
<1>1. Active = {} /\ Owners = {}
  BY DEF Init, Active, Owners
<1>2. Counted
  BY <1>1, FS_EmptySet DEF Counted, Init
<1> QED BY <1>1, <1>2 DEF Init, IInv, Types, HandedOver, OwnerHolds, Stopping

(* What a step that leaves wg alone owes to Counted and OwnerHolds.        *)
LEMMA Uncounted ==
    ASSUME Counted, UNCHANGED wg, Active' = Active PROVE Counted'
BY DEF Counted

LEMMA StillOwned ==
    ASSUME OwnerHolds, UNCHANGED busy, Owners' = Owners PROVE OwnerHolds'
BY DEF OwnerHolds

LEMMA StepIInv == IInv /\ [Next]_vars => IInv'
<1> SUFFICES ASSUME IInv, [Next]_vars PROVE IInv'
  OBVIOUS
<1> USE DEF IInv, Types, HandedOver, Stopping, HandlerAt, TaskAt, ClosePeer, Idle, serverVars
<1>1. CASE Cancel \/ ServeEnds \/ Return \/ Stop
  <2>1. Active' = Active /\ Owners' = Owners /\ UNCHANGED <<busy, wg>>
    BY <1>1 DEF Cancel, ServeEnds, Return, Stop, Active, Owners
  <2>2. Counted' /\ OwnerHolds'
    BY <2>1, Uncounted, StillOwned
  <2>3. CASE Cancel \/ ServeEnds
    BY <2>2, <2>3 DEF Cancel, ServeEnds
  <2>4. CASE Stop
    BY <2>2, <2>4 DEF Stop
  <2>5. CASE Return
    <3>1. main = "join" => Active = {}
      BY <2>5, FS_EmptySet DEF Return, Counted
    <3>2. main = "join" => \A c \in Client : task[c] \in {"none", "done"}
      BY <3>1 DEF Active
    <3> QED BY <2>2, <2>5, <3>2 DEF Return, Stopped
  <2> QED BY <2>3, <2>4, <2>5, <1>1
<1>2. ASSUME NEW c \in Client, Connect(c) \/ ConnEnds(c) \/ Connected(c) \/ PeerEnds(c)
      PROVE  IInv'
  <2>1. Active' = Active /\ Owners' = Owners /\ UNCHANGED <<busy, wg>>
    BY <1>2 DEF Connect, ConnEnds, Connected, PeerEnds, Active, Owners
  <2>2. Counted' /\ OwnerHolds'
    BY <2>1, Uncounted, StillOwned
  <2>3. CASE Connect(c) \/ ConnEnds(c)
    BY <2>2, <2>3 DEF Connect, ConnEnds
  <2>4. CASE Connected(c)
    BY <2>2, <2>4 DEF Connected
  <2>5. CASE PeerEnds(c)
    BY <2>2, <2>5 DEF PeerEnds
  <2> QED BY <2>3, <2>4, <2>5, <1>2
<1>3. ASSUME NEW c \in Client, Offer(c) PROVE IInv'
  <2>1. Counted'
    BY <1>3, Uncounted DEF Offer, Active
  <2>2. CASE Claim(c)
    <3>1. Owners = {} /\ Owners' = {c}
      BY <1>3, <2>2 DEF Offer, Claim, OwnerHolds, Owners
    <3> QED BY <2>1, <2>2, <3>1, <1>3 DEF Offer, Claim, OwnerHolds
  <2>3. CASE busy /\ HandlerAt(c, "gone") /\ UNCHANGED busy
    <3>1. Owners' = Owners
      BY <1>3, <2>3 DEF Offer, Owners
    <3> QED BY <2>1, <2>3, <3>1, <1>3, StillOwned DEF Offer
  <2> QED BY <2>2, <2>3, <1>3 DEF Offer
<1>4. ASSUME NEW c \in Client, MakePeer(c) \/ Answer(c) PROVE IInv'
  <2>1. Active' = Active /\ Owners' = Owners /\ UNCHANGED <<busy, wg>>
    BY <1>4 DEF MakePeer, Answer, Active, Owners
  <2>2. Counted' /\ OwnerHolds'
    BY <2>1, Uncounted, StillOwned
  <2> QED BY <2>2, <1>4 DEF MakePeer, Answer
<1>5. ASSUME NEW c \in Client, HandlerFails(c) PROVE IInv'
  <2>1. Counted'
    BY <1>5, Uncounted DEF HandlerFails, Active
  <2>2. Owners = {c}
    BY <1>5 DEF HandlerFails, OwnerHolds, Owners
  <2>3. Owners' = {}
    BY <2>2, <1>5 DEF HandlerFails, Owners
  <2> QED BY <2>1, <2>3, <1>5 DEF HandlerFails, GiveBack, OwnerHolds
<1>6. ASSUME NEW c \in Client, HandOver(c) PROVE IInv'
  <2>1. c \notin Active /\ Active' = Active \cup {c}
    BY <1>6 DEF HandOver, Active
  <2>2. Counted'
    BY <2>1, <1>6, FS_AddElement, FS_CardinalityType DEF HandOver, Counted
  <2>3. OwnerHolds'
    <3>1. Owners' = Owners
      BY <1>6 DEF HandOver, Owners
    <3> QED BY <3>1, <1>6, StillOwned DEF HandOver
  <2> QED BY <2>2, <2>3, <1>6 DEF HandOver
<1>7. ASSUME NEW c \in Client, Wait(c) \/ SessionReturns(c) PROVE IInv'
  <2>1. Active' = Active /\ Owners' = Owners /\ UNCHANGED <<busy, wg>>
    BY <1>7 DEF Wait, SessionReturns, Active, Owners
  <2>2. Counted' /\ OwnerHolds'
    BY <2>1, Uncounted, StillOwned
  <2>3. CASE Wait(c)
    BY <2>2, <2>3 DEF Wait
  <2>4. CASE SessionReturns(c)
    BY <2>2, <2>4 DEF SessionReturns
  <2> QED BY <2>3, <2>4, <1>7
<1>8. ASSUME NEW c \in Client, Unwind(c) PROVE IInv'
  <2>1. CASE task[c] = "close"
    <3>1. Active' = Active /\ Owners' = Owners /\ UNCHANGED <<busy, wg>>
      BY <2>1, <1>8 DEF Unwind, Active, Owners
    <3>2. Counted' /\ OwnerHolds'
      BY <3>1, Uncounted, StillOwned
    <3> QED BY <3>2, <2>1, <1>8 DEF Unwind
  <2>2. CASE task[c] = "release"
    <3>1. Counted'
      BY <2>2, <1>8, Uncounted DEF Unwind, Active
    <3>2. Owners = {c}
      BY <2>2 DEF OwnerHolds, Owners
    <3>3. task' = [task EXCEPT ![c] = "leave"] /\ UNCHANGED handler
      BY <2>2, <1>8 DEF Unwind
    <3>4. Owners' = {}
      BY <3>2, <3>3, <2>2 DEF Owners
    <3>5. OwnerHolds'
      BY <3>4, <2>2, <1>8 DEF Unwind, OwnerHolds
    <3>6. Types' /\ HandedOver'
      BY <2>2, <1>8 DEF Unwind
    <3>7. Stopping'
      BY <2>2, <1>8 DEF Unwind
    <3> QED BY <3>1, <3>5, <3>6, <3>7
  <2>3. CASE task[c] = "leave"
    <3>1. c \in Active /\ Active' = Active \ {c}
      BY <2>3, <1>8 DEF Unwind, Active
    <3>2. Counted'
      BY <3>1, <2>3, <1>8, FS_RemoveElement, FS_CardinalityType DEF Unwind, Counted
    <3>3. OwnerHolds'
      <4>1. Owners' = Owners
        BY <2>3, <1>8 DEF Unwind, Owners
      <4> QED BY <4>1, <2>3, <1>8, StillOwned DEF Unwind
    <3> QED BY <3>2, <3>3, <2>3, <1>8 DEF Unwind
  <2> QED BY <2>1, <2>2, <2>3, <1>8 DEF Unwind
<1>9. CASE UNCHANGED vars
  <2>1. Active' = Active /\ Owners' = Owners
    BY <1>9 DEF vars, serverVars, Active, Owners
  <2>2. Counted' /\ OwnerHolds'
    BY <1>9, <2>1, Uncounted, StillOwned DEF vars
  <2> QED BY <2>2, <1>9 DEF vars, serverVars
<1> QED
  BY <1>1, <1>2, <1>3, <1>4, <1>5, <1>6, <1>7, <1>8, <1>9 DEF Next, HandlerStep, TaskStep

-----------------------------------------------------------------------------
(* The claim of the one place never leaks and never has two owners.        *)
THEOREM OfferOneOwner == Spec => []BusyHasOneOwner
<1>1. IInv => BusyHasOneOwner
  <2> SUFFICES ASSUME IInv PROVE BusyHasOneOwner
    OBVIOUS
  <2>1. Cardinality(Owners) = IF busy THEN 1 ELSE 0
    BY FS_EmptySet, FS_Singleton DEF IInv, OwnerHolds
  <2>2. \A c \in Client : peer[c] = "open" => c \in Owners
    BY DEF IInv, HandedOver, Owners
  <2> QED BY <2>1, <2>2 DEF BusyHasOneOwner
<1> QED BY InitIInv, StepIInv, <1>1, PTL DEF Spec

(* Everything is joined, unless Shutdown gave up on a handler.             *)
THEOREM OfferJoins == Spec => []JoinedUnlessForced
<1>1. IInv => JoinedUnlessForced
  BY DEF IInv, Types, HandedOver, Stopping, Idle, JoinedUnlessForced, JoinedOnReturn
<1> QED BY InitIInv, StepIInv, <1>1, PTL DEF Spec

(* One handler at a time, and none once serveWebRTC has returned, even if  *)
(* Shutdown gave up.                                                       *)
THEOREM OfferOneSession == Spec => ImplementsOneSession
<1> DEFINE session == {c \in Client : task[c] = "handle"}
<1>1. Init => Abstract!Init
  BY DEF Init, Abstract!Init
<1>2. IInv /\ [Next]_vars => [Abstract!Next]_(Abstract!vars)
  <2> SUFFICES ASSUME IInv, [Next]_vars PROVE [Abstract!Next]_(Abstract!vars)
    OBVIOUS
  <2> USE DEF IInv, Types, TaskAt, Abstract!vars, Abstract!Next
  <2>1. CASE Return
    <3>1. main = "join" => Active = {}
      BY <2>1, FS_EmptySet DEF Return, Counted
    <3>2. main = "join" => session = {}
      BY <3>1 DEF Active
    <3>3. UNCHANGED session
      BY <2>1 DEF Return
    <3> QED BY <2>1, <3>2, <3>3 DEF Return, Abstract!Return
  <2>2. ASSUME NEW c \in Client, Wait(c) PROVE [Abstract!Next]_(Abstract!vars)
    <3>1. session = {}
      BY <2>2 DEF Wait, OwnerHolds, Owners
    <3>2. CASE task'[c] = "handle"
      <4>1. session' = {c}
        BY <3>1, <3>2, <2>2 DEF Wait
      <4>2. main # "returned" /\ UNCHANGED main
        BY <3>2, <2>2 DEF Wait, serverVars, Stopping
      <4> QED BY <3>1, <4>1, <4>2 DEF Abstract!Begin
    <3>3. CASE task'[c] # "handle"
      <4>1. UNCHANGED <<session, main>>
        BY <3>3, <2>2 DEF Wait, serverVars
      <4> QED BY <4>1
    <3> QED BY <3>2, <3>3
  <2>3. ASSUME NEW c \in Client, SessionReturns(c) PROVE Abstract!End
    <3>1. Owners = {c}
      BY <2>3 DEF SessionReturns, OwnerHolds, Owners
    <3>2. session' = {} /\ UNCHANGED main
      BY <3>1, <2>3 DEF SessionReturns, serverVars, Owners
    <3> QED BY <3>2 DEF Abstract!End
  <2>4. CASE Cancel \/ Stop \/ ServeEnds
    <3>1. UNCHANGED session /\ (main' = "returned") = (main = "returned")
      BY <2>4 DEF Cancel, Stop, ServeEnds
    <3> QED BY <3>1
  <2>5. ASSUME NEW c \in Client,
               \/ Connect(c) \/ Offer(c) \/ MakePeer(c) \/ Answer(c) \/ HandlerFails(c)
               \/ Connected(c) \/ PeerEnds(c) \/ ConnEnds(c)
        PROVE  UNCHANGED Abstract!vars
    BY <2>5 DEF Connect, Offer, MakePeer, Answer, HandlerFails, Connected, PeerEnds,
                ConnEnds, serverVars
  <2>6. ASSUME NEW c \in Client, HandOver(c) \/ Unwind(c) PROVE UNCHANGED Abstract!vars
    <3>1. task[c] # "handle"
      BY <2>6 DEF HandOver, Unwind, HandedOver
    <3>2. UNCHANGED <<session, main>>
      BY <3>1, <2>6 DEF HandOver, Unwind, serverVars
    <3> QED BY <3>2
  <2>7. CASE UNCHANGED vars
    BY <2>7 DEF vars, serverVars
  <2> QED
    BY <2>1, <2>2, <2>3, <2>4, <2>5, <2>6, <2>7 DEF Next, HandlerStep, TaskStep
<1> QED
  BY InitIInv, StepIInv, <1>1, <1>2, PTL DEF Spec, ImplementsOneSession, Abstract!Spec
=============================================================================
