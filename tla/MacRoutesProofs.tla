--------------------------- MODULE MacRoutesProofs ---------------------------
(***************************************************************************)
(* The tunnel's own packets stay outside the tunnel, and other people's    *)
(* host routes stay in the table, for every plan of the shape that mac()   *)
(* makes, any number of uplinks and any number of changes by others, as    *)
(* long as no do command is killed after it took effect.                   *)
(*                                                                         *)
(* The argument rests on the Manager's invariant (NetworkManagerProofs):   *)
(* effects are owed, and the log is in plan order, so before its pin an    *)
(* address is covered by no split route.  From its lookup on, while nobody *)
(* else has changed its route, the entry is still what the lookup found,   *)
(* up to expiry; after its pin it is pinned or was found to need no pin;   *)
(* and what verifyMacRoutes has seen is held by a pin or a static route    *)
(* (Covered).  A static route of others and a pin exclude each other, and  *)
(* a pin the Manager still owes an undo for gives way to one only if       *)
(* somebody meddled (Foreign).                                             *)
(***************************************************************************)
EXTENDS MacRoutes, NetworkManagerProofs

Live == {"setup", "command", "up"}

Via == Uplink \cup {"default"}
RTypeOK ==
    /\ uplink \in Uplink
    /\ entry \in [Addr -> Route \cup {Nothing}]
    /\ want \in [Addr -> [kind : {"static", "clone", "neighbor", "subnet", "none"}, via : Via]]
    /\ news \in [Addr -> {"none", "unseen", "seen"}]
    /\ changes \in Nat

(* Setup returns a Manager only at the end of its plan. *)
UpAtEnd == phase = "up" => step = Len(Plan) + 1

(* The entry the lookup found is still there, or has expired into the      *)
(* subnet's.                                                               *)
AsLookedUp(a) ==
    /\ PersistentHost(want[a]) => entry[a].kind = "static"
    /\ DirectlyConnected(want[a]) => entry[a].kind \in {"neighbor", "subnet"}

Held(a) == a \in kernel \/ entry[a].kind = "static"

CoveredAt(a) ==
    /\ news[a] = "none" /\ step >= a => AsLookedUp(a)
    /\ news[a] = "none" /\ step > a => a \in kernel \/ Kept(want[a])
    /\ news[a] = "seen" => step > a /\ (Held(a) \/ DirectlyConnected(want[a]))
Covered == phase \in Live => \A a \in Addr : CoveredAt(a)

ForeignAt(a) == entry[a].kind = "static" => a \notin kernel /\ (a \in Owed => a \in meddled)
Foreign == \A a \in Addr : ForeignAt(a)

RInv == IInv /\ RTypeOK /\ UpAtEnd /\ Covered /\ Foreign

-----------------------------------------------------------------------------
(* What the shape of the plan says about the number of a pin's step.       *)
LEMMA Shape ==
  ASSUME NEW a \in Addr
  PROVE  /\ a \in Step /\ a \in Nat /\ a > 1 /\ a \in Undoable
         /\ a \notin OfKind(Reads) /\ a \notin OfKind({"config", "split"})
         /\ a - 1 \in OfKind(Reads) /\ a - 1 \notin Addr
         /\ a - 1 \notin OfKind(Adds) /\ a - 1 \notin OfKind({"verify"})
<1>1. a \in Step /\ Plan[a] = "pin" /\ a - 1 \in Step /\ Plan[a - 1] = "query"
  BY RoutesAssumption DEF Addr, OfKind
<1>2. a \in Nat /\ a > 1
  BY <1>1, Sets
<1> QED
  BY <1>1, <1>2 DEF Addr, OfKind, Undoable, Reads, Adds

(* Each address has its split route, later in the plan. *)
LEMMA Half ==
  ASSUME NEW a \in Addr
  PROVE  HalfOf(a) \in Undoable /\ HalfOf(a) \in Nat /\ a < HalfOf(a)
<1>1. HalfOf(a) \in OfKind({"split"})
  BY RoutesAssumption
<1>2. HalfOf(a) \in Undoable /\ HalfOf(a) \in OfKind({"split", "verify"})
  BY <1>1 DEF OfKind, Undoable, Adds
<1> QED
  BY <1>2, RoutesAssumption, Sets

(* While Setup runs, nothing of the steps ahead of it is in place. *)
LEMMA Ahead ==
  ASSUME IInv, phase \in {"setup", "command"}, NEW i \in Undoable, i >= step
  PROVE  i \notin kernel
<1>1. /\ undo \in Seq(Undoable) /\ kernel \cap Undoable \subseteq Range(undo)
      /\ \A k \in 1 .. Len(undo) : undo[k] < step
  BY SetupLog DEF GoodLog
<1>2. i \notin Range(undo)
  <2> SUFFICES ASSUME NEW k \in 1 .. Len(undo), undo[k] = i PROVE FALSE
    BY <1>1 DEF Range
  <2>1. i \in Nat /\ step \in Nat /\ i < step
    BY <1>1, Sets DEF IInv, TypeOK
  <2> QED
    BY <2>1
<1> QED
  BY <1>1, <1>2

-----------------------------------------------------------------------------
(* The steps of others leave the Manager's invariant alone, and all the    *)
(* rest are steps of the Manager.                                          *)
LEMMA RNextIInv ==
  ASSUME IInv, [RNext]_allVars, "killedDo" \notin Faults PROVE IInv'
<1>1. CASE Expire \/ Disturb \/ Roam \/ UNCHANGED allVars
  <2>1. UNCHANGED managerVars /\ kernel' \subseteq kernel
        /\ device' \in BOOLEAN /\ cancelled' \in BOOLEAN
    BY <1>1 DEF Expire, Disturb, Roam, allVars, vars, managerVars, IInv, TypeOK
  <2> QED
    BY <2>1, WorldIInv
<1>2. CASE BeginSetup \/ Lookup \/ Pin \/ Verify \/ Unpin \/ Elsewhere
  <2>1. Next
    BY <1>2 DEF BeginSetup, Lookup, Pin, Verify, Unpin, Elsewhere, Next, ManagerStep
  <2> QED
    BY <2>1, NextIInv
<1> QED
  BY <1>1, <1>2 DEF RNext

LEMMA RangeAppend ==
  ASSUME NEW S, NEW s \in Seq(S), NEW x \in S
  PROVE  Append(s, x) \in Seq(S) /\ Range(Append(s, x)) \subseteq Range(s) \cup {x}
<1>1. /\ Append(s, x) \in Seq(S) /\ Len(Append(s, x)) = Len(s) + 1
      /\ Len(s) \in Nat /\ Append(s, x)[Len(s) + 1] = x
      /\ \A k \in 1 .. Len(s) : Append(s, x)[k] = s[k]
  OBVIOUS
<1>2. DOMAIN s = 1 .. Len(s) /\ DOMAIN Append(s, x) = 1 .. Len(s) + 1
  BY <1>1
<1>3. 1 .. Len(s) + 1 = (1 .. Len(s)) \cup {Len(s) + 1}
  BY <1>1
<1> QED
  BY <1>1, <1>2, <1>3 DEF Range

(* Giving up and going on owe what the log holds. *)
LEMMA OwedOf ==
  ASSUME NEW log, log \in Seq(Undoable), Rollback(log) \/ Continue(log)
  PROVE  Owed' = Range(log)
<1>1. CASE Rollback(log)
  <2>1. Range(log) = {undo'[k] : k \in 1 .. at'} /\ Range(failed') = {}
    BY <1>1 DEF Rollback, Range
  <2> QED
    BY <1>1, <2>1 DEF Rollback, Owed
<1>2. CASE Continue(log)
  BY <1>2 DEF Continue, Owed
<1> QED
  BY <1>1, <1>2

(* Only a command that succeeds adds to what is in place and owed, and it  *)
(* adds its own step.                                                      *)
LEMMA OwedMoves ==
  ASSUME IInv, Next, "killedDo" \notin Faults
  PROVE  \/ Owed' \subseteq Owed /\ kernel' \subseteq kernel
         \/ AddSucceeds /\ Owed' \subseteq Owed \cup {step} /\ kernel' = kernel \cup {step}
<1> USE DEF IInv
<1>1. CASE Restored /\ Setup
  BY <1>1 DEF Setup, Owed, Range
<1>2. CASE Read \/ Skip \/ AddStart \/ AddFails
  <2>1. phase \in {"setup", "command"} /\ kernel' = kernel
    BY <1>2 DEF Read, Skip, AddStart, AddFails
  <2>2. Rollback(undo) \/ Continue(undo) \/ (phase' = "command" /\ undo' = undo)
    BY <1>2 DEF Read, Skip, AddStart, AddFails, Unrecorded
  <2>3. undo \in Seq(Undoable) /\ Owed = Range(undo)
    BY <2>1 DEF TypeOK, Owed
  <2>4. Owed' = Owed
    BY <2>1, <2>2, <2>3, OwedOf DEF Owed
  <2> QED
    BY <2>1, <2>4
<1>3. CASE AddSucceeds
  <2>1. step \in Step /\ kernel' = kernel \cup {step} /\ phase = "command"
    BY <1>3, Sets DEF AddSucceeds, CommandRuns
  <2>2. undo \in Seq(Undoable) /\ Owed = Range(undo)
    BY <2>1 DEF TypeOK, Owed
  <2>3. Rollback(Recorded) \/ Continue(Recorded)
    BY <1>3 DEF AddSucceeds
  <2>4. Recorded \in Seq(Undoable) /\ Range(Recorded) \subseteq Range(undo) \cup {step}
    BY <2>2, RangeAppend DEF Recorded, Record
  <2>5. Owed' = Range(Recorded)
    BY <2>3, <2>4, OwedOf
  <2> QED
    BY <1>3, <2>1, <2>2, <2>4, <2>5
<1>4. CASE SetupReturns \/ DeviceOpen \/ DeviceClose \/ Cancel
  <2>1. kernel' \subseteq kernel /\ undo' = undo /\ at' = at /\ failed' = failed
        /\ (phase' = "closing" <=> phase = "closing")
    BY <1>4 DEF SetupReturns, DeviceOpen, DeviceClose, Cancel, managerVars
  <2> QED
    BY <2>1 DEF Owed
<1>5. CASE Close
  <2>1. kernel' = kernel /\ Owed = Range(undo)
    BY <1>5 DEF Close, Owed
  <2>2. Range(undo) = {undo'[k] : k \in 1 .. at'} /\ Range(failed') = {} /\ phase' = "closing"
    BY <1>5 DEF Close, LastUndo, Range, TypeOK
  <2> QED
    BY <2>1, <2>2 DEF Owed
<1>6. CASE UndoSucceeds \/ NotInTable \/ UndoFails
  <2>1. /\ phase = "closing" /\ phase' = "closing" /\ at > 0 /\ at' = at - 1
        /\ undo' = undo /\ kernel' \subseteq kernel
        /\ failed' = failed \/ failed' = Append(failed, undo[at])
    BY <1>6 DEF UndoSucceeds, NotInTable, UndoFails
  <2>2. at \in Nat /\ at \in 1 .. Len(undo) /\ failed \in Seq(Undoable) /\ undo[at] \in Undoable
        /\ 1 .. at = (1 .. at') \cup {at}
    BY <2>1 DEF TypeOK
  <2>3. Range(failed') \subseteq Range(failed) \cup {undo[at]}
    BY <2>1, <2>2, RangeAppend
  <2> QED
    BY <2>1, <2>2, <2>3 DEF Owed
<1>7. CASE CloseReturns
  <2>1. kernel' = kernel /\ undo' = Reverse(failed) /\ phase = "closing" /\ phase' = "closed"
    BY <1>7 DEF CloseReturns, Retained
  <2>2. Range(Reverse(failed)) \subseteq Range(failed)
    BY DEF Reverse, Range, TypeOK
  <2> QED
    BY <2>1, <2>2 DEF Owed
<1> QED
  BY <1>1, <1>2, <1>3, <1>4, <1>5, <1>6, <1>7 DEF Next, ManagerStep

-----------------------------------------------------------------------------
(* The routing table's types. *)
LEMMA GetType ==
  ASSUME RTypeOK, NEW a \in Addr
  PROVE  /\ Get(a).kind \in {"static", "clone", "neighbor", "subnet", "none"}
         /\ Get(a).via \in Via \cup {"tun"}
         /\ Get(a) = [kind |-> Get(a).kind, via |-> Get(a).via]
  BY DEF RTypeOK, Get, Route, Nothing, Via

(* What remains of a route that has gone. *)
LEMMA Leftover ==
  ASSUME RTypeOK, NEW a \in Addr
  PROVE  /\ Without(a) \in [Addr -> Route \cup {Nothing}]
         /\ \A b \in Addr : b # a => Without(a)[b] = entry[b]
         /\ Without(a)[a].kind # "static"
         /\ entry[a].kind \in {"neighbor", "subnet"} => Without(a)[a].kind = "subnet"
  BY DEF RTypeOK, Without, Route, Nothing

LEMMA RNextTypes == ASSUME RTypeOK, [RNext]_allVars PROVE RTypeOK'
<1>1. CASE BeginSetup
  BY <1>1 DEF BeginSetup, RTypeOK
<1>2. CASE Lookup
  <2>1. step + 1 \in Addr /\ UNCHANGED <<uplink, entry, news, meddled, changes>>
    BY <1>2 DEF Lookup
  <2>2. want' = want \/ (Get(step + 1).via # "tun" /\ want' = [want EXCEPT ![step + 1] = Get(step + 1)])
    BY <1>2 DEF Lookup
  <2> QED
    BY <2>1, <2>2, GetType DEF RTypeOK
<1>3. CASE Pin \/ Unpin \/ Expire
  <2>1. UNCHANGED <<uplink, want, news, meddled, changes>>
    BY <1>3 DEF Pin, Unpin, Expire
  <2>2. entry' = entry \/ \E a \in Addr : entry' = Without(a)
    BY <1>3 DEF Pin, Unpin, Expire
  <2> QED
    BY <2>1, <2>2, Leftover DEF RTypeOK
<1>4. CASE Verify
  BY <1>4 DEF Verify, RTypeOK
<1>5. CASE Elsewhere \/ UNCHANGED allVars
  BY <1>5 DEF Elsewhere, allVars, routeVars, RTypeOK
<1>6. CASE Disturb
  BY <1>6 DEF Disturb, RTypeOK
<1>7. CASE Roam
  BY <1>7 DEF Roam, RTypeOK
<1> QED
  BY <1>1, <1>2, <1>3, <1>4, <1>5, <1>6, <1>7 DEF RNext

LEMMA RNextUpAtEnd == ASSUME UpAtEnd, [RNext]_allVars PROVE UpAtEnd'
<1>1. CASE Expire \/ Disturb \/ Roam \/ UNCHANGED allVars
  BY <1>1 DEF Expire, Disturb, Roam, allVars, vars, managerVars, UpAtEnd
<1>2. CASE BeginSetup \/ Lookup \/ Pin \/ Verify \/ Unpin \/ Elsewhere
  <2>1. Next
    BY <1>2 DEF BeginSetup, Lookup, Pin, Verify, Unpin, Elsewhere, Next, ManagerStep
  <2> QED
    BY <2>1 DEF Next, ManagerStep, Setup, Read, Skip, AddStart, AddSucceeds, AddFails,
       SetupReturns, Close, UndoSucceeds, NotInTable, UndoFails, CloseReturns, DeviceOpen,
       DeviceClose, Cancel, Rollback, Continue, managerVars, UpAtEnd
<1> QED
  BY <1>1, <1>2 DEF RNext

-----------------------------------------------------------------------------
(* A static route stays foreign as long as nothing of it is newly in place *)
(* or newly owed.                                                          *)
LEMMA ForeignKept ==
  ASSUME NEW a \in Addr, ForeignAt(a), entry'[a].kind = "static" => entry[a].kind = "static",
         a \in kernel' => a \in kernel, a \in Owed' => a \in Owed, a \in meddled => a \in meddled'
  PROVE  ForeignAt(a)'
  BY DEF ForeignAt

LEMMA RNextForeign ==
  ASSUME IInv, RTypeOK, Foreign, [RNext]_allVars, "killedDo" \notin Faults PROVE Foreign'
<1>1. CASE BeginSetup
  <2>1. Owed' = {} /\ kernel' = kernel /\ entry' = entry /\ kernel \cap Undoable = {}
    BY <1>1 DEF BeginSetup, Setup, Owed, Range, Restored
  <2>2. \A a \in Addr : a \notin kernel'
    BY <2>1, Shape
  <2> QED
    BY <2>1, <2>2 DEF Foreign, ForeignAt
<1>2. CASE Pin
  <2>1. step \in Addr /\ meddled' = meddled /\ Next
    BY <1>2 DEF Pin, Next, ManagerStep
  <2>2. CASE ~AddSucceeds
    <3>1. entry' = entry
      BY <1>2, <2>2 DEF Pin
    <3> QED
      BY <2>1, <2>2, <3>1, OwedMoves, ForeignKept DEF Foreign
  <2>3. CASE AddSucceeds
    <3>1. entry' = Without(step)
      BY <1>2, <2>3 DEF Pin, Skip, AddStart, AddSucceeds
    <3>2. ASSUME NEW b \in Addr, b = step PROVE ForeignAt(b)'
      BY <3>1, <3>2, Leftover DEF ForeignAt
    <3>3. ASSUME NEW b \in Addr, b # step PROVE ForeignAt(b)'
      BY <2>1, <3>1, <3>3, Leftover, OwedMoves, ForeignKept DEF Foreign
    <3> QED
      BY <3>2, <3>3 DEF Foreign
  <2> QED
    BY <2>2, <2>3
<1>3. CASE Lookup \/ Verify
  <2>1. Next /\ entry' = entry /\ meddled' = meddled /\ ~AddSucceeds
    BY <1>3 DEF Lookup, Verify, Read, AddSucceeds, Next, ManagerStep
  <2> QED
    BY <2>1, OwedMoves, ForeignKept DEF Foreign
<1>4. CASE Unpin
  <2>1. Next /\ meddled' = meddled /\ ~AddSucceeds
    BY <1>4 DEF Unpin, NotInTable, UndoFails, AddSucceeds, Next, ManagerStep
  <2>2. \A a \in Addr : entry'[a].kind = "static" => entry[a].kind = "static"
    BY <1>4, Leftover DEF Unpin
  <2> QED
    BY <2>1, <2>2, OwedMoves, ForeignKept DEF Foreign
<1>5. CASE Elsewhere
  <2>1. Next /\ entry' = entry /\ meddled' = meddled
    BY <1>5 DEF Elsewhere, Next, ManagerStep, routeVars
  <2>2. CASE ~AddSucceeds
    BY <2>1, <2>2, OwedMoves, ForeignKept DEF Foreign
  <2>3. CASE AddSucceeds
    <3>1. ASSUME step \in Addr PROVE FALSE
      <4>1. step \notin kernel /\ step \in kernel'
        BY <2>3, <3>1, Shape, Ahead DEF AddSucceeds
      <4>2. kernel' \subseteq kernel
        BY <1>5, <3>1 DEF Elsewhere, AddStart, Read, SetupReturns, Close, UndoSucceeds,
           CloseReturns, NotInTable, UndoFails, DeviceOpen, DeviceClose, Cancel, AddFails
      <4> QED
        BY <4>1, <4>2
    <3> QED
      BY <2>1, <2>3, <3>1, OwedMoves, ForeignKept DEF Foreign
  <2> QED
    BY <2>2, <2>3
<1>6. CASE Expire \/ Roam \/ UNCHANGED allVars
  <2>1. Owed' = Owed /\ kernel' = kernel /\ meddled' = meddled
    BY <1>6 DEF Expire, Roam, allVars, routeVars, vars, managerVars, Owed
  <2>2. \A a \in Addr : entry'[a].kind = "static" => entry[a].kind = "static"
    BY <1>6, Leftover DEF Expire, Roam, allVars, routeVars
  <2> QED
    BY <2>1, <2>2, ForeignKept DEF Foreign
<1>7. CASE Disturb
  <2>1. Owed' = Owed
    BY <1>7 DEF Disturb, managerVars, Owed
  <2>2. PICK c \in Addr, r \in Route \cup {Nothing} :
          /\ kernel' = kernel \ {c} /\ entry' = [entry EXCEPT ![c] = r]
          /\ meddled' = meddled \cup ({c} \cap Owed)
    BY <1>7 DEF Disturb
  <2>3. ForeignAt(c)'
    BY <2>1, <2>2 DEF ForeignAt
  <2>4. ASSUME NEW b \in Addr, b # c PROVE ForeignAt(b)'
    <3>1. entry'[b] = entry[b]
      BY <2>2, <2>4 DEF RTypeOK
    <3> QED
      BY <2>1, <2>2, <3>1, ForeignKept DEF Foreign
  <2> QED
    BY <2>3, <2>4 DEF Foreign
<1> QED
  BY <1>1, <1>2, <1>3, <1>4, <1>5, <1>6, <1>7 DEF RNext

-----------------------------------------------------------------------------
(* While Setup runs or has returned its Manager, the steps of the Manager  *)
(* leave every pin in place, and go on by one step at most.                *)
Manages == ManagerStep \/ Close \/ DeviceOpen \/ DeviceClose \/ Cancel

LEMMA LiveMoves ==
  ASSUME IInv, Manages, phase' \in Live
  PROVE  /\ phase \in Live
         /\ \A a \in Addr : a \in kernel => a \in kernel'
         /\ \/ step' = step
            \/ step' = step + 1 /\ step \in Step /\ (Read \/ Skip \/ AddSucceeds)
<1>1. CASE Read \/ Skip \/ AddSucceeds
  BY <1>1, Sets DEF Read, Skip, AddSucceeds, Continue, Rollback, Live, IInv, CommandRuns
<1>2. CASE AddStart \/ AddFails \/ SetupReturns \/ Cancel
  BY <1>2 DEF AddStart, AddFails, SetupReturns, Cancel, managerVars, Rollback, Live
<1>3. CASE UndoSucceeds \/ NotInTable \/ UndoFails \/ CloseReturns \/ Close
  BY <1>3 DEF UndoSucceeds, NotInTable, UndoFails, CloseReturns, Close, Live
<1>4. CASE DeviceOpen \/ DeviceClose
  BY <1>4, Shape DEF DeviceOpen, DeviceClose, managerVars, Live, OfKind
<1> QED
  BY <1>1, <1>2, <1>3, <1>4 DEF Manages, ManagerStep

(* What the Manager knows of an address stays good when Setup does not     *)
(* step onto or over its pin.                                              *)
LEMMA CoveredKept ==
  ASSUME NEW a \in Addr, CoveredAt(a), entry'[a] = entry[a], want'[a] = want[a],
         news'[a] = news[a], a \in kernel => a \in kernel',
         step' >= a => step >= a, step' > a <=> step > a
  PROVE  CoveredAt(a)'
  BY DEF CoveredAt, AsLookedUp, Held

(* The same when Setup moves at most from a step that is no pin to one     *)
(* that is none either.                                                    *)
LEMMA CoveredAside ==
  ASSUME IInv, Manages, phase' \in Live, NEW a \in Addr, CoveredAt(a),
         step' = step \/ (step # a /\ step + 1 # a),
         entry'[a] = entry[a], want'[a] = want[a], news'[a] = news[a]
  PROVE  CoveredAt(a)'
<1>1. step \in Nat /\ a \in Nat
  BY Shape, Sets DEF IInv, TypeOK
<1>2. (step' >= a => step >= a) /\ (step' > a <=> step > a)
  BY <1>1, LiveMoves
<1> QED
  BY <1>2, LiveMoves, CoveredKept

LEMMA CoveredLookup ==
  ASSUME IInv, RTypeOK, Covered, Lookup, phase' \in Live PROVE Covered'
<1>1. /\ step + 1 \in Addr /\ phase' = "setup" /\ phase = "setup" /\ step' = step + 1
      /\ kernel' = kernel /\ entry' = entry /\ news' = news
      /\ want' = [want EXCEPT ![step + 1] = Get(step + 1)]
  BY DEF Lookup, Read, Continue, Rollback, Live
<1>2. Manages
  BY DEF Lookup, Manages, ManagerStep
<1>3. step \in Nat /\ step \notin Addr
  BY <1>1, Shape, Sets DEF IInv, TypeOK
<1>4. \A a \in Addr : CoveredAt(a)
  BY <1>1 DEF Covered, Live
<1>5. ASSUME NEW a \in Addr, a # step + 1 PROVE CoveredAt(a)'
  <2>1. want'[a] = want[a]
    BY <1>1, <1>5 DEF RTypeOK
  <2> QED
    BY <1>1, <1>2, <1>3, <1>4, <1>5, <2>1, CoveredAside
<1>6. ASSUME NEW a \in Addr, a = step + 1 PROVE CoveredAt(a)'
  <2>1. a \notin kernel
    BY <1>1, <1>3, <1>6, Shape, Ahead
  <2>2. want'[a] = Get(a) /\ entry'[a] = entry[a] /\ news'[a] = news[a]
    BY <1>1, <1>6 DEF RTypeOK
  <2>3. AsLookedUp(a)'
    BY <2>1, <2>2 DEF AsLookedUp, Get, PersistentHost, DirectlyConnected
  <2>4. ~(step > a) /\ ~(step' > a)
    BY <1>1, <1>3, <1>6
  <2> QED
    BY <1>4, <2>2, <2>3, <2>4 DEF CoveredAt
<1> QED
  BY <1>5, <1>6 DEF Covered

LEMMA CoveredPin ==
  ASSUME IInv, RTypeOK, Covered, Pin, phase' \in Live PROVE Covered'
<1>1. Manages /\ step \in Addr /\ want' = want /\ news' = news
  BY DEF Pin, Manages, ManagerStep
<1>2. phase \in Live /\ \A a \in Addr : CoveredAt(a)
  BY <1>1, LiveMoves DEF Covered
<1>3. step \in Nat /\ step + 1 \notin Addr
  BY <1>1, Shape, Sets DEF IInv, TypeOK
<1>4. ASSUME NEW a \in Addr, a # step PROVE CoveredAt(a)'
  <2>1. entry'[a] = entry[a]
    BY <1>1, <1>4, Leftover DEF Pin
  <2> QED
    BY <1>1, <1>2, <1>3, <1>4, <2>1, CoveredAside
<1>5. ASSUME NEW a \in Addr, a = step PROVE CoveredAt(a)'
  <2>1. CoveredAt(a) /\ news[a] # "seen" /\ (news[a] = "none" => AsLookedUp(a))
    BY <1>2, <1>3, <1>5 DEF CoveredAt
  <2>2. CASE Kept(want[step]) /\ Skip /\ UNCHANGED entry
    BY <1>1, <1>5, <2>1, <2>2 DEF CoveredAt, AsLookedUp
  <2>3. CASE AddStart /\ UNCHANGED entry
    <3>1. step' = step
      BY <2>3 DEF AddStart, Rollback, Live
    <3> QED
      BY <1>1, <1>2, <2>3, <3>1, CoveredAside
  <2>4. CASE entry[step].kind # "static" /\ AddSucceeds /\ entry' = Without(step)
    <3>1. a \in kernel'
      BY <1>5, <2>4 DEF AddSucceeds
    <3>2. entry[a].kind # "static"
          /\ (entry[a].kind \in {"neighbor", "subnet"} => entry'[a].kind = "subnet")
      BY <1>5, <2>4, Leftover
    <3>3. news[a] = "none" => AsLookedUp(a)'
      BY <1>1, <2>1, <3>2 DEF AsLookedUp
    <3> QED
      BY <1>1, <2>1, <3>1, <3>3 DEF CoveredAt
  <2> QED
    BY <2>2, <2>3, <2>4 DEF Pin
<1> QED
  BY <1>4, <1>5 DEF Covered

LEMMA CoveredVerify ==
  ASSUME IInv, RTypeOK, Covered, Verify, phase' \in Live PROVE Covered'
<1> DEFINE c == VerifiedAt(step)
<1>1. /\ step \in OfKind({"verify"}) /\ phase = "setup" /\ phase' = "setup"
      /\ step' = step + 1 /\ kernel' = kernel /\ entry' = entry /\ want' = want
      /\ Stable(c) /\ news' = [news EXCEPT ![c] = IF @ = "none" THEN @ ELSE "seen"]
  BY DEF Verify, Read, Continue, Rollback, Live
<1>2. \A a \in Addr : CoveredAt(a)
  BY <1>1 DEF Covered, Live
<1>3. step \in Nat /\ \A a \in Addr : a \in Nat /\ a < step
  BY <1>1, RoutesAssumption, Shape, Sets DEF OfKind, IInv, TypeOK
<1> HIDE DEF c
<1>4. ASSUME NEW a \in Addr PROVE CoveredAt(a)'
  <2>1. step > a /\ step' > a /\ step >= a
    BY <1>1, <1>3
  <2>2. news[a] = "none" => news'[a] = "none"
    BY <1>1 DEF RTypeOK
  <2>3. news'[a] = news[a] \/ (news'[a] = "seen" /\ a = c)
    BY <1>1 DEF RTypeOK
  <2>4. CASE news'[a] = news[a]
    BY <1>1, <1>2, <2>1, <2>4, CoveredKept
  <2>5. CASE news'[a] = "seen" /\ a = c
    <3>1. DirectlyConnected(want[a]) \/ Get(a).kind = "static"
      BY <1>1, <2>5 DEF Stable
    <3>2. Get(a).kind = "static" => Held(a)
      BY DEF Get, Held
    <3> QED
      BY <1>1, <2>1, <2>5, <3>1, <3>2 DEF CoveredAt, Held
  <2> QED
    BY <2>3, <2>4, <2>5
<1> QED
  BY <1>4 DEF Covered

LEMMA CoveredElsewhere ==
  ASSUME IInv, RTypeOK, Covered, Elsewhere, phase' \in Live PROVE Covered'
<1>1. Manages /\ want' = want /\ news' = news /\ entry' = entry
  BY DEF Elsewhere, Manages, ManagerStep, routeVars
<1>2. phase \in Live /\ \A a \in Addr : CoveredAt(a)
  BY <1>1, LiveMoves DEF Covered
<1>3. step' = step \/ (step \notin Addr /\ step + 1 \notin Addr)
  <2>1. CASE step \notin OfKind({"pin", "verify"}) /\ step + 1 \notin Addr /\ Read
    BY <2>1 DEF OfKind, Addr
  <2>2. CASE step \notin Addr /\ (AddStart \/ AddSucceeds)
    <3>1. CASE AddStart
      BY <3>1 DEF AddStart, Rollback
    <3>2. CASE AddSucceeds
      <4>1. step \in OfKind(Adds) /\ step \in Nat
        BY <3>2, Sets DEF AddSucceeds, IInv, CommandRuns
      <4>2. ASSUME step + 1 \in Addr PROVE FALSE
        BY <4>1, <4>2, Shape
      <4> QED
        BY <2>2, <4>2
    <3> QED
      BY <2>2, <3>1, <3>2
  <2>3. CASE AddFails \/ SetupReturns \/ Close \/ UndoSucceeds \/ CloseReturns
             \/ NotInTable \/ UndoFails \/ DeviceOpen \/ DeviceClose \/ Cancel
    BY <2>3 DEF AddFails, Rollback, SetupReturns, Close, UndoSucceeds, CloseReturns,
       NotInTable, UndoFails, DeviceOpen, DeviceClose, Cancel, managerVars
  <2> QED
    BY <2>1, <2>2, <2>3 DEF Elsewhere
<1> QED
  BY <1>1, <1>2, <1>3, CoveredAside DEF Covered

(* Others: an expired entry leaves the subnet's behind if it was the       *)
(* neighbour's, and a change is news until it is seen.                     *)
LEMMA CoveredOthers ==
  ASSUME RTypeOK, Covered, Expire \/ Disturb \/ Roam, phase' \in Live PROVE Covered'
<1>1. phase' = phase /\ step' = step /\ want' = want
  BY DEF Expire, Disturb, Roam, vars, managerVars
<1>2. \A a \in Addr : CoveredAt(a)
  BY <1>1 DEF Covered
<1>3. CASE Expire
  <2>1. PICK c \in Addr : entry[c].kind \in {"clone", "neighbor"} /\ entry' = Without(c)
    BY <1>3 DEF Expire
  <2>2. kernel' = kernel /\ news' = news
    BY <1>3 DEF Expire, vars
  <2>3. ASSUME NEW a \in Addr
        PROVE  /\ entry[a].kind = "static" => entry'[a].kind = "static"
               /\ entry[a].kind \in {"neighbor", "subnet"} => entry'[a].kind \in {"neighbor", "subnet"}
    <3>1. CASE a = c
      BY <2>1, <3>1, Leftover
    <3>2. CASE a # c
      BY <2>1, <3>2, Leftover
    <3> QED
      BY <3>1, <3>2
  <2> QED
    BY <1>1, <1>2, <2>2, <2>3 DEF Covered, CoveredAt, AsLookedUp, Held
<1>4. CASE Disturb
  <2>1. PICK c \in Addr, r \in Route \cup {Nothing} :
          /\ kernel' = kernel \ {c} /\ entry' = [entry EXCEPT ![c] = r]
          /\ news' = [news EXCEPT ![c] = "unseen"]
    BY <1>4 DEF Disturb
  <2>2. ASSUME NEW a \in Addr PROVE CoveredAt(a)'
    <3>1. CASE a = c
      BY <2>1, <3>1 DEF RTypeOK, CoveredAt
    <3>2. CASE a # c
      BY <1>1, <1>2, <2>1, <3>2, CoveredKept DEF RTypeOK
    <3> QED
      BY <3>1, <3>2
  <2> QED
    BY <2>2 DEF Covered
<1>5. CASE Roam
  BY <1>5 DEF Roam, Covered, CoveredAt
<1> QED
  BY <1>3, <1>4, <1>5

LEMMA RNextCovered ==
  ASSUME IInv, RTypeOK, Covered, [RNext]_allVars PROVE Covered'
<1> SUFFICES ASSUME phase' \in Live PROVE Covered'
  BY DEF Covered
<1>1. CASE BeginSetup
  <2>1. step' = 1 /\ \A a \in Addr : news'[a] = "none" /\ ~(step' >= a) /\ ~(step' > a)
    BY <1>1, Shape DEF BeginSetup, Setup
  <2> QED
    BY <2>1 DEF Covered, CoveredAt
<1>2. CASE Unpin
  BY <1>2 DEF Unpin, NotInTable, UndoFails, Live
<1>3. CASE UNCHANGED allVars
  BY <1>3 DEF allVars, routeVars, vars, managerVars, Covered, CoveredAt, AsLookedUp, Held
<1> QED
  BY <1>1, <1>2, <1>3, CoveredLookup, CoveredPin, CoveredVerify, CoveredElsewhere,
     CoveredOthers DEF RNext

-----------------------------------------------------------------------------
LEMMA RInitInv == RInit => RInv
<1> SUFFICES ASSUME RInit PROVE RInv
  OBVIOUS
<1>1. Init /\ IInv
  BY InitIInv DEF RInit
<1>2. RTypeOK
  BY DEF RInit, RTypeOK, Nothing, Via
<1>3. UpAtEnd /\ Covered
  BY <1>1 DEF Init, UpAtEnd, Covered, Live
<1>4. Owed = {} /\ kernel = {}
  BY <1>1 DEF Init, Owed, Range
<1>5. Foreign
  BY <1>4 DEF Foreign, ForeignAt
<1> QED
  BY <1>1, <1>2, <1>3, <1>5 DEF RInv

LEMMA RNextInv == ASSUME RInv, [RNext]_allVars, "killedDo" \notin Faults PROVE RInv'
  BY RNextIInv, RNextTypes, RNextUpAtEnd, RNextCovered, RNextForeign DEF RInv

(* A route into the tunnel is one by a split route, so the pin of the      *)
(* address is behind Setup, and by Covered it is held.                     *)
LEMMA RInvOutside == ASSUME RInv PROVE OutsideTunnel
<1> USE DEF RInv
<1> SUFFICES ASSUME phase \in Live, NEW a \in Addr, Get(a).via = "tun", news[a] # "unseen"
             PROVE  news[a] = "seen" /\ DirectlyConnected(want[a])
  BY DEF OutsideTunnel, Live
<1>1. "tun" \notin Uplink /\ want[a].via # "tun" /\ entry[a] \in Route \cup {Nothing}
      /\ uplink \in Uplink /\ news[a] \in {"none", "seen"}
  BY RoutesAssumption DEF RTypeOK, Via
<1>2. a \notin kernel /\ entry[a] = Nothing /\ HalfOf(a) \in kernel
  BY <1>1 DEF Get, Route
<1>3. step > a
  <2>1. HalfOf(a) \in Undoable /\ HalfOf(a) \in Nat /\ a < HalfOf(a) /\ HalfOf(a) \in Step
        /\ a \in Nat /\ step \in Nat /\ Len(Plan) \in Nat
    BY Half, Shape, Sets DEF IInv, TypeOK
  <2>2. CASE phase = "up"
    BY <2>1, <2>2, Sets DEF UpAtEnd
  <2>3. CASE phase \in {"setup", "command"}
    BY <1>2, <2>1, <2>3, Ahead
  <2> QED
    BY <2>2, <2>3 DEF Live
<1>4. step >= a
  BY <1>3, Shape, Sets DEF IInv, TypeOK
<1>5. CoveredAt(a) /\ entry[a].kind = "none"
  BY <1>2 DEF Covered, Nothing
<1> QED
  BY <1>1, <1>2, <1>3, <1>4, <1>5 DEF CoveredAt, AsLookedUp, Held, Kept

(* Who takes a static route away: nobody, Unpin of a meddled address, or   *)
(* others.                                                                 *)
LEMMA RStepForeign ==
  ASSUME RInv, [RNext]_allVars, NEW a \in Addr,
         entry[a].kind = "static", entry'[a].kind # "static"
  PROVE  changes' # changes \/ a \in meddled
<1> USE DEF RInv
<1>1. entry' # entry
  OBVIOUS
<1>2. CASE Pin
  <2>1. entry[step].kind # "static" /\ entry' = Without(step) /\ step \in Addr
    BY <1>1, <1>2 DEF Pin
  <2> QED
    BY <2>1, Leftover
<1>3. CASE Unpin
  <2>1. undo[at] \in Addr /\ entry' = Without(undo[at]) /\ phase = "closing" /\ at > 0
    BY <1>1, <1>3 DEF Unpin
  <2>2. a = undo[at]
    BY <2>1, Leftover
  <2>3. a \in Owed
    BY <2>1, <2>2 DEF Owed, IInv, TypeOK
  <2> QED
    BY <2>3 DEF Foreign, ForeignAt
<1>4. CASE Expire
  <2>1. PICK c \in Addr : entry[c].kind \in {"clone", "neighbor"} /\ entry' = Without(c)
    BY <1>4 DEF Expire
  <2> QED
    BY <2>1, Leftover
<1>5. CASE Disturb
  BY <1>5 DEF Disturb, RTypeOK
<1> QED
  BY <1>1, <1>2, <1>3, <1>4, <1>5 DEF RNext, BeginSetup, Lookup, Verify, Elsewhere, Roam,
     routeVars, allVars

-----------------------------------------------------------------------------
(* The inductive invariant, for every plan of mac()'s shape.               *)
THEOREM RoutesInvariant == ASSUME "killedDo" \notin Faults PROVE RSpec => []RInv
<1>1. RInit => RInv
  BY RInitInv
<1>2. RInv /\ [RNext]_allVars => RInv'
  BY RNextInv
<1> QED
  BY <1>1, <1>2, PTL DEF RSpec

(* pinMacRoute and verifyMacRoutes keep the tunnel's own packets out of    *)
(* the tunnel, from the lookup to the end of the session, whatever expires *)
(* and whatever others change, for any number of underlay addresses and    *)
(* whichever half of the address space they lie in.                        *)
THEOREM UnderlayStaysOutside == ASSUME "killedDo" \notin Faults PROVE RSpec => []OutsideTunnel
<1>1. RInv => OutsideTunnel
  BY RInvOutside
<1> QED
  BY <1>1, RoutesInvariant, PTL

(* No pin, undo or rollback takes away a static host route of somebody     *)
(* else, unless others put it in the place of a pin yet to be undone.      *)
THEOREM OthersRoutesStay == ASSUME "killedDo" \notin Faults PROVE RSpec => ForeignRoutesKept
<1>1. RInv /\ [RNext]_allVars =>
        [\A a \in Addr : entry[a].kind = "static" /\ entry'[a].kind # "static"
                            => changes' # changes \/ a \in meddled]_allVars
  BY RStepForeign
<1> QED
  BY <1>1, RoutesInvariant, PTL DEF RSpec, ForeignRoutesKept

(* The Manager's own promises hold with others changing the routing table. *)
THEOREM RoutesKeepManager ==
  ASSUME "killedDo" \notin Faults
  PROVE  RSpec => [](TypeOK /\ EffectsOwed /\ LatestFirst /\ CleanMeansRestored)
<1>1. RInv => TypeOK /\ EffectsOwed /\ LatestFirst /\ CleanMeansRestored
  BY IInvImplies DEF RInv
<1> QED
  BY <1>1, RoutesInvariant, PTL
=============================================================================
