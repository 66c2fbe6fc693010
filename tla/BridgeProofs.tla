----------------------------- MODULE BridgeProofs -----------------------------
(***************************************************************************)
(* Safety of Bridge for every bound on the packets: it returns only when   *)
(* both copiers have stopped and both ends are closed, errs has room for   *)
(* every error a copier can still have, and exactly the vetted packets are *)
(* passed on, once and in order.                                           *)
(***************************************************************************)
EXTENDS Bridge, TLAPS

(* Every error in errs comes from a copier that has stopped since. *)
ErrorsOfStopped ==
    /\ errs <= 2
    /\ \A c \in Copier : pc[c] # "stopped" => errs <= 1
    /\ (\A c \in Copier : pc[c] # "stopped") => errs = 0

(* Both ends are closed from the moment Bridge waits for the copiers. *)
ClosedOnceWaiting == main \in {"wait", "returned"} => closed = End

IInv == TypeOK /\ ErrorsOfStopped /\ ClosedOnceWaiting /\ JoinedOnReturn

(* The initial state: no error, nothing closed, both copiers reading. *)
LEMMA InitIInv == Init => IInv
  <1> SUFFICES ASSUME Init PROVE IInv
    OBVIOUS
  <1>1. TypeOK
    <2>1. errs \in 0 .. ErrsCap
      BY BridgeAssumption DEF Init
    <2>2. /\ pc \in [Copier -> {"read", "write", "fail", "stopped"}]
          /\ packet \in [Copier -> Nat]
      BY DEF Init
    <2>3. taken \in [Copier -> Seq(Packet)] /\ passed \in [Copier -> Seq(Nat)]
      <3>1. <<>> \in Seq(Packet) /\ <<>> \in Seq(Nat)
        OBVIOUS
      <3> QED BY <3>1 DEF Init
    <2>4. cancelled \in BOOLEAN
      BY DEF Init
    <2> QED BY <2>1, <2>2, <2>3, <2>4 DEF Init, TypeOK
  <1>2. \A c \in Copier : pc[c] = "read"
    BY DEF Init
  <1> QED BY <1>1, <1>2 DEF Init, IInv, ErrorsOfStopped, ClosedOnceWaiting, JoinedOnReturn

(* A copier's steps: it stops only as it reports, and reports only once. *)
LEMMA CopierKeepsIInv ==
    ASSUME IInv, NEW c \in Copier, CopierStep(c)
    PROVE  IInv'
  <1> USE DEF IInv
  <1>1. ASSUME NEW p \in Packet, Read(c, p) PROVE IInv'
    <2>1. TypeOK'
      BY <1>1 DEF Read, TypeOK
    <2>2. pc'[c] # "stopped" /\ \A d \in Copier \ {c} : pc'[d] = pc[d]
      BY <1>1 DEF Read, TypeOK
    <2>3. pc[c] # "stopped" /\ UNCHANGED <<errs, main, closed>>
      BY <1>1 DEF Read
    <2> QED BY <2>1, <2>2, <2>3 DEF ErrorsOfStopped, ClosedOnceWaiting, JoinedOnReturn
  <1>2. ASSUME Write(c) PROVE IInv'
    <2>1. TypeOK'
      BY <1>2 DEF Write, TypeOK
    <2>2. pc'[c] # "stopped" /\ \A d \in Copier \ {c} : pc'[d] = pc[d]
      BY <1>2 DEF Write, TypeOK
    <2>3. pc[c] # "stopped" /\ UNCHANGED <<errs, main, closed>>
      BY <1>2 DEF Write
    <2> QED BY <2>1, <2>2, <2>3 DEF ErrorsOfStopped, ClosedOnceWaiting, JoinedOnReturn
  <1>3. ASSUME EndFails(c) PROVE IInv'
    <2>1. TypeOK'
      BY <1>3 DEF EndFails, TypeOK
    <2>2. pc'[c] # "stopped" /\ \A d \in Copier \ {c} : pc'[d] = pc[d]
      BY <1>3 DEF EndFails, TypeOK
    <2>3. pc[c] # "stopped" /\ UNCHANGED <<errs, main, closed>>
      BY <1>3 DEF EndFails
    <2> QED BY <2>1, <2>2, <2>3 DEF ErrorsOfStopped, ClosedOnceWaiting, JoinedOnReturn
  <1>4. ASSUME ReportError(c) PROVE IInv'
    <2>1. TypeOK'
      BY <1>4, BridgeAssumption DEF ReportError, TypeOK
    <2>2. pc'[c] = "stopped" /\ \A d \in Copier \ {c} : pc'[d] = pc[d]
      BY <1>4 DEF ReportError, TypeOK
    <2>3. pc[c] = "fail" /\ errs' = errs + 1 /\ UNCHANGED <<main, closed>>
      BY <1>4 DEF ReportError
    <2>4. ErrorsOfStopped'
      BY <2>2, <2>3 DEF ErrorsOfStopped, TypeOK, Copier
    <2> QED BY <2>1, <2>2, <2>3, <2>4 DEF ClosedOnceWaiting, JoinedOnReturn
  <1> QED BY <1>1, <1>2, <1>3, <1>4 DEF CopierStep

(* Bridge's own steps, the caller's and the AfterFunc's. *)
LEMMA NextKeepsIInv == IInv /\ [Next]_vars => IInv'
  <1> SUFFICES ASSUME IInv, [Next]_vars PROVE IInv'
    OBVIOUS
  <1> USE DEF IInv, ErrorsOfStopped, ClosedOnceWaiting, JoinedOnReturn, copierVars
  <1>1. ASSUME NEW c \in Copier, CopierStep(c) PROVE IInv'
    BY <1>1, CopierKeepsIInv
  <1>2. CASE Leave
    BY <1>2, BridgeAssumption DEF Leave, TypeOK, End
  <1>3. CASE CloseEnds
    BY <1>3 DEF CloseEnds, TypeOK
  <1>4. CASE Return
    BY <1>4 DEF Return, TypeOK
  <1>5. CASE Cancel
    BY <1>5 DEF Cancel, TypeOK, End
  <1>6. CASE AfterFunc
    BY <1>6 DEF AfterFunc, TypeOK, End
  <1>7. CASE UNCHANGED vars
    BY <1>7 DEF vars, TypeOK
  <1> QED BY <1>1, <1>2, <1>3, <1>4, <1>5, <1>6, <1>7 DEF Next

(* The inductive invariant holds throughout. *)
THEOREM BridgeInvariant == Spec => []IInv
  BY InitIInv, NextKeepsIInv, PTL DEF Spec

(* Bridge returns only after both copiers have, with both ends closed:     *)
(* when runTUN undoes the network setup nobody uses the device any more.   *)
THEOREM BridgeJoins == Spec => []JoinedOnReturn
  <1>1. IInv => JoinedOnReturn
    BY DEF IInv
  <1> QED BY <1>1, BridgeInvariant, PTL

(* Neither copier can block on errs, whenever the other one failed and     *)
(* however Bridge left its select.                                         *)
THEOREM BridgeErrorsFit == Spec => []ErrorsHaveRoom
  <1>1. IInv => ErrorsHaveRoom
    BY BridgeAssumption DEF IInv, TypeOK, ErrorsOfStopped, ErrorsHaveRoom
  <1> QED BY <1>1, BridgeInvariant, PTL

-----------------------------------------------------------------------------
(* The packet a copier is about to write is the last it has read, it is    *)
(* vetted, and it has not been written yet.                                *)
InHand(c) == pc[c] = "write" =>
    /\ packet[c] = Len(taken[c]) /\ packet[c] \in DOMAIN taken[c]
    /\ Vetted(c, taken[c][packet[c]])
    /\ packet[c] \notin Range(passed[c])

(* PassesVetted of one copier. *)
Passes(c) ==
    /\ Range(passed[c]) \subseteq DOMAIN taken[c]
    /\ \A i, j \in DOMAIN passed[c] : i < j => passed[c][i] < passed[c][j]
    /\ \A n \in DOMAIN taken[c] :
          IF n \in Range(passed[c]) THEN Vetted(c, taken[c][n])
          ELSE Vetted(c, taken[c][n]) => n = Len(taken[c]) /\ pc[c] # "read"

Vetting == \A c \in Copier : Passes(c) /\ InHand(c)

(* What Append does, of the elements' type. *)
LEMMA Appended ==
    ASSUME NEW S, NEW q \in Seq(S), NEW x \in S
    PROVE  /\ Len(q) \in Nat /\ Len(q) + 1 \notin DOMAIN q
           /\ DOMAIN q = 1 .. Len(q) /\ Len(Append(q, x)) = Len(q) + 1
           /\ DOMAIN Append(q, x) = DOMAIN q \cup {Len(q) + 1}
           /\ \A n \in DOMAIN q : Append(q, x)[n] = q[n]
           /\ Append(q, x)[Len(q) + 1] = x
           /\ Range(Append(q, x)) = Range(q) \cup {x}
  <1>1. /\ Len(q) \in Nat /\ Len(q) + 1 \notin DOMAIN q
        /\ DOMAIN q = 1 .. Len(q) /\ Len(Append(q, x)) = Len(q) + 1
        /\ DOMAIN Append(q, x) = DOMAIN q \cup {Len(q) + 1}
        /\ \A n \in DOMAIN q : Append(q, x)[n] = q[n]
        /\ Append(q, x)[Len(q) + 1] = x
    OBVIOUS
  <1>2. Range(Append(q, x)) = Range(q) \cup {x}
    BY <1>1 DEF Range
  <1> QED BY <1>1, <1>2

(* A copier that reads a packet decides at once whether it goes on. *)
LEMMA ReadVets ==
    ASSUME TypeOK, Vetting, NEW c \in Copier, NEW p \in Packet, Read(c, p)
    PROVE  Passes(c)' /\ InHand(c)'
  <1> DEFINE q == taken[c]
  <1>1. /\ taken'[c] = Append(q, p) /\ packet'[c] = Len(q) + 1 /\ passed' = passed
        /\ pc[c] = "read"
        /\ pc'[c] = IF Vetted(c, p) THEN "write" ELSE IF p = "invalid" THEN "fail" ELSE "read"
    BY DEF Read, TypeOK
  <1>2. q \in Seq(Packet)
    BY DEF TypeOK
  <1> HIDE DEF q
  <1>3. /\ Len(q) \in Nat /\ Len(q) + 1 \notin DOMAIN q
        /\ DOMAIN q = 1 .. Len(q) /\ Len(Append(q, p)) = Len(q) + 1
        /\ DOMAIN Append(q, p) = DOMAIN q \cup {Len(q) + 1}
        /\ \A n \in DOMAIN q : Append(q, p)[n] = q[n]
        /\ Append(q, p)[Len(q) + 1] = p
    BY <1>2, Appended
  <1>4. /\ Range(passed[c]) \subseteq DOMAIN q
        /\ \A i, j \in DOMAIN passed[c] : i < j => passed[c][i] < passed[c][j]
        /\ \A n \in DOMAIN q : n \in Range(passed[c]) <=> Vetted(c, q[n])
    BY <1>1 DEF Vetting, Passes, q
  <1>5. Len(q) + 1 \notin Range(passed[c])
    BY <1>3, <1>4
  <1>6. \A n : (Vetted(c, n)' <=> Vetted(c, n))
    BY DEF Vetted, Forged
  <1>7. Vetted(c, p) => pc'[c] # "read"
    BY <1>1
  <1>8. Passes(c)'
    <2> SUFFICES ASSUME NEW n \in DOMAIN q \cup {Len(q) + 1}
                 PROVE  IF n \in Range(passed[c]) THEN Vetted(c, taken'[c][n])
                        ELSE Vetted(c, taken'[c][n]) => n = Len(q) + 1 /\ pc'[c] # "read"
      BY <1>1, <1>3, <1>4 DEF Passes, Vetted, Forged
    <2>1. CASE n \in DOMAIN q
      <3>1. taken'[c][n] = q[n]
        BY <1>1, <1>3, <2>1
      <3> QED BY <1>4, <2>1, <3>1
    <2>2. CASE n = Len(q) + 1
      <3>1. taken'[c][n] = p
        BY <1>1, <1>3, <2>2
      <3> QED BY <1>5, <1>7, <2>2, <3>1
    <2> QED BY <2>1, <2>2
  <1>9. InHand(c)'
    <2> SUFFICES ASSUME pc'[c] = "write"
                 PROVE  /\ packet'[c] = Len(taken'[c]) /\ packet'[c] \in DOMAIN taken'[c]
                        /\ Vetted(c, taken'[c][packet'[c]])
                        /\ packet'[c] \notin Range(passed[c])
      BY <1>1 DEF InHand, Vetted, Forged
    <2>1. Vetted(c, p)
      BY <1>1
    <2>2. packet'[c] = Len(taken'[c]) /\ packet'[c] \in DOMAIN taken'[c] /\ taken'[c][packet'[c]] = p
      BY <1>1, <1>3
    <2> QED BY <1>1, <1>5, <2>1, <2>2
  <1> QED BY <1>8, <1>9

(* A copier that writes appends the greatest number so far. *)
LEMMA WriteVets ==
    ASSUME TypeOK, Vetting, NEW c \in Copier, Write(c)
    PROVE  Passes(c)' /\ InHand(c)'
  <1> DEFINE q == passed[c]
             k == packet[c]
  <1>1. passed'[c] = Append(q, k) /\ taken' = taken /\ pc[c] = "write" /\ pc'[c] = "read"
    BY DEF Write, TypeOK
  <1>2. q \in Seq(Nat) /\ k \in Nat
    BY DEF TypeOK
  <1>3. /\ k = Len(taken[c]) /\ k \in DOMAIN taken[c] /\ Vetted(c, taken[c][k])
        /\ k \notin Range(q) /\ Range(q) \subseteq DOMAIN taken[c]
        /\ \A i, j \in DOMAIN q : i < j => q[i] < q[j]
        /\ \A n \in DOMAIN taken[c] :
              IF n \in Range(q) THEN Vetted(c, taken[c][n])
              ELSE Vetted(c, taken[c][n]) => n = k
    BY <1>1 DEF Vetting, InHand, Passes
  <1> HIDE DEF q, k
  <1>4. /\ Len(q) \in Nat /\ DOMAIN q = 1 .. Len(q)
        /\ DOMAIN Append(q, k) = DOMAIN q \cup {Len(q) + 1}
        /\ \A n \in DOMAIN q : Append(q, k)[n] = q[n]
        /\ Append(q, k)[Len(q) + 1] = k
        /\ Range(Append(q, k)) = Range(q) \cup {k}
    BY <1>2, Appended
  <1>5. \A i \in DOMAIN q : q[i] < k
    <2>1. taken[c] \in Seq(Packet)
      BY DEF TypeOK
    <2>2. DOMAIN taken[c] = 1 .. k
      BY <1>3, <2>1
    <2>3. \A i \in DOMAIN q : q[i] \in Range(q)
      BY DEF Range
    <2> QED BY <1>2, <1>3, <2>2, <2>3
  <1>6. \A i, j \in DOMAIN Append(q, k) : i < j => Append(q, k)[i] < Append(q, k)[j]
    <2> SUFFICES ASSUME NEW i \in DOMAIN Append(q, k), NEW j \in DOMAIN Append(q, k), i < j
                 PROVE  Append(q, k)[i] < Append(q, k)[j]
      OBVIOUS
    <2>1. i \in DOMAIN q
      BY <1>4
    <2>2. CASE j \in DOMAIN q
      BY <1>3, <1>4, <2>1, <2>2
    <2>3. CASE j = Len(q) + 1
      BY <1>4, <1>5, <2>1, <2>3
    <2> QED BY <1>4, <2>2, <2>3
  <1>7. \A n \in DOMAIN taken[c] :
          IF n \in Range(Append(q, k)) THEN Vetted(c, taken[c][n]) ELSE ~Vetted(c, taken[c][n])
    BY <1>3, <1>4
  <1>8. Range(Append(q, k)) \subseteq DOMAIN taken[c]
    BY <1>3, <1>4
  <1>9. Passes(c)'
    BY <1>1, <1>6, <1>7, <1>8 DEF Passes, Vetted, Forged
  <1>10. InHand(c)'
    BY <1>1 DEF InHand
  <1> QED BY <1>9, <1>10

(* A step that neither reads nor writes leaves the two histories alone. *)
LEMMA OtherVets ==
    ASSUME Vetting, NEW c \in Copier, taken'[c] = taken[c], passed'[c] = passed[c],
           packet'[c] = packet[c], pc'[c] = pc[c] \/ pc'[c] \notin {"read", "write"}
    PROVE  Passes(c)' /\ InHand(c)'
  <1>1. Passes(c)'
    BY DEF Vetting, Passes, Vetted, Forged
  <1>2. InHand(c)'
    BY DEF Vetting, InHand, Vetted, Forged
  <1> QED BY <1>1, <1>2

LEMMA VettingNext == ASSUME TypeOK, Vetting, [Next]_vars PROVE Vetting'
  <1>1. ASSUME NEW c \in Copier, CopierStep(c) PROVE Vetting'
    <2>1. ASSUME NEW d \in Copier, d # c PROVE Passes(d)' /\ InHand(d)'
      <3>1. taken'[d] = taken[d] /\ passed'[d] = passed[d] /\ packet'[d] = packet[d] /\ pc'[d] = pc[d]
        BY <1>1, <2>1 DEF CopierStep, Read, Write, EndFails, ReportError, TypeOK
      <3> QED BY <3>1, OtherVets
    <2>2. Passes(c)' /\ InHand(c)'
      <3>1. CASE EndFails(c) \/ ReportError(c)
        <4>1. taken' = taken /\ passed' = passed /\ packet' = packet /\ pc'[c] \notin {"read", "write"}
          BY <3>1 DEF EndFails, ReportError, TypeOK
        <4> QED BY <4>1, OtherVets
      <3> QED BY <1>1, <3>1, ReadVets, WriteVets DEF CopierStep
    <2> QED BY <2>1, <2>2 DEF Vetting
  <1>2. ASSUME UNCHANGED copierVars PROVE Vetting'
    BY <1>2, OtherVets DEF copierVars, Vetting
  <1>3. CASE Leave \/ CloseEnds \/ Return \/ Cancel \/ AfterFunc \/ UNCHANGED vars
    BY <1>2, <1>3 DEF Leave, CloseEnds, Return, Cancel, AfterFunc, vars, copierVars
  <1> QED BY <1>1, <1>3 DEF Next

(* A server hands the device only packets with its client's source, and    *)
(* either copier passes on, in order and once, every packet that is fit.   *)
THEOREM BridgePassesVetted == Spec => []PassesVetted
  <1>1. Init => Vetting
    <2> SUFFICES ASSUME Init, NEW c \in Copier PROVE Passes(c) /\ InHand(c)
      BY DEF Vetting
    <2>1. taken[c] = <<>> /\ passed[c] = <<>> /\ pc[c] = "read"
      BY DEF Init
    <2>2. DOMAIN taken[c] = {} /\ DOMAIN passed[c] = {}
      BY <2>1
    <2> QED BY <2>1, <2>2 DEF Passes, InHand, Range
  <1>2. TypeOK /\ Vetting /\ [Next]_vars => Vetting'
    BY VettingNext
  <1>3. IInv => TypeOK
    BY DEF IInv
  <1>4. Vetting => PassesVetted
    BY DEF Vetting, Passes, PassesVetted
  <1> QED BY <1>1, <1>2, <1>3, <1>4, BridgeInvariant, PTL DEF Spec
=============================================================================
