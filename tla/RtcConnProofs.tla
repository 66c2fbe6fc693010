---------------------------- MODULE RtcConnProofs ----------------------------
(***************************************************************************)
(* The assembler of Fragments, and the WebRTC connection around it, for    *)
(* every chunk size, MTU, length, capacity and number of packets.          *)
(*                                                                         *)
(* The argument: an entry of pending holds exactly one of the two parts of *)
(* one packet, and was begun while that part was in the network (Began);   *)
(* an entry of completed was made while the last part of a returned packet *)
(* was (Ended).  As Life <= Expiry, a fragment arrives while the assembler *)
(* still remembers its packet; and unless the counter came round too soon  *)
(* (Collision), an entry it finds under its id is that of its own packet   *)
(* (SamePacket).  So a part only ever meets the other part of its packet   *)
(* (Waiting), and a packet that was returned is remembered until none of   *)
(* its fragments can come any more, or its entry is evicted (Remembered).  *)
(***************************************************************************)
EXTENDS RtcConn, FiniteSetTheorems, TLAPS

(* Division with rounding down, for the two quotients that occur. *)
LEMMA Quotient ==
    ASSUME NEW c \in Nat \ {0}, NEW x \in Nat, NEW q \in {1, 2},
           q * c <= x, x < (q + 1) * c
    PROVE  x \div c = q
  <1>1. c \in Int /\ c > 0 /\ x \in Int
    OBVIOUS
  <1>2. CASE q = 1
    BY <1>1, <1>2
  <1>3. CASE q = 2
    BY <1>1, <1>3
  <1> QED BY <1>2, <1>3

(* splitPacket's count is one for a packet of one chunk, two for more. *)
LEMMA CountValue ==
    ASSUME NEW n \in 1 .. MTU
    PROVE  Count(n) = IF n <= ChunkSize THEN 1 ELSE 2
  <1>1. ChunkSize \in Nat \ {0} /\ n \in Nat /\ n >= 1 /\ n <= 2 * ChunkSize
    BY FragmentsAssumption
  <1>2. CASE n <= ChunkSize
    BY <1>1, <1>2, Quotient DEF Count
  <1>3. CASE n > ChunkSize
    BY <1>1, <1>3, Quotient DEF Count
  <1> QED BY <1>1, <1>2, <1>3

(* splitPacket's first fragment takes what fits a chunk, the second one    *)
(* the rest.                                                               *)
LEMMA SliceValue ==
    ASSUME NEW n \in 1 .. MTU
    PROVE  IF n <= ChunkSize THEN Slice(n, 0) = n
           ELSE Slice(n, 0) = ChunkSize /\ Slice(n, 1) = n - ChunkSize
  <1>1. ChunkSize \in Nat /\ n \in Nat /\ n <= 2 * ChunkSize
    BY FragmentsAssumption
  <1> QED BY <1>1 DEF Slice, SliceEnd

(* push accepts the dimensions of every fragment splitPacket makes of a    *)
(* packet within the MTU, so an honest sender's fragment can be rejected   *)
(* only for a changed count, that is after the id came round.              *)
THEOREM SplitAccepted ==
    ASSUME NEW serial \in Nat, NEW n \in 1 .. MTU, NEW i \in 0 .. Count(n) - 1
    PROVE  GoodDimensions(Fragment(serial, n, i))
  <1> DEFINE f == Fragment(serial, n, i)
  <1>1. /\ ChunkSize \in Nat \ {0} /\ MTU \in Nat /\ ChunkSize < MTU /\ MTU <= 2 * ChunkSize
        /\ n \in Nat /\ n >= 1 /\ n <= MTU
    BY FragmentsAssumption
  <1>2. f.idx = i /\ f.count = Count(n) /\ f.len = Slice(n, i)
    BY DEF Fragment
  <1>3. CASE n <= ChunkSize
    <2>1. Count(n) = 1 /\ i = 0 /\ Slice(n, i) = n
      BY <1>1, <1>3, CountValue, SliceValue
    <2> QED BY <1>1, <1>2, <1>3, <2>1 DEF GoodDimensions
  <1>4. CASE n > ChunkSize
    <2>1. Count(n) = 2 /\ i \in {0, 1}
      BY <1>1, <1>4, CountValue
    <2>2. Slice(n, 0) = ChunkSize /\ Slice(n, 1) = n - ChunkSize
      BY <1>1, <1>4, SliceValue
    <2> QED BY <1>1, <1>2, <1>4, <2>1, <2>2 DEF GoodDimensions
  <1> QED BY <1>1, <1>3, <1>4

(* The fragments splitPacket makes of a packet carry all of it: their      *)
(* lengths add up to the packet's.                                         *)
THEOREM SplitCoversPacket ==
    ASSUME NEW n \in 1 .. MTU
    PROVE  \/ Count(n) = 1 /\ Slice(n, 0) = n
           \/ Count(n) = 2 /\ Slice(n, 0) + Slice(n, 1) = n
  <1>1. ChunkSize \in Nat /\ n \in Nat
    BY FragmentsAssumption
  <1> QED BY <1>1, CountValue, SliceValue

-----------------------------------------------------------------------------
(* Fragment i of packet s, and which fragments it has. *)
FragmentOf(s, i) ==
    [id |-> IdOf(s), idx |-> i, count |-> Count(sent[s].len),
     len |-> Slice(sent[s].len, i), of |-> s, born |-> sent[s].born]
Indices(s) == 0 .. Count(sent[s].len) - 1

(* Packet s may still have fragments in the network. *)
Young(s) == now <= sent[s].born + Life

Returns(s) == \E b \in out : s \in b.of

Sending ==
    /\ now \in Nat /\ now <= MaxTime /\ broken \in BOOLEAN
    /\ sent \in Seq([len : Lengths, born : Nat]) /\ Len(sent) <= MaxPackets
    /\ \A s \in DOMAIN sent : sent[s].born <= now

InFlight == \A f \in net : \E s \in DOMAIN sent :
                \E i \in Indices(s) : f = FragmentOf(s, i) /\ Young(s)

(* The entry k of pending was begun by fragment i of packet s. *)
BegunBy(k, s, i) ==
    /\ IdOf(s) = k /\ Count(sent[s].len) = 2 /\ i \in {0, 1} /\ <<s, i>> \in arrived
    /\ \E t, q :
         /\ t \in Nat /\ pending[k] = [at |-> t, count |-> 2, parts |-> q]
         /\ DOMAIN q = {i} /\ q[i] = FragmentOf(s, i)
         /\ sent[s].born <= t /\ t <= now /\ t <= sent[s].born + Life

Began == \A k \in DOMAIN pending : \E s \in DOMAIN sent, i \in {0, 1} : BegunBy(k, s, i)

Known == /\ \A b \in out : b.of \subseteq DOMAIN sent
         /\ \A a \in arrived : a[1] \in DOMAIN sent

Ended == \A k \in DOMAIN completed :
           /\ completed[k] \in Nat /\ completed[k] <= now
           /\ \E s \in DOMAIN sent : /\ IdOf(s) = k /\ Returns(s)
                                     /\ completed[k] <= sent[s].born + Life

Remembered == \A s \in DOMAIN sent : Returns(s) =>
                \/ s \in excused
                \/ ~Young(s)
                \/ IdOf(s) \in DOMAIN completed /\ sent[s].born <= completed[IdOf(s)]

Room == /\ IsFiniteSet(DOMAIN pending) /\ Cardinality(DOMAIN pending) <= PendingCap
        /\ IsFiniteSet(DOMAIN completed) /\ Cardinality(DOMAIN completed) <= CompletedCap

(* At most one fragment of packet s has arrived, it is not the only one,   *)
(* and it is kept as long as others can come.                              *)
Waiting(s) ==
    \A i \in Nat : <<s, i>> \in arrived =>
        /\ Count(sent[s].len) = 2
        /\ \A j \in Nat : <<s, j>> \in arrived => i = j
        /\ Young(s) => IdOf(s) \in DOMAIN pending /\ BegunBy(IdOf(s), s, i)

Settled == \A s \in DOMAIN sent : Returns(s) \/ s \in excused \/ Waiting(s)

(* What push returned is what was sent. *)
Genuine == \A b \in out : \E s \in DOMAIN sent : b = [of |-> {s}, len |-> sent[s].len]

Calm == ~broken /\ Genuine /\ again \subseteq excused /\ Settled

IInv == /\ Sending /\ InFlight /\ Known /\ Began /\ Ended /\ Remembered /\ Room
        /\ Collision \/ Calm

-----------------------------------------------------------------------------
(* Basic facts: the constants, the tables' operators. *)
LEMMA Constants ==
    /\ ChunkSize \in Nat /\ MTU \in Nat /\ IdSpace \in Nat
    /\ PendingCap \in Nat /\ PendingCap > 0 /\ CompletedCap \in Nat /\ CompletedCap > 0
    /\ Lengths \subseteq 1 .. MTU /\ Expiry \in Nat /\ Life \in Nat /\ Life <= Expiry
    /\ MaxPackets \in Nat /\ MaxTime \in Nat
  BY FragmentsAssumption

LEMMA RestrictTable ==
  ASSUME NEW table, NEW S
  PROVE  DOMAIN Restrict(table, S) = S /\ \A i \in S : Restrict(table, S)[i] = table[i]
  BY DEF Restrict

LEMMA FreshTables ==
    /\ DOMAIN FreshPending = {k \in DOMAIN pending : now - pending[k].at <= Expiry}
    /\ \A k \in DOMAIN FreshPending : FreshPending[k] = pending[k]
    /\ DOMAIN FreshCompleted = {k \in DOMAIN completed : now - completed[k] <= Expiry}
    /\ \A k \in DOMAIN FreshCompleted : FreshCompleted[k] = completed[k]
  BY RestrictTable DEF FreshPending, FreshCompleted

LEMMA ElementAt ==
  ASSUME NEW S, NEW q \in Seq(S), NEW s \in DOMAIN q
  PROVE  q[s] \in S /\ s \in Nat /\ DOMAIN q = 1 .. Len(q)
<1>1. DOMAIN q = 1 .. Len(q) /\ Len(q) \in Nat
  OBVIOUS
<1> QED
  BY <1>1

(* A packet that was sent. *)
LEMMA OfSent ==
  ASSUME Sending, NEW s \in DOMAIN sent
  PROVE  /\ s \in Nat /\ sent[s].len \in 1 .. MTU /\ sent[s].born \in Nat
         /\ sent[s].born <= now /\ Count(sent[s].len) \in {1, 2} /\ now \in Nat
         /\ Indices(s) = IF Count(sent[s].len) = 1 THEN {0} ELSE {0, 1}
<1>1. sent[s].len \in 1 .. MTU /\ sent[s].born \in Nat /\ s \in Nat
  <2>1. sent[s] \in [len : Lengths, born : Nat] /\ s \in Nat
    BY ElementAt DEF Sending
  <2>2. sent[s].len \in Lengths /\ sent[s].born \in Nat
    BY <2>1
  <2> QED
    BY <2>1, <2>2, Constants
<1>2. Count(sent[s].len) \in {1, 2}
  BY <1>1, CountValue
<1>3. Indices(s) = IF Count(sent[s].len) = 1 THEN {0} ELSE {0, 1}
  <2>1. 0 .. 1 - 1 = {0} /\ 0 .. 2 - 1 = {0, 1}
    OBVIOUS
  <2> QED
    BY <1>2, <2>1 DEF Indices
<1> QED
  BY <1>1, <1>2, <1>3 DEF Sending

(* A fragment in the network is what splitPacket made of a young packet.   *)
LEMMA InNet ==
  ASSUME Sending, InFlight, NEW f \in net
  PROVE  /\ f.of \in DOMAIN sent /\ f = FragmentOf(f.of, f.idx) /\ f.id = IdOf(f.of)
         /\ f.count = Count(sent[f.of].len) /\ f.count \in {1, 2}
         /\ f.idx \in {0, 1} /\ f.idx < f.count
         /\ f.len = Slice(sent[f.of].len, f.idx)
         /\ f.born = sent[f.of].born /\ Young(f.of) /\ GoodDimensions(f)
<1>1. PICK s \in DOMAIN sent : \E i \in Indices(s) : f = FragmentOf(s, i) /\ Young(s)
  BY DEF InFlight
<1>2. PICK i \in Indices(s) : f = FragmentOf(s, i) /\ Young(s)
  BY <1>1
<1>3. /\ f.of = s /\ f.idx = i /\ f.id = IdOf(s) /\ f.count = Count(sent[s].len)
      /\ f.len = Slice(sent[s].len, i) /\ f.born = sent[s].born
  BY <1>2 DEF FragmentOf
<1>4. GoodDimensions(f)
  <2>1. GoodDimensions(Fragment(s, sent[s].len, i))
    BY <1>2, OfSent, SplitAccepted DEF Indices
  <2> QED
    BY <1>3, <2>1 DEF GoodDimensions, Fragment
<1> QED
  BY <1>2, <1>3, <1>4, OfSent

(* A packet's fragment in the network, and one that the assembler may      *)
(* still remember: with the same id they are of the same packet.           *)
LEMMA SamePacket ==
  ASSUME Sending, ~Collision, NEW s \in DOMAIN sent, NEW t \in DOMAIN sent,
         IdOf(s) = IdOf(t), Young(s), now <= sent[t].born + Life + Expiry
  PROVE  s = t
<1>1. /\ s \in Nat /\ t \in Nat /\ now \in Nat /\ Life \in Nat /\ Expiry \in Nat
      /\ sent[s].born \in Nat /\ sent[t].born \in Nat
      /\ sent[s].born <= now /\ sent[t].born <= now
  BY OfSent, Constants
<1>2. CASE s < t
  <2>1. sent[t].born - sent[s].born <= Life + Expiry
    BY <1>1 DEF Young
  <2> QED
    BY <1>2, <2>1 DEF Collision
<1>3. CASE t < s
  <2>1. sent[s].born - sent[t].born <= Life + Expiry
    BY <1>1
  <2> QED
    BY <1>3, <2>1 DEF Collision
<1> QED
  BY <1>1, <1>2, <1>3

(* The entry push finds under a fragment's id is of the fragment's packet. *)
LEMMA OwnEntry ==
  ASSUME Sending, InFlight, ~Collision, NEW f \in net, f.id \in DOMAIN FreshPending,
         NEW s \in DOMAIN sent, NEW i, BegunBy(f.id, s, i)
  PROVE  s = f.of
<1>1. PICK t \in Nat : pending[f.id].at = t /\ t <= sent[s].born + Life
  BY DEF BegunBy
<1>2. now - t <= Expiry
  BY <1>1, FreshTables
<1>3. now <= sent[s].born + Life + Expiry
  BY <1>1, <1>2, OfSent, Constants
<1>4. IdOf(f.of) = IdOf(s) /\ f.of \in DOMAIN sent /\ Young(f.of)
  BY InNet DEF BegunBy
<1> QED
  BY <1>3, <1>4, SamePacket

LEMMA OwnCompletion ==
  ASSUME Sending, InFlight, Ended, ~Collision, NEW f \in net, Finished(f)
  PROVE  Returns(f.of)
<1>1. f.id \in DOMAIN completed /\ now - completed[f.id] <= Expiry
  BY FreshTables DEF Finished
<1>2. PICK s \in DOMAIN sent : IdOf(s) = f.id /\ Returns(s) /\ completed[f.id] <= sent[s].born + Life
  BY <1>1 DEF Ended
<1>3. now <= sent[s].born + Life + Expiry
  BY <1>1, <1>2, OfSent, Constants DEF Ended
<1>4. f.of = s
  BY <1>2, <1>3, InNet, SamePacket
<1> QED
  BY <1>2, <1>4

-----------------------------------------------------------------------------
(* What an action that leaves packets and clock alone keeps.               *)
Steady == sent' = sent /\ now' = now /\ net' = net

LEMMA BegunKept ==
  ASSUME NEW k, NEW s, NEW i, BegunBy(k, s, i), Sending, Sending', s \in DOMAIN sent,
         sent'[s] = sent[s], now <= now', arrived \subseteq arrived', pending'[k] = pending[k]
  PROVE  BegunBy(k, s, i)'
<1>1. PICK t, q :
        /\ t \in Nat /\ pending[k] = [at |-> t, count |-> 2, parts |-> q]
        /\ DOMAIN q = {i} /\ q[i] = FragmentOf(s, i)
        /\ sent[s].born <= t /\ t <= now /\ t <= sent[s].born + Life
  BY DEF BegunBy
<1>2. FragmentOf(s, i)' = FragmentOf(s, i)
  BY DEF FragmentOf
<1>3. t <= now'
  BY <1>1 DEF Sending
<1> QED
  BY <1>1, <1>2, <1>3 DEF BegunBy

(* A young packet's entry is fresh. *)
LEMMA YoungIsFresh ==
  ASSUME Sending, NEW s \in DOMAIN sent, Young(s), NEW k \in DOMAIN pending, NEW i, BegunBy(k, s, i)
  PROVE  k \in DOMAIN FreshPending
<1>1. PICK t \in Nat : pending[k].at = t /\ sent[s].born <= t
  BY DEF BegunBy
<1>2. now - t <= Expiry
  BY <1>1, OfSent, Constants DEF Young
<1> QED
  BY <1>1, <1>2, FreshTables

LEMMA SteadySending ==
  ASSUME Sending, InFlight, Steady, broken' \in BOOLEAN PROVE Sending' /\ InFlight'
<1>1. Sending'
  BY DEF Sending, Steady
<1>2. InFlight'
  BY DEF InFlight, Steady, FragmentOf, Indices, Young
<1> QED
  BY <1>1, <1>2

(* The clean-up of pending, and possibly one new entry. *)
LEMMA BeganKept ==
  ASSUME Sending, Sending', Began, Steady, arrived \subseteq arrived',
         \A k \in DOMAIN pending' :
            \/ k \in DOMAIN FreshPending /\ pending'[k] = pending[k]
            \/ \E s \in DOMAIN sent, i \in {0, 1} : BegunBy(k, s, i)'
  PROVE  Began'
<1> SUFFICES ASSUME NEW k \in DOMAIN pending', k \in DOMAIN FreshPending, pending'[k] = pending[k]
             PROVE  \E s \in DOMAIN sent', i \in {0, 1} : BegunBy(k, s, i)'
  BY DEF Began, Steady
<1>1. PICK s \in DOMAIN sent, i \in {0, 1} : BegunBy(k, s, i)
  BY FreshTables DEF Began
<1>2. now <= now'
  BY DEF Sending, Steady
<1>3. BegunBy(k, s, i)'
  BY <1>1, <1>2, BegunKept DEF Steady
<1> QED
  BY <1>1, <1>3 DEF Steady

(* The clean-up of completed. *)
LEMMA EndedKept ==
  ASSUME Sending, Ended, Remembered, Steady, completed' = FreshCompleted,
         out' = out, excused \subseteq excused'
  PROVE  Ended' /\ Remembered'
<1>1. Ended'
  BY FreshTables DEF Ended, Steady, Returns
<1>2. ASSUME NEW s \in DOMAIN sent', Returns(s)'
      PROVE  \/ s \in excused' \/ ~Young(s)'
             \/ IdOf(s) \in DOMAIN completed' /\ sent'[s].born <= completed'[IdOf(s)]
  <2>1. s \in DOMAIN sent /\ Returns(s) /\ (Young(s)' <=> Young(s))
    BY <1>2 DEF Steady, Returns, Young
  <2>2. CASE Young(s) /\ IdOf(s) \in DOMAIN completed /\ sent[s].born <= completed[IdOf(s)]
    <3>1. now - completed[IdOf(s)] <= Expiry
      <4>1. completed[IdOf(s)] \in Nat
        BY <2>2 DEF Ended
      <4> QED
        BY <2>1, <2>2, <4>1, OfSent, Constants DEF Young
    <3> QED
      BY <2>2, <3>1, FreshTables DEF Steady
  <2> QED
    BY <2>1, <2>2 DEF Remembered
<1>3. Remembered'
  BY <1>2 DEF Remembered
<1> QED
  BY <1>1, <1>3

LEMMA FreshRoom ==
  ASSUME Room
  PROVE  /\ IsFiniteSet(DOMAIN FreshPending) /\ Cardinality(DOMAIN FreshPending) \in Nat
         /\ Cardinality(DOMAIN FreshPending) <= PendingCap
         /\ IsFiniteSet(DOMAIN FreshCompleted) /\ Cardinality(DOMAIN FreshCompleted) \in Nat
         /\ Cardinality(DOMAIN FreshCompleted) <= CompletedCap
<1>1. DOMAIN FreshPending \subseteq DOMAIN pending /\ DOMAIN FreshCompleted \subseteq DOMAIN completed
  BY FreshTables
<1>2. /\ Cardinality(DOMAIN FreshPending) <= Cardinality(DOMAIN pending)
      /\ IsFiniteSet(DOMAIN FreshPending)
      /\ Cardinality(DOMAIN FreshCompleted) <= Cardinality(DOMAIN completed)
      /\ IsFiniteSet(DOMAIN FreshCompleted)
  BY <1>1, FS_Subset DEF Room
<1>3. /\ Cardinality(DOMAIN FreshPending) \in Nat /\ Cardinality(DOMAIN pending) \in Nat
      /\ Cardinality(DOMAIN FreshCompleted) \in Nat /\ Cardinality(DOMAIN completed) \in Nat
  BY <1>2, FS_CardinalityType DEF Room
<1> QED
  BY <1>2, <1>3, Constants DEF Room

(* A packet goes on waiting if nothing of it arrives and its entry, if     *)
(* fresh, stays.                                                           *)
LEMMA WaitingKept ==
  ASSUME Sending, Sending', Steady, NEW s \in DOMAIN sent, Waiting(s), arrived \subseteq arrived',
         \A i \in Nat : <<s, i>> \in arrived' => <<s, i>> \in arrived,
         \A i \in Nat : IdOf(s) \in DOMAIN FreshPending /\ BegunBy(IdOf(s), s, i) =>
            IdOf(s) \in DOMAIN pending' /\ pending'[IdOf(s)] = pending[IdOf(s)]
  PROVE  Waiting(s)'
<1> SUFFICES ASSUME NEW i \in Nat, <<s, i>> \in arrived'
             PROVE  /\ Count(sent'[s].len) = 2
                    /\ \A j \in Nat : <<s, j>> \in arrived' => i = j
                    /\ Young(s)' => IdOf(s) \in DOMAIN pending' /\ BegunBy(IdOf(s), s, i)'
  BY DEF Waiting
<1>1. <<s, i>> \in arrived
  OBVIOUS
<1>2. Count(sent'[s].len) = 2 /\ \A j \in Nat : <<s, j>> \in arrived' => i = j
  BY <1>1 DEF Waiting, Steady
<1>3. ASSUME Young(s)' PROVE IdOf(s) \in DOMAIN pending' /\ BegunBy(IdOf(s), s, i)'
  <2>1. Young(s)
    BY <1>3 DEF Young, Steady
  <2>2. IdOf(s) \in DOMAIN pending /\ BegunBy(IdOf(s), s, i)
    BY <1>1, <2>1 DEF Waiting
  <2>3. IdOf(s) \in DOMAIN FreshPending
    BY <2>1, <2>2, YoungIsFresh
  <2>4. IdOf(s) \in DOMAIN pending' /\ pending'[IdOf(s)] = pending[IdOf(s)]
    BY <2>2, <2>3
  <2>5. now <= now' /\ sent'[s] = sent[s]
    BY DEF Sending, Steady
  <2> QED
    BY <2>2, <2>4, <2>5, BegunKept
<1> QED
  BY <1>2, <1>3

-----------------------------------------------------------------------------
(* Send and Tick. *)
LEMMA CollisionStays ==
  ASSUME Sending, Collision, \A s \in DOMAIN sent : s \in DOMAIN sent' /\ sent'[s] = sent[s]
  PROVE  Collision'
  BY DEF Collision

LEMMA SendIInv == ASSUME IInv, NEW n \in Lengths, Send(n) PROVE IInv'
<1> USE DEF IInv
<1> DEFINE serial == Len(sent) + 1
           p == [len |-> n, born |-> now]
<1>1. /\ sent' = Append(sent, p) /\ p \in [len : Lengths, born : Nat] /\ serial \in Nat
      /\ serial <= MaxPackets
      /\ net' = net \cup {Fragment(serial, n, i) : i \in 0 .. Count(n) - 1}
      /\ UNCHANGED <<now, pending, completed, broken, out, again, arrived, excused>>
  BY DEF Send, Sending
<1>2. /\ sent' \in Seq([len : Lengths, born : Nat]) /\ Len(sent') = serial
      /\ DOMAIN sent = 1 .. Len(sent) /\ DOMAIN sent' = 1 .. serial /\ Len(sent) \in Nat
      /\ \A s \in DOMAIN sent : sent'[s] = sent[s]
      /\ sent'[serial] = p
  BY <1>1 DEF Sending
<1>3. DOMAIN sent' = DOMAIN sent \cup {serial} /\ serial \notin DOMAIN sent
  BY <1>2
<1> HIDE DEF serial, p
<1>4. p.len = n /\ p.born = now
  BY DEF p
<1>5. Sending'
  BY <1>1, <1>2, <1>3, <1>4 DEF Sending
<1>0. now <= now' /\ arrived \subseteq arrived'
  BY <1>1 DEF Sending
<1>6. \A s \in DOMAIN sent : \A i : FragmentOf(s, i)' = FragmentOf(s, i) /\ Indices(s)' = Indices(s)
                                    /\ (Young(s)' <=> Young(s))
  BY <1>1, <1>2 DEF FragmentOf, Indices, Young
<1>7. InFlight'
  <2> SUFFICES ASSUME NEW f \in net'
               PROVE  \E s \in DOMAIN sent' : \E i \in Indices(s)' : f = FragmentOf(s, i)' /\ Young(s)'
    BY DEF InFlight
  <2>1. CASE f \in net
    BY <1>3, <1>6, <2>1 DEF InFlight
  <2>2. CASE f \notin net
    <3>1. PICK i \in 0 .. Count(n) - 1 : f = Fragment(serial, n, i)
      BY <1>1, <2>2
    <3>2. now' <= sent'[serial].born + Life
      BY <1>1, <1>2, <1>4, Constants DEF Sending
    <3>3. \A s \in {serial} : i \in Indices(s)' /\ f = FragmentOf(s, i)' /\ Young(s)'
      BY <1>2, <1>4, <3>1, <3>2 DEF Indices, FragmentOf, Fragment, Young
    <3> QED
      BY <1>3, <3>3
  <2> QED
    BY <2>1, <2>2
<1>8. Began'
  <2> SUFFICES ASSUME NEW k \in DOMAIN pending
               PROVE  \E s \in DOMAIN sent', i \in {0, 1} : BegunBy(k, s, i)'
    BY <1>1 DEF Began
  <2>1. PICK s \in DOMAIN sent, i \in {0, 1} : BegunBy(k, s, i)
    BY DEF Began
  <2>2. BegunBy(k, s, i)'
    BY <1>0, <1>1, <1>2, <1>5, <2>1, BegunKept
  <2> QED
    BY <1>3, <2>1, <2>2
<1>9. \A s : Returns(s)' <=> Returns(s)
  BY <1>1 DEF Returns
<1>10. Ended'
  BY <1>1, <1>2, <1>3, <1>9 DEF Ended
<1>11. Room'
  BY <1>1 DEF Room
<1>12. Known' /\ ~Returns(serial) /\ \A i \in Nat : <<serial, i>> \notin arrived'
  <2>1. \A i \in Nat : <<serial, i>> \in arrived => <<serial, i>>[1] \in DOMAIN sent
    BY DEF Known
  <2> QED
    BY <1>1, <1>3, <2>1 DEF Known, Returns
<1>13. Remembered'
  <2> SUFFICES ASSUME NEW s \in DOMAIN sent', Returns(s)
               PROVE  \/ s \in excused \/ ~Young(s)'
                      \/ IdOf(s) \in DOMAIN completed /\ sent'[s].born <= completed[IdOf(s)]
    BY <1>1, <1>9 DEF Remembered
  <2>1. s \in DOMAIN sent
    BY <1>3, <1>12
  <2> QED
    BY <1>2, <1>6, <2>1 DEF Remembered
<1>14. CASE Collision
  BY <1>2, <1>3, <1>5, <1>7, <1>8, <1>10, <1>11, <1>12, <1>13, <1>14, CollisionStays
<1>15. CASE Calm
  <2>1. ~broken' /\ again' \subseteq excused' /\ Genuine'
    BY <1>1, <1>2, <1>3, <1>15 DEF Calm, Genuine
  <2>2. ASSUME NEW s \in DOMAIN sent, Waiting(s) PROVE Waiting(s)'
    <3> SUFFICES ASSUME NEW i \in Nat, <<s, i>> \in arrived, Young(s)
                 PROVE  IdOf(s) \in DOMAIN pending' /\ BegunBy(IdOf(s), s, i)'
      BY <1>1, <1>2, <1>6, <2>2 DEF Waiting
    <3>1. IdOf(s) \in DOMAIN pending /\ BegunBy(IdOf(s), s, i)
      BY <2>2 DEF Waiting
    <3> QED
      BY <1>0, <1>1, <1>2, <1>5, <3>1, BegunKept
  <2>3. \A s \in {serial} : Waiting(s)'
    BY <1>12 DEF Waiting
  <2>4. Settled'
    BY <1>1, <1>3, <1>9, <1>15, <2>2, <2>3 DEF Settled, Calm
  <2> QED
    BY <1>5, <1>7, <1>8, <1>10, <1>11, <1>12, <1>13, <2>1, <2>4 DEF Calm
<1> QED
  BY <1>14, <1>15

LEMMA TickIInv == ASSUME IInv, Tick PROVE IInv'
<1> USE DEF IInv
<1>1. /\ now' = now + 1 /\ now < MaxTime /\ net' = {f \in net : now' - f.born <= Life}
      /\ UNCHANGED <<sent, pending, completed, broken, out, again, arrived, excused>>
  BY DEF Tick
<1>2. now \in Nat /\ now' \in Nat /\ now <= now' /\ now' <= MaxTime
  BY <1>1, Constants DEF Sending
<1>3. Sending'
  <2>1. \A s \in DOMAIN sent : sent[s].born <= now'
    BY <1>1, <1>2, OfSent
  <2> QED
    BY <1>1, <1>2, <2>1 DEF Sending
<1>4. \A s \in DOMAIN sent : Young(s)' => Young(s)
  BY <1>1, <1>2, OfSent, Constants DEF Young
<1>5. \A s : (Returns(s)' <=> Returns(s)) /\ \A i : FragmentOf(s, i)' = FragmentOf(s, i)
                                                    /\ Indices(s)' = Indices(s)
  BY <1>1 DEF Returns, FragmentOf, Indices
<1>6. InFlight'
  <2> SUFFICES ASSUME NEW f \in net'
               PROVE  \E s \in DOMAIN sent' : \E i \in Indices(s)' : f = FragmentOf(s, i)' /\ Young(s)'
    BY DEF InFlight
  <2>1. PICK s \in DOMAIN sent : \E i \in Indices(s) : f = FragmentOf(s, i)
    BY <1>1 DEF InFlight
  <2>2. f.born = sent[s].born
    BY <2>1 DEF FragmentOf
  <2>3. Young(s)'
    BY <1>1, <1>2, <2>2, OfSent, Constants DEF Young
  <2> QED
    BY <1>1, <1>5, <2>1, <2>3
<1>7. Began'
  <2> SUFFICES ASSUME NEW k \in DOMAIN pending
               PROVE  \E s \in DOMAIN sent', i \in {0, 1} : BegunBy(k, s, i)'
    BY <1>1 DEF Began
  <2>1. PICK s \in DOMAIN sent, i \in {0, 1} : BegunBy(k, s, i)
    BY DEF Began
  <2>2. BegunBy(k, s, i)'
    BY <1>1, <1>2, <1>3, <2>1, BegunKept
  <2> QED
    BY <1>1, <2>1, <2>2
<1>8. Ended'
  BY <1>1, <1>2, <1>5 DEF Ended
<1>9. Remembered' /\ Known' /\ Room'
  BY <1>1, <1>4, <1>5 DEF Remembered, Known, Room
<1>10. CASE Collision
  BY <1>1, <1>3, <1>6, <1>7, <1>8, <1>9, <1>10, CollisionStays
<1>11. CASE Calm
  <2>1. ~broken' /\ again' \subseteq excused' /\ Genuine'
    BY <1>1, <1>11 DEF Calm, Genuine
  <2>2. ASSUME NEW s \in DOMAIN sent, Waiting(s) PROVE Waiting(s)'
    <3> SUFFICES ASSUME NEW i \in Nat, <<s, i>> \in arrived, Young(s)
                 PROVE  IdOf(s) \in DOMAIN pending' /\ BegunBy(IdOf(s), s, i)'
      BY <1>1, <1>4, <2>2 DEF Waiting
    <3>1. IdOf(s) \in DOMAIN pending /\ BegunBy(IdOf(s), s, i)
      BY <2>2 DEF Waiting
    <3> QED
      BY <1>1, <1>2, <1>3, <3>1, BegunKept
  <2>3. Settled'
    BY <1>1, <1>5, <1>11, <2>2 DEF Settled, Calm
  <2> QED
    BY <1>3, <1>6, <1>7, <1>8, <1>9, <2>1, <2>3 DEF Calm
<1> QED
  BY <1>10, <1>11

-----------------------------------------------------------------------------
(* push: what all its ways out have in common. *)
LEMMA PushCommon ==
  ASSUME IInv, NEW f \in net, Push(f), broken' \in BOOLEAN
  PROVE  /\ Steady /\ Sending' /\ InFlight'
         /\ arrived \subseteq arrived' /\ <<f.of, f.idx>> \in arrived' /\ f.idx \in Nat
         /\ \A s \in DOMAIN sent, i \in Nat :
              <<s, i>> \in arrived' => <<s, i>> \in arrived \/ (s = f.of /\ i = f.idx)
         /\ \A a \in arrived' : a[1] \in DOMAIN sent'
<1>1. Steady /\ arrived' = arrived \cup {<<f.of, f.idx>>}
  BY DEF Push, Steady
<1>2. Sending' /\ InFlight'
  BY <1>1, SteadySending DEF IInv
<1>3. f.of \in DOMAIN sent /\ f.idx \in Nat
  BY InNet DEF IInv
<1>4. <<f.of, f.idx>>[1] = f.of
  OBVIOUS
<1>5. \A a \in arrived' : a[1] \in DOMAIN sent'
  BY <1>1, <1>3, <1>4 DEF IInv, Known, Steady
<1> QED
  BY <1>1, <1>2, <1>3, <1>5

(* Three ways out only clean the tables up. *)
LEMMA TidyIInv ==
  ASSUME IInv, NEW f \in net, Push(f), Tidy, broken' \in BOOLEAN,
         out' = out, again' = again, excused \subseteq excused',
         Collision \/ (~broken' /\ (Returns(f.of) \/ f.of \in excused' \/ arrived' = arrived))
  PROVE  IInv'
<1> USE DEF IInv
<1>1. /\ Steady /\ Sending' /\ InFlight' /\ arrived \subseteq arrived' /\ f.idx \in Nat
      /\ \A s \in DOMAIN sent, i \in Nat :
            <<s, i>> \in arrived' => <<s, i>> \in arrived \/ (s = f.of /\ i = f.idx)
      /\ \A a \in arrived' : a[1] \in DOMAIN sent'
  BY PushCommon
<1>2. pending' = FreshPending /\ completed' = FreshCompleted
  BY DEF Tidy
<1>3. Known'
  BY <1>1 DEF Known, Steady
<1>4. Began'
  BY <1>1, <1>2, FreshTables, BeganKept
<1>5. Ended' /\ Remembered'
  BY <1>1, <1>2, EndedKept
<1>6. Room'
  BY <1>2, FreshRoom DEF Room
<1>7. CASE Collision
  BY <1>1, <1>3, <1>4, <1>5, <1>6, <1>7, CollisionStays DEF Steady
<1>8. CASE ~Collision
  <2>1. Calm
    BY <1>8
  <2>2. ~broken' /\ again' \subseteq excused' /\ Genuine'
    BY <1>1, <1>8, <2>1 DEF Calm, Genuine, Steady
  <2>3. ASSUME NEW s \in DOMAIN sent, Waiting(s)
        PROVE  Returns(s) \/ s \in excused' \/ Waiting(s)'
    <3>1. CASE s = f.of /\ arrived' # arrived
      BY <1>8, <3>1
    <3>2. CASE s # f.of \/ arrived' = arrived
      <4>1. \A i \in Nat : <<s, i>> \in arrived' => <<s, i>> \in arrived
        BY <1>1, <3>2
      <4>2. \A i \in Nat : IdOf(s) \in DOMAIN FreshPending /\ BegunBy(IdOf(s), s, i) =>
              IdOf(s) \in DOMAIN pending' /\ pending'[IdOf(s)] = pending[IdOf(s)]
        BY <1>2, FreshTables
      <4>3. Waiting(s)'
        BY <1>1, <2>3, <4>1, <4>2, WaitingKept
      <4> QED
        BY <4>3
    <3> QED
      BY <3>1, <3>2
  <2>4. Settled'
    <3> SUFFICES ASSUME NEW s \in DOMAIN sent
                 PROVE  Returns(s)' \/ s \in excused' \/ Waiting(s)'
      BY <1>1 DEF Settled, Steady
    <3>1. Returns(s) \/ s \in excused \/ Waiting(s)
      BY <2>1 DEF Calm, Settled
    <3>2. Returns(s) => Returns(s)'
      BY DEF Returns
    <3> QED
      BY <2>3, <3>1, <3>2
  <2> QED
    BY <1>1, <1>3, <1>4, <1>5, <1>6, <2>2, <2>4 DEF Calm
<1> QED
  BY <1>7, <1>8

(* What push finds for a fragment. *)
LEMMA NewEntry ==
  ASSUME NEW f \in net, f.id \notin DOMAIN FreshPending
  PROVE  /\ Entry(f) = [at |-> now, count |-> f.count, parts |-> <<>>]
         /\ Entry(f).count = f.count /\ DOMAIN Entry(f).parts = {}
<1>1. Entry(f) = [at |-> now, count |-> f.count, parts |-> <<>>]
  BY DEF Entry
<1>2. DOMAIN <<>> = {}
  OBVIOUS
<1> QED
  BY <1>1, <1>2

LEMMA OldEntry ==
  ASSUME IInv, NEW f \in net, f.id \in DOMAIN FreshPending
  PROVE  /\ f.id \in DOMAIN pending /\ Entry(f) = pending[f.id]
         /\ \E s \in DOMAIN sent, i \in {0, 1} :
               BegunBy(f.id, s, i) /\ (~Collision => s = f.of)
<1>1. f.id \in DOMAIN pending /\ Entry(f) = pending[f.id]
  BY FreshTables DEF Entry
<1>2. PICK s \in DOMAIN sent, i \in {0, 1} : BegunBy(f.id, s, i)
  BY <1>1 DEF IInv, Began
<1>3. ~Collision => s = f.of
  BY <1>2, OwnEntry DEF IInv
<1> QED
  BY <1>1, <1>2, <1>3

LEMMA RejectIInv == ASSUME IInv, NEW f \in net, Reject(f) PROVE IInv'
<1>1. Push(f) /\ broken' = TRUE /\ out' = out /\ again' = again /\ excused' = excused
      /\ Usable(f) /\ Entry(f).count # f.count /\ Tidy
  BY InNet DEF Reject, IInv
<1>2. ASSUME ~Collision PROVE FALSE
  <2>0. f.id \in DOMAIN FreshPending
    BY <1>1, NewEntry
  <2>1. PICK s \in DOMAIN sent, i \in {0, 1} :
          BegunBy(f.id, s, i) /\ s = f.of /\ Entry(f) = pending[f.id]
    BY <1>2, <2>0, OldEntry
  <2>2. Entry(f).count = 2 /\ Count(sent[f.of].len) = 2
    BY <2>1 DEF BegunBy
  <2> QED
    BY <1>1, <2>2, InNet DEF IInv
<1> QED
  BY <1>1, <1>2, TidyIInv

LEMMA IgnoreIInv == ASSUME IInv, NEW f \in net, Ignore(f) PROVE IInv'
<1>1. Push(f) /\ broken' = broken /\ out' = out /\ again' = again /\ excused' = excused /\ Tidy
      /\ (Finished(f) \/ (f.idx \in DOMAIN Entry(f).parts /\ Entry(f).count = f.count))
      /\ broken' \in BOOLEAN
  BY DEF Ignore, IInv, Sending
<1>2. ASSUME ~Collision PROVE ~broken' /\ (Returns(f.of) \/ arrived' = arrived)
  <2>1. ~broken'
    BY <1>1, <1>2 DEF IInv, Calm
  <2>2. CASE Finished(f)
    BY <1>2, <2>1, <2>2, OwnCompletion DEF IInv
  <2>3. CASE f.idx \in DOMAIN Entry(f).parts
    <3>1. f.id \in DOMAIN FreshPending
      BY <2>3, NewEntry
    <3>2. PICK s \in DOMAIN sent, i \in {0, 1} :
            BegunBy(f.id, s, i) /\ s = f.of /\ Entry(f) = pending[f.id]
      BY <1>2, <3>1, OldEntry
    <3>3. DOMAIN Entry(f).parts = {i} /\ <<f.of, i>> \in arrived
      BY <3>2 DEF BegunBy
    <3>4. <<f.of, f.idx>> \in arrived
      BY <2>3, <3>3
    <3> QED
      BY <1>1, <2>1, <3>4 DEF Push
  <2> QED
    BY <1>1, <2>2, <2>3
<1> QED
  BY <1>1, <1>2, TidyIInv

LEMMA RefuseIInv == ASSUME IInv, NEW f \in net, Refuse(f) PROVE IInv'
<1>1. Push(f) /\ broken' = broken /\ out' = out /\ again' = again
      /\ excused' = excused \cup {f.of} /\ Tidy /\ broken' \in BOOLEAN
  BY DEF Refuse, IInv, Sending
<1>2. Collision \/ ~broken'
  BY <1>1 DEF IInv, Calm
<1> QED
  BY <1>1, <1>2, TidyIInv

-----------------------------------------------------------------------------
(* The entry with the fragment's part: the first of two, or the last.      *)
LEMMA WithOf ==
  ASSUME IInv, NEW f \in net, NewPart(f)
  PROVE  /\ f.id \notin DOMAIN FreshPending =>
              \E q : /\ With(f) = [at |-> now, count |-> f.count, parts |-> q]
                     /\ DOMAIN q = {f.idx} /\ q[f.idx] = f
         /\ f.id \in DOMAIN FreshPending =>
              /\ f.count = 2
              /\ DOMAIN With(f).parts = {0, 1} /\ With(f).parts[f.idx] = f
              /\ \E s \in DOMAIN sent, i \in {0, 1} :
                    /\ BegunBy(f.id, s, i) /\ i # f.idx /\ (~Collision => s = f.of)
                    /\ With(f).parts[i] = FragmentOf(s, i)
<1>1. CASE f.id \notin DOMAIN FreshPending
  <2> DEFINE q == Put(<<>>, f.idx, f)
  <2>1. Entry(f) = [at |-> now, count |-> f.count, parts |-> <<>>]
    BY <1>1, NewEntry
  <2>2. With(f) = [at |-> now, count |-> f.count, parts |-> q]
    BY <2>1 DEF With
  <2>3. DOMAIN q = {f.idx} /\ q[f.idx] = f
    <3>1. DOMAIN <<>> = {}
      OBVIOUS
    <3> QED
      BY <3>1 DEF Put
  <2> QED
    BY <1>1, <2>2, <2>3
<1>2. CASE f.id \in DOMAIN FreshPending
  <2>1. PICK s \in DOMAIN sent, i \in {0, 1} :
          BegunBy(f.id, s, i) /\ (~Collision => s = f.of) /\ Entry(f) = pending[f.id]
    BY <1>2, OldEntry
  <2>2. PICK t, q : /\ Entry(f) = [at |-> t, count |-> 2, parts |-> q]
                            /\ DOMAIN q = {i} /\ q[i] = FragmentOf(s, i)
    BY <2>1 DEF BegunBy
  <2>3. f.count = 2 /\ f.idx \in {0, 1} /\ f.idx # i
    BY <2>1, <2>2, InNet DEF NewPart, IInv
  <2>4. With(f).parts = Put(q, f.idx, f)
    BY <2>2 DEF With
  <2>5. /\ DOMAIN With(f).parts = {0, 1} /\ With(f).parts[f.idx] = f
        /\ With(f).parts[i] = FragmentOf(s, i)
    BY <2>2, <2>3, <2>4 DEF Put
  <2> QED
    BY <1>2, <2>1, <2>3, <2>5
<1> QED
  BY <1>1, <1>2

LEMMA KeepIInv == ASSUME IInv, NEW f \in net, Keep(f) PROVE IInv'
<1> USE DEF IInv
<1>1. /\ Push(f) /\ NewPart(f) /\ DOMAIN With(f).parts # 0 .. f.count - 1
      /\ pending' = Put(FreshPending, f.id, With(f)) /\ completed' = FreshCompleted
      /\ broken' = broken /\ out' = out /\ again' = again /\ excused' = excused
  BY DEF Keep
<1>2. broken' \in BOOLEAN
  BY <1>1 DEF Sending
<1>3. /\ Steady /\ Sending' /\ InFlight' /\ arrived \subseteq arrived' /\ f.idx \in Nat
      /\ <<f.of, f.idx>> \in arrived'
      /\ \A s \in DOMAIN sent, i \in Nat :
            <<s, i>> \in arrived' => <<s, i>> \in arrived \/ (s = f.of /\ i = f.idx)
      /\ \A a \in arrived' : a[1] \in DOMAIN sent'
  BY <1>1, <1>2, PushCommon
<1>4. /\ f.of \in DOMAIN sent /\ f.id = IdOf(f.of) /\ f.idx \in {0, 1} /\ f.idx < f.count
      /\ f.count \in {1, 2} /\ f.count = Count(sent[f.of].len) /\ f = FragmentOf(f.of, f.idx)
      /\ Young(f.of)
  BY InNet
<1>5. 0 .. 1 - 1 = {0} /\ 0 .. 2 - 1 = {0, 1}
  OBVIOUS
<1>6. f.id \notin DOMAIN FreshPending
  BY <1>1, <1>5, WithOf
<1>7. PICK q : /\ With(f) = [at |-> now, count |-> f.count, parts |-> q]
               /\ DOMAIN q = {f.idx} /\ q[f.idx] = f
  BY <1>1, <1>6, WithOf
<1>8. f.count = 2
  BY <1>1, <1>4, <1>5, <1>7
<1>9. /\ DOMAIN pending' = DOMAIN FreshPending \cup {f.id} /\ pending'[f.id] = With(f)
      /\ \A k \in DOMAIN FreshPending : pending'[k] = pending[k]
  BY <1>1, <1>6, FreshTables DEF Put
<1>10. \A s \in {f.of} : \A i \in {f.idx} : BegunBy(f.id, s, i)'
  <2>1. now' = now /\ sent' = sent /\ now \in Nat
    BY <1>3, OfSent, <1>4 DEF Steady
  <2>2. \A s \in {f.of}, i \in {f.idx} : FragmentOf(s, i)' = f
    BY <1>4, <2>1 DEF FragmentOf
  <2>3. sent[f.of].born <= now /\ now <= sent[f.of].born + Life
    BY <1>4, OfSent DEF Young
  <2>4. pending'[f.id] = [at |-> now, count |-> 2, parts |-> q]
    BY <1>7, <1>8, <1>9
  <2> SUFFICES ASSUME NEW s, s = f.of, NEW i, i = f.idx PROVE BegunBy(f.id, s, i)'
    OBVIOUS
  <2>5. IdOf(s) = f.id /\ Count(sent'[s].len) = 2 /\ i \in {0, 1} /\ <<s, i>> \in arrived'
    BY <1>3, <1>4, <1>8, <2>1
  <2>6. q[i] = FragmentOf(s, i)' /\ DOMAIN q = {i}
    BY <1>7, <2>2
  <2>7. sent'[s].born <= now /\ now <= now' /\ now <= sent'[s].born + Life
    BY <2>1, <2>3
  <2> QED
    BY <2>1, <2>4, <2>5, <2>6, <2>7 DEF BegunBy
<1>11. Began'
  BY <1>3, <1>4, <1>9, <1>10, BeganKept
<1>12. Ended' /\ Remembered' /\ Known'
  BY <1>1, <1>3, EndedKept DEF Known, Steady
<1>13. Room'
  <2>1. Cardinality(DOMAIN FreshPending) < PendingCap
    BY <1>1, <1>6, FreshRoom, Constants DEF NewPart, Usable, NoRoom
  <2>2. /\ IsFiniteSet(DOMAIN pending')
        /\ Cardinality(DOMAIN pending') = Cardinality(DOMAIN FreshPending) + 1
    BY <1>6, <1>9, FreshRoom, FS_AddElement
  <2>3. Cardinality(DOMAIN pending') <= PendingCap
    BY <2>1, <2>2, FreshRoom, Constants
  <2> QED
    BY <1>1, <2>2, <2>3, FreshRoom DEF Room
<1>14. CASE Collision
  BY <1>3, <1>11, <1>12, <1>13, <1>14, CollisionStays DEF Steady
<1>15. CASE ~Collision
  <2>1. Calm
    BY <1>15
  <2>2. ~broken' /\ again' \subseteq excused' /\ Genuine'
    BY <1>1, <1>3, <2>1 DEF Calm, Genuine, Steady
  <2>3. ASSUME NEW s \in DOMAIN sent, Waiting(s), s # f.of PROVE Waiting(s)'
    <3>1. \A i \in Nat : <<s, i>> \in arrived' => <<s, i>> \in arrived
      BY <1>3, <2>3
    <3>2. \A i \in Nat : IdOf(s) \in DOMAIN FreshPending /\ BegunBy(IdOf(s), s, i) =>
            IdOf(s) \in DOMAIN pending' /\ pending'[IdOf(s)] = pending[IdOf(s)]
      BY <1>9
    <3> QED
      BY <1>3, <2>3, <3>1, <3>2, WaitingKept
  <2>4. ASSUME NEW s \in DOMAIN sent, Waiting(s), s = f.of PROVE Waiting(s)'
    <3>1. ASSUME NEW i \in Nat, <<s, i>> \in arrived PROVE FALSE
      <4>1. IdOf(s) \in DOMAIN pending /\ BegunBy(IdOf(s), s, i)
        BY <1>4, <2>4, <3>1 DEF Waiting
      <4>2. f.id \in DOMAIN FreshPending
        BY <1>4, <2>4, <4>1, YoungIsFresh
      <4> QED
        BY <1>6, <4>2
    <3>2. \A i \in Nat : <<s, i>> \in arrived' => i = f.idx
      BY <1>3, <3>1
    <3>3. BegunBy(IdOf(s), s, f.idx)' /\ IdOf(s) \in DOMAIN pending'
      BY <1>4, <1>9, <1>10, <2>4
    <3>4. Count(sent'[s].len) = 2
      BY <1>3, <1>4, <1>8, <2>4 DEF Steady
    <3> QED
      BY <3>2, <3>3, <3>4 DEF Waiting
  <2>5. Settled'
    <3> SUFFICES ASSUME NEW s \in DOMAIN sent
                 PROVE  Returns(s)' \/ s \in excused' \/ Waiting(s)'
      BY <1>3 DEF Settled, Steady
    <3>1. Returns(s) \/ s \in excused \/ Waiting(s)
      BY <2>1 DEF Calm, Settled
    <3>2. Returns(s) => Returns(s)'
      BY <1>1 DEF Returns
    <3> QED
      BY <1>1, <2>3, <2>4, <3>1, <3>2
  <2> QED
    BY <1>3, <1>11, <1>12, <1>13, <2>2, <2>5 DEF Calm
<1> QED
  BY <1>14, <1>15

-----------------------------------------------------------------------------
(* What the parts of a packet add up to: the sum is a fold, which for two  *)
(* parts can be unfolded by hand.                                          *)
AnyOf(S) == CHOOSE x \in S : TRUE

LEMMA JoinedOne ==
  ASSUME NEW p, DOMAIN p = {0}, p[0].len \in Nat
  PROVE  Joined(p) = [of |-> {p[0].of}, len |-> p[0].len]
<1> DEFINE Fold(iter) == [s \in SUBSET DOMAIN p |->
             IF s = {} THEN 0
             ELSE p[AnyOf(s)].len + iter[s \ {AnyOf(s)}]]
           sum == CHOOSE iter : iter = Fold(iter)
           g == [s \in SUBSET DOMAIN p |-> IF s = {} THEN 0 ELSE p[0].len]
<1>1. MapThenSumSet(LAMBDA i : p[i].len, DOMAIN p) = sum[DOMAIN p]
  BY DEF MapThenSumSet, MapThenFoldSet, AnyOf
<1>2. AnyOf({0}) = 0 /\ {0} \ {0} = {} /\ \A s \in SUBSET {0} : s = {} \/ s = {0}
  BY DEF AnyOf
<1>3. g = Fold(g)
  <2>1. \A s \in SUBSET {0} : s = {} \/ s = {0}
    OBVIOUS
  <2>2. g[{}] = 0 /\ g[{0}] = p[0].len
    OBVIOUS
  <2>3. g = [s \in SUBSET {0} |-> g[s]]
    OBVIOUS
  <2>4. \A s \in SUBSET {0} :
          g[s] = IF s = {} THEN 0
                 ELSE p[AnyOf(s)].len + g[s \ {AnyOf(s)}]
    <3> SUFFICES ASSUME NEW s, s = {0}
                 PROVE  g[s] = IF s = {} THEN 0 ELSE p[AnyOf(s)].len + g[s \ {AnyOf(s)}]
      <4> HIDE DEF g
      <4> QED
        BY <2>1, <2>2
    <3>1. AnyOf(s) = 0 /\ s \ {0} = {} /\ s # {}
      BY <1>2
    <3> HIDE DEF g
    <3>2. g[s] = p[0].len /\ g[s \ {AnyOf(s)}] = 0
      BY <2>2, <3>1
    <3> QED
      BY <3>1, <3>2
  <2> HIDE DEF g
  <2> QED
    BY <2>3, <2>4
<1>4. sum = Fold(sum)
  <2> HIDE DEF Fold, g
  <2> QED
    BY <1>3
<1>5. sum[DOMAIN p] = p[0].len
  <2> HIDE DEF sum
  <2>1. sum[{}] = 0
    BY <1>4
  <2>2. sum[{0}] = p[0].len + sum[{0} \ {0}]
    <3>1. {0} \in SUBSET DOMAIN p /\ {0} # {} /\ AnyOf({0}) = 0
      BY <1>2
    <3> HIDE DEF g
    <3>2. sum[{0}] = p[AnyOf({0})].len + sum[{0} \ {AnyOf({0})}]
      BY <1>4, <3>1
    <3> QED
      BY <3>1, <3>2
  <2> QED
    BY <1>2, <2>1, <2>2
<1>6. {p[i].of : i \in DOMAIN p} = {p[0].of}
  OBVIOUS
<1> HIDE DEF sum
<1> QED
  BY <1>1, <1>5, <1>6 DEF Joined

LEMMA JoinedTwo ==
  ASSUME NEW p, DOMAIN p = {0, 1}, p[0].len \in Nat, p[1].len \in Nat
  PROVE  Joined(p) = [of |-> {p[0].of, p[1].of}, len |-> p[0].len + p[1].len]
<1> DEFINE Fold(iter) == [s \in SUBSET DOMAIN p |->
             IF s = {} THEN 0
             ELSE p[AnyOf(s)].len + iter[s \ {AnyOf(s)}]]
           sum == CHOOSE iter : iter = Fold(iter)
           g == [s \in SUBSET DOMAIN p |->
                   IF s = {} THEN 0
                   ELSE IF s = {0} THEN p[0].len
                   ELSE IF s = {1} THEN p[1].len
                   ELSE p[0].len + p[1].len]
<1>1. MapThenSumSet(LAMBDA i : p[i].len, DOMAIN p) = sum[DOMAIN p]
  BY DEF MapThenSumSet, MapThenFoldSet, AnyOf
<1>2. /\ AnyOf({0}) = 0 /\ AnyOf({1}) = 1
      /\ AnyOf({0, 1}) \in {0, 1}
      /\ {0} \ {0} = {} /\ {1} \ {1} = {} /\ {0, 1} \ {0} = {1} /\ {0, 1} \ {1} = {0}
      /\ {0} # {1} /\ {0} # {} /\ {1} # {} /\ {0, 1} # {} /\ {0, 1} # {0} /\ {0, 1} # {1}
  BY DEF AnyOf
<1>3. \A s \in SUBSET {0, 1} : s = {} \/ s = {0} \/ s = {1} \/ s = {0, 1}
  OBVIOUS
<1>4. g = Fold(g)
  <2> SUFFICES ASSUME NEW s \in SUBSET {0, 1}
               PROVE  g[s] = IF s = {} THEN 0
                             ELSE p[AnyOf(s)].len + g[s \ {AnyOf(s)}]
    OBVIOUS
  <2>1. g[{}] = 0 /\ g[{0}] = p[0].len /\ g[{1}] = p[1].len /\ g[{0, 1}] = p[0].len + p[1].len
    BY <1>2
  <2> HIDE DEF g
  <2>2. CASE s = {}
    BY <2>1, <2>2
  <2>3. CASE s = {0}
    <3>1. AnyOf(s) = 0 /\ s \ {0} = {} /\ s # {}
      BY <1>2, <2>3
    <3>2. g[s] = p[0].len /\ g[s \ {AnyOf(s)}] = 0
      BY <2>1, <2>3, <3>1
    <3>3. p[0].len + 0 = p[0].len
      OBVIOUS
    <3>4. p[AnyOf(s)].len + g[s \ {AnyOf(s)}] = g[s]
      BY <3>1, <3>2, <3>3
    <3> QED
      BY <3>1, <3>4
  <2>4. CASE s = {1}
    <3>1. AnyOf(s) = 1 /\ s \ {1} = {} /\ s # {}
      BY <1>2, <2>4
    <3>2. g[s] = p[1].len /\ g[s \ {AnyOf(s)}] = 0
      BY <2>1, <2>4, <3>1
    <3>3. p[1].len + 0 = p[1].len
      OBVIOUS
    <3>4. p[AnyOf(s)].len + g[s \ {AnyOf(s)}] = g[s]
      BY <3>1, <3>2, <3>3
    <3> QED
      BY <3>1, <3>4
  <2>5. CASE s = {0, 1}
    <3>1. CASE AnyOf({0, 1}) = 0
      BY <1>2, <2>1, <2>5, <3>1
    <3>2. CASE AnyOf({0, 1}) = 1
      BY <1>2, <2>1, <2>5, <3>2
    <3> QED
      BY <1>2, <3>1, <3>2
  <2> QED
    BY <1>3, <2>2, <2>3, <2>4, <2>5
<1>5. sum = Fold(sum)
  <2> HIDE DEF Fold, g
  <2> QED
    BY <1>4
<1>6. sum[DOMAIN p] = p[0].len + p[1].len
  <2> HIDE DEF sum
  <2>1. sum[{}] = 0
    BY <1>5
  <2>2. sum[{0}] = p[0].len
    <3>1. sum[{0}] = p[0].len + sum[{0} \ {0}]
      BY <1>2, <1>5
    <3> QED
      BY <1>2, <2>1, <3>1
  <2>3. sum[{1}] = p[1].len
    <3>1. sum[{1}] = p[1].len + sum[{1} \ {1}]
      BY <1>2, <1>5
    <3> QED
      BY <1>2, <2>1, <3>1
  <2>4. PICK x \in {0, 1} : sum[{0, 1}] = p[x].len + sum[{0, 1} \ {x}]
    BY <1>2, <1>5
  <2> QED
    BY <1>2, <2>2, <2>3, <2>4
<1>7. {p[i].of : i \in DOMAIN p} = {p[0].of, p[1].of}
  OBVIOUS
<1> HIDE DEF sum
<1> QED
  BY <1>1, <1>6, <1>7 DEF Joined

(* The packet push returns belongs to the id, and is the fragment's own,   *)
(* whole, unless the counter came round.                                   *)
LEMMA ReturnedOf ==
  ASSUME IInv, NEW f \in net, NewPart(f), DOMAIN With(f).parts = 0 .. f.count - 1
  PROVE  /\ Returned(f).of \subseteq DOMAIN sent /\ f.of \in Returned(f).of
         /\ \A s \in Returned(f).of : IdOf(s) = f.id
         /\ ~Collision => Returned(f) = [of |-> {f.of}, len |-> sent[f.of].len]
<1>1. /\ f.of \in DOMAIN sent /\ f.id = IdOf(f.of) /\ f.idx \in {0, 1} /\ f.idx < f.count
      /\ f.count \in {1, 2} /\ f.count = Count(sent[f.of].len) /\ f.len = Slice(sent[f.of].len, f.idx)
      /\ sent[f.of].len \in 1 .. MTU /\ f = FragmentOf(f.of, f.idx)
  BY InNet, OfSent DEF IInv
<1>2. 0 .. 1 - 1 = {0} /\ 0 .. 2 - 1 = {0, 1} /\ {0} # {0, 1} /\ {1} # {0, 1} /\ {1} # {0}
  OBVIOUS
<1>3. ASSUME NEW s \in DOMAIN sent
      PROVE  /\ Count(sent[s].len) = 1 => Slice(sent[s].len, 0) = sent[s].len
             /\ Count(sent[s].len) = 2 =>
                  /\ Slice(sent[s].len, 0) \in Nat /\ Slice(sent[s].len, 1) \in Nat
                  /\ Slice(sent[s].len, 0) + Slice(sent[s].len, 1) = sent[s].len
             /\ sent[s].len \in Nat
  <2>1. sent[s].len \in 1 .. MTU /\ sent[s].len \in Nat /\ ChunkSize \in Nat /\ MTU \in Nat
    BY OfSent, Constants DEF IInv
  <2>2. Count(sent[s].len) = IF sent[s].len <= ChunkSize THEN 1 ELSE 2
    BY <2>1, CountValue
  <2>3. IF sent[s].len <= ChunkSize THEN Slice(sent[s].len, 0) = sent[s].len
        ELSE Slice(sent[s].len, 0) = ChunkSize /\ Slice(sent[s].len, 1) = sent[s].len - ChunkSize
    BY <2>1, SliceValue
  <2> QED
    BY <2>1, <2>2, <2>3
<1>4. CASE f.id \notin DOMAIN FreshPending
  <2>1. PICK q : /\ With(f) = [at |-> now, count |-> f.count, parts |-> q]
                 /\ DOMAIN q = {f.idx} /\ q[f.idx] = f
    BY <1>4, WithOf
  <2>2. f.count = 1 /\ f.idx = 0 /\ DOMAIN q = {0} /\ q[0] = f
    <3>1. {f.idx} = 0 .. f.count - 1
      <4>1. With(f).parts = q
        BY <2>1
      <4> QED
        BY <2>1, <4>1
    <3>2. CASE f.count = 2
      BY <1>2, <3>1, <3>2
    <3> QED
      BY <1>1, <1>2, <2>1, <3>1, <3>2
  <2>3. q[0].of = f.of /\ q[0].len = sent[f.of].len /\ q[0].len \in Nat
    BY <1>1, <1>3, <2>2
  <2>4. Joined(q) = [of |-> {q[0].of}, len |-> q[0].len]
    BY <2>2, <2>3, JoinedOne
  <2>5. Returned(f) = [of |-> {f.of}, len |-> sent[f.of].len]
    BY <2>1, <2>3, <2>4 DEF Returned
  <2> QED
    BY <1>1, <2>5
<1>5. CASE f.id \in DOMAIN FreshPending
  <2> DEFINE q == With(f).parts
  <2>1. PICK s \in DOMAIN sent, i \in {0, 1} :
          /\ BegunBy(f.id, s, i) /\ i # f.idx /\ (~Collision => s = f.of)
          /\ q[i] = FragmentOf(s, i) /\ q[f.idx] = f /\ DOMAIN q = {0, 1} /\ f.count = 2
    BY <1>5, WithOf
  <2>2. IdOf(s) = f.id /\ Count(sent[s].len) = 2
    BY <2>1 DEF BegunBy
  <2> HIDE DEF q
  <2>3. /\ q[i].of = s /\ q[i].len = Slice(sent[s].len, i)
        /\ q[f.idx].of = f.of /\ q[f.idx].len = Slice(sent[f.of].len, f.idx)
    BY <1>1, <2>1 DEF FragmentOf
  <2>4. q[0].len \in Nat /\ q[1].len \in Nat
    <3>1. \A r \in {s, f.of} : Slice(sent[r].len, 0) \in Nat /\ Slice(sent[r].len, 1) \in Nat
      BY <1>1, <1>3, <2>1, <2>2
    <3>2. q[i].len \in Nat /\ q[f.idx].len \in Nat
      BY <1>1, <2>1, <2>3, <3>1
    <3> QED
      BY <1>1, <2>1, <3>2
  <2>5. Joined(q) = [of |-> {q[0].of, q[1].of}, len |-> q[0].len + q[1].len]
    BY <2>1, <2>4, JoinedTwo
  <2>6. {q[0].of, q[1].of} = {s, f.of}
    BY <1>1, <2>1, <2>3
  <2>7. Returned(f) = [of |-> {s, f.of}, len |-> q[0].len + q[1].len]
    BY <2>5, <2>6 DEF Returned, q
  <2>8. ASSUME s = f.of PROVE q[0].len + q[1].len = sent[f.of].len
    <3>1. CASE i = 0 /\ f.idx = 1
      BY <1>1, <1>3, <2>1, <2>3, <2>8, <3>1
    <3>2. CASE i = 1 /\ f.idx = 0
      BY <1>1, <1>3, <2>1, <2>3, <2>8, <3>2
    <3> QED
      BY <1>1, <2>1, <3>1, <3>2
  <2>9. Returned(f).of = {s, f.of}
    BY <2>7
  <2>10. ~Collision => Returned(f) = [of |-> {f.of}, len |-> sent[f.of].len]
    BY <2>1, <2>7, <2>8
  <2> QED
    BY <1>1, <2>2, <2>9, <2>10
<1> QED
  BY <1>4, <1>5

(* One entry of completed may go to make room for the new one. *)
LEMMA KeptRoom ==
  ASSUME Room, NEW kept \in MakeRoom(FreshCompleted)
  PROVE  /\ DOMAIN kept \subseteq DOMAIN FreshCompleted
         /\ \A k \in DOMAIN kept : kept[k] = completed[k]
         /\ IsFiniteSet(DOMAIN kept) /\ Cardinality(DOMAIN kept) \in Nat
         /\ Cardinality(DOMAIN kept) < CompletedCap
<1> DEFINE D == DOMAIN FreshCompleted
<1>1. IsFiniteSet(D) /\ Cardinality(D) \in Nat /\ Cardinality(D) <= CompletedCap
  BY FreshRoom
<1>2. CASE Cardinality(D) >= CompletedCap
  <2>1. PICK i \in D : kept = Restrict(FreshCompleted, D \ {i})
    BY <1>2 DEF MakeRoom
  <2>2. DOMAIN kept = D \ {i} /\ \A k \in D \ {i} : kept[k] = FreshCompleted[k]
    BY <2>1, RestrictTable
  <2>3. IsFiniteSet(D \ {i}) /\ Cardinality(D \ {i}) = Cardinality(D) - 1
    BY <1>1, FS_RemoveElement
  <2>4. Cardinality(D \ {i}) \in Nat
    BY <2>3, FS_CardinalityType
  <2> QED
    BY <1>1, <2>2, <2>3, <2>4, FreshTables, Constants
<1>3. CASE ~(Cardinality(D) >= CompletedCap)
  <2>1. kept = FreshCompleted
    BY <1>3 DEF MakeRoom
  <2> QED
    BY <1>1, <1>3, <2>1, FreshTables, Constants
<1> QED
  BY <1>2, <1>3

LEMMA CompleteIInv == ASSUME IInv, NEW f \in net, Complete(f) PROVE IInv'
<1> USE DEF IInv
<1>1. /\ Push(f) /\ NewPart(f) /\ DOMAIN With(f).parts = 0 .. f.count - 1
      /\ pending' = Restrict(FreshPending, DOMAIN FreshPending \ {f.id})
      /\ out' = out \cup {Returned(f)}
      /\ again' = again \cup {s \in Returned(f).of : \E b \in out : s \in b.of}
      /\ broken' = broken
  BY DEF Complete
<1>2. PICK kept \in MakeRoom(FreshCompleted) :
        /\ completed' = Put(kept, f.id, now)
        /\ excused' = excused \cup
             {s \in DOMAIN sent : IdOf(s) \in DOMAIN FreshCompleted \ DOMAIN kept}
  BY DEF Complete
<1>3. broken' \in BOOLEAN
  BY <1>1 DEF Sending
<1>4. /\ Steady /\ Sending' /\ InFlight' /\ arrived \subseteq arrived' /\ f.idx \in Nat
      /\ \A s \in DOMAIN sent, i \in Nat :
            <<s, i>> \in arrived' => <<s, i>> \in arrived \/ (s = f.of /\ i = f.idx)
      /\ \A a \in arrived' : a[1] \in DOMAIN sent'
  BY <1>1, <1>3, PushCommon
<1>5. f.of \in DOMAIN sent /\ f.id = IdOf(f.of) /\ Young(f.of)
  BY InNet
<1>6. /\ Returned(f).of \subseteq DOMAIN sent /\ f.of \in Returned(f).of
      /\ \A s \in Returned(f).of : IdOf(s) = f.id
      /\ ~Collision => Returned(f) = [of |-> {f.of}, len |-> sent[f.of].len]
  BY <1>1, ReturnedOf
<1>7. \A s : Returns(s)' <=> Returns(s) \/ s \in Returned(f).of
  BY <1>1 DEF Returns
<1>8. /\ DOMAIN kept \subseteq DOMAIN FreshCompleted
      /\ \A k \in DOMAIN kept : kept[k] = completed[k]
      /\ IsFiniteSet(DOMAIN kept) /\ Cardinality(DOMAIN kept) \in Nat
      /\ Cardinality(DOMAIN kept) < CompletedCap
  BY KeptRoom
<1>9. f.id \notin DOMAIN FreshCompleted
  BY <1>1 DEF NewPart, Usable, Finished
<1>10. /\ DOMAIN completed' = DOMAIN kept \cup {f.id} /\ completed'[f.id] = now
       /\ \A k \in DOMAIN kept : completed'[k] = completed[k]
  BY <1>2, <1>8, <1>9 DEF Put
<1>11. /\ DOMAIN pending' = DOMAIN FreshPending \ {f.id}
       /\ \A k \in DOMAIN pending' : pending'[k] = pending[k]
  BY <1>1, RestrictTable, FreshTables
<1>12. Began'
  BY <1>4, <1>11, BeganKept
<1>13. Known'
  BY <1>1, <1>4, <1>6 DEF Known, Steady
<1>14. now' = now /\ sent' = sent /\ now \in Nat
  BY <1>4, <1>5, OfSent DEF Steady
<1>15. Ended'
  <2> SUFFICES ASSUME NEW k \in DOMAIN completed'
               PROVE  /\ completed'[k] \in Nat /\ completed'[k] <= now
                      /\ \E s \in DOMAIN sent : /\ IdOf(s) = k /\ Returns(s)'
                                                /\ completed'[k] <= sent[s].born + Life
    BY <1>14 DEF Ended
  <2>1. CASE k = f.id
    BY <1>5, <1>6, <1>7, <1>10, <1>14, <2>1 DEF Young
  <2>2. CASE k \in DOMAIN kept
    <3>1. k \in DOMAIN completed /\ completed'[k] = completed[k]
      BY <1>8, <1>10, <2>2, FreshTables
    <3> QED
      BY <1>7, <3>1 DEF Ended
  <2> QED
    BY <1>10, <2>1, <2>2
<1>16. ASSUME NEW s \in DOMAIN sent, Returns(s), Young(s)
       PROVE  s \in excused \/ (IdOf(s) \in DOMAIN FreshCompleted /\ sent[s].born <= completed[IdOf(s)])
  <2>1. CASE IdOf(s) \in DOMAIN completed /\ sent[s].born <= completed[IdOf(s)]
    <3>1. completed[IdOf(s)] \in Nat
      BY <2>1 DEF Ended
    <3>2. now - completed[IdOf(s)] <= Expiry
      BY <1>16, <2>1, <3>1, OfSent, Constants DEF Young
    <3> QED
      BY <2>1, <3>2, FreshTables
  <2> QED
    BY <1>16, <2>1 DEF Remembered
<1>17. Remembered'
  <2> SUFFICES ASSUME NEW s \in DOMAIN sent, Returns(s)', Young(s)
               PROVE  \/ s \in excused'
                      \/ IdOf(s) \in DOMAIN completed' /\ sent[s].born <= completed'[IdOf(s)]
    BY <1>14 DEF Remembered, Young
  <2>1. CASE s \in Returned(f).of
    BY <1>6, <1>10, <2>1, OfSent
  <2>2. CASE Returns(s)
    <3>1. CASE IdOf(s) \in DOMAIN FreshCompleted /\ sent[s].born <= completed[IdOf(s)]
      <4>1. CASE IdOf(s) \in DOMAIN kept
        BY <1>10, <3>1, <4>1
      <4>2. CASE IdOf(s) \notin DOMAIN kept
        BY <1>2, <3>1, <4>2
      <4> QED
        BY <4>1, <4>2
    <3> QED
      BY <1>2, <1>16, <2>2, <3>1
  <2> QED
    BY <1>7, <2>1, <2>2
<1>18. Room'
  <2>1. f.id \notin DOMAIN kept
    BY <1>8, <1>9
  <2>2. /\ IsFiniteSet(DOMAIN completed')
        /\ Cardinality(DOMAIN completed') = Cardinality(DOMAIN kept) + 1
    BY <1>8, <1>10, <2>1, FS_AddElement
  <2>3. Cardinality(DOMAIN completed') <= CompletedCap
    BY <1>8, <2>2, Constants
  <2>4. IsFiniteSet(DOMAIN pending') /\ Cardinality(DOMAIN pending') <= PendingCap
    <3>1. DOMAIN pending' \subseteq DOMAIN FreshPending
      BY <1>11
    <3>2. /\ IsFiniteSet(DOMAIN pending')
          /\ Cardinality(DOMAIN pending') <= Cardinality(DOMAIN FreshPending)
      BY <3>1, FreshRoom, FS_Subset
    <3>3. Cardinality(DOMAIN pending') \in Nat
      BY <3>2, FS_CardinalityType
    <3> QED
      BY <3>2, <3>3, FreshRoom, Constants
  <2> QED
    BY <2>2, <2>3, <2>4 DEF Room
<1>19. CASE Collision
  BY <1>4, <1>12, <1>13, <1>14, <1>15, <1>17, <1>18, <1>19, CollisionStays
<1>20. CASE ~Collision
  <2>1. Calm
    BY <1>20
  <2>2. Returned(f) = [of |-> {f.of}, len |-> sent[f.of].len] /\ Returned(f).of = {f.of}
    BY <1>6, <1>20
  <2>3. ~broken' /\ Genuine'
    BY <1>1, <1>5, <1>14, <2>1, <2>2 DEF Calm, Genuine
  <2>4. again' \subseteq excused'
    <3>1. Returns(f.of) => f.of \in excused
      BY <1>5, <1>9, <1>16
    <3>2. again' \subseteq again \cup {s \in {f.of} : Returns(s)}
      BY <1>1, <2>2 DEF Returns
    <3> QED
      BY <1>2, <2>1, <3>1, <3>2 DEF Calm
  <2>5. ASSUME NEW s \in DOMAIN sent, Waiting(s), s # f.of PROVE Waiting(s)'
    <3>1. \A i \in Nat : <<s, i>> \in arrived' => <<s, i>> \in arrived
      BY <1>4, <2>5
    <3>2. ASSUME NEW i \in Nat, IdOf(s) \in DOMAIN FreshPending, BegunBy(IdOf(s), s, i)
          PROVE  IdOf(s) \in DOMAIN pending' /\ pending'[IdOf(s)] = pending[IdOf(s)]
      <4>1. IdOf(s) # f.id
        BY <1>20, <2>5, <3>2, OwnEntry
      <4> QED
        BY <1>11, <3>2, <4>1
    <3> QED
      BY <1>4, <2>5, <3>1, <3>2, WaitingKept
  <2>6. Settled'
    <3> SUFFICES ASSUME NEW s \in DOMAIN sent
                 PROVE  Returns(s)' \/ s \in excused' \/ Waiting(s)'
      BY <1>14 DEF Settled
    <3>1. Returns(s) \/ s \in excused \/ Waiting(s)
      BY <2>1 DEF Calm, Settled
    <3> QED
      BY <1>2, <1>6, <1>7, <2>5, <3>1
  <2> QED
    BY <1>4, <1>12, <1>13, <1>15, <1>17, <1>18, <2>3, <2>4, <2>6 DEF Calm
<1> QED
  BY <1>19, <1>20

-----------------------------------------------------------------------------
(* The invariant, from the start and over every step. *)
LEMMA InitIInv == ASSUME Init PROVE IInv
<1>1. /\ now = 0 /\ sent = <<>> /\ net = {} /\ pending = <<>> /\ completed = <<>>
      /\ broken = FALSE /\ out = {} /\ again = {} /\ arrived = {} /\ excused = {}
      /\ DOMAIN sent = {} /\ DOMAIN pending = {} /\ DOMAIN completed = {} /\ Len(sent) = 0
  BY DEF Init
<1>2. Sending
  <2>1. sent \in Seq([len : Lengths, born : Nat])
    BY <1>1
  <2>2. 0 \in Nat /\ 0 <= MaxTime /\ 0 <= MaxPackets /\ FALSE \in BOOLEAN
    BY Constants
  <2>3. now \in Nat /\ now <= MaxTime /\ broken \in BOOLEAN
    BY <1>1, <2>2
  <2>4. Len(sent) <= MaxPackets
    BY <1>1, <2>2
  <2>5. \A s \in DOMAIN sent : sent[s].born <= now
    BY <1>1
  <2> QED
    BY <2>1, <2>3, <2>4, <2>5 DEF Sending
<1>3. InFlight /\ Known /\ Began /\ Ended
  BY <1>1 DEF InFlight, Known, Began, Ended
<1>4. Remembered
  BY <1>1 DEF Remembered
<1>5. Room
  BY <1>1, FS_EmptySet, Constants DEF Room
<1>6. Calm
  BY <1>1 DEF Calm, Genuine, Settled
<1> QED
  BY <1>2, <1>3, <1>4, <1>5, <1>6 DEF IInv

LEMMA StutterIInv == ASSUME IInv, UNCHANGED vars PROVE IInv'
<1> USE DEF IInv
<1>1. UNCHANGED <<now, sent, net, pending, completed, broken, out, again, arrived, excused>>
  BY DEF vars
<1>2. Sending' /\ Room' /\ Known' /\ (Collision => Collision')
  BY <1>1 DEF Sending, Room, Known, Collision
<1>3. InFlight'
  BY <1>1 DEF InFlight, FragmentOf, Indices, Young
<1>4. Began' /\ Ended' /\ Remembered'
  <2>1. Began'
    BY <1>1 DEF Began, BegunBy, FragmentOf
  <2>2. Ended'
    BY <1>1 DEF Ended, Returns
  <2>3. Remembered'
    BY <1>1 DEF Remembered, Returns, Young
  <2> QED
    BY <2>1, <2>2, <2>3
<1>5. Calm => Calm'
  <2>1. Genuine => Genuine'
    BY <1>1 DEF Genuine
  <2>2. \A s : (Returns(s) => Returns(s)') /\ (Waiting(s) => Waiting(s)')
    <3>1. ASSUME NEW s, NEW i, BegunBy(IdOf(s), s, i) PROVE BegunBy(IdOf(s), s, i)'
      BY <1>1, <3>1 DEF BegunBy, FragmentOf
    <3>2. ASSUME NEW s, Waiting(s) PROVE Waiting(s)'
      BY <1>1, <3>1, <3>2 DEF Waiting, Young
    <3>3. ASSUME NEW s, Returns(s) PROVE Returns(s)'
      BY <1>1, <3>3 DEF Returns
    <3> QED
      BY <3>2, <3>3
  <2>3. Settled => Settled'
    BY <1>1, <2>2 DEF Settled
  <2> QED
    BY <1>1, <2>1, <2>3 DEF Calm
<1> QED
  BY <1>2, <1>3, <1>4, <1>5

LEMMA NextIInv == ASSUME IInv, [Next]_vars PROVE IInv'
<1>1. CASE \E n \in Lengths : Send(n)
  BY <1>1, SendIInv
<1>2. CASE Tick
  BY <1>2, TickIInv
<1>3. ASSUME NEW f \in net, Reject(f) \/ Ignore(f) \/ Refuse(f) \/ Keep(f) \/ Complete(f)
      PROVE  IInv'
  BY <1>3, RejectIInv, IgnoreIInv, RefuseIInv, KeepIInv, CompleteIInv
<1>4. CASE UNCHANGED vars
  BY <1>4, StutterIInv
<1> QED
  BY <1>1, <1>2, <1>3, <1>4 DEF Next

(* A step of the connection is a step of its assembler, or none of its     *)
(* business.                                                               *)
LEMMA ConnStep == ASSUME [RNext]_allVars PROVE [Next]_vars
<1>1. CASE Peer
  BY <1>1 DEF Peer, Next
<1>2. CASE TrackNext
  BY <1>2 DEF TrackNext, PushPart, PushLast, Queue, TrackEnds, Next
<1>3. CASE Connected \/ Failed \/ GoClose \/ Wait
  BY <1>3 DEF Connected, Failed, GoClose, Wait
<1>4. CASE ReadPacket \/ UserCloses \/ Keepalive
  BY <1>4 DEF ReadPacket, UserCloses, Keepalive
<1>5. CASE UNCHANGED allVars
  BY <1>5 DEF allVars
<1> QED
  BY <1>1, <1>2, <1>3, <1>4, <1>5 DEF RNext

LEMMA AssemblerInv == Spec => []IInv
<1>1. Init => IInv
  BY InitIInv
<1>2. IInv /\ [Next]_vars => IInv'
  BY NextIInv
<1> QED
  BY <1>1, <1>2, PTL DEF Spec

LEMMA ConnInv == RSpec => []IInv
<1>1. RInit => IInv
  BY InitIInv DEF RInit
<1>2. IInv /\ [RNext]_allVars => IInv'
  BY NextIInv, ConnStep
<1> QED
  BY <1>1, <1>2, PTL DEF RSpec

-----------------------------------------------------------------------------
(* What the invariant says of each property. *)
LEMMA InvTypeOK == IInv => TypeOK
<1> SUFFICES ASSUME IInv PROVE TypeOK
  OBVIOUS
<1>1. now \in 0 .. MaxTime /\ broken \in BOOLEAN /\ Len(sent) <= MaxPackets
  BY Constants DEF IInv, Sending
<1>2. ASSUME NEW k \in DOMAIN pending
      PROVE  /\ pending[k].at <= now /\ pending[k].count \in 1 .. 2
             /\ Cardinality(DOMAIN pending[k].parts) = 1
  <2>1. PICK s \in DOMAIN sent, i \in {0, 1} : BegunBy(k, s, i)
    BY DEF IInv, Began
  <2>2. PICK t, q : /\ pending[k] = [at |-> t, count |-> 2, parts |-> q]
                            /\ DOMAIN q = {i} /\ t <= now
    BY <2>1 DEF BegunBy
  <2>3. pending[k].at = t /\ pending[k].count = 2 /\ DOMAIN pending[k].parts = {i}
    BY <2>2
  <2>4. Cardinality({i}) = 1
    BY FS_Singleton
  <2> QED
    BY <2>2, <2>3, <2>4
<1> QED
  BY <1>1, <1>2 DEF TypeOK, IInv, Room

LEMMA InvNothingLost == IInv => NothingLost
<1> SUFFICES ASSUME IInv, ~Collision, NEW s \in DOMAIN sent,
                    \A i \in 0 .. Count(sent[s].len) - 1 : <<s, i>> \in arrived
             PROVE  s \in excused \/ \E b \in out : s \in b.of
  BY DEF NothingLost
<1>1. Count(sent[s].len) \in {1, 2} /\ Indices(s) = IF Count(sent[s].len) = 1 THEN {0} ELSE {0, 1}
  BY OfSent DEF IInv
<1>2. \A i \in Indices(s) : <<s, i>> \in arrived
  BY DEF Indices
<1>3. ~Waiting(s)
  <2>1. 0 \in Nat /\ 1 \in Nat /\ 0 # 1
    OBVIOUS
  <2>2. CASE Count(sent[s].len) = 1
    <3>1. <<s, 0>> \in arrived
      BY <1>1, <1>2, <2>2
    <3> QED
      BY <2>1, <2>2, <3>1 DEF Waiting
  <2>3. CASE Count(sent[s].len) = 2
    <3>1. <<s, 0>> \in arrived /\ <<s, 1>> \in arrived
      BY <1>1, <1>2, <2>3
    <3> QED
      BY <2>1, <3>1 DEF Waiting
  <2> QED
    BY <1>1, <2>2, <2>3
<1> QED
  BY <1>3 DEF IInv, Calm, Settled, Returns

LEMMA InvOthers == IInv => NoDuplicates /\ NeverRejected
  BY DEF IInv, Calm, NoDuplicates, NeverRejected

(* The assembler's tables keep their shape and bounds: an entry of pending *)
(* has one part of two, and neither table outgrows its limit, whatever the *)
(* network does to the fragments and whenever the connection closes.       *)
THEOREM ConnTypeOK == RSpec => []TypeOK
  BY ConnInv, InvTypeOK, PTL

(* A packet all of whose fragments arrived was returned by push, unless    *)
(* pending was full for it, the ids came round or its id was evicted: in   *)
(* any order, with any duplicates, and as late as the network delivers.    *)
THEOREM ConnLosesNothing == RSpec => []NothingLost
  BY ConnInv, InvNothingLost, PTL

(* push returns no packet a second time. *)
THEOREM ConnNoDuplicates == RSpec => []NoDuplicates
  BY ConnInv, InvOthers, PTL

(* An honest sender's fragments never make push return an error, which     *)
(* would close the connection.                                             *)
THEOREM ConnNeverRejects == RSpec => []NeverRejected
  BY ConnInv, InvOthers, PTL

(* The same of the assembler alone, under any schedule of push, the sender *)
(* and the clock, not only the ones the connection gives it.               *)
THEOREM AssemblerSafe == Spec => [](TypeOK /\ NothingLost /\ NoDuplicates /\ NeverRejected)
<1>1. IInv => TypeOK /\ NothingLost /\ NoDuplicates /\ NeverRejected
  BY InvTypeOK, InvNothingLost, InvOthers
<1> QED
  BY <1>1, AssemblerInv, PTL

-----------------------------------------------------------------------------
(* The way of a packet from the assembler to the user: through hand while  *)
(* OnTrack queues it, then rx.  Nothing in it is there twice.              *)
Queued ==
    /\ rx \in Seq(out) /\ delivered \in Seq(out)
    /\ \A i, j \in DOMAIN rx : i # j => rx[i] # rx[j]
    /\ \A i \in DOMAIN rx : rx[i] \notin Range(delivered)

InHand == track = "push" => \E b \in out : /\ hand = <<b>> /\ b \notin Range(delivered)
                                           /\ \A i \in DOMAIN rx : rx[i] # b

Line == Collision \/ again # {} \/ (Queued /\ InHand)

LEMMA RangeElement == ASSUME NEW q, NEW i \in DOMAIN q PROVE q[i] \in Range(q)
  BY DEF Range

LEMMA LineInit == ASSUME RInit PROVE Line
<1>1. rx = <<>> /\ delivered = <<>> /\ track = "read"
  BY DEF RInit
<1>2. DOMAIN rx = {} /\ rx \in Seq(out) /\ delivered \in Seq(out)
  BY <1>1
<1>3. Queued /\ InHand
  BY <1>1, <1>2 DEF Queued, InHand
<1> QED
  BY <1>3 DEF Line

(* Once the ids came round, or a packet was returned twice, it stays so.   *)
LEMMA ExcuseStays ==
  ASSUME IInv, [Next]_vars
  PROVE  (Collision => Collision') /\ (again # {} => again' # {}) /\ out \subseteq out'
<1>1. CASE \E n \in Lengths : Send(n)
  <2>1. PICK n \in Lengths : Send(n)
    BY <1>1
  <2>2. sent' = Append(sent, [len |-> n, born |-> now]) /\ again' = again /\ out' = out
    BY <2>1 DEF Send
  <2>3. \A s \in DOMAIN sent : s \in DOMAIN sent' /\ sent'[s] = sent[s]
    BY <2>2 DEF IInv, Sending
  <2> QED
    BY <2>2, <2>3, CollisionStays DEF IInv
<1>2. CASE ~ \E n \in Lengths : Send(n)
  <2>1. sent' = sent
    BY <1>2 DEF Next, Tick, Reject, Ignore, Refuse, Keep, Complete, Push, vars
  <2>2. again \subseteq again' /\ out \subseteq out'
    BY <1>2 DEF Next, Tick, Reject, Ignore, Refuse, Keep, Complete, vars
  <2> QED
    BY <2>1, <2>2 DEF Collision
<1> QED
  BY <1>1, <1>2

(* A packet that push returns, if no one was returned twice, is a new one. *)
LEMMA NewlyReturned ==
  ASSUME IInv, NEW f \in net, Complete(f), ~Collision, again' = {}
  PROVE  Returned(f) \in out' /\ Returned(f) \notin out
<1>1. NewPart(f) /\ DOMAIN With(f).parts = 0 .. f.count - 1 /\ out' = out \cup {Returned(f)}
      /\ again' = again \cup {s \in Returned(f).of : \E b \in out : s \in b.of}
  BY DEF Complete
<1>2. f.of \in Returned(f).of
  BY <1>1, ReturnedOf
<1> QED
  BY <1>1, <1>2

LEMMA PushLastLine == ASSUME IInv, Line, PushLast PROVE Line'
<1>1. PICK f \in net : Complete(f) /\ hand' = <<Returned(f)>>
  BY DEF PushLast
<1>2. rx' = rx /\ delivered' = delivered
  BY DEF PushLast
<1>3. [Next]_vars
  BY <1>1 DEF Next
<1>4. (Collision => Collision') /\ (again # {} => again' # {}) /\ out \subseteq out'
  BY <1>3, ExcuseStays
<1> SUFFICES ASSUME ~Collision, again = {}, again' = {} PROVE Queued' /\ InHand'
  BY <1>4 DEF Line
<1>5. Queued
  BY DEF Line
<1>6. Returned(f) \in out' /\ Returned(f) \notin out
  BY <1>1, NewlyReturned
<1>7. /\ rx \in Seq(out') /\ delivered \in Seq(out')
      /\ \A i \in DOMAIN rx : rx[i] \in out
      /\ \A b \in Range(delivered) : b \in out
  <2>1. rx \in Seq(out) /\ delivered \in Seq(out)
    BY <1>5 DEF Queued
  <2>2. rx \in Seq(out') /\ delivered \in Seq(out')
    BY <1>4, <2>1
  <2> QED
    BY <2>1, <2>2, ElementAt DEF Range
<1>8. Queued'
  BY <1>2, <1>5, <1>7 DEF Queued
<1>9. InHand'
  BY <1>1, <1>2, <1>6, <1>7 DEF InHand
<1> QED
  BY <1>8, <1>9

(* Every other step leaves out and the excuses alone, or does not touch    *)
(* the line.                                                               *)
LEMMA PushPartLine == ASSUME IInv, Line, PushPart PROVE Line'
<1>1. PICK f \in net : Ignore(f) \/ Refuse(f) \/ Keep(f) \/ Reject(f)
  BY DEF PushPart
<1>2. /\ sent' = sent /\ out' = out /\ again' = again /\ rx' = rx /\ delivered' = delivered
      /\ hand' = hand /\ track' # "push"
  BY <1>1 DEF PushPart, Ignore, Refuse, Keep, Reject, Push
<1> QED
  BY <1>2 DEF Line, Queued, InHand, Collision

LEMMA PeerLine == ASSUME IInv, Line, Peer PROVE Line'
<1>1. /\ UNCHANGED <<out, again, track, hand, rx, delivered>> /\ [Next]_vars
  BY DEF Peer, Next, Send, Tick, rtcVars
<1>2. Collision => Collision'
  BY <1>1, ExcuseStays
<1> QED
  BY <1>1, <1>2 DEF Line, Queued, InHand

LEMMA QueueLine == ASSUME IInv, Line, Queue PROVE Line'
<1>1. /\ track = "push" /\ delivered' = delivered /\ track' # "push"
      /\ rx' = rx \/ rx' = rx \o hand
      /\ sent' = sent /\ out' = out /\ again' = again
  BY DEF Queue, vars
<1>2. Collision' <=> Collision
  BY <1>1 DEF Collision
<1> SUFFICES ASSUME Queued, InHand PROVE Queued' /\ InHand'
  BY <1>1, <1>2 DEF Line
<1>3. InHand'
  BY <1>1 DEF InHand
<1>4. CASE rx' = rx
  BY <1>1, <1>3, <1>4 DEF Queued
<1>5. CASE rx' = rx \o hand
  <2>1. PICK b \in out : hand = <<b>> /\ b \notin Range(delivered) /\ \A i \in DOMAIN rx : rx[i] # b
    BY <1>1 DEF InHand
  <2>2. rx \in Seq(out) /\ delivered \in Seq(out)
    BY DEF Queued
  <2>3. /\ rx' \in Seq(out) /\ DOMAIN rx' = DOMAIN rx \cup {Len(rx) + 1}
        /\ \A i \in DOMAIN rx : rx'[i] = rx[i]
        /\ rx'[Len(rx) + 1] = b
    BY <1>5, <2>1, <2>2
  <2>4. \A i, j \in DOMAIN rx' : i # j => rx'[i] # rx'[j]
    BY <2>1, <2>3 DEF Queued
  <2>5. \A i \in DOMAIN rx' : rx'[i] \notin Range(delivered)
    BY <2>1, <2>3 DEF Queued
  <2> QED
    BY <1>1, <1>3, <2>2, <2>3, <2>4, <2>5 DEF Queued
<1> QED
  BY <1>1, <1>4, <1>5

LEMMA ReadPacketLine == ASSUME IInv, Line, ReadPacket PROVE Line'
<1>1. sent' = sent /\ out' = out /\ again' = again /\ track' = track /\ hand' = hand
  BY DEF ReadPacket, vars
<1>2. Collision' <=> Collision
  BY <1>1 DEF Collision
<1> SUFFICES ASSUME Queued, InHand, again = {} PROVE Queued' /\ InHand'
  BY <1>1, <1>2 DEF Line
<1>3. CASE rx' = rx /\ delivered' = delivered
  BY <1>1, <1>3 DEF Queued, InHand
<1>4. CASE rx # <<>> /\ delivered' = Append(delivered, Head(rx)) /\ rx' = Tail(rx)
  <2>1. rx \in Seq(out) /\ delivered \in Seq(out)
    BY DEF Queued
  <2>2. /\ rx' \in Seq(out) /\ Len(rx) \in Nat /\ DOMAIN rx = 1 .. Len(rx) /\ Len(rx) >= 1
        /\ DOMAIN rx' = 1 .. Len(rx) - 1
        /\ \A i \in DOMAIN rx' : i + 1 \in DOMAIN rx /\ rx'[i] = rx[i + 1]
        /\ Head(rx) = rx[1] /\ rx[1] \in out
    BY <1>4, <2>1
  <2>3. delivered' \in Seq(out)
    BY <1>4, <2>1, <2>2
  <2>4. Range(delivered') = Range(delivered) \cup {rx[1]}
    <3>1. /\ DOMAIN delivered' = DOMAIN delivered \cup {Len(delivered) + 1}
          /\ \A i \in DOMAIN delivered : delivered'[i] = delivered[i]
          /\ delivered'[Len(delivered) + 1] = rx[1]
      BY <1>4, <2>1, <2>2
    <3> QED
      BY <3>1 DEF Range
  <2>5. \A i, j \in DOMAIN rx' : i # j => rx'[i] # rx'[j]
    <3>1. \A i, j \in DOMAIN rx' : i # j => i + 1 # j + 1
      BY <2>2
    <3> QED
      BY <2>2, <3>1 DEF Queued
  <2>6. \A i \in DOMAIN rx' : rx'[i] \notin Range(delivered')
    <3>1. \A i \in DOMAIN rx' : i + 1 # 1 /\ 1 \in DOMAIN rx
      BY <2>2
    <3> QED
      BY <2>2, <2>4, <3>1 DEF Queued
  <2>7. Queued'
    BY <1>1, <2>2, <2>3, <2>5, <2>6 DEF Queued
  <2>8. InHand'
    <3> SUFFICES ASSUME track = "push"
                 PROVE  \E b \in out : /\ hand = <<b>> /\ b \notin Range(delivered')
                                       /\ \A i \in DOMAIN rx' : rx'[i] # b
      BY <1>1 DEF InHand
    <3>1. PICK b \in out : /\ hand = <<b>> /\ b \notin Range(delivered)
                           /\ \A i \in DOMAIN rx : rx[i] # b
      BY DEF InHand
    <3>2. 1 \in DOMAIN rx
      BY <2>2
    <3> QED
      BY <2>2, <2>4, <3>1, <3>2
  <2> QED
    BY <2>7, <2>8
<1> QED
  BY <1>3, <1>4 DEF ReadPacket

LEMMA LineNext == ASSUME IInv, Line, [RNext]_allVars PROVE Line'
<1>1. CASE TrackEnds
  <2>1. /\ sent' = sent /\ out' = out /\ again' = again /\ rx' = rx /\ delivered' = delivered
        /\ track' # "push"
    BY <1>1 DEF TrackEnds, vars
  <2> QED
    BY <2>1 DEF Line, Queued, InHand, Collision
<1>2. CASE Connected \/ Failed \/ GoClose \/ Wait \/ UserCloses \/ Keepalive \/ UNCHANGED allVars
  <2>1. UNCHANGED <<sent, out, again, rx, delivered, track, hand>>
    BY <1>2 DEF Connected, Failed, GoClose, Wait, UserCloses, Keepalive, vars, rtcVars, allVars
  <2> QED
    BY <2>1 DEF Line, Queued, InHand, Collision
<1> QED
  BY <1>1, <1>2, PushLastLine, PushPartLine, PeerLine, QueueLine, ReadPacketLine
  DEF RNext, TrackNext

-----------------------------------------------------------------------------
(* The steps of the connection, as the channel sees them. *)
LEMMA PeerSends ==
  ASSUME IInv, Peer
  PROVE  Lossy!Next \/ UNCHANGED Lossy!vars
<1>1. delivered' = delivered
  BY DEF Peer, rtcVars
<1>2. CASE sent' = sent
  BY <1>1, <1>2 DEF Lossy!vars, Whole
<1>3. ASSUME NEW n \in Lengths, Send(n) PROVE Lossy!Next
  <2> DEFINE serial == Len(sent) + 1
             d == [of |-> {serial}, len |-> n]
  <2>1. sent' = Append(sent, [len |-> n, born |-> now]) /\ serial <= MaxPackets
    BY <1>3 DEF Send
  <2>2. /\ DOMAIN sent' = DOMAIN sent \cup {serial} /\ sent'[serial].len = n
        /\ \A s \in DOMAIN sent : sent'[s] = sent[s]
        /\ serial \in 1 .. MaxPackets
    BY <2>1, Constants DEF IInv, Sending
  <2> HIDE DEF serial
  <2>3. {Whole(s) : s \in DOMAIN sent}' = {Whole(s) : s \in DOMAIN sent} \cup {d}
    BY <2>2 DEF Whole
  <2>4. d \in [of : {{s} : s \in 1 .. MaxPackets}, len : Lengths]
    BY <2>2
  <2>5. Lossy!Send(d)
    BY <1>1, <2>3 DEF Lossy!Send
  <2> QED
    BY <2>4, <2>5 DEF Lossy!Next
<1> QED
  BY <1>2, <1>3 DEF Peer, Tick

LEMMA ReadDelivers ==
  ASSUME IInv, Line, ReadPacket, ~Collision', again' = {}
  PROVE  Lossy!Next \/ UNCHANGED Lossy!vars
<1>1. sent' = sent /\ again' = again
  BY DEF ReadPacket, vars
<1>2. ~Collision /\ again = {} /\ Queued /\ Genuine
  BY <1>1 DEF Collision, Line, IInv, Calm
<1>3. {Whole(s) : s \in DOMAIN sent}' = {Whole(s) : s \in DOMAIN sent}
  BY <1>1 DEF Whole
<1>4. CASE delivered' = delivered
  BY <1>3, <1>4 DEF Lossy!vars
<1>5. CASE rx # <<>> /\ delivered' = Append(delivered, Head(rx))
  <2>1. 1 \in DOMAIN rx /\ Head(rx) = rx[1] /\ rx[1] \in out
    BY <1>2, <1>5 DEF Queued
  <2>2. PICK s \in DOMAIN sent : rx[1] = Whole(s)
    BY <1>2, <2>1 DEF Genuine, Whole
  <2>3. rx[1] \notin Range(delivered)
    BY <1>2, <2>1 DEF Queued
  <2>4. Whole(s) \in [of : {{t} : t \in 1 .. MaxPackets}, len : Lengths]
    <3>1. s \in 1 .. MaxPackets
      <4>1. s \in 1 .. Len(sent) /\ Len(sent) \in Nat /\ Len(sent) <= MaxPackets
        BY DEF IInv, Sending
      <4> QED
        BY <4>1, Constants
    <3>2. sent[s].len \in Lengths
      <4>1. sent[s] \in [len : Lengths, born : Nat]
        BY ElementAt DEF IInv, Sending
      <4> QED
        BY <4>1
    <3> QED
      BY <3>1, <3>2 DEF Whole
  <2>5. Lossy!Deliver(rx[1])
    BY <1>3, <1>5, <2>1, <2>2, <2>3 DEF Lossy!Deliver, Range, Lossy!Range
  <2> QED
    BY <2>2, <2>4, <2>5 DEF Lossy!Next
<1> QED
  BY <1>2, <1>4, <1>5 DEF ReadPacket

LEMMA ConnStepLossy ==
  IInv /\ Line /\ [RNext]_allVars => [Lossy!Next \/ Collision' \/ again' # {}]_(Lossy!vars)
<1> SUFFICES ASSUME IInv, Line, [RNext]_allVars, ~Collision', again' = {}
             PROVE  Lossy!Next \/ UNCHANGED Lossy!vars
  OBVIOUS
<1>1. CASE Peer
  BY <1>1, PeerSends
<1>2. CASE ReadPacket
  BY <1>2, ReadDelivers
<1>3. CASE TrackNext
  <2>1. sent' = sent /\ delivered' = delivered
    BY <1>3 DEF TrackNext, PushPart, PushLast, Queue, TrackEnds, Ignore, Refuse, Keep, Reject,
                Complete, Push, vars
  <2> QED
    BY <2>1 DEF Lossy!vars, Whole
<1>4. CASE Connected \/ Failed \/ GoClose \/ Wait \/ UserCloses \/ Keepalive \/ UNCHANGED allVars
  <2>1. sent' = sent /\ delivered' = delivered
    BY <1>4 DEF Connected, Failed, GoClose, Wait, UserCloses, Keepalive, vars, rtcVars, allVars
  <2> QED
    BY <2>1 DEF Lossy!vars, Whole
<1> QED
  BY <1>1, <1>2, <1>3, <1>4 DEF RNext

LEMMA LossyInit == RInit => Lossy!Init
<1> SUFFICES ASSUME RInit PROVE Lossy!Init
  OBVIOUS
<1>1. sent = <<>> /\ delivered = <<>>
  BY DEF RInit, Init
<1>2. DOMAIN sent = {}
  BY <1>1
<1>3. {Whole(s) : s \in DOMAIN sent} = {}
  BY <1>2
<1> QED
  BY <1>1, <1>3 DEF Lossy!Init

(* Whatever the network does to the fragments, and whoever closes or lags  *)
(* behind, ReadPacket returns only packets that the peer's WritePacket     *)
(* took, whole, each at most once.                                         *)
THEOREM ConnIsLossyChannel == RSpec => ImplementsLossyChannel
<1>1. RInit => Line
  BY LineInit
<1>2. IInv /\ Line /\ [RNext]_allVars => Line'
  BY LineNext
<1> QED
  BY <1>1, <1>2, LossyInit, ConnStepLossy, ConnInv, PTL DEF RSpec, ImplementsLossyChannel
=============================================================================
