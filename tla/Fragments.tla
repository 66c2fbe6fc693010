------------------------------ MODULE Fragments ------------------------------
(***************************************************************************)
(* internal/transport/fragments.go: a packet that does not fit one RTP     *)
(* payload is split in two, and the assembler at the other end of an       *)
(* unreliable network (loss, reordering, duplication) puts it together.    *)
(* The fragment's id is a counter that wraps (uint32 in rtcConn); time is  *)
(* counted in ticks, two seconds being Expiry ticks.                       *)
(***************************************************************************)
EXTENDS Naturals, Sequences, FiniteSetsExt, Functions

CONSTANTS
    ChunkSize, MTU,  \* 900 and 1280
    Lengths,         \* packet lengths that are sent, out of 1 .. MTU
    IdSpace,         \* ids before the counter wraps (2^32)
    Expiry,          \* age at which push forgets an entry
    Life,            \* how long the network can hold a fragment back
    PendingCap,      \* 64
    CompletedCap,    \* 4096
    MaxPackets,      \* bound: packets sent
    MaxTime          \* bound: ticks

ASSUME FragmentsAssumption ==
    /\ {ChunkSize, MTU, IdSpace, PendingCap, CompletedCap} \subseteq Nat \ {0}
    /\ ChunkSize < MTU /\ MTU <= 2 * ChunkSize
    /\ Lengths \subseteq 1 .. MTU
    /\ {Expiry, Life, MaxPackets, MaxTime} \subseteq Nat
    /\ Life <= Expiry  \* a fragment does not outlive the memory of its packet

VARIABLES
    now,        \* the clock
    sent,       \* history: length and time of every packet, by serial number
    net,        \* fragments the network may still deliver
    pending,    \* a.pending: id -> when it began, its count, its parts
    completed,  \* a.completed: id -> when it was put together
    broken,     \* push returned an error, which closes the connection
    out,        \* history: the packets push returned
    again,      \* history: the serials of packets it returned once more
    arrived,    \* history: the fragments push was given, as <<serial, idx>>
    excused     \* history: serials refused for lack of room, or evicted

vars == <<now, sent, net, pending, completed, broken, out, again, arrived, excused>>

-----------------------------------------------------------------------------
(* Mutant of Count: a multiple of the chunk size gets an empty last part. *)
CountOneMore(n) == n \div ChunkSize + 1

(* splitPacket: fragment i of a packet of length n is Slice(n, i) long. *)
Count(n) == (n + ChunkSize - 1) \div ChunkSize
SliceEnd(n, i) == IF (i + 1) * ChunkSize <= n THEN (i + 1) * ChunkSize ELSE n
Slice(n, i) == SliceEnd(n, i) - i * ChunkSize

(* The first two checks of push. *)
GoodDimensions(f) ==
    /\ f.count \in 1 .. 2 /\ f.idx < f.count
    /\ f.len \in 1 .. ChunkSize
    /\ f.idx < f.count - 1 => f.len = ChunkSize
    /\ f.idx = 1 => f.len <= MTU - ChunkSize

IdOf(serial) == serial % IdSpace

(* A fragment as sent; of and born are not in its bytes. *)
Fragment(serial, n, i) ==
    [id |-> IdOf(serial), idx |-> i, count |-> Count(n), len |-> Slice(n, i),
     of |-> serial, born |-> now]

Init == /\ now = 0 /\ sent = <<>> /\ net = {}
        /\ pending = <<>> /\ completed = <<>> /\ broken = FALSE
        /\ out = {} /\ again = {} /\ arrived = {} /\ excused = {}

(* rtcConn.WritePacket: the next id, and all fragments handed to the track. *)
Send(n) ==
    LET serial == Len(sent) + 1 IN
    /\ ~broken
    /\ serial <= MaxPackets
    /\ sent' = Append(sent, [len |-> n, born |-> now])
    /\ net' = net \cup {Fragment(serial, n, i) : i \in 0 .. Count(n) - 1}
    /\ UNCHANGED <<now, pending, completed, broken, out, again, arrived, excused>>

-----------------------------------------------------------------------------
(* An assignment to a map's or an array's element. *)
Put(table, k, v) == [x \in DOMAIN table \cup {k} |-> IF x = k THEN v ELSE table[x]]

(* Mutants of the two clean-ups: never, or too early. *)
FreshPendingAll == pending
FreshCompletedAll == completed
FreshCompletedEarly ==
    Restrict(completed, {i \in DOMAIN completed : now - completed[i] < Expiry})

(* push's two clean-up loops. *)
FreshPending == Restrict(pending, {i \in DOMAIN pending : now - pending[i].at <= Expiry})
FreshCompleted == Restrict(completed, {i \in DOMAIN completed : now - completed[i] <= Expiry})

(* The bound on completed: before one is added, some entry may go. *)
MakeRoom(table) ==
    IF Cardinality(DOMAIN table) >= CompletedCap
    THEN {Restrict(table, DOMAIN table \ {i}) : i \in DOMAIN table}
    ELSE {table}

(* The packet f belongs to, as pending knows it or would begin it. *)
Entry(f) == IF f.id \in DOMAIN FreshPending THEN FreshPending[f.id]
            ELSE [at |-> now, count |-> f.count, parts |-> <<>>]
With(f) == [Entry(f) EXCEPT !.parts = Put(@, f.idx, f)]

(* Mutant of NoRoom: one entry more than the limit. *)
NoRoomLate(f) == /\ f.id \notin DOMAIN FreshPending
                 /\ Cardinality(DOMAIN FreshPending) > PendingCap

(* What push finds out about f's packet. *)
Finished(f) == f.id \in DOMAIN FreshCompleted
NoRoom(f) == /\ f.id \notin DOMAIN FreshPending
             /\ Cardinality(DOMAIN FreshPending) >= PendingCap
Usable(f) == GoodDimensions(f) /\ ~Finished(f) /\ ~NoRoom(f)

(* push, with its five ways out; all but the first leave both tables       *)
(* cleaned up.                                                             *)
Tidy == pending' = FreshPending /\ completed' = FreshCompleted
Push(f) == /\ f \in net /\ ~broken
           /\ arrived' = arrived \cup {<<f.of, f.idx>>}
           /\ UNCHANGED <<now, sent, net>>

(* Bad dimensions, or another count than before: OnTrack closes. *)
Reject(f) ==
    /\ Push(f)
    /\ ~GoodDimensions(f) \/ (Usable(f) /\ Entry(f).count # f.count)
    /\ broken' = TRUE
    /\ IF GoodDimensions(f) THEN Tidy ELSE UNCHANGED <<pending, completed>>
    /\ UNCHANGED <<out, again, excused>>

(* A duplicate, of a packet that is finished or of a part that is there. *)
Ignore(f) ==
    /\ Push(f)
    /\ GoodDimensions(f)
    /\ \/ Finished(f)
       \/ Usable(f) /\ Entry(f).count = f.count /\ f.idx \in DOMAIN Entry(f).parts
    /\ Tidy
    /\ UNCHANGED <<broken, out, again, excused>>

(* A new packet, and pending is full. *)
Refuse(f) ==
    /\ Push(f)
    /\ GoodDimensions(f) /\ ~Finished(f) /\ NoRoom(f)
    /\ Tidy
    /\ excused' = excused \cup {f.of}
    /\ UNCHANGED <<broken, out, again>>

NewPart(f) == Usable(f) /\ Entry(f).count = f.count /\ f.idx \notin DOMAIN Entry(f).parts

(* A part, and another one is missing. *)
Keep(f) ==
    /\ Push(f)
    /\ NewPart(f)
    /\ DOMAIN With(f).parts # 0 .. f.count - 1
    /\ pending' = Put(FreshPending, f.id, With(f))
    /\ completed' = FreshCompleted
    /\ UNCHANGED <<broken, out, again, excused>>

(* The packet put together with f: whose parts it has, and its length. *)
Joined(parts) ==
    [of |-> {parts[i].of : i \in DOMAIN parts},
     len |-> MapThenSumSet(LAMBDA i : parts[i].len, DOMAIN parts)]
Returned(f) == Joined(With(f).parts)

(* The last part: push returns the packet and remembers its id. *)
Complete(f) ==
    /\ Push(f)
    /\ NewPart(f)
    /\ DOMAIN With(f).parts = 0 .. f.count - 1
    /\ pending' = Restrict(FreshPending, DOMAIN FreshPending \ {f.id})
    /\ \E kept \in MakeRoom(FreshCompleted) :
         /\ completed' = Put(kept, f.id, now)
         /\ excused' = excused \cup
              {s \in DOMAIN sent : IdOf(s) \in DOMAIN FreshCompleted \ DOMAIN kept}
    /\ out' = out \cup {Returned(f)}
    /\ again' = again \cup {s \in Returned(f).of : \E b \in out : s \in b.of}
    /\ UNCHANGED broken

(* Time passes, and the network forgets what is too old. *)
Tick == /\ now < MaxTime
        /\ now' = now + 1
        /\ net' = {f \in net : now' - f.born <= Life}
        /\ UNCHANGED <<sent, pending, completed, broken, out, again, arrived, excused>>

Next == \/ (\E n \in Lengths : Send(n)) \/ Tick
        \/ \E f \in net : Reject(f) \/ Ignore(f) \/ Refuse(f) \/ Keep(f) \/ Complete(f)

Spec == Init /\ [][Next]_vars

-----------------------------------------------------------------------------
TypeOK ==
    /\ now \in 0 .. MaxTime /\ broken \in BOOLEAN
    /\ Len(sent) <= MaxPackets
    /\ \A i \in DOMAIN pending : /\ pending[i].at <= now
                                /\ pending[i].count \in 1 .. 2
                                /\ Cardinality(DOMAIN pending[i].parts) = 1
    /\ Cardinality(DOMAIN pending) <= PendingCap
    /\ Cardinality(DOMAIN completed) <= CompletedCap

(* The counter came round while a packet with the same id could still be   *)
(* in the network or in the assembler's memory.  With 2^32 ids and seconds *)
(* of memory that does not happen; with the few ids of a model it does.    *)
Collision ==
    \E s, t \in DOMAIN sent : /\ s < t /\ IdOf(s) = IdOf(t)
                              /\ sent[t].born - sent[s].born <= Life + Expiry

(* No packet is returned twice, unless more than CompletedCap packets were *)
(* completed since and its id was the one evicted.                         *)
NoDuplicates == Collision \/ again \subseteq excused

(* No packet is lost in the assembler: one all of whose fragments arrived  *)
(* was returned, unless pending was full when one of them came (or, which  *)
(* is the excuse of a packet returned twice, its id has been evicted).     *)
NothingLost ==
    \/ Collision
    \/ \A s \in DOMAIN sent :
         (\A i \in 0 .. Count(sent[s].len) - 1 : <<s, i>> \in arrived)
             => s \in excused \/ \E b \in out : s \in b.of

(* Fragments of an honest sender never make push return an error, which    *)
(* would close the connection.                                             *)
NeverRejected == broken => Collision
=============================================================================
