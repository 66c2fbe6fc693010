-------------------------------- MODULE Bridge --------------------------------
(***************************************************************************)
(* internal/tunnel/bridge.go, Bridge: two goroutines copy packets between  *)
(* the tunnel device and the remote PacketConn until one of them fails or  *)
(* the context is cancelled; Bridge then closes both ends and waits for    *)
(* both copiers.  The ends are given by how Bridge uses them: ReadPacket   *)
(* and WritePacket may block and may fail at any time; once the end is     *)
(* closed a write fails, and a read fails or returns a packet that was     *)
(* waiting (sipConn.ReadPacket's select).                                  *)
(***************************************************************************)
EXTENDS Naturals, Sequences, Functions

CONSTANTS Filtered,  \* len(allowed) > 0: Bridge runs in a server
          ErrsCap,   \* capacity of errs, one for each copier
          MaxReads   \* bound: packets each copier reads

ASSUME BridgeAssumption == /\ Filtered \in BOOLEAN
                           /\ {ErrsCap, MaxReads} \subseteq Nat /\ ErrsCap >= 2

(* What ValidateIP and the source check tell apart. *)
Packet == {"good", "spoofed", "invalid"}

(* "out" copies from the device to the remote end, "in" the other way. *)
Copier == {"out", "in"}
End == {"dev", "remote"}
Source(c) == IF c = "out" THEN "dev" ELSE "remote"
Target(c) == IF c = "out" THEN "remote" ELSE "dev"

VARIABLES
    pc,         \* pc[c]: where copier c is
    packet,     \* packet[c]: the number of the packet it has read
    errs,       \* how many errors are in errs
    closed,     \* the ends that have been closed
    main,       \* where Bridge itself is
    cancelled,  \* the context given to Bridge is cancelled
    after,      \* the AfterFunc: armed, finished, or the end it closes next
    taken,      \* history: the packets each copier has read, in order
    passed      \* history: the numbers of those it has written, in order

vars == <<pc, packet, errs, closed, main, cancelled, after, taken, passed>>
copierVars == <<pc, packet, taken, passed>>

Init == /\ pc = [c \in Copier |-> "read"]
        /\ packet = [c \in Copier |-> 0]
        /\ errs = 0 /\ closed = {} /\ main = "select" /\ cancelled = FALSE
        /\ after = "armed"
        /\ taken = [c \in Copier |-> <<>>]
        /\ passed = [c \in Copier |-> <<>>]

-----------------------------------------------------------------------------
(* The packets a copier hands on; it skips a forged one and fails on an    *)
(* invalid one.                                                            *)
Forged(c, p) == p = "spoofed" /\ c = "in" /\ Filtered
Vetted(c, p) == p # "invalid" /\ ~Forged(c, p)

(* Mutant of Read: the source of a packet is not looked at. *)
ReadUnchecked(c, p) ==
    /\ pc[c] = "read"
    /\ Len(taken[c]) < MaxReads
    /\ taken' = [taken EXCEPT ![c] = Append(@, p)]
    /\ packet' = [packet EXCEPT ![c] = Len(taken[c]) + 1]
    /\ pc' = [pc EXCEPT ![c] = IF p = "invalid" THEN "fail" ELSE "write"]
    /\ UNCHANGED <<errs, closed, main, cancelled, after, passed>>

(* src.ReadPacket returns a packet, and the copier checks it. *)
Read(c, p) ==
    /\ pc[c] = "read"
    /\ Len(taken[c]) < MaxReads
    /\ taken' = [taken EXCEPT ![c] = Append(@, p)]
    /\ packet' = [packet EXCEPT ![c] = Len(taken[c]) + 1]
    /\ pc' = [pc EXCEPT ![c] = IF Vetted(c, p) THEN "write"
                               ELSE IF p = "invalid" THEN "fail" ELSE "read"]
    /\ UNCHANGED <<errs, closed, main, cancelled, after, passed>>

(* dst.WritePacket succeeds. *)
Write(c) ==
    /\ pc[c] = "write"
    /\ Target(c) \notin closed
    /\ passed' = [passed EXCEPT ![c] = Append(@, packet[c])]
    /\ pc' = [pc EXCEPT ![c] = "read"]
    /\ UNCHANGED <<packet, errs, closed, main, cancelled, after, taken>>

(* ReadPacket or WritePacket fails. *)
EndFails(c) ==
    /\ pc[c] \in {"read", "write"}
    /\ pc' = [pc EXCEPT ![c] = "fail"]
    /\ UNCHANGED <<packet, errs, closed, main, cancelled, after, taken, passed>>

(* Mutant of ReportError: errs without a buffer. *)
ReportErrorUnbuffered(c) ==
    /\ pc[c] = "fail"
    /\ main = "select" /\ errs = 0
    /\ errs' = errs + 1
    /\ pc' = [pc EXCEPT ![c] = "stopped"]
    /\ UNCHANGED <<packet, closed, main, cancelled, after, taken, passed>>

(* errs <- e; return; wg.Done. *)
ReportError(c) ==
    /\ pc[c] = "fail"
    /\ errs < ErrsCap
    /\ errs' = errs + 1
    /\ pc' = [pc EXCEPT ![c] = "stopped"]
    /\ UNCHANGED <<packet, closed, main, cancelled, after, taken, passed>>

-----------------------------------------------------------------------------
(* Bridge's select: an error, or the context.  It then cancels its own     *)
(* context, which fires the AfterFunc.                                     *)
Leave ==
    /\ main = "select"
    /\ \/ errs > 0 /\ errs' = errs - 1
       \/ cancelled /\ UNCHANGED errs
    /\ main' = "close"
    /\ after' = IF after = "armed" THEN "dev" ELSE after
    /\ UNCHANGED <<copierVars, closed, cancelled>>

(* dev.Close(); remote.Close() *)
CloseEnds ==
    /\ main = "close"
    /\ closed' = End
    /\ main' = "wait"
    /\ UNCHANGED <<copierVars, errs, cancelled, after>>

(* Mutant of Return: no wg.Wait(). *)
ReturnAtOnce ==
    /\ main = "wait"
    /\ main' = "returned"
    /\ UNCHANGED <<copierVars, errs, closed, cancelled, after>>

(* wg.Wait(), and return. *)
Return ==
    /\ main = "wait"
    /\ \A c \in Copier : pc[c] = "stopped"
    /\ main' = "returned"
    /\ UNCHANGED <<copierVars, errs, closed, cancelled, after>>

(* The caller's context is cancelled, which fires the AfterFunc too. *)
Cancel ==
    /\ ~cancelled /\ main # "returned"
    /\ cancelled' = TRUE
    /\ after' = IF after = "armed" THEN "dev" ELSE after
    /\ UNCHANGED <<copierVars, errs, closed, main>>

(* The AfterFunc closes the ends in a goroutine of its own. *)
AfterFunc ==
    /\ after \in End
    /\ closed' = closed \cup {after}
    /\ after' = IF after = "dev" THEN "remote" ELSE "finished"
    /\ UNCHANGED <<copierVars, errs, main, cancelled>>

CopierStep(c) == (\E p \in Packet : Read(c, p)) \/ Write(c) \/ EndFails(c) \/ ReportError(c)

Next == \/ \E c \in Copier : CopierStep(c)
        \/ Leave \/ CloseEnds \/ Return \/ Cancel \/ AfterFunc

Spec == Init /\ [][Next]_vars

(* Goroutines run.  A read or write is only sure to end at a closed end:   *)
(* there it fails.                                                         *)
Interrupted(c) == EndFails(c) /\ \/ pc[c] = "read" /\ Source(c) \in closed
                                 \/ pc[c] = "write" /\ Target(c) \in closed
LiveSpec == /\ Spec
            /\ WF_vars(Leave) /\ WF_vars(CloseEnds) /\ WF_vars(Return) /\ WF_vars(AfterFunc)
            /\ \A c \in Copier : WF_vars(Interrupted(c)) /\ WF_vars(ReportError(c))

-----------------------------------------------------------------------------
TypeOK ==
    /\ pc \in [Copier -> {"read", "write", "fail", "stopped"}]
    /\ packet \in [Copier -> Nat]
    /\ errs \in 0 .. ErrsCap /\ closed \subseteq End
    /\ main \in {"select", "close", "wait", "returned"}
    /\ cancelled \in BOOLEAN /\ after \in End \cup {"armed", "finished"}
    /\ taken \in [Copier -> Seq(Packet)] /\ passed \in [Copier -> Seq(Nat)]

(* Once Bridge has returned, nobody reads or writes the device any more,   *)
(* so runTUN can restore the network and destroy it; both ends are closed. *)
JoinedOnReturn ==
    main = "returned" => closed = End /\ \A c \in Copier : pc[c] = "stopped"

(* A copier that has failed can leave its error without waiting for        *)
(* Bridge, which after its select takes no more of them: wg.Wait cannot    *)
(* hang on errs <- e.                                                      *)
ErrorsHaveRoom == \A c \in Copier : pc[c] = "fail" => errs < ErrsCap

(* Each copier passes on exactly the vetted ones of the packets it has     *)
(* read, each once and in order, except for the one in its hands or lost   *)
(* to a failure: a server never hands the device a packet with a source    *)
(* other than its client's, and no packet is skipped in a session's life.  *)
PassesVetted ==
    \A c \in Copier :
        /\ Range(passed[c]) \subseteq DOMAIN taken[c]
        /\ \A i, j \in DOMAIN passed[c] : i < j => passed[c][i] < passed[c][j]
        /\ \A n \in DOMAIN taken[c] :
              IF n \in Range(passed[c]) THEN Vetted(c, taken[c][n])
              ELSE Vetted(c, taken[c][n]) => n = Len(taken[c]) /\ pc[c] # "read"

(* When the context is cancelled, or either end fails, Bridge returns.     *)
AlwaysReturns ==
    (cancelled \/ \E c \in Copier : pc[c] = "fail") ~> main = "returned"
=============================================================================
