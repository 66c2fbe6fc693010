------------------------ MODULE NetworkManagerProofs ------------------------
(***************************************************************************)
(* The undo log of NetworkManager is right for every plan, whatever fails, *)
(* as long as no do command is killed after it took effect.                *)
(*                                                                         *)
(* The argument: the log holds steps in plan order (Sorted), so Close,     *)
(* which walks it from the end, takes back later steps first; what Close   *)
(* could not take back comes after everything it has still to visit, in    *)
(* reverse order, so reversing it once restores plan order.  Every effect  *)
(* stays owed throughout (EffectsOwed), and a Setup or Close that reports  *)
(* no CleanupError owes nothing any more (NothingOwed).                    *)
(***************************************************************************)
EXTENDS NetworkManager, TLAPS

(* The log is in plan order, before the step Setup is at; the failed undos *)
(* are in reverse order, after all that Close has still to undo.           *)
Sorted ==
    /\ \A j, k \in 1 .. Len(undo) : j < k => undo[j] < undo[k]
    /\ \A j, k \in 1 .. Len(failed) : j < k => failed[k] < failed[j]
    /\ phase \in {"setup", "command"} => \A k \in 1 .. Len(undo) : undo[k] < step
    /\ phase = "closing" =>
         \A j \in 1 .. at, k \in 1 .. Len(failed) : undo[j] < failed[k]

NothingOwed == phase = "closed" /\ result # "cleanup" => undo = <<>>

(* A command runs only for a step of the plan that adds something. *)
CommandRuns == phase = "command" => step \in OfKind(Adds)

IInv == TypeOK /\ CommandRuns /\ Sorted /\ EffectsOwed /\ NothingOwed

-----------------------------------------------------------------------------
(* The sets the definitions range over. *)
LEMMA Sets == /\ Len(Plan) \in Nat
              /\ Step = 1 .. Len(Plan)
              /\ Undoable \subseteq Step
              /\ \A K : OfKind(K) \subseteq Step
  BY ManagerAssumption DEF Undoable, OfKind, Step

(* What a log holds are numbers of steps. *)
LEMMA Members ==
  ASSUME NEW s \in Seq(Undoable)
  PROVE  /\ Len(s) \in Nat
         /\ \A k \in 1 .. Len(s) : s[k] \in Undoable /\ s[k] \in Step /\ s[k] \in Nat
<1>1. Len(s) \in Nat /\ \A k \in 1 .. Len(s) : s[k] \in Undoable
  OBVIOUS
<1>2. Undoable \subseteq Step /\ Step \subseteq Nat
  BY Sets
<1> QED
  BY <1>1, <1>2

(* Initially nothing is logged and nothing is in place. *)
LEMMA InitIInv == Init => IInv
<1> SUFFICES ASSUME Init PROVE IInv
  OBVIOUS
<1> USE DEF Init
<1>1. TypeOK
  <2>1. step \in 1 .. Len(Plan) + 1
    BY Sets
  <2>2. undo \in Seq(Undoable) /\ failed \in Seq(Undoable) /\ at \in 0 .. Len(undo)
    OBVIOUS
  <2> QED
    BY <2>1, <2>2 DEF TypeOK, Phases, Results
<1>2. CommandRuns /\ NothingOwed /\ EffectsOwed
  BY DEF CommandRuns, NothingOwed, EffectsOwed
<1>3. Sorted
  BY DEF Sorted
<1> QED
  BY <1>1, <1>2, <1>3 DEF IInv

(* A log Setup may hold at a step: in plan order, and it covers what is in *)
(* place.                                                                  *)
GoodLog(log, in) ==
    /\ log \in Seq(Undoable)
    /\ \A j, k \in 1 .. Len(log) : j < k => log[j] < log[k]
    /\ in \subseteq Step
    /\ in \cap Undoable \subseteq Range(log)

(* Giving up with a good log starts a Close that owes all of it. *)
LEMMA RollbackIInv ==
  ASSUME TypeOK, NEW log, GoodLog(log, kernel'), Rollback(log),
         UNCHANGED <<device, cancelled>>
  PROVE  IInv'
<1> USE DEF Rollback, GoodLog
<1>1. Len(log) \in Nat /\ at' = Len(undo') /\ undo' = log /\ failed' = <<>>
  OBVIOUS
<1>2. TypeOK'
  BY <1>1, Sets DEF TypeOK, Phases, Results
<1>3. Sorted'
  BY <1>1 DEF Sorted
<1>4. Range(log) = {undo'[k] : k \in 1 .. at'}
  BY <1>1 DEF Range
<1>5. EffectsOwed'
  BY <1>1, <1>4 DEF EffectsOwed, Owed
<1>6. CommandRuns' /\ NothingOwed'
  BY DEF CommandRuns, NothingOwed
<1> QED
  BY <1>2, <1>3, <1>5, <1>6 DEF IInv

(* Going on with a good log of steps up to this one. *)
LEMMA ContinueIInv ==
  ASSUME TypeOK, Sorted, NEW log, GoodLog(log, kernel'), Continue(log),
         step \in Step, \A k \in 1 .. Len(log) : log[k] <= step,
         at <= Len(log),
         UNCHANGED <<device, cancelled>>
  PROVE  IInv'
<1> USE DEF Continue, GoodLog
<1>1. Len(log) \in Nat /\ undo' = log /\ failed' = failed /\ at' = at
  OBVIOUS
<1>2. TypeOK'
  BY <1>1, Sets DEF TypeOK, Phases, Results
<1>3. \A k \in 1 .. Len(log) : log[k] < step'
  <2>1. \A k \in 1 .. Len(log) : log[k] \in Nat
    BY Members
  <2> QED
    BY <2>1, Sets
<1>4. Sorted'
  BY <1>1, <1>3 DEF Sorted
<1>5. EffectsOwed'
  BY DEF EffectsOwed, Owed
<1>6. CommandRuns' /\ NothingOwed'
  BY DEF CommandRuns, NothingOwed
<1> QED
  BY <1>2, <1>4, <1>5, <1>6 DEF IInv

(* The log Setup holds between two commands is good. *)
LEMMA SetupLog ==
  ASSUME IInv, phase \in {"setup", "command"}
  PROVE  /\ GoodLog(undo, kernel)
         /\ \A k \in 1 .. Len(undo) : undo[k] < step
         /\ Len(undo) \in Nat /\ at \in 0 .. Len(undo)
<1>1. /\ undo \in Seq(Undoable) /\ Len(undo) \in Nat /\ at \in 0 .. Len(undo)
      /\ kernel \subseteq Step
  BY DEF IInv, TypeOK
<1>2. /\ \A k \in 1 .. Len(undo) : undo[k] < step
      /\ \A j, k \in 1 .. Len(undo) : j < k => undo[j] < undo[k]
  BY DEF IInv, Sorted
<1>3. kernel \cap Undoable \subseteq Range(undo)
  BY DEF IInv, EffectsOwed, Owed
<1> QED
  BY <1>1, <1>2, <1>3 DEF GoodLog

-----------------------------------------------------------------------------
(* One lemma per group of actions: each keeps the inductive invariant. *)

LEMMA SetupIInv == ASSUME IInv, Restored, Setup PROVE IInv'
<1> USE DEF Setup, IInv
<1>1. TypeOK'
  <2>1. step' \in 1 .. Len(Plan) + 1
    BY Sets
  <2>2. undo' \in Seq(Undoable) /\ failed' \in Seq(Undoable) /\ at' \in 0 .. Len(undo')
    OBVIOUS
  <2> QED
    BY <2>1, <2>2 DEF TypeOK, Phases, Results
<1>2. Sorted'
  BY DEF Sorted
<1>3. EffectsOwed'
  BY DEF EffectsOwed, Restored
<1>4. CommandRuns' /\ NothingOwed'
  BY DEF CommandRuns, NothingOwed
<1> QED
  BY <1>1, <1>2, <1>3, <1>4

LEMMA ReadSkipIInv == ASSUME IInv, Read \/ Skip PROVE IInv'
<1>1. phase = "setup" /\ step \in Step /\ UNCHANGED <<kernel, device, cancelled>>
  BY Sets DEF Read, Skip
<1>2. Rollback(undo) \/ Continue(undo)
  BY DEF Read, Skip
<1>3. /\ GoodLog(undo, kernel')
      /\ \A k \in 1 .. Len(undo) : undo[k] < step
      /\ Len(undo) \in Nat /\ at \in 0 .. Len(undo)
  BY <1>1, SetupLog
<1>4. CASE Rollback(undo)
  BY <1>1, <1>3, <1>4, RollbackIInv DEF IInv
<1>5. CASE Continue(undo)
  <2>1. \A k \in 1 .. Len(undo) : undo[k] <= step
    <3>1. \A k \in 1 .. Len(undo) : undo[k] \in Nat
      BY <1>3, Members DEF GoodLog
    <3> QED
      BY <1>1, <1>3, <3>1, Sets
  <2> QED
    BY <1>1, <1>3, <1>5, <2>1, ContinueIInv DEF IInv
<1> QED
  BY <1>2, <1>4, <1>5

LEMMA AddStartIInv == ASSUME IInv, AddStart PROVE IInv'
<1>1. CASE Rollback(undo)
  <2>1. GoodLog(undo, kernel')
    BY SetupLog DEF AddStart
  <2> QED
    BY <1>1, <2>1, RollbackIInv DEF AddStart, IInv
<1>2. CASE phase' = "command" /\ UNCHANGED <<step, undo, at, failed, verdict, result>>
  <2> USE <1>2 DEF AddStart, IInv
  <2>1. TypeOK' /\ CommandRuns' /\ NothingOwed'
    BY DEF TypeOK, CommandRuns, NothingOwed, Phases, Results
  <2>2. Sorted' /\ EffectsOwed'
    BY DEF Sorted, EffectsOwed, Owed
  <2> QED
    BY <2>1, <2>2
<1> QED
  BY <1>1, <1>2 DEF AddStart

(* The log with the undo of the step just made is good as well. *)
LEMMA AddSucceedsIInv == ASSUME IInv, AddSucceeds PROVE IInv'
<1> DEFINE log == Record(undo, step)
<1>1. phase = "command" /\ step \in Step /\ UNCHANGED <<device, cancelled>>
      /\ kernel' = kernel \cup {step}
  BY Sets DEF AddSucceeds, IInv, CommandRuns
<1>2. /\ GoodLog(undo, kernel)
      /\ \A k \in 1 .. Len(undo) : undo[k] < step
      /\ Len(undo) \in Nat /\ at \in 0 .. Len(undo)
  BY <1>1, SetupLog
<1>3. /\ GoodLog(log, kernel')
      /\ \A k \in 1 .. Len(log) : log[k] <= step
      /\ Len(undo) <= Len(log)
  <2>1. CASE step \notin Undoable
    <3>1. log = undo
      BY <2>1 DEF Record
    <3>2. \A k \in 1 .. Len(undo) : undo[k] \in Nat
      BY <1>2, Members DEF GoodLog
    <3>3. kernel' \cap Undoable = kernel \cap Undoable /\ kernel' \subseteq Step
      BY <1>1, <1>2, <2>1 DEF GoodLog
    <3> QED
      BY <1>1, <1>2, <3>1, <3>2, <3>3, Sets DEF GoodLog
  <2>2. CASE step \in Undoable
    <3>1. /\ log = Append(undo, step) /\ log \in Seq(Undoable)
          /\ Len(log) = Len(undo) + 1
          /\ \A k \in 1 .. Len(undo) : log[k] = undo[k]
          /\ log[Len(undo) + 1] = step
      BY <1>2, <2>2 DEF Record, GoodLog
    <3>2. \A k \in 1 .. Len(undo) : undo[k] \in Nat
      BY <1>2, Members DEF GoodLog
    <3>3. \A k \in 1 .. Len(log) : log[k] <= step
      BY <1>1, <1>2, <3>1, <3>2, Sets
    <3>4. \A j, k \in 1 .. Len(log) : j < k => log[j] < log[k]
      <4> SUFFICES ASSUME NEW j \in 1 .. Len(log), NEW k \in 1 .. Len(log), j < k
                   PROVE  log[j] < log[k]
        OBVIOUS
      <4> HIDE DEF log
      <4>1. j \in 1 .. Len(undo) /\ log[j] = undo[j]
        BY <1>2, <3>1
      <4>2. CASE k = Len(undo) + 1
        BY <1>2, <3>1, <4>1, <4>2
      <4>3. CASE k \in 1 .. Len(undo)
        BY <1>2, <3>1, <4>1, <4>3 DEF GoodLog
      <4> QED
        BY <1>2, <3>1, <4>2, <4>3
    <3>5. Range(undo) \cup {step} \subseteq Range(log)
      BY <1>2, <3>1 DEF Range, GoodLog
    <3>6. kernel' \subseteq Step /\ kernel' \cap Undoable \subseteq Range(log)
      BY <1>1, <1>2, <3>5 DEF GoodLog
    <3> QED
      BY <1>2, <3>1, <3>3, <3>4, <3>6 DEF GoodLog
  <2> QED
    BY <2>1, <2>2
<1>4. at <= Len(log)
  BY <1>2, <1>3 DEF GoodLog
<1>5. CASE cancelled
  <2>1. Rollback(log)
    BY <1>5 DEF AddSucceeds, Recorded
  <2> QED
    BY <1>1, <1>3, <2>1, RollbackIInv DEF IInv
<1>6. CASE ~cancelled
  <2>1. Continue(log)
    BY <1>6 DEF AddSucceeds, Recorded
  <2> QED
    BY <1>1, <1>3, <1>4, <2>1, ContinueIInv DEF IInv
<1> QED
  BY <1>5, <1>6

LEMMA AddFailsIInv ==
  ASSUME IInv, AddFails, "killedDo" \notin Faults PROVE IInv'
<1>1. UNCHANGED <<kernel, device, cancelled>> /\ Rollback(undo)
  BY DEF AddFails, Unrecorded
<1>2. GoodLog(undo, kernel')
  BY <1>1, SetupLog DEF AddFails
<1> QED
  BY <1>1, <1>2, RollbackIInv DEF IInv

(* Close of a good log is like giving up with it.                          *)
LEMMA CloseIInv == ASSUME IInv, Close PROVE IInv'
<1> USE DEF Close, LastUndo, IInv
<1>1. Len(undo) \in Nat /\ phase # "closing"
  BY DEF TypeOK
<1>2. TypeOK'
  BY <1>1 DEF TypeOK, Phases, Results
<1>3. Sorted'
  BY <1>1 DEF Sorted
<1>4. Range(undo) = {undo'[k] : k \in 1 .. at'}
  BY <1>1 DEF Range, TypeOK
<1>5. EffectsOwed'
  BY <1>1, <1>4 DEF EffectsOwed, Owed
<1>6. CommandRuns' /\ NothingOwed'
  BY DEF CommandRuns, NothingOwed
<1> QED
  BY <1>2, <1>3, <1>5, <1>6

LEMMA SetupReturnsIInv == ASSUME IInv, SetupReturns PROVE IInv'
<1> USE DEF SetupReturns, IInv
<1>1. TypeOK' /\ CommandRuns' /\ NothingOwed'
  BY DEF TypeOK, CommandRuns, NothingOwed, Phases, Results
<1>2. Sorted' /\ EffectsOwed'
  BY DEF Sorted, EffectsOwed, Owed
<1> QED
  BY <1>1, <1>2

(* The world around the Manager only takes effects away, and cancels.      *)
LEMMA WorldIInv ==
  ASSUME IInv, UNCHANGED managerVars, kernel' \subseteq kernel,
         device' \in BOOLEAN, cancelled' \in BOOLEAN
  PROVE  IInv'
<1> USE DEF managerVars, IInv
<1>1. TypeOK' /\ CommandRuns' /\ NothingOwed'
  BY DEF TypeOK, CommandRuns, NothingOwed
<1>2. Sorted'
  BY DEF Sorted
<1>3. EffectsOwed'
  <2>1. Owed' = Owed
    BY DEF Owed
  <2> QED
    BY <2>1 DEF EffectsOwed
<1> QED
  BY <1>1, <1>2, <1>3

LEMMA AroundIInv ==
  ASSUME IInv, DeviceOpen \/ DeviceClose \/ Cancel \/ UNCHANGED vars PROVE IInv'
<1>1. UNCHANGED managerVars /\ kernel' \subseteq kernel
      /\ device' \in BOOLEAN /\ cancelled' \in BOOLEAN
  BY DEF DeviceOpen, DeviceClose, Cancel, vars, IInv, TypeOK
<1> QED
  BY <1>1, WorldIInv

(* An undo that worked, or was not needed: the loop moves on and nothing   *)
(* of that step is in place.                                               *)
LEMMA UndoneIInv == ASSUME IInv, UndoSucceeds \/ NotInTable PROVE IInv'
<1>1. /\ phase = "closing" /\ at > 0 /\ at' = at - 1
      /\ kernel' \subseteq kernel /\ undo[at] \notin kernel'
      /\ UNCHANGED <<phase, step, undo, failed, verdict, result, device, cancelled>>
  BY DEF UndoSucceeds, NotInTable, Forgiven
<1>2. at \in Nat /\ at' \in Nat /\ at <= Len(undo) /\ Len(undo) \in Nat
      /\ 1 .. at = (1 .. at') \cup {at}
  BY <1>1 DEF IInv, TypeOK
<1> USE <1>1 DEF IInv
<1>3. TypeOK' /\ CommandRuns' /\ NothingOwed'
  BY <1>2 DEF TypeOK, CommandRuns, NothingOwed, Phases, Results
<1>4. Sorted'
  BY <1>2 DEF Sorted
<1>5. EffectsOwed'
  <2>1. {undo[k] : k \in 1 .. at} = {undo[k] : k \in 1 .. at'} \cup {undo[at]}
    BY <1>2
  <2> QED
    BY <2>1 DEF EffectsOwed, Owed
<1> QED
  BY <1>3, <1>4, <1>5

(* An undo that failed joins the failed ones, behind later steps only. *)
LEMMA UndoFailsIInv == ASSUME IInv, UndoFails PROVE IInv'
<1>1. /\ phase = "closing" /\ at > 0 /\ at' = at - 1
      /\ kernel' \subseteq kernel /\ failed' = Append(failed, undo[at])
      /\ UNCHANGED <<phase, step, undo, verdict, result, device, cancelled>>
  BY DEF UndoFails
<1>2. at \in Nat /\ at' \in Nat /\ at <= Len(undo) /\ Len(undo) \in Nat
      /\ at \in 1 .. Len(undo) /\ 1 .. at = (1 .. at') \cup {at}
  BY <1>1 DEF IInv, TypeOK
<1>3. /\ failed \in Seq(Undoable) /\ undo \in Seq(Undoable) /\ Len(failed) \in Nat
      /\ undo[at] \in Undoable
      /\ \A k \in 1 .. Len(failed) : failed[k] \in Nat
      /\ \A k \in 1 .. Len(undo) : undo[k] \in Nat
  BY <1>2, Members DEF IInv, TypeOK
<1>4. /\ failed' \in Seq(Undoable) /\ Len(failed') = Len(failed) + 1
      /\ failed'[Len(failed) + 1] = undo[at]
      /\ \A k \in 1 .. Len(failed) : failed'[k] = failed[k]
  BY <1>1, <1>3
<1>5. TypeOK' /\ CommandRuns' /\ NothingOwed'
  BY <1>1, <1>2, <1>4 DEF IInv, TypeOK, CommandRuns, NothingOwed, Phases, Results
<1>6. /\ \A j, k \in 1 .. Len(undo) : j < k => undo[j] < undo[k]
      /\ \A j, k \in 1 .. Len(failed) : j < k => failed[k] < failed[j]
      /\ \A j \in 1 .. at, k \in 1 .. Len(failed) : undo[j] < failed[k]
  BY <1>1 DEF IInv, Sorted
<1>7. Sorted'
  <2>1. \A j, k \in 1 .. Len(failed') : j < k => failed'[k] < failed'[j]
    <3> SUFFICES ASSUME NEW j \in 1 .. Len(failed'), NEW k \in 1 .. Len(failed'), j < k
                 PROVE  failed'[k] < failed'[j]
      OBVIOUS
    <3>1. j \in 1 .. Len(failed) /\ failed'[j] = failed[j]
      BY <1>3, <1>4
    <3>2. CASE k = Len(failed) + 1
      BY <1>2, <1>4, <1>6, <3>1, <3>2
    <3>3. CASE k \in 1 .. Len(failed)
      BY <1>4, <1>6, <3>1, <3>3
    <3> QED
      BY <1>3, <1>4, <3>2, <3>3
  <2>2. \A j \in 1 .. at', k \in 1 .. Len(failed') : undo[j] < failed'[k]
    <3> SUFFICES ASSUME NEW j \in 1 .. at', NEW k \in 1 .. Len(failed')
                 PROVE  undo[j] < failed'[k]
      OBVIOUS
    <3>1. j \in 1 .. at /\ j \in 1 .. Len(undo) /\ j < at
      BY <1>1, <1>2
    <3>2. CASE k = Len(failed) + 1
      BY <1>2, <1>4, <1>6, <3>1, <3>2
    <3>3. CASE k \in 1 .. Len(failed)
      BY <1>4, <1>6, <3>1, <3>3
    <3> QED
      BY <1>3, <1>4, <3>2, <3>3
  <2> QED
    BY <1>1, <1>6, <2>1, <2>2 DEF Sorted
<1>8. EffectsOwed'
  <2>1. {undo[k] : k \in 1 .. at} = {undo[k] : k \in 1 .. at'} \cup {undo[at]}
    BY <1>2
  <2>2. Range(failed) \cup {undo[at]} \subseteq Range(failed')
    <3>1. DOMAIN failed = 1 .. Len(failed) /\ DOMAIN failed' = 1 .. Len(failed')
      BY <1>3, <1>4
    <3>2. 1 .. Len(failed) \subseteq 1 .. Len(failed') /\ Len(failed) + 1 \in 1 .. Len(failed')
      BY <1>3, <1>4
    <3> QED
      BY <1>4, <3>1, <3>2 DEF Range
  <2> QED
    BY <1>1, <2>1, <2>2 DEF IInv, EffectsOwed, Owed
<1> QED
  BY <1>5, <1>7, <1>8 DEF IInv

(* Close has visited everything: the failed undos, reversed, are in plan   *)
(* order again, and none is lost.                                          *)
LEMMA CloseReturnsIInv == ASSUME IInv, CloseReturns PROVE IInv'
<1>1. /\ phase = "closing" /\ at = 0 /\ phase' = "closed" /\ undo' = Reverse(failed)
      /\ result' = IF failed = <<>> THEN verdict ELSE "cleanup"
      /\ UNCHANGED <<step, at, failed, verdict, kernel, device, cancelled>>
  BY DEF CloseReturns, Retained, Outcome
<1> DEFINE n == Len(failed)
<1>2. /\ failed \in Seq(Undoable) /\ n \in Nat
      /\ \A k \in 1 .. n : failed[k] \in Undoable /\ failed[k] \in Nat
  BY Members DEF IInv, TypeOK
<1>3. undo' = [i \in 1 .. n |-> failed[(n - i) + 1]]
  BY <1>1 DEF Reverse
<1>4. \A i \in 1 .. n : (n - i) + 1 \in 1 .. n
  BY <1>2
<1>5. /\ undo' \in Seq(Undoable) /\ Len(undo') = n
      /\ \A i \in 1 .. n : undo'[i] = failed[(n - i) + 1]
  BY <1>2, <1>3, <1>4
<1>6. TypeOK' /\ CommandRuns'
  BY <1>1, <1>2, <1>5 DEF IInv, TypeOK, CommandRuns, Phases, Results
<1>7. Sorted'
  <2>1. \A j, k \in 1 .. n : j < k => undo'[j] < undo'[k]
    <3> SUFFICES ASSUME NEW j \in 1 .. n, NEW k \in 1 .. n, j < k
                 PROVE  undo'[j] < undo'[k]
      OBVIOUS
    <3>1. (n - k) + 1 < (n - j) + 1
      BY <1>2
    <3>2. failed[(n - j) + 1] < failed[(n - k) + 1]
      BY <1>4, <3>1 DEF IInv, Sorted
    <3> QED
      BY <1>5, <3>2
  <2> QED
    BY <1>1, <1>5, <2>1 DEF IInv, Sorted
<1>8. EffectsOwed'
  <2>1. Range(failed) \subseteq Range(undo')
    <3> SUFFICES ASSUME NEW k \in 1 .. n PROVE failed[k] \in Range(undo')
      BY <1>2 DEF Range
    <3>1. (n - k) + 1 \in 1 .. n /\ (n - ((n - k) + 1)) + 1 = k
      BY <1>2
    <3>2. undo'[(n - k) + 1] = failed[k]
      BY <1>5, <3>1
    <3>3. (n - k) + 1 \in DOMAIN undo'
      BY <1>3, <3>1
    <3> QED
      BY <3>2, <3>3 DEF Range
  <2>2. {undo[k] : k \in 1 .. at} = {}
    BY <1>1
  <2> QED
    BY <1>1, <2>1, <2>2 DEF IInv, EffectsOwed, Owed
<1>9. NothingOwed'
  <2>1. CASE failed = <<>>
    BY <1>2, <1>3, <2>1 DEF NothingOwed
  <2>2. CASE failed # <<>>
    BY <1>1, <2>2 DEF NothingOwed
  <2> QED
    BY <2>1, <2>2
<1> QED
  BY <1>6, <1>7, <1>8, <1>9 DEF IInv

(* The three facts that make IInv an invariant that implies the rest. *)
LEMMA NextIInv ==
  ASSUME IInv, [Next]_vars, "killedDo" \notin Faults PROVE IInv'
  BY SetupIInv, ReadSkipIInv, AddStartIInv, AddSucceedsIInv, AddFailsIInv,
     SetupReturnsIInv, CloseIInv, UndoneIInv, UndoFailsIInv, CloseReturnsIInv,
     AroundIInv DEF Next, ManagerStep

LEMMA IInvImplies == IInv => TypeOK /\ EffectsOwed /\ LatestFirst /\ CleanMeansRestored
<1> SUFFICES ASSUME IInv PROVE LatestFirst /\ CleanMeansRestored
  BY DEF IInv
<1>1. LatestFirst
  <2> SUFFICES ASSUME phase = "closing", at > 0, NEW i \in kernel \cap Undoable,
                      i \notin Range(failed)
               PROVE  i <= undo[at]
    BY DEF LatestFirst
  <2>1. PICK k \in 1 .. at : i = undo[k]
    BY DEF IInv, EffectsOwed, Owed
  <2>2. at \in 1 .. Len(undo) /\ k \in 1 .. Len(undo) /\ Len(undo) \in Nat
        /\ undo[k] \in Nat /\ undo[at] \in Nat
    BY Members DEF IInv, TypeOK
  <2> QED
    BY <2>1, <2>2 DEF IInv, Sorted
<1>2. CleanMeansRestored
  <2> SUFFICES ASSUME phase = "closed", result # "cleanup" PROVE Restored
    BY DEF CleanMeansRestored
  <2>1. undo = <<>>
    BY DEF IInv, NothingOwed
  <2>2. Range(undo) = {}
    BY <2>1 DEF Range
  <2> QED
    BY <2>2 DEF IInv, EffectsOwed, Owed, Restored
<1> QED
  BY <1>1, <1>2

-----------------------------------------------------------------------------
(* If no do command is killed after taking effect, the inductive invariant *)
(* holds of the Manager with every plan, whatever else fails.              *)
THEOREM ManagerInvariant == ASSUME "killedDo" \notin Faults PROVE Spec => []IInv
<1>1. Init => IInv
  BY InitIInv
<1>2. IInv /\ [Next]_vars => IInv'
  BY NextIInv
<1> QED
  BY <1>1, <1>2, PTL DEF Spec

(* The types of the Manager's state. *)
THEOREM ManagerTypes == ASSUME "killedDo" \notin Faults PROVE Spec => []TypeOK
  BY ManagerInvariant, IInvImplies, PTL

(* Every change in place has its undo recorded: Manager.add and Close      *)
(* never lose one, whichever command fails and whenever ctx is cancelled.  *)
THEOREM ManagerOwes == ASSUME "killedDo" \notin Faults PROVE Spec => []EffectsOwed
  BY ManagerInvariant, IInvImplies, PTL

(* Close takes changes back latest first, on the first call and on every   *)
(* retry.                                                                  *)
THEOREM ManagerUndoesLatestFirst ==
  ASSUME "killedDo" \notin Faults PROVE Spec => []LatestFirst
  BY ManagerInvariant, IInvImplies, PTL

(* A Setup or Close that reports no CleanupError has restored the network. *)
THEOREM ManagerRestores ==
  ASSUME "killedDo" \notin Faults PROVE Spec => []CleanMeansRestored
  BY ManagerInvariant, IInvImplies, PTL
=============================================================================
