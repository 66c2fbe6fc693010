-------------------------- MODULE TunSessionProofs --------------------------
(***************************************************************************)
(* The process keeps the Manager's contract and exits clean, for every     *)
(* plan, either role and any number of sessions.                           *)
(*                                                                         *)
(* The argument follows main's control flow: where a new session can start *)
(* (Clean at "connect" and "open") the network is restored and the device  *)
(* gone, or the server has cancelled its context after a failed cleanup,   *)
(* and then runTUN returns before it opens a device.  So Setup finds a     *)
(* restored network, the steps of the process are steps of NetworkManager, *)
(* and its invariant IInv is available here.                               *)
(***************************************************************************)
EXTENDS TunSession, NetworkManagerProofs

(* The device's own configuration lives and dies with the device. *)
DeviceInv == /\ kernel \subseteq OfKind(Adds)
             /\ phase \in {"setup", "command"} => device
             /\ ~device => kernel \subseteq Undoable

(* Where the Manager can be while the process is at pc. *)
PhaseAt ==
    /\ pc \in {"connect", "open", "setup", "judge", "wait", "exited"} =>
         phase \in {"idle", "closed"}
    /\ pc \in {"bridge", "cleanup"} => phase = "up"
    /\ pc = "inClose" => phase \in {"closing", "closed"}
    /\ pc = "devClose" => phase = "closed"

MainTypeOK ==
    /\ pc \in {"connect", "open", "setup", "inSetup", "bridge", "cleanup",
               "inClose", "devClose", "judge", "wait", "exited"}
    /\ err \in Results /\ exit \in {"none", "ok", "error"}
    /\ devErr \in BOOLEAN /\ cleanupErr \in BOOLEAN

(* The server has failed to clean up and is shutting down. *)
GivingUp == Role = "server" /\ cleanupErr /\ cancelled

Gone == Restored /\ ~device

(* What is restored, or known not to be, at each point of a session. *)
Clean ==
    /\ cleanupErr => GivingUp
    /\ pc \in {"connect", "open"} => Gone \/ GivingUp
    /\ pc = "setup" => Restored
    /\ pc = "devClose" => Restored \/ err = "cleanup"
    /\ pc = "judge" => Gone \/ err = "cleanup" \/ GivingUp
    /\ pc = "wait" => Gone
    /\ exit = "none" \/ pc = "exited"

SInv == IInv /\ DeviceInv /\ PhaseAt /\ MainTypeOK /\ Clean /\ CleanExit

-----------------------------------------------------------------------------
LEMMA SessionInitSInv == SessionInit => SInv
<1> SUFFICES ASSUME SessionInit PROVE SInv
  OBVIOUS
<1>1. IInv
  BY InitIInv DEF SessionInit
<1>2. DeviceInv /\ PhaseAt /\ MainTypeOK
  BY DEF SessionInit, Init, DeviceInv, PhaseAt, MainTypeOK, Results
<1>3. Clean /\ CleanExit
  BY DEF SessionInit, Init, Clean, CleanExit, GivingUp, Gone, Restored
<1> QED
  BY <1>1, <1>2, <1>3 DEF SInv

(* Every step of the process is a step of the Manager and its world, or    *)
(* none: the only thing to show is that Setup finds a restored network.    *)
LEMMA SessionStepIsManagerStep ==
  ASSUME SInv, [SessionNext]_allVars PROVE [Next]_vars
<1>1. CASE CallSetup
  <2>1. Restored
    BY <1>1 DEF CallSetup, SInv, Clean
  <2> QED
    BY <1>1, <2>1 DEF CallSetup, Next
<1>2. CASE HandlerReturns
  <2>1. cancelled \in BOOLEAN
    BY DEF SInv, IInv, TypeOK
  <2>2. Cancel \/ UNCHANGED vars
    BY <1>2, <2>1 DEF HandlerReturns, Cancel, vars, managerVars
  <2> QED
    BY <2>2 DEF Next
<1>3. CASE OpenDevice \/ BridgeEnds \/ DeferredDeviceClose
  BY <1>3 DEF OpenDevice, BridgeEnds, DeferredDeviceClose, CloseDevice, Next
<1>4. CASE CallClose \/ ManagerRuns \/ Interrupt
  BY <1>4 DEF CallClose, ManagerRuns, Interrupt, Next
<1>5. CASE Connect \/ AfterSetup \/ AfterClose \/ ClientJudges \/ Pause
           \/ UNCHANGED allVars
  BY <1>5 DEF Connect, AfterSetup, AfterClose, ClientJudges, Pause, allVars
<1> QED
  BY <1>1, <1>2, <1>3, <1>4, <1>5 DEF SessionNext, ProcessStep

(* Commands run only while the device exists; what is left in place after  *)
(* the device has gone has an undo.                                        *)
LEMMA DeviceInvKept ==
  ASSUME IInv, DeviceInv, [Next]_vars PROVE DeviceInv'
<1> USE DEF DeviceInv
<1>1. CASE Setup \/ Close \/ DeviceOpen \/ Cancel \/ UNCHANGED vars
  BY <1>1 DEF Setup, Close, DeviceOpen, Cancel, vars, managerVars
<1>2. CASE Read \/ Skip \/ AddStart \/ SetupReturns
  BY <1>2 DEF Read, Skip, AddStart, SetupReturns, Rollback, Continue
<1>3. CASE AddSucceeds \/ AddFails
  <2>1. step \in OfKind(Adds) /\ device /\ device' = device
    BY <1>3 DEF AddSucceeds, AddFails, IInv, CommandRuns
  <2>2. kernel' \subseteq kernel \cup {step}
    BY <1>3 DEF AddSucceeds, AddFails
  <2> QED
    BY <2>1, <2>2
<1>4. CASE UndoSucceeds \/ NotInTable \/ UndoFails \/ CloseReturns
  <2>1. device' = device /\ kernel' \subseteq kernel
        /\ phase' \in {"closing", "closed"}
    BY <1>4 DEF UndoSucceeds, NotInTable, UndoFails, CloseReturns
  <2> QED
    BY <2>1
<1>5. CASE DeviceClose
  <2>1. kernel' \subseteq kernel /\ kernel' \cap OfKind({"config"}) = {}
        /\ phase' \notin {"setup", "command"}
    BY <1>5 DEF DeviceClose, managerVars, OfKind
  <2>2. kernel' \subseteq Undoable
    BY <2>1 DEF Undoable, OfKind
  <2> QED
    BY <2>1, <2>2
<1> QED
  BY <1>1, <1>2, <1>3, <1>4, <1>5 DEF Next, ManagerStep

(* With the device gone and the log worked off, nothing is left. *)
LEMMA GoneMeansNothing == ASSUME SInv, Gone PROVE kernel = {} /\ ~device
  BY DEF SInv, DeviceInv, Gone, Restored

(* The rest of SInv, action by action. *)
LEMMA SessionStepSInv ==
  ASSUME SInv, [SessionNext]_allVars, "killedDo" \notin Faults PROVE SInv'
<1>1. IInv' /\ DeviceInv'
  BY SessionStepIsManagerStep, NextIInv, DeviceInvKept DEF SInv
<1>2. cancelled \in BOOLEAN /\ cancelled' \in BOOLEAN /\ device \in BOOLEAN
      /\ phase \in Phases /\ result \in Results
  BY <1>1 DEF SInv, IInv, TypeOK
<1>3. CleanMeansRestored
  BY IInvImplies DEF SInv
<1> DEFINE Rest == PhaseAt /\ MainTypeOK /\ Clean /\ CleanExit
<1> USE SessionAssumption DEF Rest, MainTypeOK, PhaseAt, Clean, CleanExit
<1>4. CASE Connect
  <2>1. UNCHANGED <<vars, cleanupErr>> /\ pc = "connect" /\ exit = "none"
    BY <1>4 DEF Connect, SInv
  <2>2. UNCHANGED <<phase, kernel, device, cancelled>>
    BY <2>1 DEF vars, managerVars
  <2>3. (Gone \/ GivingUp) /\ Gone' = Gone /\ GivingUp' = GivingUp
        /\ phase' \in {"idle", "closed"}
    BY <2>1, <2>2 DEF SInv, Gone, Restored, GivingUp
  <2>4. Gone => kernel' = {} /\ ~device'
    BY <2>2, GoneMeansNothing
  <2>5. /\ pc' \in {"open", "judge", "exited"} /\ err' \in Results /\ devErr' \in BOOLEAN
        /\ exit' \in {"none", "ok", "error"} /\ (exit' = "none" \/ pc' = "exited")
        /\ exit' = "ok" => ~cleanupErr
    BY <1>4, <2>1 DEF Connect, SInv, Goto, Return, Results
  <2>6. CASE GivingUp
    <3>1. cleanupErr'
      BY <2>1, <2>6 DEF GivingUp
    <3> QED
      BY <1>1, <2>1, <2>2, <2>3, <2>5, <2>6, <3>1 DEF SInv
  <2>7. CASE Gone
    BY <1>1, <2>1, <2>2, <2>3, <2>4, <2>5, <2>7 DEF SInv
  <2> QED
    BY <2>3, <2>6, <2>7
<1>5. CASE OpenDevice
  <2>1. /\ pc = "open" /\ exit = "none" /\ UNCHANGED <<exit, cleanupErr, cancelled>>
        /\ phase' = phase /\ kernel' = kernel
    BY <1>5 DEF OpenDevice, SInv, DeviceOpen, Goto, vars, managerVars
  <2>2. GivingUp' = GivingUp /\ Restored' = Restored
    BY <2>1 DEF GivingUp, Restored
  <2>3. CASE pc' = "setup"
    <3>1. ~cancelled /\ UNCHANGED err /\ UNCHANGED devErr
      BY <1>5, <2>3 DEF OpenDevice, Goto
    <3>2. Restored
      BY <2>1, <3>1 DEF SInv, GivingUp, Gone
    <3>3. Rest'
      BY <2>1, <2>2, <2>3, <3>1, <3>2 DEF SInv
    <3> QED
      BY <1>1, <3>3 DEF SInv
  <2>4. CASE pc' = "judge"
    <3>1. UNCHANGED vars /\ err' = "error" /\ UNCHANGED devErr
      BY <1>5, <2>4 DEF OpenDevice, Goto
    <3>2. Gone' = Gone
      BY <3>1 DEF Gone, Restored, vars
    <3>3. Rest'
      BY <2>1, <2>2, <2>4, <3>1, <3>2 DEF SInv, Results
    <3> QED
      BY <1>1, <3>3 DEF SInv
  <2> QED
    BY <1>5, <2>3, <2>4 DEF OpenDevice, Goto
<1>6. CASE CallSetup \/ CallClose
  <2>1. /\ pc' \in {"inSetup", "inClose"} /\ UNCHANGED <<err, devErr, cleanupErr, exit, cancelled>>
        /\ (pc' = "inClose" => phase' = "closing") /\ exit = "none"
    BY <1>6 DEF CallSetup, CallClose, Setup, Close, Goto, SInv
  <2>2. Rest'
    BY <2>1 DEF SInv, GivingUp
  <2> QED
    BY <1>1, <2>2 DEF SInv
<1>7. CASE AfterSetup \/ AfterClose
  <2>1. /\ UNCHANGED <<vars, devErr, cleanupErr, exit>> /\ exit = "none"
        /\ \/ pc' = "bridge" /\ phase = "up" /\ err' = err
           \/ pc' = "devClose" /\ phase = "closed" /\ err' = result
           \/ pc' = "devClose" /\ phase = "closed" /\ err' = Join(err, result)
    BY <1>7 DEF AfterSetup, AfterClose, Goto, SInv
  <2>2. UNCHANGED <<phase, kernel, cancelled>> /\ Restored' = Restored /\ GivingUp' = GivingUp
    BY <2>1 DEF vars, managerVars, Restored, GivingUp
  <2>3. err' \in Results /\ (phase = "closed" /\ pc' = "devClose" => Restored \/ err' = "cleanup")
    BY <1>2, <1>3, <2>1 DEF CleanMeansRestored, Join, Results, SInv
  <2>4. Rest'
    BY <2>1, <2>2, <2>3 DEF SInv
  <2> QED
    BY <1>1, <2>4 DEF SInv
<1>8. CASE BridgeEnds
  <2>1. /\ pc' = "cleanup" /\ phase' = phase /\ phase = "up" /\ exit = "none"
        /\ UNCHANGED <<exit, cleanupErr, cancelled>> /\ err' = "error" /\ devErr' \in BOOLEAN
    BY <1>8 DEF BridgeEnds, CloseDevice, DeviceClose, Goto, SInv, vars, managerVars
  <2>2. Rest'
    BY <2>1 DEF SInv, GivingUp, Results
  <2> QED
    BY <1>1, <2>2 DEF SInv
<1>9. CASE DeferredDeviceClose
  <2>1. /\ pc = "devClose" /\ pc' = "judge" /\ phase' = phase /\ phase = "closed"
        /\ exit = "none" /\ UNCHANGED <<exit, cleanupErr, cancelled>>
        /\ err' = (IF devErr' THEN "cleanup" ELSE err) /\ devErr' \in BOOLEAN
        /\ kernel' \subseteq kernel /\ (~device' \/ devErr')
    BY <1>9 DEF DeferredDeviceClose, CloseDevice, DeviceClose, Goto, SInv, vars, managerVars
  <2>2. Gone' \/ err' = "cleanup"
    BY <2>1 DEF SInv, Gone, Restored
  <2>3. Rest'
    BY <2>1, <2>2 DEF SInv, GivingUp, Results
  <2> QED
    BY <1>1, <2>3 DEF SInv
<1>10. CASE ClientJudges \/ Pause
  <2>1. /\ pc \in {"judge", "wait"} /\ exit = "none"
        /\ UNCHANGED <<vars, err, devErr, cleanupErr>>
        /\ pc' \in {"exited", "wait", "connect"}
        /\ exit' \in {"none", "ok", "error"} /\ (exit' = "none" \/ pc' = "exited")
        /\ ~GivingUp \/ pc = "wait"
        /\ err = "cleanup" /\ pc = "judge" => pc' = "exited" /\ exit' = "error"
    BY <1>10 DEF ClientJudges, Pause, Goto, Return, SInv, GivingUp
  <2>2. UNCHANGED <<phase, kernel, device, cancelled>>
    BY <2>1 DEF vars, managerVars
  <2>3. Gone' = Gone /\ GivingUp' = GivingUp
    BY <2>1, <2>2 DEF Gone, Restored, GivingUp
  <2>4. Gone => kernel' = {} /\ ~device'
    BY <2>2, GoneMeansNothing
  <2>5. Gone \/ (err = "cleanup" /\ pc = "judge")
    BY <2>1 DEF SInv
  <2>6. Rest'
    BY <2>1, <2>2, <2>3, <2>4, <2>5 DEF SInv
  <2> QED
    BY <1>1, <2>6 DEF SInv
<1>11. CASE HandlerReturns
  <2>1. /\ pc = "judge" /\ Role = "server" /\ pc' = "connect" /\ exit = "none" /\ exit' = exit
        /\ cleanupErr' = (cleanupErr \/ err = "cleanup")
        /\ cancelled' = (cancelled \/ err = "cleanup")
        /\ UNCHANGED <<phase, kernel, device, err, devErr>>
    BY <1>11 DEF HandlerReturns, Goto, SInv, managerVars
  <2>2. Gone' = Gone /\ (cleanupErr' => GivingUp') /\ (GivingUp => GivingUp')
    BY <2>1 DEF Gone, Restored, GivingUp, SInv
  <2>3. Gone' \/ GivingUp'
    BY <2>1, <2>2 DEF SInv, GivingUp
  <2>4. Rest'
    BY <2>1, <2>2, <2>3 DEF SInv
  <2> QED
    BY <1>1, <2>4 DEF SInv
<1>12. CASE Interrupt \/ UNCHANGED allVars
  <2>1. UNCHANGED <<phase, kernel, device, mainVars>> /\ (cancelled => cancelled')
    BY <1>12 DEF Interrupt, Cancel, allVars, vars, managerVars
  <2>2. Gone' = Gone /\ Restored' = Restored /\ (GivingUp => GivingUp')
    BY <2>1 DEF Gone, Restored, GivingUp, mainVars
  <2>3. Rest'
    BY <2>1, <2>2 DEF SInv, mainVars
  <2> QED
    BY <1>1, <2>3 DEF SInv
<1>13. CASE ManagerRuns
  <2>1. UNCHANGED <<pc, err, devErr, cleanupErr, exit>> /\ UNCHANGED cancelled
        /\ phase \in {"setup", "command", "closing"}
    BY <1>13 DEF ManagerRuns, mainVars, ManagerStep, Read, Skip, AddStart, AddSucceeds,
       AddFails, SetupReturns, UndoSucceeds, NotInTable, UndoFails, CloseReturns
  <2>2. pc \in {"inSetup", "inClose"}
    BY <2>1 DEF SInv
  <2>3. pc = "inClose" => phase' \in {"closing", "closed"}
    BY <1>13, <2>1 DEF SInv, ManagerRuns, ManagerStep, Read, Skip, AddStart, AddSucceeds,
       AddFails, SetupReturns, UndoSucceeds, NotInTable, UndoFails, CloseReturns
  <2>4. Rest'
    BY <2>1, <2>2, <2>3 DEF SInv, GivingUp
  <2> QED
    BY <1>1, <2>4 DEF SInv
<1> QED
  BY <1>4, <1>5, <1>6, <1>7, <1>8, <1>9, <1>10, <1>11, <1>12, <1>13 DEF SessionNext, ProcessStep

-----------------------------------------------------------------------------
(* The invariant of the whole process. *)
THEOREM SessionInvariant ==
  ASSUME "killedDo" \notin Faults PROVE SessionSpec => []SInv
<1>1. SInv /\ [SessionNext]_allVars => SInv'
  BY SessionStepSInv
<1> QED
  BY <1>1, SessionInitSInv, PTL DEF SessionSpec

(* Exit code 0, or an error that is no CleanupError, means that nothing of *)
(* any session is left: main, runTUN and Manager together lose no change.  *)
THEOREM ProcessExitsClean ==
  ASSUME "killedDo" \notin Faults PROVE SessionSpec => []CleanExit
<1>1. SInv => CleanExit
  BY DEF SInv
<1> QED
  BY <1>1, SessionInvariant, PTL

(* main never calls Setup on a network that is not restored: the process   *)
(* implements NetworkManager, whose Setup asks for that.                   *)
THEOREM ProcessKeepsContract ==
  ASSUME "killedDo" \notin Faults PROVE SessionSpec => ManagerContract
<1>1. SessionInit => Init
  BY DEF SessionInit
<1>2. SInv /\ [SessionNext]_allVars => [Next]_vars
  BY SessionStepIsManagerStep
<1> QED
  BY <1>1, <1>2, SessionInvariant, PTL DEF SessionSpec, Spec, ManagerContract
=============================================================================
