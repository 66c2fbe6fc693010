----------------------------- MODULE TunSession -----------------------------
(***************************************************************************)
(* The life of the process in tun mode (cmd/tunnel-lab/main.go): dial or   *)
(* accept, run one session after another with runTUN, and decide after     *)
(* each whether another may follow.  A session creates the tunnel device,  *)
(* calls network.Setup, runs tunnel.Bridge until either end or the context *)
(* ends it, and unwinds through its deferred calls: manager.Close first,   *)
(* then d.Close.  Bridge itself has closed the device by then.             *)
(*                                                                         *)
(* The Manager's variables and actions come from NetworkManager.  This     *)
(* module shows that main never calls Setup on an unrestored network.      *)
(***************************************************************************)
EXTENDS NetworkManager

CONSTANTS Role,         \* "client" or "server"
          MaxSessions   \* bound: sessions started

ASSUME SessionAssumption == /\ Role \in {"client", "server"}
                            /\ MaxSessions \in Nat

VARIABLES
    pc,         \* where main or runTUN is
    err,        \* runTUN's result so far; "cleanup" if a CleanupError is in it
    devErr,     \* Device.closeErr is set
    cleanupErr, \* the server's cleanupErr is set
    exit,       \* what run returns: "none" while it runs
    sessions,   \* sessions started so far
    reconnect   \* the -reconnect flag

mainVars == <<pc, err, devErr, cleanupErr, exit, sessions, reconnect>>
allVars == <<vars, mainVars>>

SessionInit == /\ Init
               /\ pc = "connect" /\ err = "nil" /\ devErr = FALSE
               /\ cleanupErr = FALSE /\ exit = "none" /\ sessions = 0
               /\ reconnect \in BOOLEAN

(* errors.Join, as far as CleanupFailed can tell. *)
Join(a, b) == IF "cleanup" \in {a, b} THEN "cleanup"
              ELSE IF "error" \in {a, b} THEN "error" ELSE "nil"

Goto(where) == pc' = where /\ UNCHANGED <<exit, reconnect>>
Return(e) == pc' = "exited" /\ exit' = e /\ UNCHANGED reconnect

-----------------------------------------------------------------------------
(* transport.Dial returns a connection or an error; Serve hands the next   *)
(* authenticated connection to the handler, or, once the context is        *)
(* cancelled, returns with the handler joined: an error if the listener    *)
(* had failed, or if a cleanup had.                                        *)
Connect ==
    /\ pc = "connect"
    /\ \/ /\ sessions < MaxSessions
          /\ sessions' = sessions + 1
          /\ err' = "nil" /\ devErr' = FALSE
          /\ Goto("open")
       \/ /\ Role = "client"
          /\ err' = "error"
          /\ Goto("judge")
          /\ UNCHANGED <<devErr, sessions>>
       \/ /\ Role = "server" /\ cancelled
          /\ Return("error") \/ (~cleanupErr /\ Return("ok"))
          /\ UNCHANGED <<err, devErr, cleanupErr, sessions>>
    /\ UNCHANGED <<vars, cleanupErr>>

(* runTUN: the context check, and tun.Open. *)
OpenDevice ==
    /\ pc = "open"
    /\ \/ ~cancelled /\ DeviceOpen /\ Goto("setup") /\ UNCHANGED err
       \/ UNCHANGED vars /\ err' = "error" /\ Goto("judge")
    /\ UNCHANGED <<devErr, cleanupErr, sessions>>

CallSetup ==
    /\ pc = "setup"
    /\ Setup
    /\ Goto("inSetup")
    /\ UNCHANGED <<err, devErr, cleanupErr, sessions>>

(* Setup has returned: into Bridge, or out through d.Close. *)
AfterSetup ==
    /\ pc = "inSetup"
    /\ \/ phase = "up" /\ Goto("bridge") /\ UNCHANGED err
       \/ phase = "closed" /\ Goto("devClose") /\ err' = result
    /\ UNCHANGED <<vars, devErr, cleanupErr, sessions>>

(* d.Close, once: it destroys the device or keeps the error it got. *)
CloseDevice == \/ DeviceClose /\ UNCHANGED devErr
               \/ UNCHANGED vars /\ device /\ devErr' = TRUE

(* Mutant of BridgeEnds: Bridge does not watch the context. *)
BridgeEndsAlone == ~cancelled /\ pc = "bridge" /\ CloseDevice /\ err' = "error"
                   /\ Goto("cleanup") /\ UNCHANGED <<cleanupErr, sessions>>

(* Bridge returns an error of either end or the context's, after closing   *)
(* both ends.                                                              *)
BridgeEnds ==
    /\ pc = "bridge"
    /\ CloseDevice
    /\ err' = "error"
    /\ Goto("cleanup")
    /\ UNCHANGED <<cleanupErr, sessions>>

(* The deferred manager.Close. *)
CallClose ==
    /\ pc = "cleanup"
    /\ Close
    /\ Goto("inClose")
    /\ UNCHANGED <<err, devErr, cleanupErr, sessions>>

AfterClose ==
    /\ pc = "inClose"
    /\ phase = "closed"
    /\ err' = Join(err, result)
    /\ Goto("devClose")
    /\ UNCHANGED <<vars, devErr, cleanupErr, sessions>>

(* Mutant of DeferredDeviceClose: its error is not made a CleanupError. *)
DeferredDeviceCloseQuiet ==
    /\ pc = "devClose"
    /\ IF device /\ ~devErr THEN CloseDevice ELSE UNCHANGED <<vars, devErr>>
    /\ Goto("judge")
    /\ UNCHANGED <<err, cleanupErr, sessions>>

(* The deferred d.Close: a no-op that returns the old error if Bridge has  *)
(* closed the device; an error becomes a CleanupError.                     *)
DeferredDeviceClose ==
    /\ pc = "devClose"
    /\ IF device /\ ~devErr THEN CloseDevice ELSE UNCHANGED <<vars, devErr>>
    /\ err' = IF devErr' THEN "cleanup" ELSE err
    /\ Goto("judge")
    /\ UNCHANGED <<cleanupErr, sessions>>

(* Mutants of main's decisions: a failed cleanup does not stop the client, *)
(* or a client reconnects without a look at the context; a failed cleanup  *)
(* does not cancel the server, or is not reported by it.                   *)
ClientJudgesAlike ==
    /\ pc = "judge" /\ Role = "client"
    /\ IF ~cancelled THEN Goto("wait")
       ELSE Return(IF err = "cleanup" THEN "error" ELSE "ok")
    /\ UNCHANGED <<vars, err, devErr, cleanupErr, sessions>>

ClientJudgesNoContext ==
    /\ pc = "judge" /\ Role = "client"
    /\ IF err = "cleanup" THEN Return("error") ELSE Goto("wait")
    /\ UNCHANGED <<vars, err, devErr, cleanupErr, sessions>>

HandlerReturnsNoCancel ==
    /\ pc = "judge" /\ Role = "server"
    /\ cleanupErr' = (cleanupErr \/ err = "cleanup")
    /\ Goto("connect")
    /\ UNCHANGED <<vars, err, devErr, sessions>>

HandlerForgets ==
    /\ pc = "judge" /\ Role = "server"
    /\ cancelled' = (cancelled \/ err = "cleanup")
    /\ Goto("connect")
    /\ UNCHANGED <<managerVars, kernel, device, err, devErr, cleanupErr, sessions>>

(* What main does with the result of a session.  The client's loop ends on *)
(* a failed cleanup before it looks at anything else; the server's handler *)
(* cancels everything then.                                                *)
ClientJudges ==
    /\ pc = "judge" /\ Role = "client"
    /\ \/ err = "cleanup" /\ Return("error")
       \/ err # "cleanup" /\ cancelled /\ Return("ok")
       \/ err # "cleanup" /\ ~cancelled /\ ~reconnect /\ Return("error")
       \/ err # "cleanup" /\ ~cancelled /\ reconnect /\ Goto("wait")
    /\ UNCHANGED <<vars, err, devErr, cleanupErr, sessions>>

HandlerReturns ==
    /\ pc = "judge" /\ Role = "server"
    /\ cleanupErr' = (cleanupErr \/ err = "cleanup")
    /\ cancelled' = (cancelled \/ err = "cleanup")
    /\ Goto("connect")
    /\ UNCHANGED <<managerVars, kernel, device, err, devErr, sessions>>

(* The pause before the client dials again. *)
Pause ==
    /\ pc = "wait"
    /\ (cancelled /\ Return("ok")) \/ Goto("connect")
    /\ UNCHANGED <<vars, err, devErr, cleanupErr, sessions>>

(* SIGINT or SIGTERM; in a server, also a listener that fails. *)
Interrupt == pc # "exited" /\ Cancel /\ UNCHANGED mainVars

ManagerRuns == ManagerStep /\ UNCHANGED mainVars

ProcessStep == \/ Connect \/ OpenDevice \/ CallSetup \/ AfterSetup \/ BridgeEnds
               \/ CallClose \/ AfterClose \/ DeferredDeviceClose
               \/ ClientJudges \/ HandlerReturns \/ Pause \/ ManagerRuns

SessionNext == ProcessStep \/ Interrupt

SessionSpec == SessionInit /\ [][SessionNext]_allVars

(* The process never idles, except in Bridge and where it waits for a      *)
(* connection: there only cancellation makes it go on.  execute bounds     *)
(* every command by 10 s.                                                  *)
Duty == ProcessStep /\ (pc \in {"bridge", "connect"} => cancelled)
LiveSessionSpec == SessionSpec /\ WF_allVars(Duty)

-----------------------------------------------------------------------------
(* The process keeps its side of the Manager's contract: it is a behaviour *)
(* of NetworkManager, in which Setup is only ever called on a network that *)
(* the sessions before have restored.                                      *)
ManagerContract == Spec

(* "shutdown complete" and exit code 0, and likewise an exit whose error   *)
(* is not a CleanupError, mean that no route, rule, setting or device of   *)
(* any session is left, whatever was interrupted.                          *)
CleanExit ==
    exit = "ok" \/ (exit = "error" /\ err # "cleanup" /\ ~cleanupErr) =>
        kernel = {} /\ ~device

(* A signal always ends the process, wherever it falls. *)
InterruptEnds == cancelled ~> pc = "exited"
=============================================================================
