--------------------------- MODULE NetworkManager ---------------------------
(***************************************************************************)
(* internal/network: Setup changes the machine's network configuration by  *)
(* running one command after another, Manager.add keeps an undo command    *)
(* for each, and Manager.Close runs the undo commands in reverse.          *)
(*                                                                         *)
(* A step of Setup is an index into Plan, and the plan says what kind of   *)
(* command it runs.  The kernel is the set of steps whose effect is in     *)
(* place.  A command is in flight between two states, so that cancelling   *)
(* the context (SIGINT) can fall into it.                                  *)
(***************************************************************************)
EXTENDS Naturals, Sequences, SequencesExt

CONSTANTS Plan,   \* the kinds of command Setup runs, in order
          Faults  \* what commands may do besides succeed, see FaultKinds

(* "query"   reads something (name lookup, route get, getdnsservers,       *)
(*           sysctl -n), or refuses an unsupported role; no context check  *)
(* "verify"  verifyMacRoutes: reads too, after checking the context        *)
(* "config"  address, MTU and state of the tunnel device; has no undo      *)
(* "pin"     host route around the tunnel, undone by route delete          *)
(* "split"   half of the default route into the device, route delete too   *)
(* "set"     DNS servers or forwarding, undone by setting the old value    *)
(* "rule"    firewall rule, undone by deleting it                          *)
Reads == {"query", "verify"}
Adds == {"config", "pin", "split", "set", "rule"}

(* "fail": a command fails without effect; "killedUndo", "killedDo": an    *)
(* undo, or a do, takes effect and is then killed by the 10 s timeout of   *)
(* execute, which reports a failure.                                       *)
FaultKinds == {"fail", "killedUndo", "killedDo"}

ASSUME ManagerAssumption == /\ Plan \in Seq(Reads \cup Adds)
                            /\ Faults \subseteq FaultKinds

Step == 1 .. Len(Plan)
OfKind(K) == {i \in Step : Plan[i] \in K}
Undoable == OfKind(Adds \ {"config"})

(* mac(): device; name lookup; for each address (here two) a route lookup  *)
(* and a pin; DNS; split routes; the verification of each address.         *)
MacPlan == <<"config", "query", "query", "pin", "query", "pin", "query", "set",
             "split", "split", "verify", "verify">>

(* linux() in the server role: address, link, egress lookup, then per      *)
(* address family (here one) forwarding and three firewall rules.  With    *)
(* network.auto = false the plan is empty.                                 *)
LinuxPlan == <<"config", "config", "query", "query", "set", "rule", "rule", "rule">>

VARIABLES
    phase,      \* where Setup or Close is
    step,       \* the step Setup is at
    undo,       \* m.undo: the steps with a recorded undo, oldest first
    at,         \* Close's loop index into undo
    failed,     \* Close's failed undos, latest step first
    verdict,    \* what Close returns if no undo fails: Setup's error or nil
    result,     \* what the last Setup or Close returned
    kernel,     \* the steps whose effect is in place
    device,     \* the tunnel device exists
    cancelled   \* the context is cancelled

managerVars == <<phase, step, undo, at, failed, verdict, result>>
vars == <<managerVars, kernel, device, cancelled>>

Phases == {"idle", "setup", "command", "up", "closing", "closed"}
Results == {"nil", "error", "cleanup"}

Init ==
    /\ phase = "idle" /\ step = 1 /\ undo = <<>> /\ at = 0 /\ failed = <<>>
    /\ verdict = "nil" /\ result = "nil"
    /\ kernel = {} /\ device = FALSE /\ cancelled = FALSE

(* Nothing Setup is responsible for undoing is in place. *)
Restored == kernel \cap Undoable = {}

-----------------------------------------------------------------------------
(* Setup gives up: it returns errors.Join(e, m.Close()). *)
Rollback(log) ==
    /\ phase' = "closing" /\ undo' = log /\ at' = Len(log) /\ failed' = <<>>
    /\ verdict' = "error"
    /\ UNCHANGED <<step, result>>

Continue(log) ==
    /\ phase' = "setup" /\ step' = step + 1 /\ undo' = log
    /\ UNCHANGED <<at, failed, verdict, result>>

(* Setup: a fresh Manager, unless the context is cancelled already. *)
Setup ==
    /\ phase \in {"idle", "closed"}
    /\ device
    /\ undo' = <<>> /\ failed' = <<>> /\ at' = 0 /\ step' = 1
    /\ \/ /\ cancelled
          /\ phase' = "closed" /\ verdict' = "error" /\ result' = "error"
       \/ /\ ~cancelled
          /\ phase' = "setup"
          /\ UNCHANGED <<verdict, result>>
    /\ UNCHANGED <<kernel, device, cancelled>>

(* A step that only reads. *)
Read ==
    /\ phase = "setup"
    /\ step \in OfKind(Reads)
    /\ \/ (Plan[step] = "verify" => ~cancelled) /\ Continue(undo)
       \/ Rollback(undo)
    /\ UNCHANGED <<kernel, device, cancelled>>

(* pinMacRoute keeps a static or connected route, linux() a forwarding     *)
(* switch that is on: nothing to add.                                      *)
Skip ==
    /\ phase = "setup"
    /\ step \in OfKind({"pin", "set"})
    /\ Continue(undo)
    /\ UNCHANGED <<kernel, device, cancelled>>

(* add, up to m.run(do). *)
AddStart ==
    /\ phase = "setup"
    /\ step \in OfKind(Adds)
    /\ \/ cancelled /\ Rollback(undo)
       \/ /\ ~cancelled
          /\ phase' = "command"
          /\ UNCHANGED <<step, undo, at, failed, verdict, result>>
    /\ UNCHANGED <<kernel, device, cancelled>>

(* The undo log after step i succeeded. *)
Record(log, i) == IF i \in Undoable THEN Append(log, i) ELSE log

(* Mutant of Recorded: the context is looked at first. *)
RecordedLate == IF cancelled THEN undo ELSE Record(undo, step)

(* The log once the command has succeeded, cancelled or not. *)
Recorded == Record(undo, step)

(* add, when the command has succeeded: record its undo, then look at the  *)
(* context again.                                                          *)
AddSucceeds ==
    /\ phase = "command"
    /\ kernel' = kernel \cup {step}
    /\ IF cancelled THEN Rollback(Recorded) ELSE Continue(Recorded)
    /\ UNCHANGED <<device, cancelled>>

(* Mutant of Unrecorded: the undo is recorded with the failed command. *)
UnrecordedYet == Record(undo, step)

(* A command that failed leaves the undo log as it is. *)
Unrecorded == undo

(* add, when the command has failed: no undo is recorded. *)
AddFails ==
    /\ phase = "command"
    /\ \/ "fail" \in Faults /\ UNCHANGED kernel
       \/ "killedDo" \in Faults /\ kernel' = kernel \cup {step}
    /\ Rollback(Unrecorded)
    /\ UNCHANGED <<device, cancelled>>

SetupReturns ==
    /\ phase = "setup"
    /\ step = Len(Plan) + 1
    /\ phase' = "up" /\ result' = "nil"
    /\ UNCHANGED <<step, undo, at, failed, verdict, kernel, device, cancelled>>

-----------------------------------------------------------------------------
(* Mutant of LastUndo, where Close's loop starts: one past it. *)
LastUndoAndOne == Len(undo) + 1
LastUndo == Len(undo)

(* Close of a Manager that Setup returned; again, if undos have failed. *)
Close ==
    /\ phase = "up" \/ (phase = "closed" /\ verdict = "nil" /\ undo # <<>>)
    /\ phase' = "closing" /\ at' = LastUndo /\ failed' = <<>> /\ verdict' = "nil"
    /\ UNCHANGED <<step, undo, result, kernel, device, cancelled>>

(* Deleting a route that is gone fails with "not in table", deleting a     *)
(* rule that is gone just fails, setting an old value again succeeds.      *)
UndoSucceeds ==
    /\ phase = "closing" /\ at > 0
    /\ undo[at] \in kernel \cup OfKind({"set"})
    /\ kernel' = kernel \ {undo[at]}
    /\ at' = at - 1
    /\ UNCHANGED <<phase, step, undo, failed, verdict, result, device, cancelled>>

(* Mutant of Forgiven: a failed "route delete" is forgiven unread. *)
ForgivenUnread == OfKind({"pin", "split"})

(* The undos whose failure Close passes over: a "route delete" that says   *)
(* "not in table", as route does (an assumption) only of a route gone.     *)
Forgiven == OfKind({"pin", "split"}) \ kernel

NotInTable ==
    /\ phase = "closing" /\ at > 0
    /\ undo[at] \in Forgiven
    /\ at' = at - 1
    /\ UNCHANGED <<phase, step, undo, failed, verdict, result, kernel, device, cancelled>>

UndoFails ==
    /\ phase = "closing" /\ at > 0
    /\ \/ /\ "fail" \in Faults \/ undo[at] \in OfKind({"rule"}) \ kernel
          /\ UNCHANGED kernel
       \/ "killedUndo" \in Faults /\ kernel' = kernel \ {undo[at]}
    /\ failed' = Append(failed, undo[at])
    /\ at' = at - 1
    /\ UNCHANGED <<phase, step, undo, verdict, result, device, cancelled>>

(* Mutant of Retained: failed undos kept as they came. *)
RetainedUnsorted == failed

Retained == Reverse(failed)
Outcome == IF failed = <<>> THEN verdict ELSE "cleanup"

(* Close returns: the failed undos are the new log, in their old order. *)
CloseReturns ==
    /\ phase = "closing" /\ at = 0
    /\ phase' = "closed"
    /\ undo' = Retained
    /\ result' = Outcome
    /\ UNCHANGED <<step, at, failed, verdict, kernel, device, cancelled>>

-----------------------------------------------------------------------------
(* What happens around the Manager: the tunnel device is created for it,   *)
(* and destroyed while the Manager waits to be closed or after it, which   *)
(* takes the device's configuration and routes with it; the context is     *)
(* cancelled.                                                              *)
DeviceOpen ==
    /\ phase \in {"idle", "closed"}
    /\ ~device
    /\ device' = TRUE
    /\ UNCHANGED <<managerVars, kernel, cancelled>>

DeviceClose ==
    /\ phase \in {"idle", "up", "closed"}
    /\ device
    /\ device' = FALSE
    /\ kernel' = kernel \ OfKind({"config", "split"})
    /\ UNCHANGED <<managerVars, cancelled>>

Cancel == /\ ~cancelled /\ cancelled' = TRUE
          /\ UNCHANGED <<managerVars, kernel, device>>

ManagerStep == \/ Read \/ Skip \/ AddStart \/ AddSucceeds \/ AddFails
               \/ SetupReturns \/ UndoSucceeds \/ NotInTable \/ UndoFails
               \/ CloseReturns

(* Setup's caller owes it a restored network: a Manager knows nothing of   *)
(* the undo log of the one before.                                         *)
Next == \/ Restored /\ Setup
        \/ ManagerStep \/ Close \/ DeviceOpen \/ DeviceClose \/ Cancel

Spec == Init /\ [][Next]_vars

-----------------------------------------------------------------------------
TypeOK ==
    /\ phase \in Phases /\ step \in 1 .. Len(Plan) + 1
    /\ undo \in Seq(Undoable) /\ failed \in Seq(Undoable)
    /\ at \in 0 .. Len(undo)
    /\ verdict \in {"nil", "error"} /\ result \in Results
    /\ kernel \subseteq Step
    /\ device \in BOOLEAN /\ cancelled \in BOOLEAN

(* The undos that are recorded and have not run, or have failed. *)
Owed == IF phase = "closing"
        THEN {undo[k] : k \in 1 .. at} \cup Range(failed)
        ELSE Range(undo)

(* Whatever is cancelled, and whichever command fails, at every moment     *)
(* every change that is in place has its undo in the log, or failed in     *)
(* this Close and about to be retained.  (Not if a do can be killed after  *)
(* it took effect.)                                                        *)
EffectsOwed == kernel \cap Undoable \subseteq Owed

(* Changes are taken back latest first: when Close runs the undo of a step *)
(* no later change is in place, except one whose undo failed in this very  *)
(* Close.  So the split routes go before the host routes that keep the     *)
(* tunnel's own packets out of them, also on a retry.                      *)
LatestFirst ==
    phase = "closing" /\ at > 0 =>
        \A i \in kernel \cap Undoable : i <= undo[at] \/ i \in Range(failed)

(* CleanupError tells the truth: a failed Setup or a Close that does not   *)
(* report one has left nothing behind that it should have undone.          *)
CleanMeansRestored == phase = "closed" /\ result # "cleanup" => Restored
=============================================================================
