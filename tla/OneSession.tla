----------------------------- MODULE OneSession -----------------------------
(***************************************************************************)
(* What transport.Serve promises its caller: the handler it is given runs  *)
(* for one client at a time, and never again once Serve has returned.      *)
(***************************************************************************)
CONSTANT Client

VARIABLES session,  \* the clients whose handler runs
          returned  \* Serve has returned

vars == <<session, returned>>

Init == session = {} /\ returned = FALSE

Begin(c) == /\ session = {} /\ ~returned
            /\ session' = {c}
            /\ UNCHANGED returned

End == session' = {} /\ UNCHANGED returned

Return == /\ session = {}
          /\ returned' = TRUE
          /\ UNCHANGED session

Next == (\E c \in Client : Begin(c)) \/ End \/ Return

Spec == Init /\ [][Next]_vars
=============================================================================
