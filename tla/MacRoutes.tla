------------------------------ MODULE MacRoutes ------------------------------
(***************************************************************************)
(* internal/network/macos_routes.go, composed with NetworkManager: the     *)
(* part of the macOS routing table that Setup reads and changes to keep    *)
(* the tunnel's own packets out of the tunnel.  An address of the underlay *)
(* is named by the plan step that pins it; the step before looks its route *)
(* up; and the n-th "verify" step verifies the n-th address.               *)
(*                                                                         *)
(* Of route flags the model keeps what persistentHost, directlyConnected   *)
(* and the expiry of routes depend on, as the kind of a route:             *)
(*   "static"    HOST and STATIC: stays until somebody deletes it          *)
(*   "clone"     HOST with WASCLONED or DYNAMIC: expires                   *)
(*   "neighbor"  HOST with LLINFO or LOCAL, no GATEWAY: expires, leaving   *)
(*   "subnet"    the connected subnet, which outranks the split routes     *)
(*   "none"      nothing more special than the default or split routes     *)
(***************************************************************************)
EXTENDS NetworkManager, FiniteSets, TLC

CONSTANTS Uplink,      \* ways out other than the tunnel: interface and gateway
          HalfOf(_),   \* the split route that covers an address
          MaxChanges   \* bound: changes of the table by others

VARIABLES
    uplink,   \* where the default route leads
    entry,    \* entry[a]: others' most special route to a
    want,     \* want[a]: the macRoute that readMacRoute returned for a
    news,     \* history: "unseen" if others changed the route to a in this
              \* Setup, "seen" once verifyMacRoutes has looked at it since
    meddled,  \* history: addresses whose route others changed while the
              \* Manager had its undo in the log
    changes   \* bound

routeVars == <<uplink, entry, want, news, meddled, changes>>
allVars == <<vars, routeVars>>

(* mac() for an endpoint's name with two addresses and no DNS service. *)
RoutePlan == <<"config", "query", "query", "pin", "query", "pin", "split", "split",
               "verify", "verify">>

Addr == OfKind({"pin"})
Rank(i) == Cardinality({j \in OfKind({Plan[i]}) : j <= i})
VerifiedAt(s) == CHOOSE a \in Addr : Rank(a) = Rank(s)

(* One address in each half of the address space. *)
HalfByRank(a) == CHOOSE s \in OfKind({"split"}) : Rank(s) = Rank(a)

Uplinks == Permutations(Uplink)

(* What Setup's plan looks like: each pin follows its lookup, and the      *)
(* split routes and the verification come after all pins.  The tunnel      *)
(* device is not a way out.                                                *)
ASSUME RoutesAssumption ==
    /\ "tun" \notin Uplink
    /\ \A a \in Addr : /\ a - 1 \in OfKind({"query"})
                       /\ HalfOf(a) \in OfKind({"split"})
                       /\ \A i \in OfKind({"split", "verify"}) : a < i

Route == [kind : {"static", "clone", "neighbor", "subnet"}, via : Uplink]
Nothing == [kind |-> "none", via |-> "default"]

RInit == /\ Init
         /\ uplink \in Uplink
         /\ entry \in [Addr -> Route \cup {Nothing}]
         /\ \A a \in Addr : entry[a] # Nothing => entry[a].via = uplink
         /\ want = [a \in Addr |-> Nothing]
         /\ news = [a \in Addr |-> "none"]
         /\ meddled = {} /\ changes = 0

(* "route -n get": a pin of the Manager is a static host route that leads  *)
(* where the looked-up route led.                                          *)
Get(a) == IF a \in kernel THEN [kind |-> "static", via |-> want[a].via]
          ELSE IF entry[a] # Nothing THEN entry[a]
          ELSE [kind |-> "none", via |-> IF HalfOf(a) \in kernel THEN "tun" ELSE uplink]

(* What is left of others' host route to a once it has expired or has been *)
(* deleted or replaced.                                                    *)
Without(a) == [entry EXCEPT ![a] =
                 IF @.kind \in {"neighbor", "subnet"} THEN [@ EXCEPT !.kind = "subnet"]
                 ELSE Nothing]

-----------------------------------------------------------------------------
BeginSetup == /\ Restored /\ Setup
              /\ news' = [a \in Addr |-> "none"]
              /\ meddled' = {}
              /\ UNCHANGED <<uplink, entry, want, changes>>

(* pinMacRoute: the lookup.  A route into the tunnel is refused. *)
Lookup ==
    /\ step + 1 \in Addr
    /\ Read
    /\ LET a == step + 1 IN
       IF phase' = "setup" THEN Get(a).via # "tun" /\ want' = [want EXCEPT ![a] = Get(a)]
                           ELSE UNCHANGED want
    /\ UNCHANGED <<uplink, entry, news, meddled, changes>>

(* Mutant of DirectlyConnected: without the check of LLINFO and LOCAL. *)
AnyHost(r) == r.kind \in {"clone", "neighbor"}

(* Host routes that need no pin. *)
PersistentHost(r) == r.kind = "static"
DirectlyConnected(r) == r.kind = "neighbor"
Kept(r) == PersistentHost(r) \/ DirectlyConnected(r)

(* pinMacRoute: the rest.  "route add" replaces a cloned entry and fails   *)
(* when there is a static one.                                             *)
Pin ==
    /\ step \in Addr
    /\ \/ Kept(want[step]) /\ Skip /\ UNCHANGED entry
       \/ ~Kept(want[step]) /\ AddStart /\ UNCHANGED entry
       \/ entry[step].kind # "static" /\ AddSucceeds /\ entry' = Without(step)
    /\ UNCHANGED <<uplink, want, news, meddled, changes>>

(* verifyMacRoutes' judgement of the route to a: same way out as at the    *)
(* lookup, and static unless the address is directly connected.            *)
Stable(a) == /\ Get(a).via = want[a].via
             /\ DirectlyConnected(want[a]) \/ Get(a).kind = "static"

(* One turn of verifyMacRoutes' loop. *)
Verify ==
    /\ step \in OfKind({"verify"})
    /\ Read
    /\ LET a == VerifiedAt(step) IN
       IF phase' = "setup"
       THEN Stable(a) /\ news' = [news EXCEPT ![a] = IF @ = "none" THEN @ ELSE "seen"]
       ELSE UNCHANGED news
    /\ UNCHANGED <<uplink, entry, want, meddled, changes>>

(* "route delete -host" takes whichever host route there is; when the pin  *)
(* is gone that is another's, and Manager.Close sees no difference.        *)
Unpin ==
    /\ phase = "closing" /\ at > 0
    /\ undo[at] \in Addr \ kernel
    /\ \/ NotInTable /\ entry' = Without(undo[at])
       \/ UndoFails /\ UNCHANGED entry
    /\ UNCHANGED <<uplink, want, news, meddled, changes>>

Elsewhere ==
    /\ \/ step \notin OfKind({"pin", "verify"}) /\ step + 1 \notin Addr /\ Read
       \/ step \notin Addr /\ (AddStart \/ AddSucceeds)
       \/ AddFails \/ SetupReturns \/ Close \/ UndoSucceeds \/ CloseReturns
       \/ phase = "closing" /\ at > 0 /\ undo[at] \notin Addr \ kernel
             /\ (NotInTable \/ UndoFails)
       \/ DeviceOpen \/ DeviceClose \/ Cancel
    /\ UNCHANGED routeVars

-----------------------------------------------------------------------------
(* A cloned or neighbour entry expires; this is no change by others. *)
Expire == \E a \in Addr : /\ entry[a].kind \in {"clone", "neighbor"}
                          /\ entry' = Without(a)
                          /\ UNCHANGED <<vars, uplink, want, news, meddled, changes>>

(* Others replace the route to a, our pin included. *)
Disturb ==
    /\ changes < MaxChanges
    /\ changes' = changes + 1
    /\ \E a \in Addr : /\ kernel' = kernel \ {a}
                       /\ \E r \in Route \cup {Nothing} : entry' = [entry EXCEPT ![a] = r]
                       /\ news' = [news EXCEPT ![a] = "unseen"]
                       /\ meddled' = meddled \cup ({a} \cap Owed)
    /\ UNCHANGED <<managerVars, device, cancelled, uplink, want>>

(* The machine moves to another network. *)
Roam ==
    /\ changes < MaxChanges
    /\ changes' = changes + 1
    /\ uplink' \in Uplink \ {uplink}
    /\ news' = [a \in Addr |-> "unseen"]
    /\ UNCHANGED <<vars, entry, want, meddled>>

RNext == \/ BeginSetup \/ Lookup \/ Pin \/ Verify \/ Unpin \/ Elsewhere
         \/ Expire \/ Disturb \/ Roam

RSpec == RInit /\ [][RNext]_allVars

-----------------------------------------------------------------------------
(* The tunnel's own packets stay out of the tunnel: from the lookup on,    *)
(* through split routes and verification, and while the session is up, no  *)
(* underlay address is routed into the tunnel device, though cloned and    *)
(* neighbour routes expire at any time; and if others have changed a       *)
(* route, then only until verifyMacRoutes has looked at it.  (Of an        *)
(* address that was directly connected verifyMacRoutes does not ask        *)
(* whether it still is, so there a change by others remains an excuse.)    *)
OutsideTunnel ==
    phase \in {"setup", "command", "up"} =>
        \A a \in Addr : Get(a).via = "tun" =>
            \/ news[a] = "unseen"
            \/ news[a] = "seen" /\ DirectlyConnected(want[a])

(* "Never delete or change pre-existing routes": neither a pin, nor its    *)
(* undo, nor the rollback of a Setup whose pin failed, takes away a static *)
(* host route of somebody else; only one that others put in the place of   *)
(* a pin the Manager has yet to undo goes with it.                         *)
ForeignRoutesKept ==
    [][\A a \in Addr : entry[a].kind = "static" /\ entry'[a].kind # "static"
                           => changes' # changes \/ a \in meddled]_allVars
=============================================================================
