------------------------------- MODULE Network -------------------------------
(***************************************************************************)
(* The arbiter's loop with the radio, the driver and the road: networks    *)
(* come into range and go, routers die and recover, NetworkManager and the *)
(* driver join networks of their own accord, and the daemon is restarted.  *)
(***************************************************************************)
EXTENDS NetworkArbiterd

CONSTANTS Faults,       \* the reads of nmcli and of the params that may fail
          DhcpTicks,    \* the slowest DHCP of a network that works
          MaxFaults,    \* bound: failed reads, incomplete scans, failed joins
          MaxEvents     \* bound: what the world does

ASSUME NetworkAssumption ==
  /\ Faults \subseteq {"active", "usable", "scan", "cost", "pick", "saved"}
  /\ DhcpTicks \in 0..(GraceTicks - 1) /\ MaxFaults \in Nat /\ MaxEvents \in Nat

VARIABLES faults, events

vars == <<arbiter_vars, radio, lease, range, works, gps, pick, tethering, ladder,
          on_priority, faults, events>>

Init ==
  /\ ArbiterInit
  /\ range \in SUBSET Nets /\ works \in SUBSET Nets
  /\ gps \in {"home", "away", "none"}
  /\ gps = "away" => range \cap Stationary = {}
  /\ radio \in {NoNet} \cup range /\ lease = 0
  /\ pick = NoPick /\ tethering = TRUE /\ ladder = TRUE /\ on_priority = FALSE
  /\ faults = 0 /\ events = 0

-----------------------------------------------------------------------------
(***************************************************************************)
(* A read whose failure this pass can tell from success: one that is made, *)
(* and whose answer is not what the daemon has already.                    *)
(***************************************************************************)
Tells(fault) ==
  CASE fault = "pick"   -> pick # pin.key
    [] fault = "usable" -> radio \in Nets
    [] fault = "cost"   -> ~(range \subseteq costed)
    [] fault = "active" -> TRUE
    [] fault \in {"scan", "saved"} -> tethering

Look ==
  \E fault \in {"none"} \cup Faults, omitted \in {{}} \cup {{n} : n \in range} :
    /\ \/ fault = "none" /\ omitted = {} /\ UNCHANGED faults
       \/ /\ faults < MaxFaults /\ faults' = faults + 1
          /\ \/ fault # "none" /\ omitted = {} /\ Tells(fault)
             \/ fault = "none" /\ omitted # {} /\ tethering
    /\ look(fault, omitted) /\ UNCHANGED events

(***************************************************************************)
(* nmcli con up and down, as NetworkManager answers them (external): a     *)
(* network that works is joined, one that does not either refuses or       *)
(* associates and leads nowhere, one out of range is not found.  How a join*)
(* failed (classify_join_failure) is only ever asked of a mobile entry.    *)
(***************************************************************************)
Joins ==
  /\ todo.action = "up" /\ todo.ssid \in range
  /\ \E wait \in 0..(IF todo.ssid \in works THEN DhcpTicks ELSE 0) :
       _apply(todo.ssid, wait, "")
  /\ UNCHANGED <<faults, events>>

Refused ==
  /\ todo.action = "up" /\ todo.ssid \notin range \cap works
  /\ \E class \in {"real"} \cup {c \in {"transient"} : todo.ssid \in Mobile} :
       _apply(NoNet, 0, class)
  /\ UNCHANGED <<faults, events>>

NotAwake ==
  /\ todo.action = "up" /\ todo.ssid \in range \cap works /\ faults < MaxFaults
  /\ _apply(NoNet, 0, "transient")
  /\ faults' = faults + 1 /\ UNCHANGED events

ApUp == /\ todo.action = "up_hotspot" /\ _apply(Hotspot, 0, "")
        /\ UNCHANGED <<faults, events>>

ApDown == /\ todo.action = "down_hotspot"
          /\ _apply(IF radio = Hotspot THEN NoNet ELSE radio, lease, "")
          /\ UNCHANGED <<faults, events>>

-----------------------------------------------------------------------------
(***************************************************************************)
(* The world.                                                              *)
(***************************************************************************)
Happens ==
  /\ events < MaxEvents /\ events' = events + 1
  /\ UNCHANGED <<ledger, absent, retried, link, pin, costed, since_scan, todo,
                 on_priority, faults>>

Stays == UNCHANGED <<radio, lease>>
Within(r) == IF radio \in Nets \ r THEN radio' = NoNet /\ lease' = 0 ELSE Stays

ComesAndGoes ==
  \E n \in Nets :
    /\ Happens
    /\ n \in Stationary => gps # "away"
    /\ range' = IF n \in range THEN range \ {n} ELSE range \cup {n}
    /\ Within(range')
    /\ UNCHANGED <<works, gps, pick, tethering, ladder>>

Drives ==
  \E g \in {"home", "away", "none"} \ {gps} :
    /\ Happens
    /\ gps' = g /\ range' = IF g = "away" THEN range \ Stationary ELSE range
    /\ Within(range')
    /\ UNCHANGED <<works, pick, tethering, ladder>>

BreaksOrRecovers ==
  \E n \in Nets :
    /\ Happens
    /\ works' = IF n \in works THEN works \ {n} ELSE works \cup {n}
    /\ Stays /\ UNCHANGED <<range, gps, pick, tethering, ladder>>

Picks ==
  \E n \in range :
    /\ Happens
    /\ pick' = [ssid |-> n, ts |-> events']
    /\ radio' \in {n, NoNet}
    /\ lease' \in (IF radio' = n THEN 0..DhcpTicks ELSE {0})
    /\ UNCHANGED <<range, works, gps, tethering, ladder>>

Autoconnects ==
  \E n \in range \ {radio} :
    /\ Happens
    /\ radio' = n /\ lease' \in 0..DhcpTicks
    /\ UNCHANGED <<range, works, gps, pick, tethering, ladder>>

Toggles ==
  /\ Happens
  /\ \/ tethering' = ~tethering /\ UNCHANGED ladder
     \/ ladder' = ~ladder /\ UNCHANGED tethering
  /\ Stays /\ UNCHANGED <<range, works, gps, pick>>

(***************************************************************************)
(* The daemon dies and is started again, alone or with its manager, which  *)
(* forgets the pick.                                                       *)
(***************************************************************************)
Restarts ==
  /\ events < MaxEvents /\ events' = events + 1
  /\ start /\ pick' \in {pick, NoPick}
  /\ Stays /\ UNCHANGED <<range, works, gps, tethering, ladder, on_priority, faults>>

Next == \/ Look \/ Joins \/ Refused \/ NotAwake \/ ApUp \/ ApDown
        \/ ComesAndGoes \/ Drives \/ BreaksOrRecovers \/ Picks \/ Autoconnects
        \/ Toggles \/ Restarts

Spec == Init /\ [][Next]_vars
=============================================================================
