---------------------------- MODULE Supervision ----------------------------
(***************************************************************************)
(* hardwared, the manager, its processes and the recording gate together,  *)
(* with a car that changes gear and ignition, a panda that falls silent    *)
(* and processes that crash or ignore SIGINT.  A tick is half a second:    *)
(* hardwared's 2 Hz iteration, a tick of card and a manager pass are due   *)
(* in each, in any order, unless the manager is held in a join.            *)
(***************************************************************************)
EXTENDS Manager, ParkGate, Hardwared

CONSTANTS
  SeedTicks,    \* the time card takes from its spawn to its seed of GearPark
  MaxEvents,    \* bound: gear, ignition and panda changes, cycle requests
  MaxCrashes    \* bound: processes that die unasked

ASSUME SupervisionAssumption ==
  /\ {"loggerd", "card", "hardwared"} \subseteq Names
  /\ "hardwared" \notin Restarted
  /\ SeedTicks \in Nat /\ MaxEvents \in Nat /\ MaxCrashes \in Nat

VARIABLES
  gear, line, panda,    \* the car: its gear, the ignition line, a panda that talks
  bus,                  \* what of CAN arrives: all, the gear only, a gear not available, nothing
  temps,                \* the two filtered temperatures
  power,                \* "drained" by the battery or the clock, "forced" by ForcePowerDown
  due,                  \* whose turn of this tick is still to come
  importing,            \* ticks card has been importing
  events, crashes

carVars == <<gear, line, panda, bus, temps, power>>
boundVars == <<events, crashes>>
vars == <<mgrVars, cardVars, gateVars, RecordWhileParked, hwVars, deviceState, OnroadCycleRequested,
          carVars, due, importing, boundVars>>

Buses == {"good", "gear", "sna", "silent"}

TypeOK ==
  /\ MgrTypeOK /\ GateTypeOK /\ HwTypeOK
  /\ gear \in {"park", "drive"} /\ {line, panda} \subseteq BOOLEAN
  /\ bus \in Buses /\ temps \in Readings /\ power \in {"fine", "drained", "forced"}
  /\ due \subseteq {"hardwared", "card", "manager"}
  /\ importing \in 0..SeedTicks
  /\ events \in 0..MaxEvents /\ crashes \in 0..MaxCrashes

Init ==
  /\ MgrInit /\ GateInit /\ HwInit
  /\ gear = "park" /\ line = TRUE /\ panda = TRUE /\ bus = "good"
  /\ temps \in Readings /\ \A r \in Readings : temps[1] <= r[1]
  /\ power = "fine"
  /\ due = {} /\ importing = 0 /\ events = 0 /\ crashes = 0

(* A child that is spawned starts from nothing; one that ends loses what   *)
(* it held in memory.                                                      *)
Began(p) == ~Alive(p) /\ procs'[p].proc = "alive"
Ended(p) == Alive(p) /\ procs'[p].proc # "alive"

ChildrenFollow ==
  /\ IF Began("card") THEN CardSpawned /\ importing' = 0
     ELSE IF Ended("card") THEN CardGone /\ importing' = 0
     ELSE UNCHANGED <<cardVars, importing>>
  /\ IF Began("hardwared") THEN HwFresh ELSE UNCHANGED hwVars

Others == UNCHANGED <<RecordWhileParked, OnroadCycleRequested, carVars, boundVars>>

(* sm.update(1000): the manager goes on with a new message, or without one *)
(* when hardwared is not there to send it.                                 *)
Poll ==
  /\ manager_thread(deviceState.started)
  /\ deviceState.fresh \/ (~Alive("hardwared") /\ "manager" \in due)
  /\ deviceState' = [deviceState EXCEPT !.fresh = FALSE]
  /\ due' = due \ {"manager"}
  /\ UNCHANGED <<gateVars, cardVars, hwVars, importing>> /\ Others

(* The should_run of an entry: hardwared always, the recorder unless the   *)
(* gate holds it, the rest while onroad.                                   *)
logging == update(started, Alive("card")) /\ ensure_running(started /\ ~holding')

ShouldRun ==
  \/ Entry = "loggerd" /\ logging
  \/ Entry = "hardwared" /\ ensure_running(TRUE) /\ UNCHANGED gateVars
  \/ Entry \notin {"loggerd", "hardwared"} /\ ensure_running(started) /\ UNCHANGED gateVars

ManagerStep ==
  /\ \/ ShouldRun
     \/ (Joined \/ Sigkill \/ StartEntry \/ SendState \/ manager_cleanup) /\ UNCHANGED gateVars
  /\ ChildrenFollow
  /\ UNCHANGED <<deviceState, due>> /\ Others

(* A process exits when asked, or dies.                                    *)
ProcessEnds(p) ==
  /\ Exits(p)
  /\ ChildrenFollow
  /\ UNCHANGED <<gateVars, deviceState, due>> /\ Others

Crash(p) ==
  /\ crashes < MaxCrashes /\ crashes' = crashes + 1
  /\ Dies(p)
  /\ ChildrenFollow
  /\ UNCHANGED <<gateVars, deviceState, due, RecordWhileParked, OnroadCycleRequested, carVars, events>>

(* The walk over the table reads nothing that the car, card or hardwared   *)
(* write but GearPark, once, and at its end DoShutdown: a step of theirs   *)
(* during a walk commutes with it, and is taken where the manager waits.   *)
Between == mgr_pc = "poll" \/ joining > 1

HardwareStep ==
  /\ Between \/ mgr_pc = "report"
  /\ Alive("hardwared")
  /\ "hardwared" \in due \/ ign_edge(panda, line)
  /\ \E allowed \in BOOLEAN : hardware_thread(panda, line, temps, allowed)
  /\ \E long_up \in BOOLEAN :
       DoShutdown' = (DoShutdown \/ should_shutdown(power = "drained", power = "forced", long_up))
  /\ due' = due \ {"hardwared"}
  /\ UNCHANGED <<procs, mgr_pc, at, joining, started, running, IsOnroad, report,
                 cardVars, gateVars, RecordWhileParked, carVars, importing, boundVars>>

Quiet == UNCHANGED <<mgrVars, gateVars, RecordWhileParked, hwVars, deviceState, OnroadCycleRequested,
                     carVars, importing, boundVars>>

CardStep == Between /\ (Seed \/ Ready \/ Flush) /\ UNCHANGED due /\ Quiet

CardTurn ==
  /\ Between
  /\ "card" \in due /\ due' = due \ {"card"}
  /\ \/ bus = "good" /\ update_gear(gear, TRUE)
     \/ bus = "gear" /\ update_gear(gear, FALSE)
     \/ bus = "sna" /\ \E can_valid \in BOOLEAN : update_gear("unknown", can_valid)
     \/ bus = "silent" /\ update_gear("none", FALSE)
  /\ Quiet

(* What the driver and the car do.                                         *)
World ==
  /\ Between
  /\ events < MaxEvents /\ events' = events + 1
  /\ \/ /\ gear' = IF gear = "park" THEN "drive" ELSE "park"
        /\ UNCHANGED <<line, panda, bus, temps, power, OnroadCycleRequested, RecordWhileParked>>
     \/ /\ line' = ~line
        /\ UNCHANGED <<gear, panda, bus, temps, power, OnroadCycleRequested, RecordWhileParked>>
     \/ /\ panda' = ~panda
        /\ UNCHANGED <<gear, line, bus, temps, power, OnroadCycleRequested, RecordWhileParked>>
     \/ /\ bus' \in Buses \ {bus}
        /\ UNCHANGED <<gear, line, panda, temps, power, OnroadCycleRequested, RecordWhileParked>>
     \/ /\ temps' \in Readings \ {temps}
        /\ UNCHANGED <<gear, line, panda, bus, power, OnroadCycleRequested, RecordWhileParked>>
     \/ /\ power = "fine" /\ power' \in {"drained", "forced"}
        /\ UNCHANGED <<gear, line, panda, bus, temps, OnroadCycleRequested, RecordWhileParked>>
     \/ /\ started /\ OnroadCycleRequested' = TRUE
        /\ UNCHANGED <<carVars, RecordWhileParked>>
     \/ /\ RecordWhileParked' = ~RecordWhileParked
        /\ UNCHANGED <<carVars, OnroadCycleRequested>>
  /\ UNCHANGED <<mgrVars, cardVars, gateVars, hwVars, deviceState, due, importing, crashes>>

(* Half a second passes once everyone had his turn.                        *)
Waiting == mgr_pc = "poll" /\ ~deviceState.fresh /\ (Alive("hardwared") \/ "manager" \notin due)

Tick ==
  /\ Waiting \/ (joining > 1 /\ Alive(Entry))
  /\ writes = <<>>
  /\ "hardwared" \in due => ~Alive("hardwared")
  /\ "card" \in due => card_pc # "loop"
  /\ card_pc = "import" => importing < SeedTicks
  /\ due' = (IF Alive("hardwared") THEN {"hardwared"} ELSE {"manager"})
              \union (IF card_pc = "loop" THEN {"card"} ELSE {})
  /\ joining' = IF joining > 0 THEN joining - 1 ELSE 0
  /\ importing' = IF card_pc = "import" THEN importing + 1 ELSE importing
  /\ cycle' = IF cycle > 0 THEN cycle - 1 ELSE 0
  /\ silent' = IF silent > DisconnectTicks THEN silent ELSE silent + 1
  /\ off_for' = IF off_for \in 0..OffroadTicks THEN off_for + 1 ELSE off_for
  /\ park_since' = IF park_since \in 0..HoldTicks - 1 THEN park_since + 1 ELSE park_since
  /\ UNCHANGED <<procs, mgr_pc, at, started, running, IsOnroad, report, DoShutdown, cardVars, holding,
                 RecordWhileParked, ignition, thermal_status, started_ts, started_seen, deviceState,
                 OnroadCycleRequested, carVars, boundVars>>

Next ==
  \/ Poll \/ ManagerStep \/ HardwareStep \/ CardStep \/ CardTurn \/ World \/ Tick
  \/ \E p \in Names : ProcessEnds(p) \/ Crash(p)

Spec == Init /\ [][Next]_vars
=============================================================================
