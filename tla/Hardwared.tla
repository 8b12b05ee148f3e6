----------------------------- MODULE Hardwared -----------------------------
(***************************************************************************)
(* hardwared (system/hardware/hardwared.py, hardware_thread): whether the  *)
(* device is onroad.  Ignition comes from the pandas, a cycle request      *)
(* forces a short offroad, and the thermal band both ends a drive and      *)
(* keeps the next one from starting.                                       *)
(***************************************************************************)
EXTENDS Integers

CONSTANTS
  Readings,         \* pairs <<all_comp_temp, offroad_comp_temp>> the filters give
  CycleTicks,       \* ONROAD_CYCLE_TIME
  DisconnectTicks,  \* DISCONNECT_TIMEOUT
  OffroadTicks      \* the five minutes of the offroad temperature and the power down

ASSUME HwAssumption ==
  /\ \A r \in Readings : r[1] \in Int /\ r[2] \in Int /\ r[2] <= r[1]
  /\ CycleTicks \in Nat \ {0} /\ DisconnectTicks \in Nat /\ OffroadTicks \in Nat

VARIABLES
  ignition,         \* onroad_conditions["ignition"]
  cycle,            \* ticks until not_onroad_cycle is true again
  silent,           \* ticks since the last pandaStates
  thermal_status,   \* 0 green, 1 yellow, 2 red, 3 danger
  started_ts,       \* started_ts is set
  off_for,          \* ticks since off_ts (-1: None)
  started_seen,
  deviceState,      \* the last message: started, and not yet read by the manager
  OnroadCycleRequested

hwVars == <<ignition, cycle, silent, thermal_status, started_ts, off_for, started_seen>>

HwTypeOK ==
  /\ {ignition, started_ts, started_seen, OnroadCycleRequested} \subseteq BOOLEAN
  /\ cycle \in 0..CycleTicks /\ silent \in 0..DisconnectTicks + 1
  /\ thermal_status \in 0..3 /\ off_for \in -1..OffroadTicks + 1
  /\ deviceState \in [started : BOOLEAN, fresh : BOOLEAN]

(* THERMAL_BANDS, and OFFROAD_DANGER_TEMP.                                 *)
MinTemp == <<0, 75, 88, 94>>
MaxTemp == <<80, 96, 107, 1000>>
OFFROAD_DANGER_TEMP == 75

(* The state of a hardwared that has just started.                         *)
HwFresh ==
  /\ ignition' = FALSE /\ cycle' = CycleTicks /\ silent' = 0
  /\ thermal_status' = 1 /\ started_ts' = FALSE /\ off_for' = -1
  /\ started_seen' = FALSE

HwInit ==
  /\ ignition = FALSE /\ cycle = CycleTicks /\ silent = 0
  /\ thermal_status = 1 /\ started_ts = FALSE /\ off_for = -1
  /\ started_seen = FALSE
  /\ deviceState = [started |-> FALSE, fresh |-> FALSE]
  /\ OnroadCycleRequested = FALSE

(* One band at a time, except for a device that is hot though it has been  *)
(* offroad for five minutes.                                               *)
NextBand(reading) ==
  LET all == reading[1]
      off5 == ~started_ts /\ (~started_seen \/ off_for = -1 \/ off_for > OffroadTicks)
  IN IF off5 /\ reading[2] > OFFROAD_DANGER_TEMP THEN 3
     ELSE IF thermal_status > 0 /\ all < MinTemp[thermal_status + 1] THEN thermal_status - 1
     ELSE IF thermal_status < 3 /\ all > MaxTemp[thermal_status + 1] THEN thermal_status + 1
     ELSE thermal_status

(* A mutant of should_start: any band short of danger begins a drive.      *)
should_start_Warm(band, allowed) ==
  /\ ignition' /\ cycle' = 0 /\ band < 3
  /\ started_ts \/ allowed

(* should_start: a drive goes on while the onroad conditions hold; it      *)
(* begins only with the startup conditions too, an engageable band among   *)
(* them.                                                                   *)
should_start(band, allowed) ==
  /\ ignition' /\ cycle' = 0 /\ band < 3
  /\ started_ts \/ (allowed /\ band < 2)

(* power_monitor.should_shutdown; drained is what the battery and the      *)
(* clock say, forced the ForcePowerDown parameter, long_up that the device *)
(* has been on for MIN_ON_TIME_S.                                          *)
should_shutdown(drained, forced, long_up) ==
  /\ off_for' # -1
  /\ \/ drained /\ ~ignition' /\ off_for' > OffroadTicks
     \/ forced
  /\ started_seen' \/ long_up

(* The first part of an iteration: the request and the pandas.             *)
Conditions(panda, line) ==
  /\ OnroadCycleRequested' = FALSE
  /\ cycle' = IF OnroadCycleRequested THEN CycleTicks ELSE cycle
  /\ silent' = IF panda THEN 0 ELSE silent
  /\ ignition' = IF panda THEN line ELSE ignition /\ silent <= DisconnectTicks

(* One published iteration of hardware_thread.                             *)
hardware_thread(panda, line, reading, allowed) ==
  /\ Conditions(panda, line)
  /\ thermal_status' = NextBand(reading)
  /\ started_ts' = should_start(thermal_status', allowed)
  /\ off_for' = IF started_ts' THEN -1 ELSE IF off_for = -1 THEN 0 ELSE off_for
  /\ started_seen' = (started_seen \/ started_ts')
  /\ deviceState' = [started |-> started_ts', fresh |-> TRUE]

(* An iteration that is not due at 2 Hz publishes only at an edge.         *)
ign_edge(panda, line) ==
  LET on == /\ IF panda THEN line ELSE ignition /\ silent <= DisconnectTicks
            /\ cycle = 0 /\ ~OnroadCycleRequested /\ thermal_status < 3
  IN started_ts # on
=============================================================================
