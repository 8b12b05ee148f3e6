------------------------------ MODULE MadsPanda -----------------------------
(***************************************************************************)
(* openpilot's lateral authority beside the panda's.  Three parties look   *)
(* at one CAN bus: the car, whose cruise may drop before its brake is      *)
(* reported; the panda, which sees every CAN frame and enforces            *)
(* controls_allowed / controls_allowed_lateral; and selfdrived, which may  *)
(* miss frames when card conflates them.  pandad polls the panda's health  *)
(* and sends it the heartbeat at 10 Hz.  One Tick is one carState period.  *)
(*                                                                         *)
(* The panda's firmware (opendbc/safety/pnw/mads.h, panda/board/main.c) is *)
(* not in this repository: the Panda operators model it from its contract  *)
(* as mads_pnw.py, pandad and docs/pnw/MADS2PNW.md use it.                 *)
(***************************************************************************)
EXTENDS Selfdrived

CONSTANTS
  RelatchTicks,     \* MADS_BRAKE_RELATCH_US in ticks, 60 in the car
  PollTicks,        \* pandad's 10 Hz poll in ticks, 10 in the car
  SecondTicks,      \* the panda's 1 Hz watchdog in ticks, 100 in the car
  MaxMissed,        \* frames selfdrived may miss around a disengagement
  PandaFaults       \* whether the panda may drop lateral by itself (lag, invalid rx)

BusState == [brake : BOOLEAN, cruise : BOOLEAN, main : BOOLEAN]

ASSUME MadsPandaAssumption ==
  /\ RelatchTicks \in Nat
  /\ PollTicks \in Nat \ {0}
  /\ SecondTicks \in Nat \ {0}
  /\ MaxMissed \in Nat
  /\ PandaFaults \in BOOLEAN

(* openpilot's window for a late brake is no wider than the panda's        *)
(* (mads_pnw.py: 45 frames against MADS_BRAKE_RELATCH_US, 60), and the     *)
(* watchdog's two seconds outlast the frames missed and two polls.         *)
ASSUME WindowsAssumption ==
  /\ BrakeGraceFrames <= RelatchTicks
  /\ MaxMissed + 2 * PollTicks < 2 * SecondTicks

VARIABLES
  car,              \* what is on the bus: brake, stock cruise, ACC main
  controls_allowed, controls_allowed_lateral,
  relatch_left,     \* ticks left in which a brake re-latches lateral
  heartbeat_engaged_mads,
  mismatches,       \* ticks with the latch up and no heartbeat for it
  poll,             \* ticks since the last poll
  health, fresh,    \* the last pandaStates sent, and whether selfdrived has yet to read it
  missed,           \* frames selfdrived missed since both sides were last engaged
  faulted           \* the panda dropped lateral by itself and has not latched it since

pandaVars == <<controls_allowed, controls_allowed_lateral, relatch_left,
               heartbeat_engaged_mads, mismatches>>
linkVars == <<poll, health, fresh, missed, faulted>>
mpVars == <<frameVars, car, pandaVars, linkVars>>

MpTypeOK ==
  /\ SMTypeOK /\ MadsTypeOK /\ QuietTypeOK /\ SdTypeOK
  /\ car \in BusState
  /\ controls_allowed \in BOOLEAN
  /\ controls_allowed_lateral \in BOOLEAN
  /\ relatch_left \in 0..RelatchTicks
  /\ heartbeat_engaged_mads \in BOOLEAN
  /\ mismatches \in 0..(3 * SecondTicks)
  /\ poll \in 0..(PollTicks - 1)
  /\ health \in PandaSample
  /\ fresh \in BOOLEAN
  /\ missed \in 0..MaxMissed
  /\ faulted \in BOOLEAN

MpInit ==
  /\ SdInit
  /\ mads_available
  /\ car = [brake |-> FALSE, cruise |-> FALSE, main |-> TRUE]
  /\ controls_allowed = FALSE
  /\ controls_allowed_lateral = FALSE
  /\ relatch_left = 0
  /\ heartbeat_engaged_mads = FALSE
  /\ mismatches = 0
  /\ poll = 0
  /\ health = [valid |-> FALSE, pandas |-> {}]
  /\ fresh = FALSE
  /\ missed = 0
  /\ faulted = FALSE

-----------------------------------------------------------------------------
(* The car: cruise engages only with ACC main on and the brake up, and may *)
(* drop at any moment, in particular ticks before or after the brake that  *)
(* made it drop.                                                           *)
CarMoves(c) ==
  /\ c.cruise => c.main
  /\ c.cruise /\ ~car.cruise => ~c.brake
  /\ car' = c

-----------------------------------------------------------------------------
(* The panda (external).  c is the bus as it now is, car as it was.        *)

PandaControls(c) ==
  CASE c.cruise /\ ~car.cruise                -> ~c.brake
    [] ~(c.cruise /\ ~car.cruise)             -> controls_allowed /\ c.cruise /\ ~c.brake

WatchdogMay == mismatches >= 2 * SecondTicks
WatchdogMust == mismatches = 3 * SecondTicks

(* Lateral latches with controls_allowed; falls with ACC main, with a brake*)
(* under DISENGAGE, and with controls_allowed lost while not braking; comes*)
(* back if the brake follows that loss inside the re-latch window.         *)
PandaLatch(c) ==
  LET rise == controls_allowed' /\ ~controls_allowed
      fall == controls_allowed /\ ~controls_allowed'
      brake_rise == c.brake /\ ~car.brake
      relatch == relatch_left > 0 /\ brake_rise /\ ~disengage_on_brake
  IN \/ /\ ~c.main \/ (disengage_on_brake /\ brake_rise)
        /\ controls_allowed_lateral' = FALSE
        /\ relatch_left' = 0
     \/ /\ c.main /\ ~(disengage_on_brake /\ brake_rise)
        /\ rise \/ relatch
        /\ controls_allowed_lateral' = TRUE
        /\ relatch_left' = 0
     \/ /\ c.main /\ ~(disengage_on_brake /\ brake_rise)
        /\ fall /\ ~c.brake
        /\ controls_allowed_lateral' = FALSE
        /\ relatch_left' = RelatchTicks
     \/ /\ c.main /\ ~(disengage_on_brake /\ brake_rise)
        /\ ~rise /\ ~relatch /\ ~(fall /\ ~c.brake)
        /\ \/ ~WatchdogMust /\ controls_allowed_lateral' = controls_allowed_lateral
           \/ (WatchdogMay \/ PandaFaults) /\ controls_allowed_lateral' = FALSE
        /\ relatch_left' = IF relatch_left > 0 THEN relatch_left - 1 ELSE 0

(* The latch fell and neither the bus nor the watchdog made it fall.       *)
PandaDrops(c) ==
  /\ ~WatchdogMay
  /\ controls_allowed_lateral /\ ~controls_allowed_lateral'
  /\ c.main
  /\ ~(controls_allowed /\ ~controls_allowed' /\ ~c.brake)
  /\ ~(disengage_on_brake /\ c.brake /\ ~car.brake)

(* The count starts over when controls_allowed rises and sets the latch.   *)
PandaWatchdog ==
  mismatches' = IF \/ ~controls_allowed_lateral'
                   \/ heartbeat_engaged_mads'
                   \/ controls_allowed' /\ ~controls_allowed THEN 0
                ELSE IF mismatches < 3 * SecondTicks THEN mismatches + 1 ELSE mismatches

PandaRx(c) ==
  /\ controls_allowed' = PandaControls(c)
  /\ PandaLatch(c)
  /\ PandaWatchdog

-----------------------------------------------------------------------------
(* pandad, every PollTicks: publish the panda's health and send it the     *)
(* heartbeat from the last madsState.                                      *)
HealthOf == [valid |-> TRUE,
             pandas |-> {[silent |-> FALSE, healthPacketMismatch |-> FALSE,
                          controlsAllowed |-> controls_allowed,
                          controlsAllowedLateral |-> controls_allowed \/ controls_allowed_lateral]}]

Polls == poll = 0

(* Mutant: the heartbeat always claims MADS is engaged.                    *)
PandadPoll_Always ==
  /\ poll' = (poll + 1) % PollTicks
  /\ heartbeat_engaged_mads' = TRUE
  /\ health' = IF Polls THEN HealthOf ELSE health

PandadPoll ==
  /\ poll' = (poll + 1) % PollTicks
  /\ heartbeat_engaged_mads' = IF Polls THEN mads_available /\ mads_enabled
                               ELSE heartbeat_engaged_mads
  /\ health' = IF Polls THEN HealthOf ELSE health

(* The carState message for the bus c.                                     *)
CarMessage(c, pressed) ==
  [canValid |-> TRUE, brakePressed |-> c.brake, regenBraking |-> FALSE,
   gasPressed |-> FALSE, standstill |-> FALSE, cruise_enabled |-> c.cruise,
   cruise_available |-> c.main, blockPcmEnable |-> FALSE,
   main_press |-> pressed, engage_press |-> FALSE, car_events |-> {}]

BothEngaged == controls_allowed /\ state \in EnabledStates

(* selfdrived runs its frame on what the bus says now ...                  *)
SelfdrivedFrame(c, pressed, other) ==
  /\ step(CarMessage(c, pressed), fresh \/ Polls,
          IF Polls THEN HealthOf ELSE health, FALSE, other)
  /\ fresh' = FALSE
  /\ missed' = IF BothEngaged' THEN 0 ELSE missed

(* ... or card conflates this frame into a later one.  Missed frames are   *)
(* considered with ACC main on.                                            *)
FrameMissed(c) ==
  /\ missed < MaxMissed
  /\ car.main /\ c.main
  /\ missed' = missed + 1
  /\ fresh' = (fresh \/ Polls)
  /\ UNCHANGED frameVars

Tick(c, pressed, other) ==
  /\ CarMoves(c)
  /\ PandadPoll
  /\ PandaRx(c)
  /\ SelfdrivedFrame(c, pressed, other) \/ FrameMissed(c)
  /\ faulted' = (~controls_allowed_lateral' /\ (faulted \/ PandaDrops(c)))

MpNext == \E c \in BusState, pressed \in BOOLEAN, other \in SystemEvents :
            Tick(c, pressed, other)

MpSpec == MpInit /\ [][MpNext]_mpVars
=============================================================================
