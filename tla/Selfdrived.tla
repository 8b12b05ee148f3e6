----------------------------- MODULE Selfdrived -----------------------------
(***************************************************************************)
(* selfdrived's 100 Hz frame (selfdrived/selfdrived.py): step() samples    *)
(* the car and the panda, builds the frame's events, runs the engagement   *)
(* state machine, then the parallel lateral authority, then the chime      *)
(* decision, and publishes.  Composes StateMachine, MadsPnw and MadsQuiet. *)
(***************************************************************************)
EXTENDS StateMachine, MadsPnw, MadsQuiet

CONSTANTS
  MismatchLimit,      \* 200 frames of disagreement with the panda
  OffRequestHold,     \* OFF_REQUEST_HOLD_S in frames, 300 in the car
  CarStates,          \* the carState messages that may arrive
  PandaSamples,       \* the pandaStates messages that may arrive
  SystemEvents        \* the sets of events other messages may raise

(* The events that conditions outside this module may raise.               *)
OtherEvents == {"buttonCancel", "reverseGear", "steerOverride", "doorOpen",
                "controlsMismatch", "canError", "tooDistracted", "steerSaturated"}

CarState == [canValid : BOOLEAN, brakePressed : BOOLEAN, regenBraking : BOOLEAN,
             gasPressed : BOOLEAN, standstill : BOOLEAN,
             cruise_enabled : BOOLEAN, cruise_available : BOOLEAN,
             blockPcmEnable : BOOLEAN,
             main_press : BOOLEAN,            \* mainCruise pressed
             engage_press : BOOLEAN,          \* accel, decel, resume or set pressed
             car_events : SUBSET OtherEvents] \* raised by the car's other fields

PandaState == [silent : BOOLEAN, healthPacketMismatch : BOOLEAN,
               controlsAllowed : BOOLEAN, controlsAllowedLateral : BOOLEAN]

PandaSample == [valid : BOOLEAN, pandas : SUBSET PandaState]

ASSUME SelfdrivedAssumption ==
  /\ MismatchLimit \in Nat \ {0}
  /\ OffRequestHold \in Nat
  /\ CarStates \subseteq CarState
  /\ PandaSamples \subseteq PandaSample
  /\ SystemEvents \subseteq SUBSET OtherEvents

VARIABLES
  initialized,
  mismatch_counter, lateral_mismatch_counter,
  off_left,       \* frames for which off_request_t still holds
  CS_prev,        \* what the next frame reads of this frame's carState
  pandaStates,    \* the last pandaStates message received
  sound           \* the sounds of this frame's alerts

sdVars == <<initialized, mismatch_counter, lateral_mismatch_counter, off_left,
            CS_prev, pandaStates, sound>>
frameVars == <<smVars, madsVars, quietVars, sdVars>>

enabled == state \in EnabledStates
active == state \in ActiveStates

Remembered(CS) == [brakePressed |-> CS.brakePressed, regenBraking |-> CS.regenBraking,
                   gasPressed |-> CS.gasPressed, cruise_enabled |-> CS.cruise_enabled]

Sounds == {"none", "engage", "disengage", "refuse", "promptRepeat",
           "warningSoft", "warningImmediate"}

SdTypeOK ==
  /\ initialized \in BOOLEAN
  /\ mismatch_counter \in 0..MismatchLimit
  /\ lateral_mismatch_counter \in 0..MismatchLimit
  /\ off_left \in 0..(OffRequestHold + 1)
  /\ CS_prev \in [brakePressed : BOOLEAN, regenBraking : BOOLEAN,
                  gasPressed : BOOLEAN, cruise_enabled : BOOLEAN]
  /\ pandaStates \in PandaSample
  /\ sound \subseteq Sounds

SdInit ==
  /\ SMInit
  /\ MadsInit
  /\ QuietInit
  /\ initialized = FALSE
  /\ mismatch_counter = 0
  /\ lateral_mismatch_counter = 0
  /\ off_left = 0
  /\ CS_prev = [brakePressed |-> FALSE, regenBraking |-> FALSE,
                gasPressed |-> FALSE, cruise_enabled |-> FALSE]
  /\ pandaStates = [valid |-> FALSE, pandas |-> {}]
  /\ sound = {}

-----------------------------------------------------------------------------
(* data_sample: take in what arrived, and count the frames in which the    *)
(* panda disagrees with the previous frame's engagement and steering.      *)
Disagrees(pandas) == \E p \in pandas : ~p.silent /\ ~p.controlsAllowed
DisagreesLateral(pandas) == \E p \in reporting(pandas) : ~p.controlsAllowedLateral

(* Mutant: the lateral counter is not reset when MADS stops steering.      *)
data_sample_NoReset(updated, ps) ==
  /\ pandaStates' = IF updated THEN ps ELSE pandaStates
  /\ initialized' \in {initialized, TRUE}
  /\ mismatch_counter' =
       IF ~enabled THEN 0
       ELSE IF Disagrees(pandaStates'.pandas) THEN mismatch_counter + 1
       ELSE mismatch_counter
  /\ lateral_mismatch_counter' =
       IF enabled THEN 0
       ELSE IF lateral_only /\ DisagreesLateral(pandaStates'.pandas)
            THEN lateral_mismatch_counter + 1
       ELSE lateral_mismatch_counter

data_sample(updated, ps) ==
  /\ pandaStates' = IF updated THEN ps ELSE pandaStates
  /\ initialized' \in {initialized, TRUE}
  /\ mismatch_counter' =
       IF ~enabled THEN 0
       ELSE IF Disagrees(pandaStates'.pandas) THEN mismatch_counter + 1
       ELSE mismatch_counter
  /\ lateral_mismatch_counter' =
       IF enabled \/ ~(mads_available /\ lateral_only) THEN 0
       ELSE IF DisagreesLateral(pandaStates'.pandas) THEN lateral_mismatch_counter + 1
       ELSE lateral_mismatch_counter

-----------------------------------------------------------------------------
(* update_events *)

If(b, e) == IF b THEN {e} ELSE {}

(* CarSpecificEvents.create_common_events on a pcmCruise car, and the      *)
(* pedal rule of update_events.                                            *)
brake_disengage(CS) ==
  \/ CS.brakePressed /\ (~CS_prev.brakePressed \/ ~CS.standstill)
  \/ CS.regenBraking /\ (~CS_prev.regenBraking \/ ~CS.standstill)

car_events(CS, disengage_on_accelerator) ==
  CS.car_events
  \union If(~CS.cruise_available, "wrongCarMode")
  \union If(CS.brakePressed /\ CS.standstill, "preEnableStandstill")
  \union If(CS.gasPressed, "gasPressedOverride")
  \union If(CS.cruise_enabled /\ ~CS_prev.cruise_enabled /\ ~CS.blockPcmEnable, "pcmEnable")
  \union If(~CS.cruise_enabled, "pcmDisable")
  \union If(\/ brake_disengage(CS)
            \/ disengage_on_accelerator /\ CS.gasPressed /\ ~CS_prev.gasPressed,
            "pedalPressed")

(* The off-request latch: set by ON/OFF while MADS steered in the previous *)
(* frame, cleared by an engage press, held for OffRequestHold more frames. *)
off_request(CS) ==
  off_left' =
    IF ~initialized' \/ CS.engage_press THEN 0
    ELSE IF off_request_latches(CS.main_press, lateral_only, CS.gasPressed)
         THEN OffRequestHold + 1
    ELSE IF off_left > 0 THEN off_left - 1 ELSE 0

(* Mutant: a disagreement over lateral alone raises nothing.               *)
mismatch_events_OnlyEngaged ==
  If(pandaStates'.pandas # {} /\ mismatch_counter' >= MismatchLimit, "controlsMismatch")

mismatch_events ==
  If(pandaStates'.pandas # {} /\ mismatch_counter' >= MismatchLimit, "controlsMismatch")
  \union If(lateral_mismatch_counter' >= MismatchLimit, "madsControlsMismatchLateral")

update_events(CS, disengage_on_accelerator, other) ==
  IF ~initialized' THEN {"selfdriveInitializing"}
  ELSE other
       \union If(off_left' > 0, "cruiseOffRequested")
       \union (IF CS.canValid THEN car_events(CS, disengage_on_accelerator)
               ELSE {"canError"})
       \union mismatch_events
       \union If(~pandaStates'.valid, "usbError")

-----------------------------------------------------------------------------
(* The alerts: WARNING is admitted while MADS steers alone, the steering-  *)
(* only banner is added, and the chime decision is applied.                *)
update_alerts(E) ==
  sound' = apply_chime_decision(
             create_alerts(E \union If(lateral_only', "madsLateralOnly"),
                           current_alert_types'
                             \union If(mads_active' /\ state' \notin ActiveStates, "warning")),
             chime')

(* step().  Events, types and input are each bound once, as the code       *)
(* computes them once.                                                     *)
step(CS, updated, ps, disengage_on_accelerator, other) ==
  /\ data_sample(updated, ps)
  /\ off_request(CS)
  /\ \E E \in {update_events(CS, disengage_on_accelerator, other)} :
         /\ IF initialized' THEN \E T \in {TypesOf(E)} : SMUpdate(T) ELSE UNCHANGED smVars
         /\ \E i \in {[op_enabled |-> state' \in EnabledStates,
                       op_active |-> state' \in ActiveStates,
                       braking |-> CS.brakePressed \/ CS.regenBraking,
                       cruise_enabled |-> CS.cruise_enabled,
                       cruise_available |-> CS.cruise_available,
                       off_requested |-> off_left' > 0,
                       events |-> E,
                       panda_lat |-> IF updated /\ pandaStates'.valid
                                     THEN panda_lateral_view(pandaStates'.pandas)
                                     ELSE "unknown"]} : MadsUpdate(i)
         /\ QuietStep(state' \in EnabledStates, lateral_only', mads_available,
                      brake_grace' > 0)
         /\ update_alerts(E)
  /\ CS_prev' = Remembered(CS)
=============================================================================
