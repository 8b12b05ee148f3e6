------------------------------- MODULE MadsPnw ------------------------------
(***************************************************************************)
(* The parallel lateral authority (selfdrived/mads_pnw.py): MadsPnw.update *)
(* runs once per 100 Hz frame, after the engagement state machine has      *)
(* decided op_enabled, and answers whether openpilot may still steer.      *)
(***************************************************************************)
EXTENDS Integers, Events

CONSTANTS
  BrakeGraceFrames,   \* MADS_BRAKE_GRACE_FRAMES, 45 in the car
  PandaGraceFrames    \* MADS_BRAKE_PANDA_GRACE_FRAMES, 75 in the car

ASSUME GraceAssumption ==
  /\ BrakeGraceFrames \in Nat \ {0}
  /\ PandaGraceFrames \in Nat
  /\ BrakeGraceFrames <= PandaGraceFrames

VARIABLES
  mads_available,       \* the car and its panda run MADS
  disengage_on_brake,   \* the driver asked for the stock behaviour
  mads_enabled,         \* MadsPnw.enabled: latched lateral authority
  mads_active,          \* MadsPnw.active: command lateral this frame
  lateral_only,         \* steering while openpilot itself is disengaged
  op_enabled_prev, cruise_enabled_prev,
  brake_grace,          \* frames left in which a late brake may still arm
  grace_elapsed,        \* frames since the falling edge
  grace_brake_seen      \* the brake was seen since the falling edge

madsConfig == <<mads_available, disengage_on_brake>>
madsVars == <<madsConfig, mads_enabled, mads_active, lateral_only, op_enabled_prev,
              cruise_enabled_prev, brake_grace, grace_elapsed, grace_brake_seen>>

(* The MADS bits of CarParams.alternativeExperience.                       *)
AltExpBits == {"ENABLE_MADS", "MADS_DISENGAGE_LATERAL_ON_BRAKE",
               "MADS_PAUSE_LATERAL_ON_BRAKE"}

(* What the panda last said of lateral, or that it said nothing this frame. *)
PandaViews == {"allowed", "refused", "unknown"}

MadsTypeOK ==
  /\ mads_available \in BOOLEAN
  /\ disengage_on_brake \in BOOLEAN
  /\ mads_enabled \in BOOLEAN
  /\ mads_active \in BOOLEAN
  /\ lateral_only \in BOOLEAN
  /\ op_enabled_prev \in BOOLEAN
  /\ cruise_enabled_prev \in BOOLEAN
  /\ brake_grace \in 0..PandaGraceFrames
  /\ grace_elapsed \in 0..PandaGraceFrames
  /\ grace_brake_seen \in BOOLEAN

(* MadsPnw.__init__                                                        *)
MadsInit ==
  /\ \E alt \in SUBSET AltExpBits :
       /\ mads_available = ("ENABLE_MADS" \in alt
                            /\ "MADS_PAUSE_LATERAL_ON_BRAKE" \notin alt)
       /\ disengage_on_brake = ("MADS_DISENGAGE_LATERAL_ON_BRAKE" \in alt)
  /\ mads_enabled = FALSE
  /\ mads_active = FALSE
  /\ lateral_only = FALSE
  /\ op_enabled_prev = FALSE
  /\ cruise_enabled_prev = FALSE
  /\ brake_grace = 0
  /\ grace_elapsed = 0
  /\ grace_brake_seen = FALSE

-----------------------------------------------------------------------------
MADS_TOLERATED_EVENTS == {"pedalPressed", "pcmDisable"}
LATERAL_DISABLE_TYPES == {"userDisable", "softDisable", "immediateDisable"}

has_blocking_event(E) ==
  TypesOf(E \ MADS_TOLERATED_EVENTS) \intersect LATERAL_DISABLE_TYPES # {}

(* The pandas whose lateral answer counts.                                 *)
reporting(pandas) == {p \in pandas : ~p.silent /\ ~p.healthPacketMismatch}

panda_lateral_view(pandas) ==
  CASE reporting(pandas) = {} -> "unknown"
    [] reporting(pandas) # {} /\ (\A p \in reporting(pandas) : p.controlsAllowedLateral)
         -> "allowed"
    [] OTHER -> "refused"

(* Mutant: ON/OFF latches whether or not MADS steers.                      *)
off_request_latches_Always(main_press, lat_only, gas_pressed) ==
  main_press /\ ~gas_pressed

off_request_latches(main_press, lat_only, gas_pressed) ==
  main_press /\ lat_only /\ ~gas_pressed

brake_grace_open == brake_grace > 0

-----------------------------------------------------------------------------
(* The four branches of MadsPnw.update.  i is the frame's input.           *)

Steer(b) == mads_enabled' = b /\ mads_active' = b /\ lateral_only' = b

(* Mutant: the off request is not asked.                                   *)
StoodDown_NoOff(i) == ~i.cruise_available \/ ~mads_available

StoodDown(i) == ~i.cruise_available \/ i.off_requested \/ ~mads_available

(* Mutant: the window survives.                                            *)
StandDown_KeepsWindow(i) ==
  /\ StoodDown(i)
  /\ Steer(FALSE)
  /\ UNCHANGED <<brake_grace, grace_elapsed, grace_brake_seen>>

(* ACC main off, the driver's off request, or no MADS on this car.         *)
StandDown(i) ==
  /\ StoodDown(i)
  /\ Steer(FALSE)
  /\ brake_grace' = 0
  /\ UNCHANGED <<grace_elapsed, grace_brake_seen>>

(* Mutant: lateral is commanded as soon as openpilot is enabled, active or *)
(* not.                                                                    *)
MirrorEngagement_Enabled(i) ==
  /\ ~StoodDown(i)
  /\ i.op_enabled
  /\ mads_enabled' = TRUE
  /\ mads_active' = TRUE
  /\ lateral_only' = FALSE
  /\ brake_grace' = 0
  /\ UNCHANGED <<grace_elapsed, grace_brake_seen>>

(* openpilot itself is engaged: mirror it.                                 *)
MirrorEngagement(i) ==
  /\ ~StoodDown(i)
  /\ i.op_enabled
  /\ mads_enabled' = TRUE
  /\ mads_active' = i.op_active
  /\ lateral_only' = FALSE
  /\ brake_grace' = 0
  /\ UNCHANGED <<grace_elapsed, grace_brake_seen>>

(* The falling edge: lateral survives a brake press and nothing else; with *)
(* the brake still in flight a bounded window opens.                       *)
FallingEdge(i) ==
  /\ ~StoodDown(i)
  /\ ~i.op_enabled
  /\ op_enabled_prev
  /\ LET may_arm == ~disengage_on_brake /\ ~has_blocking_event(i.events)
     IN  /\ Steer(may_arm /\ i.braking)
         /\ brake_grace' = IF may_arm /\ ~i.braking THEN PandaGraceFrames ELSE 0
  /\ grace_elapsed' = 0
  /\ grace_brake_seen' = FALSE

CruiseEngageEdge(i) == i.cruise_enabled /\ ~cruise_enabled_prev

(* Steering alone or off, and something takes it away for good.            *)
Revoke(i) ==
  /\ ~StoodDown(i)
  /\ ~i.op_enabled
  /\ ~op_enabled_prev
  /\ has_blocking_event(i.events) \/ CruiseEngageEdge(i)
  /\ Steer(FALSE)
  /\ brake_grace' = 0
  /\ UNCHANGED <<grace_elapsed, grace_brake_seen>>

Undisturbed(i) ==
  /\ ~StoodDown(i)
  /\ ~i.op_enabled
  /\ ~op_enabled_prev
  /\ ~has_blocking_event(i.events)
  /\ ~CruiseEngageEdge(i)

(* Mutants: any brake in the window arms, however late; the last frame of  *)
(* openpilot's own window does not arm.                                    *)
WaitForBrake_Late(i) ==
  /\ Undisturbed(i)
  /\ brake_grace > 0
  /\ brake_grace' = brake_grace - 1
  /\ grace_elapsed' = grace_elapsed + 1
  /\ grace_brake_seen' = (grace_brake_seen \/ i.braking)
  /\ Steer(mads_enabled \/ i.braking \/ (grace_brake_seen' /\ i.panda_lat = "allowed"))
WaitForBrake_Short(i) ==
  /\ Undisturbed(i)
  /\ brake_grace > 0
  /\ brake_grace' = brake_grace - 1
  /\ grace_elapsed' = grace_elapsed + 1
  /\ grace_brake_seen' = (grace_brake_seen \/ i.braking)
  /\ Steer(\/ mads_enabled
           \/ i.braking /\ grace_elapsed' < BrakeGraceFrames
           \/ grace_brake_seen' /\ i.panda_lat = "allowed")

(* Inside the window: arm on a brake in time, or on a late one once the    *)
(* panda itself reports lateral permitted.                                 *)
WaitForBrake(i) ==
  /\ Undisturbed(i)
  /\ brake_grace > 0
  /\ brake_grace' = brake_grace - 1
  /\ grace_elapsed' = grace_elapsed + 1
  /\ grace_brake_seen' = (grace_brake_seen \/ i.braking)
  /\ Steer(\/ mads_enabled
           \/ i.braking /\ grace_elapsed' <= BrakeGraceFrames
           \/ grace_brake_seen' /\ i.panda_lat = "allowed")

(* Mutant: a brake arms without a window.                                  *)
Hold_Arms(i) ==
  /\ Undisturbed(i)
  /\ brake_grace = 0
  /\ Steer(mads_enabled \/ (i.braking /\ ~disengage_on_brake))
  /\ UNCHANGED <<brake_grace, grace_elapsed, grace_brake_seen>>

(* No window, nothing in the way: what was decided stands.                 *)
Hold(i) ==
  /\ Undisturbed(i)
  /\ brake_grace = 0
  /\ Steer(mads_enabled)
  /\ UNCHANGED <<brake_grace, grace_elapsed, grace_brake_seen>>

(* MadsPnw.update                                                          *)
MadsUpdate(i) ==
  /\ \/ StandDown(i)
     \/ MirrorEngagement(i)
     \/ FallingEdge(i)
     \/ Revoke(i)
     \/ WaitForBrake(i)
     \/ Hold(i)
  /\ op_enabled_prev' = i.op_enabled
  /\ cruise_enabled_prev' = i.cruise_enabled
  /\ UNCHANGED madsConfig

-----------------------------------------------------------------------------
(* The abstract view of who may steer.                                     *)
authority == IF op_enabled_prev THEN "op"
             ELSE IF lateral_only THEN "lateral"
             ELSE IF brake_grace_open THEN "waiting" ELSE "none"

patience == IF authority = "waiting" THEN brake_grace ELSE 0

Authority == INSTANCE LateralAuthority WITH Patience <- PandaGraceFrames
=============================================================================
