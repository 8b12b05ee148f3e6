----------------------------- MODULE MCMadsPnw ------------------------------
(***************************************************************************)
(* MadsPnw alone, under every sequence of inputs that a caller could give  *)
(* it, with the history its promises are stated over.                      *)
(***************************************************************************)
EXTENDS MadsPnw

CONSTANT EventSets      \* the sets of events a frame may carry

ASSUME EventSetsAssumption == EventSets \subseteq SUBSET EventNames

VARIABLES               \* history since openpilot last gave up (all reset by engagement)
  since_edge,           \* frames since the falling edge (saturates)
  brake_at,             \* since_edge of the first brake frame, or Never
  panda_ok,             \* the panda permitted lateral after the brake, inside the window
  stood_down            \* some frame since then forbade steering

histVars == <<since_edge, brake_at, panda_ok, stood_down>>
vars == <<madsVars, histVars>>

Never == PandaGraceFrames + 1

Inputs == {i \in [op_enabled : BOOLEAN, op_active : BOOLEAN, braking : BOOLEAN,
                  cruise_enabled : BOOLEAN, cruise_available : BOOLEAN,
                  off_requested : BOOLEAN, events : EventSets,
                  panda_lat : PandaViews] : i.op_active => i.op_enabled}

Init ==
  /\ MadsInit
  /\ since_edge = Never
  /\ brake_at = Never
  /\ panda_ok = FALSE
  /\ stood_down = TRUE

(* A frame that forbids steering without openpilot: the conditions of the  *)
(* code's early returns and revoke branch, read off the input alone.       *)
Forbids(i) ==
  \/ ~i.cruise_available
  \/ i.off_requested
  \/ has_blocking_event(i.events)
  \/ ~op_enabled_prev /\ CruiseEngageEdge(i)

History(i) ==
  IF i.op_enabled
  THEN /\ since_edge' = 0
       /\ brake_at' = Never
       /\ panda_ok' = FALSE
       /\ stood_down' = FALSE
  ELSE /\ since_edge' = IF op_enabled_prev THEN 0
                        ELSE IF since_edge < Never THEN since_edge + 1 ELSE Never
       /\ brake_at' = IF i.braking /\ brake_at = Never THEN since_edge' ELSE brake_at
       /\ panda_ok' = (panda_ok \/ /\ ~op_enabled_prev
                                   /\ brake_at' # Never
                                   /\ since_edge' # Never
                                   /\ i.panda_lat = "allowed")
       /\ stood_down' = (stood_down \/ Forbids(i))

Frame(i) == MadsUpdate(i) /\ History(i)

Next == \E i \in Inputs : Frame(i)

Spec == Init /\ [][Next]_vars

TypeOK ==
  /\ MadsTypeOK
  /\ since_edge \in 0..Never
  /\ brake_at \in 0..Never
  /\ panda_ok \in BOOLEAN
  /\ stood_down \in BOOLEAN

-----------------------------------------------------------------------------
(* Steering alone always has its cause: MADS is available, the driver did  *)
(* not ask to disengage on the brake, and since openpilot gave up a brake  *)
(* frame arrived within BrakeGraceFrames, or within PandaGraceFrames and   *)
(* with the panda's own confirmation (mads_pnw.py lines 318-384).          *)
LateralHasCause ==
  lateral_only => /\ mads_available /\ ~disengage_on_brake /\ ~op_enabled_prev
                  /\ brake_at <= BrakeGraceFrames \/ panda_ok

(* What was taken away stays away: once any frame since the falling edge   *)
(* carried a blocking event, a cruise engagement without openpilot, ACC    *)
(* main off or the driver's off request, MADS neither steers nor waits to  *)
(* steer until openpilot has engaged again.                                *)
NoReturnAfterStandDown ==
  stood_down => ~lateral_only /\ ~brake_grace_open

(* The promise to the driver: a brake that arrives in time, with nothing   *)
(* forbidding it, keeps the steering, and releasing the brake or a panda   *)
(* that stays silent afterwards does not end it.                           *)
BrakeKeepsSteering ==
  ( /\ mads_available /\ ~disengage_on_brake /\ ~op_enabled_prev
    /\ ~stood_down
    /\ brake_at <= BrakeGraceFrames \/ panda_ok ) => lateral_only

(* The window never outlives PandaGraceFrames frames after the falling     *)
(* edge, counted from outside the machine.                                 *)
WindowIsBounded ==
  brake_grace_open => /\ ~op_enabled_prev
                      /\ since_edge < PandaGraceFrames
                      /\ brake_grace = PandaGraceFrames - since_edge

(* MadsPnw implements the abstract lateral authority: steering alone is    *)
(* inherited from an engagement and never taken out of nothing.            *)
ImplementsAuthority == Authority!Safety
=============================================================================
