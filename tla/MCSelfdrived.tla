---------------------------- MODULE MCSelfdrived ----------------------------
(***************************************************************************)
(* selfdrived under the inputs a run gives it, with the history its        *)
(* promises are stated over, and small sets of inputs for the runs.        *)
(***************************************************************************)
EXTENDS Selfdrived

CONSTANT DisengageOnAccelerator  \* the values the parameter may take

ASSUME DisengageOnAcceleratorAssumption == DisengageOnAccelerator \subseteq BOOLEAN

VARIABLES
  unheard,      \* history: frames since the steering was lost with no sound of it
  off_for       \* history: frames for which the off request has stood

histVars == <<unheard, off_for>>
vars == <<frameVars, histVars>>

(* controlsd's lat_authorised, with madsState alive and valid.             *)
lat_authorised == IF mads_available THEN mads_active ELSE active

LossSounds == {"disengage", "warningImmediate", "warningSoft"}
UnheardMax == QuietGraceFrames + 3

Init ==
  /\ SdInit
  /\ unheard = 0
  /\ off_for = 0

(* The soft-disable warning sounds for 2 s, so a steering loss that ends a  *)
(* soft disable is heard.                                                  *)
History(CS) ==
  /\ unheard' =
       IF lat_authorised' \/ enabled' \/ sound' \intersect LossSounds # {} THEN 0
       ELSE IF lat_authorised /\ state # "softDisabling" THEN 1
       ELSE IF unheard \in 1..(UnheardMax - 1) THEN unheard + 1
       ELSE unheard
  /\ off_for' = IF off_left' = 0 THEN 0
                ELSE IF off_for > OffRequestHold + 1 THEN off_for ELSE off_for + 1

Frame(CS, updated, ps, doa, other) ==
  step(CS, updated, ps, doa, other) /\ History(CS)

(* The parameter is read only in a frame with the accelerator down.         *)
Doa(CS) == IF CS.gasPressed THEN DisengageOnAccelerator ELSE {FALSE}

Next ==
  \E CS \in CarStates, other \in SystemEvents : \E doa \in Doa(CS) :
    \/ Frame(CS, FALSE, pandaStates, doa, other)
    \/ \E ps \in PandaSamples : Frame(CS, TRUE, ps, doa, other)

Spec == Init /\ [][Next]_vars

-----------------------------------------------------------------------------
(* Inputs for the runs.  Car sets the named fields, the rest are at rest.  *)

Rest == [canValid |-> TRUE, brakePressed |-> FALSE, regenBraking |-> FALSE,
         gasPressed |-> FALSE, standstill |-> FALSE, cruise_enabled |-> FALSE,
         cruise_available |-> TRUE, blockPcmEnable |-> FALSE, main_press |-> FALSE,
         engage_press |-> FALSE, car_events |-> {}]

Pedals == {[Rest EXCEPT !.cruise_enabled = c, !.brakePressed = b, !.gasPressed = g] :
             c \in BOOLEAN, b \in BOOLEAN, g \in BOOLEAN}
Stopped == {[Rest EXCEPT !.cruise_enabled = c, !.brakePressed = TRUE, !.standstill = TRUE] :
              c \in BOOLEAN}
Regen == {[Rest EXCEPT !.cruise_enabled = c, !.regenBraking = TRUE] : c \in BOOLEAN}
Buttons == {[Rest EXCEPT !.main_press = TRUE],
            [Rest EXCEPT !.main_press = TRUE, !.cruise_enabled = TRUE],
            [Rest EXCEPT !.main_press = TRUE, !.gasPressed = TRUE],
            [Rest EXCEPT !.engage_press = TRUE],
            [Rest EXCEPT !.engage_press = TRUE, !.cruise_enabled = TRUE],
            [Rest EXCEPT !.main_press = TRUE, !.engage_press = TRUE]}
Cancels == {[Rest EXCEPT !.car_events = {"buttonCancel"}],
            [Rest EXCEPT !.car_events = {"buttonCancel"}, !.brakePressed = TRUE]}
MainOff == {[Rest EXCEPT !.cruise_available = FALSE],
            [Rest EXCEPT !.cruise_available = FALSE, !.cruise_enabled = TRUE],
            [Rest EXCEPT !.cruise_available = FALSE, !.brakePressed = TRUE]}
CanLoss == {[Rest EXCEPT !.canValid = FALSE, !.cruise_enabled = c] : c \in BOOLEAN}
Blocked == {[Rest EXCEPT !.cruise_enabled = TRUE, !.blockPcmEnable = TRUE]}

MCDriver == Pedals \union Stopped \union Regen \union Buttons \union Cancels
              \union MainOff \union CanLoss \union Blocked
Panda(a, l) == [silent |-> FALSE, healthPacketMismatch |-> FALSE,
                controlsAllowed |-> a, controlsAllowedLateral |-> l]
Old(a) == [silent |-> FALSE, healthPacketMismatch |-> TRUE,
           controlsAllowed |-> a, controlsAllowedLateral |-> FALSE]
Silent == [silent |-> TRUE, healthPacketMismatch |-> FALSE,
           controlsAllowed |-> FALSE, controlsAllowedLateral |-> FALSE]
Sample(P) == [valid |-> TRUE, pandas |-> P]

MCPandas == {Sample({Panda(TRUE, TRUE)}), Sample({Panda(FALSE, FALSE)}),
             Sample({Panda(FALSE, TRUE), Old(FALSE)}),
             Sample({Panda(FALSE, TRUE), Silent}),
             [valid |-> FALSE, pandas |-> {Panda(FALSE, TRUE)}]}

-----------------------------------------------------------------------------
(* Every loss of steering is heard: from the frame in which openpilot stops *)
(* steering, a disengage chime or a warning follows within                  *)
(* QuietGraceFrames + 2 frames unless it engages again; a provisionally      *)
(* silenced disengage can never be forgotten (madsquiet_pnw.py, step).      *)
NoSilentLoss == unheard <= QuietGraceFrames + 2

(* The driver's request behind madsquiet2pnw: no disengage chime in a frame *)
(* in which openpilot steers, and no engage chime on coming back from       *)
(* steering-only.                                                           *)
QuietWhileSteering ==
  [][ /\ lat_authorised' => "disengage" \notin sound'
      /\ lateral_only /\ enabled' => "engage" \notin sound' ]_vars

(* One press turns everything off: while the off request stands openpilot   *)
(* is not engaged, does not steer and does not wait to steer, whatever the  *)
(* truck does with its cruise (selfdrived.py lines 306-361, mads_pnw.py     *)
(* lines 310-317).                                                          *)
OffMeansOff == off_left > 0 => ~enabled /\ ~lat_authorised /\ ~brake_grace_open

(* lat_authorised is a superset of the stock answer that adds exactly one   *)
(* case, steering-only (controlsd.py lat_authorised), and openpilot is      *)
(* never engaged without the stock cruise it rides on.                      *)
SupersetOfStock ==
  /\ active => lat_authorised
  /\ lat_authorised /\ ~active => lateral_only
  /\ enabled => CS_prev.cruise_enabled

(* madsControlsMismatchLateral is raised only while openpilot is already    *)
(* disengaged, revokes the steering in that frame, is heard, and is raised  *)
(* for one frame only (events.py lines 1042-1066).                          *)
LateralMismatchRevokes ==
  [][ /\ lateral_mismatch_counter' >= MismatchLimit =>
           /\ ~enabled /\ ~enabled' /\ ~lateral_only'
           /\ "warningImmediate" \in sound'
      /\ lateral_mismatch_counter >= MismatchLimit => lateral_mismatch_counter' = 0 ]_vars

(* An off request always ends: whatever the driver presses, it stands for   *)
(* OffRequestHold + 1 frames at most, and cruise can be used again (the      *)
(* 2026-09-07 regression of selfdrived.py lines 318-324).                   *)
OffRequestEnds == off_for <= OffRequestHold + 1
=============================================================================
