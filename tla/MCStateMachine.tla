--------------------------- MODULE MCStateMachine ---------------------------
(***************************************************************************)
(* The engagement state machine alone, under every sequence of frames: any *)
(* set of event types may be present in any frame.                         *)
(***************************************************************************)
EXTENDS StateMachine

VARIABLES
  soft_age,     \* history: frames in softDisabling since its entry (saturates)
  tick          \* parity of the frame: a frame that changes nothing is still a step

mcVars == <<smVars, soft_age, tick>>

MCInit == SMInit /\ soft_age = 0 /\ tick = 0

SMFrame(T) ==
  /\ SMUpdate(T)
  /\ soft_age' = IF state = "softDisabling" /\ state' = "softDisabling"
                 THEN IF soft_age < SoftDisableFrames THEN soft_age + 1 ELSE soft_age
                 ELSE 0
  /\ tick' = 1 - tick

MCNext == \E T \in SUBSET (EventTypes \ {"warning", "permanent"}) : SMFrame(T)

MCSpec == MCInit /\ [][MCNext]_mcVars /\ WF_mcVars(MCNext)

SMTypeInvariant == SMTypeOK /\ soft_age \in 0..SoftDisableFrames /\ tick \in {0, 1}

-----------------------------------------------------------------------------
(* While the machine soft-disables, the timer and the frames already spent *)
(* add up to the whole warning: no frame of it is lost or given twice,     *)
(* however often softDisabling is left and entered again with the old      *)
(* timer still running down (state.py lines 17-19, 41-45, 51-59, 71-74).   *)
WarningIsCounted ==
  state = "softDisabling" => /\ soft_disable_timer > 0
                             /\ soft_disable_timer + soft_age = SoftDisableFrames

(* A soft disable that nothing else interrupts becomes a disable only after *)
(* the whole warning: the step from softDisabling to disabled that shows no *)
(* disengage alert is taken SoftDisableFrames frames after the entry.       *)
FullSoftDisableWarning ==
  [][ (/\ state = "softDisabling"
       /\ state' = "disabled"
       /\ current_alert_types' = {"permanent"})
      => soft_age = SoftDisableFrames - 1 ]_mcVars

(* softDisabling never lasts: with the 100 Hz loop running it is always    *)
(* left, back to enabled or to disabled (state.py lines 51-59).            *)
SoftDisableEnds == (state = "softDisabling") ~> (state # "softDisabling")
=============================================================================
