---------------------------- MODULE StateMachine ----------------------------
(***************************************************************************)
(* openpilot's own engagement state machine (selfdrived/state.py).  One    *)
(* SMUpdate step is one call of StateMachine.update at 100 Hz; its argument *)
(* is the set of event types present in the frame's events, which is all   *)
(* that update() asks of them (events.contains).                           *)
(***************************************************************************)
EXTENDS Integers, Events

CONSTANT SoftDisableFrames   \* int(SOFT_DISABLE_TIME / DT_CTRL), 300 in the car

ASSUME SoftDisableAssumption == SoftDisableFrames \in Nat \ {0}

VARIABLES
  state,                \* OpenpilotState
  soft_disable_timer,   \* frames left before a soft disable becomes a disable
  current_alert_types   \* event types whose alerts are shown this frame

smVars == <<state, soft_disable_timer, current_alert_types>>

ActiveStates == {"enabled", "softDisabling", "overriding"}
EnabledStates == {"preEnabled"} \union ActiveStates
States == {"disabled"} \union EnabledStates

Overrides == {"overrideLateral", "overrideLongitudinal"}

SMTypeOK ==
  /\ state \in States
  /\ soft_disable_timer \in 0..SoftDisableFrames
  /\ current_alert_types \subseteq EventTypes

SMInit ==
  /\ state = "disabled"
  /\ soft_disable_timer = 0
  /\ current_alert_types = {"permanent"}

-----------------------------------------------------------------------------
(* Mutant: the countdown does not run.                                     *)
TimerTick_Stuck == soft_disable_timer

(* The timer runs down in every frame and is rearmed on entering           *)
(* softDisabling.                                                          *)
TimerTick == IF soft_disable_timer > 0 THEN soft_disable_timer - 1 ELSE 0

(* Move to state s and show the alerts of types A; PERMANENT is always     *)
(* shown and WARNING is shown while active.                                *)
GoTo(s, A) ==
  /\ state' = s
  /\ current_alert_types' = {"permanent"} \union A
                            \union (IF s \in ActiveStates THEN {"warning"} ELSE {})

Disengage(T) ==
  /\ state # "disabled"
  /\ soft_disable_timer' = TimerTick
  /\ \/ /\ "immediateDisable" \in T
        /\ GoTo("disabled", {"immediateDisable"})
     \/ /\ "immediateDisable" \notin T
        /\ "userDisable" \in T
        /\ GoTo("disabled", {"userDisable"})

NoDisengage(T) == T \intersect {"immediateDisable", "userDisable"} = {}

EnterSoftDisable(T) ==
  /\ state \in {"enabled", "overriding"}
  /\ NoDisengage(T)
  /\ "softDisable" \in T
  /\ soft_disable_timer' = SoftDisableFrames
  /\ GoTo("softDisabling", {"softDisable"})

(* Mutant: the countdown ends one frame early.                             *)
SoftDisabling_Early(T) ==
  /\ state = "softDisabling"
  /\ NoDisengage(T)
  /\ soft_disable_timer' = TimerTick
  /\ \/ "softDisable" \notin T /\ GoTo("enabled", {})
     \/ "softDisable" \in T /\ TimerTick > 1 /\ GoTo("softDisabling", {"softDisable"})
     \/ "softDisable" \in T /\ TimerTick <= 1 /\ GoTo("disabled", {})

SoftDisabling(T) ==
  /\ state = "softDisabling"
  /\ NoDisengage(T)
  /\ soft_disable_timer' = TimerTick
  /\ \/ "softDisable" \notin T /\ GoTo("enabled", {})
     \/ /\ "softDisable" \in T
        /\ TimerTick > 0
        /\ GoTo("softDisabling", {"softDisable"})
     \/ /\ "softDisable" \in T
        /\ TimerTick = 0
        /\ GoTo("disabled", {})

(* enabled and overriding follow the override events.                      *)
FollowOverride(T) ==
  /\ state \in {"enabled", "overriding"}
  /\ NoDisengage(T)
  /\ "softDisable" \notin T
  /\ soft_disable_timer' = TimerTick
  /\ IF T \intersect Overrides = {}
     THEN GoTo("enabled", {})
     ELSE GoTo("overriding", Overrides)

PreEnabled(T) ==
  /\ state = "preEnabled"
  /\ NoDisengage(T)
  /\ soft_disable_timer' = TimerTick
  /\ IF "preEnable" \in T
     THEN GoTo("preEnabled", {"preEnable"})
     ELSE GoTo("enabled", {})

Disabled(T) ==
  /\ state = "disabled"
  /\ soft_disable_timer' = TimerTick
  /\ \/ "enable" \notin T /\ GoTo("disabled", {})
     \/ {"enable", "noEntry"} \subseteq T /\ GoTo("disabled", {"noEntry"})
     \/ /\ "enable" \in T
        /\ "noEntry" \notin T
        /\ GoTo(CASE "preEnable" \in T -> "preEnabled"
                  [] "preEnable" \notin T /\ T \intersect Overrides # {} -> "overriding"
                  [] OTHER -> "enabled",
                {"enable"})

(* StateMachine.update                                                     *)
SMUpdate(T) ==
  \/ Disengage(T)
  \/ EnterSoftDisable(T)
  \/ SoftDisabling(T)
  \/ FollowOverride(T)
  \/ PreEnabled(T)
  \/ Disabled(T)
=============================================================================
