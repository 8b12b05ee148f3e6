------------------------------- MODULE Events -------------------------------
(***************************************************************************)
(* The events of a frame (selfdrived/events.py).  A frame's events are a   *)
(* set of event names; the EVENTS table gives each name the event types it *)
(* carries, and for some types the sound of its alert.  One name stands    *)
(* for all the names of the table with the same types and sounds: doorOpen *)
(* for the SOFT_DISABLE + NO_ENTRY ones, canError for the                  *)
(* IMMEDIATE_DISABLE + NO_ENTRY + PERMANENT ones, tooDistracted for the    *)
(* plain NO_ENTRY ones, and so on.                                         *)
(***************************************************************************)

EventTypes == {"enable", "preEnable", "overrideLateral", "overrideLongitudinal",
               "noEntry", "warning", "userDisable", "softDisable",
               "immediateDisable", "permanent"}

EVENTS == [
  pcmEnable                   |-> {"enable"},
  pcmDisable                  |-> {"userDisable"},
  pedalPressed                |-> {"userDisable", "noEntry"},
  buttonCancel                |-> {"userDisable", "noEntry"},
  wrongCarMode                |-> {"userDisable", "noEntry"},
  reverseGear                 |-> {"permanent", "userDisable", "noEntry"},
  preEnableStandstill         |-> {"preEnable"},
  gasPressedOverride          |-> {"overrideLongitudinal"},
  steerOverride               |-> {"overrideLateral"},
  doorOpen                    |-> {"softDisable", "noEntry"},
  usbError                    |-> {"softDisable", "permanent", "noEntry"},
  controlsMismatch            |-> {"immediateDisable", "noEntry"},
  canError                    |-> {"immediateDisable", "permanent", "noEntry"},
  madsControlsMismatchLateral |-> {"immediateDisable", "permanent", "noEntry"},
  cruiseOffRequested          |-> {"noEntry"},
  tooDistracted               |-> {"noEntry"},
  selfdriveInitializing       |-> {"noEntry"},
  steerSaturated              |-> {"warning"},
  madsLateralOnly             |-> {"permanent"}]

EventNames == DOMAIN EVENTS

(* The types present in the events E: t is in TypesOf(E) exactly when      *)
(* Events.contains(t).                                                     *)
TypesOf(E) == UNION {EVENTS[e] : e \in E}

(* The audible part of the alert that event e shows under type t.          *)
Sound(e, t) ==
  CASE t = "enable"                                       -> "engage"
    [] t = "userDisable" /\ e # "reverseGear"             -> "disengage"
    [] t = "userDisable" /\ e = "reverseGear"             -> "warningImmediate"
    [] t = "immediateDisable"                             -> "warningImmediate"
    [] t = "permanent" /\ e = "madsControlsMismatchLateral" -> "warningImmediate"
    [] t = "softDisable"                                  -> "warningSoft"
    [] t = "noEntry" /\ e # "cruiseOffRequested"          -> "refuse"
    [] t = "warning"                                      -> "promptRepeat"
    [] OTHER                                              -> "none"

(* Events.create_alerts: one alert per event and shown type it carries.    *)
create_alerts(E, types) ==
  UNION {{[event |-> e, type |-> t, sound |-> Sound(e, t)] :
            t \in EVENTS[e] \intersect types} : e \in E}
=============================================================================
