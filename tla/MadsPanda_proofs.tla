-------------------------- MODULE MadsPanda_proofs --------------------------
(***************************************************************************)
(* Proofs about openpilot beside the panda, for every length of their      *)
(* windows, polls and watchdogs that WindowsAssumption admits, any number  *)
(* of missed frames it admits and a panda that may drop lateral by itself. *)
(***************************************************************************)
EXTENDS Selfdrived_proofs, MCMadsPanda

-----------------------------------------------------------------------------
(* A frame of selfdrived on what the bus says.                             *)

(* The message for the bus is a carState message.                          *)
LEMMA MessageFacts ==
  ASSUME NEW c \in BusState, NEW pressed \in BOOLEAN, NEW CS, CS = CarMessage(c, pressed)
  PROVE  /\ CS \in CarState /\ c.brake \in BOOLEAN /\ c.cruise \in BOOLEAN /\ c.main \in BOOLEAN
         /\ CS.canValid /\ CS.car_events = {} /\ ~CS.standstill /\ ~CS.gasPressed /\ ~CS.regenBraking
         /\ CS.brakePressed = c.brake /\ CS.cruise_enabled = c.cruise /\ CS.cruise_available = c.main
BY DEF CarMessage, CarState, BusState

(* Its events: the pedal is the brake, cruise is what engages and what     *)
(* disengages.                                                             *)
LEMMA BusEvents ==
  ASSUME NEW c \in BusState, NEW pressed \in BOOLEAN, NEW CS, CS = CarMessage(c, pressed),
         NEW other \in SUBSET OtherEvents, NEW E, E = update_events(CS, FALSE, other), initialized'
  PROVE  /\ c.brake => "pedalPressed" \in E
         /\ "pcmEnable" \in E => ~CS_prev.cruise_enabled
         /\ "pedalPressed" \in E => c.brake
         /\ "pcmDisable" \in E => ~c.cruise
<1> USE MessageFacts
<1> DEFINE C == car_events(CS, FALSE)
<1>1. E = other \union If(off_left' > 0, "cruiseOffRequested") \union C
            \union mismatch_events \union If(~pandaStates'.valid, "usbError")
  BY DEF update_events
<1>2. /\ c.brake => "pedalPressed" \in C
      /\ "pcmEnable" \in C => ~CS_prev.cruise_enabled
      /\ "pedalPressed" \in C => c.brake
      /\ "pcmDisable" \in C => ~c.cruise
  BY DEF car_events, If, brake_disengage
<1>3. {"pcmEnable", "pedalPressed", "pcmDisable"} \intersect
        (other \union If(off_left' > 0, "cruiseOffRequested")
         \union mismatch_events \union If(~pandaStates'.valid, "usbError")) = {}
  BY DEF If, mismatch_events, OtherEvents
<1> HIDE DEF C
<1> QED BY <1>1, <1>2, <1>3

(* The panda's answer that selfdrived acts on in this frame is a yes.      *)
Allowed(U) == /\ U /\ pandaStates'.valid
              /\ panda_lateral_view(pandaStates'.pandas) = "allowed"

(* Once initialized, a frame steps the state machine on its events.        *)
LEMMA StepMachine ==
  ASSUME NEW CS \in CarState, NEW U \in BOOLEAN, NEW ps, NEW other \in SUBSET OtherEvents,
         step(CS, U, ps, FALSE, other), initialized'
  PROVE  SMUpdate(TypesOf(update_events(CS, FALSE, other)))
<1>1. PICK E, i :
        /\ E = update_events(CS, FALSE, other)
        /\ IF initialized' THEN SMUpdate(TypesOf(E)) ELSE UNCHANGED smVars
        /\ InputOf(CS, U, E, i) /\ MadsUpdate(i)
        /\ QuietStep(enabled', lateral_only', mads_available, brake_grace' > 0)
        /\ update_alerts(E)
  BY StepParts
<1> QED BY <1>1, Zenon

(* Engagement on the bus: with cruise on and no brake, begun on a rise of  *)
(* cruise; a disengagement that blocks nothing is the brake or cruise.     *)
LEMMA BusEngagement ==
  ASSUME CoreInv, NEW c \in BusState, NEW pressed \in BOOLEAN, NEW CS, CS = CarMessage(c, pressed),
         NEW U \in BOOLEAN, NEW ps, NEW other \in SUBSET OtherEvents,
         step(CS, U, ps, FALSE, other), NEW E, E = update_events(CS, FALSE, other)
  PROVE  /\ enabled' => c.cruise /\ c.main /\ ~c.brake /\ off_left' = 0
         /\ ~enabled /\ enabled' => ~CS_prev.cruise_enabled
         /\ enabled /\ ~enabled' /\ ~has_blocking_event(E) => c.brake \/ ~c.cruise
<1>1. CS \in CarState /\ CS.cruise_enabled = c.cruise /\ CS.cruise_available = c.main
  BY MessageFacts
<1>2. /\ state' \in States /\ initialized' \in BOOLEAN /\ (initialized => initialized')
      /\ ~initialized' => state' = "disabled"
      /\ enabled' => initialized' /\ c.cruise /\ c.main /\ off_left' = 0
  BY <1>1, EngagementFacts
<1>3. state \in States /\ (~initialized => state = "disabled")
  BY DEF CoreInv, FrameInv
<1>4. (enabled <=> state # "disabled") /\ (enabled' <=> state' # "disabled")
  BY <1>2, <1>3 DEF enabled, States, EnabledStates, ActiveStates
<1>5. CASE ~initialized'
  BY <1>2, <1>3, <1>4, <1>5
<1>6. CASE initialized'
  <2> DEFINE T == TypesOf(E)
  <2>1. SMUpdate(T)
    BY <1>1, <1>6, StepMachine
  <2>2. /\ c.brake => "pedalPressed" \in E
        /\ "pcmEnable" \in E => ~CS_prev.cruise_enabled
        /\ "pedalPressed" \in E => c.brake
        /\ "pcmDisable" \in E => ~c.cruise
    BY <1>6, BusEvents
  <2>3. E \subseteq EventNames
    BY <1>1, EventFacts
  <2>4. /\ c.brake => "userDisable" \in T /\ "noEntry" \in T
        /\ "enable" \in T => ~CS_prev.cruise_enabled
    <3>1. c.brake => "userDisable" \in T
      BY <2>2, EventTable, TypesFacts
    <3>2. c.brake => "noEntry" \in T
      BY <2>2, EventTable, TypesFacts
    <3>3. ASSUME "enable" \in T PROVE "pcmEnable" \in E
      <4>1. PICK e \in E : "enable" \in EVENTS[e]
        BY <3>3, TypesFacts
      <4> QED BY <2>3, <4>1, EventTable
    <3> QED BY <2>2, <3>1, <3>2, <3>3
  <2>5. ASSUME NEW t \in LATERAL_DISABLE_TYPES, t \in T, ~has_blocking_event(E)
        PROVE  c.brake \/ ~c.cruise
    <3>1. PICK e \in E : t \in EVENTS[e]
      BY <2>5, TypesFacts
    <3>2. e \in QUIET_DISENGAGE_EVENTS
      BY <2>5, <3>1, BlockingFacts
    <3> QED BY <2>2, <3>2 DEF QUIET_DISENGAGE_EVENTS
  <2> HIDE DEF T
  <2>6. /\ state = "disabled" /\ state' # "disabled" => "enable" \in T /\ "noEntry" \notin T
        /\ state # "disabled" /\ ("userDisable" \in T \/ "immediateDisable" \in T)
             => state' = "disabled"
        /\ state # "disabled" /\ state' = "disabled" =>
             "immediateDisable" \in T \/ "userDisable" \in T \/ "softDisable" \in T
    BY <1>3, <2>1, MachineFacts
  <2>7. c.brake => ~enabled'
    BY <1>4, <2>4, <2>6
  <2>8. ~enabled /\ enabled' => ~CS_prev.cruise_enabled
    BY <1>4, <2>4, <2>6
  <2>9. enabled /\ ~enabled' /\ ~has_blocking_event(E) => c.brake \/ ~c.cruise
    BY <1>4, <2>5, <2>6 DEF LATERAL_DISABLE_TYPES
  <2> QED BY <1>2, <2>7, <2>8, <2>9
<1> QED BY <1>2, <1>5, <1>6

(* How MADS comes to steer alone or to wait, as the bus sees it: openpilot *)
(* falls with the brake or with cruise, the window waits, or it holds on.  *)
Rises(c) == c.cruise /\ ~cruise_enabled_prev
Falls(c) ==
  /\ enabled /\ ~disengage_on_brake /\ (c.brake \/ ~c.cruise)
  /\ (lateral_only' <=> c.brake) /\ (c.brake => brake_grace' = 0)
  /\ grace_elapsed' = 0 /\ ~grace_brake_seen'
Waits(c, U) ==
  /\ ~enabled /\ brake_grace > 0 /\ ~Rises(c)
  /\ grace_elapsed' = grace_elapsed + 1
  /\ grace_brake_seen' <=> (grace_brake_seen \/ c.brake)
  /\ lateral_only' <=> \/ mads_enabled
                       \/ c.brake /\ grace_elapsed' <= BrakeGraceFrames
                       \/ grace_brake_seen' /\ Allowed(U)
Holds(c) == ~enabled /\ mads_enabled /\ ~Rises(c) /\ lateral_only' /\ brake_grace' = 0

(* The input of MADS in a frame.                                           *)
LEMMA BusParts ==
  ASSUME NEW CS, CS \in CarState, NEW U \in BOOLEAN, NEW ps, NEW other \in SUBSET OtherEvents,
         step(CS, U, ps, FALSE, other)
  PROVE  \E E, i : /\ E = update_events(CS, FALSE, other)
                   /\ InputOf(CS, U, E, i) /\ MadsUpdate(i)
<1>1. \E E, i :
        /\ E = update_events(CS, FALSE, other)
        /\ IF initialized' THEN SMUpdate(TypesOf(E)) ELSE UNCHANGED smVars
        /\ InputOf(CS, U, E, i) /\ MadsUpdate(i)
        /\ QuietStep(enabled', lateral_only', mads_available, brake_grace' > 0)
        /\ update_alerts(E)
  BY StepParts
<1> QED BY <1>1, Zenon

(* A frame of MADS on the bus.                                             *)
LEMMA BusMads ==
  ASSUME CoreInv, mads_available, grace_brake_seen \in BOOLEAN, grace_elapsed \in Nat,
         NEW c \in BusState, NEW pressed \in BOOLEAN, NEW CS, CS = CarMessage(c, pressed),
         NEW U \in BOOLEAN, NEW ps, NEW other \in SUBSET OtherEvents, step(CS, U, ps, FALSE, other)
  PROVE  /\ UNCHANGED <<mads_available, disengage_on_brake>>
         /\ mads_enabled' \in BOOLEAN /\ grace_brake_seen' \in BOOLEAN /\ grace_elapsed' \in Nat
         /\ cruise_enabled_prev' = c.cruise
         /\ enabled' => mads_enabled'
         /\ ~enabled' => (mads_enabled' <=> lateral_only')
         /\ lateral_only' \/ brake_grace' > 0 =>
              c.main /\ ~enabled' /\ (Falls(c) \/ Waits(c, U) \/ Holds(c))
<1>1. /\ CS \in CarState /\ c.brake \in BOOLEAN /\ c.cruise \in BOOLEAN /\ c.main \in BOOLEAN
      /\ ~CS.regenBraking /\ CS.brakePressed = c.brake
      /\ CS.cruise_enabled = c.cruise /\ CS.cruise_available = c.main
  BY MessageFacts
<1>2. PICK E, i : /\ E = update_events(CS, FALSE, other)
                  /\ InputOf(CS, U, E, i) /\ MadsUpdate(i)
  BY <1>1, BusParts
<1>3. /\ enabled' => c.cruise /\ c.main /\ ~c.brake /\ off_left' = 0
      /\ enabled /\ ~enabled' /\ ~has_blocking_event(E) => c.brake \/ ~c.cruise
  BY <1>2, BusEngagement
<1>4. /\ i.op_enabled \in BOOLEAN /\ (i.op_enabled <=> enabled')
      /\ i.braking \in BOOLEAN /\ (i.braking <=> c.brake)
      /\ i.cruise_enabled = c.cruise /\ i.cruise_available = c.main /\ i.events = E
      /\ i.off_requested \in BOOLEAN /\ (i.off_requested <=> off_left' > 0)
      /\ (i.panda_lat = "allowed") <=> Allowed(U)
  BY <1>1, <1>2 DEF InputOf, Allowed
<1>5. /\ mads_available \in BOOLEAN /\ disengage_on_brake \in BOOLEAN /\ mads_enabled \in BOOLEAN
      /\ (op_enabled_prev <=> enabled) /\ brake_grace \in Nat
  BY DEF CoreInv, FrameInv
<1>6. cruise_enabled_prev' = c.cruise /\ UNCHANGED <<mads_available, disengage_on_brake>>
  BY <1>2, <1>4 DEF MadsUpdate, madsConfig
<1>7. StoodDown(i) => ~enabled'
  BY <1>3, <1>4 DEF StoodDown
<1>8. ~StoodDown(i) => c.main
  BY <1>4 DEF StoodDown
<1>9. CruiseEngageEdge(i) <=> Rises(c)
  BY <1>4 DEF CruiseEngageEdge, Rises
<1> HIDE DEF InputOf, StoodDown, has_blocking_event, enabled, CruiseEngageEdge, Allowed, Rises
<1> USE DEF Steer
<1>10. CASE StandDown(i)
  <2>1. /\ mads_enabled' = FALSE /\ lateral_only' = FALSE /\ ~enabled' /\ ~(brake_grace' > 0)
        /\ grace_elapsed' = grace_elapsed /\ grace_brake_seen' = grace_brake_seen
    BY <1>7, <1>10 DEF StandDown
  <2> QED BY <1>6, <2>1
<1>11. CASE MirrorEngagement(i)
  <2>1. /\ mads_enabled' = TRUE /\ lateral_only' = FALSE /\ enabled' /\ ~(brake_grace' > 0)
        /\ grace_elapsed' = grace_elapsed /\ grace_brake_seen' = grace_brake_seen
    BY <1>4, <1>11 DEF MirrorEngagement
  <2> QED BY <1>6, <2>1
<1>12. CASE FallingEdge(i)
  <2>1. /\ ~enabled' /\ enabled /\ c.main
        /\ grace_elapsed' = 0 /\ grace_brake_seen' = FALSE
    BY <1>4, <1>5, <1>8, <1>12 DEF FallingEdge
  <2>2. /\ mads_enabled' = (~disengage_on_brake /\ ~has_blocking_event(E) /\ i.braking)
        /\ lateral_only' = (~disengage_on_brake /\ ~has_blocking_event(E) /\ i.braking)
        /\ brake_grace' = IF ~disengage_on_brake /\ ~has_blocking_event(E) /\ ~i.braking
                          THEN PandaGraceFrames ELSE 0
    BY <1>4, <1>12 DEF FallingEdge
  <2>3. grace_elapsed' \in Nat
    BY <2>1
  <2>4. /\ brake_grace' > 0 => ~disengage_on_brake /\ ~has_blocking_event(E) /\ ~c.brake
        /\ c.brake => brake_grace' = 0
    BY <1>4, <2>2
  <2>5. lateral_only' => ~disengage_on_brake /\ ~has_blocking_event(E) /\ c.brake
    BY <1>4, <2>2, Zenon
  <2>6. lateral_only' \/ brake_grace' > 0 => Falls(c)
    <3> SUFFICES ASSUME lateral_only' \/ brake_grace' > 0 PROVE Falls(c)
      OBVIOUS
    <3>1. ~disengage_on_brake /\ ~has_blocking_event(E)
      BY <2>4, <2>5, Zenon
    <3>2. lateral_only' <=> c.brake
      BY <1>4, <2>2, <3>1, Zenon
    <3>3. c.brake \/ ~c.cruise
      BY <1>3, <2>1, <3>1
    <3> QED BY <2>1, <2>4, <3>1, <3>2, <3>3, Zenon DEF Falls
  <2>7. mads_enabled' \in BOOLEAN /\ (mads_enabled' <=> lateral_only')
    BY <1>4, <2>2, Zenon
  <2> QED BY <1>6, <2>1, <2>3, <2>6, <2>7, Zenon
<1>13. CASE Revoke(i)
  <2>1. /\ mads_enabled' = FALSE /\ lateral_only' = FALSE /\ ~enabled' /\ ~(brake_grace' > 0)
        /\ grace_elapsed' = grace_elapsed /\ grace_brake_seen' = grace_brake_seen
    BY <1>4, <1>13 DEF Revoke
  <2> QED BY <1>6, <2>1
<1>14. CASE WaitForBrake(i)
  <2>1. /\ ~enabled' /\ ~enabled /\ c.main /\ ~Rises(c)
    BY <1>4, <1>5, <1>8, <1>9, <1>14 DEF WaitForBrake, Undisturbed
  <2>2. /\ brake_grace > 0 /\ grace_elapsed' = grace_elapsed + 1 /\ grace_elapsed' \in Nat
        /\ (grace_elapsed' <= BrakeGraceFrames) \in BOOLEAN
    BY <1>14 DEF WaitForBrake
  <2>3. /\ grace_brake_seen' = (grace_brake_seen \/ i.braking)
        /\ mads_enabled' = (\/ mads_enabled
                            \/ i.braking /\ grace_elapsed' <= BrakeGraceFrames
                            \/ grace_brake_seen' /\ i.panda_lat = "allowed")
        /\ lateral_only' = (\/ mads_enabled
                            \/ i.braking /\ grace_elapsed' <= BrakeGraceFrames
                            \/ grace_brake_seen' /\ i.panda_lat = "allowed")
    BY <1>14, Zenon DEF WaitForBrake
  <2>4. /\ grace_brake_seen' \in BOOLEAN /\ (grace_brake_seen' <=> grace_brake_seen \/ c.brake)
        /\ mads_enabled' \in BOOLEAN /\ (mads_enabled' <=> lateral_only')
        /\ lateral_only' <=> \/ mads_enabled
                             \/ c.brake /\ grace_elapsed' <= BrakeGraceFrames
                             \/ grace_brake_seen' /\ Allowed(U)
    BY <1>4, <2>3, Zenon
  <2>5. Waits(c, U)
    BY <2>1, <2>2, <2>4, Zenon DEF Waits
  <2> QED BY <1>6, <2>1, <2>2, <2>4, <2>5, Zenon
<1>15. CASE Hold(i)
  <2>1. /\ ~enabled' /\ ~enabled /\ c.main /\ ~Rises(c)
        /\ mads_enabled' = mads_enabled /\ lateral_only' = mads_enabled /\ brake_grace' = 0
        /\ ~(brake_grace' > 0)
        /\ grace_elapsed' = grace_elapsed /\ grace_brake_seen' = grace_brake_seen
    BY <1>4, <1>5, <1>8, <1>9, <1>15 DEF Hold, Undisturbed
  <2>2. lateral_only' => Holds(c)
    BY <2>1 DEF Holds
  <2> QED BY <1>5, <1>6, <2>1, <2>2
<1> QED BY <1>2, <1>10, <1>11, <1>12, <1>13, <1>14, <1>15 DEF MadsUpdate

-----------------------------------------------------------------------------
(* The panda and the link by themselves.  A latch falls with its cause,    *)
(* and the watchdog counts only a latch without a heartbeat.               *)
PandaInv ==
  /\ car \in BusState /\ (car.cruise => car.main)
  /\ controls_allowed \in BOOLEAN /\ controls_allowed_lateral \in BOOLEAN
  /\ heartbeat_engaged_mads \in BOOLEAN /\ fresh \in BOOLEAN /\ faulted \in BOOLEAN
  /\ relatch_left \in Nat /\ mismatches \in 0..(3 * SecondTicks)
  /\ poll \in 0..(PollTicks - 1) /\ missed \in 0..MaxMissed
  /\ controls_allowed => car.cruise /\ ~car.brake
  /\ controls_allowed_lateral => relatch_left = 0
  /\ heartbeat_engaged_mads \/ ~controls_allowed_lateral => mismatches = 0

(* Ticks until pandad polls.                                               *)
Togo == IF poll = 0 THEN 0 ELSE PollTicks - poll

(* The poll comes round.                                                   *)
LEMMA PollFacts ==
  ASSUME poll \in 0..(PollTicks - 1), poll' = (poll + 1) % PollTicks
  PROVE  /\ poll' \in 0..(PollTicks - 1) /\ Togo \in 0..(PollTicks - 1) /\ Togo' \in 0..(PollTicks - 1)
         /\ (Polls <=> Togo = 0) /\ (~Polls => Togo' = Togo - 1)
<1>1. PollTicks \in Nat /\ PollTicks > 0
  BY MadsPandaAssumption
<1>2. poll' = IF poll + 1 = PollTicks THEN 0 ELSE poll + 1
  <2>1. CASE poll + 1 = PollTicks
    BY <1>1, <2>1
  <2>2. CASE poll + 1 # PollTicks
    BY <1>1, <2>2
  <2> QED BY <2>1, <2>2
<1> QED BY <1>1, <1>2 DEF Togo, Polls

(* The bus moves and the panda sees it.                                    *)
Bus(c) == CarMoves(c) /\ PandadPoll /\ PandaRx(c)

(* controls_allowed comes with a rise of cruise, and stays while cruise    *)
(* does and nobody brakes.                                                 *)
LEMMA ControlsFacts ==
  ASSUME PandaInv, NEW c \in BusState, Bus(c)
  PROVE  /\ car' = c /\ (c.cruise => c.main)
         /\ controls_allowed' \in BOOLEAN
         /\ controls_allowed' => c.cruise /\ c.main /\ ~c.brake
         /\ c.cruise /\ ~car.cruise => controls_allowed'
         /\ controls_allowed /\ c.cruise /\ ~c.brake => controls_allowed'
         /\ ~controls_allowed /\ controls_allowed' => c.cruise /\ ~car.cruise
<1>1. /\ c.brake \in BOOLEAN /\ c.cruise \in BOOLEAN /\ c.main \in BOOLEAN
      /\ car.brake \in BOOLEAN /\ car.cruise \in BOOLEAN /\ car.main \in BOOLEAN
      /\ controls_allowed \in BOOLEAN
  BY DEF PandaInv, BusState
<1>2. car' = c /\ (c.cruise => c.main) /\ (c.cruise /\ ~car.cruise => ~c.brake)
  BY DEF Bus, CarMoves
<1>3. controls_allowed' = PandaControls(c)
  BY DEF Bus, PandaRx
<1>4. CASE c.cruise /\ ~car.cruise
  <2>1. controls_allowed' = (~c.brake)
    BY <1>3, <1>4 DEF PandaControls
  <2> QED BY <1>1, <1>2, <1>4, <2>1
<1>5. CASE ~(c.cruise /\ ~car.cruise)
  <2>1. controls_allowed' = (controls_allowed /\ c.cruise /\ ~c.brake)
    BY <1>3, <1>5 DEF PandaControls
  <2> QED BY <1>1, <1>2, <1>5, <2>1
<1> QED BY <1>4, <1>5

(* The latch, and the window in which a brake brings it back.              *)
LEMMA LatchFacts ==
  ASSUME PandaInv, disengage_on_brake \in BOOLEAN, NEW c \in BusState, Bus(c)
  PROVE  /\ controls_allowed_lateral' \in BOOLEAN /\ relatch_left' \in Nat
         /\ controls_allowed_lateral' => relatch_left' = 0 /\ c.main
         /\ ~controls_allowed /\ controls_allowed' => controls_allowed_lateral'
         /\ controls_allowed /\ ~controls_allowed' /\ ~c.brake /\ c.main =>
              ~controls_allowed_lateral' /\ relatch_left' = RelatchTicks
         /\ relatch_left > 0 /\ c.brake /\ ~car.brake /\ c.main /\ ~disengage_on_brake =>
              controls_allowed_lateral'
         /\ ~controls_allowed_lateral /\ controls_allowed_lateral' =>
              \/ ~controls_allowed /\ controls_allowed'
              \/ relatch_left > 0 /\ c.brake /\ ~car.brake
         /\ ~controls_allowed /\ ~controls_allowed' /\ ~c.brake /\ c.main =>
              relatch_left' >= relatch_left - 1
         /\ WatchdogMust /\ controls_allowed_lateral /\ controls_allowed_lateral' =>
              ~controls_allowed /\ controls_allowed'
<1>1. /\ c.brake \in BOOLEAN /\ c.main \in BOOLEAN /\ car.brake \in BOOLEAN
      /\ controls_allowed \in BOOLEAN /\ controls_allowed_lateral \in BOOLEAN /\ relatch_left \in Nat
      /\ controls_allowed_lateral => relatch_left = 0
  BY DEF PandaInv, BusState
<1>2. controls_allowed' \in BOOLEAN /\ (controls_allowed' => c.main /\ ~c.brake)
  BY ControlsFacts
<1>3. RelatchTicks \in Nat
  BY MadsPandaAssumption
<1> DEFINE rise == controls_allowed' /\ ~controls_allowed
           fall == controls_allowed /\ ~controls_allowed'
           brake_rise == c.brake /\ ~car.brake
           relatch == relatch_left > 0 /\ brake_rise /\ ~disengage_on_brake
           off == ~c.main \/ (disengage_on_brake /\ brake_rise)
<1>4. \/ off /\ controls_allowed_lateral' = FALSE /\ relatch_left' = 0
      \/ ~off /\ (rise \/ relatch) /\ controls_allowed_lateral' = TRUE /\ relatch_left' = 0
      \/ ~off /\ fall /\ ~c.brake /\ controls_allowed_lateral' = FALSE /\ relatch_left' = RelatchTicks
      \/ /\ ~off /\ ~rise /\ ~relatch /\ ~(fall /\ ~c.brake)
         /\ \/ ~WatchdogMust /\ controls_allowed_lateral' = controls_allowed_lateral
            \/ controls_allowed_lateral' = FALSE
         /\ relatch_left' = IF relatch_left > 0 THEN relatch_left - 1 ELSE 0
  BY DEF Bus, PandaRx, PandaLatch
<1>5. CASE off /\ controls_allowed_lateral' = FALSE /\ relatch_left' = 0
  BY <1>1, <1>2, <1>5
<1>6. CASE ~off /\ (rise \/ relatch) /\ controls_allowed_lateral' = TRUE /\ relatch_left' = 0
  BY <1>1, <1>2, <1>6
<1>7. CASE /\ ~off /\ fall /\ ~c.brake
           /\ controls_allowed_lateral' = FALSE /\ relatch_left' = RelatchTicks
  BY <1>1, <1>2, <1>3, <1>7
<1>8. CASE /\ ~off /\ ~rise /\ ~relatch /\ ~(fall /\ ~c.brake)
           /\ \/ ~WatchdogMust /\ controls_allowed_lateral' = controls_allowed_lateral
              \/ controls_allowed_lateral' = FALSE
           /\ relatch_left' = IF relatch_left > 0 THEN relatch_left - 1 ELSE 0
  <2>1. /\ controls_allowed_lateral' \in BOOLEAN
        /\ controls_allowed_lateral' => controls_allowed_lateral /\ ~WatchdogMust
    <3>1. CASE controls_allowed_lateral' = FALSE
      BY <3>1
    <3>2. CASE ~WatchdogMust /\ controls_allowed_lateral' = controls_allowed_lateral
      BY <1>1, <3>2
    <3> QED BY <1>8, <3>1, <3>2, Zenon
  <2>2. /\ relatch_left' \in Nat /\ relatch_left' >= relatch_left - 1
        /\ relatch_left = 0 => relatch_left' = 0
    BY <1>1, <1>8
  <2>3. /\ c.main /\ ~(controls_allowed' /\ ~controls_allowed)
        /\ ~(controls_allowed /\ ~controls_allowed' /\ ~c.brake)
        /\ ~(relatch_left > 0 /\ c.brake /\ ~car.brake /\ ~disengage_on_brake)
    BY <1>1, <1>8
  <2> QED BY <1>1, <2>1, <2>2, <2>3, Zenon
<1> QED BY <1>4, <1>5, <1>6, <1>7, <1>8

(* The watchdog and the heartbeat it waits for.                            *)
LEMMA WatchdogFacts ==
  ASSUME PandaInv, disengage_on_brake \in BOOLEAN, mads_available, mads_enabled \in BOOLEAN,
         NEW c \in BusState, Bus(c)
  PROVE  /\ heartbeat_engaged_mads' \in BOOLEAN
         /\ Polls => (heartbeat_engaged_mads' <=> mads_enabled)
         /\ ~Polls => heartbeat_engaged_mads' = heartbeat_engaged_mads
         /\ mismatches' \in 0..(3 * SecondTicks) /\ mismatches' <= mismatches + 1
         /\ heartbeat_engaged_mads' \/ ~controls_allowed_lateral' => mismatches' = 0
         /\ ~controls_allowed /\ controls_allowed' => mismatches' = 0
         /\ ~controls_allowed_lateral => mismatches' <= 1
         /\ controls_allowed_lateral' /\ ~heartbeat_engaged_mads' /\ ~controls_allowed'
              /\ mismatches < 3 * SecondTicks => mismatches' = mismatches + 1
<1>1. /\ heartbeat_engaged_mads \in BOOLEAN /\ mismatches \in 0..(3 * SecondTicks)
      /\ ~controls_allowed_lateral => mismatches = 0
      /\ SecondTicks \in Nat /\ SecondTicks > 0
  BY MadsPandaAssumption DEF PandaInv
<1>2. heartbeat_engaged_mads' = IF Polls THEN mads_available /\ mads_enabled
                                ELSE heartbeat_engaged_mads
  BY DEF Bus, PandadPoll
<1>3. mismatches' = IF \/ ~controls_allowed_lateral'
                       \/ heartbeat_engaged_mads'
                       \/ controls_allowed' /\ ~controls_allowed THEN 0
                    ELSE IF mismatches < 3 * SecondTicks THEN mismatches + 1 ELSE mismatches
  BY DEF Bus, PandaRx, PandaWatchdog
<1>4. /\ heartbeat_engaged_mads' \in BOOLEAN
      /\ Polls => (heartbeat_engaged_mads' <=> mads_enabled)
      /\ ~Polls => heartbeat_engaged_mads' = heartbeat_engaged_mads
  <2>1. CASE Polls
    <3>1. heartbeat_engaged_mads' = (mads_available /\ mads_enabled)
      BY <1>2, <2>1
    <3> QED BY <2>1, <3>1, Zenon
  <2>2. CASE ~Polls
    <3>1. heartbeat_engaged_mads' = heartbeat_engaged_mads
      BY <1>2, <2>2
    <3> QED BY <1>1, <2>2, <3>1, Zenon
  <2> QED BY <2>1, <2>2
<1>5. /\ mismatches' \in 0..(3 * SecondTicks) /\ mismatches' <= mismatches + 1
      /\ heartbeat_engaged_mads' \/ ~controls_allowed_lateral' => mismatches' = 0
      /\ ~controls_allowed /\ controls_allowed' => mismatches' = 0
      /\ ~controls_allowed_lateral => mismatches' <= 1
      /\ controls_allowed_lateral' /\ ~heartbeat_engaged_mads' /\ ~controls_allowed'
           /\ mismatches < 3 * SecondTicks => mismatches' = mismatches + 1
  BY <1>1, <1>3
<1> QED BY <1>4, <1>5

(* The heartbeat is there, or will be before the watchdog acts.            *)
Known == heartbeat_engaged_mads \/ mismatches + Togo <= MaxMissed + 2 * PollTicks

(* The panda has the latch, unless it dropped it by itself, and will not   *)
(* take it back for want of a heartbeat.                                   *)
Latched == (controls_allowed_lateral \/ faulted) /\ (controls_allowed_lateral => Known)

FaultStep(c) == faulted' = (~controls_allowed_lateral' /\ (faulted \/ PandaDrops(c)))

(* A latch whose cause stands and whose heartbeat is in time stays, but    *)
(* for a fault.                                                            *)
LEMMA StaysLatched ==
  ASSUME PandaInv, disengage_on_brake \in BOOLEAN, NEW c \in BusState, Bus(c), FaultStep(c),
         controls_allowed_lateral \/ faulted, c.main,
         ~(controls_allowed /\ ~controls_allowed' /\ ~c.brake),
         ~(disengage_on_brake /\ c.brake /\ ~car.brake),
         controls_allowed_lateral => mismatches < 2 * SecondTicks
  PROVE  controls_allowed_lateral' \/ faulted'
<1> SUFFICES ASSUME ~controls_allowed_lateral' PROVE faulted'
  OBVIOUS
<1>1. CASE faulted
  BY <1>1 DEF FaultStep
<1>2. CASE controls_allowed_lateral
  <2>1. ~WatchdogMay
    BY <1>2, MadsPandaAssumption DEF WatchdogMay, PandaInv
  <2>2. PandaDrops(c)
    BY <1>2, <2>1 DEF PandaDrops
  <2> QED BY <2>2 DEF FaultStep
<1> QED BY <1>1, <1>2

(* What is known to MADS remains so while MADS is enabled.                 *)
LEMMA KnownFacts ==
  ASSUME PandaInv, disengage_on_brake \in BOOLEAN, mads_available, mads_enabled \in BOOLEAN,
         NEW c \in BusState, Bus(c)
  PROVE  /\ controls_allowed_lateral /\ Known => mismatches < 2 * SecondTicks
         /\ mads_enabled /\ Known => Known'
         /\ ~controls_allowed_lateral => Known'
         /\ ~controls_allowed /\ controls_allowed' => Known'
<1>1. /\ heartbeat_engaged_mads \in BOOLEAN /\ mismatches \in Nat
      /\ heartbeat_engaged_mads => mismatches = 0
      /\ poll \in 0..(PollTicks - 1)
  BY MadsPandaAssumption DEF PandaInv
<1>2. /\ SecondTicks \in Nat /\ SecondTicks > 0 /\ PollTicks \in Nat /\ PollTicks > 0
      /\ MaxMissed \in Nat /\ MaxMissed + 2 * PollTicks < 2 * SecondTicks
  BY MadsPandaAssumption, WindowsAssumption
<1>3. poll' = (poll + 1) % PollTicks
  BY DEF Bus, PandadPoll
<1>4. /\ Togo \in 0..(PollTicks - 1) /\ Togo' \in 0..(PollTicks - 1)
      /\ (Polls <=> Togo = 0) /\ (~Polls => Togo' = Togo - 1)
  BY <1>1, <1>3, PollFacts
<1>5. /\ heartbeat_engaged_mads' \in BOOLEAN
      /\ Polls => (heartbeat_engaged_mads' <=> mads_enabled)
      /\ ~Polls => heartbeat_engaged_mads' = heartbeat_engaged_mads
      /\ mismatches' \in Nat /\ mismatches' <= mismatches + 1
      /\ ~controls_allowed /\ controls_allowed' => mismatches' = 0
      /\ ~controls_allowed_lateral => mismatches' <= 1
  BY <1>2, WatchdogFacts
<1>t. PICK t \in 0..(PollTicks - 1), m \in Nat : t = Togo' /\ m = mismatches'
  BY <1>4, <1>5, Zenon
<1>u. t \in 0..(PollTicks - 1) /\ m \in Nat /\ m <= mismatches + 1 /\ (~Polls => t = Togo - 1)
  BY <1>4, <1>5, <1>t, Zenon
<1> HIDE DEF Togo, Polls
<1>6. ASSUME Known PROVE mismatches < 2 * SecondTicks
  <2>1. CASE heartbeat_engaged_mads
    BY <1>1, <1>2, <2>1
  <2>2. CASE mismatches + Togo <= MaxMissed + 2 * PollTicks
    BY <1>1, <1>2, <1>4, <2>2
  <2> QED BY <1>6, <2>1, <2>2 DEF Known
<1>7. ASSUME mads_enabled, Known PROVE Known'
  <2>1. CASE Polls
    BY <1>5, <1>7, <2>1, Zenon DEF Known
  <2>2. CASE ~Polls /\ heartbeat_engaged_mads
    BY <1>5, <2>2, Zenon DEF Known
  <2>3. CASE ~Polls /\ mismatches + Togo <= MaxMissed + 2 * PollTicks
    <3>1. m + t <= MaxMissed + 2 * PollTicks
      BY <1>1, <1>2, <1>4, <1>u, <2>3
    <3> QED BY <1>t, <3>1, Zenon DEF Known
  <2> QED BY <1>7, <2>1, <2>2, <2>3 DEF Known
<1>8. ASSUME mismatches' <= 1 PROVE Known'
  <2>1. m <= 1
    BY <1>t, <1>8, Zenon
  <2>2. m + t <= MaxMissed + 2 * PollTicks
    BY <1>2, <1>u, <2>1
  <2> QED BY <1>t, <2>2, Zenon DEF Known
<1>9. ~controls_allowed /\ controls_allowed' => mismatches' <= 1
  BY <1>5
<1> QED BY <1>5, <1>6, <1>7, <1>8, <1>9, Zenon

(* The same of the latch: nothing but a cause on the bus or a fault takes  *)
(* it from MADS, and a rise of controls_allowed sets it.                   *)
LEMMA LatchKept ==
  ASSUME PandaInv, disengage_on_brake \in BOOLEAN, mads_available, mads_enabled \in BOOLEAN,
         NEW c \in BusState, Bus(c), FaultStep(c)
  PROVE  /\ /\ Latched /\ mads_enabled /\ c.main
            /\ ~(controls_allowed /\ ~controls_allowed' /\ ~c.brake)
            /\ ~(disengage_on_brake /\ c.brake /\ ~car.brake)
            => Latched'
         /\ ~controls_allowed /\ controls_allowed' => Latched'
<1>1. /\ controls_allowed_lateral /\ Known => mismatches < 2 * SecondTicks
      /\ mads_enabled /\ Known => Known'
      /\ ~controls_allowed_lateral => Known'
      /\ ~controls_allowed /\ controls_allowed' => Known'
  BY KnownFacts
<1>2. ~controls_allowed /\ controls_allowed' => controls_allowed_lateral'
  BY LatchFacts
<1> HIDE DEF Known
<1>3. ASSUME Latched, mads_enabled, c.main,
             ~(controls_allowed /\ ~controls_allowed' /\ ~c.brake),
             ~(disengage_on_brake /\ c.brake /\ ~car.brake)
      PROVE  Latched'
  <2>1. /\ controls_allowed_lateral \/ faulted
        /\ controls_allowed_lateral => mismatches < 2 * SecondTicks
        /\ Known'
    BY <1>1, <1>3, Zenon DEF Latched
  <2>2. controls_allowed_lateral' \/ faulted'
    BY <1>3, <2>1, StaysLatched
  <2> QED BY <2>1, <2>2, Zenon DEF Latched
<1>4. ASSUME ~controls_allowed, controls_allowed' PROVE Latched'
  BY <1>1, <1>2, <1>4, Zenon DEF Latched
<1> QED BY <1>3, <1>4, Zenon

(* The health that a poll publishes is the panda's permission of this      *)
(* moment.                                                                 *)
LEMMA HealthFacts ==
  ASSUME PandaInv
  PROVE  /\ HealthOf.valid
         /\ panda_lateral_view(HealthOf.pandas) = "allowed" <=>
              controls_allowed \/ controls_allowed_lateral
         /\ ~controls_allowed /\ ~controls_allowed_lateral => DisagreesLateral(HealthOf.pandas)
<1>1. PICK b \in BOOLEAN, a \in BOOLEAN :
        b = (controls_allowed \/ controls_allowed_lateral) /\ a = controls_allowed
  BY Zenon DEF PandaInv
<1> DEFINE p == [silent |-> FALSE, healthPacketMismatch |-> FALSE,
                 controlsAllowed |-> a, controlsAllowedLateral |-> b]
<1>2. HealthOf = [valid |-> TRUE, pandas |-> {p}]
  BY <1>1, Zenon DEF HealthOf
<1>3. HealthOf.valid /\ HealthOf.pandas = {p}
  BY <1>2
<1>4. ~p.silent /\ ~p.healthPacketMismatch /\ p.controlsAllowedLateral = b
  OBVIOUS
<1> HIDE DEF p
<1>5. reporting({p}) = {p}
  BY <1>4 DEF reporting
<1>6. panda_lateral_view({p}) = "allowed" <=> b
  <2>1. reporting({p}) # {}
    BY <1>5
  <2>2. CASE b
    BY <1>4, <1>5, <2>1, <2>2 DEF panda_lateral_view
  <2>3. CASE ~b
    <3>1. ~(\A q \in reporting({p}) : q.controlsAllowedLateral)
      BY <1>4, <1>5, <2>3
    <3>2. panda_lateral_view({p}) = "refused"
      BY <2>1, <3>1 DEF panda_lateral_view
    <3> QED BY <2>3, <3>2
  <2> QED BY <2>2, <2>3
<1>7. ~b => DisagreesLateral({p})
  BY <1>4, <1>5 DEF DisagreesLateral
<1> QED BY <1>1, <1>3, <1>6, <1>7, Zenon

-----------------------------------------------------------------------------
(* The two together.  MADS runs on this car, and selfdrived's last frame   *)
(* is the bus as it is unless frames were missed.                          *)
CarInv ==
  /\ mads_available /\ grace_elapsed \in Nat /\ grace_brake_seen \in BOOLEAN
  /\ cruise_enabled_prev \in BOOLEAN /\ cruise_enabled_prev = CS_prev.cruise_enabled
  /\ missed = 0 => cruise_enabled_prev = car.cruise /\ ~fresh

(* Engaged, openpilot has the panda's latch; with a frame missed the panda *)
(* may have engaged first, and then holds the latch too.                   *)
EngagedInv ==
  /\ enabled => mads_enabled
  /\ ~enabled => (mads_enabled <=> lateral_only)
  /\ missed = 0 /\ enabled => controls_allowed
  /\ enabled /\ controls_allowed => Latched
  /\ ~cruise_enabled_prev /\ controls_allowed =>
       (controls_allowed_lateral \/ faulted) /\ mismatches <= missed

(* MADS waits for the brake that explains the fall of cruise.              *)
Waiting == brake_grace > 0 /\ ~mads_enabled

(* Steering alone, openpilot has the latch; waiting for the brake, either  *)
(* nobody braked yet and the panda's window is open for as long as         *)
(* openpilot's, or the brake was late and the panda is asked.              *)
AloneInv ==
  missed = 0 /\ (lateral_only \/ brake_grace > 0) =>
    /\ ~controls_allowed /\ ~disengage_on_brake
    /\ lateral_only => Latched
    /\ Waiting /\ ~grace_brake_seen =>
         /\ ~controls_allowed_lateral /\ ~car.brake
         /\ relatch_left + grace_elapsed >= RelatchTicks
    /\ Waiting /\ grace_brake_seen => grace_elapsed > BrakeGraceFrames
    /\ Waiting /\ grace_brake_seen /\ controls_allowed_lateral =>
         mismatches + Togo <= PollTicks

(* A health report that refuses lateral.                                   *)
Refused(h) == h.valid /\ DisagreesLateral(h.pandas)

(* A disagreement waits for the poll, and then counts towards the limit    *)
(* or is missed.                                                           *)
BlockedInv ==
  /\ blocked_for \in Nat
  /\ blocked_for > 0 =>
       /\ lateral_only /\ ~controls_allowed /\ ~controls_allowed_lateral
       /\ \/ blocked_for + Togo <= PollTicks
          \/ /\ Refused(health) /\ (fresh \/ Refused(pandaStates))
             /\ blocked_for <= PollTicks + lateral_mismatch_counter + missed

(* A permission nobody asks for waits for the poll, and then counts        *)
(* towards the watchdog.                                                   *)
UnaskedInv ==
  /\ unasked_for \in Nat
  /\ unasked_for > 0 =>
       /\ controls_allowed_lateral /\ ~controls_allowed /\ ~mads_enabled
       /\ \/ unasked_for + Togo <= PollTicks
          \/ ~heartbeat_engaged_mads /\ unasked_for <= PollTicks + mismatches

SteadyInv == CoreInv /\ PandaInv /\ CarInv
PairInv == SteadyInv /\ EngagedInv /\ AloneInv /\ BlockedInv /\ UnaskedInv

(* At first nothing is engaged and nothing latched.                        *)
LEMMA PairInvInit == PairInit => PairInv
<1> SUFFICES ASSUME PairInit PROVE PairInv
  OBVIOUS
<1>1. SdInit /\ mads_available
  BY DEF PairInit, MpInit
<1>2. disengage_on_brake \in BOOLEAN /\ mads_available \in BOOLEAN
  <2>1. PICK alt \in SUBSET AltExpBits :
          /\ mads_available = ("ENABLE_MADS" \in alt
                               /\ "MADS_PAUSE_LATERAL_ON_BRAKE" \notin alt)
          /\ disengage_on_brake = ("MADS_DISENGAGE_LATERAL_ON_BRAKE" \in alt)
    BY <1>1 DEF SdInit, MadsInit
  <2> QED BY <2>1
<1>3. /\ state = "disabled" /\ ~initialized /\ initialized \in BOOLEAN
      /\ mads_enabled = FALSE /\ mads_active = FALSE /\ lateral_only = FALSE
      /\ op_enabled_prev = FALSE /\ en_prev = FALSE /\ lat_prev = FALSE
      /\ brake_grace = 0 /\ off_left = 0 /\ pending = 0 /\ lateral_mismatch_counter = 0
      /\ cruise_enabled_prev = FALSE /\ grace_elapsed = 0 /\ grace_brake_seen = FALSE
      /\ CS_prev.cruise_enabled = FALSE
  BY <1>1 DEF SdInit, SMInit, MadsInit, QuietInit
<1>4. ~enabled /\ ~active /\ state \in States
  BY <1>3 DEF enabled, active, EnabledStates, ActiveStates, States
<1>5. CoreInv
  <2>1. FrameInv
    BY <1>2, <1>3, <1>4 DEF FrameInv
  <2>2. AuthorityInv /\ OffInv /\ MismatchInv
    BY <1>3, <1>4, SelfdrivedAssumption DEF AuthorityInv, OffInv, MismatchInv
  <2> QED BY <2>1, <2>2 DEF CoreInv
<1>6. /\ car = [brake |-> FALSE, cruise |-> FALSE, main |-> TRUE]
      /\ controls_allowed = FALSE /\ controls_allowed_lateral = FALSE
      /\ relatch_left = 0 /\ heartbeat_engaged_mads = FALSE /\ mismatches = 0 /\ poll = 0
      /\ fresh = FALSE /\ missed = 0 /\ faulted = FALSE
      /\ blocked_for = 0 /\ unasked_for = 0
  BY DEF PairInit, MpInit
<1>7. car \in BusState /\ car.cruise = FALSE
  BY <1>6 DEF BusState
<1>8. PandaInv
  <2>1. /\ relatch_left \in Nat /\ mismatches \in 0..(3 * SecondTicks)
        /\ poll \in 0..(PollTicks - 1) /\ missed \in 0..MaxMissed
    BY <1>6, MadsPandaAssumption
  <2> QED BY <1>6, <1>7, <2>1 DEF PandaInv
<1>9. CarInv
  BY <1>1, <1>3, <1>6, <1>7 DEF CarInv
<1>10. EngagedInv /\ AloneInv
  BY <1>3, <1>4, <1>6 DEF EngagedInv, AloneInv
<1>11. BlockedInv /\ UnaskedInv
  BY <1>6 DEF BlockedInv, UnaskedInv
<1> QED BY <1>5, <1>8, <1>9, <1>10, <1>11 DEF PairInv, SteadyInv

(* A tick in which selfdrived runs its frame.                              *)
LEMMA FrameFacts ==
  ASSUME SteadyInv, NEW c \in BusState, NEW pressed \in BOOLEAN, NEW other \in SUBSET OtherEvents,
         SelfdrivedFrame(c, pressed, other)
  PROVE  \E U \in BOOLEAN :
           /\ U <=> (fresh \/ Polls)
           /\ pandaStates' = IF U THEN (IF Polls THEN HealthOf ELSE health) ELSE pandaStates
           /\ CoreInv' /\ UNCHANGED <<mads_available, disengage_on_brake>>
           /\ lateral_mismatch_counter' =
                IF enabled \/ ~lateral_only THEN 0
                ELSE IF DisagreesLateral(pandaStates'.pandas) THEN lateral_mismatch_counter + 1
                ELSE lateral_mismatch_counter
           /\ fresh' = FALSE
           /\ missed' = IF controls_allowed' /\ enabled' THEN 0 ELSE missed
           /\ cruise_enabled_prev' = c.cruise /\ CS_prev'.cruise_enabled = c.cruise
           /\ enabled' => c.cruise /\ c.main /\ ~c.brake
           /\ ~enabled /\ enabled' => ~cruise_enabled_prev
           /\ mads_enabled' \in BOOLEAN /\ grace_brake_seen' \in BOOLEAN /\ grace_elapsed' \in Nat
           /\ enabled' => mads_enabled'
           /\ ~enabled' => (mads_enabled' <=> lateral_only')
           /\ lateral_only' \/ brake_grace' > 0 =>
                c.main /\ ~enabled' /\ (Falls(c) \/ Waits(c, U) \/ Holds(c))
<1>1. /\ CoreInv /\ PandaInv /\ mads_available /\ grace_elapsed \in Nat
      /\ grace_brake_seen \in BOOLEAN /\ cruise_enabled_prev = CS_prev.cruise_enabled
      /\ fresh \in BOOLEAN
  BY DEF SteadyInv, CarInv, PandaInv
<1>u. PICK U \in BOOLEAN : U = (fresh \/ Polls)
  BY <1>1, Zenon
<1>2. PICK ps, CS : /\ ps = IF Polls THEN HealthOf ELSE health
                    /\ CS = CarMessage(c, pressed)
  OBVIOUS
<1>3. step(CS, U, ps, FALSE, other)
  BY <1>u, <1>2, Zenon DEF SelfdrivedFrame
<1>4. /\ CS \in CarState /\ CS.cruise_enabled = c.cruise
  BY <1>2, MessageFacts
<1>5. CoreInv'
  BY <1>1, <1>3, <1>4, FrameKeeps
<1>6. /\ UNCHANGED <<mads_available, disengage_on_brake>>
      /\ mads_enabled' \in BOOLEAN /\ grace_brake_seen' \in BOOLEAN /\ grace_elapsed' \in Nat
      /\ cruise_enabled_prev' = c.cruise
      /\ enabled' => mads_enabled'
      /\ ~enabled' => (mads_enabled' <=> lateral_only')
      /\ lateral_only' \/ brake_grace' > 0 =>
           c.main /\ ~enabled' /\ (Falls(c) \/ Waits(c, U) \/ Holds(c))
  BY <1>1, <1>2, <1>3, BusMads
<1>7. /\ enabled' => c.cruise /\ c.main /\ ~c.brake
      /\ ~enabled /\ enabled' => ~CS_prev.cruise_enabled
  <2>1. PICK E : E = update_events(CS, FALSE, other)
    OBVIOUS
  <2>2. CS = CarMessage(c, pressed)
    BY <1>2
  <2> QED BY <1>1, <1>3, <2>1, <2>2, BusEngagement
<1>8. /\ pandaStates' = IF U THEN ps ELSE pandaStates
      /\ lateral_mismatch_counter' =
           IF enabled \/ ~(mads_available /\ lateral_only) THEN 0
           ELSE IF DisagreesLateral(pandaStates'.pandas) THEN lateral_mismatch_counter + 1
           ELSE lateral_mismatch_counter
      /\ CS_prev' = Remembered(CS)
  BY <1>3 DEF step, data_sample
<1>9. CS_prev'.cruise_enabled = c.cruise
  BY <1>4, <1>8 DEF Remembered
<1>10. lateral_mismatch_counter' =
         IF enabled \/ ~lateral_only THEN 0
         ELSE IF DisagreesLateral(pandaStates'.pandas) THEN lateral_mismatch_counter + 1
         ELSE lateral_mismatch_counter
  BY <1>1, <1>8
<1>11. /\ fresh' = FALSE
       /\ missed' = IF controls_allowed' /\ enabled' THEN 0 ELSE missed
  BY DEF SelfdrivedFrame, BothEngaged, enabled
<1>12. pandaStates' = IF U THEN (IF Polls THEN HealthOf ELSE health) ELSE pandaStates
  BY <1>2, <1>8, Zenon
<1>13. ~enabled /\ enabled' => ~cruise_enabled_prev
  BY <1>1, <1>7
<1> WITNESS U \in BOOLEAN
<1> QED BY <1>u, <1>5, <1>6, <1>7, <1>9, <1>10, <1>11, <1>12, <1>13, Zenon

(* The panda keeps its own order, whoever reads the frame.                 *)
LEMMA PandaKept ==
  ASSUME SteadyInv, NEW c \in BusState, Bus(c), FaultStep(c),
         missed' \in 0..MaxMissed, fresh' \in BOOLEAN
  PROVE  PandaInv'
<1>1. /\ PandaInv /\ mads_available /\ disengage_on_brake \in BOOLEAN /\ mads_enabled \in BOOLEAN
      /\ poll \in 0..(PollTicks - 1) /\ faulted \in BOOLEAN
  BY DEF SteadyInv, CoreInv, FrameInv, CarInv, PandaInv
<1>2. /\ car' = c /\ (c.cruise => c.main) /\ controls_allowed' \in BOOLEAN
      /\ controls_allowed' => c.cruise /\ c.main /\ ~c.brake
  BY <1>1, ControlsFacts
<1>3. /\ controls_allowed_lateral' \in BOOLEAN /\ relatch_left' \in Nat
      /\ controls_allowed_lateral' => relatch_left' = 0
  BY <1>1, LatchFacts
<1>4. /\ heartbeat_engaged_mads' \in BOOLEAN /\ mismatches' \in 0..(3 * SecondTicks)
      /\ heartbeat_engaged_mads' \/ ~controls_allowed_lateral' => mismatches' = 0
  BY <1>1, WatchdogFacts
<1>5. poll' \in 0..(PollTicks - 1)
  <2>1. poll' = (poll + 1) % PollTicks
    BY DEF Bus, PandadPoll
  <2> QED BY <1>1, <2>1, PollFacts
<1>6. faulted' \in BOOLEAN
  <2>1. PandaDrops(c) \in BOOLEAN
    BY DEF PandaDrops
  <2> QED BY <1>1, <1>3, <2>1, Zenon DEF FaultStep
<1> QED BY <1>2, <1>3, <1>4, <1>5, <1>6, Zenon DEF PandaInv

(* While a frame is missed, the frame's variables stand.                   *)
LEMMA MissedFacts ==
  ASSUME SteadyInv, NEW c \in BusState, FrameMissed(c)
  PROVE  /\ CoreInv' /\ missed' = missed + 1 /\ missed' > 0 /\ missed' \in 0..MaxMissed /\ c.main
         /\ fresh' \in BOOLEAN /\ (fresh' <=> (fresh \/ Polls))
         /\ UNCHANGED <<mads_available, disengage_on_brake, mads_enabled, lateral_only,
                        cruise_enabled_prev, brake_grace, grace_elapsed, grace_brake_seen>>
         /\ UNCHANGED <<pandaStates, lateral_mismatch_counter, CS_prev>>
         /\ (enabled' <=> enabled)
<1>1. UNCHANGED frameVars
  BY DEF FrameMissed
<1>2. /\ UNCHANGED <<mads_available, disengage_on_brake, mads_enabled, lateral_only,
                     cruise_enabled_prev, brake_grace, grace_elapsed, grace_brake_seen>>
      /\ UNCHANGED <<pandaStates, lateral_mismatch_counter, CS_prev, state>>
  BY <1>1 DEF frameVars, smVars, madsVars, madsConfig, quietVars, sdVars
<1>3. CoreInv'
  <2> USE DEF frameVars, smVars, madsVars, madsConfig, quietVars, sdVars
  <2>1. FrameInv' /\ AuthorityInv'
    BY <1>1 DEF SteadyInv, CoreInv, FrameInv, AuthorityInv, enabled, active
  <2>2. OffInv' /\ MismatchInv'
    BY <1>1 DEF SteadyInv, CoreInv, OffInv, MismatchInv, enabled
  <2> QED BY <2>1, <2>2 DEF CoreInv
<1>4. missed' = missed + 1 /\ missed' > 0 /\ missed' \in 0..MaxMissed /\ c.main
  <2>1. missed \in 0..MaxMissed /\ missed < MaxMissed /\ missed' = missed + 1 /\ c.main
    BY DEF SteadyInv, PandaInv, FrameMissed
  <2> QED BY <2>1, MadsPandaAssumption
<1>5. fresh' \in BOOLEAN /\ (fresh' <=> (fresh \/ Polls))
  <2>1. fresh' = (fresh \/ Polls)
    BY DEF FrameMissed
  <2> QED BY <2>1, Zenon
<1>6. enabled' <=> enabled
  BY <1>2 DEF enabled
<1> QED BY <1>2, <1>3, <1>4, <1>5, <1>6, Zenon

(* Both sides of a tick.                                                   *)
LEMMA SteadyKept ==
  ASSUME SteadyInv, NEW c \in BusState, NEW pressed \in BOOLEAN, NEW other \in SUBSET OtherEvents,
         Bus(c), FaultStep(c), SelfdrivedFrame(c, pressed, other) \/ FrameMissed(c)
  PROVE  SteadyInv'
<1>1. /\ missed \in 0..MaxMissed /\ mads_available /\ c.cruise \in BOOLEAN
      /\ grace_elapsed \in Nat /\ grace_brake_seen \in BOOLEAN
      /\ cruise_enabled_prev \in BOOLEAN /\ cruise_enabled_prev = CS_prev.cruise_enabled
  BY DEF SteadyInv, PandaInv, CarInv, BusState
<1>2. car' = c
  BY DEF Bus, CarMoves
<1>3. CASE SelfdrivedFrame(c, pressed, other)
  <2>1. /\ CoreInv' /\ mads_available' = mads_available /\ fresh' = FALSE
        /\ missed' = IF controls_allowed' /\ enabled' THEN 0 ELSE missed
        /\ cruise_enabled_prev' = c.cruise /\ CS_prev'.cruise_enabled = c.cruise
        /\ grace_brake_seen' \in BOOLEAN /\ grace_elapsed' \in Nat
    BY <1>3, FrameFacts
  <2>2. missed' \in 0..MaxMissed
    BY <1>1, <2>1, MadsPandaAssumption
  <2>3. PandaInv'
    BY <2>1, <2>2, PandaKept
  <2>4. CarInv'
    BY <1>1, <1>2, <2>1, Zenon DEF CarInv
  <2> QED BY <2>1, <2>3, <2>4 DEF SteadyInv
<1>4. CASE FrameMissed(c)
  <2>1. /\ CoreInv' /\ missed' > 0 /\ missed' \in 0..MaxMissed /\ fresh' \in BOOLEAN
        /\ UNCHANGED <<mads_available, cruise_enabled_prev, grace_elapsed, grace_brake_seen, CS_prev>>
    BY <1>4, MissedFacts
  <2>2. PandaInv'
    BY <2>1, PandaKept
  <2>3. ~(missed' = 0)
    BY <2>1
  <2>4. CarInv'
    BY <1>1, <2>1, <2>3 DEF CarInv
  <2> QED BY <2>1, <2>2, <2>4 DEF SteadyInv
<1> QED BY <1>3, <1>4

(* A latch the panda set while openpilot missed the rise stays.            *)
LEMMA EarlyLatch ==
  ASSUME SteadyInv, NEW c \in BusState, Bus(c), FaultStep(c),
         controls_allowed, controls_allowed', controls_allowed_lateral \/ faulted,
         mismatches <= missed
  PROVE  Latched' /\ mismatches' <= missed + 1
<1>1. /\ PandaInv /\ mads_available /\ disengage_on_brake \in BOOLEAN /\ mads_enabled \in BOOLEAN
      /\ poll \in 0..(PollTicks - 1) /\ mismatches \in Nat /\ missed \in 0..MaxMissed
  BY MadsPandaAssumption DEF SteadyInv, CoreInv, FrameInv, CarInv, PandaInv
<1>2. /\ SecondTicks \in Nat /\ PollTicks \in Nat /\ PollTicks > 0
      /\ MaxMissed \in Nat /\ MaxMissed + 2 * PollTicks < 2 * SecondTicks
  BY MadsPandaAssumption, WindowsAssumption
<1>3. c.main /\ ~c.brake
  BY <1>1, ControlsFacts
<1>4. mismatches < 2 * SecondTicks
  BY <1>1, <1>2
<1>5. controls_allowed_lateral' \/ faulted'
  BY <1>1, <1>3, <1>4, StaysLatched
<1>6. mismatches' \in 0..(3 * SecondTicks) /\ mismatches' <= mismatches + 1
  BY <1>1, WatchdogFacts
<1>7. Togo' \in 0..(PollTicks - 1)
  <2>1. poll' = (poll + 1) % PollTicks
    BY DEF Bus, PandadPoll
  <2> QED BY <1>1, <2>1, PollFacts
<1>8. PICK m \in 0..(3 * SecondTicks), t \in 0..(PollTicks - 1) : m = mismatches' /\ t = Togo'
  BY <1>6, <1>7, Zenon
<1>9. m \in 0..(3 * SecondTicks) /\ t \in 0..(PollTicks - 1) /\ m <= mismatches + 1
  BY <1>6, <1>8, Zenon
<1>10. m <= missed + 1 /\ m + t <= MaxMissed + 2 * PollTicks
  BY <1>1, <1>2, <1>9
<1> HIDE DEF Togo
<1> QED BY <1>5, <1>8, <1>10, Zenon DEF Latched, Known

(* Engaged, the two stay together.                                         *)
LEMMA EngagedKept ==
  ASSUME SteadyInv, EngagedInv, NEW c \in BusState, NEW pressed \in BOOLEAN,
         NEW other \in SUBSET OtherEvents,
         Bus(c), FaultStep(c), SelfdrivedFrame(c, pressed, other) \/ FrameMissed(c)
  PROVE  EngagedInv'
<1>1. /\ PandaInv /\ mads_available /\ disengage_on_brake \in BOOLEAN /\ mads_enabled \in BOOLEAN
      /\ controls_allowed \in BOOLEAN /\ cruise_enabled_prev \in BOOLEAN
      /\ missed = 0 => cruise_enabled_prev = car.cruise
  BY DEF SteadyInv, CoreInv, FrameInv, CarInv, PandaInv
<1>2. /\ controls_allowed' \in BOOLEAN /\ (controls_allowed' => c.cruise /\ c.main /\ ~c.brake)
      /\ c.cruise /\ ~car.cruise => controls_allowed'
      /\ controls_allowed /\ c.cruise /\ ~c.brake => controls_allowed'
  BY <1>1, ControlsFacts
<1>3. /\ ~controls_allowed /\ controls_allowed' => Latched' /\ mismatches' = 0
                                                   /\ controls_allowed_lateral'
      /\ controls_allowed /\ controls_allowed' /\ Latched /\ mads_enabled => Latched'
  <2>1. ~controls_allowed /\ controls_allowed' => Latched'
    BY <1>1, LatchKept
  <2>2. ~controls_allowed /\ controls_allowed' => mismatches' = 0
    BY <1>1, WatchdogFacts
  <2>3. ~controls_allowed /\ controls_allowed' => controls_allowed_lateral'
    BY <1>1, LatchFacts
  <2>4. controls_allowed /\ controls_allowed' /\ Latched /\ mads_enabled => Latched'
    BY <1>1, <1>2, LatchKept
  <2> QED BY <2>1, <2>2, <2>3, <2>4, Zenon
<1>4. ~cruise_enabled_prev /\ controls_allowed /\ controls_allowed' =>
        Latched' /\ mismatches' <= missed + 1
  BY EarlyLatch DEF EngagedInv
<1>5. /\ enabled => mads_enabled
      /\ ~enabled => (mads_enabled <=> lateral_only)
      /\ missed = 0 /\ enabled => controls_allowed
      /\ enabled /\ controls_allowed => Latched
  BY DEF EngagedInv
<1> HIDE DEF Latched, enabled
<1>6. CASE SelfdrivedFrame(c, pressed, other)
  <2>1. /\ missed' = IF controls_allowed' /\ enabled' THEN 0 ELSE missed
        /\ cruise_enabled_prev' = c.cruise
        /\ enabled' => c.cruise /\ c.main /\ ~c.brake
        /\ ~enabled /\ enabled' => ~cruise_enabled_prev
        /\ enabled' => mads_enabled'
        /\ ~enabled' => (mads_enabled' <=> lateral_only')
    BY <1>6, FrameFacts
  <2>2. missed' = 0 /\ enabled' => controls_allowed'
    <3> SUFFICES ASSUME missed' = 0, enabled', ~controls_allowed' PROVE FALSE
      BY <1>2, Zenon
    <3>1. missed = 0
      BY <2>1
    <3> QED BY <1>1, <1>2, <1>5, <2>1, <3>1, Zenon
  <2>3. enabled' /\ controls_allowed' => Latched'
    BY <1>1, <1>3, <1>4, <1>5, <2>1, Zenon
  <2>4. ~(~cruise_enabled_prev' /\ controls_allowed')
    BY <1>2, <2>1, Zenon
  <2> QED BY <2>1, <2>2, <2>3, <2>4, Zenon DEF EngagedInv
<1>7. CASE FrameMissed(c)
  <2>1. /\ UNCHANGED <<mads_enabled, lateral_only, cruise_enabled_prev>> /\ (enabled' <=> enabled)
        /\ missed' = missed + 1 /\ missed' > 0 /\ missed' \in 0..MaxMissed
    BY <1>7, MissedFacts
  <2>2. ~(missed' = 0)
    BY <2>1
  <2>3. enabled' /\ controls_allowed' => Latched'
    BY <1>1, <1>3, <1>5, <2>1, Zenon
  <2>4. ~cruise_enabled_prev' /\ controls_allowed' =>
          (controls_allowed_lateral' \/ faulted') /\ mismatches' <= missed'
    <3> SUFFICES ASSUME ~cruise_enabled_prev, controls_allowed'
                 PROVE  (controls_allowed_lateral' \/ faulted') /\ mismatches' <= missed'
      BY <2>1
    <3>1. CASE controls_allowed
      BY <1>4, <2>1, <3>1 DEF Latched
    <3>2. CASE ~controls_allowed
      BY <1>3, <2>1, <3>2
    <3> QED BY <3>1, <3>2
  <2>5. (enabled' => mads_enabled') /\ (~enabled' => (mads_enabled' <=> lateral_only'))
    BY <1>5, <2>1
  <2> QED BY <2>2, <2>3, <2>4, <2>5, Zenon DEF EngagedInv
<1> QED BY <1>6, <1>7

(* Steering alone or waiting with every frame seen, the two stay together. *)
LEMMA AloneKept ==
  ASSUME SteadyInv, EngagedInv, AloneInv, NEW c \in BusState, NEW pressed \in BOOLEAN,
         NEW other \in SUBSET OtherEvents,
         Bus(c), FaultStep(c), SelfdrivedFrame(c, pressed, other) \/ FrameMissed(c)
  PROVE  AloneInv'
<1> SUFFICES ASSUME missed' = 0, lateral_only' \/ brake_grace' > 0
             PROVE  /\ ~controls_allowed' /\ ~disengage_on_brake'
                    /\ lateral_only' => Latched'
                    /\ Waiting' /\ ~grace_brake_seen' =>
                         /\ ~controls_allowed_lateral' /\ ~car'.brake
                         /\ relatch_left' + grace_elapsed' >= RelatchTicks
                    /\ Waiting' /\ grace_brake_seen' => grace_elapsed' > BrakeGraceFrames
                    /\ Waiting' /\ grace_brake_seen' /\ controls_allowed_lateral' =>
                         mismatches' + Togo' <= PollTicks
  BY Zenon DEF AloneInv
<1>1. /\ PandaInv /\ CoreInv /\ mads_available /\ disengage_on_brake \in BOOLEAN
      /\ mads_enabled \in BOOLEAN /\ lateral_only \in BOOLEAN
      /\ controls_allowed \in BOOLEAN /\ controls_allowed_lateral \in BOOLEAN
      /\ cruise_enabled_prev \in BOOLEAN /\ missed \in 0..MaxMissed
      /\ missed = 0 => cruise_enabled_prev = car.cruise /\ ~fresh
      /\ relatch_left \in Nat /\ mismatches \in Nat /\ grace_elapsed \in Nat
      /\ grace_brake_seen \in BOOLEAN /\ poll \in 0..(PollTicks - 1)
  BY MadsPandaAssumption DEF SteadyInv, CoreInv, FrameInv, CarInv, PandaInv
<1>2. SelfdrivedFrame(c, pressed, other)
  <2>1. CASE FrameMissed(c)
    BY <2>1, MissedFacts
  <2> QED BY <2>1
<1>3. PICK U \in BOOLEAN :
        /\ U <=> (fresh \/ Polls)
        /\ pandaStates' = IF U THEN (IF Polls THEN HealthOf ELSE health) ELSE pandaStates
        /\ UNCHANGED <<mads_available, disengage_on_brake>>
        /\ missed' = IF controls_allowed' /\ enabled' THEN 0 ELSE missed
        /\ mads_enabled' \in BOOLEAN /\ grace_brake_seen' \in BOOLEAN /\ grace_elapsed' \in Nat
        /\ ~enabled' => (mads_enabled' <=> lateral_only')
        /\ lateral_only' \/ brake_grace' > 0 =>
             c.main /\ ~enabled' /\ (Falls(c) \/ Waits(c, U) \/ Holds(c))
  BY <1>2, FrameFacts
<1>4. /\ c.main /\ ~enabled' /\ (Falls(c) \/ Waits(c, U) \/ Holds(c))
      /\ (mads_enabled' <=> lateral_only')
  BY <1>3, Zenon
<1>5. missed = 0 /\ cruise_enabled_prev = car.cruise /\ ~fresh
  <2>1. missed = 0
    BY <1>3, <1>4
  <2> QED BY <1>1, <2>1
<1>6. /\ enabled => mads_enabled /\ controls_allowed /\ Latched
      /\ ~enabled => (mads_enabled <=> lateral_only)
  BY <1>5 DEF EngagedInv
<1>7. lateral_only \/ brake_grace > 0 =>
        /\ ~controls_allowed /\ ~disengage_on_brake
        /\ lateral_only => Latched
        /\ Waiting /\ ~grace_brake_seen =>
             /\ ~controls_allowed_lateral /\ ~car.brake
             /\ relatch_left + grace_elapsed >= RelatchTicks
        /\ Waiting /\ grace_brake_seen => grace_elapsed > BrakeGraceFrames
        /\ Waiting /\ grace_brake_seen /\ controls_allowed_lateral =>
             mismatches + Togo <= PollTicks
  BY <1>5, Zenon DEF AloneInv
<1>8. /\ car' = c /\ controls_allowed' \in BOOLEAN
      /\ controls_allowed' => c.cruise /\ ~c.brake
      /\ ~controls_allowed /\ controls_allowed' => c.cruise /\ ~car.cruise
  BY <1>1, ControlsFacts
<1>9. /\ Latched /\ mads_enabled /\ c.main
         /\ ~(controls_allowed /\ ~controls_allowed' /\ ~c.brake)
         /\ ~(disengage_on_brake /\ c.brake /\ ~car.brake)
         => Latched'
  BY <1>1, LatchKept
<1>10. PICK m \in Nat, t \in 0..(PollTicks - 1), r \in Nat, g \in Nat :
         m = mismatches' /\ t = Togo' /\ r = relatch_left' /\ g = grace_elapsed'
  <2>1. mismatches' \in Nat
    BY <1>1, WatchdogFacts, MadsPandaAssumption
  <2>2. Togo' \in 0..(PollTicks - 1)
    <3>1. poll' = (poll + 1) % PollTicks
      BY DEF Bus, PandadPoll
    <3> QED BY <1>1, <3>1, PollFacts
  <2>3. relatch_left' \in Nat
    BY <1>1, LatchFacts
  <2> QED BY <1>3, <2>1, <2>2, <2>3, Zenon
<1>t. m \in Nat /\ t \in 0..(PollTicks - 1) /\ r \in Nat /\ g \in Nat
  BY <1>10, Zenon
<1> HIDE DEF Latched, enabled, Togo, Polls, Waiting
<1>11. CASE Falls(c)
  <2>1. /\ enabled /\ ~disengage_on_brake /\ (c.brake \/ ~c.cruise)
        /\ (lateral_only' <=> c.brake) /\ (c.brake => brake_grace' = 0)
        /\ grace_elapsed' = 0 /\ ~grace_brake_seen'
    BY <1>11 DEF Falls
  <2>2. ~controls_allowed' /\ ~disengage_on_brake'
    BY <1>3, <1>8, <2>1, Zenon
  <2>3. lateral_only' => Latched'
    BY <1>4, <1>6, <1>9, <2>1, Zenon
  <2>4. ASSUME Waiting'
        PROVE  /\ ~controls_allowed_lateral' /\ ~car'.brake
               /\ relatch_left' + grace_elapsed' >= RelatchTicks
    <3>1. ~c.brake
      BY <2>1, <2>4 DEF Waiting
    <3>2. ~controls_allowed_lateral' /\ relatch_left' = RelatchTicks
      BY <1>1, <1>4, <1>6, <2>1, <2>2, <3>1, LatchFacts
    <3>3. relatch_left' + grace_elapsed' >= RelatchTicks
      BY <2>1, <3>2, MadsPandaAssumption
    <3> QED BY <1>8, <3>1, <3>2, <3>3
  <2> QED BY <2>1, <2>2, <2>3, <2>4, Zenon
<1>12. CASE Holds(c)
  <2>1. ~enabled /\ mads_enabled /\ ~Rises(c) /\ brake_grace' = 0
    BY <1>12 DEF Holds
  <2>2. ~(c.cruise /\ ~car.cruise)
    BY <1>5, <2>1 DEF Rises
  <2>3. lateral_only /\ ~controls_allowed /\ ~disengage_on_brake /\ Latched
    BY <1>6, <1>7, <2>1, Zenon
  <2>4. ~controls_allowed' /\ ~disengage_on_brake'
    BY <1>3, <1>8, <2>2, <2>3, Zenon
  <2>5. Latched'
    BY <1>4, <1>9, <2>1, <2>3, Zenon
  <2>6. ~Waiting'
    BY <2>1 DEF Waiting
  <2> QED BY <2>4, <2>5, <2>6, Zenon
<1>13. CASE Waits(c, U)
  <2>1. /\ ~enabled /\ brake_grace > 0 /\ ~Rises(c)
        /\ grace_elapsed' = grace_elapsed + 1
        /\ grace_brake_seen' <=> (grace_brake_seen \/ c.brake)
        /\ lateral_only' <=> \/ mads_enabled
                             \/ c.brake /\ grace_elapsed' <= BrakeGraceFrames
                             \/ grace_brake_seen' /\ Allowed(U)
    BY <1>13, Zenon DEF Waits
  <2>2. ~(c.cruise /\ ~car.cruise)
    BY <1>5, <2>1 DEF Rises
  <2>3. ~controls_allowed /\ ~disengage_on_brake
    BY <1>7, <2>1, Zenon
  <2>4. ~controls_allowed' /\ ~disengage_on_brake'
    BY <1>3, <1>8, <2>2, <2>3, Zenon
  <2>5. Allowed(U) <=> Polls /\ controls_allowed_lateral
    <3>1. /\ HealthOf.valid
          /\ panda_lateral_view(HealthOf.pandas) = "allowed" <=>
               controls_allowed \/ controls_allowed_lateral
      BY <1>1, HealthFacts
    <3>2. CASE Polls
      <4>1. U /\ pandaStates' = HealthOf
        BY <1>3, <3>2
      <4> QED BY <2>3, <3>1, <3>2, <4>1, Zenon DEF Allowed
    <3>3. CASE ~Polls
      BY <1>3, <1>5, <3>3, Zenon DEF Allowed
    <3> QED BY <3>2, <3>3
  <2>6. g = grace_elapsed + 1 /\ g \in Nat
    BY <1>10, <2>1
  <2>7. CASE mads_enabled
    <3>1. lateral_only' /\ mads_enabled' /\ lateral_only
      BY <1>4, <1>6, <2>1, <2>7, Zenon
    <3>2. Latched'
      BY <1>4, <1>7, <1>9, <2>3, <2>7, <3>1, Zenon
    <3>3. ~Waiting'
      BY <3>1 DEF Waiting
    <3> QED BY <2>4, <3>2, <3>3, Zenon
  <2>8. CASE ~mads_enabled
    <3>1. Waiting
      BY <2>1, <2>8, Zenon DEF Waiting
    <3>2. /\ ~grace_brake_seen => /\ ~controls_allowed_lateral /\ ~car.brake
                                  /\ relatch_left + grace_elapsed >= RelatchTicks
          /\ grace_brake_seen => grace_elapsed > BrakeGraceFrames
          /\ grace_brake_seen /\ controls_allowed_lateral => mismatches + Togo <= PollTicks
      BY <1>7, <2>1, <3>1, Zenon
    <3>3. /\ c.brake /\ g <= BrakeGraceFrames => lateral_only'
          /\ lateral_only' => \/ c.brake /\ g <= BrakeGraceFrames
                              \/ Polls /\ controls_allowed_lateral
          /\ grace_brake_seen' /\ Polls /\ controls_allowed_lateral => lateral_only'
      <4>1. g <= BrakeGraceFrames <=> grace_elapsed' <= BrakeGraceFrames
        BY <1>10
      <4>2. c.brake /\ g <= BrakeGraceFrames => lateral_only'
        BY <2>1, <4>1, Zenon
      <4>3. lateral_only' => \/ c.brake /\ g <= BrakeGraceFrames
                             \/ Polls /\ controls_allowed_lateral
        BY <2>1, <2>5, <2>8, <4>1, Zenon
      <4>4. grace_brake_seen' /\ Polls /\ controls_allowed_lateral => lateral_only'
        BY <2>1, <2>5, Zenon
      <4> QED BY <4>2, <4>3, <4>4
    <3>4. /\ BrakeGraceFrames \in Nat /\ RelatchTicks \in Nat /\ BrakeGraceFrames <= RelatchTicks
          /\ PollTicks \in Nat /\ PollTicks > 0 /\ SecondTicks \in Nat /\ MaxMissed \in Nat
          /\ MaxMissed + 2 * PollTicks < 2 * SecondTicks
      BY GraceAssumption, MadsPandaAssumption, WindowsAssumption
    <3>5. /\ m <= mismatches + 1
          /\ ~controls_allowed_lateral => m <= 1
      BY <1>1, <1>10, WatchdogFacts
    <3>6. /\ Togo \in 0..(PollTicks - 1) /\ (Polls <=> Togo = 0) /\ (~Polls => t = Togo - 1)
      <4>1. poll' = (poll + 1) % PollTicks
        BY DEF Bus, PandadPoll
      <4> QED BY <1>1, <1>10, <4>1, PollFacts
    <3>7. ASSUME lateral_only' PROVE Latched'
      <4>1. CASE ~grace_brake_seen
        <5>1. c.brake /\ relatch_left > 0 /\ ~car.brake /\ ~controls_allowed_lateral
          BY <1>1, <2>6, <3>2, <3>3, <3>4, <3>7, <4>1
        <5>2. controls_allowed_lateral'
          BY <1>1, <1>4, <2>3, <5>1, LatchFacts
        <5>3. Known'
          BY <1>1, <5>1, KnownFacts
        <5> QED BY <5>2, <5>3, Zenon DEF Latched
      <4>2. CASE grace_brake_seen
        <5>1. ~(g <= BrakeGraceFrames)
          BY <1>1, <2>6, <3>2, <3>4, <4>2
        <5>2. Polls /\ controls_allowed_lateral
          BY <3>3, <3>7, <5>1, Zenon
        <5>3. mismatches <= PollTicks
          BY <1>1, <3>2, <3>6, <4>2, <5>2
        <5>4. mismatches < 2 * SecondTicks
          BY <1>1, <3>4, <5>3
        <5>5. controls_allowed_lateral' \/ faulted'
          BY <1>1, <1>4, <2>3, <5>2, <5>4, StaysLatched
        <5>6. m + t <= MaxMissed + 2 * PollTicks
          BY <1>1, <1>t, <3>4, <3>5, <5>3
        <5> QED BY <1>10, <5>5, <5>6, Zenon DEF Latched, Known
      <4> QED BY <1>1, <4>1, <4>2, Zenon
    <3>8. ASSUME Waiting' PROVE ~lateral_only'
      BY <1>4, <3>8, Zenon DEF Waiting
    <3>9. ASSUME Waiting', ~grace_brake_seen'
          PROVE  /\ ~controls_allowed_lateral' /\ ~car'.brake
                 /\ relatch_left' + grace_elapsed' >= RelatchTicks
      <4>1. ~grace_brake_seen /\ ~c.brake
        BY <2>1, <3>9, Zenon
      <4>2. ~controls_allowed_lateral'
        BY <1>1, <2>4, <3>2, <4>1, LatchFacts
      <4>3. relatch_left' >= relatch_left - 1
        BY <1>1, <1>4, <2>3, <2>4, <4>1, LatchFacts
      <4>4. r >= relatch_left - 1
        BY <1>10, <4>3, Zenon
      <4>5. r + g >= RelatchTicks
        BY <1>1, <1>t, <2>6, <3>2, <3>4, <4>1, <4>4
      <4> QED BY <1>8, <1>10, <4>1, <4>2, <4>5, Zenon
    <3>10. ASSUME Waiting', grace_brake_seen' PROVE grace_elapsed' > BrakeGraceFrames
      <4>1. ~(c.brake /\ g <= BrakeGraceFrames)
        BY <3>3, <3>8, <3>10, Zenon
      <4>2. g > BrakeGraceFrames
        <5>1. CASE grace_brake_seen
          BY <1>1, <2>6, <3>2, <3>4, <5>1
        <5>2. CASE c.brake
          BY <2>6, <3>4, <4>1, <5>2
        <5> QED BY <2>1, <3>10, <5>1, <5>2, Zenon
      <4> QED BY <1>10, <4>2, Zenon
    <3>11. ASSUME Waiting', grace_brake_seen', controls_allowed_lateral'
           PROVE  mismatches' + Togo' <= PollTicks
      <4>1. m + t <= PollTicks
        <5>1. CASE controls_allowed_lateral
          <6>1. ~Polls
            BY <3>3, <3>8, <3>11, <5>1, Zenon
          <6>2. mismatches + Togo <= PollTicks
            BY <1>1, <3>2, <5>1, Zenon
          <6>3. t = Togo - 1
            BY <3>6, <6>1
          <6> QED BY <1>1, <3>4, <3>5, <3>6, <6>2, <6>3
        <5>2. CASE ~controls_allowed_lateral
          BY <1>t, <3>4, <3>5, <5>2
        <5> QED BY <5>1, <5>2
      <4> QED BY <1>10, <4>1, Zenon
    <3> QED BY <2>4, <3>7, <3>9, <3>10, <3>11, Zenon
  <2> QED BY <2>7, <2>8
<1> QED BY <1>4, <1>11, <1>12, <1>13, Zenon

(* The count of a run of ticks.                                            *)
LEMMA CountFacts ==
  ASSUME NEW b \in BOOLEAN, NEW n \in Nat, NEW max \in Nat
  PROVE  Count(b, n, max) \in Nat /\ Count(b, n, max) <= n + 1 /\ (Count(b, n, max) > 0 => b)
BY DEF Count

(* A disagreement is polled, and then counted or missed.                   *)
LEMMA BlockedKept ==
  ASSUME SteadyInv, BlockedInv, NEW c \in BusState, NEW pressed \in BOOLEAN,
         NEW other \in SUBSET OtherEvents, Bus(c),
         SelfdrivedFrame(c, pressed, other) \/ FrameMissed(c), CoreInv',
         PandaInv', blocked_for' = Count((lateral_only /\ ~PandaPermits)', blocked_for, BlockedMax + 1)
  PROVE  BlockedInv'
<1>1. /\ PandaInv /\ CoreInv /\ blocked_for \in Nat /\ lateral_mismatch_counter \in Nat
      /\ missed \in 0..MaxMissed /\ missed \in Nat /\ poll \in 0..(PollTicks - 1)
      /\ lateral_only' \in BOOLEAN /\ controls_allowed' \in BOOLEAN
      /\ controls_allowed_lateral' \in BOOLEAN
  BY MadsPandaAssumption DEF SteadyInv, CoreInv, FrameInv, MismatchInv, PandaInv, BlockedInv
<1>2. BlockedMax + 1 \in Nat /\ PollTicks \in Nat /\ PollTicks > 0
  BY SelfdrivedAssumption, MadsPandaAssumption DEF BlockedMax
<1>3. PICK b \in BOOLEAN, mx \in Nat :
        /\ b = (lateral_only' /\ ~(controls_allowed' \/ controls_allowed_lateral'))
        /\ mx = BlockedMax + 1
  BY <1>1, <1>2, Zenon
<1>4. blocked_for' = Count(b, blocked_for, mx)
  BY <1>3, Zenon DEF PandaPermits
<1>5. PICK n \in Nat : n = blocked_for' /\ n <= blocked_for + 1 /\ (n > 0 => b)
  <2>1. PICK k \in Nat : k = blocked_for
    BY <1>1, Zenon
  <2>2. Count(b, k, mx) \in Nat /\ Count(b, k, mx) <= k + 1 /\ (Count(b, k, mx) > 0 => b)
    BY CountFacts
  <2> QED BY <1>4, <2>1, <2>2, Zenon
<1>6. n \in Nat /\ n <= blocked_for + 1
  BY <1>5, Zenon
<1>7. PICK t \in 0..(PollTicks - 1) : t = Togo'
  <2>1. poll' = (poll + 1) % PollTicks
    BY DEF Bus, PandadPoll
  <2> QED BY <1>1, <2>1, PollFacts
<1>8. /\ Togo \in 0..(PollTicks - 1) /\ t \in 0..(PollTicks - 1)
      /\ (Polls <=> Togo = 0) /\ (~Polls => t = Togo - 1)
  <2>1. poll' = (poll + 1) % PollTicks
    BY DEF Bus, PandadPoll
  <2> QED BY <1>1, <1>7, <2>1, PollFacts
<1> HIDE DEF Togo, Polls, Refused, enabled
<1> SUFFICES ASSUME n > 0
             PROVE  \/ n + t <= PollTicks
                    \/ /\ Refused(health') /\ (fresh' \/ Refused(pandaStates'))
                       /\ n <= PollTicks + lateral_mismatch_counter' + missed'
  <2>1. CASE n > 0
    <3>1. lateral_only' /\ ~controls_allowed' /\ ~controls_allowed_lateral'
      BY <1>3, <1>5, <2>1, Zenon
    <3> QED BY <1>5, <1>7, <2>1, <3>1, Zenon DEF BlockedInv
  <2>2. CASE ~(n > 0)
    BY <1>5, <2>2, Zenon DEF BlockedInv
  <2> QED BY <2>1, <2>2
<1>9. lateral_only'
  BY <1>3, <1>5, Zenon
<1>10. CASE blocked_for = 0
  BY <1>2, <1>6, <1>8, <1>10
<1>11. CASE blocked_for > 0
  <2>1. /\ lateral_only /\ ~controls_allowed /\ ~controls_allowed_lateral
        /\ \/ blocked_for + Togo <= PollTicks
           \/ /\ Refused(health) /\ (fresh \/ Refused(pandaStates))
              /\ blocked_for <= PollTicks + lateral_mismatch_counter + missed
    BY <1>11, Zenon DEF BlockedInv
  <2>2. CASE ~Polls /\ blocked_for + Togo <= PollTicks
    BY <1>1, <1>2, <1>6, <1>8, <2>2
  <2>3. CASE \/ Polls
             \/ Refused(health) /\ (fresh \/ Refused(pandaStates))
    <3>1. Refused(HealthOf)
      BY <1>1, <2>1, HealthFacts DEF Refused
    <3>2. health' = IF Polls THEN HealthOf ELSE health
      BY DEF Bus, PandadPoll
    <3>3. Refused(health')
      <4>1. CASE Polls
        BY <3>1, <3>2, <4>1
      <4>2. CASE ~Polls
        BY <2>3, <3>2, <4>2
      <4> QED BY <4>1, <4>2
    <3>4. blocked_for <= PollTicks + lateral_mismatch_counter + missed
      BY <1>1, <1>2, <1>8, <2>1, <2>3
    <3>5. CASE SelfdrivedFrame(c, pressed, other)
      <4>1. PICK U \in BOOLEAN :
              /\ U <=> (fresh \/ Polls)
              /\ pandaStates' = IF U THEN (IF Polls THEN HealthOf ELSE health) ELSE pandaStates
              /\ lateral_mismatch_counter' =
                   IF enabled \/ ~lateral_only THEN 0
                   ELSE IF DisagreesLateral(pandaStates'.pandas) THEN lateral_mismatch_counter + 1
                   ELSE lateral_mismatch_counter
              /\ missed' = IF controls_allowed' /\ enabled' THEN 0 ELSE missed
        BY <3>5, FrameFacts
      <4>2. ~enabled /\ ~enabled'
        BY <1>1, <1>9, <2>1 DEF CoreInv, AuthorityInv
      <4>3. Refused(pandaStates')
        <5>1. CASE Polls
          BY <3>1, <4>1, <5>1
        <5>2. CASE ~Polls /\ fresh
          BY <2>3, <4>1, <5>2
        <5>3. CASE ~Polls /\ ~fresh
          BY <2>3, <4>1, <5>3
        <5> QED BY <5>1, <5>2, <5>3
      <4>4. DisagreesLateral(pandaStates'.pandas)
        BY <4>3 DEF Refused
      <4>5. lateral_mismatch_counter' = lateral_mismatch_counter + 1 /\ missed' = missed
        BY <2>1, <4>1, <4>2, <4>4
      <4>6. n <= PollTicks + (lateral_mismatch_counter + 1) + missed
        BY <1>1, <1>2, <1>6, <3>4
      <4>7. n <= PollTicks + lateral_mismatch_counter' + missed'
        BY <4>5, <4>6, Zenon
      <4> QED BY <3>3, <4>3, <4>7
    <3>6. CASE FrameMissed(c)
      <4>1. /\ missed' = missed + 1 /\ (fresh' <=> (fresh \/ Polls))
            /\ pandaStates' = pandaStates /\ lateral_mismatch_counter' = lateral_mismatch_counter
        BY <3>6, MissedFacts
      <4>2. fresh' \/ Refused(pandaStates')
        BY <2>3, <4>1, Zenon
      <4>3. n <= PollTicks + lateral_mismatch_counter + (missed + 1)
        BY <1>1, <1>2, <1>6, <3>4
      <4>4. n <= PollTicks + lateral_mismatch_counter' + missed'
        BY <4>1, <4>3, Zenon
      <4> QED BY <3>3, <4>2, <4>4
    <3> QED BY <3>5, <3>6
  <2> QED BY <2>1, <2>2, <2>3, Zenon
<1> QED BY <1>1, <1>10, <1>11

(* A permission nobody asks for is counted by the watchdog from the next   *)
(* poll on.                                                                *)
LEMMA UnaskedKept ==
  ASSUME SteadyInv, UnaskedInv, NEW c \in BusState, Bus(c), PandaInv', mads_enabled' \in BOOLEAN,
         unasked_for' = Count(Unasked', unasked_for, UnaskedMax + 1)
  PROVE  UnaskedInv'
<1>1. /\ PandaInv /\ unasked_for \in Nat /\ poll \in 0..(PollTicks - 1)
      /\ mads_available /\ mads_enabled \in BOOLEAN /\ disengage_on_brake \in BOOLEAN
      /\ mismatches \in 0..(3 * SecondTicks) /\ mismatches \in Nat
      /\ controls_allowed' \in BOOLEAN /\ controls_allowed_lateral' \in BOOLEAN
  BY MadsPandaAssumption DEF SteadyInv, CoreInv, FrameInv, CarInv, PandaInv, UnaskedInv
<1>2. UnaskedMax + 1 \in Nat /\ PollTicks \in Nat /\ PollTicks > 0 /\ SecondTicks \in Nat
  BY MadsPandaAssumption DEF UnaskedMax
<1>3. PICK b \in BOOLEAN, mx \in Nat :
        /\ b = (controls_allowed_lateral' /\ ~controls_allowed' /\ ~mads_enabled')
        /\ mx = UnaskedMax + 1
  BY <1>1, <1>2, Zenon
<1>4. unasked_for' = Count(b, unasked_for, mx)
  BY <1>3, Zenon DEF Unasked
<1>5. PICK n \in Nat : n = unasked_for' /\ n <= unasked_for + 1 /\ (n > 0 => b)
  <2>1. PICK k \in Nat : k = unasked_for
    BY <1>1, Zenon
  <2>2. Count(b, k, mx) \in Nat /\ Count(b, k, mx) <= k + 1 /\ (Count(b, k, mx) > 0 => b)
    BY CountFacts
  <2> QED BY <1>4, <2>1, <2>2, Zenon
<1>6. n \in Nat /\ n <= unasked_for + 1
  BY <1>5, Zenon
<1>7. PICK t \in 0..(PollTicks - 1) : t = Togo'
  <2>1. poll' = (poll + 1) % PollTicks
    BY DEF Bus, PandadPoll
  <2> QED BY <1>1, <2>1, PollFacts
<1>8. /\ Togo \in 0..(PollTicks - 1) /\ t \in 0..(PollTicks - 1)
      /\ (Polls <=> Togo = 0) /\ (~Polls => t = Togo - 1)
  <2>1. poll' = (poll + 1) % PollTicks
    BY DEF Bus, PandadPoll
  <2> QED BY <1>1, <1>7, <2>1, PollFacts
<1> HIDE DEF Togo, Polls
<1> SUFFICES ASSUME n > 0
             PROVE  \/ n + t <= PollTicks
                    \/ ~heartbeat_engaged_mads' /\ n <= PollTicks + mismatches'
  <2>1. CASE n > 0
    <3>1. controls_allowed_lateral' /\ ~controls_allowed' /\ ~mads_enabled'
      BY <1>3, <1>5, <2>1, Zenon
    <3> QED BY <1>5, <1>7, <2>1, <3>1, Zenon DEF UnaskedInv
  <2>2. CASE ~(n > 0)
    BY <1>5, <2>2, Zenon DEF UnaskedInv
  <2> QED BY <2>1, <2>2
<1>9. controls_allowed_lateral' /\ ~controls_allowed'
  BY <1>3, <1>5, Zenon
<1>10. CASE unasked_for = 0
  BY <1>2, <1>6, <1>8, <1>10
<1>11. CASE unasked_for > 0
  <2>1. /\ controls_allowed_lateral /\ ~controls_allowed /\ ~mads_enabled
        /\ \/ unasked_for + Togo <= PollTicks
           \/ ~heartbeat_engaged_mads /\ unasked_for <= PollTicks + mismatches
    BY <1>11, Zenon DEF UnaskedInv
  <2>2. CASE ~Polls /\ unasked_for + Togo <= PollTicks
    BY <1>1, <1>2, <1>6, <1>8, <2>2
  <2>3. CASE Polls \/ (~heartbeat_engaged_mads /\ unasked_for <= PollTicks + mismatches)
    <3>1. ~heartbeat_engaged_mads'
      <4>1. /\ Polls => (heartbeat_engaged_mads' <=> mads_enabled)
            /\ ~Polls => heartbeat_engaged_mads' = heartbeat_engaged_mads
        BY <1>1, WatchdogFacts
      <4> QED BY <2>1, <2>3, <4>1, Zenon
    <3>2. unasked_for <= PollTicks + mismatches
      BY <1>1, <1>2, <1>8, <2>1, <2>3
    <3>3. mismatches < 3 * SecondTicks
      <4>1. ~WatchdogMust
        BY <1>1, <1>9, <2>1, LatchFacts
      <4> QED BY <1>1, <1>2, <4>1 DEF WatchdogMust
    <3>4. mismatches' = mismatches + 1
      BY <1>1, <1>9, <3>1, <3>3, WatchdogFacts
    <3>5. n <= PollTicks + (mismatches + 1)
      BY <1>1, <1>2, <1>6, <3>2
    <3>6. n <= PollTicks + mismatches'
      BY <3>4, <3>5, Zenon
    <3> QED BY <3>1, <3>6
  <2> QED BY <2>1, <2>2, <2>3, Zenon
<1> QED BY <1>1, <1>10, <1>11

(* Every tick keeps all of it.                                             *)
LEMMA PairInvNext == ASSUME PairInv, PairNext PROVE PairInv'
<1>1. PICK c \in BusState, pressed \in BOOLEAN, other \in SystemEvents : Tick(c, pressed, other)
  BY DEF PairNext, MpNext
<1>2. other \in SUBSET OtherEvents
  BY SelfdrivedAssumption
<1>3. /\ Bus(c) /\ FaultStep(c) /\ (SelfdrivedFrame(c, pressed, other) \/ FrameMissed(c))
  BY <1>1, Zenon DEF Tick, Bus, FaultStep
<1>4. SteadyInv /\ EngagedInv /\ AloneInv /\ BlockedInv /\ UnaskedInv
  BY DEF PairInv
<1>5. SteadyInv'
  BY <1>2, <1>3, <1>4, SteadyKept
<1>6. CoreInv' /\ PandaInv' /\ mads_enabled' \in BOOLEAN
  BY <1>5 DEF SteadyInv, CoreInv, FrameInv
<1>7. EngagedInv'
  BY <1>2, <1>3, <1>4, EngagedKept
<1>8. AloneInv'
  BY <1>2, <1>3, <1>4, AloneKept
<1>9. BlockedInv'
  <2>1. blocked_for' = Count((lateral_only /\ ~PandaPermits)', blocked_for, BlockedMax + 1)
    BY DEF PairNext
  <2> QED BY <1>2, <1>3, <1>4, <1>6, <2>1, BlockedKept
<1>10. UnaskedInv'
  <2>1. unasked_for' = Count(Unasked', unasked_for, UnaskedMax + 1)
    BY DEF PairNext
  <2> QED BY <1>3, <1>4, <1>6, <2>1, UnaskedKept
<1> QED BY <1>5, <1>7, <1>8, <1>9, <1>10 DEF PairInv

(* A step that changes nothing.                                            *)
LEMMA PairStutter == ASSUME PairInv, UNCHANGED pairVars PROVE PairInv'
<1> USE DEF pairVars, mpVars, frameVars, smVars, madsVars, madsConfig, quietVars, sdVars,
            pandaVars, linkVars
<1>1. CoreInv'
  <2>1. FrameInv' /\ AuthorityInv'
    BY DEF PairInv, SteadyInv, CoreInv, FrameInv, AuthorityInv, enabled, active
  <2>2. OffInv' /\ MismatchInv'
    BY DEF PairInv, SteadyInv, CoreInv, OffInv, MismatchInv, enabled
  <2> QED BY <2>1, <2>2 DEF CoreInv
<1>2. PandaInv' /\ CarInv'
  BY DEF PairInv, SteadyInv, PandaInv, CarInv
<1>3. (Latched' <=> Latched) /\ Togo' = Togo /\ (enabled' <=> enabled)
  BY DEF Latched, Known, Togo, enabled
<1>4. EngagedInv'
  BY <1>3 DEF PairInv, EngagedInv
<1>5. AloneInv'
  BY <1>3 DEF PairInv, AloneInv, Waiting
<1>6. BlockedInv' /\ UnaskedInv'
  BY <1>3 DEF PairInv, BlockedInv, UnaskedInv, Refused
<1> QED BY <1>1, <1>2, <1>4, <1>5, <1>6 DEF PairInv, SteadyInv

(* The invariant holds throughout.                                         *)
LEMMA PairInvHolds == PairSpec => []PairInv
<1>1. PairInv /\ [PairNext]_pairVars => PairInv'
  BY PairInvNext, PairStutter
<1> QED BY <1>1, PairInvInit, PTL DEF PairSpec

(* With every frame seen and no fault of the panda, openpilot never steers *)
(* alone in a tick in which the panda blocks steering: its own window for  *)
(* a late brake (mads_pnw.py, MADS_BRAKE_GRACE_FRAMES) closes before the   *)
(* panda's, and past it the panda itself is asked.                         *)
THEOREM SteersPermitted == PairSpec => []NeverSteersBlocked
<1>1. PairInv => NeverSteersBlocked
  BY DEF PairInv, AloneInv, Latched, NeverSteersBlocked, PandaPermits
<1> QED BY <1>1, PairInvHolds, PTL

(* A panda that revokes by itself is followed within a poll, the frames    *)
(* missed and MismatchLimit frames of lateral_mismatch_counter             *)
(* (selfdrived.py data_sample).                                            *)
THEOREM BlockedEnds == PairSpec => []BlockedIsBounded
<1>1. ASSUME PairInv PROVE BlockedIsBounded
  <2>1. /\ blocked_for \in Nat /\ lateral_mismatch_counter \in Nat /\ missed \in 0..MaxMissed
        /\ poll \in 0..(PollTicks - 1)
        /\ lateral_mismatch_counter >= MismatchLimit => ~lateral_only
    BY <1>1 DEF PairInv, SteadyInv, CoreInv, MismatchInv, PandaInv, BlockedInv
  <2>2. /\ MismatchLimit \in Nat /\ PollTicks \in Nat /\ PollTicks > 0 /\ MaxMissed \in Nat
    BY SelfdrivedAssumption, MadsPandaAssumption
  <2>3. blocked_for > 0 =>
          /\ lateral_only
          /\ \/ blocked_for + Togo <= PollTicks
             \/ blocked_for <= PollTicks + lateral_mismatch_counter + missed
    BY <1>1 DEF PairInv, BlockedInv
  <2> QED BY <2>1, <2>2, <2>3 DEF BlockedIsBounded, BlockedMax, Togo
<1> QED BY <1>1, PairInvHolds, PTL

(* A permission nobody asks for any more ends within a poll and three      *)
(* seconds of the panda's watchdog (pandad.cc, engaged_mads).              *)
THEOREM UnaskedEnds == PairSpec => []UnaskedIsBounded
<1>1. ASSUME PairInv PROVE UnaskedIsBounded
  <2>1. unasked_for \in Nat /\ mismatches \in 0..(3 * SecondTicks) /\ poll \in 0..(PollTicks - 1)
    BY <1>1 DEF PairInv, SteadyInv, PandaInv, UnaskedInv
  <2>2. SecondTicks \in Nat /\ PollTicks \in Nat /\ PollTicks > 0 /\ MaxMissed \in Nat
    BY MadsPandaAssumption
  <2>3. unasked_for > 0 => \/ unasked_for + Togo <= PollTicks
                           \/ unasked_for <= PollTicks + mismatches
    BY <1>1 DEF PairInv, UnaskedInv
  <2> QED BY <2>1, <2>2, <2>3 DEF UnaskedIsBounded, UnaskedMax, Togo
<1> QED BY <1>1, PairInvHolds, PTL
=============================================================================
