------------------------- MODULE Selfdrived_proofs --------------------------
(***************************************************************************)
(* Proofs about the engagement state machine, for every length of the      *)
(* soft-disable warning, and about selfdrived's whole frame, for every     *)
(* length of its windows, limits and holds, every set of carState and      *)
(* pandaStates messages, every class of further events and every order in  *)
(* which they come.                                                        *)
(***************************************************************************)
EXTENDS MCStateMachine, MCSelfdrived, TLAPS

-----------------------------------------------------------------------------
(* The engagement state machine alone.                                     *)

(* Every frame moves the machine between its five states and keeps the     *)
(* timer in range, whatever events the frame carries.                      *)
LEMMA SMUpdateType ==
  ASSUME NEW T \in SUBSET EventTypes, SMTypeOK, SMUpdate(T)
  PROVE  SMTypeOK'
<1> USE SoftDisableAssumption DEF SMTypeOK, States, EnabledStates, ActiveStates
<1>0. TimerTick \in 0..SoftDisableFrames
  BY DEF TimerTick
<1>t. ASSUME NEW s \in States, NEW A \in SUBSET EventTypes, GoTo(s, A)
      PROVE  state' \in States /\ current_alert_types' \subseteq EventTypes
  BY <1>t DEF GoTo, EventTypes
<1>1. CASE Disengage(T)
  BY <1>0, <1>1, <1>t DEF Disengage, EventTypes
<1>2. CASE EnterSoftDisable(T)
  BY <1>0, <1>2, <1>t DEF EnterSoftDisable, EventTypes
<1>3. CASE SoftDisabling(T)
  BY <1>0, <1>3, <1>t DEF SoftDisabling, EventTypes
<1>4. CASE FollowOverride(T)
  BY <1>0, <1>4, <1>t DEF FollowOverride, EventTypes, Overrides
<1>5. CASE PreEnabled(T)
  BY <1>0, <1>5, <1>t DEF PreEnabled, EventTypes
<1>6. CASE Disabled(T)
  BY <1>0, <1>6, <1>t DEF Disabled, EventTypes
<1> QED
  BY <1>1, <1>2, <1>3, <1>4, <1>5, <1>6 DEF SMUpdate

SMInv == SMTypeInvariant /\ WarningIsCounted

(* A frame of StateMachine.update keeps the type and the warning count.    *)
LEMMA SMInvStep == SMInv /\ [MCNext]_mcVars => SMInv'
<1> SUFFICES ASSUME SMInv, [MCNext]_mcVars PROVE SMInv'
  OBVIOUS
<1> USE SoftDisableAssumption DEF SMInv, SMTypeInvariant
<1>1. CASE MCNext
  <2>1. PICK T \in SUBSET EventTypes : SMFrame(T)
    BY <1>1 DEF MCNext
  <2>2. SMTypeOK'
    BY <2>1, SMUpdateType DEF SMFrame
  <2>3. soft_age' \in 0..SoftDisableFrames /\ WarningIsCounted'
    <3>1. CASE state = "softDisabling" /\ state' = "softDisabling"
      <4>1. SoftDisabling(T)
        BY <2>1, <3>1 DEF SMFrame, SMUpdate, Disengage, GoTo, EnterSoftDisable, FollowOverride,
                           PreEnabled, Disabled
      <4>2. soft_disable_timer' = TimerTick /\ TimerTick > 0
        BY <3>1, <4>1 DEF SoftDisabling, GoTo
      <4> QED
        BY <2>1, <3>1, <4>2 DEF SMFrame, TimerTick, WarningIsCounted, SMTypeOK
    <3>2. CASE state # "softDisabling" /\ state' = "softDisabling"
      <4>1. EnterSoftDisable(T)
        BY <2>1, <3>2 DEF SMFrame, SMUpdate, Disengage, GoTo, SoftDisabling, FollowOverride,
                           PreEnabled, Disabled
      <4> QED
        BY <2>1, <3>2, <4>1 DEF SMFrame, EnterSoftDisable, WarningIsCounted
    <3>3. CASE state' # "softDisabling"
      BY <2>1, <3>3 DEF SMFrame, WarningIsCounted
    <3> QED
      BY <3>1, <3>2, <3>3
  <2>4. tick' \in {0, 1}
    BY <2>1 DEF SMFrame
  <2> QED
    BY <2>2, <2>3, <2>4
<1>2. CASE UNCHANGED mcVars
  BY <1>2 DEF mcVars, smVars, SMTypeOK, WarningIsCounted
<1> QED
  BY <1>1, <1>2

(* In every reachable state the machine is in one of its five states, its  *)
(* timer is in range, and during a soft disable the timer and the frames   *)
(* already spent add up to the whole warning (state.py lines 17-98).       *)
THEOREM SMWarningCounted == MCSpec => [](SMTypeInvariant /\ WarningIsCounted)
<1>1. MCInit => SMInv
  BY SoftDisableAssumption
  DEF MCInit, SMInit, SMInv, SMTypeInvariant, SMTypeOK, States, EnabledStates, EventTypes,
      WarningIsCounted
<1>2. SMInv /\ [MCNext]_mcVars => SMInv'
  BY SMInvStep
<1> QED
  BY <1>1, <1>2, PTL DEF MCSpec, SMInv

(* The driver always gets the whole soft-disable warning: the silent step  *)
(* from softDisabling to disabled happens only SoftDisableFrames frames    *)
(* after the entry (state.py lines 51-59).                                 *)
THEOREM SMFullWarning == MCSpec => FullSoftDisableWarning
<1>1. SMInv /\ [MCNext]_mcVars
      => [ (/\ state = "softDisabling"
            /\ state' = "disabled"
            /\ current_alert_types' = {"permanent"})
           => soft_age = SoftDisableFrames - 1 ]_mcVars
  <2> SUFFICES ASSUME SMInv, MCNext, state = "softDisabling", state' = "disabled",
                      current_alert_types' = {"permanent"}
               PROVE  soft_age = SoftDisableFrames - 1
    BY DEF mcVars
  <2>1. PICK T \in SUBSET EventTypes : SMUpdate(T)
    BY DEF MCNext, SMFrame
  <2>2. ~Disengage(T)
    BY DEF Disengage, GoTo
  <2>3. SoftDisabling(T)
    BY <2>1, <2>2 DEF SMUpdate, EnterSoftDisable, FollowOverride, PreEnabled, Disabled
  <2>4. TimerTick = 0
    BY <2>3 DEF SoftDisabling, GoTo
  <2> QED
    BY <2>4, SoftDisableAssumption DEF SMInv, SMTypeInvariant, SMTypeOK, WarningIsCounted, TimerTick
<1>2. MCSpec => []SMInv
  BY SMWarningCounted, PTL DEF SMInv
<1> QED
  BY <1>1, <1>2, PTL DEF MCSpec, FullSoftDisableWarning

-----------------------------------------------------------------------------
(* What the frames hand over to each other: three modules keep the         *)
(* engagement of the frame before, each for itself, and agree on it;       *)
(* nobody steers before the start is over.                                 *)
FrameInv ==
  /\ state \in States /\ initialized \in BOOLEAN
  /\ mads_available \in BOOLEAN /\ disengage_on_brake \in BOOLEAN
  /\ mads_enabled \in BOOLEAN /\ mads_active \in BOOLEAN /\ lateral_only \in BOOLEAN
  /\ op_enabled_prev \in BOOLEAN /\ (op_enabled_prev <=> enabled)
  /\ en_prev \in BOOLEAN /\ (en_prev <=> enabled)
  /\ lat_prev \in BOOLEAN /\ (lat_prev <=> lateral_only)
  /\ brake_grace \in Nat /\ pending \in Nat /\ (enabled => pending = 0)
  /\ ~initialized => state = "disabled" /\ ~mads_enabled /\ ~lateral_only /\ brake_grace = 0
  /\ lateral_only => initialized

(* The two authorities: MADS mirrors openpilot while it is engaged, and    *)
(* steers alone only where it is not.                                      *)
AuthorityInv ==
  /\ lateral_only => mads_available /\ ~enabled /\ mads_active
  /\ mads_active => lateral_only \/ active
  /\ mads_available /\ active => mads_active
  /\ ~mads_available => brake_grace = 0
  /\ enabled => CS_prev.cruise_enabled

(* While an off request stands nothing is engaged, steers or waits.        *)
OffInv ==
  /\ off_left \in Nat
  /\ off_left > 0 => ~enabled /\ ~lateral_only /\ ~mads_active /\ brake_grace = 0

(* A disagreement that has reached the limit has ended the steering.       *)
MismatchInv ==
  /\ lateral_mismatch_counter \in Nat
  /\ lateral_mismatch_counter >= MismatchLimit => ~lateral_only

(* What a frame needs of the frames before it, without the histories.      *)
CoreInv == FrameInv /\ AuthorityInv /\ OffInv /\ MismatchInv

(* The frames an off request has stood and has left add up.                *)
HoldInv ==
  /\ off_for \in Nat
  /\ off_left > 0 => off_left + off_for = OffRequestHold + 2
  /\ off_left = 0 => off_for = 0

(* A loss of steering that was not heard is a disengage chime held back,   *)
(* and the frames for which it may still be add up.                        *)
ChimeInv ==
  /\ unheard \in Nat
  /\ unheard > 0 => /\ mads_available /\ ~enabled /\ ~lateral_only
                    /\ pending > 0 /\ pending + unheard = QuietGraceFrames + 3

DriveInv == CoreInv /\ HoldInv /\ ChimeInv

-----------------------------------------------------------------------------
(* What the table says of the events that engagement depends on.           *)
LEMMA EventTable ==
  /\ EVENTS["pcmEnable"] = {"enable"} /\ EVENTS["pcmDisable"] = {"userDisable"}
  /\ EVENTS["pedalPressed"] = {"userDisable", "noEntry"}
  /\ EVENTS["wrongCarMode"] = {"userDisable", "noEntry"}
  /\ EVENTS["canError"] = {"immediateDisable", "permanent", "noEntry"}
  /\ EVENTS["madsControlsMismatchLateral"] = {"immediateDisable", "permanent", "noEntry"}
  /\ EVENTS["cruiseOffRequested"] = {"noEntry"}
  /\ EVENTS["selfdriveInitializing"] = {"noEntry"}
  /\ EVENTS["madsLateralOnly"] = {"permanent"}
  /\ \A e \in EventNames : "enable" \in EVENTS[e] => e = "pcmEnable"
  /\ OtherEvents \subseteq EventNames
BY DEF EVENTS, EventNames, OtherEvents

(* The types of a frame's events are those of its events.                  *)
LEMMA TypesFacts ==
  ASSUME NEW E, NEW t
  PROVE  t \in TypesOf(E) <=> \E e \in E : t \in EVENTS[e]
BY DEF TypesOf

(* The events of a frame (update_events).                                  *)
LEMMA EventFacts ==
  ASSUME NEW CS \in CarState, NEW doa \in BOOLEAN, NEW other \in SUBSET OtherEvents,
         NEW E, E = update_events(CS, doa, other)
  PROVE  /\ E \subseteq EventNames
         /\ ~initialized' => E = {"selfdriveInitializing"}
         /\ "pcmEnable" \in E => CS.cruise_enabled
         /\ initialized' => /\ ~CS.cruise_enabled => "pcmDisable" \in E \/ "canError" \in E
                            /\ ~CS.cruise_available => "wrongCarMode" \in E \/ "canError" \in E
                            /\ off_left' > 0 => "cruiseOffRequested" \in E
                            /\ lateral_mismatch_counter' >= MismatchLimit
                                 => "madsControlsMismatchLateral" \in E
<1>1. \A b, e : If(b, e) = IF b THEN {e} ELSE {}
  BY DEF If
<1>2. CS.car_events \subseteq OtherEvents
  BY DEF CarState
<1>3. "pcmEnable" \notin OtherEvents /\ OtherEvents \subseteq EventNames
  BY EventTable DEF OtherEvents
<1>4. {"wrongCarMode", "preEnableStandstill", "gasPressedOverride", "pcmEnable", "pcmDisable",
       "pedalPressed", "cruiseOffRequested", "canError", "controlsMismatch",
       "madsControlsMismatchLateral", "usbError", "selfdriveInitializing"} \subseteq EventNames
  BY DEF EventNames, EVENTS
<1>5. CASE ~initialized'
  BY <1>4, <1>5 DEF update_events
<1>6. CASE initialized'
  <2> DEFINE C == car_events(CS, doa)
             M == mismatch_events
             F == If(off_left' > 0, "cruiseOffRequested")
             U == If(~pandaStates'.valid, "usbError")
  <2>1. E = other \union F \union (IF CS.canValid THEN C ELSE {"canError"}) \union M \union U
    BY <1>6 DEF update_events
  <2>2. /\ C \subseteq EventNames
        /\ "pcmEnable" \in C => CS.cruise_enabled
        /\ ~CS.cruise_enabled => "pcmDisable" \in C
        /\ ~CS.cruise_available => "wrongCarMode" \in C
    BY <1>2, <1>3, <1>4 DEF car_events, If
  <2>3. /\ M \subseteq EventNames \ {"pcmEnable"}
        /\ lateral_mismatch_counter' >= MismatchLimit => "madsControlsMismatchLateral" \in M
    BY <1>4 DEF mismatch_events, If
  <2>4. /\ F \subseteq EventNames \ {"pcmEnable"} /\ (off_left' > 0 => "cruiseOffRequested" \in F)
    BY <1>4 DEF If
  <2>5. U \subseteq EventNames \ {"pcmEnable"}
    BY <1>4 DEF If
  <2> HIDE DEF C, M, F, U
  <2> QED BY <1>3, <1>4, <1>6, <2>1, <2>2, <2>3, <2>4, <2>5
<1> QED BY <1>5, <1>6

(* Their types, which is what the state machine sees.                      *)
LEMMA TypeFacts ==
  ASSUME NEW CS \in CarState, NEW doa \in BOOLEAN, NEW other \in SUBSET OtherEvents,
         NEW E, E = update_events(CS, doa, other)
  PROVE  /\ "enable" \in TypesOf(E) => CS.cruise_enabled
         /\ ~initialized' => TypesOf(E) = {"noEntry"}
         /\ initialized' =>
              /\ ~CS.cruise_enabled =>
                   "userDisable" \in TypesOf(E) \/ "immediateDisable" \in TypesOf(E)
              /\ ~CS.cruise_available =>
                   /\ "userDisable" \in TypesOf(E) \/ "immediateDisable" \in TypesOf(E)
                   /\ "noEntry" \in TypesOf(E)
              /\ off_left' > 0 => "noEntry" \in TypesOf(E)
              /\ lateral_mismatch_counter' >= MismatchLimit =>
                   {"immediateDisable", "noEntry"} \subseteq TypesOf(E)
<1> USE EventFacts, EventTable
<1>1. "enable" \in TypesOf(E) => CS.cruise_enabled
  BY TypesFacts
<1>2. ~initialized' => TypesOf(E) = {"noEntry"}
  BY DEF TypesOf
<1>3. ASSUME initialized', ~CS.cruise_enabled
      PROVE  "userDisable" \in TypesOf(E) \/ "immediateDisable" \in TypesOf(E)
  BY <1>3, TypesFacts
<1>4. ASSUME initialized', ~CS.cruise_available
      PROVE  /\ "userDisable" \in TypesOf(E) \/ "immediateDisable" \in TypesOf(E)
             /\ "noEntry" \in TypesOf(E)
  BY <1>4, TypesFacts
<1>5. ASSUME initialized' PROVE off_left' > 0 => "noEntry" \in TypesOf(E)
  BY <1>5, TypesFacts
<1>6. ASSUME initialized', lateral_mismatch_counter' >= MismatchLimit
      PROVE  "immediateDisable" \in TypesOf(E) /\ "noEntry" \in TypesOf(E)
  BY <1>6, TypesFacts
<1> QED BY <1>1, <1>2, <1>3, <1>4, <1>5, <1>6

(* A frame of the state machine, as far as the rest depends on it.         *)
LEMMA MachineFacts ==
  ASSUME NEW T, state \in States, SMUpdate(T)
  PROVE  /\ state' \in States /\ "permanent" \in current_alert_types'
         /\ state = "disabled" /\ state' # "disabled" => "enable" \in T /\ "noEntry" \notin T
         /\ state # "disabled" /\ ("userDisable" \in T \/ "immediateDisable" \in T)
              => state' = "disabled"
         /\ state # "disabled" /\ state' = "disabled" =>
              \/ "immediateDisable" \in T /\ "immediateDisable" \in current_alert_types'
              \/ "userDisable" \in T /\ "userDisable" \in current_alert_types'
              \/ "softDisable" \in T /\ state = "softDisabling"
         /\ "userDisable" \in current_alert_types' => state # "disabled" /\ state' = "disabled"
<1> USE DEF GoTo, States, EnabledStates, ActiveStates
<1>1. CASE Disengage(T)
  BY <1>1 DEF Disengage
<1>2. CASE EnterSoftDisable(T)
  BY <1>2 DEF EnterSoftDisable, NoDisengage
<1>3. CASE SoftDisabling(T)
  BY <1>3 DEF SoftDisabling, NoDisengage
<1>4. CASE FollowOverride(T)
  BY <1>4 DEF FollowOverride, NoDisengage, Overrides
<1>5. CASE PreEnabled(T)
  BY <1>5 DEF PreEnabled, NoDisengage
<1>6. CASE Disabled(T)
  BY <1>6 DEF Disabled, Overrides
<1> QED BY <1>1, <1>2, <1>3, <1>4, <1>5, <1>6 DEF SMUpdate

(* The frame's input to MADS.                                              *)
InputOf(CS, updated, E, i) ==
  /\ i.op_enabled \in BOOLEAN /\ (i.op_enabled <=> enabled')
  /\ i.op_active \in BOOLEAN /\ (i.op_active <=> active')
  /\ i.braking \in BOOLEAN /\ (i.braking <=> CS.brakePressed \/ CS.regenBraking)
  /\ i.cruise_enabled = CS.cruise_enabled /\ CS.cruise_enabled \in BOOLEAN
  /\ i.cruise_available = CS.cruise_available /\ CS.cruise_available \in BOOLEAN
  /\ i.off_requested \in BOOLEAN /\ (i.off_requested <=> off_left' > 0)
  /\ i.events = E
  /\ i.panda_lat = IF updated /\ pandaStates'.valid
                   THEN panda_lateral_view(pandaStates'.pandas) ELSE "unknown"

(* The parts of a frame (step).                                            *)
LEMMA StepParts ==
  ASSUME NEW CS \in CarState, NEW updated \in BOOLEAN, NEW ps, NEW doa \in BOOLEAN,
         NEW other \in SUBSET OtherEvents, step(CS, updated, ps, doa, other)
  PROVE  \E E, i :
           /\ E = update_events(CS, doa, other)
           /\ IF initialized' THEN SMUpdate(TypesOf(E)) ELSE UNCHANGED smVars
           /\ InputOf(CS, updated, E, i) /\ MadsUpdate(i)
           /\ QuietStep(enabled', lateral_only', mads_available, brake_grace' > 0)
           /\ update_alerts(E)
<1>1. PICK E \in {update_events(CS, doa, other)} :
         /\ IF initialized' THEN \E T \in {TypesOf(E)} : SMUpdate(T) ELSE UNCHANGED smVars
         /\ \E i \in {[op_enabled |-> state' \in EnabledStates,
                       op_active |-> state' \in ActiveStates,
                       braking |-> CS.brakePressed \/ CS.regenBraking,
                       cruise_enabled |-> CS.cruise_enabled,
                       cruise_available |-> CS.cruise_available,
                       off_requested |-> off_left' > 0,
                       events |-> E,
                       panda_lat |-> IF updated /\ pandaStates'.valid
                                     THEN panda_lateral_view(pandaStates'.pandas)
                                     ELSE "unknown"]} : MadsUpdate(i)
         /\ QuietStep(state' \in EnabledStates, lateral_only', mads_available, brake_grace' > 0)
         /\ update_alerts(E)
  BY DEF step
<1>2. E = update_events(CS, doa, other)
  BY <1>1
<1>3. IF initialized' THEN SMUpdate(TypesOf(E)) ELSE UNCHANGED smVars
  <2> HIDE DEF SMUpdate
  <2> QED BY <1>1
<1>b. /\ (state' \in EnabledStates) \in BOOLEAN
      /\ (state' \in ActiveStates) \in BOOLEAN
      /\ (off_left' > 0) \in BOOLEAN
  BY SMT
<1>4. PICK q1 \in BOOLEAN : q1 = (state' \in EnabledStates)
  BY <1>b, Zenon
<1>5. PICK q2 \in BOOLEAN : q2 = (state' \in ActiveStates)
  BY <1>b, Zenon
<1>6. PICK q3 \in BOOLEAN : q3 = (CS.brakePressed \/ CS.regenBraking)
  OBVIOUS
<1>7. PICK q4 \in BOOLEAN : q4 = (off_left' > 0)
  BY <1>b, Zenon
<1>8. PICK v : v = IF updated /\ pandaStates'.valid
                   THEN panda_lateral_view(pandaStates'.pandas) ELSE "unknown"
  OBVIOUS
<1> DEFINE i == [op_enabled |-> q1, op_active |-> q2, braking |-> q3,
                 cruise_enabled |-> CS.cruise_enabled, cruise_available |-> CS.cruise_available,
                 off_requested |-> q4, events |-> E, panda_lat |-> v]
<1>9. MadsUpdate(i)
  BY <1>1, <1>4, <1>5, <1>6, <1>7, <1>8, Zenon
<1>10. CS.cruise_enabled \in BOOLEAN /\ CS.cruise_available \in BOOLEAN
  BY DEF CarState
<1>11. /\ i.op_enabled = q1 /\ i.op_active = q2 /\ i.braking = q3 /\ i.off_requested = q4
       /\ i.cruise_enabled = CS.cruise_enabled /\ i.cruise_available = CS.cruise_available
       /\ i.events = E /\ i.panda_lat = v
  OBVIOUS
<1> HIDE DEF i
<1>12. InputOf(CS, updated, E, i)
  BY <1>4, <1>5, <1>6, <1>7, <1>8, <1>10, <1>11, Zenon DEF InputOf, enabled, active
<1>13. QuietStep(enabled', lateral_only', mads_available, brake_grace' > 0)
  BY <1>1, Zenon DEF enabled
<1> QED BY <1>1, <1>2, <1>3, <1>9, <1>12, <1>13, Zenon

-----------------------------------------------------------------------------
(* At first nothing is engaged.                                            *)
LEMMA DriveInvInit == Init => DriveInv
<1> SUFFICES ASSUME Init PROVE DriveInv
  OBVIOUS
<1>1. mads_available \in BOOLEAN /\ disengage_on_brake \in BOOLEAN
  <2>1. PICK alt \in SUBSET AltExpBits :
          /\ mads_available = ("ENABLE_MADS" \in alt
                               /\ "MADS_PAUSE_LATERAL_ON_BRAKE" \notin alt)
          /\ disengage_on_brake = ("MADS_DISENGAGE_LATERAL_ON_BRAKE" \in alt)
    BY DEF Init, SdInit, MadsInit
  <2> QED BY <2>1
<1>2. /\ state = "disabled" /\ ~initialized /\ initialized \in BOOLEAN
      /\ mads_enabled = FALSE /\ mads_active = FALSE /\ lateral_only = FALSE
      /\ op_enabled_prev = FALSE /\ en_prev = FALSE /\ lat_prev = FALSE
      /\ brake_grace = 0 /\ off_left = 0 /\ off_for = 0 /\ pending = 0 /\ unheard = 0
      /\ lateral_mismatch_counter = 0
  BY DEF Init, SdInit, SMInit, MadsInit, QuietInit
<1>3. ~enabled /\ ~active /\ state \in States
  BY <1>2 DEF enabled, active, EnabledStates, ActiveStates, States
<1>4. FrameInv
  BY <1>1, <1>2, <1>3 DEF FrameInv
<1>5. AuthorityInv /\ OffInv /\ MismatchInv /\ HoldInv /\ ChimeInv
  BY <1>2, <1>3, SelfdrivedAssumption DEF AuthorityInv, OffInv, MismatchInv, HoldInv, ChimeInv
<1> QED BY <1>4, <1>5 DEF DriveInv, CoreInv

(* Engagement in a frame: it needs the stock cruise, ACC main and no off   *)
(* request, and a disagreement over lateral refuses it.                    *)
LEMMA EngagementFacts ==
  ASSUME CoreInv, NEW CS \in CarState, NEW updated \in BOOLEAN, NEW ps, NEW doa \in BOOLEAN,
         NEW other \in SUBSET OtherEvents, step(CS, updated, ps, doa, other)
  PROVE  /\ state' \in States /\ initialized' \in BOOLEAN /\ (initialized => initialized')
         /\ ~initialized' => state' = "disabled"
         /\ enabled' => initialized' /\ CS.cruise_enabled /\ CS.cruise_available /\ off_left' = 0
         /\ off_left' \in Nat /\ lateral_mismatch_counter' \in Nat
         /\ off_left' > 0 => ~enabled /\ (off_left = 0 => lateral_only)
         /\ lateral_mismatch_counter' >= MismatchLimit =>
              ~enabled /\ ~enabled' /\ lateral_only /\ initialized'
<1>1. PICK E, i :
        /\ E = update_events(CS, doa, other)
        /\ IF initialized' THEN SMUpdate(TypesOf(E)) ELSE UNCHANGED smVars
        /\ InputOf(CS, updated, E, i) /\ MadsUpdate(i)
        /\ QuietStep(enabled', lateral_only', mads_available, brake_grace' > 0)
        /\ update_alerts(E)
  BY StepParts
<1>2. /\ initialized \in BOOLEAN /\ initialized' \in BOOLEAN /\ (initialized => initialized')
      /\ state \in States
  <2>1. initialized \in BOOLEAN /\ state \in States
    BY DEF CoreInv, FrameInv
  <2>2. initialized' \in {initialized, TRUE}
    BY DEF step, data_sample
  <2> QED BY <2>1, <2>2, Zenon
<1>3. /\ off_left' \in Nat
      /\ off_left' > 0 => lateral_only \/ off_left > 0
  BY SelfdrivedAssumption DEF step, off_request, off_request_latches, CoreInv, OffInv
<1>4. off_left' > 0 => ~enabled /\ (off_left = 0 => lateral_only)
  BY <1>3 DEF CoreInv, OffInv, AuthorityInv
<1>5. /\ lateral_mismatch_counter' \in Nat
      /\ lateral_mismatch_counter' >= MismatchLimit => ~enabled /\ lateral_only
  BY SelfdrivedAssumption DEF step, data_sample, CoreInv, MismatchInv
<1>6. CASE ~initialized'
  <2>1. state' = "disabled" /\ ~enabled' /\ state' \in States
    BY <1>1, <1>2, <1>6 DEF CoreInv, FrameInv, smVars, enabled, States, EnabledStates, ActiveStates
  <2>2. ~lateral_only
    BY <1>2, <1>6 DEF CoreInv, FrameInv
  <2> QED BY <1>2, <1>3, <1>4, <1>5, <1>6, <2>1, <2>2, Zenon
<1>7. CASE initialized'
  <2> DEFINE T == TypesOf(E)
  <2>1. SMUpdate(T)
    BY <1>1, <1>7
  <2>2. /\ "enable" \in T => CS.cruise_enabled
        /\ ~CS.cruise_enabled => "userDisable" \in T \/ "immediateDisable" \in T
        /\ ~CS.cruise_available => ("userDisable" \in T \/ "immediateDisable" \in T) /\ "noEntry" \in T
        /\ off_left' > 0 => "noEntry" \in T
        /\ lateral_mismatch_counter' >= MismatchLimit => "immediateDisable" \in T /\ "noEntry" \in T
    BY <1>1, <1>7, TypeFacts
  <2> HIDE DEF T
  <2>3. /\ state' \in States
        /\ state = "disabled" /\ state' # "disabled" => "enable" \in T /\ "noEntry" \notin T
        /\ state # "disabled" /\ ("userDisable" \in T \/ "immediateDisable" \in T)
              => state' = "disabled"
    BY <1>2, <2>1, MachineFacts
  <2>4. (enabled <=> state # "disabled") /\ (enabled' <=> state' # "disabled")
    BY <1>2, <2>3 DEF enabled, States, EnabledStates, ActiveStates
  <2>5. enabled' => CS.cruise_enabled /\ CS.cruise_available
    BY <2>2, <2>3, <2>4
  <2>6. enabled' => off_left' = 0
    BY <1>3, <1>4, <2>2, <2>3, <2>4
  <2>7. lateral_mismatch_counter' >= MismatchLimit => ~enabled'
    BY <1>5, <2>2, <2>3, <2>4
  <2> QED BY <1>2, <1>3, <1>4, <1>5, <1>7, <2>3, <2>5, <2>6, <2>7
<1> QED BY <1>2, <1>6, <1>7, Zenon

(* A frame of MADS, as far as the rest depends on it: it mirrors an        *)
(* engagement, steers alone only with nothing in the way, and not at all   *)
(* under an off request.                                                   *)
LEMMA MadsFacts ==
  ASSUME FrameInv, NEW CS \in CarState, NEW updated, NEW E, NEW i,
         InputOf(CS, updated, E, i), MadsUpdate(i),
         enabled' => CS.cruise_available /\ off_left' = 0
  PROVE  /\ UNCHANGED <<mads_available, disengage_on_brake>>
         /\ mads_enabled' \in BOOLEAN /\ mads_active' \in BOOLEAN /\ lateral_only' \in BOOLEAN
         /\ op_enabled_prev' \in BOOLEAN /\ (op_enabled_prev' <=> enabled') /\ brake_grace' \in Nat
         /\ lateral_only' => mads_available /\ ~enabled' /\ mads_active' /\ ~has_blocking_event(E)
         /\ mads_active' => lateral_only' \/ active'
         /\ mads_available /\ active' => mads_active'
         /\ ~mads_available => brake_grace' = 0
         /\ brake_grace' > 0 => ~has_blocking_event(E)
         /\ off_left' > 0 => ~lateral_only' /\ ~mads_active' /\ brake_grace' = 0
         /\ ~enabled /\ ~enabled' /\ ~mads_enabled /\ brake_grace = 0 =>
              ~mads_enabled' /\ ~lateral_only' /\ brake_grace' = 0
<1>1. /\ i.op_enabled \in BOOLEAN /\ (i.op_enabled <=> enabled')
      /\ i.op_active \in BOOLEAN /\ (i.op_active <=> active')
      /\ i.braking \in BOOLEAN
      /\ i.off_requested \in BOOLEAN /\ (i.off_requested <=> off_left' > 0)
      /\ i.cruise_available = CS.cruise_available /\ i.events = E
  BY DEF InputOf
<1>2. /\ mads_available \in BOOLEAN /\ disengage_on_brake \in BOOLEAN /\ mads_enabled \in BOOLEAN
      /\ (op_enabled_prev <=> enabled) /\ brake_grace \in Nat
  BY DEF FrameInv
<1>3. /\ op_enabled_prev' = i.op_enabled
      /\ UNCHANGED <<mads_available, disengage_on_brake>>
  BY DEF MadsUpdate, madsConfig
<1>e. op_enabled_prev' \in BOOLEAN /\ (op_enabled_prev' <=> enabled')
  BY <1>1, <1>3, Zenon
<1>4. active' => enabled'
  BY DEF active, enabled, EnabledStates
<1>5. enabled' => (StoodDown(i) <=> ~mads_available)
  BY <1>1 DEF StoodDown
<1>6. (~mads_available \/ off_left' > 0) => StoodDown(i)
  BY <1>1 DEF StoodDown
<1> HIDE DEF InputOf, StoodDown, has_blocking_event, enabled, active, CruiseEngageEdge
<1> USE DEF Steer
<1>7. CASE StandDown(i)
  <2>1. mads_enabled' = FALSE /\ mads_active' = FALSE /\ lateral_only' = FALSE
    BY <1>7 DEF StandDown
  <2>2. brake_grace' = 0 /\ (enabled' => ~mads_available)
    BY <1>1, <1>5, <1>7 DEF StandDown
  <2>3. brake_grace' \in Nat /\ ~(brake_grace' > 0)
    BY <2>2
  <2> QED BY <1>3, <1>e, <1>4, <2>1, <2>2, <2>3, Zenon
<1>8. CASE MirrorEngagement(i)
  BY <1>1, <1>2, <1>3, <1>4, <1>5, <1>6, <1>8 DEF MirrorEngagement
<1>9. CASE FallingEdge(i)
  BY <1>1, <1>2, <1>3, <1>4, <1>5, <1>6, <1>9, GraceAssumption DEF FallingEdge
<1>10. CASE Revoke(i)
  <2>1. mads_enabled' = FALSE /\ mads_active' = FALSE /\ lateral_only' = FALSE
    BY <1>10 DEF Revoke
  <2>2. brake_grace' = 0 /\ (enabled' => ~mads_available)
    BY <1>1, <1>5, <1>10 DEF Revoke
  <2>3. brake_grace' \in Nat /\ ~(brake_grace' > 0)
    BY <2>2
  <2> QED BY <1>3, <1>e, <1>4, <2>1, <2>2, <2>3, Zenon
<1>11. CASE WaitForBrake(i)
  BY <1>1, <1>2, <1>3, <1>4, <1>5, <1>6, <1>11 DEF WaitForBrake, Undisturbed
<1>12. CASE Hold(i)
  BY <1>1, <1>2, <1>3, <1>4, <1>5, <1>6, <1>12 DEF Hold, Undisturbed
<1> QED BY <1>7, <1>8, <1>9, <1>10, <1>11, <1>12 DEF MadsUpdate

(* A frame of the chimes: a disengage is held back only while MADS steers  *)
(* or waits, and one that was held back is let out when the wait is over.  *)
LEMMA QuietFacts ==
  ASSUME FrameInv, lateral_only' \in BOOLEAN, brake_grace' \in Nat,
         QuietStep(enabled', lateral_only', mads_available, brake_grace' > 0)
  PROVE  /\ en_prev' \in BOOLEAN /\ (en_prev' <=> enabled')
         /\ lat_prev' \in BOOLEAN /\ (lat_prev' <=> lateral_only')
         /\ pending' \in Nat /\ (enabled' => pending' = 0)
         /\ ~mads_available => chime' = {}
         /\ enabled' \/ lateral_only' => "chime_disengage" \notin chime'
         /\ ~enabled => "quiet_disengage" \notin chime'
         /\ mads_available =>
              /\ enabled /\ ~enabled' /\ "quiet_disengage" \in chime' =>
                   lateral_only' \/ pending' = QuietGraceFrames + 2
              /\ enabled /\ ~enabled' /\ lateral_only' => "quiet_disengage" \in chime'
              /\ lateral_only /\ ~enabled /\ enabled' => "quiet_engage" \in chime'
              /\ ~enabled /\ ~enabled' /\ ~lateral_only' =>
                   /\ lateral_only \/ pending = 1 => "chime_disengage" \in chime'
                   /\ pending > 1 => pending' = pending - 1
<1>1. (enabled') \in BOOLEAN /\ (brake_grace' > 0) \in BOOLEAN
  BY SMT DEF enabled
<1>2. PICK q \in BOOLEAN : q = enabled'
  BY <1>1, Zenon
<1>3. PICK g \in BOOLEAN : g = (brake_grace' > 0)
  BY <1>1, Zenon
<1>4. QuietStep(q, lateral_only', mads_available, g)
  BY <1>2, <1>3, Zenon
<1>5. /\ en_prev \in BOOLEAN /\ lat_prev \in BOOLEAN /\ mads_available \in BOOLEAN
      /\ (en_prev <=> enabled) /\ (lat_prev <=> lateral_only) /\ pending \in Nat
      /\ enabled => pending = 0
  BY DEF FrameInv
<1>6. q <=> enabled'
  BY <1>2, Zenon
<1> HIDE DEF enabled
<1>7. en_prev' = q /\ lat_prev' = lateral_only'
  BY <1>4 DEF QuietStep
<1>8. /\ en_prev' \in BOOLEAN /\ (en_prev' <=> enabled')
      /\ lat_prev' \in BOOLEAN /\ (lat_prev' <=> lateral_only')
  BY <1>6, <1>7, Zenon
<1> USE DEF Decide
<1>9. CASE ~mads_available
  <2>1. chime' = {} /\ pending' = 0
    BY <1>4, <1>9 DEF QuietStep
  <2>2. pending' \in Nat
    BY <2>1
  <2> QED BY <1>8, <1>9, <2>1, <2>2, Zenon
<1>10. CASE mads_available /\ en_prev /\ ~q
  <2>1. DisengageEdge(lateral_only', g)
    BY <1>4, <1>5, <1>10 DEF QuietStep
  <2>2. \/ lateral_only' /\ chime' = {"quiet_disengage"} /\ pending' = 0
        \/ ~lateral_only' /\ chime' = {"quiet_disengage"} /\ pending' = QuietGraceFrames + 2
        \/ ~lateral_only' /\ chime' = {} /\ pending' = 0
    BY <2>1 DEF DisengageEdge
  <2>3. pending' \in Nat
    BY <2>2, QuietAssumption
  <2> QED BY <1>5, <1>6, <1>8, <1>10, <2>2, <2>3
<1>11. CASE mads_available /\ ~en_prev /\ q
  <2>1. chime' = (IF lat_prev THEN {"quiet_engage"} ELSE {}) /\ pending' = 0
    BY <1>4, <1>5, <1>11 DEF QuietStep
  <2> QED BY <1>5, <1>6, <1>8, <1>11, <2>1
<1>12. CASE mads_available /\ (en_prev <=> q)
  <2>1. NoEdge(q, lateral_only')
    BY <1>4, <1>5, <1>12 DEF QuietStep
  <2>2. /\ chime' = IF (pending = 1 /\ ~lateral_only') \/ (lat_prev /\ ~lateral_only' /\ ~q)
                    THEN {"chime_disengage"} ELSE {}
        /\ pending' = IF pending > 0 /\ ~lateral_only' THEN pending - 1 ELSE 0
    BY <2>1 DEF NoEdge
  <2>3. pending' \in Nat
    BY <1>5, <2>2
  <2> QED BY <1>5, <1>6, <1>8, <1>12, <2>2, <2>3
<1> QED BY <1>5, <1>9, <1>10, <1>11, <1>12

-----------------------------------------------------------------------------
(* The chime of an event and a type is held back (apply_chime_decision).   *)
Muted(e, t, c) ==
  \/ "quiet_disengage" \in c /\ t = "userDisable" /\ e \in QUIET_DISENGAGE_EVENTS
     /\ Sound(e, t) = "disengage"
  \/ "quiet_engage" \in c /\ t = "enable" /\ e \in QUIET_ENGAGE_EVENTS /\ Sound(e, t) = "engage"

(* What is heard in a frame.                                               *)
LEMMA HeardFacts ==
  ASSUME NEW F, NEW Y, NEW c, NEW s
  PROVE  s \in apply_chime_decision(create_alerts(F, Y), c) <=>
           \/ \E e \in F, t \in Y : t \in EVENTS[e] /\ s = Sound(e, t) /\ ~Muted(e, t, c)
           \/ "chime_disengage" \in c /\ s = "disengage"
<1> DEFINE Alert(e, t) == [event |-> e, type |-> t, sound |-> Sound(e, t)]
<1>1. \A e, t : /\ Alert(e, t).event = e /\ Alert(e, t).type = t
                /\ Alert(e, t).sound = Sound(e, t)
  OBVIOUS
<1>2. \A a : a \in create_alerts(F, Y) <=> \E e \in F, t \in Y : t \in EVENTS[e] /\ a = Alert(e, t)
  BY DEF create_alerts
<1> HIDE DEF Alert
<1>3. \A e, t : Silenced(Alert(e, t), c) <=> Muted(e, t, c)
  <2> SUFFICES ASSUME NEW e, NEW t PROVE Silenced(Alert(e, t), c) <=> Muted(e, t, c)
    OBVIOUS
  <2>1. Alert(e, t).event = e /\ Alert(e, t).type = t /\ Alert(e, t).sound = Sound(e, t)
    BY <1>1
  <2> HIDE DEF Sound
  <2> QED BY <2>1 DEF Silenced, Muted
<1>4. s \in apply_chime_decision(create_alerts(F, Y), c) <=>
        \/ \E a \in create_alerts(F, Y) : ~Silenced(a, c) /\ s = a.sound
        \/ "chime_disengage" \in c /\ s = "disengage"
  BY DEF apply_chime_decision
<1> HIDE DEF Silenced, Muted
<1> QED BY <1>1, <1>2, <1>3, <1>4

(* Which events and types have which sound.                                *)
LEMMA SoundTable ==
  /\ \A e, t : Sound(e, t) = "disengage" => t = "userDisable"
  /\ \A e, t : Sound(e, t) = "engage" => t = "enable"
  /\ \A e : Sound(e, "immediateDisable") = "warningImmediate" /\ Sound(e, "enable") = "engage"
  /\ \A e : Sound(e, "userDisable") \in {"disengage", "warningImmediate"}
  /\ Sound("madsControlsMismatchLateral", "permanent") = "warningImmediate"
  /\ \A e \in QUIET_DISENGAGE_EVENTS : Sound(e, "userDisable") = "disengage"
BY DEF Sound, QUIET_DISENGAGE_EVENTS

(* The sounds of a frame with the events E.                                *)
LEMMA FrameSounds ==
  ASSUME NEW E \in SUBSET EventNames, update_alerts(E)
  PROVE  /\ "disengage" \in sound' =>
              \/ "chime_disengage" \in chime'
              \/ /\ "userDisable" \in current_alert_types'
                 /\ \E e \in E : /\ "userDisable" \in EVENTS[e]
                                 /\ ~("quiet_disengage" \in chime' /\ e \in QUIET_DISENGAGE_EVENTS)
         /\ "chime_disengage" \in chime' => "disengage" \in sound'
         /\ "quiet_engage" \in chime' => "engage" \notin sound'
         /\ "immediateDisable" \in TypesOf(E) /\ "immediateDisable" \in current_alert_types'
              => "warningImmediate" \in sound'
         /\ "userDisable" \in TypesOf(E) /\ "userDisable" \in current_alert_types'
              => \/ "disengage" \in sound' \/ "warningImmediate" \in sound'
                 \/ "quiet_disengage" \in chime'
         /\ "madsControlsMismatchLateral" \in E /\ "permanent" \in current_alert_types'
              => "warningImmediate" \in sound'
<1> DEFINE F == E \union If(lateral_only', "madsLateralOnly")
           Y == current_alert_types' \union If(mads_active' /\ state' \notin ActiveStates, "warning")
           Heard(s) == \/ \E e \in F, t \in Y : t \in EVENTS[e] /\ s = Sound(e, t) /\ ~Muted(e, t, chime')
                       \/ "chime_disengage" \in chime' /\ s = "disengage"
<1>1. sound' = apply_chime_decision(create_alerts(F, Y), chime')
  BY DEF update_alerts
<1>2. PICK f, y, c : f = F /\ y = Y /\ c = chime'
  OBVIOUS
<1>3. /\ E \subseteq f /\ f \subseteq E \union {"madsLateralOnly"}
      /\ current_alert_types' \subseteq y /\ y \subseteq current_alert_types' \union {"warning"}
  BY <1>2 DEF If
<1>4. \A s : s \in sound' <=>
               \/ \E e \in f, t \in y : t \in EVENTS[e] /\ s = Sound(e, t) /\ ~Muted(e, t, c)
               \/ "chime_disengage" \in c /\ s = "disengage"
  BY <1>1, <1>2, HeardFacts
<1> HIDE DEF F, Y, Muted, Sound
<1>5. ASSUME "disengage" \in sound'
      PROVE  \/ "chime_disengage" \in chime'
             \/ /\ "userDisable" \in current_alert_types'
                /\ \E e \in E : /\ "userDisable" \in EVENTS[e]
                                /\ ~("quiet_disengage" \in chime' /\ e \in QUIET_DISENGAGE_EVENTS)
  <2>1. CASE "chime_disengage" \in c
    BY <1>2, <2>1
  <2>2. CASE "chime_disengage" \notin c
    <3>1. PICK e \in f, t \in y : t \in EVENTS[e] /\ "disengage" = Sound(e, t) /\ ~Muted(e, t, c)
      BY <1>4, <1>5, <2>2
    <3>2. t = "userDisable"
      BY <3>1, SoundTable
    <3>3. e \in E /\ "userDisable" \in current_alert_types'
      BY <1>3, <3>1, <3>2, EventTable
    <3>4. ~("quiet_disengage" \in c /\ e \in QUIET_DISENGAGE_EVENTS)
      BY <3>1, <3>2 DEF Muted
    <3> QED BY <1>2, <3>1, <3>2, <3>3, <3>4
  <2> QED BY <2>1, <2>2
<1>6. "chime_disengage" \in chime' => "disengage" \in sound'
  BY <1>2, <1>4
<1>7. ASSUME "quiet_engage" \in chime' PROVE "engage" \notin sound'
  <2> SUFFICES ASSUME "engage" \in sound' PROVE FALSE
    OBVIOUS
  <2>1. PICK e \in f, t \in y : t \in EVENTS[e] /\ "engage" = Sound(e, t) /\ ~Muted(e, t, c)
    BY <1>4
  <2>2. t = "enable"
    BY <2>1, SoundTable
  <2>3. e = "pcmEnable"
    BY <1>3, <2>1, <2>2, EventTable
  <2> QED BY <1>2, <1>7, <2>1, <2>2, <2>3 DEF Muted, QUIET_ENGAGE_EVENTS
<1>8. ASSUME "immediateDisable" \in TypesOf(E), "immediateDisable" \in current_alert_types'
      PROVE  "warningImmediate" \in sound'
  <2>1. PICK e \in E : "immediateDisable" \in EVENTS[e]
    BY <1>8, TypesFacts
  <2>2. ~Muted(e, "immediateDisable", c) /\ "warningImmediate" = Sound(e, "immediateDisable")
    BY SoundTable DEF Muted
  <2> QED BY <1>3, <1>4, <1>8, <2>1, <2>2
<1>9. ASSUME "userDisable" \in TypesOf(E), "userDisable" \in current_alert_types',
             "quiet_disengage" \notin chime'
      PROVE  "disengage" \in sound' \/ "warningImmediate" \in sound'
  <2>1. PICK e \in E : "userDisable" \in EVENTS[e]
    BY <1>9, TypesFacts
  <2>2. ~Muted(e, "userDisable", c)
    BY <1>2, <1>9 DEF Muted
  <2>3. Sound(e, "userDisable") \in sound'
    BY <1>3, <1>4, <1>9, <2>1, <2>2
  <2> QED BY <2>3, SoundTable
<1>10. ASSUME "madsControlsMismatchLateral" \in E, "permanent" \in current_alert_types'
       PROVE  "warningImmediate" \in sound'
  <2>1. ~Muted("madsControlsMismatchLateral", "permanent", c)
    BY DEF Muted
  <2> QED BY <1>3, <1>4, <1>10, <2>1, SoundTable, EventTable
<1> QED BY <1>5, <1>6, <1>7, <1>8, <1>9, <1>10

-----------------------------------------------------------------------------
(* An event that MADS does not tolerate and that disengages is blocking.   *)
LEMMA BlockingFacts ==
  ASSUME NEW E, NEW e \in E, NEW t \in LATERAL_DISABLE_TYPES, t \in EVENTS[e],
         ~has_blocking_event(E)
  PROVE  e \in QUIET_DISENGAGE_EVENTS
<1>1. t \notin TypesOf(E \ MADS_TOLERATED_EVENTS)
  BY DEF has_blocking_event
<1>2. e \notin E \ MADS_TOLERATED_EVENTS
  BY <1>1 DEF TypesOf
<1> QED BY <1>2 DEF MADS_TOLERATED_EVENTS, QUIET_DISENGAGE_EVENTS

(* What a frame promises of its sounds and of a lasting disagreement.      *)
Quiet == /\ lat_authorised' => "disengage" \notin sound'
         /\ lateral_only /\ enabled' => "engage" \notin sound'
Revokes == /\ lateral_mismatch_counter' >= MismatchLimit =>
                /\ ~enabled /\ ~enabled' /\ ~lateral_only'
                /\ "warningImmediate" \in sound'
           /\ lateral_mismatch_counter >= MismatchLimit => lateral_mismatch_counter' = 0

(* One frame, whatever it is given.                                        *)
LEMMA FrameKeeps ==
  ASSUME CoreInv, NEW CS \in CarState, NEW updated \in BOOLEAN, NEW ps, NEW doa \in BOOLEAN,
         NEW other \in SUBSET OtherEvents, step(CS, updated, ps, doa, other)
  PROVE  /\ CoreInv' /\ Quiet /\ Revokes
         /\ HoldInv /\ ChimeInv /\ History(CS) => HoldInv' /\ ChimeInv'
<1>1. step(CS, updated, ps, doa, other)
  OBVIOUS
<1>2. PICK E, i :
        /\ E = update_events(CS, doa, other)
        /\ IF initialized' THEN SMUpdate(TypesOf(E)) ELSE UNCHANGED smVars
        /\ InputOf(CS, updated, E, i) /\ MadsUpdate(i)
        /\ QuietStep(enabled', lateral_only', mads_available, brake_grace' > 0)
        /\ update_alerts(E)
  BY <1>1, StepParts
<1>3. /\ state' \in States /\ initialized' \in BOOLEAN /\ (initialized => initialized')
      /\ ~initialized' => state' = "disabled"
      /\ enabled' => initialized' /\ CS.cruise_enabled /\ CS.cruise_available /\ off_left' = 0
      /\ off_left' \in Nat /\ lateral_mismatch_counter' \in Nat
      /\ off_left' > 0 => ~enabled /\ (off_left = 0 => lateral_only)
      /\ lateral_mismatch_counter' >= MismatchLimit =>
           ~enabled /\ ~enabled' /\ lateral_only /\ initialized'
  BY <1>1, EngagementFacts
<1>4. /\ UNCHANGED <<mads_available, disengage_on_brake>>
      /\ mads_enabled' \in BOOLEAN /\ mads_active' \in BOOLEAN /\ lateral_only' \in BOOLEAN
      /\ op_enabled_prev' \in BOOLEAN /\ (op_enabled_prev' <=> enabled') /\ brake_grace' \in Nat
      /\ lateral_only' => mads_available /\ ~enabled' /\ mads_active' /\ ~has_blocking_event(E)
      /\ mads_active' => lateral_only' \/ active'
      /\ mads_available /\ active' => mads_active'
      /\ ~mads_available => brake_grace' = 0
      /\ brake_grace' > 0 => ~has_blocking_event(E)
      /\ off_left' > 0 => ~lateral_only' /\ ~mads_active' /\ brake_grace' = 0
      /\ ~enabled /\ ~enabled' /\ ~mads_enabled /\ brake_grace = 0 =>
           ~mads_enabled' /\ ~lateral_only' /\ brake_grace' = 0
  BY <1>2, <1>3, MadsFacts DEF CoreInv
<1>5. /\ en_prev' \in BOOLEAN /\ (en_prev' <=> enabled')
      /\ lat_prev' \in BOOLEAN /\ (lat_prev' <=> lateral_only')
      /\ pending' \in Nat /\ (enabled' => pending' = 0)
      /\ ~mads_available => chime' = {}
      /\ enabled' \/ lateral_only' => "chime_disengage" \notin chime'
      /\ ~enabled => "quiet_disengage" \notin chime'
      /\ mads_available =>
           /\ enabled /\ ~enabled' /\ "quiet_disengage" \in chime' =>
                lateral_only' \/ pending' = QuietGraceFrames + 2
           /\ enabled /\ ~enabled' /\ lateral_only' => "quiet_disengage" \in chime'
           /\ lateral_only /\ ~enabled /\ enabled' => "quiet_engage" \in chime'
           /\ ~enabled /\ ~enabled' /\ ~lateral_only' =>
                /\ lateral_only \/ pending = 1 => "chime_disengage" \in chime'
                /\ pending > 1 => pending' = pending - 1
  BY <1>2, <1>4, QuietFacts DEF CoreInv
<1>6. E \in SUBSET EventNames /\ (~initialized' => TypesOf(E) = {"noEntry"})
  BY <1>2, EventFacts, TypeFacts
<1>7. /\ "disengage" \in sound' =>
           \/ "chime_disengage" \in chime'
           \/ /\ "userDisable" \in current_alert_types'
              /\ \E e \in E : /\ "userDisable" \in EVENTS[e]
                              /\ ~("quiet_disengage" \in chime' /\ e \in QUIET_DISENGAGE_EVENTS)
      /\ "chime_disengage" \in chime' => "disengage" \in sound'
      /\ "quiet_engage" \in chime' => "engage" \notin sound'
      /\ "immediateDisable" \in TypesOf(E) /\ "immediateDisable" \in current_alert_types'
           => "warningImmediate" \in sound'
      /\ "userDisable" \in TypesOf(E) /\ "userDisable" \in current_alert_types'
           => \/ "disengage" \in sound' \/ "warningImmediate" \in sound'
              \/ "quiet_disengage" \in chime'
      /\ "madsControlsMismatchLateral" \in E /\ "permanent" \in current_alert_types'
           => "warningImmediate" \in sound'
  BY <1>2, <1>6, FrameSounds
<1>8. initialized' =>
        /\ "permanent" \in current_alert_types'
        /\ enabled /\ ~enabled' =>
             \/ "immediateDisable" \in TypesOf(E) /\ "immediateDisable" \in current_alert_types'
             \/ "userDisable" \in TypesOf(E) /\ "userDisable" \in current_alert_types'
             \/ state = "softDisabling"
        /\ "userDisable" \in current_alert_types' => enabled /\ ~enabled'
        /\ lateral_mismatch_counter' >= MismatchLimit => "madsControlsMismatchLateral" \in E
  <2> SUFFICES ASSUME initialized'
               PROVE  /\ "permanent" \in current_alert_types'
                      /\ enabled /\ ~enabled' =>
                           \/ /\ "immediateDisable" \in TypesOf(E)
                              /\ "immediateDisable" \in current_alert_types'
                           \/ "userDisable" \in TypesOf(E) /\ "userDisable" \in current_alert_types'
                           \/ state = "softDisabling"
                      /\ "userDisable" \in current_alert_types' => enabled /\ ~enabled'
                      /\ lateral_mismatch_counter' >= MismatchLimit
                           => "madsControlsMismatchLateral" \in E
    OBVIOUS
  <2>1. state \in States /\ SMUpdate(TypesOf(E))
    BY <1>2 DEF CoreInv, FrameInv
  <2>2. (enabled <=> state # "disabled") /\ (enabled' <=> state' # "disabled")
    BY <1>3, <2>1 DEF enabled, States, EnabledStates, ActiveStates
  <2>3. lateral_mismatch_counter' >= MismatchLimit => "madsControlsMismatchLateral" \in E
    BY <1>2, EventFacts
  <2> QED BY <2>1, <2>2, <2>3, MachineFacts
<1>9. FrameInv'
  <2>1. ~initialized' => ~mads_enabled' /\ ~lateral_only' /\ brake_grace' = 0
    BY <1>3, <1>4 DEF CoreInv, FrameInv, enabled, EnabledStates, ActiveStates
  <2>2. mads_available' \in BOOLEAN /\ disengage_on_brake' \in BOOLEAN
    BY <1>4 DEF CoreInv, FrameInv
  <2> QED BY <1>3, <1>4, <1>5, <2>1, <2>2, Zenon DEF FrameInv
<1>10. AuthorityInv'
  <2>1. CS_prev'.cruise_enabled = CS.cruise_enabled
    BY <1>1 DEF step, Remembered
  <2> QED BY <1>3, <1>4, <2>1 DEF AuthorityInv
<1>11. OffInv'
  BY <1>3, <1>4 DEF OffInv
<1>12. Revokes /\ MismatchInv'
  <2>1. ASSUME lateral_mismatch_counter' >= MismatchLimit PROVE ~lateral_only'
    <3>1. "madsControlsMismatchLateral" \in E
      BY <1>3, <1>8, <2>1
    <3>2. "immediateDisable" \in EVENTS["madsControlsMismatchLateral"]
      BY EventTable
    <3>3. has_blocking_event(E)
      BY <3>1, <3>2, BlockingFacts DEF LATERAL_DISABLE_TYPES, QUIET_DISENGAGE_EVENTS
    <3> QED BY <1>4, <3>3
  <2>2. lateral_mismatch_counter >= MismatchLimit => lateral_mismatch_counter' = 0
    BY <1>1 DEF step, data_sample, CoreInv, MismatchInv
  <2>3. lateral_mismatch_counter' >= MismatchLimit => "warningImmediate" \in sound'
    BY <1>3, <1>7, <1>8
  <2> QED BY <1>3, <2>1, <2>2, <2>3 DEF Revokes, MismatchInv
<1>13. /\ (active => enabled) /\ (active' => enabled')
       /\ mads_available => (lat_authorised <=> mads_active) /\ (lat_authorised' <=> mads_active')
       /\ ~mads_available => (lat_authorised <=> active) /\ (lat_authorised' <=> active')
  BY <1>4 DEF lat_authorised, active, enabled, EnabledStates
<1>14. Quiet
  <2>1. ASSUME lat_authorised', "disengage" \in sound' PROVE FALSE
    <3>1. enabled' \/ lateral_only'
      BY <1>4, <1>13, <2>1
    <3>2. "chime_disengage" \notin chime'
      BY <1>5, <3>1
    <3>3. PICK e \in E : /\ "userDisable" \in EVENTS[e]
                         /\ ~("quiet_disengage" \in chime' /\ e \in QUIET_DISENGAGE_EVENTS)
      BY <1>7, <2>1, <3>2
    <3>4. "userDisable" \in current_alert_types'
      BY <1>7, <2>1, <3>2
    <3>5. initialized'
      <4>1. "userDisable" \in TypesOf(E)
        BY <3>3, TypesFacts
      <4>2. "userDisable" \notin {"noEntry"}
        OBVIOUS
      <4> QED BY <1>6, <4>1, <4>2, Zenon
    <3>6. enabled /\ ~enabled'
      BY <1>8, <3>4, <3>5
    <3>7. "quiet_disengage" \in chime' /\ ~has_blocking_event(E)
      BY <1>4, <1>5, <3>1, <3>6
    <3>8. e \in QUIET_DISENGAGE_EVENTS
      BY <3>3, <3>7, BlockingFacts DEF LATERAL_DISABLE_TYPES
    <3> QED BY <3>3, <3>7, <3>8
  <2>2. lateral_only /\ enabled' => "engage" \notin sound'
    BY <1>5, <1>7 DEF CoreInv, AuthorityInv
  <2> QED BY <2>1, <2>2 DEF Quiet
<1>15. ASSUME HoldInv, History(CS) PROVE HoldInv'
  <2>1. /\ off_left \in Nat /\ off_for \in Nat /\ (off_left = 0 => off_for = 0)
        /\ off_left > 0 => ~lateral_only /\ off_left + off_for = OffRequestHold + 2
    BY <1>15 DEF CoreInv, OffInv, HoldInv
  <2>2. off_for' = IF off_left' = 0 THEN 0
                   ELSE IF off_for > OffRequestHold + 1 THEN off_for ELSE off_for + 1
    BY <1>15 DEF History
  <2>3. \/ off_left' = 0
        \/ off_left' = OffRequestHold + 1 /\ lateral_only
        \/ off_left > 0 /\ off_left' = off_left - 1
    BY <1>1, <2>1 DEF step, off_request, off_request_latches
  <2>4. OffRequestHold \in Nat
    BY SelfdrivedAssumption
  <2>5. CASE off_left' = 0
    BY <2>2, <2>5 DEF HoldInv
  <2>6. CASE off_left' = OffRequestHold + 1 /\ lateral_only
    <3>1. off_left = 0 /\ off_for = 0
      BY <2>1, <2>6
    <3>2. off_for' = 1
      BY <2>2, <2>4, <2>6, <3>1
    <3> QED BY <2>4, <2>6, <3>2 DEF HoldInv
  <2>7. CASE off_left > 0 /\ off_left' = off_left - 1 /\ off_left' # 0
    <3>1. off_for' = off_for + 1
      BY <2>1, <2>2, <2>4, <2>7
    <3> QED BY <2>1, <2>4, <2>7, <3>1 DEF HoldInv
  <2> QED BY <2>3, <2>5, <2>6, <2>7
<1>16. ASSUME ChimeInv, History(CS) PROVE ChimeInv'
  <2>1. /\ pending \in Nat /\ unheard \in Nat
        /\ unheard > 0 => /\ mads_available /\ ~enabled /\ ~lateral_only
                          /\ pending > 0 /\ pending + unheard = QuietGraceFrames + 3
    BY <1>16 DEF CoreInv, FrameInv, ChimeInv
  <2>2. unheard' =
          IF lat_authorised' \/ enabled' \/ sound' \intersect LossSounds # {} THEN 0
          ELSE IF lat_authorised /\ state # "softDisabling" THEN 1
          ELSE IF unheard \in 1..(UnheardMax - 1) THEN unheard + 1
          ELSE unheard
    BY <1>16 DEF History
  <2>3. CASE lat_authorised' \/ enabled' \/ sound' \intersect LossSounds # {}
    <3>1. unheard' = 0
      BY <2>2, <2>3
    <3> QED BY <1>5, <3>1 DEF ChimeInv
  <2>4. CASE ~(lat_authorised' \/ enabled' \/ sound' \intersect LossSounds # {})
    <3>1. /\ ~lat_authorised' /\ ~enabled' /\ ~lateral_only'
          /\ "disengage" \notin sound' /\ "warningImmediate" \notin sound'
      BY <1>4, <1>13, <2>4 DEF LossSounds
    <3>2. CASE lat_authorised /\ state # "softDisabling"
      <4>1. enabled \/ lateral_only
        BY <1>13, <3>2 DEF CoreInv, AuthorityInv
      <4>2. ~lateral_only \/ enabled
        BY <1>5, <1>7, <3>1 DEF CoreInv, AuthorityInv
      <4>3. enabled /\ initialized'
        BY <1>3, <4>1, <4>2 DEF CoreInv, FrameInv, enabled, EnabledStates, ActiveStates
      <4>4. "quiet_disengage" \in chime'
        BY <1>7, <1>8, <3>1, <3>2, <4>3
      <4>5. mads_available /\ pending' = QuietGraceFrames + 2
        BY <1>5, <3>1, <4>3, <4>4 DEF CoreInv, FrameInv
      <4>6. unheard' = 1
        BY <2>2, <2>4, <3>2
      <4> QED BY <1>4, <1>5, <3>1, <4>5, <4>6, QuietAssumption DEF ChimeInv
    <3>3. CASE ~(lat_authorised /\ state # "softDisabling") /\ unheard > 0
      <4>1. pending > 1
        BY <1>5, <1>7, <2>1, <3>1, <3>3
      <4>2. pending' = pending - 1
        BY <1>5, <2>1, <3>1, <3>3, <4>1
      <4>3. unheard \in 1..(UnheardMax - 1)
        BY <2>1, <3>3, QuietAssumption DEF UnheardMax
      <4>4. unheard' = unheard + 1
        BY <2>2, <2>4, <3>3, <4>3
      <4> QED BY <1>4, <1>5, <2>1, <3>1, <3>3, <4>1, <4>2, <4>4, QuietAssumption DEF ChimeInv
    <3>4. CASE ~(lat_authorised /\ state # "softDisabling") /\ unheard = 0
      <4>1. unheard' = 0
        BY <2>2, <2>4, <3>4
      <4> QED BY <1>5, <4>1 DEF ChimeInv
    <3> QED BY <2>1, <3>2, <3>3, <3>4
  <2> QED BY <2>3, <2>4
<1> QED BY <1>9, <1>10, <1>11, <1>12, <1>14, <1>15, <1>16 DEF CoreInv

(* The same, for a frame of the run with its histories.                    *)
LEMMA FrameStep ==
  ASSUME DriveInv, NEW CS \in CarState, NEW updated \in BOOLEAN, NEW ps, NEW doa \in BOOLEAN,
         NEW other \in SUBSET OtherEvents, Frame(CS, updated, ps, doa, other)
  PROVE  DriveInv' /\ Quiet /\ Revokes
BY FrameKeeps DEF DriveInv, Frame

(* Every step of the specification is a frame on some input.               *)
LEMMA DriveInvNext == ASSUME DriveInv, Next PROVE DriveInv' /\ Quiet /\ Revokes
<1>1. PICK CS \in CarStates, other \in SystemEvents : \E doa \in Doa(CS) :
        \/ Frame(CS, FALSE, pandaStates, doa, other)
        \/ \E ps \in PandaSamples : Frame(CS, TRUE, ps, doa, other)
  BY DEF Next
<1>2. PICK doa \in Doa(CS) : \/ Frame(CS, FALSE, pandaStates, doa, other)
                             \/ \E ps \in PandaSamples : Frame(CS, TRUE, ps, doa, other)
  BY <1>1
<1>3. CS \in CarState /\ other \in SUBSET OtherEvents /\ doa \in BOOLEAN
  BY SelfdrivedAssumption, DisengageOnAcceleratorAssumption DEF Doa
<1>4. CASE Frame(CS, FALSE, pandaStates, doa, other)
  <2>1. PICK p : p = pandaStates
    OBVIOUS
  <2>2. Frame(CS, FALSE, p, doa, other)
    BY <1>4, <2>1, Zenon
  <2> QED BY <1>3, <2>2, FrameStep
<1>5. CASE \E ps \in PandaSamples : Frame(CS, TRUE, ps, doa, other)
  <2>1. PICK ps \in PandaSamples : Frame(CS, TRUE, ps, doa, other)
    BY <1>5
  <2> QED BY <1>3, <2>1, FrameStep
<1> QED BY <1>2, <1>4, <1>5

(* A step that changes nothing.                                            *)
LEMMA DriveStutter == ASSUME DriveInv, UNCHANGED vars PROVE DriveInv'
<1> USE DEF vars, frameVars, smVars, madsVars, madsConfig, quietVars, sdVars, histVars
<1>1. FrameInv' /\ AuthorityInv'
  BY DEF DriveInv, CoreInv, FrameInv, AuthorityInv, enabled, active
<1>2. OffInv' /\ MismatchInv' /\ HoldInv' /\ ChimeInv'
  BY DEF DriveInv, CoreInv, OffInv, MismatchInv, HoldInv, ChimeInv, enabled
<1> QED BY <1>1, <1>2 DEF DriveInv, CoreInv

(* The invariant holds throughout.                                         *)
LEMMA DriveInvHolds == Spec => []DriveInv
<1>1. DriveInv /\ [Next]_vars => DriveInv'
  BY DriveInvNext, DriveStutter
<1> QED BY <1>1, DriveInvInit, PTL DEF Spec

(* Every loss of steering is heard within QuietGraceFrames + 2 frames: the *)
(* chime that MadsQuiet held back on a guess cannot be forgotten           *)
(* (NoSilentLoss).                                                         *)
THEOREM LossIsHeard == Spec => []NoSilentLoss
<1>1. DriveInv => NoSilentLoss
  BY QuietAssumption DEF DriveInv, CoreInv, FrameInv, ChimeInv, NoSilentLoss
<1> QED BY <1>1, DriveInvHolds, PTL

(* While the driver's off request stands nothing is engaged, nothing       *)
(* steers and nothing waits to steer (OffMeansOff).                        *)
THEOREM OffIsOff == Spec => []OffMeansOff
<1>1. DriveInv => OffMeansOff
  BY DEF DriveInv, CoreInv, FrameInv, OffInv, OffMeansOff, lat_authorised, brake_grace_open,
         active, enabled, EnabledStates
<1> QED BY <1>1, DriveInvHolds, PTL

(* An off request stands for OffRequestHold + 1 frames at most: it cannot  *)
(* be latched anew while it stands (OffRequestEnds).                       *)
THEOREM OffAlwaysEnds == Spec => []OffRequestEnds
<1>1. DriveInv => OffRequestEnds
  BY SelfdrivedAssumption DEF DriveInv, CoreInv, OffInv, HoldInv, OffRequestEnds
<1> QED BY <1>1, DriveInvHolds, PTL

(* controlsd's lat_authorised is the stock answer and steering-only beside *)
(* it, and nothing is engaged without the stock cruise (SupersetOfStock).  *)
THEOREM StockIsKept == Spec => []SupersetOfStock
<1>1. DriveInv => SupersetOfStock
  BY DEF DriveInv, CoreInv, FrameInv, AuthorityInv, SupersetOfStock, lat_authorised
<1> QED BY <1>1, DriveInvHolds, PTL

(* No disengage chime in a frame in which openpilot steers, and no engage  *)
(* chime on coming back from steering alone (QuietWhileSteering).          *)
THEOREM SteeringIsQuiet == Spec => QuietWhileSteering
<1>1. DriveInv /\ [Next]_vars => [Quiet]_vars
  BY DriveInvNext
<1> QED BY <1>1, DriveInvHolds, PTL DEF Spec, QuietWhileSteering, Quiet

(* A lasting disagreement with the panda over lateral revokes the steering *)
(* in one frame, is heard, and is over (LateralMismatchRevokes).           *)
THEOREM MismatchRevokes == Spec => LateralMismatchRevokes
<1>1. DriveInv /\ [Next]_vars => [Revokes]_vars
  BY DriveInvNext
<1> QED BY <1>1, DriveInvHolds, PTL DEF Spec, LateralMismatchRevokes, Revokes
=============================================================================
