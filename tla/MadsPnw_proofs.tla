--------------------------- MODULE MadsPnw_proofs ---------------------------
(***************************************************************************)
(* Proofs about the parallel lateral authority, for every length of its    *)
(* two windows and whatever sets of events the frames carry.               *)
(***************************************************************************)
EXTENDS MCMadsPnw, TLAPS

(* While openpilot is engaged the history is at its start.                 *)
EngagedHistory ==
  op_enabled_prev => /\ since_edge = 0
                     /\ brake_at = Never
                     /\ ~panda_ok
                     /\ ~stood_down
                     /\ ~lateral_only

(* While openpilot is disengaged MADS is enabled exactly when it steers.   *)
EnabledIsSteering == ~op_enabled_prev => mads_enabled = lateral_only

(* An open window counts the frames since the edge and remembers the brake. *)
WindowRemembers ==
  brake_grace_open => /\ mads_available /\ ~disengage_on_brake
                      /\ grace_elapsed = since_edge
                      /\ grace_brake_seen <=> brake_at # Never

(* The brake is never dated after the present.                             *)
BrakeIsPast == brake_at = Never \/ brake_at <= since_edge

(* Nothing but the window's length closes it: undisturbed and not steering, *)
(* MADS still waits.                                                       *)
StillWaiting ==
  ( /\ ~op_enabled_prev /\ ~stood_down /\ ~lateral_only
    /\ mads_available /\ ~disengage_on_brake
    /\ since_edge < PandaGraceFrames ) => brake_grace_open

MadsInv ==
  /\ TypeOK
  /\ LateralHasCause
  /\ NoReturnAfterStandDown
  /\ BrakeKeepsSteering
  /\ WindowIsBounded
  /\ EngagedHistory
  /\ EnabledIsSteering
  /\ WindowRemembers
  /\ BrakeIsPast
  /\ StillWaiting

-----------------------------------------------------------------------------
(* The history's "never" lies beyond both windows.                         *)
LEMMA NeverNat == /\ Never \in Nat /\ Never = PandaGraceFrames + 1
                  /\ BrakeGraceFrames < Never
BY GraceAssumption DEF Never

(* What MadsPnw.__init__ sets up satisfies the invariant.                  *)
LEMMA MadsInvInit == Init => MadsInv
<1> SUFFICES ASSUME Init PROVE MadsInv
  OBVIOUS
<1> USE DEF Init, MadsInit
<1>1. /\ mads_available \in BOOLEAN /\ disengage_on_brake \in BOOLEAN
      /\ mads_enabled \in BOOLEAN /\ mads_active \in BOOLEAN
      /\ lateral_only \in BOOLEAN /\ op_enabled_prev \in BOOLEAN
      /\ cruise_enabled_prev \in BOOLEAN /\ grace_brake_seen \in BOOLEAN
      /\ panda_ok \in BOOLEAN /\ stood_down \in BOOLEAN
  <2>1. PICK alt \in SUBSET AltExpBits :
          /\ mads_available = ("ENABLE_MADS" \in alt
                               /\ "MADS_PAUSE_LATERAL_ON_BRAKE" \notin alt)
          /\ disengage_on_brake = ("MADS_DISENGAGE_LATERAL_ON_BRAKE" \in alt)
    BY Zenon
  <2>2. mads_available \in BOOLEAN /\ disengage_on_brake \in BOOLEAN
    BY <2>1
  <2> QED
    BY <2>2, Zenon
<1>2. /\ brake_grace \in 0..PandaGraceFrames /\ grace_elapsed \in 0..PandaGraceFrames
      /\ since_edge \in 0..Never /\ brake_at \in 0..Never
      /\ ~brake_grace_open
  BY GraceAssumption, NeverNat DEF brake_grace_open
<1>3. ~lateral_only /\ ~op_enabled_prev /\ ~mads_enabled /\ stood_down
  BY Zenon
<1>4. ~(since_edge < PandaGraceFrames) /\ brake_at = Never
  BY GraceAssumption, NeverNat
<1> QED
  BY <1>1, <1>2, <1>3, <1>4, Zenon
   DEF MadsInv, TypeOK, MadsTypeOK, LateralHasCause,
       NoReturnAfterStandDown, BrakeKeepsSteering, WindowIsBounded, EngagedHistory,
       EnabledIsSteering, WindowRemembers, BrakeIsPast, StillWaiting

(* The history keeps its type in every frame.                              *)
LEMMA HistoryType ==
  ASSUME TypeOK, NEW i \in Inputs, History(i)
  PROVE  /\ since_edge' \in 0..Never
         /\ brake_at' \in 0..Never
         /\ panda_ok' \in BOOLEAN
         /\ stood_down' \in BOOLEAN
<1>1. CASE i.op_enabled
  <2>1. since_edge' = 0 /\ brake_at' = Never /\ panda_ok' = FALSE /\ stood_down' = FALSE
    BY <1>1 DEF History
  <2>2. since_edge' \in 0..Never /\ brake_at' \in 0..Never
    BY <2>1, NeverNat
  <2> QED
    BY <2>1, <2>2
<1>2. CASE ~i.op_enabled
  <2>1. since_edge' \in 0..Never
    BY <1>2, NeverNat DEF History, TypeOK
  <2>2. brake_at' \in 0..Never
    BY <1>2, <2>1, NeverNat DEF History, TypeOK
  <2>3. panda_ok' \in BOOLEAN /\ stood_down' \in BOOLEAN
    BY <1>2, Zenon DEF History
  <2> QED
    BY <2>1, <2>2, <2>3
<1> QED
  BY <1>1, <1>2

(* A frame in which openpilot is engaged starts everything over.           *)
LEMMA EngagedStep ==
  ASSUME MadsInv, NEW i \in Inputs, Frame(i), i.op_enabled
  PROVE  MadsInv'
<1>1. StandDown(i) \/ MirrorEngagement(i)
  BY DEF Frame, MadsUpdate, FallingEdge, Revoke, WaitForBrake, Hold, Undisturbed
<1>2. /\ brake_grace' = 0
      /\ lateral_only' = FALSE
      /\ mads_enabled' \in BOOLEAN
      /\ mads_active' \in BOOLEAN
      /\ UNCHANGED <<grace_elapsed, grace_brake_seen>>
  BY <1>1 DEF StandDown, MirrorEngagement, Steer, Inputs
<1>3. /\ op_enabled_prev' = TRUE
      /\ cruise_enabled_prev' \in BOOLEAN
      /\ UNCHANGED <<mads_available, disengage_on_brake>>
  BY DEF Frame, MadsUpdate, madsConfig, Inputs
<1>4. since_edge' = 0 /\ brake_at' = Never /\ panda_ok' = FALSE /\ stood_down' = FALSE
  BY DEF Frame, History
<1>5. TypeOK'
  <2>1. MadsTypeOK'
    <3>1. brake_grace' \in 0..PandaGraceFrames
      BY <1>2, GraceAssumption
    <3> QED
      BY <1>2, <1>3, <3>1 DEF MadsInv, TypeOK, MadsTypeOK
  <2> QED
    BY <2>1, HistoryType DEF TypeOK, Never, Frame, MadsInv
<1>6. ~brake_grace_open'
  BY <1>2 DEF brake_grace_open
<1>7. brake_at' = Never'
  BY <1>4 DEF Never
<1>8. ~lateral_only' /\ ~panda_ok' /\ ~stood_down' /\ op_enabled_prev'
  BY <1>2, <1>3, <1>4, Zenon
<1> QED
  BY <1>4, <1>5, <1>6, <1>7, <1>8, Zenon
     DEF MadsInv, LateralHasCause,
         NoReturnAfterStandDown, BrakeKeepsSteering, WindowIsBounded, EngagedHistory,
         EnabledIsSteering, WindowRemembers, BrakeIsPast, StillWaiting

(* The parts of the invariant that only the history decides, in a frame    *)
(* without openpilot.                                                      *)
LEMMA DisengagedHistory ==
  ASSUME MadsInv, NEW i \in Inputs, Frame(i), ~i.op_enabled
  PROVE  /\ ~op_enabled_prev'
         /\ op_enabled_prev' \in BOOLEAN /\ cruise_enabled_prev' \in BOOLEAN
         /\ UNCHANGED <<mads_available, disengage_on_brake>>
         /\ since_edge' \in 0..Never /\ brake_at' \in 0..Never
         /\ panda_ok' \in BOOLEAN /\ stood_down' \in BOOLEAN
         /\ BrakeIsPast'
         /\ stood_down' <=> stood_down \/ Forbids(i)
<1>1. ~op_enabled_prev' /\ op_enabled_prev' \in BOOLEAN /\ cruise_enabled_prev' \in BOOLEAN
  BY DEF Frame, MadsUpdate, Inputs
<1>2. UNCHANGED <<mads_available, disengage_on_brake>>
  BY DEF Frame, MadsUpdate, madsConfig
<1>3. /\ since_edge' \in 0..Never /\ brake_at' \in 0..Never
      /\ panda_ok' \in BOOLEAN /\ stood_down' \in BOOLEAN
  BY HistoryType DEF Frame, MadsInv
<1>4. BrakeIsPast'
  <2>1. CASE op_enabled_prev
    <3>1. brake_at = Never /\ since_edge' = 0
      BY <2>1 DEF Frame, History, MadsInv, EngagedHistory
    <3>2. brake_at' = Never \/ brake_at' = since_edge'
      BY <3>1 DEF Frame, History
    <3> QED
      BY <1>3, <3>2, GraceAssumption DEF BrakeIsPast, Never
  <2>2. CASE ~op_enabled_prev
    <3>1. /\ since_edge \in 0..Never /\ brake_at \in 0..Never
          /\ brake_at = Never \/ brake_at <= since_edge
      BY DEF MadsInv, TypeOK, BrakeIsPast
    <3>2. since_edge' = IF since_edge < Never THEN since_edge + 1 ELSE Never
      BY <2>2 DEF Frame, History
    <3>3. brake_at' = since_edge' \/ brake_at' = brake_at
      BY DEF Frame, History
    <3> QED
      BY <1>3, <3>1, <3>2, <3>3, GraceAssumption DEF BrakeIsPast, Never
  <2> QED
    BY <2>1, <2>2
<1>5. stood_down' <=> stood_down \/ Forbids(i)
  BY DEF Frame, History
<1> QED
  BY <1>1, <1>2, <1>3, <1>4, <1>5

(* A frame that takes the steering away, or finds no MADS to give it to.   *)
LEMMA TakenAwayStep ==
  ASSUME MadsInv, NEW i \in Inputs, Frame(i), ~i.op_enabled,
         StandDown(i) \/ Revoke(i)
  PROVE  MadsInv'
<1>1. /\ brake_grace' = 0
      /\ mads_enabled' = FALSE /\ mads_active' = FALSE /\ lateral_only' = FALSE
      /\ UNCHANGED <<grace_elapsed, grace_brake_seen>>
  BY DEF StandDown, Revoke, Steer
<1>2. ~mads_available \/ Forbids(i)
  BY DEF StandDown, Revoke, StoodDown, Forbids
<1>3. TypeOK'
  <2>1. brake_grace' \in 0..PandaGraceFrames
    BY <1>1, GraceAssumption
  <2>2. MadsTypeOK'
    BY <1>1, <2>1, DisengagedHistory DEF MadsInv, TypeOK, MadsTypeOK
  <2> QED
    BY <2>2, DisengagedHistory DEF TypeOK, Never
<1>4. ~brake_grace_open'
  BY <1>1 DEF brake_grace_open
<1>5. ~mads_available' \/ stood_down'
  BY <1>2, DisengagedHistory
<1> QED
  BY <1>1, <1>3, <1>4, <1>5, DisengagedHistory
     DEF MadsInv, LateralHasCause,
         NoReturnAfterStandDown, BrakeKeepsSteering, WindowIsBounded, EngagedHistory,
         EnabledIsSteering, WindowRemembers, StillWaiting

(* The falling edge: a brake arms, no brake opens the window, and neither  *)
(* happens with a blocking event or when the brake is to disengage.        *)
LEMMA FallingEdgeStep ==
  ASSUME MadsInv, NEW i \in Inputs, Frame(i), FallingEdge(i)
  PROVE  MadsInv'
<1> DEFINE may_arm == ~disengage_on_brake /\ ~has_blocking_event(i.events)
<1>0. ~i.op_enabled /\ op_enabled_prev /\ ~StoodDown(i) /\ i.braking \in BOOLEAN
  BY DEF FallingEdge, Inputs
<1>1. /\ since_edge' = 0 /\ ~panda_ok'
      /\ brake_at' = IF i.braking THEN 0 ELSE Never
  BY <1>0, NeverNat DEF Frame, History, MadsInv, EngagedHistory
<1>2. stood_down' <=> has_blocking_event(i.events)
  BY <1>0, DisengagedHistory DEF MadsInv, EngagedHistory, Forbids, StoodDown
<1>3. /\ lateral_only' <=> may_arm /\ i.braking
      /\ mads_enabled' = lateral_only' /\ mads_active' = lateral_only'
      /\ lateral_only' \in BOOLEAN
  BY DEF FallingEdge, Steer
<1>4. /\ brake_grace' = IF may_arm /\ ~i.braking THEN PandaGraceFrames ELSE 0
      /\ grace_elapsed' = 0 /\ grace_brake_seen' = FALSE
  BY DEF FallingEdge
<1>5. mads_available
  BY <1>0 DEF StoodDown
<1>6. TypeOK'
  <2>1. brake_grace' \in 0..PandaGraceFrames /\ grace_elapsed' \in 0..PandaGraceFrames
    BY <1>4, GraceAssumption
  <2>2. MadsTypeOK'
    BY <1>0, <1>3, <1>4, <2>1, DisengagedHistory DEF MadsInv, TypeOK, MadsTypeOK
  <2> QED
    BY <1>0, <2>2, DisengagedHistory DEF TypeOK, Never
<1>7. brake_grace_open' <=> may_arm /\ ~i.braking
  BY <1>4, GraceAssumption DEF brake_grace_open
<1>8. LateralHasCause' /\ NoReturnAfterStandDown' /\ BrakeKeepsSteering'
  <2>1. brake_at' <= BrakeGraceFrames <=> i.braking
    BY <1>0, <1>1, NeverNat, GraceAssumption
  <2> QED
    BY <1>0, <1>1, <1>2, <1>3, <1>5, <1>7, <2>1, DisengagedHistory
       DEF LateralHasCause, NoReturnAfterStandDown, BrakeKeepsSteering
<1>9. WindowIsBounded' /\ WindowRemembers'
  <2>1. WindowIsBounded'
    BY <1>0, <1>1, <1>4, <1>7, DisengagedHistory, GraceAssumption DEF WindowIsBounded
  <2>2. brake_grace_open' => brake_at' = Never'
    BY <1>1, <1>7 DEF Never
  <2> QED
    BY <1>0, <1>1, <1>4, <1>5, <1>7, <2>1, <2>2, DisengagedHistory DEF WindowRemembers
<1>10. StillWaiting'
  BY <1>0, <1>2, <1>3, <1>7, DisengagedHistory DEF StillWaiting
<1> QED
  BY <1>0, <1>3, <1>6, <1>8, <1>9, <1>10, DisengagedHistory
     DEF MadsInv, EngagedHistory, EnabledIsSteering

(* A frame inside the window.                                              *)
LEMMA WaitForBrakeStep ==
  ASSUME MadsInv, NEW i \in Inputs, Frame(i), WaitForBrake(i)
  PROVE  MadsInv'
<1>0. /\ ~i.op_enabled /\ ~op_enabled_prev /\ ~Forbids(i) /\ brake_grace_open
      /\ i.braking \in BOOLEAN
  BY DEF WaitForBrake, Undisturbed, StoodDown, Forbids, brake_grace_open, Inputs
<1>1. /\ mads_available /\ ~disengage_on_brake /\ ~stood_down
      /\ grace_elapsed = since_edge /\ since_edge \in 0..Never
      /\ since_edge < PandaGraceFrames
      /\ brake_grace = PandaGraceFrames - since_edge
      /\ grace_brake_seen <=> brake_at # Never
      /\ grace_brake_seen \in BOOLEAN
  BY <1>0 DEF MadsInv, TypeOK, MadsTypeOK, WindowRemembers, WindowIsBounded,
              NoReturnAfterStandDown
<1>2. /\ brake_grace' = brake_grace - 1
      /\ grace_elapsed' = grace_elapsed + 1
      /\ grace_brake_seen' = (grace_brake_seen \/ i.braking)
  BY DEF WaitForBrake
<1>3. /\ since_edge' = since_edge + 1
      /\ brake_at' = IF i.braking /\ brake_at = Never THEN since_edge' ELSE brake_at
      /\ panda_ok' <=> panda_ok \/ (/\ brake_at' # Never /\ since_edge' # Never
                                    /\ i.panda_lat = "allowed")
      /\ ~stood_down'
  <2>1. since_edge < Never
    BY <1>1, NeverNat, GraceAssumption
  <2> QED
    BY <1>0, <1>1, <2>1 DEF Frame, History
<1>4. since_edge' # Never /\ since_edge' \in 0..PandaGraceFrames
  BY <1>1, <1>3, NeverNat, GraceAssumption
<1>5. grace_brake_seen' <=> brake_at' # Never
  BY <1>0, <1>1, <1>2, <1>3, <1>4
<1>6. /\ lateral_only' <=> \/ mads_enabled
                           \/ i.braking /\ grace_elapsed' <= BrakeGraceFrames
                           \/ grace_brake_seen' /\ i.panda_lat = "allowed"
      /\ mads_enabled' = lateral_only' /\ mads_active' = lateral_only'
      /\ lateral_only' \in BOOLEAN
  BY DEF WaitForBrake, Steer
<1>7. mads_enabled <=> lateral_only
  BY <1>0 DEF MadsInv, EnabledIsSteering
<1>8. TypeOK'
  <2>1. brake_grace' \in 0..PandaGraceFrames /\ grace_elapsed' \in 0..PandaGraceFrames
    BY <1>1, <1>2, <1>3, <1>4, GraceAssumption
  <2>2. grace_brake_seen' \in BOOLEAN
    BY <1>2
  <2>3. MadsTypeOK'
    BY <1>0, <1>6, <2>1, <2>2, DisengagedHistory DEF MadsInv, TypeOK, MadsTypeOK
  <2> QED
    BY <1>0, <2>3, DisengagedHistory DEF TypeOK, Never
<1>9. lateral_only' <=> brake_at' <= BrakeGraceFrames \/ panda_ok'
  <2>1. lateral_only <=> brake_at <= BrakeGraceFrames \/ panda_ok
    BY <1>0, <1>1 DEF MadsInv, LateralHasCause, BrakeKeepsSteering
  <2>2. brake_at' <= BrakeGraceFrames
          <=> \/ brake_at <= BrakeGraceFrames
              \/ i.braking /\ brake_at = Never /\ grace_elapsed' <= BrakeGraceFrames
    BY <1>0, <1>1, <1>2, <1>3, NeverNat, GraceAssumption DEF MadsInv, TypeOK
  <2>3. panda_ok' <=> panda_ok \/ (grace_brake_seen' /\ i.panda_lat = "allowed")
    BY <1>3, <1>4, <1>5
  <2>4. ASSUME i.braking, grace_elapsed' <= BrakeGraceFrames, brake_at # Never
        PROVE  brake_at <= BrakeGraceFrames
    BY <1>1, <1>2, <2>4, NeverNat, GraceAssumption DEF MadsInv, TypeOK, BrakeIsPast
  <2> QED
    BY <1>6, <1>7, <2>1, <2>2, <2>3, <2>4
<1>10. LateralHasCause' /\ NoReturnAfterStandDown' /\ BrakeKeepsSteering'
  BY <1>0, <1>1, <1>3, <1>9, DisengagedHistory
     DEF LateralHasCause, NoReturnAfterStandDown, BrakeKeepsSteering
<1>11. WindowIsBounded' /\ WindowRemembers' /\ StillWaiting'
  <2>1. brake_grace_open' <=> since_edge' < PandaGraceFrames
    BY <1>1, <1>2, <1>3, GraceAssumption DEF brake_grace_open
  <2>2. brake_grace' = PandaGraceFrames - since_edge' /\ grace_elapsed' = since_edge'
    BY <1>1, <1>2, <1>3, GraceAssumption
  <2> QED
    BY <1>0, <1>1, <1>5, <2>1, <2>2, DisengagedHistory
       DEF WindowIsBounded, WindowRemembers, StillWaiting, Never
<1> QED
  BY <1>0, <1>6, <1>8, <1>10, <1>11, DisengagedHistory
     DEF MadsInv, EngagedHistory, EnabledIsSteering

(* A frame in which nothing happens and no window is open.                 *)
LEMMA HoldStep ==
  ASSUME MadsInv, NEW i \in Inputs, Frame(i), Hold(i)
  PROVE  MadsInv'
<1>0. /\ ~i.op_enabled /\ ~op_enabled_prev /\ ~Forbids(i) /\ ~brake_grace_open
      /\ mads_available
  BY GraceAssumption
     DEF Hold, Undisturbed, StoodDown, Forbids, brake_grace_open
<1>1. /\ lateral_only' = mads_enabled /\ mads_enabled' = mads_enabled
      /\ mads_active' = mads_enabled
      /\ UNCHANGED <<brake_grace, grace_elapsed, grace_brake_seen>>
  BY DEF Hold, Steer
<1>2. mads_enabled = lateral_only
  BY <1>0 DEF MadsInv, EnabledIsSteering
<1>3. TypeOK'
  <2>1. MadsTypeOK'
    BY <1>0, <1>1, DisengagedHistory DEF MadsInv, TypeOK, MadsTypeOK
  <2> QED
    BY <1>0, <2>1, DisengagedHistory DEF TypeOK, Never
<1>4. ~brake_grace_open'
  BY <1>0, <1>1 DEF brake_grace_open
<1>5. stood_down' <=> stood_down
  BY <1>0, DisengagedHistory
<1>6. /\ since_edge' = IF since_edge < Never THEN since_edge + 1 ELSE Never
      /\ brake_at' = IF i.braking /\ brake_at = Never THEN since_edge' ELSE brake_at
      /\ panda_ok' <=> panda_ok \/ (/\ brake_at' # Never /\ since_edge' # Never
                                    /\ i.panda_lat = "allowed")
  BY <1>0 DEF Frame, History
<1>7. /\ since_edge \in 0..Never /\ brake_at \in 0..Never
      /\ brake_at = Never \/ brake_at <= since_edge
  BY DEF MadsInv, TypeOK, BrakeIsPast
<1>8. LateralHasCause'
  <2>1. lateral_only => brake_at <= BrakeGraceFrames \/ panda_ok
    BY DEF MadsInv, LateralHasCause
  <2>2. brake_at <= BrakeGraceFrames => brake_at' <= BrakeGraceFrames
    BY <1>6, <1>7, NeverNat, GraceAssumption
  <2> QED
    BY <1>0, <1>1, <1>2, <1>6, <2>1, <2>2, DisengagedHistory DEF MadsInv, LateralHasCause
<1>9. NoReturnAfterStandDown'
  BY <1>1, <1>2, <1>4, <1>5 DEF MadsInv, NoReturnAfterStandDown
<1>10. BrakeKeepsSteering' /\ StillWaiting'
  <2>1. SUFFICES ASSUME ~stood_down, ~lateral_only, ~disengage_on_brake
                 PROVE  /\ ~(since_edge' < PandaGraceFrames)
                        /\ ~(brake_at' <= BrakeGraceFrames) /\ ~panda_ok'
    BY <1>0, <1>1, <1>2, <1>5, DisengagedHistory DEF BrakeKeepsSteering, StillWaiting
  <2>2. since_edge >= PandaGraceFrames
    BY <1>0, <1>7, <2>1, NeverNat, GraceAssumption DEF MadsInv, StillWaiting
  <2>3. since_edge' = Never
    BY <1>6, <1>7, <2>2, NeverNat, GraceAssumption
  <2>4. ~(brake_at <= BrakeGraceFrames) /\ ~panda_ok
    BY <1>0, <2>1 DEF MadsInv, BrakeKeepsSteering
  <2>5. ~(brake_at' <= BrakeGraceFrames)
    BY <1>6, <2>3, <2>4, NeverNat, GraceAssumption
  <2>6. ~panda_ok'
    BY <1>6, <2>3, <2>4
  <2> QED
    BY <2>3, <2>5, <2>6, NeverNat, GraceAssumption
<1> QED
  BY <1>0, <1>1, <1>2, <1>3, <1>4, <1>8, <1>9, <1>10, DisengagedHistory
     DEF MadsInv, EngagedHistory, EnabledIsSteering, WindowIsBounded, WindowRemembers

(* Every frame of MadsPnw.update keeps the invariant: one case per branch. *)
LEMMA MadsInvStep == MadsInv /\ [Next]_vars => MadsInv'
<1> SUFFICES ASSUME MadsInv, [Next]_vars PROVE MadsInv'
  OBVIOUS
<1>1. CASE Next
  <2>1. PICK i \in Inputs : Frame(i)
    BY <1>1 DEF Next
  <2>2. CASE i.op_enabled
    BY <2>1, <2>2, EngagedStep
  <2>3. CASE ~i.op_enabled
    <3>1. StandDown(i) \/ FallingEdge(i) \/ Revoke(i) \/ WaitForBrake(i) \/ Hold(i)
      BY <2>1, <2>3 DEF Frame, MadsUpdate, MirrorEngagement
    <3> QED
      BY <2>1, <2>3, <3>1, TakenAwayStep, FallingEdgeStep, WaitForBrakeStep, HoldStep
  <2> QED
    BY <2>2, <2>3
<1>2. CASE UNCHANGED vars
  BY <1>2 DEF vars, madsVars, madsConfig, histVars, MadsInv, TypeOK, MadsTypeOK,
     LateralHasCause, NoReturnAfterStandDown, BrakeKeepsSteering, WindowIsBounded,
     EngagedHistory, EnabledIsSteering, WindowRemembers, BrakeIsPast, StillWaiting,
     brake_grace_open, Never
<1> QED
  BY <1>1, <1>2

(* The conjunction of the facts above is an invariant of the machine.      *)
THEOREM MadsInvariant == Spec => []MadsInv
BY MadsInvInit, MadsInvStep, PTL DEF Spec

(* Steering alone always has its cause, for every pair of windows: a brake *)
(* in openpilot's own window, or one in the longer window that the panda   *)
(* confirmed (MadsPnw.update).                                             *)
THEOREM SteeringHasItsCause == Spec => []LateralHasCause
BY MadsInvariant, PTL DEF MadsInv

(* What was taken away stays away until openpilot engages again.           *)
THEOREM StoodDownStaysDown == Spec => []NoReturnAfterStandDown
BY MadsInvariant, PTL DEF MadsInv

(* A brake in time always keeps the steering.                              *)
THEOREM BrakeAlwaysKeepsSteering == Spec => []BrakeKeepsSteering
BY MadsInvariant, PTL DEF MadsInv

(* The window is bounded by the frames since the edge.                     *)
THEOREM WindowAlwaysBounded == Spec => []WindowIsBounded
BY MadsInvariant, PTL DEF MadsInv

-----------------------------------------------------------------------------
(* The four values of the abstract authority, read off the state.          *)
LEMMA AuthorityValues ==
  /\ op_enabled_prev => authority = "op" /\ patience = 0
  /\ ~op_enabled_prev /\ lateral_only => authority = "lateral" /\ patience = 0
  /\ ~op_enabled_prev /\ ~lateral_only /\ brake_grace_open
       => authority = "waiting" /\ patience = brake_grace
  /\ ~op_enabled_prev /\ ~lateral_only /\ ~brake_grace_open
       => authority = "none" /\ patience = 0
BY DEF authority, patience

(* The same of the next state.                                             *)
LEMMA AuthorityValuesNext ==
  /\ op_enabled_prev' => authority' = "op" /\ patience' = 0
  /\ ~op_enabled_prev' /\ lateral_only' => authority' = "lateral" /\ patience' = 0
  /\ ~op_enabled_prev' /\ ~lateral_only' /\ brake_grace_open'
       => authority' = "waiting" /\ patience' = brake_grace'
  /\ ~op_enabled_prev' /\ ~lateral_only' /\ ~brake_grace_open'
       => authority' = "none" /\ patience' = 0
BY DEF authority, patience

(* Every frame is a step of the abstract authority, or changes nothing of  *)
(* it.                                                                     *)
LEMMA AuthorityStep ==
  ASSUME MadsInv, [Next]_vars
  PROVE  [Authority!Next]_(Authority!laVars)
<1> USE DEF Authority!Next, Authority!laVars, Authority!Become
<1>1. CASE UNCHANGED vars
  BY <1>1 DEF vars, madsVars, madsConfig, histVars, authority, patience, brake_grace_open
<1>2. CASE Next
  <2>1. PICK i \in Inputs : Frame(i)
    BY <1>2 DEF Next
  <2>2. op_enabled_prev' = i.op_enabled
    BY <2>1 DEF Frame, MadsUpdate
  <2>3. CASE i.op_enabled
    BY <2>2, <2>3, AuthorityValues, AuthorityValuesNext DEF Authority!Engage
  <2>4. CASE ~i.op_enabled
    <3>1. StandDown(i) \/ FallingEdge(i) \/ Revoke(i) \/ WaitForBrake(i) \/ Hold(i)
      BY <2>1, <2>4 DEF Frame, MadsUpdate, MirrorEngagement
    <3>2. CASE StandDown(i) \/ Revoke(i)
      <4>1. ~lateral_only' /\ ~brake_grace_open'
        BY <3>2 DEF StandDown, Revoke, Steer, brake_grace_open
      <4> QED
        BY <2>2, <2>4, <4>1, AuthorityValues, AuthorityValuesNext DEF Authority!GiveUp
    <3>3. CASE FallingEdge(i)
      <4>1. authority = "op"
        BY <3>3, AuthorityValues DEF FallingEdge
      <4>2. brake_grace_open' => brake_grace' = PandaGraceFrames
        BY <3>3, GraceAssumption DEF FallingEdge, brake_grace_open
      <4> QED
        BY <2>2, <2>4, <4>1, <4>2, AuthorityValuesNext
           DEF Authority!Inherit, Authority!Wait, Authority!GiveUp
    <3>4. CASE WaitForBrake(i)
      <4>1. /\ ~op_enabled_prev /\ brake_grace_open
            /\ brake_grace' = brake_grace - 1
            /\ mads_enabled => lateral_only'
            /\ mads_enabled = lateral_only
        BY <3>4 DEF WaitForBrake, Undisturbed, Steer, brake_grace_open, MadsInv, EnabledIsSteering
      <4>2. CASE lateral_only
        BY <2>2, <2>4, <4>1, <4>2, AuthorityValues, AuthorityValuesNext
      <4>3. CASE ~lateral_only
        <5>1. authority = "waiting" /\ patience = brake_grace
          BY <4>1, <4>3, AuthorityValues
        <5>2. brake_grace_open' => patience > 1 /\ brake_grace' = patience - 1
          BY <4>1, <5>1, GraceAssumption DEF brake_grace_open, MadsInv, TypeOK, MadsTypeOK
        <5> QED
          BY <2>2, <2>4, <5>1, <5>2, AuthorityValuesNext
             DEF Authority!TakeOver, Authority!KeepWaiting, Authority!GiveUp
      <4> QED
        BY <4>2, <4>3
    <3>5. CASE Hold(i)
      <4>1. ~op_enabled_prev /\ ~brake_grace_open /\ ~brake_grace_open'
        BY <3>5, GraceAssumption DEF Hold, Undisturbed, brake_grace_open
      <4>2. lateral_only' = lateral_only
        BY <3>5, <4>1 DEF Hold, Steer, MadsInv, EnabledIsSteering
      <4> QED
        BY <2>2, <2>4, <4>1, <4>2, AuthorityValues, AuthorityValuesNext
    <3> QED
      BY <3>1, <3>2, <3>3, <3>4, <3>5
  <2> QED
    BY <2>3, <2>4
<1> QED
  BY <1>1, <1>2

(* MadsPnw implements the abstract lateral authority, for every window.    *)
THEOREM MadsImplementsAuthority == Spec => ImplementsAuthority
<1>1. Init => Authority!Init
  BY DEF Init, MadsInit, Authority!Init, authority, patience, brake_grace_open
<1>2. MadsInv /\ [Next]_vars => [Authority!Next]_(Authority!laVars)
  BY AuthorityStep
<1> QED
  BY <1>1, <1>2, MadsInvariant, PTL DEF Spec, ImplementsAuthority, Authority!Safety
=============================================================================
