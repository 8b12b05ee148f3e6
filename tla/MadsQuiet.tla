------------------------------ MODULE MadsQuiet -----------------------------
(***************************************************************************)
(* The engagement chimes while MADS keeps steering                         *)
(* (selfdrived/madsquiet_pnw.py): MadsQuiet.step runs once per frame after *)
(* the state machine and MadsPnw.update.                                   *)
(***************************************************************************)
EXTENDS Integers, Events

CONSTANT QuietGraceFrames    \* MadsQuiet(grace_frames)

ASSUME QuietAssumption == QuietGraceFrames \in Nat

VARIABLES
  en_prev, lat_prev,
  pending,    \* frames left for a provisionally silenced disengage to be taken over
  chime       \* ChimeDecision: the fields that are True

quietVars == <<en_prev, lat_prev, pending, chime>>

ChimeFields == {"quiet_disengage", "quiet_engage", "chime_disengage"}

QuietTypeOK ==
  /\ en_prev \in BOOLEAN
  /\ lat_prev \in BOOLEAN
  /\ pending \in 0..(QuietGraceFrames + 2)
  /\ chime \subseteq ChimeFields

QuietInit ==
  /\ en_prev = FALSE
  /\ lat_prev = FALSE
  /\ pending = 0
  /\ chime = {}

Decide(c, p) == chime' = c /\ pending' = p

(* Mutant: the chime sounds although MADS takes over in this very frame.   *)
DisengageEdge_Loud(lat_only, grace_open) ==
  \/ grace_open /\ Decide({"quiet_disengage"}, QuietGraceFrames + 2)
  \/ ~grace_open /\ Decide({}, 0)

DisengageEdge(lat_only, grace_open) ==
  \/ lat_only /\ Decide({"quiet_disengage"}, 0)
  \/ ~lat_only /\ grace_open /\ Decide({"quiet_disengage"}, QuietGraceFrames + 2)
  \/ ~lat_only /\ ~grace_open /\ Decide({}, 0)

(* Mutant: MADS giving up the steering asks for no chime.                  *)
NoEdge_Silent(en, lat_only) ==
  LET ran_out == pending = 1 /\ ~lat_only
  IN  Decide(IF ran_out THEN {"chime_disengage"} ELSE {},
             IF pending > 0 /\ ~lat_only THEN pending - 1 ELSE 0)

(* Neither edge: a provisional silence is settled, and MADS giving up the  *)
(* steering is announced.                                                  *)
NoEdge(en, lat_only) ==
  LET ran_out == pending = 1 /\ ~lat_only
      gave_up == lat_prev /\ ~lat_only /\ ~en
  IN  Decide(IF ran_out \/ gave_up THEN {"chime_disengage"} ELSE {},
             IF pending > 0 /\ ~lat_only THEN pending - 1 ELSE 0)

(* MadsQuiet.step                                                          *)
QuietStep(en, lat_only, available, grace_open) ==
  /\ en_prev' = en
  /\ lat_prev' = lat_only
  /\ \/ ~available /\ Decide({}, 0)
     \/ available /\ en_prev /\ ~en /\ DisengageEdge(lat_only, grace_open)
     \/ available /\ ~en_prev /\ en /\ Decide(IF lat_prev THEN {"quiet_engage"} ELSE {}, 0)
     \/ available /\ en_prev = en /\ NoEdge(en, lat_only)

-----------------------------------------------------------------------------
QUIET_DISENGAGE_EVENTS == {"pedalPressed", "pcmDisable"}
QUIET_ENGAGE_EVENTS == {"pcmEnable"}

(* apply_chime_decision: the sounds of the frame's alerts, with the        *)
(* silenced ones taken out and the requested chime added.                  *)
Silenced(a, c) ==
  \/ "quiet_disengage" \in c /\ a.type = "userDisable"
     /\ a.event \in QUIET_DISENGAGE_EVENTS /\ a.sound = "disengage"
  \/ "quiet_engage" \in c /\ a.type = "enable"
     /\ a.event \in QUIET_ENGAGE_EVENTS /\ a.sound = "engage"

apply_chime_decision(alerts, c) ==
  {a.sound : a \in {b \in alerts : ~Silenced(b, c)}}
    \union (IF "chime_disengage" \in c THEN {"disengage"} ELSE {})
=============================================================================
