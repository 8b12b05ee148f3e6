------------------------------ MODULE MadsResume ------------------------------
(***************************************************************************)
(* The auto-resume brain (selfdrive/controls/lib/madsresume_pnw.py): while *)
(* openpilot only steers, a brake press and its release may be answered by *)
(* one offer to tap RESUME, and a press of the accelerator by one offer to *)
(* tap SET.  update is one control tick.  Times are ages in ticks, -1 for  *)
(* None; a previous input not yet seen counts as TRUE, which like None is  *)
(* never followed by a rising edge.  Of the records of a tick only their   *)
(* phases are kept, and of the set speed only whether one is held; it can  *)
(* be read whenever cruise is on.  The gate decelUnknown is left out: the  *)
(* lift-off anchors its window, which closes before the shortest wait.     *)
(***************************************************************************)
EXTENDS Integers, Sequences

CONSTANTS Debounce,     \* BRAKE_DEBOUNCE_S
          Double,       \* DOUBLE_BRAKE_S
          Reject,       \* REJECT_AFTER_FIRE_S
          ReleaseMin,   \* RELEASE_MIN_S, GAS_SET_RELEASE_MIN_ACCEL_S
          GasWait,      \* GAS_SET_RELEASE_MIN_S
          ReleaseMax,   \* RELEASE_MAX_S
          OfferMax,     \* OFFER_S
          ArmMax,       \* ARM_MAX_S
          VerifyMax     \* VERIFY_S

ASSUME ResumeAssumption ==
  /\ {Debounce, Double, Reject, ReleaseMin, GasWait, ReleaseMax, OfferMax,
      ArmMax, VerifyMax} \subseteq Nat \ {0}
  /\ Debounce <= Double /\ ReleaseMin <= GasWait /\ GasWait <= ReleaseMax
  /\ OfferMax <= Reject

VARIABLE brain

(***************************************************************************)
(* MadsResumeBrain.__init__.  set and armed_set say that a set speed is    *)
(* held; rec are the records of the tick and out its offer.                *)
(***************************************************************************)
Fresh == [set |-> FALSE, armed |-> FALSE, armed_set |-> FALSE,
          used_gas |-> FALSE, done |-> FALSE, terminal |-> FALSE,
          arm |-> -1, released |-> -1, offer |-> -1, verify |-> -1,
          lat_prev |-> TRUE, pedal_prev |-> TRUE, gas_prev |-> TRUE,
          cc_prev |-> TRUE, last_brake |-> -1, pedal_off |-> -1, fired |-> -1,
          suppressed |-> FALSE, lat_braked |-> FALSE, gas_spent |-> FALSE,
          gas_fast |-> FALSE, gas_wait |-> GasWait, out |-> "none", rec |-> <<>>]

ResumeInit == brain = Fresh

Later(age, max) == IF age < 0 \/ age > max THEN age ELSE age + 1

Tick(b) ==
  [b EXCEPT !.arm = Later(@, ArmMax), !.released = Later(@, ReleaseMax),
            !.offer = Later(@, OfferMax), !.verify = Later(@, VerifyMax),
            !.last_brake = Later(@, Double), !.pedal_off = Later(@, Debounce),
            !.fired = Later(@, Reject), !.out = "none", !.rec = <<>>]

-----------------------------------------------------------------------------
(***************************************************************************)
(* Every arm ends in one terminal record, "fire" or "refuse"; a press that *)
(* opens nothing is recorded as "ignored".                                 *)
(***************************************************************************)
Note(b, phase) == [b EXCEPT !.rec = Append(@, phase)]

NoteIf(cond, b, phase) == IF cond THEN Note(b, phase) ELSE b

_terminate(b) ==
  IF b.terminal THEN b ELSE Note([b EXCEPT !.terminal = TRUE], "refuse")

_disarm(b) ==
  [b EXCEPT !.armed = FALSE, !.used_gas = FALSE, !.gas_wait = GasWait,
            !.armed_set = FALSE, !.released = -1, !.done = FALSE,
            !.terminal = FALSE, !.offer = -1]

EndOffer(b) == NoteIf(b.offer >= 0, b, "offerEnd")

(***************************************************************************)
(* Capture of the driver's set speed while stock cruise is on, for as long *)
(* as its main switch is; cruise coming on lifts the opt-out; the outcome  *)
(* of the last press is verified.                                          *)
(***************************************************************************)
capture_Level(b, i) ==
  [b EXCEPT !.cc_prev = i.cc, !.suppressed = @ /\ ~i.cc,
            !.last_brake = IF i.cc THEN -1 ELSE @,
            !.set = i.cc \/ (@ /\ i.available)]

capture(b, i) ==
  LET rising == i.cc /\ ~b.cc_prev
  IN [b EXCEPT !.cc_prev = i.cc,
               !.suppressed = @ /\ ~rising,
               !.last_brake = IF rising THEN -1 ELSE @,
               !.set = i.cc \/ (@ /\ i.available)]

Verified(b, i) == b.verify >= 0 /\ (b.verify > VerifyMax \/ i.cc)

verify(b, i) ==
  IF Verified(b, i) THEN Note([b EXCEPT !.verify = -1], "verify") ELSE b

(***************************************************************************)
(* Edges.  A pedal that comes back within the debounce is the same press.  *)
(***************************************************************************)
PedalRises(b, i) ==
  i.brake /\ ~b.pedal_prev /\ ~(b.pedal_off \in 0..(Debounce - 1))
GasRises(b, i) == i.gas /\ ~b.gas_prev
LatRises(b, i) == i.lat /\ ~b.lat_prev

remember(b, i) ==
  [b EXCEPT !.lat_prev = i.lat, !.gas_prev = i.gas, !.pedal_prev = i.brake,
            !.pedal_off = IF b.pedal_prev /\ ~i.brake THEN 0 ELSE @,
            !.lat_braked = @ /\ i.lat]

(***************************************************************************)
(* The opt-out: two presses in quick succession, or one right after a      *)
(* resume, end the episode and suppress every later one.                   *)
(***************************************************************************)
Rejects(b) == b.last_brake \in 0..Double \/ b.fired \in 0..Reject

optout(b, rises) ==
  IF ~rises THEN b
  ELSE LET s == Note([b EXCEPT !.suppressed = TRUE], "suppress")
           r == IF ~Rejects(b) THEN b
                ELSE IF b.armed THEN _disarm(_terminate(EndOffer(s))) ELSE s
       IN [r EXCEPT !.last_brake = 0]

(***************************************************************************)
(* Arming: every brake press while steering alone, and the first press of  *)
(* the accelerator after one when no episode is open.  i.stale: the capture*)
(* is older than SET_MAX_AGE_S.                                            *)
(***************************************************************************)
Starts(b, i, lat_rises, rises) ==
  (lat_rises \/ (i.lat /\ rises)) /\ ~b.suppressed

GasStarts(b, gas_rises) ==
  gas_rises /\ b.lat_braked /\ ~b.armed /\ ~b.suppressed /\ ~b.gas_spent

arm(b, i) ==
  LET a == IF b.armed THEN _disarm(_terminate(b)) ELSE b
      o == [a EXCEPT !.armed = TRUE, !.arm = 0,
                     !.armed_set = a.set /\ ~i.stale]
  IN Note(o, "arm")

arm_brake(b, i) ==
  LET a == [arm(b, i) EXCEPT !.gas_spent = FALSE, !.gas_fast = FALSE]
      l == [a EXCEPT !.lat_braked = TRUE]
  IN IF ~(i.brake \/ i.regen) THEN _terminate([a EXCEPT !.done = TRUE])
     ELSE IF ~a.armed_set /\ ~i.available THEN _terminate([l EXCEPT !.done = TRUE])
     ELSE l

arm_gas(b, i) ==
  [arm(b, i) EXCEPT !.used_gas = TRUE, !.gas_fast = @ \/ ~i.slow]

-----------------------------------------------------------------------------
(***************************************************************************)
(* The gates of the window and of the offer.  i.gate is "all" when one     *)
(* common to both modes binds (not engageable, a driver's button, a lead   *)
(* too close), "res" when one of RESUME only does (the set speed is raised,*)
(* far or out of context, the headway is short), else "clear".             *)
(***************************************************************************)
_gates(b, i) ==
  /\ ~i.slow /\ i.gate # "all"
  /\ b.used_gas \/ (b.armed_set /\ i.gate # "res")

(***************************************************************************)
(* The accelerator in an open episode names the speed: the target becomes  *)
(* SET, the release clock waits for the lift-off, and an episode that has  *)
(* made its attempt starts over under a new name.                          *)
(***************************************************************************)
press_SameArm(b, i) ==
  [b EXCEPT !.gas_fast = @ \/ ~i.slow, !.used_gas = TRUE, !.released = -1,
            !.arm = 0, !.offer = -1, !.done = FALSE]

press(b, i) ==
  LET g == [b EXCEPT !.gas_fast = @ \/ ~i.slow, !.used_gas = TRUE,
                     !.released = -1, !.arm = 0]
      t == _terminate([EndOffer(g) EXCEPT !.offer = -1])
  IN IF ~b.done /\ b.offer < 0 THEN g
     ELSE Note([t EXCEPT !.done = FALSE, !.terminal = FALSE], "arm")

(***************************************************************************)
(* A later press in the same stretch engages nothing.                      *)
(***************************************************************************)
later_press(b) ==
  LET e == EndOffer(b)
  IN _disarm(IF b.terminal THEN Note(e, "ignored") ELSE _terminate(e))

Aborts(b, i) == i.blocked \/ ~i.available \/ i.cc \/ b.arm > ArmMax

fire_Again(b, i) ==
  Note([b EXCEPT !.offer = 0, !.fired = 0, !.verify = 0, !.terminal = TRUE,
                 !.out = IF b.used_gas THEN "set" ELSE "res"], "fire")

fire(b, i) ==
  LET v == NoteIf(b.verify >= 0, b, "verify")
  IN Note([v EXCEPT !.done = TRUE, !.offer = 0, !.fired = 0, !.verify = 0,
                    !.terminal = TRUE,
                    !.out = IF b.used_gas THEN "set" ELSE "res"], "fire")

(***************************************************************************)
(* Both pedals are up: the lift-off starts the release clock, the first    *)
(* press of the accelerator is spent once it has been judged, an offer in  *)
(* flight stands while every gate holds, and the window makes one attempt. *)
(***************************************************************************)
lift(b, i) ==
  [b EXCEPT !.released = 0, !.gas_wait = IF i.onpower THEN ReleaseMin ELSE GasWait]

Wait(b) == IF b.used_gas THEN b.gas_wait ELSE ReleaseMin

spend_AtOffer(b) ==
  [b EXCEPT !.gas_spent = @ \/ (b.used_gas /\ b.released > ReleaseMax /\ b.gas_fast)]

spend(b) ==
  [b EXCEPT !.gas_spent = @ \/ (b.used_gas /\ b.released >= b.gas_wait /\ b.gas_fast)]

window(b, i) ==
  IF b.offer >= 0
  THEN IF _gates(b, i) /\ b.offer <= OfferMax
       THEN [b EXCEPT !.out = IF b.used_gas THEN "set" ELSE "res"]
       ELSE [EndOffer(b) EXCEPT !.offer = -1]
  ELSE IF b.done \/ b.released < Wait(b) THEN b
  ELSE IF b.released > ReleaseMax THEN [_terminate(b) EXCEPT !.done = TRUE]
  ELSE IF _gates(b, i) THEN fire(b, i) ELSE b

pedals(b, i) ==
  IF i.brake \/ i.regen \/ i.gas
  THEN [EndOffer(b) EXCEPT !.released = -1, !.offer = -1]
  ELSE IF b.released < 0 THEN lift(b, i) ELSE window(spend(b), i)

episode(b, i) ==
  LET p == IF i.gas THEN press(b, i) ELSE b
  IN IF ~b.armed THEN b
     ELSE IF ~i.lat THEN _disarm(_terminate(b))
     ELSE IF i.gas /\ b.gas_spent THEN later_press(b)
     ELSE IF Aborts(p, i) THEN _disarm(_terminate(EndOffer(p)))
     ELSE pedals(p, i)

(***************************************************************************)
(* MadsResumeBrain.update.                                                 *)
(***************************************************************************)
update(i) ==
  LET s         == verify(capture(Tick(brain), i), i)
      rises     == PedalRises(s, i)
      gas_rises == GasRises(s, i)
      lat_rises == LatRises(s, i)
      o         == optout(remember(s, i), rises)
      idle      == i.lat /\ ~o.armed
      deaf      == \/ rises /\ i.lat /\ o.suppressed
                   \/ gas_rises /\ idle /\ o.suppressed
                   \/ gas_rises /\ idle /\ o.gas_spent
      n         == NoteIf(deaf, o, "ignored")
  IN brain' = IF Starts(o, i, lat_rises, rises) THEN arm_brake(o, i)
              ELSE IF GasStarts(o, gas_rises) THEN arm_gas(n, i)
              ELSE episode(n, i)
=============================================================================
