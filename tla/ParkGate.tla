------------------------------ MODULE ParkGate ------------------------------
(***************************************************************************)
(* No recording in Park: card's GearPark parameter                         *)
(* (selfdrive/car/gear_park.py, and the seed of card.py) and the manager's *)
(* gate on it (system/manager/park_record_gate.py).  The parameter is      *)
(* written when it changes, by a thread of card's, and survives card.      *)
(***************************************************************************)
EXTENDS Integers, Sequences

CONSTANTS
  HoldTicks,    \* PARK_HOLD_S
  Capable       \* gear_unknown_until_seen: the gear reads unknown until a frame arrives

ASSUME GateAssumption == HoldTicks \in Nat \ {0} /\ Capable \in BOOLEAN

VARIABLES
  card_pc,      \* card: not there, importing, waiting for CAN, or in its loop
  value,        \* GearParkWriter.value
  reading,      \* carState.gearShifter, held while no frame arrives
  writes,       \* the queue of put_bool_nonblocking
  GearPark,     \* the parameter
  RecordWhileParked,
  park_since,   \* ticks since _park_since (-1: None)
  holding

cardVars == <<card_pc, value, reading, writes, GearPark>>
gateVars == <<park_since, holding>>

GateTypeOK ==
  /\ card_pc \in {"off", "import", "wait", "loop"}
  /\ {value, GearPark, RecordWhileParked, holding} \subseteq BOOLEAN
  /\ reading \in {"park", "unknown", "drive"}
  /\ writes \in Seq(BOOLEAN) /\ Len(writes) <= 2
  /\ park_since \in -1..HoldTicks

GateInit ==
  /\ card_pc = "off" /\ value = FALSE /\ reading = "unknown" /\ writes = <<>>
  /\ GearPark = FALSE /\ RecordWhileParked = FALSE
  /\ park_since = -1 /\ holding = FALSE

(* CANParser starts every signal at 0, which is Park on many cars.         *)
FirstReading == IF Capable THEN "unknown" ELSE "park"

(* A new card process; the parameter is the one the last card left.        *)
CardSpawned == card_pc' = "import" /\ UNCHANGED <<value, reading, writes, GearPark>>
CardGone == card_pc' = "off" /\ writes' = <<>> /\ UNCHANGED <<value, reading, GearPark>>

(* Car.__init__ seeds the parameter before it waits for CAN.               *)
Seed ==
  /\ card_pc = "import" /\ card_pc' = "wait"
  /\ value' = FALSE /\ reading' = FirstReading
  /\ writes' = Append(writes, FALSE)
  /\ UNCHANGED GearPark

Ready == card_pc = "wait" /\ card_pc' = "loop" /\ UNCHANGED <<value, reading, writes, GearPark>>

(* A mutant of NextValue: only a valid tick may change the value.          *)
NextValue_ValidOnly(gear, can_valid, source_valid) ==
  IF can_valid \/ (gear = "park" /\ Capable /\ source_valid) THEN gear = "park" ELSE value

(* GearParkWriter.update, with the value the tick leaves.                  *)
NextValue(gear, can_valid, source_valid) ==
  LET park == gear = "park"
      known == gear # "unknown"
  IN IF park /\ (can_valid \/ (Capable /\ source_valid)) THEN TRUE
     ELSE IF ~park /\ (can_valid \/ known) THEN FALSE
     ELSE value

(* state_publish: decoded is the gear a frame brought this tick, or "none" *)
(* when the gear message did not arrive and the last reading stands.       *)
update_gear(decoded, can_valid) ==
  /\ card_pc = "loop"
  /\ can_valid => decoded # "none"
  /\ reading' = IF decoded = "none" THEN reading ELSE decoded
  /\ value' = NextValue(reading', can_valid, decoded # "none")
  /\ writes' = IF value' # value THEN Append(writes, value') ELSE writes
  /\ UNCHANGED <<card_pc, GearPark>>

Flush ==
  /\ writes # <<>>
  /\ GearPark' = Head(writes) /\ writes' = Tail(writes)
  /\ UNCHANGED <<card_pc, value, reading>>

release == park_since' = -1 /\ holding' = FALSE

(* ParkRecordGate.update, once per manager pass.                           *)
update(started, card_alive) ==
  IF ~started \/ RecordWhileParked \/ ~GearPark \/ ~card_alive
    THEN release
    ELSE /\ park_since' = IF park_since = -1 THEN 0 ELSE park_since
         /\ holding' = (holding \/ park_since' >= HoldTicks)
=============================================================================
