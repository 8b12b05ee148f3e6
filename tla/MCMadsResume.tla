----------------------------- MODULE MCMadsResume -----------------------------
(***************************************************************************)
(* The auto-resume brain under every sequence of pedals, cruise states and *)
(* gates.  What the driver did is kept beside it: hist says whether he has *)
(* overruled the resume and not turned cruise on since, how long both      *)
(* pedals have been up, and what he did since the last offer.              *)
(***************************************************************************)
EXTENDS MadsResume, FiniteSets

VARIABLES pedal,   \* the pedals, lateral_only and cruise of the last tick
          hist

vars == <<brain, pedal, hist>>

(***************************************************************************)
(* The inputs of _mads_resume_step.  mads_pnw begins to steer alone on a   *)
(* braking frame and stock cruise is on only under its main switch.  An    *)
(* input that this tick does not read keeps one value.                     *)
(***************************************************************************)
Feet == {f \in [brake : BOOLEAN, regen : BOOLEAN, gas : BOOLEAN, lat : BOOLEAN,
                cc : BOOLEAN, available : BOOLEAN] :
           (f.cc => f.available) /\ ~(f.brake /\ f.regen)}

Up(i) == ~i.brake /\ ~i.regen /\ ~i.gas

Possible(f) ==
  /\ f.lat /\ ~pedal.lat => f.brake \/ f.regen
  /\ f.regen => brain.armed \/ (f.lat /\ ~pedal.lat)

If(cond) == IF cond THEN BOOLEAN ELSE {FALSE}

Around(f) ==
  LET judged == brain.armed /\ f.lat /\ Up(f)
  IN [brake   : {f.brake}, regen : {f.regen}, gas : {f.gas}, lat : {f.lat},
      cc      : {f.cc}, available : {f.available},
      blocked : If(brain.armed /\ f.lat),
      slow    : If(f.gas \/ (judged /\ brain.released >= 0)),
      gate    : IF judged /\ brain.released >= 0 THEN {"clear", "res", "all"}
                ELSE {"clear"},
      onpower : If(judged /\ brain.released < 0),
      stale   : If(f.lat /\ ~Up(f) /\ brain.set)]

-----------------------------------------------------------------------------
(***************************************************************************)
(* History.  A brake press is a pedal that comes down after having been up *)
(* for the debounce; one found down at the start is none.                  *)
(***************************************************************************)
Pressed(i) == i.brake /\ ~pedal.brake /\ hist.off >= Debounce

Brakes(i) == Pressed(i) \/ (i.lat /\ ~pedal.lat)
Acts(i) == Brakes(i) \/ (i.gas /\ ~pedal.gas)

Phases(phases) == {k \in DOMAIN brain'.rec : brain'.rec[k] \in phases}

Arms == Phases({"arm"})
Ends == Phases({"fire", "refuse"})

(***************************************************************************)
(* The arms left open by the tick are balanced when no arm opens over an   *)
(* open one and no terminal record comes without its arm.                  *)
(***************************************************************************)
OpenAt(k) == hist.open + Cardinality({j \in Arms : j <= k})
                       - Cardinality({j \in Ends : j <= k})

Fires == Phases({"fire"}) # {}

Recorded(i) ==
  LET brakes == Pressed(i)
      on     == i.cc /\ ~pedal.cc
      refuse == /\ brakes
                /\ (hist.braked \in 0..Double /\ ~on) \/ hist.offered \in 0..Reject
  IN hist' = [off      |-> IF i.brake THEN 0 ELSE Later(hist.off, Debounce),
              up       |-> IF Up(i) THEN Later(hist.up, ReleaseMin) ELSE 0,
              braked   |-> IF brakes THEN 1 ELSE IF on THEN -1
                           ELSE Later(hist.braked, Double),
              offered  |-> IF Fires THEN 1 ELSE Later(hist.offered, Reject),
              rejected |-> refuse \/ (hist.rejected /\ ~on),
              acted    |-> Acts(i) \/ (hist.acted /\ ~Fires),
              early    |-> Fires /\ (~hist.acted \/ hist.up < ReleaseMin),
              sets     |-> IF Brakes(i) THEN "none"
                           ELSE IF Fires /\ brain'.out = "set" /\ brain'.gas_fast
                                THEN IF hist.sets = "none" THEN "one" ELSE "more"
                           ELSE hist.sets,
              open     |-> OpenAt(Len(brain'.rec)),
              balanced |-> \A k \in DOMAIN brain'.rec : OpenAt(k) \in {0, 1}]

Init ==
  /\ ResumeInit
  /\ pedal = [brake |-> TRUE, gas |-> TRUE, lat |-> FALSE, cc |-> TRUE]
  /\ hist = [off |-> 0, up |-> 0, braked |-> -1, offered |-> -1,
             rejected |-> FALSE, acted |-> FALSE, early |-> FALSE,
             sets |-> "none", open |-> 0, balanced |-> TRUE]

_mads_resume_step(i) ==
  /\ update(i)
  /\ pedal' = [brake |-> i.brake, gas |-> i.gas, lat |-> i.lat, cc |-> i.cc]
  /\ Recorded(i)

Next == \E f \in Feet : /\ Possible(f)
                        /\ \E i \in Around(f) : _mads_resume_step(i)

Spec == Init /\ [][Next]_vars

-----------------------------------------------------------------------------
(***************************************************************************)
(* A driver who brakes twice in quick succession, or right after an offer  *)
(* was made, has overruled the resume: nothing is offered to him until     *)
(* cruise comes on again.  Cruise still reading on in the frame of his     *)
(* press does not count as that.                                           *)
(***************************************************************************)
RejectionSticks == hist.rejected => brain.out = "none"

(***************************************************************************)
(* Every arm ends in exactly one fire or refuse record: no terminal record *)
(* without an arm, no arm over an open one, none left open when the episode*)
(* is gone.                                                                *)
(***************************************************************************)
OneTerminalRecord == hist.balanced /\ (hist.open = 1 => brain.armed)

(***************************************************************************)
(* An offer is earned: since the last one the driver pressed a pedal or    *)
(* braked (regenerative braking too) into steering alone, and              *)
(* by the time it is made both pedals have been up for the whole settling  *)
(* time without a break.                                                   *)
(***************************************************************************)
OfferIsEarned == ~hist.early

(***************************************************************************)
(* One press of the accelerator at speed may name a set speed; after its   *)
(* offer no later press makes another until the driver brakes again, or    *)
(* braked into another stretch of steering alone.                          *)
(***************************************************************************)
FirstPressOnly == hist.sets # "more"
=============================================================================
