---------------------------- MODULE MeteredBudget ---------------------------
(***************************************************************************)
(* The daily budget of uploads on a metered link (step_metered and the     *)
(* methods it calls, loggerd/uploader.py).  The bytes of a file are        *)
(* reserved in a counter on disk before it is sent, and refunded if the    *)
(* upload fails.  The power may go, the counter be unwritable or damaged,  *)
(* and the day end at any moment in between.  Days are those of the        *)
(* Pacific calendar and only move forward; a clock known to be wrong       *)
(* (wall_time_valid) is one of the states.                                 *)
(***************************************************************************)
EXTENDS Integers

CONSTANTS
  Cap,        \* PNW_LOG_METERED_DAILY_BYTES
  Sizes,      \* what a device log may weigh on the wire
  LastDay,    \* bound: days in one behaviour
  MaxSends    \* bound: uploads in one behaviour

ASSUME CapAssumption == Cap \in Nat
ASSUME SizesAssumption == Sizes \subseteq Nat \ {0}
ASSUME LastDayAssumption == LastDay \in Nat
ASSUME MaxSendsAssumption == MaxSends \in Nat

Days == 0..LastDay
NoDay == -1

VARIABLES
  day,          \* today's date
  clock_ok,     \* wall_time_valid
  counter,      \* the budget file: absent, ok or corrupt
  date, bytes,  \* what it says when it is ok
  full_day,     \* _metered_full_day
  pc,           \* idle, reserve, send, refund
  today, used, size,   \* locals of step_metered
  sends,        \* uploads begun
  accepted,     \* history: bytes accepted, by the day they were reserved on
  late,         \* history: bytes accepted on a later day than that
  shut_day      \* history: the last day the file was read as corrupt

meter_vars == <<day, clock_ok, counter, date, bytes, full_day, pc, today, used, size,
                sends, accepted, late, shut_day>>
locals == <<today, used, size>>
disk == <<counter, date, bytes>>
histories == <<accepted, late, shut_day>>

TypeOK ==
  /\ day \in Days /\ clock_ok \in BOOLEAN
  /\ counter \in {"absent", "ok", "corrupt"}
  /\ date \in Days /\ bytes \in Nat
  /\ full_day \in Days \union {NoDay}
  /\ pc \in {"idle", "reserve", "send", "refund"}
  /\ today \in Days /\ used \in Nat /\ size \in Sizes \union {0}
  /\ sends \in 0..MaxSends
  /\ accepted \in [Days -> Nat] /\ late \in [Days -> Nat]
  /\ shut_day \in Days \union {NoDay}

MeterInit ==
  /\ day = 0 /\ clock_ok \in BOOLEAN
  /\ counter = "absent" /\ date = 0 /\ bytes = 0
  /\ full_day = NoDay
  /\ pc = "idle" /\ today = 0 /\ used = 0 /\ size = 0
  /\ sends = 0
  /\ accepted = [d \in Days |-> 0]
  /\ late = [d \in Days |-> 0]
  /\ shut_day = NoDay

Written(d, b) == counter' = "ok" /\ date' = d /\ bytes' = b

(* _metered_write: replaced as a whole, or left as it was.                 *)
metered_write(d, b) == Written(d, b) \/ UNCHANGED disk

(* _metered_used for a file that can be read.                              *)
metered_used == IF counter = "ok" /\ date = day THEN bytes ELSE 0

(* step_metered gets as far as the counter.                                *)
MayStart == pc = "idle" /\ clock_ok /\ full_day # day

(* Mutant: a damaged counter is taken for a new one.                       *)
ReadCorrupt_AsNew ==
  /\ MayStart
  /\ counter = "corrupt"
  /\ counter' = "absent"
  /\ shut_day' = day
  /\ UNCHANGED <<day, clock_ok, date, bytes, full_day, pc, locals, sends, accepted, late>>

(* A damaged counter makes the day exhausted, on disk too if it can be     *)
(* written.                                                                *)
ReadCorrupt ==
  /\ MayStart
  /\ counter = "corrupt"
  /\ metered_write(day, Cap)
  /\ shut_day' = day
  /\ UNCHANGED <<day, clock_ok, full_day, pc, locals, sends, accepted, late>>

(* Mutant: the cap is compared with what was used before.                  *)
Fits_Before(s) == metered_used <= Cap

Fits(s) == metered_used + s <= Cap

(* The next file fits: its bytes are to be reserved.                       *)
Begin(s) ==
  /\ MayStart
  /\ counter # "corrupt"
  /\ Fits(s)
  /\ today' = day /\ used' = metered_used /\ size' = s
  /\ pc' = "reserve"
  /\ UNCHANGED <<day, clock_ok, disk, full_day, sends, histories>>

(* It does not: nothing else is tried that day.                            *)
BudgetReached(s) ==
  /\ MayStart
  /\ counter # "corrupt"
  /\ ~Fits(s)
  /\ full_day' = day
  /\ UNCHANGED <<day, clock_ok, disk, pc, locals, sends, histories>>

(* Mutant: the size is left out of the reservation.                        *)
Reserve_Forgets ==
  /\ pc = "reserve"
  /\ \/ Written(today, used) /\ sends < MaxSends /\ sends' = sends + 1 /\ pc' = "send"
     \/ UNCHANGED <<disk, sends>> /\ pc' = "idle"
  /\ UNCHANGED <<day, clock_ok, full_day, locals, histories>>

(* Reserve before sending, or do not send.                                 *)
Reserve ==
  /\ pc = "reserve"
  /\ \/ Written(today, used + size) /\ sends < MaxSends /\ sends' = sends + 1 /\ pc' = "send"
     \/ UNCHANGED <<disk, sends>> /\ pc' = "idle"
  /\ UNCHANGED <<day, clock_ok, full_day, locals, histories>>

SendAccepted ==
  /\ pc = "send"
  /\ pc' = "idle"
  /\ accepted' = [accepted EXCEPT ![today] = @ + size]
  /\ late' = IF day = today THEN late ELSE [late EXCEPT ![day] = @ + size]
  /\ UNCHANGED <<day, clock_ok, disk, full_day, locals, sends, shut_day>>

(* upload() returns False: before the body, or after it went out.          *)
SendFailed ==
  /\ pc = "send"
  /\ pc' = "refund"
  /\ UNCHANGED <<day, clock_ok, disk, full_day, locals, sends, accepted, late, shut_day>>

Refund ==
  /\ pc = "refund"
  /\ metered_write(today, used)
  /\ pc' = "idle"
  /\ UNCHANGED <<day, clock_ok, full_day, locals, sends, histories>>

DayPasses ==
  /\ day < LastDay
  /\ day' = day + 1
  /\ UNCHANGED <<clock_ok, disk, full_day, pc, locals, sends, histories>>

(* NTP or GPS sets the clock.                                              *)
ClockSet ==
  /\ ~clock_ok
  /\ clock_ok' = TRUE
  /\ UNCHANGED <<day, disk, full_day, pc, locals, sends, histories>>

(* The file is damaged.                                                    *)
Damage ==
  /\ counter = "ok"
  /\ counter' = "corrupt"
  /\ UNCHANGED <<day, clock_ok, date, bytes, full_day, pc, locals, sends, histories>>

(* The power goes: the clock may come up unset, memory is gone.            *)
Reboot ==
  /\ clock_ok' \in BOOLEAN
  /\ full_day' = NoDay
  /\ pc' = "idle" /\ today' = 0 /\ used' = 0 /\ size' = 0
  /\ UNCHANGED <<day, disk, sends, histories>>

MeterNext ==
  \/ ReadCorrupt \/ Reserve \/ SendAccepted \/ SendFailed \/ Refund
  \/ \E s \in Sizes : Begin(s) \/ BudgetReached(s)
  \/ DayPasses \/ ClockSet \/ Damage \/ Reboot

MeterSpec == MeterInit /\ [][MeterNext]_meter_vars

----------------------------------------------------------------------------
(* What the gateway accepted of the files reserved on one day never passes *)
(* the cap, wherever the power goes, a write fails or the counter breaks.  *)
CapHolds == \A d \in Days : accepted[d] <= Cap

(* The counter never shows less than was accepted that day                 *)
(* ("no byte is ever sent that the file does not already account for", for *)
(* the bytes that arrive).                                                 *)
Accounted == counter = "ok" => accepted[date] <= bytes

(* After the counter was found damaged nothing more is sent on that day's  *)
(* budget (fail closed in _metered_used).                                  *)
FailsClosed == [][accepted' # accepted => today # shut_day]_meter_vars

(* A day gets at most one file that the day before reserved, so a calendar *)
(* day carries the cap and one file at most.                               *)
LateIsOneFile == \A d \in Days : late[d] \in Sizes \union {0}
=============================================================================
