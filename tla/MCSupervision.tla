--------------------------- MODULE MCSupervision ---------------------------
(***************************************************************************)
(* The supervision on a small instance, with the histories its properties  *)
(* need.                                                                   *)
(***************************************************************************)
EXTENDS Supervision

(* How many ticks of a drive the gate may still hold the recorder: a join, *)
(* and per card that dies unseen the time to its seed and the next pass.   *)
DarkLimit == JoinTicks + (MaxCrashes + 1) * (SeedTicks + 1)

(* How many ticks of confirmed Park loggerd may still run: the hysteresis, *)
(* its own join, and the join of an earlier stop.                          *)
ParkLimit == HoldTicks + 2 * JoinTicks + 2

(* How many ticks an onroad process may outlive the ignition: the ticks to *)
(* see it and to signal, a join for each process to restart it, for a      *)
(* drive that ended as it began, and another to stop it.                   *)
OffLimit == 3 + 2 * (Len(Table) - 1) * JoinTicks

MCTable == <<"loggerd", "card", "hardwared">>
MCRestarted == {"card"}
MCReadings == {<<70, 70>>, <<90, 70>>, <<110, 90>>}

VARIABLES
  dark,         \* history: ticks of a drive, gear frames arriving, with the recorder held
  parked,       \* history: ticks of confirmed Park, onroad
  hot,          \* history: the danger band was reached and not yet a reading below 88
  off,          \* history: ticks with the ignition line off
  missing \* history: the processes not alive since this pass began

histVars == <<dark, parked, hot, off, missing>>
mcVars == <<vars, histVars>>

MCInit ==
  /\ Init
  /\ dark = 0 /\ parked = 0 /\ hot = FALSE /\ off = 0
  /\ missing = {}

MCPoll ==
  /\ Poll
  /\ missing' = {p \in Names : ~Alive(p)}
  /\ parked' = IF started' THEN parked ELSE 0
  /\ UNCHANGED <<dark, hot, off>>

MCOther ==
  /\ ManagerStep \/ CardStep \/ CardTurn \/ World \/ \E p \in Names : ProcessEnds(p) \/ Crash(p)
  /\ missing' = {p \in missing : procs'[p].proc # "alive"}
  /\ off' = IF line' THEN 0 ELSE off
  /\ parked' = IF card_pc' = "loop" /\ ~RecordWhileParked' /\ gear' = "park" /\ bus' = "good" THEN parked ELSE 0
  /\ UNCHANGED <<dark, hot>>

MCHardware ==
  /\ HardwareStep
  /\ hot' = (thermal_status' = 3 \/ (hot /\ temps[1] >= 88))
  /\ UNCHANGED <<dark, parked, off, missing>>

MCTick ==
  /\ Tick
  /\ dark' = IF holding /\ gear = "drive" /\ bus \in {"good", "gear"}
               THEN (IF dark > DarkLimit THEN dark ELSE dark + 1) ELSE 0
  /\ parked' = IF started /\ started_ts /\ ~RecordWhileParked /\ gear = "park" /\ bus = "good" /\ value
                 THEN (IF parked > ParkLimit THEN parked ELSE parked + 1) ELSE 0
  /\ off' = IF line THEN 0 ELSE IF off > OffLimit THEN off ELSE off + 1
  /\ UNCHANGED <<hot, missing>>

MCNext == MCPoll \/ MCOther \/ MCHardware \/ MCTick

MCSpec == MCInit /\ [][MCNext]_mcVars

(* A drive is recorded: whatever card does, crashes and restarts included, *)
(* and whatever the rest of the CAN bus does, a car that is out of Park    *)
(* and whose gear frames arrive has the recorder held for DarkLimit ticks  *)
(* at most.  The parameter card leaves behind is stale exactly here.       *)
DriveIsRecorded == dark <= DarkLimit

(* Parked is not recorded: Park that card confirms tick after tick ends    *)
(* loggerd, even one that ignores its SIGINT.                              *)
ParkIsNotRecorded == parked > ParkLimit => ~Alive("loggerd")

(* After the danger band no drive begins before a reading below 88.        *)
CoolsDownFirst == hot => ~started_ts

(* No silent death: a process that should run and was not alive during a   *)
(* whole pass is in the list selfdrived turns into processNotRunning.      *)
DeathIsReported == mgr_pc = "poll" => missing \intersect running \subseteq report

(* With the ignition off the onroad processes end within a bounded time,   *)
(* whatever they do with SIGINT, unless hardwared, which decides it, is    *)
(* itself dead, and reported.                                              *)
OnroadEnds ==
  off > OffLimit => \/ "hardwared" \in report
                    \/ \A p \in Names \ {"hardwared"} : ~Alive(p)
=============================================================================
