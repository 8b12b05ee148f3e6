# PNW Pilot in TLA+

A verification project for PNW Pilot, an openpilot fork (Python and C++) that
runs on a comma device in the car: it steers and follows traffic, keeps, uploads
and deletes the drive's logs, updates itself and looks after its own network.
What is hardest to test in it are protocols: a second, *parallel* steering
authority (MADS: steering survives a brake press) beside the panda firmware that
decides the same question by itself, the resume it offers afterwards, a log
segment shared by three processes, an update that crosses a reboot, a supervisor
whose children ignore it, and a radio that can serve one network at a time.
Those are modelled. Line numbers below are those of the repository's files.

1. [The system](#1-the-system) – parts, state, interaction, what is hard
2. [The modules and the code](#2-the-modules-and-the-code)
3. [The runs](#3-the-runs) – what is checked, bounds, fairness
4. [The proofs](#4-the-proofs)
5. [Findings](#5-findings)
6. [What is not modelled, and assumptions](#6-what-is-not-modelled-and-assumptions)
7. [Plan](#7-plan)

## 1. The system

Processes talk over msgq topics (publish, subscribe, conflated: a reader sees
the last message only), through the Params store (one file per key), and
through the file system under the log root.

    car bus -- panda -- pandad --pandaStates--> selfdrived --selfdriveState--> controlsd, ui
                 ^         ^                      |   ^         madsState
                 |         +---- heartbeat -------+   |
                 |                                    +-- carState -- card
    loggerd --files, locks, xattrs--> disk <--> uploader --PUT--> gateway
                                      disk <--> deleter
    hardwared --deviceState--> manager --SIGINT, SIGKILL--> all of them
    card --GearPark--> manager's recording gate --> loggerd
    updated --overlay, flag--> disk --> launch_chffrplus.sh at the next boot
    network_arbiterd --nmcli--> NetworkManager;  OnPriorityNetwork --> uploader

| Part | State it keeps | Operations | What is hard about it, and what makes it correct |
|---|---|---|---|
| engagement state machine, `selfdrived/state.py` | one of five states, the soft-disable timer, the alert types shown | `update(events)` per 100 Hz frame | The timer's boundary; a warning inherited from an earlier soft disable. *A soft disable gets its whole warning, and ends.* |
| events table, `selfdrived/events.py` | none | `contains`, `create_alerts` | An event with one type too many changes the state machine and MADS at once. |
| lateral authority (MADS), `selfdrived/mads_pnw.py` | latched authority, the brake window (frames left, frames elapsed, brake seen), previous-frame edges | `update` per frame | Stock cruise drops *before* the brake is reported. *Steering alone has a brake in time behind it, and does not return by itself.* |
| chimes, `selfdrived/madsquiet_pnw.py` | frames a silenced disengage may still be taken over | `step`, `apply_chime_decision` | A chime is silenced on a guess. *No loss of steering is silent; no chime while it steers.* |
| selfdrived frame, `selfdrived/selfdrived.py` | the above, two mismatch counters, the off-request latch | `data_sample`, `update_events`, `update_alerts`, `step` | Values one frame old; three edge detectors side by side. *Off is off; a lasting disagreement ends.* |
| panda and pandad, `pandad/pandad.cc` | two permissions, re-latch window, watchdog (panda); 10 Hz poll | health out, heartbeat in | Two parties decide one question from different streams. *openpilot does not steer where the panda blocks, and the panda takes back what is not asked for.* |
| controlsd, `controls/controlsd.py` | control laws | `lat_authorised`, `state_control` | Only the authorisation is discrete. |
| loggerd, `loggerd/logger.cc`, `video_writer.cc`, `loggerd.cc` | the current segment, open writers, lock files, `user.preserve` | rotate, open, close, bookmark, exit | The order of create, lock, close, unlock is visible to two other processes. |
| uploader, `loggerd/uploader.py` | the job in hand, retry cooldowns, `user.upload`, the metered counter on disk | list, size, PUT, mark; reserve, send, refund | Works on a file for as long as the network takes. *Marked means whole at the gateway; the metered cap holds through crashes.* |
| deleter, `loggerd/deleter.py` | the ordered list of a sweep, the loss it found | sweep, remove, report | Acts on flags read earlier. *Un-sent data goes last and is reported; the recording is left alone; a removal may fail on the way.* |
| auto-resume, `controls/lib/madsresume_pnw.py` | the captured set speed, the open episode, the opt-out, the clocks of release and offer | `update` per frame | Several clocks, debounced edges, an episode that can be reopened. *Who overrules it is left alone; an offer is earned.* |
| manager, `manager/manager.py`, `process.py` | one child and its `shutting_down` flag per entry, `running` | `ensure_running`, `start`, `stop`, `manager_cleanup` | A stop that does not block the first time and does the second. *No death is silent; the end of a drive ends its processes.* |
| hardwared, `hardware/hardwared.py`, `power_monitoring.py` | ignition, thermal band, the times a drive began and ended | `hardware_thread` at 2 Hz and at edges | Hysteresis, a panda that falls silent. *A device that was in danger cools down first.* |
| recording gate, `manager/park_record_gate.py`, `car/gear_park.py`, `car/card.py` | GearPark on disk, the hold and its start | `update`, seed, publish | A parameter that outlives its writer. *A drive is recorded, Park is not.* |
| updater and boot, `updated/updated.py`, `launch_chffrplus.sh`, `hardware/tici/agnos.py` | overlay, finalized tree, flag, backup, canary, two AGNOS slots, the user's request | check, fetch, flash, finalize; swap, verify, start | The power may go anywhere. *What is marked can be installed, what runs is whole, what is offered arrives.* |
| network arbiter, `networkd/network_arbiterd.py`, `network_arbiter.py` | ledger of failures, pending bring-up, pin, scans missed, cost cache | one look and one radio action per poll | Reads fail, scans are incomplete, a join that fails costs the link that worked. *Online, cheap, and where the driver wants it.* |
| alert manager, cruise, lane change, longitudinal control, driver monitoring | small state machines at 100 or 20 Hz | `update` | Thresholds and resets; later. |
| params, athena, Wi-Fi manager | files, queues, connections | put, retry, switch | Several writers, retries; later. |
| models, camera, localisation, planners, drawing | numeric | | Outside what an explicit-state checker can say anything about. |

`PROJECT.json` lists every part with its status, and under "hazards" what in
this code a test would hardly reach, at the line where it bites.

## 2. The modules and the code

### Driving

| Module | Code | Correspondence |
|---|---|---|
| `Events` | `events.py` | One name stands for all names of the EVENTS table with the same types and sounds; `TypesOf(E)` is `Events.contains`, `create_alerts` gives the alerts' sounds. |
| `StateMachine` | `state.py` | One step of `SMUpdate(T)` is one `update`; T is the set of event types of the frame, all that the code asks of its events. One action per state and branch. |
| `MadsPnw` | `mads_pnw.py` | `MadsUpdate(i)` is one `update`; one action per early return and branch: `StandDown`, `MirrorEngagement`, `FallingEdge`, `Revoke`, `WaitForBrake`, `Hold`. Variables have the code's names, `mads_` in front of `enabled` and `active`. |
| `LateralAuthority` | – | The abstract specification: who may steer (`op`, `lateral`, `waiting`, `none`) and for how long it may still wait. `MadsPnw` maps to it with `authority` and `patience`. |
| `MadsQuiet` | `madsquiet_pnw.py` | `QuietStep` is `MadsQuiet.step`; a `ChimeDecision` is the set of its true fields. |
| `Selfdrived` | `selfdrived.py`, `car_specific.py` | `step(CS, ...)` is a whole frame, in the code's order: sample, off request, events, state machine, MADS, chimes, alerts. It composes the three modules above. |
| `MadsPanda` | `pandad.cc`, the panda (external) | One `Tick` is one carState period: the car moves, the panda sees it, pandad may poll, and selfdrived runs its frame or misses it because card's message was conflated. |

The car's other conditions (doors, belts, faults, the driver-monitoring verdict,
...) raise events of a class chosen nondeterministically from what a run gives
them (`car_events`, `SystemEvents`), in any frame. The runs of the whole frame
give them the cancel button and a soft disable; all sets of event types are in
the `state_machine` run, and the classes MADS tells apart in the `mads` run.

### Logs

| Module | Code | Correspondence |
|---|---|---|
| `LogDisk` | `deleter.py`, `uploader.py`, `config.py` | The shared state: directories, files (absent, open, closed, empty), lock files, `user.preserve`, `user.upload`. A segment has three files: one of pass 1 (qlog), the log of pass 2 (rlog) and one camera (ecamera). |
| `Loggerd` | `logger.cc`, `loggerd.cc`, `video_writer.cc`, `zstd_writer.cc` | One action per system call that others can see. `LoggerState::next` is `Rotate`, `create_directories`, `CreateLock`, `OpenLogs`; the destructors at exit are `ExitUnlock`, `ExitLogs`, `ExitVideo`. `log_pc` is "filming" once the segment has its video. |
| `Uploader` | `uploader.py` | `Choose` (list, pick, read the size), `PutAccepted` or `PutFailed`, `Mark`. The gateway is external: it takes the file, declines it, or its answer is lost. |
| `Deleter` | `deleter.py` | `SweepStart` (read all flags and sort), then for one candidate after another `PassOver` (it has a lock) or `TryCandidate` (scan for what will be lost), `RemoveTree`, `Report`. The handler of OSError (`deleter.py:228`) is `ListFails`, for a directory that cannot be listed, and `RemoveFails`, for an rmtree that stops after any part of the names: nothing is reported, and the next candidate is tried. |
| `Logs` | – | The three on one disk, with `Reboot` (the power goes at any moment) and the histories the properties need. |
| `MeteredBudget` | `uploader.py` `step_metered`, `_metered_*` | `Begin`, `Reserve`, `SendAccepted` or `SendFailed`, `Refund`; the day may end, the counter be damaged or unwritable, and the power go between any two. |

### Device

| Module | Code | Correspondence |
|---|---|---|
| `MadsResume` | `madsresume_pnw.py` | The brain is one record; `update(i)` is one tick, written as the code is: `capture`, `verify`, the edges, `optout`, then either `arm` or the `episode`, each a function from the brain to the brain. Records of the decision log that open and close an arm are kept in `rec`. Times are ages. |
| `Manager` | `manager.py`, `process.py` | The walk over the table, one entry per step. `stop(p, block, done)` is `ManagerProcess.stop`: `joining` is the time left in `join_process`, during which the walk stands still. |
| `ParkGate` | `park_record_gate.py`, `gear_park.py`, `card.py` | `Seed` and `update_gear` append to the queue of `put_bool_nonblocking`, `Flush` writes one; `update` is the gate. |
| `Hardwared` | `hardwared.py`, `power_monitoring.py` | `hardware_thread` is a published iteration, `ign_edge` the reason for one out of turn. |
| `Supervision` | – | The three with a car and half-second ticks: children forget everything when they end, `deviceState` is conflated. |
| `UpdateDisk` | `updated.py`, `agnos.py` | The trees (BASEDIR, finalized, old_openpilot) as the processes see them (`fs`) and as a sync left them (`platter`); the two slots with boot, system and the hash that marks system as complete. |
| `Updater` | `updated.py` | The program counter of a pass: `top`, `init_overlay`, `wipe`, `mount`, `params`, `check_for_update`, `decide`, `fetch_update`, `reset`, `handle_agnos_update`, `flash_agnos_update`, `finalize_update`, `finalized`, `report`, `settle`, `wake`; any command may fail. |
| `Boot` | `launch_chffrplus.sh`, `agnos.py` | `launch` with its two moves as two steps, `agnos_init`, `swap`, `start_manager`. |
| `Update` | `software.py` | Composes them with the driver's taps, pushes, a checkout by hand, reboots and power loss. |
| `Arbiter` | `network_arbiter.py`, `priority_networks.py` | Every decision is a pure operator of the same name, `judge_link` to `decide`. |
| `NetworkArbiterd` | `network_arbiterd.py`, `geo_gate.py` | `look` is a pass of `main` up to the radio action, in the code's order: what it `Reads` (the read that fails is a parameter), the link as it is `Judged`, and what the pass `Concludes` from both; `_apply` the action and what `main` remembers of it. |
| `Network` | – | NetworkManager's answers and the world. |

`MC...` modules add histories, properties and inputs for TLC; `..._proofs`
modules hold the theorems. An operator with a suffix (`Hold_Arms`,
`ScanLoss_VideoOnly`) is a plausible wrong version of the definition after it;
it is used only to see that a property can fail.

## 3. The runs

| Run | Checks | Distinct states |
|---|---|---|
| `state_machine` | The state machine under every sequence of sets of event types. `FullSoftDisableWarning`: a soft disable that nothing interrupts lasts its whole warning however it was entered. `SoftDisableEnds`: one that keeps being raised ends in disabled. | 424 |
| `mads` | MADS alone under every sequence of inputs. `LateralHasCause`: it steers alone exactly on a brake in time. `NoReturnAfterStandDown`: what was taken away stays away until openpilot engages. `BrakeKeepsSteering`: an undisturbed brake in time is never thrown away. `ImplementsAuthority`: it implements `LateralAuthority`. | 1,504 |
| `selfdrived` | The whole frame under a driver who uses both pedals, the buttons, the ACC main switch and doors in any order, against pandas that permit, refuse, are silent, speak an old health layout or are invalid. `NoSilentLoss`, `QuietWhileSteering`, `OffMeansOff`, `OffRequestEnds`, `SupersetOfStock`, `LateralMismatchRevokes`. | 8,828 |
| `panda` | openpilot beside the panda. `NeverSteersBlocked`: openpilot's window lies inside the panda's, so steering alone is permitted steering. `BlockedIsBounded`, `UnaskedIsBounded`: after a fault or a missed frame the two agree again in bounded time. | 58,017 |
| `resume` | The auto-resume brain under every sequence of pedals, cruise states and gates. `RejectionSticks`, `OneTerminalRecord`, `OfferIsEarned`, `FirstPressOnly`. | 40,604 |
| `logs` | loggerd, uploader and deleter interleaved, with a request that fails, or a segment that the deleter cannot list, or can remove in part only. `UploadedIsWhole`, `LossIsReported`, `OpenFilesStay`, `LossIsLastResort`. | 5,735,343 |
| `metered` | The metered budget. `CapHolds`, `Accounted`, `FailsClosed`. | 110,230 |
| `update` | The updater, the software page and the boot script. `StagedIsInstallable`: what is marked is whole and durable, its AGNOS runs or is flashed and will verify, also in whatever a power loss leaves. `RunsWhole`, `PromiseKept`, `NoLostRequest`, `UpdateArrives`. | 574,844 |
| `supervision` | The manager with hardwared, card and the recording gate. `DriveIsRecorded`, `ParkIsNotRecorded`, `OnroadEnds` (each within a number of ticks that its module derives), `CoolsDownFirst`, `DeathIsReported`. | 2,096,520 |
| `network` | The arbiter. `OfflineIsBounded`, `CheapestWins` (each within a derived number of polls), `WorkingLinkStays`, `PickRespected`. | 531,957 |
| `network_saved`, `uploader_dies` | Statements of the repository that the code does not meet: see the findings. | |

### Bounds

*Frames.* The car's constants (45, 60, 75, 100, 200, 300 frames) are scaled down
keeping the order that the code's comments rely on: `BrakeGraceFrames` <
`RelatchTicks` < `PandaGraceFrames`, `PandaGraceFrames` >= `RelatchTicks +
PollTicks` (a re-latch is polled before openpilot stops waiting for it), and
two seconds of the watchdog longer than `PandaGraceFrames + PollTicks` (so it
does not take lateral back while openpilot still decides). The counters differ
only in how many equal steps they take between the boundaries, and each
boundary is reached from both sides. The proofs of section 4 remove the bound
for the state machine, for MADS, for the whole frame of selfdrived and for the
frame beside the panda.

*Inputs.* The MC modules list the carState messages a run may see: both pedals
with cruise on and off, standstill, regenerative braking, the buttons, ACC main
off, an invalid CAN frame. Runs that do not ask about a button leave it out. In
`MCMadsResume` an input that a tick does not read keeps one value.

*Resume.* The times of the brain are scaled to Debounce 2, Double 3, Reject 3,
ReleaseMin 2, GasWait 3, ReleaseMax 4, OfferMax 2, ArmMax 5 and VerifyMax 3
ticks, in the order the code has them (an assumption of the module).

*Logs.* Two segments, one of which may belong to a second drive, give the
relations the properties are about (older and newer, being recorded and left
behind, kept for a bookmark and not); one failed request gives one retry, and one
failed listing or removal, which may leave any part of the names, brings the deleter
back to what is left of the segment while the others go on; a behaviour has one of
the two (`MaxFaults`), and one power loss at any moment; `PRESERVE_COUNT` is 1. The
proofs have any number of each, for all of the four properties but
`LossIsLastResort`. Not reached with two: a
bookmark that keeps both of the two segments before it, and a flag that falls
out of the latest `PRESERVE_COUNT` while a third is being recorded. Both upload
toggles are off in the run; they only take files out of both sides' lists. `MCLogs` has
`CHECK_DEADLOCK FALSE` because with all segments recorded, sent and deleted
nothing is left to do.

*Metered.* A cap of 3 with files of 1 and 2 fills exactly and overshoots by
one; three days, so that a refund and an acceptance can come after midnight
twice; four uploads; power losses without bound. `MaxSends` is why
`CHECK_DEADLOCK FALSE` is set.

*Update.* Three versions on two branches, one of which wants another AGNOS; one
failed command, two events, two reboots and one power loss, each at any step: an
update staged, superseded, staged again and installed, with the loss in any of
these. `MCUpdate` stops at a device without a tree (see the caveats), hence
`CHECK_DEADLOCK FALSE`.

*Supervision.* One process of each kind: an onroad one that is gated (loggerd), an
onroad one that is restarted (card) and one that always runs (hardwared). A join
is one tick, the Park hysteresis two, the import of card one. One crash and two
events, an event being a gear change, the ignition, the panda, the bus, the
temperature, the battery, a cycle request or the setting. The three temperature
readings are engageable, hot and dangerous. The car is one whose gear reads
unknown until a frame arrives (`Capable`): one that reads Park before its first frame
is not in the run. After `manager_cleanup` nothing runs,
hence `CHECK_DEADLOCK FALSE`.

*Network.* A free stationary network, a free mobile one and one of unknown cost
that the driver has not configured; the two backoffs of 2 and 4 polls stand for the
code's list; a slow DHCP fits the grace by one poll. One failed read, incomplete
scan or failed join and two events of the world. One failed read does not reach the
end of the hold for a link that cannot be read: that part of `WorkingLinkStays` is
covered by its proof only.

Symmetry is used nowhere: segments, days and frames are ordered.

### Fairness

Two specifications assume it. `MCStateMachine` assumes that the next frame comes,
`WF_vars(Next)`: selfdrived's loop waits for carState with a timeout of 20 ms and
runs its frame on what it has if nothing came (`data_sample`). `Update` assumes
weak fairness of the updater, of the boot script and of the clock being set:
`updated` is one thread that sleeps for a bounded time, and the manager restarts
it with the device. No input is assumed to be fair: the driver may do anything
for ever, nobody has to tap, push or reboot. Everything else that must happen is
stated with a bound in ticks or polls, which is stronger and needs no fairness.

## 4. The proofs

TLAPS checks every step of the eight proof modules. Each proves an inductive
invariant for every value of its constants: what TLC's bounds scale down
(windows, waits, numbers of segments, versions, faults, reboots, crashes) is
arbitrary there. Each action is one lemma or one step of a proof, with one step
below it per conjunct it can disturb; a stuttering step is one more; the last
step of a theorem is temporal logic.

**`MadsPnw_proofs`**, for every `BrakeGraceFrames` in 1..`PandaGraceFrames` and
every sequence of inputs: `SteeringHasItsCause`, `StoodDownStaysDown`,
`BrakeAlwaysKeepsSteering`, `WindowAlwaysBounded`, and
`MadsImplementsAuthority` (the safety part of `LateralAuthority`). None of the
properties is inductive. `MadsInv` strengthens them with what the code relies
on without saying so:

  - `EnabledIsSteering`: with openpilot disengaged, the latch and `lateral_only`
    are the same bit; so `Hold`, which copies the latch, preserves the cause of
    the steering;
  - `WindowRemembers`: a window is open only where MADS may keep steering, its
    elapsed frames are those since the falling edge, and `grace_brake_seen` is
    what the history saw;
  - `StillWaiting`: nothing but its length closes an undisturbed window, so a
    brake in time is not missed;
  - `BrakeIsPast`, `EngagedHistory`: the histories are in order, and at their
    start while openpilot is engaged.

The refinement uses the same invariant: outside the window
`patience` is 0, and a step of `WaitForBrake` is `KeepWaiting`, `TakeOver` or,
in its last frame, `GiveUp`.

**`Selfdrived_proofs`** begins with the state machine alone. For every
`SoftDisableFrames` above 0 the timer and the warning frames already given add up
to the whole warning (`SMWarningCounted`, inductive together with the type
invariant), so a soft disable disables no earlier (`SMFullWarning`). Then the whole
frame, for every length of the windows, limits and holds, every
set of carState and pandaStates messages and of further events, in any order:
`LossIsHeard`, `OffIsOff`, `OffAlwaysEnds`, `StockIsKept`, and the two action
properties `SteeringIsQuiet` and `MismatchRevokes`: all six of the run. `DriveInv`
has six parts. The first four, `CoreInv`, hold whatever is done with a frame and
are used again beside the panda:

  - `FrameInv`: three modules each keep the engagement of the frame before
    (`op_enabled_prev`, `en_prev`, `lat_prev`) and agree on it; without that an
    edge could be seen by one and not by another;
  - `AuthorityInv`: MADS mirrors openpilot while it is engaged and steers alone
    only where it is not, and engagement has the stock cruise behind it;
  - `OffInv`: nothing is engaged, steers or waits under an off request, so the press
    that latches it cannot latch it again;
  - `MismatchInv`: a disagreement that has reached its limit has ended the steering;
  - `HoldInv`: the frames an off request has stood and those it has left add up to
    its hold;
  - `ChimeInv`: a loss that was not heard is a disengage held back, and the frames
    it has been unheard and those it may still be held back add up.

The lemmas follow the order of `step`: the events of a frame and their types, the
state machine, MADS, the chimes, the sounds. A frame's engagement is read off
the types in its events, so the proof rests on the event table (`EventTable`,
`SoundTable`): a change of an event's types that matters breaks it.

**`MadsPanda_proofs`**, for every length of the windows, polls and watchdogs in the
order `WindowsAssumption` gives them, any number of missed frames it admits and a
panda that may drop lateral by itself: `SteersPermitted`, `BlockedEnds`,
`UnaskedEnds`, all three of the run. The assumption is the one the code argues for
at `mads_pnw.py:104-136` ("the ordering is the whole invariant"): openpilot's window
for a late brake is no wider than the panda's; and the panda's watchdog is slower
than the missed frames and two polls, since it would otherwise take back a latch
before the heartbeat for it can have arrived. `PairInv` is `CoreInv` and

  - `PandaInv`: a latch closes the re-latch window, and the watchdog counts only a
    latch without a heartbeat;
  - `CarInv`: with no frame missed, selfdrived's last frame is what is on the bus;
  - `EngagedInv`: engaged, openpilot has the latch and the heartbeat is in time
    (`Latched`), also where the panda engaged in a frame that openpilot missed;
  - `AloneInv`: steering alone, the same. Waiting for the brake, either nobody has
    braked, and the frames waited and the ticks left to the panda add up to its
    window, so a brake in openpilot's window is one in the panda's; or the brake came
    too late for openpilot, which then arms only on a report of the panda, and the
    watchdog has counted too little since to take the latch away before the next
    heartbeat;
  - `BlockedInv`, `UnaskedInv`: a disagreement is younger than the next poll or is
    accounted for by `lateral_mismatch_counter` and the missed frames, respectively
    by the panda's own count.

The frame enters by four facts (`FrameFacts`): when openpilot may engage, and the
three ways in which it comes to steer alone or to wait (`Falls`, `Waits`, `Holds`).

**`Logs_proofs`**, for every number of segments, failed requests, failed removals and
power losses and both upload toggles: `MarkedIsWhole`, `LossesAreReported` and, as an action
property, `OpenFilesAreKept`. `LogsInv` says what the lock files stand for:
`MadeInv` (nothing lies beyond the segment loggerd is at, and a segment being
recorded has its lock), `VideoInv` (the video's lock is on every segment with a
video in which anything is open), `UploadInv` (the file in the uploader's hands
lies in a segment that loggerd has left, and is whole at the gateway once it was taken) and
`DeleteInv` (what the deleter is about to remove was sealed when it looked and
still is). Sealing is stable: loggerd only closes what lies behind it. That is the
argument for acting on flags and sizes read earlier. A removal, whether it ends or
fails, only takes from the one directory (`TakesOnlyFrom`), and a sealed one at that,
so that what is left of it is sealed and in order. The segments in `entered`, at which
the deleter looked between mkdir and lock, are excepted in each part: there a removal
that fails may have taken the lock, and the segment is recorded without it.

**`Update_proofs`**, for every set of versions and branches, every AGNOS release they
want, and any number of failed commands, events, reboots and power losses:
`StagedStaysInstallable`, `DeviceRunsWhole`, `PromiseIsKept`, `RequestIsServed`. Of
`UpdateInv`, `DiskInv` is about the disk as the processes see it *and* as the last
sync left it, since a power loss may give either, or a mixture: a mark on either
disk means a system that either can boot. `UpdaterInv` and `BootInv` say what each
step of a pass and of a boot can rely on (between the withdrawal of one update and
the mark of the next, nothing is marked on either disk, and the flashing of the
slot has come as far as `flash` says), `PromiseInv` where the promised commit is,
`RequestInv` that a request made during a pass is still to be read.

**`Supervision_proofs`**, for every process table, every set of temperatures, every
length of joins, cycles and holds and any number of events and crashes:
`DriveAfterCooling` and `NoSilentDeath`. `WalkInv` is what the walk over the table
has established for the entries behind it, also across a join that holds it up;
`DeathInv` ties the processes that were dead throughout to the report. `HotInv`
shows what the cooling depends on: the danger band is remembered only in
hardwared's memory, so nothing may restart it. The proof needs `"hardwared" \notin
Restarted`, which the code's table satisfies (`process_config.py` gives hardwared no
`restart_if_crash`); a hardwared that was restarted would begin the next drive hot.

**`MadsResume_proofs`**, for every setting of the brain's times that `ResumeAssumption`
admits and drives of any length: `RejectionHolds`, `ArmsEndOnce`, `OffersAreEarned`,
`OnePressIsAnswered`. Of `ResumeInv`, `MemoryInv` says that the brain's clocks and
edges read what the driver's history reads, `EpisodeInv` that an episode ends
without a trace and has its terminal record only once its attempt is over,
`RejectInv`, `SpentInv` and `OpenInv` that the opt-out, the spent press and the open
arm are remembered for as long as the history has them. A tick is a chain of
functions from the brain to the brain; there is a lemma for each on what it keeps,
and the records of a tick are counted by `Net`, so that an arm that is closed and
reopened within one tick is not lost.

**`Network_proofs`**, for every set of networks, order of them, costs, waits and
backoffs, and any number of events of the world: `WorkingLinkStays` (theorem
`LinkStays`) and, as long as fewer reads may fail than make an absence,
`PickRespected` (`PicksAreRespected`). Both speak of the step that gives up a
working link, and the argument follows such a step back through the pass that
took it:

  - it is a pass (`LeavesIsLook`), and the three holds of `main` let it through, so
    the active connection was read, or has been unreadable for the whole hold, or
    was not known to work (`LeavesByReading`);
  - a link that was read keeps its place among the candidates unless it was last
    known to be unusable (`VerdictFacts`, `KeepsLink`);
  - `choose_wifi` picks a candidate that nothing ranks before (`ChoiceFacts`). It has
    to be shown that there is one: class, place in the driver's list and name are
    numbers, so every set of networks has a least (`LeastOf`, by well-foundedness).

The invariants are small, since a pass decides almost everything from what it reads:
`WorldInv` (what the world may be), `LinkInv` (the count of unreadable passes),
`PinInv` (what is tracked of a pick is dated no later than the last event, so a new
pick is never taken for an old one) and `EvidenceInv`: of a pick in force, a network
that was not away since the pick was missed in at most as many scans as had a
failure. That last one is what ties the daemon's evidence to the world. The
hypotheses are needed. `LinkStays` assumes that the list of saved profiles is not
among the reads that fail, and the finding `network_saved` shows what happens if it
is. With `AbsentScans` or more incomplete scans a network that never left counts as
away, and `PickRespected` is false.

The last part of the module is the uploader's budget on metered links, for every
cap, set of sizes above 0, number of days and number of uploads: `CapAlwaysHolds`,
`AlwaysAccounted`, `LateIsAlwaysOneFile`, `AlwaysFailsClosed`. `BudgetInv` adds
`CounterIsLatest` (nothing was accepted on the budget of a day later than the
counter's), `LocalsHold` (between reading and refunding, the locals of
`step_metered` cover what was accepted, and the file fits on top), `Reserved`
(while a file is on its way its bytes are in the counter, if the counter can be
read at all) and `ShutStays` (a day found damaged stays exhausted). The step that
needs care is the refund after midnight: it writes yesterday's date over the
counter. It does no harm because the uploader is one thread: nothing can have been
accepted on the new day yet.

Each module also proves the types its argument needs. `SMWarningCounted`,
`WindowAlwaysBounded` and `LateIsAlwaysOneFile` have no run of their own: the
properties they support do. TLC was run on each inductive invariant as well, on
the instance of the component's run.

The assumptions on constants are the named `ASSUME`s of the modules, which TLC
evaluates on its instances. Besides numbers being natural they say: the orders of
the windows and waits that the code has (`GraceAssumption`, `WindowsAssumption`,
`ResumeAssumption`);
every branch has a commit, and an AGNOS release is not the name of a damaged or
cleared slot (`VersionsAssumption`); the entries of the process table are distinct
and the three modelled processes are among them.

Only model-checked, and not proved:

  - `SoftDisableEnds` and `UpdateArrives` need fairness, which is out of the prover's
    reach;
  - `LossIsLastResort`: the deleter's order is a sorting operator of the library,
    defined by a recursion over data that the provers cannot unfold;
  - `DriveIsRecorded`, `ParkIsNotRecorded` and `OnroadEnds` bound a time that is a sum
    over the whole table and the joins of the instance, an induction over data;
  - `OfflineIsBounded` and `CheapestWins` bound a number of polls by sums over the
    networks and the backoffs, which is an induction over data too.

## 5. Findings

With a run:

  - **`network_saved`.** `_saved_connections()` answers `[]` when nmcli fails
    (`network_arbiterd.py:194`), the same as for a device without saved networks.
    No network is then a candidate, the active one included, and the hotspot is
    raised over a link that works. The daemon's rule is that "an ERROR is not a
    NEGATIVE RESULT" (`network_arbiterd.py:298-299`); its other reads keep to it.
  - **`uploader_dies`.** For a file with nothing to send `upload()` never binds
    `last_exc`; if the deleter removes the file before it is marked, the handler
    at `uploader.py:1037` reads that name, and the UnboundLocalError ends the
    uploader until the next start of the manager.

Without a run, met while modelling:

  - When `shutil.rmtree` fails on the way (`deleter.py:222`), files are gone by then,
    un-sent ones perhaps among them. The handler at `deleter.py:228-229` logs "issue
    deleting" and the sweep goes on; `report_unuploaded_loss`, which is to "make a
    destroyed un-uploaded segment VISIBLE" (`deleter.py:105`), is not called, and when
    the deleter comes back to the segment its scan no longer lists them. What is left
    is reported: `LossIsReported` holds for it, and excepts the former.
  - With DisengageOnAccelerator on, a gas press raises `pedalPressed`, which MADS
    tolerates; the falling edge therefore opens the brake window, and a brake inside
    it arms lateral. The comment at `mads_pnw.py:81-82` says that the gas case cannot
    smuggle lateral through: true of the edge, not of the window it opens.
  - `lateral_mismatch_counter` is not reset by a permitting report
    (`selfdrived.py:694`), so interrupted refusals add up; the comment at
    `selfdrived.py:475-476` speaks of a panda that has been refusing for 2 s.
  - An upload whose body went out and was not accepted is refunded in full
    (`uploader.py:777`), so the bytes on the wire may pass the cap that
    `uploader.py:118-124` defines by them. The bytes *accepted* never do.
  - `card.py:347-351` relies on an onroad cycle to restart the onroad processes.
    hardwared's cycle is short (`hardwared.py:222-225`, ONROAD_CYCLE_TIME) and the
    manager sees the latest deviceState only: one that is held in a five-second join
    meanwhile sees no change of `started`, and restarts nothing.
  - Comments that are out of date: `madsquiet_pnw.py:19` says a chime is at most
    MADS_BRAKE_GRACE_FRAMES late, while `selfdrived.py:156` passes
    MADS_BRAKE_PANDA_GRACE_FRAMES; `pandad.cc:519` says `.active` goes false in
    softDisabling, which is one of ACTIVE_STATES.

Some properties state their exceptions, which are weaknesses of the code's lock
order rather than findings: a segment is without its lock for a moment after
its mkdir (`logger.cc:188`), and `rlog.lock` goes before rlog and qlog are
closed (`logger.cc:180`), which only a video's lock covers. `OpenFilesStay` and
`UploadedIsWhole` hold outside exactly these two, `LossIsReported` outside the
first, a power loss before the report, and what a failing rmtree had unlinked.

## 6. What is not modelled, and assumptions

*Assumed of what is outside the repository.* The panda's firmware is modelled
from its contract in `mads_pnw.py`, pandad and `docs/pnw/MADS2PNW.md`: lateral
latches with controls_allowed, falls with it unless the brake is down, comes
back on a brake within the re-latch window, and is taken back by a watchdog of
2 to 3 seconds whose count starts over when controls_allowed rises
(`MADS2PNW.md:546`). The car engages cruise only with ACC main on and the brake
up. Frames are missed only with ACC main on. The gateway may take a file again,
overwriting it, or decline it.

*Assumed of the order of processes.* The uploader's `clear_locks` runs before
loggerd starts: start-up times see to it, the code does not (a hazard without a
property). Pacific dates only move forward, except that a clock known to be
wrong stops metered uploads.

*Left out of modelled parts.* selfdrived: cars without pcmCruise, passive and
dashcam mode, `cruise_mismatch_counter`, creation delays and
durations of alerts, the fallback on an exception in the chime decision, and the
resume offer, which `MadsResume` models by itself.
Uploader: LastUploadError and the 412 streak, the choice of network (a pass may
or may not be allowed), sizes that are never sent, the tiers of the device
logs. Deleter: boot and crash directories; attributes and directories that its scans
cannot read (the code counts them as sent, and as not bookmarked); a report whose
alert or record cannot be written; a sweep that raises outside the handler of one
candidate, after which the next sweep starts afresh. An rmtree is one step, in which
the other processes do nothing, whether it ends or fails; a power loss on the way is
a removal that fails, and then the loss of power.
loggerd: how many encoders are ready to rotate (a rotation may come at any
time), all encoders but one, contents.

*Updates.* Metadata of the file system is ordered, contents that were not synced
may be damaged by a power loss; a directory is moved at once. A power loss between
the launcher's two moves leaves no BASEDIR: both trees are whole in the staging
area, but nothing puts one back (`launch_chffrplus.sh:58-64`; `RunsWhole` and
`UpdateArrives` name the case). After a failed check that is not git ls-remote the
canary is gone while UpdateAvailable stays until the next pass, so a reboot in
between does not install what is on offer: `PromiseKept` asks for a valid canary.
A checkout by hand is one for the AGNOS that runs. The partitions are two images,
and the AGNOS updater's own screen is external.

*Supervision.* A hardwared that dies leaves `started` as it was; the device's
watchdog, outside the repository, is what ends that (`OnroadEnds` excepts it). A
shutdown that was decided goes through though the ignition comes on. The startup
conditions other than the temperature are one nondeterministic flag. The writes
that card has queued are lost with it. Left out: the clearing of parameters,
`DaemonProcess`, `DisableLogging`, the fan, statistics.

*Network.* A link whose last readable verdict was "unusable" may be given up on a
failed read (`WorkingLinkStays` excepts it). While a pick is in force an active
connection that cannot be read holds without bound. A daemon that is restarted
takes a pick that had ended for a new one, for one join window. Every network in a
backoff is tried again when it ends, and a trial takes the radio from a link that
works, if the network ranks before it: by design. Left out: case folding of names,
the learning of locations, captive portals, NAT and the LTE guard, autoconnect
repair, explanations. No network of the instance is explicitly metered (the proofs
allow it). `WorkingLinkStays` compares networks by the costs read so far: one whose
cost was never read ranks as of unknown cost, as in the code.

*Resume.* The gates' numbers are two gates, one common and one of RESUME only;
`decelUnknown`, which the code's own note shows never to bind with the waits it
uses, is not among them. The set speed can be read while cruise is on. MADS is
available throughout; "opEngaged" is one of the reasons to abort (`blocked`), the
hold-off after a driver's button one of the common gates. Steering alone begins on
a braking frame. A press at creep speed is not spent, so a later one may name a
speed: by design, and excepted in `FirstPressOnly`. The executor that presses the
button is in opendbc.

*Not modelled.* The parts marked so in `PROJECT.json`. Most of the repository's
lines are in them, and in what this project leaves aside for good: planners,
filters and controllers over floating-point numbers, neural networks, drawing,
map and geographic data, tools and scripts. Explicit-state checking has nothing to
say about them that a unit test does not, so the mapped share of the lines stays
small although the protocols between the processes are covered.

## 7. Plan

The order follows how much harm a wrong step does and how far tests are from it.

| Step | Modules | Questions and theorems |
|---|---|---|
| done | the modules of section 2 | sections 3 and 4 |
| 1 | `DriverMonitoring` (`monitoring/helpers.py`), `DesireHelper` | Awareness reaches zero in bounded time without attention, recovery cannot skip the lockout; a lane change ends. |
| 2 | `AlertManager`, `MadsResume` composed into `Selfdrived` | The alert shown is the most urgent; no offer while the frame that would take it is blocked. |
| 3 | `Params`, `Athena`, `WifiManager` | A parameter is its old or its new value; a queue entry is retried a bounded number of times. |
| 4 | `Uploader` with the 412 streak and the backoff | Pass 2 is reached although some files keep failing. |
