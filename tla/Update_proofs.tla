--------------------------- MODULE Update_proofs ---------------------------
(***************************************************************************)
(* Proofs about a software update, for every set of versions, branches and *)
(* systems, and every number of faults, events, reboots and power losses.  *)
(***************************************************************************)
EXTENDS MCUpdate, TLAPS

-----------------------------------------------------------------------------
(* One disk.  A marked update is there, whole and durable, and so is the   *)
(* tree that runs; when there is none, both trees are in the staging area. *)
Sound(x) ==
  /\ x \in Disk
  /\ x.fin.consistent => Exists(x.fin) /\ x.fin.whole /\ x.fin.synced
  /\ Exists(x.dir) => x.dir.whole /\ x.dir.synced
  /\ ~Exists(x.dir) => x.fin.consistent /\ x.old.whole /\ x.old.synced

(* The slot that runs is complete, and a hash tells what its system is.    *)
Vouched(y) ==
  /\ y.slot[active].boot = y.slot[active].system
  /\ y.slot[active].system # "junk"
  /\ \A s \in Slots : y.slot[s].hash # "clear" => y.slot[s].system = y.slot[s].hash

(* System w runs, or is all there in the other slot.                       *)
Bootable(w, y) ==
  \/ w = y.slot[active].system
  \/ /\ y.slot[Other(active)].boot = w
     /\ y.slot[Other(active)].system = w
     /\ y.slot[Other(active)].hash = w

(* The tree in place wants another system than the one that runs.          *)
Misfit(x) == Exists(x.dir) /\ AgnosOf[x.dir.ver] # fs.slot[active].system

(* fs and the platter agree on what runs, and whatever a power loss makes  *)
(* of the two can be installed.  A tree that does not fit is the update    *)
(* itself, half way through its installation.                              *)
DiskInv ==
  /\ active \in Slots /\ booted = active
  /\ Sound(fs) /\ Sound(platter)
  /\ Vouched(fs) /\ Vouched(platter)
  /\ fs.slot[active] = platter.slot[active]
  /\ \A x, y \in {fs, platter} : x.fin.consistent => Bootable(AgnosOf[x.fin.ver], y)
  /\ fs.fin.consistent /\ platter.fin.consistent => fs.fin.ver = platter.fin.ver
  /\ \A x \in {fs, platter} : Misfit(x) => ~x.fin.consistent
  /\ Misfit(fs) /\ platter.fin.consistent => AgnosOf[platter.fin.ver] = AgnosOf[fs.dir.ver]

Unmarked == ~fs.fin.consistent /\ ~platter.fin.consistent

(* How far the flashing of system w is.                                    *)
Flashing(w) ==
  /\ flash \in {"system", "erased", "imaging", "imaged", "flashed"} => Target.boot = w
  /\ flash \in {"erased", "imaging", "imaged"} =>
       Target.hash = "clear" /\ platter.slot[get_target_slot_number].hash = "clear"
  /\ flash = "imaged" => Target.system = w
  /\ flash = "flashed" => Target.hash = w

(* The steps between withdrawing an update and marking the next.           *)
Staging == {"reset", "agnos", "flash", "finalize", "copy", "copied", "mark"}

(* What the updater holds at its steps.                                    *)
UpdaterInv ==
  /\ merged \in Tree /\ ~merged.consistent
  /\ flash \in FlashStages
  /\ heads \in [Branches -> Versions] /\ UpdaterTargetBranch \in Branches \union {"none"}
  /\ machine = "up" =>
       /\ Exists(fs.dir) /\ ~Misfit(fs)
       /\ up_pc \in {"wipe", "mount"} \union Staging => Unmarked /\ ~UpdateAvailable
       /\ up_pc = "mount" => ~Exists(fs.old)
       /\ up_pc \in {"params", "check", "decide", "fetch"} \union Staging => Exists(merged)
       /\ up_pc \in {"agnos", "flash", "finalize", "copy", "copied", "mark"} => merged.whole
       /\ up_pc = "flash" => Flashing(AgnosOf[merged.ver])
       /\ up_pc \in {"finalize", "copy", "copied", "mark"} => Bootable(AgnosOf[merged.ver], fs)
       /\ up_pc \in {"copied", "mark"} => fs.fin.ver = merged.ver
       /\ up_pc = "mark" => fs.fin.whole
       /\ up_pc = "main" => ~UpdateAvailable /\ ~Exists(merged)
       /\ UpdateAvailable => fs.fin.consistent
       /\ up_pc # "main" /\ (Exists(merged) \/ fs.fin.consistent) => ~Exists(fs.old)

(* What the boot has made sure of.                                         *)
BootInv ==
  /\ machine \in {"launch", "moved", "agnos", "updater", "swap", "up"}
  /\ machine \notin {"launch", "moved"} => Exists(fs.dir)
  /\ machine = "moved" => fs.fin.consistent
  /\ machine = "updater" => Unmarked /\ Misfit(fs) /\ Flashing(Wanted)
  /\ machine = "swap" =>
       /\ Misfit(fs)
       /\ Target.boot = Wanted /\ Target.system = Wanted
       /\ Target.hash = "clear" => Unmarked /\ platter.slot = fs.slot

(* The update that was on offer is still to be installed, is, or lies in   *)
(* the staging area of a device without a tree.                            *)
Pending(x) ==
  x.dir.init = "newest" /\ x.fin.consistent /\ x.fin.ver = promised /\ ~Exists(x.old)
Installed(x) == x.dir.ver = promised /\ ~x.fin.consistent

PromiseInv ==
  promised # "none" =>
    /\ \A x \in {fs, platter} : Exists(x.dir) => Pending(x) \/ Installed(x)
    /\ machine = "moved" => fs.fin.ver = promised
    /\ machine \in {"agnos", "updater", "swap", "up"} => Installed(fs)

(* A request is awake until a pass begins.                                 *)
RequestInv ==
  /\ asked => machine = "up"
  /\ asked /\ up_pc \notin {"paused", "top"} => ready_event

UpdateInv == DiskInv /\ UpdaterInv /\ BootInv /\ PromiseInv /\ RequestInv
-----------------------------------------------------------------------------
(* A request is awake from the tap to the next pass, whatever the updater, *)
(* the boot and the power do.                                              *)
LEMMA RequestNext == ASSUME RequestInv, [Next]_vars PROVE RequestInv'
<1>1. CASE UpStep
  <2>1. ASSUME Pass PROVE RequestInv'
    BY <1>1, <2>1, Zenon
       DEF RequestInv, UpStep, bootVars, Pass, main, top, init_kept, init_overlay, wipe, mount, params,
           check_for_update, decide, fetch_update, reset, handle_agnos_update, flash_agnos_update,
           finalize_update, finalized, settle, wake, Goto, helperVars, Resting
  <2>2. QED
    BY <1>1, <2>1 DEF RequestInv, UpStep, UpNext, report, Fault, Fails, Offline, FlashRetry, Goto,
                 helperVars, bootVars
<1>2. CASE BootStep
  BY <1>2 DEF RequestInv, BootStep, BootNext, launch, start_manager, agnos_init, swap, At, histVars,
              upVars, helperVars
<1>3. CASE SetClock \/ Push \/ _on_pause_updates
  BY <1>3 DEF RequestInv, SetClock, Push, _on_pause_updates, Event, helperVars, bootVars, histVars
<1>4. CASE _on_download_update \/ _on_select_branch
  BY <1>4 DEF RequestInv, _on_download_update, _on_select_branch, Event, Signal, bootVars
<1>5. CASE Develop
  BY <1>5 DEF RequestInv, Develop, Event, upVars, helperVars, bootVars
<1>6. CASE Reboot \/ PowerLoss
  BY <1>6 DEF RequestInv, Reboot, PowerLoss
<1>7. CASE UNCHANGED vars
  BY <1>7 DEF RequestInv, vars, upVars, helperVars, bootVars, histVars
<1>8. QED
  BY <1>1, <1>2, <1>3, <1>4, <1>5, <1>6, <1>7 DEF Next

(* The parts of a disk, and what a sync and a power loss make of a tree.   *)
LEMMA DiskParts ==
  ASSUME NEW d \in Disk
  PROVE  d.dir \in Tree /\ d.fin \in Tree /\ d.old \in Tree /\ d.slot \in [Slots -> Slot]
BY DEF Disk

LEMMA DurableTree ==
  ASSUME NEW t \in Tree
  PROVE  /\ Durable(t) \in Tree /\ Durable(t).synced = TRUE
         /\ Durable(t).ver = t.ver /\ Durable(t).whole = t.whole
         /\ Durable(t).consistent = t.consistent /\ Durable(t).init = t.init
BY DEF Durable, Tree

LEMMA TornTree ==
  ASSUME NEW t \in Tree
  PROVE  /\ Torn(t) \in Tree /\ Torn(t).synced = TRUE
         /\ Torn(t).ver = t.ver /\ Torn(t).whole = (t.whole /\ t.synced)
         /\ Torn(t).consistent = t.consistent /\ Torn(t).init = t.init
<1> DEFINE w == t.whole /\ t.synced
<1>1. w \in BOOLEAN /\ Torn(t) = [t EXCEPT !.whole = w, !.synced = TRUE]
  BY DEF Torn, Tree
<1> HIDE DEF w
<1>2. /\ Torn(t) \in Tree /\ Torn(t).synced = TRUE
      /\ Torn(t).ver = t.ver /\ Torn(t).whole = w
      /\ Torn(t).consistent = t.consistent /\ Torn(t).init = t.init
  BY <1>1 DEF Tree
<1>3. QED
  BY <1>2, Zenon DEF w

LEMMA SyncedDisk ==
  ASSUME NEW d \in Disk
  PROVE  /\ Synced(d) \in Disk /\ Synced(d).slot = d.slot
         /\ Synced(d).dir = Durable(d.dir) /\ Synced(d).fin = Durable(d.fin)
         /\ Synced(d).old = Durable(d.old)
<1>1. Durable(d.dir) \in Tree /\ Durable(d.fin) \in Tree /\ Durable(d.old) \in Tree
  BY DiskParts, DurableTree
<1>2. QED
  BY <1>1 DEF Synced, Disk

LEMMA LeftoverDisk ==
  ASSUME NEW x \in Disk, NEW y \in Disk
  PROVE  /\ Leftover(x, y) \in Disk /\ Leftover(x, y).slot = y.slot
         /\ Leftover(x, y).dir = Torn(x.dir) /\ Leftover(x, y).fin = Torn(x.fin)
         /\ Leftover(x, y).old = Torn(x.old)
<1>1. /\ Torn(x.dir) \in Tree /\ Torn(x.fin) \in Tree /\ Torn(x.old) \in Tree
      /\ y.slot \in [Slots -> Slot]
  BY DiskParts, TornTree
<1>2. QED
  BY <1>1 DEF Leftover, Disk

(* After a sync and after a power loss there is one disk to speak of.      *)
LEMMA OneDisk ==
  ASSUME active' \in Slots, booted' = active', platter' = fs', Sound(fs)', Vouched(fs)',
         fs'.fin.consistent => Bootable(AgnosOf[fs.fin.ver], fs)',
         Misfit(fs)' => ~fs'.fin.consistent
  PROVE  DiskInv'
BY DEF DiskInv, Sound, Vouched, Bootable, Misfit

(* A write to the trees that leaves the slots and the mark of the          *)
(* finalized tree alone, or takes that mark away.                          *)
LEMMA TreesOnly ==
  ASSUME DiskInv, UNCHANGED <<platter, active, booted>>, fs'.slot = fs.slot,
         fs'.fin.consistent => fs'.fin = fs.fin, Sound(fs)',
         Misfit(fs)' => ~fs'.fin.consistent,
         Misfit(fs)' /\ platter.fin.consistent => AgnosOf[platter.fin.ver] = AgnosOf[fs'.dir.ver]
  PROVE  DiskInv'
<1>1. active' \in Slots /\ booted' = active' /\ fs'.slot[active'] = platter'.slot[active']
  BY DEF DiskInv
<1>2. Vouched(fs)' /\ Vouched(platter)'
  BY Zenon DEF DiskInv, Vouched
<1>3. Sound(platter)'
  BY Zenon DEF DiskInv, Sound, Exists
<1>4. \A x \in {fs', platter'} : x.fin.consistent => \E u \in {fs, platter} : u.fin = x.fin
  BY Zenon
<1>5. \A y \in {fs', platter'} : \E v \in {fs, platter} : v.slot = y.slot
  BY Zenon
<1>6. (\A x, y \in {fs, platter} : x.fin.consistent => Bootable(AgnosOf[x.fin.ver], y))'
  <2> SUFFICES ASSUME NEW x \in {fs', platter'}, NEW y \in {fs', platter'}, x.fin.consistent
               PROVE  Bootable(AgnosOf[x.fin.ver], y)'
    BY Zenon DEF Bootable
  <2>1. PICK u \in {fs, platter} : u.fin = x.fin
    BY <1>4
  <2>2. PICK v \in {fs, platter} : v.slot = y.slot
    BY <1>5
  <2>3. Bootable(AgnosOf[u.fin.ver], v)
    BY <2>1, Zenon DEF DiskInv
  <2>4. QED
    BY <2>1, <2>2, <2>3 DEF Bootable
<1>7. (fs.fin.consistent /\ platter.fin.consistent => fs.fin.ver = platter.fin.ver)'
  BY DEF DiskInv
<1>8. Misfit(platter)' => ~platter'.fin.consistent
  BY DEF DiskInv, Misfit
<1>9. QED
  BY <1>1, <1>2, <1>3, <1>6, <1>7, <1>8, Zenon DEF DiskInv

(* The invariant holds on a device as it leaves the factory.               *)
LEMMA UpdateInit == Init => UpdateInv
<1> SUFFICES ASSUME Init PROVE UpdateInv
  OBVIOUS
<1>1. fs \in Disk /\ active = "a" /\ booted = "a" /\ platter = fs
  <2> DEFINE slot == [boot |-> AgnosOf[Factory], system |-> AgnosOf[Factory], hash |-> "clear"]
  <2>1. AgnosOf[Factory] \in OSes /\ Factory \in Versions
    BY UpdateAssumption DEF OSes
  <2>2. slot \in Slot
    BY <2>1 DEF Slot
  <2> DEFINE dir == [NoTree EXCEPT !.ver = Factory, !.whole = TRUE]
  <2>3. NoTree \in Tree /\ dir \in Tree
    BY <2>1 DEF NoTree, Tree
  <2>4. /\ fs = [dir |-> dir, fin |-> NoTree, old |-> NoTree, slot |-> [s \in Slots |-> slot]]
        /\ active = "a" /\ booted = "a" /\ platter = fs
    BY DEF Init, update_init
  <2> HIDE DEF dir, slot
  <2>5. QED
    BY <2>2, <2>3, <2>4 DEF Disk
<1>2. /\ fs.dir.ver = Factory /\ fs.dir.whole /\ fs.dir.synced /\ ~fs.fin.consistent
      /\ \A s \in Slots :
           fs.slot[s] = [boot |-> AgnosOf[Factory], system |-> AgnosOf[Factory], hash |-> "clear"]
  BY DEF Init, update_init, NoTree
<1>3. DiskInv
  BY <1>1, <1>2, VersionsAssumption, UpdateAssumption
  DEF DiskInv, Sound, Vouched, Misfit, Exists, Slots
<1>4. UpdaterInv
  BY VersionsAssumption, UpdateAssumption
  DEF Init, UpInit, UpdaterInv, NoTree, Tree, FlashStages
<1>5. BootInv /\ PromiseInv /\ RequestInv
  BY <1>1, VersionsAssumption, UpdateAssumption
  DEF Init, update_init, BootInv, PromiseInv, RequestInv
<1>6. QED
  BY <1>3, <1>4, <1>5 DEF UpdateInv

(* What set_consistent_flag does to each tree: its sync makes all of them  *)
(* durable, and only the mark of the finalized one changes.                *)
LEMMA FlagFields ==
  ASSUME fs \in Disk, NEW c \in BOOLEAN, set_consistent_flag(c)
  PROVE  /\ fs' \in Disk /\ platter' = fs' /\ fs'.slot = fs.slot
         /\ fs'.dir = Durable(fs.dir) /\ fs'.old = Durable(fs.old)
         /\ fs'.fin = [Durable(fs.fin) EXCEPT !.consistent = c /\ Exists(fs.fin)]
<1>1. PICK m \in BOOLEAN : m = (c /\ Exists(fs.fin))
  BY Zenon
<1> DEFINE fin == [fs.fin EXCEPT !.consistent = m]
<1>2. fs.fin \in Tree /\ fin \in Tree /\ Durable(fin) = [Durable(fs.fin) EXCEPT !.consistent = m]
  BY DiskParts DEF Tree, Durable
<1> DEFINE d == [fs EXCEPT !.fin = fin]
<1>3. fs' = Synced(d) /\ platter' = fs'
  BY <1>1 DEF set_consistent_flag, sync
<1> HIDE DEF fin
<1>4. d \in Disk /\ d.dir = fs.dir /\ d.fin = fin /\ d.old = fs.old /\ d.slot = fs.slot
  BY <1>2 DEF Disk
<1> HIDE DEF d
<1>5. QED
  BY <1>1, <1>2, <1>3, <1>4, SyncedDisk

(* A mark may be withdrawn at any moment while there is a tree to run.     *)
LEMMA UnflagDisk == ASSUME DiskInv, set_consistent_flag(FALSE), Exists(fs.dir), UNCHANGED <<active, booted>>
  PROVE DiskInv'
<1>1. fs \in Disk
  BY DEF DiskInv, Sound
<1>2. /\ fs' \in Disk /\ platter' = fs' /\ fs'.slot = fs.slot
      /\ fs'.dir = Durable(fs.dir) /\ fs'.old = Durable(fs.old)
      /\ fs'.fin = [Durable(fs.fin) EXCEPT !.consistent = FALSE]
  BY <1>1, FlagFields
<1>3. /\ fs'.dir.ver = fs.dir.ver /\ fs'.dir.whole = fs.dir.whole /\ fs'.dir.synced
  BY <1>1, <1>2, DiskParts, DurableTree
<1>4. ~fs'.fin.consistent
  BY <1>1, <1>2, DiskParts, DurableTree DEF Tree
<1>5. Sound(fs)' /\ Vouched(fs)' /\ active' \in Slots /\ booted' = active'
  BY <1>1, <1>2, <1>3, <1>4 DEF DiskInv, Sound, Vouched, Exists
<1>6. QED
  BY <1>2, <1>4, <1>5, OneDisk

(* A step that leaves the disk and the slots alone keeps what is said of   *)
(* them.                                                                   *)
LEMMA DiskSame == ASSUME DiskInv, UNCHANGED diskVars PROVE DiskInv'
<1>1. Sound(fs)' /\ (Misfit(fs)' => Misfit(fs))
  BY Zenon DEF DiskInv, diskVars, Sound, Misfit, Exists
<1>2. Misfit(fs) /\ platter.fin.consistent => AgnosOf[platter.fin.ver] = AgnosOf[fs.dir.ver]
  BY DEF DiskInv
<1>3. Misfit(fs) => ~fs.fin.consistent
  BY DEF DiskInv
<1>4. QED
  BY <1>1, <1>2, <1>3, TreesOnly DEF diskVars

(* The steps of a pass that write nothing to the disk.  set_params offers  *)
(* an update only when one is marked.                                      *)
LEMMA QuietSteps ==
  ASSUME DiskInv, UpdaterInv, machine = "up", UNCHANGED <<active, booted, bootVars, worldVars>>,
         \/ top \/ init_kept \/ params \/ check_for_update \/ decide \/ reset \/ settle \/ wake
         \/ report \/ Offline \/ FlashRetry
  PROVE DiskInv' /\ UpdaterInv'
<1>1. CASE top \/ init_kept \/ check_for_update \/ decide \/ settle \/ wake \/ Offline
  BY <1>1, DiskSame
     DEF diskVars, UpdaterInv, top, init_kept, check_for_update, decide, settle, wake, Offline, bootVars,
         worldVars, paramVars, disk, Goto, Unmarked, Misfit, Exists, Staging, Resting, ValidOverlay
<1>2. ASSUME set_params PROVE UpdaterTargetBranch' \in Branches /\ (UpdateAvailable' => fs.fin.consistent)
  BY <1>2, VersionsAssumption DEF set_params, target_branch, update_ready, UpdaterInv, DiskInv, Sound,
       Disk, Tree, Exists
<1>3. CASE params
  BY <1>2, <1>3, DiskSame
     DEF params, diskVars, UpdaterInv, bootVars, worldVars, disk, Goto, Unmarked, Misfit, Exists, Staging
<1>4. CASE report
  BY <1>2, <1>4, DiskSame
     DEF report, diskVars, UpdaterInv, bootVars, worldVars, paramVars, disk, Goto, Unmarked, Misfit,
         Exists, Staging
<1>5. CASE reset
  <2>1. merged' \in Tree /\ merged'.ver = merged.ver /\ merged'.whole /\ ~merged'.consistent
    BY <1>5 DEF reset, UpdaterInv, Tree
  <2>2. QED
    BY <2>1, <1>5, DiskSame
       DEF reset, diskVars, UpdaterInv, bootVars, worldVars, paramVars, disk, Goto, Unmarked, Misfit,
           Exists, Staging
<1>6. CASE FlashRetry
  <2>1. flash' \in FlashStages /\ flash' \in {"boot", "system"}
    BY <1>6 DEF FlashRetry, Retried, FlashStages
  <2>2. ASSUME NEW w, Flashing(w) PROVE Flashing(w)'
    BY <2>1, <2>2, <1>6 DEF Flashing, Target, get_target_slot_number, FlashRetry, Goto, disk, Retried,
         UpdaterInv, FlashStages
  <2>3. QED
    BY <2>1, <2>2, <1>6, DiskSame
       DEF FlashRetry, diskVars, UpdaterInv, bootVars, worldVars, paramVars, disk, Goto, Unmarked, Misfit,
           Exists, Staging
<1>7. QED
  BY <1>1, <1>3, <1>4, <1>5, <1>6

(* The steps that withdraw the mark: at the start, before the overlay is   *)
(* built anew, before a fetch, and before the copy.                        *)
LEMMA UnflagSteps ==
  ASSUME DiskInv, UpdaterInv, machine = "up", UNCHANGED <<active, booted, bootVars, worldVars>>,
         main \/ init_overlay \/ fetch_update \/ (finalize_update /\ Goto("finalize", "copy"))
  PROVE DiskInv' /\ UpdaterInv'
<1>1. set_consistent_flag(FALSE)
  BY DEF main, init_overlay, fetch_update, finalize_update, Goto
<1>2. DiskInv'
  BY <1>1, UnflagDisk DEF UpdaterInv
<1>3. /\ fs' \in Disk /\ platter' = fs' /\ fs'.slot = fs.slot
      /\ fs'.dir = Durable(fs.dir) /\ fs'.old = Durable(fs.old)
      /\ fs'.fin = [Durable(fs.fin) EXCEPT !.consistent = FALSE]
  BY <1>1, FlagFields DEF DiskInv, Sound
<1>4. /\ fs'.dir.ver = fs.dir.ver /\ fs'.old.ver = fs.old.ver 
      /\ ~fs'.fin.consistent /\ ~platter'.fin.consistent
  BY <1>3 DEF Durable, Disk, Tree, DiskInv, Sound
<1>5. CASE main
  BY <1>3, <1>4, <1>5, <1>2
     DEF main, UpdaterInv, bootVars, worldVars, paramVars, disk, Goto, Unmarked, Misfit, Exists, Staging
<1>6. CASE init_overlay
  BY <1>3, <1>4, <1>6, <1>2, VersionsAssumption
     DEF init_overlay, NoTree, Tree, UpdaterInv, bootVars, worldVars, paramVars, disk, Goto, Unmarked,
         Misfit, Exists, Staging
<1>7. CASE fetch_update
  <2>1. target_branch \in Branches
    BY VersionsAssumption DEF target_branch, UpdaterInv, DiskInv, Sound, Disk, Tree, Exists
  <2>2. heads[target_branch] \in Versions
    BY <2>1 DEF UpdaterInv
  <2>3. merged' \in Tree /\ merged'.ver # "none" /\ ~merged'.consistent
    <3> DEFINE v == heads[target_branch]
    <3>1. merged \in Tree /\ ~merged.consistent /\ v \in Versions
      BY <2>2 DEF UpdaterInv
    <3>2. merged' = [merged EXCEPT !.ver = v, !.whole = FALSE]
      BY <1>7 DEF fetch_update
    <3> HIDE DEF v
    <3>3. QED
      BY <3>1, <3>2, VersionsAssumption DEF Tree
  <2>4. QED
    BY <2>3, <1>3, <1>4, <1>7, <1>2
       DEF fetch_update, UpdaterInv, bootVars, worldVars, paramVars, disk, Goto, Unmarked, Misfit, Exists,
           Staging
<1>8. CASE finalize_update /\ Goto("finalize", "copy")
  <2>1. Bootable(AgnosOf[merged.ver], fs) => Bootable(AgnosOf[merged.ver], fs)'
    BY <1>3, <1>8 DEF Bootable, finalize_update
  <2>2. QED
    BY <2>1, <1>3, <1>4, <1>8, <1>2
       DEF finalize_update, UpdaterInv, bootVars, worldVars, paramVars, disk, Goto, Unmarked, Misfit,
           Exists, Staging
<1>9. QED
  BY <1>5, <1>6, <1>7, <1>8

(* Writes of the staging area alone keep a disk whose mark is withdrawn.   *)
LEMMA StagingDisk ==
  ASSUME DiskInv, Unmarked, Exists(fs.dir), fs' \in Disk, UNCHANGED <<platter, active, booted>>,
         fs'.slot = fs.slot, fs'.dir.ver = fs.dir.ver, fs'.dir.whole = fs.dir.whole,
         fs'.dir.synced = fs.dir.synced,
         ~fs'.fin.consistent
  PROVE DiskInv'
BY DEF DiskInv, Unmarked, Sound, Vouched, Misfit, Exists, Bootable

(* The wipe of the staging area and the copy into it.                      *)
LEMMA StagingSteps ==
  ASSUME DiskInv, UpdaterInv, machine = "up", UNCHANGED <<active, booted, bootVars, worldVars>>,
         wipe \/ (finalize_update /\ up_pc \in {"copy", "copied"})
  PROVE DiskInv' /\ UpdaterInv'
<1>1. /\ fs \in Disk /\ fs.fin \in Tree /\ fs.old \in Tree
      /\ ~fs.fin.consistent /\ Unmarked /\ merged \in Tree /\ ~merged.consistent /\ Exists(fs.dir)
  BY DEF DiskInv, Sound, UpdaterInv, wipe, finalize_update, Staging, Goto, Unmarked, Disk
<1>2. ASSUME NEW fin \in Tree, ~fin.consistent, NEW old \in Tree,
             fs' = [fs EXCEPT !.fin = fin, !.old = old]
      PROVE  /\ fs' \in Disk /\ fs'.dir = fs.dir /\ fs'.slot = fs.slot
             /\ fs'.fin = fin /\ fs'.old = old
  BY <1>1, <1>2 DEF Disk
<1>3. CASE wipe
  <2>0. /\ up_pc = "wipe" /\ up_pc' \in {"wipe", "mount"} /\ UNCHANGED platter
        /\ UNCHANGED <<merged, flash, loopVars, helperVars, branches, paramVars>>
    BY <1>3 DEF wipe, Goto, Write
  <2>1. /\ fs' \in Disk /\ fs'.dir = fs.dir /\ fs'.slot = fs.slot /\ ~fs'.fin.consistent
        /\ fs'.old.ver \in {fs.old.ver, "none"} /\ (up_pc' = "mount" => fs'.old.ver = "none")
    <3>1. CASE up_pc' = "wipe"
      <4> DEFINE fin == [fs.fin EXCEPT !.whole = FALSE]
                 old == [fs.old EXCEPT !.whole = FALSE]
      <4>1. fin \in Tree /\ ~fin.consistent /\ old \in Tree /\ old.ver = fs.old.ver
        BY <1>1 DEF Tree
      <4>2. fs' = [fs EXCEPT !.fin = fin, !.old = old]
        BY <1>3, <1>1, <3>1 DEF wipe, Goto, Write, Disk
      <4> HIDE DEF fin, old
      <4>3. QED
        BY <1>2, <3>1, <4>1, <4>2
    <3>2. CASE up_pc' = "mount"
      <4>1. NoTree \in Tree /\ ~NoTree.consistent /\ NoTree.ver = "none"
        BY DEF NoTree, Tree
      <4>2. fs' = [fs EXCEPT !.fin = NoTree, !.old = NoTree]
        BY <1>3, <1>1, <3>2 DEF wipe, Goto, Write
      <4>3. QED
        BY <1>2, <3>2, <4>1, <4>2
    <3>3. QED
      BY <2>0, <3>1, <3>2
  <2>2. DiskInv'
    BY <1>1, <2>0, <2>1, StagingDisk
  <2>3. QED
    BY <1>1, <2>0, <2>1, <2>2
       DEF UpdaterInv, bootVars, worldVars, paramVars, Unmarked, Misfit, Exists, Staging
<1>4. CASE finalize_update /\ up_pc \in {"copy", "copied"}
  <2>0. /\ up_pc' = IF up_pc = "copy" THEN "copied" ELSE "mark"
        /\ UNCHANGED platter
        /\ UNCHANGED <<merged, flash, loopVars, helperVars, branches, paramVars>>
    BY <1>4 DEF finalize_update, Goto, Write
  <2>1. /\ fs' \in Disk /\ fs'.dir = fs.dir /\ fs'.slot = fs.slot /\ ~fs'.fin.consistent
        /\ fs'.old = fs.old /\ fs'.fin.ver = merged.ver /\ (up_pc' = "mark" => fs'.fin.whole = merged.whole)
    <3>1. CASE up_pc = "copy"
      <4> DEFINE fin == [merged EXCEPT !.whole = FALSE, !.synced = FALSE]
      <4>1. fin \in Tree /\ ~fin.consistent /\ fin.ver = merged.ver
        BY <1>1 DEF Tree
      <4>2. fs' = [fs EXCEPT !.fin = fin, !.old = fs.old]
        BY <1>4, <1>1, <3>1 DEF finalize_update, Goto, Write, Disk
      <4> HIDE DEF fin
      <4>3. QED
        BY <1>1, <1>2, <2>0, <3>1, <4>1, <4>2
    <3>2. CASE up_pc = "copied"
      <4> DEFINE fin == [fs.fin EXCEPT !.whole = merged.whole]
      <4>1. fin \in Tree /\ ~fin.consistent /\ fin.ver = merged.ver /\ fin.whole = merged.whole
        <5>1. fs.fin.ver = merged.ver /\ merged.whole \in BOOLEAN
          BY <1>1, <3>2 DEF UpdaterInv, Tree
        <5>2. QED
          BY <1>1, <5>1 DEF Tree
      <4>2. fs' = [fs EXCEPT !.fin = fin, !.old = fs.old]
        BY <1>4, <1>1, <3>2 DEF finalize_update, Goto, Write, Disk
      <4> HIDE DEF fin
      <4>3. QED
        BY <1>1, <1>2, <2>0, <3>2, <4>1, <4>2
    <3>3. QED
      BY <1>4, <3>1, <3>2
  <2>2. DiskInv'
    BY <1>1, <2>0, <2>1, StagingDisk
  <2>3. Bootable(AgnosOf[merged.ver], fs) => Bootable(AgnosOf[merged.ver], fs)'
    BY <2>0, <2>1 DEF Bootable
  <2>4. QED
    BY <1>1, <1>4, <2>0, <2>1, <2>2, <2>3
       DEF UpdaterInv, bootVars, worldVars, paramVars, Unmarked, Misfit, Exists, Staging
<1>5. QED
  BY <1>3, <1>4

(* The mount puts the canary down and the overlay shows the tree that      *)
(* runs.                                                                   *)
LEMMA MountKeeps ==
  ASSUME DiskInv, UpdaterInv, machine = "up", UNCHANGED <<active, booted, bootVars, worldVars>>, mount
  PROVE DiskInv' /\ UpdaterInv'
<1>1. /\ fs \in Disk /\ fs.dir \in Tree /\ fs.fin \in Tree /\ fs.old \in Tree
      /\ Unmarked /\ Exists(fs.dir) /\ fs.dir.whole
  BY DEF DiskInv, Sound, UpdaterInv, mount, Goto, Disk
<1> DEFINE dir == [fs.dir EXCEPT !.consistent = FALSE, !.init = "newest", !.synced = TRUE]
<1>2. /\ dir \in Tree /\ dir.ver = fs.dir.ver /\ dir.whole = fs.dir.whole /\ dir.synced /\ ~dir.consistent
      /\ Durable(fs.fin) \in Tree /\ Durable(fs.fin).consistent = fs.fin.consistent
      /\ Durable(fs.old) \in Tree /\ Durable(fs.old).ver = fs.old.ver
  BY <1>1 DEF Tree, Durable
<1>3. /\ fs' = [fs EXCEPT !.dir = dir, !.fin = Durable(fs.fin), !.old = Durable(fs.old)]
      /\ platter' = fs'
  BY <1>1 DEF mount, sync, Synced, Durable, Disk, Tree
<1> HIDE DEF dir
<1>4. /\ fs' \in Disk /\ platter' = fs' /\ fs'.slot = fs.slot /\ fs'.dir = dir
      /\ ~fs'.fin.consistent /\ fs'.old.ver = fs.old.ver
  BY <1>1, <1>2, <1>3 DEF Disk, Unmarked
<1>5. DiskInv'
  <2>1. Sound(fs)'
    BY <1>1, <1>2, <1>4 DEF Sound, Exists
  <2>2. Vouched(fs)' /\ active' \in Slots /\ booted' = active'
    BY <1>4, Zenon DEF DiskInv, Vouched
  <2>3. QED
    BY <1>4, <2>1, <2>2, OneDisk
<1>6. QED
  BY <1>1, <1>2, <1>3, <1>4, <1>5
     DEF mount, Goto, UpdaterInv, bootVars, worldVars, paramVars, Unmarked, Misfit, Exists, Staging

(* A command that fails takes the canary away and nothing else.            *)
LEMMA FailsKeeps ==
  ASSUME DiskInv, UpdaterInv, machine = "up", UNCHANGED <<active, booted, bootVars, worldVars>>, Fails
  PROVE DiskInv' /\ UpdaterInv'
<1>1. fs \in Disk
  BY DEF DiskInv, Sound
<1>2. /\ fs' \in Disk /\ fs'.slot = fs.slot /\ fs'.fin = fs.fin /\ fs'.old = fs.old /\ platter' = platter
      /\ fs'.dir.ver = fs.dir.ver /\ fs'.dir.whole = fs.dir.whole /\ fs'.dir.synced = fs.dir.synced
  BY <1>1 DEF Fails, Write, Disk, Tree
<1>3. DiskInv'
  <2>1. Sound(fs)'
    BY <1>2 DEF DiskInv, Sound, Exists
  <2>2. Misfit(fs)' => Misfit(fs)
    BY <1>2 DEF Misfit, Exists
  <2>3. Misfit(fs) => ~fs.fin.consistent
    BY DEF DiskInv
  <2>4. Misfit(fs) /\ platter.fin.consistent => AgnosOf[platter.fin.ver] = AgnosOf[fs.dir.ver]
    BY DEF DiskInv
  <2>5. QED
    BY <1>2, <2>1, <2>2, <2>3, <2>4, TreesOnly
<1>4. QED
  BY <1>2, <1>3 DEF Fails, UpdaterInv, bootVars, worldVars, paramVars, Unmarked, Misfit, Exists, Staging

(* The mark is set on a whole copy whose AGNOS is there, and the sync      *)
(* before it makes that copy durable.                                      *)
LEMMA FinalizedKeeps ==
  ASSUME DiskInv, UpdaterInv, machine = "up", UNCHANGED <<active, booted, bootVars, worldVars>>, finalized
  PROVE DiskInv' /\ UpdaterInv'
<1>1. /\ fs \in Disk /\ Exists(fs.dir) /\ ~Misfit(fs) /\ Exists(fs.fin) /\ fs.fin.whole /\ ~Exists(fs.old)
      /\ ~UpdateAvailable /\ Bootable(AgnosOf[fs.fin.ver], fs)
  BY DEF DiskInv, Sound, UpdaterInv, finalized, Goto, Staging, Exists
<1>2. /\ fs' \in Disk /\ platter' = fs' /\ fs'.slot = fs.slot
      /\ fs'.dir = Durable(fs.dir) /\ fs'.old = Durable(fs.old)
      /\ fs'.fin = [Durable(fs.fin) EXCEPT !.consistent = TRUE]
  BY <1>1, FlagFields DEF finalized
<1>3. /\ fs'.dir.ver = fs.dir.ver /\ fs'.dir.whole = fs.dir.whole /\ fs'.dir.synced
      /\ fs'.old.ver = fs.old.ver
      /\ fs'.fin.ver = fs.fin.ver /\ fs'.fin.whole /\ fs'.fin.synced /\ fs'.fin.consistent
  BY <1>1, <1>2 DEF Durable, Disk, Tree
<1>4. Bootable(AgnosOf[fs.fin.ver], fs)'
  BY <1>1, <1>2, <1>3 DEF Bootable
<1>5. DiskInv'
  <2>1. Sound(fs)' /\ Vouched(fs)' /\ ~Misfit(fs)' /\ active' \in Slots /\ booted' = active'
    BY <1>1, <1>2, <1>3 DEF DiskInv, Sound, Vouched, Misfit, Exists
  <2>2. QED
    BY <1>2, <1>4, <2>1, OneDisk
<1>6. QED
  BY <1>1, <1>2, <1>3, <1>5
     DEF finalized, Goto, UpdaterInv, bootVars, worldVars, paramVars, Misfit, Exists, Staging

(* A write to the target slot keeps the disk, as long as its hash vouches  *)
(* for nothing else than its system and no marked update relies on it.     *)
LEMMA SlotDisk ==
  ASSUME DiskInv, Exists(fs.dir), UNCHANGED <<active, booted>>,
         NEW s \in Slot, s.hash # "clear" => s.system = s.hash,
         \/ Write(SetTarget(fs, s)) /\ Unmarked
         \/ sync(SetTarget(fs, s)) /\ ~fs.fin.consistent
  PROVE  /\ DiskInv' /\ Unmarked' /\ Target' = s /\ OS' = OS
         /\ sync(SetTarget(fs, s)) => platter'.slot = fs'.slot
         /\ fs'.dir.ver = fs.dir.ver /\ fs'.old.ver = fs.old.ver
         /\ platter'.dir.ver \in {platter.dir.ver, fs.dir.ver}
<1>1. /\ fs \in Disk /\ fs.dir \in Tree /\ fs.fin \in Tree /\ fs.old \in Tree
      /\ active \in Slots /\ Other(active) \in Slots /\ active # Other(active) /\ booted = active
  BY DEF DiskInv, Sound, Disk, Slots, Other
<1> DEFINE d == SetTarget(fs, s)
<1>2. /\ d \in Disk /\ d.dir = fs.dir /\ d.fin = fs.fin /\ d.old = fs.old
      /\ d.slot[active] = fs.slot[active] /\ d.slot[Other(active)] = s
  BY <1>1 DEF SetTarget, get_target_slot_number, Disk
<1>3. /\ Synced(d) \in Disk /\ Synced(d).slot = d.slot
      /\ Synced(d).dir = Durable(d.dir) /\ Synced(d).fin = Durable(d.fin) /\ Synced(d).old = Durable(d.old)
  <2> HIDE DEF d
  <2>1. QED
    BY <1>2 DEF Synced, Durable, Disk, Tree
<1>4. Slots = {active, Other(active)}
  BY <1>1 DEF Slots, Other
<1>5. CASE Write(d) /\ Unmarked
  <2>1. fs' = d /\ platter' = platter
    BY <1>5 DEF Write
  <2> HIDE DEF d
  <2>2. Sound(fs)' /\ Sound(platter)'
    BY <1>1, <1>2, <2>1 DEF DiskInv, Sound, Exists
  <2>3. Vouched(fs)' /\ Vouched(platter)'
    BY <1>1, <1>2, <1>4, <2>1 DEF DiskInv, Vouched
  <2>4. ~fs'.fin.consistent /\ ~platter'.fin.consistent /\ fs'.slot[active'] = platter'.slot[active']
    BY <1>1, <1>2, <1>5, <2>1 DEF DiskInv, Unmarked
  <2>5. DiskInv'
    BY <1>1, <2>2, <2>3, <2>4, Zenon DEF DiskInv
  <2>6. QED
    BY <1>1, <1>2, <1>5, <2>1, <2>5 DEF Unmarked, Target, get_target_slot_number, OS, sync
<1>6. CASE sync(d) /\ ~fs.fin.consistent
  <2>1. fs' = Synced(d) /\ platter' = Synced(d)
    BY <1>6 DEF sync
  <2> HIDE DEF d
  <2>2. /\ fs'.dir.ver = fs.dir.ver /\ fs'.dir.whole = fs.dir.whole /\ fs'.dir.synced
        /\ fs'.old.ver = fs.old.ver /\ fs'.fin.consistent = fs.fin.consistent
    BY <1>1, <1>2, <1>3, <2>1 DEF Durable, Tree
  <2>3. DiskInv'
    BY <1>1, <1>2, <1>3, <1>4, <1>6, <2>1, <2>2 DEF DiskInv, Sound, Vouched, Misfit, Exists
  <2>4. QED
    BY <1>1, <1>2, <1>3, <1>6, <2>1, <2>2, <2>3 DEF Unmarked, Target, get_target_slot_number, OS
<1>7. QED
  BY <1>5, <1>6

(* Every stage of flash_agnos_update keeps the disk and what the flashing  *)
(* has reached, whether the updater or the boot runs it.                   *)
LEMMA FlashKeeps ==
  ASSUME DiskInv, Unmarked, Exists(fs.dir), UNCHANGED <<active, booted>>,
         NEW w \in OSes, Flashing(w), flash \in FlashStages, flash' \in FlashStages,
         flash_partition(flash, w, flash')
  PROVE  /\ DiskInv' /\ Unmarked' /\ Flashing(w)' /\ OS' = OS
         /\ fs'.dir.ver = fs.dir.ver /\ fs'.old.ver = fs.old.ver
         /\ platter'.dir.ver \in {platter.dir.ver, fs.dir.ver}
<1>1. /\ Target \in Slot
      /\ Target.hash # "clear" => Target.system = Target.hash
      /\ w # "clear" /\ booted = active /\ platter.slot[get_target_slot_number] \in Slot
  BY VersionsAssumption
     DEF DiskInv, Sound, Vouched, Disk, Slots, Other, Target, get_target_slot_number, OSes
<1>2. CASE /\ UNCHANGED <<fs, platter>>
           /\ \/ flash' = "system" /\ Target.boot = w
              \/ flash = "system" /\ flash' = "flashed" /\ Target.hash = w
  <2>1. DiskInv' /\ Unmarked' /\ OS' = OS
    BY <1>2, DiskSame DEF diskVars, Unmarked, OS
  <2>2. QED
    BY <1>1, <1>2, <2>1 DEF Flashing, Target, get_target_slot_number
<1>3. ASSUME NEW s \in Slot, s.hash # "clear" => s.system = s.hash,
             \/ Write(SetTarget(fs, s)) /\ (flash' = "imaging" => flash = "erased")
             \/ sync(SetTarget(fs, s)),
             flash' \in {"system", "erased", "imaging", "imaged", "flashed"} => s.boot = w,
             flash' \in {"erased", "imaging", "imaged"} => s.hash = "clear",
             flash' \in {"erased", "imaged"} => sync(SetTarget(fs, s)),
             flash' = "imaged" => s.system = w,
             flash' = "flashed" => s.hash = w
      PROVE  /\ DiskInv' /\ Unmarked' /\ Flashing(w)' /\ OS' = OS
             /\ fs'.dir.ver = fs.dir.ver /\ fs'.old.ver = fs.old.ver
             /\ platter'.dir.ver \in {platter.dir.ver, fs.dir.ver}
  <2>1. /\ DiskInv' /\ Unmarked' /\ Target' = s /\ OS' = OS
        /\ sync(SetTarget(fs, s)) => platter'.slot = fs'.slot
        /\ fs'.dir.ver = fs.dir.ver /\ fs'.old.ver = fs.old.ver
        /\ platter'.dir.ver \in {platter.dir.ver, fs.dir.ver}
    <3>1. ~fs.fin.consistent
      BY DEF Unmarked
    <3>2. QED
      BY <1>3, <3>1, SlotDisk
  <2>2. Flashing(w)'
    BY <1>3, <2>1 DEF Flashing, Target, get_target_slot_number, Write
  <2>3. QED
    BY <2>1, <2>2
<1>4. CASE flash = "boot"
  <2>1. CASE Target.boot = w
    BY <1>2, <1>4, <2>1 DEF flash_partition
  <2>2. CASE Target.boot # w
    <3> DEFINE s == [Target EXCEPT !.boot = "junk"]
    <3>1. s \in Slot /\ s.hash = Target.hash /\ s.system = Target.system
      BY <1>1 DEF Slot
    <3>2. Write(SetTarget(fs, s)) /\ flash' = "booting"
      BY <1>4, <2>2 DEF flash_partition
    <3> HIDE DEF s
    <3>3. QED
      BY <1>1, <1>3, <3>1, <3>2
  <2>3. QED
    BY <2>1, <2>2
<1>5. CASE flash = "booting"
  <2> DEFINE s == [Target EXCEPT !.boot = w]
  <2>1. s \in Slot /\ s.boot = w /\ s.hash = Target.hash /\ s.system = Target.system
    BY <1>1 DEF Slot
  <2>2. sync(SetTarget(fs, s)) /\ flash' = "system"
    BY <1>5 DEF flash_partition
  <2> HIDE DEF s
  <2>3. QED
    BY <1>1, <1>3, <2>1, <2>2
<1>6. CASE flash = "system"
  <2>1. CASE Target.hash = w
    BY <1>2, <1>6, <2>1 DEF flash_partition
  <2>2. CASE Target.hash # w
    <3> DEFINE s == [Target EXCEPT !.hash = "clear"]
    <3>1. s \in Slot /\ s.hash = "clear" /\ s.boot = w
      BY <1>1, <1>6 DEF Slot, Flashing
    <3>2. sync(SetTarget(fs, s)) /\ flash' = "erased"
      BY <1>6, <2>2 DEF flash_partition, clear_partition_hash
    <3> HIDE DEF s
    <3>3. QED
      BY <1>3, <3>1, <3>2
  <2>3. QED
    BY <2>1, <2>2
<1>7. CASE flash = "erased"
  <2> DEFINE s == [Target EXCEPT !.system = "junk"]
  <2>1. s \in Slot /\ s.hash = "clear" /\ s.boot = w
    BY <1>1, <1>7 DEF Slot, Flashing
  <2>2. Write(SetTarget(fs, s)) /\ flash' = "imaging"
    BY <1>7 DEF flash_partition
  <2> HIDE DEF s
  <2>3. QED
    BY <1>3, <1>7, <2>1, <2>2
<1>8. CASE flash = "imaging"
  <2> DEFINE s == [Target EXCEPT !.system = w]
  <2>1. s \in Slot /\ s.hash = "clear" /\ s.boot = w /\ s.system = w
    BY <1>1, <1>8 DEF Slot, Flashing
  <2>2. sync(SetTarget(fs, s)) /\ flash' = "imaged"
    BY <1>8 DEF flash_partition
  <2> HIDE DEF s
  <2>3. QED
    BY <1>3, <2>1, <2>2
<1>9. CASE flash = "imaged"
  <2> DEFINE s == [Target EXCEPT !.hash = w]
  <2>1. s \in Slot /\ s.hash = w /\ s.boot = w /\ s.system = w
    BY <1>1, <1>9 DEF Slot, Flashing
  <2>2. Write(SetTarget(fs, s)) /\ flash' = "flashed"
    BY <1>9 DEF flash_partition
  <2> HIDE DEF s
  <2>3. QED
    BY <1>3, <2>1, <2>2
<1>10. QED
  BY <1>4, <1>5, <1>6, <1>7, <1>8, <1>9 DEF flash_partition, FlashStages

(* handle_agnos_update and the flashing: a tree goes on to be finalized    *)
(* only when its AGNOS runs or is all in the target slot.                  *)
LEMMA AgnosSteps ==
  ASSUME DiskInv, UpdaterInv, machine = "up", UNCHANGED <<active, booted, bootVars, worldVars>>,
         handle_agnos_update \/ flash_agnos_update
  PROVE DiskInv' /\ UpdaterInv'
<1> DEFINE w == AgnosOf[merged.ver]
<1>1. /\ fs \in Disk /\ Exists(fs.dir) /\ ~Misfit(fs) /\ Unmarked /\ ~UpdateAvailable /\ booted = active
      /\ Exists(merged) /\ merged.whole /\ merged \in Tree /\ ~Exists(fs.old)
      /\ flash \in FlashStages
  BY DEF handle_agnos_update, flash_agnos_update, Goto, DiskInv, Sound, UpdaterInv, Staging
<1>2. w \in OSes
  BY <1>1 DEF Tree, Exists, OSes
<1>3. CASE handle_agnos_update /\ up_pc' = "finalize"
  <2>1. DiskInv'
    BY <1>3, DiskSame DEF handle_agnos_update, Goto, diskVars, disk
  <2>2. Bootable(w, fs)'
    BY <1>1, <1>3 DEF handle_agnos_update, Goto, disk, OS, Bootable
  <2>3. QED
    BY <1>1, <1>3, <2>1, <2>2
       DEF handle_agnos_update, Goto, disk, UpdaterInv, bootVars, worldVars, paramVars, Unmarked, Misfit,
           Exists, Staging
<1>4. CASE handle_agnos_update /\ up_pc' = "flash"
  <2>1. set_consistent_flag(FALSE) /\ flash' = "boot"
    BY <1>4 DEF handle_agnos_update, Goto
  <2>2. DiskInv'
    BY <1>1, <2>1, UnflagDisk
  <2>3. /\ fs' \in Disk /\ platter' = fs' /\ fs'.slot = fs.slot
        /\ fs'.dir = Durable(fs.dir) /\ fs'.old = Durable(fs.old)
        /\ fs'.fin = [Durable(fs.fin) EXCEPT !.consistent = FALSE]
    BY <1>1, <2>1, FlagFields
  <2>4. /\ fs'.dir.ver = fs.dir.ver /\ fs'.old.ver = fs.old.ver
        /\ ~fs'.fin.consistent /\ ~platter'.fin.consistent
    BY <1>1, <2>3 DEF Durable, Disk, Tree
  <2>5. Flashing(w)'
    BY <2>1 DEF Flashing
  <2>6. QED
    BY <1>1, <1>4, <2>1, <2>2, <2>3, <2>4, <2>5
       DEF handle_agnos_update, Goto, UpdaterInv, bootVars, worldVars, paramVars, Unmarked, Misfit,
           Exists, Staging, FlashStages
<1>5. CASE flash_agnos_update /\ up_pc' = "finalize"
  <2>1. DiskInv'
    BY <1>5, DiskSame DEF flash_agnos_update, Goto, diskVars, disk
  <2>2. Target.boot = w /\ Target.hash = w
    BY <1>5 DEF flash_agnos_update, Goto, UpdaterInv, Flashing
  <2>3. Other(active) \in Slots /\ w # "clear"
    BY <1>2, VersionsAssumption DEF Slots, Other, OSes
  <2>4. Bootable(w, fs)'
    BY <1>1, <1>5, <2>2, <2>3
       DEF flash_agnos_update, Goto, disk, Bootable, DiskInv, Vouched, Target, get_target_slot_number
  <2>5. QED
    BY <1>1, <1>5, <2>1, <2>4
       DEF flash_agnos_update, Goto, disk, UpdaterInv, bootVars, worldVars, paramVars, Unmarked, Misfit,
           Exists, Staging
<1>6. CASE flash_agnos_update /\ up_pc' = "flash"
  <2>1. /\ Flashing(w) /\ flash' \in FlashStages /\ flash_partition(flash, w, flash')
        /\ UNCHANGED <<merged, paramVars>> /\ up_pc = "flash"
    BY <1>6 DEF flash_agnos_update, Goto, UpdaterInv
  <2>2. /\ DiskInv' /\ Unmarked' /\ Flashing(w)' /\ OS' = OS
        /\ fs'.dir.ver = fs.dir.ver /\ fs'.old.ver = fs.old.ver
    <3>1. PICK v : v = w
      OBVIOUS
    <3>2. v \in OSes /\ Flashing(v) /\ flash_partition(flash, v, flash')
      BY <1>2, <2>1, <3>1
    <3>3. /\ DiskInv' /\ Unmarked' /\ Flashing(v)' /\ OS' = OS
          /\ fs'.dir.ver = fs.dir.ver /\ fs'.old.ver = fs.old.ver
      <4> HIDE DEF w
      <4>1. QED
        BY <1>1, <2>1, <3>2, FlashKeeps
    <3>4. w' = v
      BY <2>1, <3>1
    <3>5. Flashing(w)'
      BY <3>3, <3>4 DEF Flashing
    <3>6. QED
      BY <3>3, <3>5
  <2>3. ~Misfit(fs)'
    BY <1>1, <2>2 DEF Misfit, OS, Exists, DiskInv
  <2>4. QED
    BY <1>1, <1>6, <2>1, <2>2, <2>3
       DEF UpdaterInv, bootVars, worldVars, paramVars, Exists, Staging
<1>7. QED
  BY <1>3, <1>4, <1>5, <1>6 DEF handle_agnos_update, flash_agnos_update, Goto

(* A step of the updater keeps the invariant.                              *)
LEMMA UpStepKeeps == ASSUME UpdateInv, UpStep PROVE DiskInv' /\ UpdaterInv' /\ BootInv' /\ PromiseInv'
<1>1. DiskInv /\ UpdaterInv /\ machine = "up" /\ UNCHANGED <<active, booted, bootVars, worldVars>>
  BY DEF UpdateInv, UpStep, UpNext
<1>2. DiskInv' /\ UpdaterInv'
  <2>1. CASE Pass
    <3>1. CASE wipe \/ finalize_update
      BY <1>1, <3>1, UnflagSteps, StagingSteps DEF finalize_update, Goto
    <3>2. QED
      BY <1>1, <2>1, <3>1, QuietSteps, UnflagSteps, MountKeeps, FinalizedKeeps, AgnosSteps DEF Pass
  <2>2. CASE report \/ Fault
    BY <1>1, <2>2, QuietSteps, FailsKeeps DEF Fault
  <2>3. QED
    BY <2>1, <2>2 DEF UpStep, UpNext
<1>3. BootInv' /\ PromiseInv'
  BY <1>1, <1>2 DEF BootInv, PromiseInv, UpdaterInv, UpStep, bootVars
<1>4. QED
  BY <1>2, <1>3

(* The launcher, at each of its two moves and when it finds nothing to     *)
(* swap.                                                                   *)
LEMMA LaunchKeeps ==
  ASSUME UpdateInv, launch, UNCHANGED promised
  PROVE  DiskInv' /\ UpdaterInv' /\ BootInv' /\ PromiseInv'
<1>1. /\ fs \in Disk /\ fs.dir \in Tree /\ fs.fin \in Tree /\ fs.old \in Tree /\ fs.slot \in [Slots -> Slot]
      /\ DiskInv /\ UpdaterInv /\ BootInv /\ PromiseInv /\ NoTree \in Tree
  BY DEF UpdateInv, DiskInv, Sound, Disk, NoTree, Tree
<1>2. /\ UNCHANGED <<active, booted, merged, flash, heads, UpdaterTargetBranch, promised>>
      /\ machine' # "up"
  BY DEF launch, upVars, worldVars, paramVars, At
<1>3. UpdaterInv'
  BY <1>1, <1>2 DEF UpdaterInv
<1>4. CASE At("launch", "moved")
  <2>1. /\ fs' = [fs EXCEPT !.old = fs.dir, !.dir = NoTree] /\ platter' = platter
        /\ Exists(fs.dir) /\ UpdateFound
    BY <1>4 DEF launch, At, Write
  <2>2. /\ fs' \in Disk /\ fs'.dir = NoTree /\ fs'.old = fs.dir /\ fs'.fin = fs.fin /\ fs'.slot = fs.slot
    BY <1>1, <2>1 DEF Disk
  <2>3. ~Exists(fs'.dir)
    BY <2>2 DEF NoTree, Exists
  <2>4. DiskInv'
    <3>1. Sound(fs)' /\ ~Misfit(fs)'
      BY <1>1, <2>1, <2>2, <2>3 DEF DiskInv, Sound, Exists, UpdateFound, Misfit
    <3>2. QED
      BY <1>1, <1>2, <2>1, <2>2, <3>1, TreesOnly
  <2>5. BootInv' /\ PromiseInv'
    BY <1>1, <1>2, <1>4, <2>1, <2>2, <2>3
       DEF BootInv, PromiseInv, Pending, Installed, At, UpdateFound, Exists
  <2>6. QED
    BY <1>3, <2>4, <2>5
<1>5. CASE At("moved", "launch")
  <2>1. /\ fs' = [fs EXCEPT !.dir = fs.fin, !.fin = NoTree] /\ platter' = platter
        /\ fs.fin.consistent
    BY <1>1, <1>5 DEF launch, At, Write, BootInv
  <2>2. /\ fs' \in Disk /\ fs'.dir = fs.fin /\ fs'.fin = NoTree /\ fs'.old = fs.old /\ fs'.slot = fs.slot
    BY <1>1, <2>1 DEF Disk
  <2>3. ~fs'.fin.consistent
    BY <2>2 DEF NoTree
  <2>4. DiskInv'
    <3>1. Sound(fs)'
      BY <1>1, <2>1, <2>2, <2>3 DEF DiskInv, Sound, Exists
    <3>2. platter.fin.consistent => platter.fin.ver = fs.fin.ver
      BY <1>1, <2>1 DEF DiskInv
    <3>3. QED
      BY <1>1, <1>2, <2>1, <2>2, <2>3, <3>1, <3>2, TreesOnly
  <2>5. BootInv' /\ PromiseInv'
    BY <1>1, <1>2, <1>5, <2>1, <2>2, <2>3
       DEF BootInv, PromiseInv, Pending, Installed, At, Exists
  <2>6. QED
    BY <1>3, <2>4, <2>5
<1>6. CASE At("launch", "agnos")
  <2>1. UNCHANGED <<fs, platter>> /\ Exists(fs.dir) /\ ~UpdateFound
    BY <1>6 DEF launch, At, disk
  <2>2. DiskInv'
    BY <1>1, <1>2, <2>1, DiskSame DEF diskVars
  <2>3. BootInv' /\ PromiseInv'
    BY <1>1, <1>2, <1>6, <2>1
       DEF BootInv, PromiseInv, Pending, Installed, At, UpdateFound, Exists
  <2>4. QED
    BY <1>3, <2>2, <2>3
<1>7. QED
  BY <1>4, <1>5, <1>6 DEF launch

(* The manager starts on a tree that fits the system.                      *)
LEMMA StartManagerKeeps ==
  ASSUME UpdateInv, start_manager, UNCHANGED promised
  PROVE  DiskInv' /\ UpdaterInv' /\ BootInv' /\ PromiseInv'
<1>1. /\ DiskInv /\ UpdaterInv /\ BootInv /\ PromiseInv
      /\ UNCHANGED <<fs, platter, active, booted, heads>>
      /\ machine = "agnos" /\ machine' = "up" /\ up_pc' = "main"
  BY DEF UpdateInv, start_manager, diskVars, worldVars, At, UpStarts
<1>2. DiskInv'
  BY <1>1, DiskSame DEF diskVars
<1>3. merged' \in Tree /\ ~Exists(merged') /\ ~merged'.consistent /\ flash' \in FlashStages
  BY DEF start_manager, UpStarts, NoTree, Tree, Exists, FlashStages
<1>4. UpdaterInv'
  BY <1>1, <1>3 DEF UpdaterInv, BootInv, start_manager, OS, Wanted, DiskInv, Misfit, Exists, Staging,
       Unmarked
<1>5. BootInv' /\ PromiseInv'
  BY <1>1 DEF BootInv, PromiseInv, Pending, Installed, Exists
<1>6. QED
  BY <1>2, <1>4, <1>5

(* agnos_init: a target slot that does not verify belongs to no marked     *)
(* update, so it may be flashed.                                           *)
LEMMA AgnosInitKeeps ==
  ASSUME UpdateInv, agnos_init, UNCHANGED promised
  PROVE  DiskInv' /\ UpdaterInv' /\ BootInv' /\ PromiseInv'
<1>1. /\ DiskInv /\ UpdaterInv /\ BootInv /\ PromiseInv /\ fs \in Disk /\ Exists(fs.dir)
      /\ UNCHANGED <<active, booted, heads, merged, UpdaterTargetBranch>>
      /\ machine' # "up" /\ booted = active /\ Other(active) \in Slots
  BY DEF UpdateInv, DiskInv, Sound, agnos_init, worldVars, paramVars, At, BootInv, Slots, Other
<1>2. Misfit(fs) /\ ~fs.fin.consistent /\ Wanted \in OSes /\ Wanted # "clear" /\ fs.dir.ver # "none"
  <2>1. Misfit(fs) /\ Wanted \in OSes
    BY <1>1 DEF agnos_init, Misfit, OS, Wanted, Disk, Tree, Exists, OSes
  <2>2. QED
    BY <1>1, <2>1, VersionsAssumption DEF DiskInv, OSes, Exists
<1>3. CASE machine' = "swap"
  <2>1. /\ UNCHANGED <<fs, platter, flash>> /\ Target.boot = Wanted /\ Target.hash = Wanted
        /\ machine \in {"agnos", "updater"}
    BY <1>3 DEF agnos_init, At, verify_agnos_update, disk
  <2>2. Target.system = Wanted
    BY <1>1, <1>2, <2>1 DEF Target, get_target_slot_number, DiskInv, Vouched
  <2>3. DiskInv' /\ UpdaterInv'
    BY <1>1, <2>1, DiskSame DEF diskVars, UpdaterInv
  <2>4. BootInv'
    BY <1>1, <1>2, <1>3, <2>1, <2>2 DEF BootInv, Target, get_target_slot_number, Wanted, Misfit, Exists
  <2>5. PromiseInv'
    BY <1>1, <1>3, <2>1 DEF PromiseInv, Pending, Installed, Exists
  <2>6. QED
    BY <2>3, <2>4, <2>5
<1>4. CASE At("agnos", "updater")
  <2>1. UNCHANGED <<fs, platter>> /\ flash' = "boot" /\ ~(Target.boot = Wanted /\ Target.hash = Wanted)
    BY <1>4 DEF agnos_init, At, verify_agnos_update, disk
  <2>2. Unmarked
    BY <1>1, <1>2, <2>1
       DEF DiskInv, Unmarked, Bootable, Target, get_target_slot_number, Wanted, Misfit
  <2>3. DiskInv' /\ UpdaterInv'
    BY <1>1, <1>4, <2>1, DiskSame DEF diskVars, UpdaterInv, FlashStages, At
  <2>4. BootInv'
    BY <1>1, <1>2, <1>4, <2>1, <2>2 DEF BootInv, At, Unmarked, Misfit, Exists, Flashing
  <2>5. PromiseInv'
    BY <1>1, <1>4, <2>1 DEF PromiseInv, At, Pending, Installed, Exists
  <2>6. QED
    BY <2>3, <2>4, <2>5
<1>5. CASE At("updater", "updater")
  <2>1. PICK w : w = Wanted
    OBVIOUS
  <2>2. /\ w \in OSes /\ Flashing(w) /\ flash_partition(flash, w, flash') /\ Unmarked
        /\ flash \in FlashStages /\ flash' \in FlashStages
    BY <1>1, <1>2, <1>5, <2>1 DEF agnos_init, At, BootInv, UpdaterInv
  <2>3. /\ DiskInv' /\ Unmarked' /\ Flashing(w)' /\ OS' = OS
        /\ fs'.dir.ver = fs.dir.ver /\ fs'.old.ver = fs.old.ver
        /\ platter'.dir.ver \in {platter.dir.ver, fs.dir.ver}
    BY <1>1, <2>2, FlashKeeps
  <2>4. UpdaterInv'
    BY <1>1, <2>2 DEF UpdaterInv
  <2>5. BootInv'
    <3>1. Wanted' = w
      BY <2>1, <2>3 DEF Wanted
    <3>2. Flashing(Wanted)'
      BY <2>3, <3>1 DEF Flashing
    <3>3. Misfit(fs)'
      BY <1>1, <1>2, <2>3 DEF Misfit, Exists, OS, DiskInv
    <3>4. QED
      BY <1>1, <1>5, <2>3, <3>2, <3>3 DEF BootInv, At, Exists
  <2>6. PromiseInv'
    BY <1>1, <1>5, <2>2, <2>3 DEF PromiseInv, At, Pending, Installed, Unmarked, Exists
  <2>7. QED
    BY <2>3, <2>4, <2>5, <2>6
<1>6. QED
  BY <1>3, <1>4, <1>5 DEF agnos_init, At

(* The swap of the slots: nothing is marked once the hashes are cleared,   *)
(* and the slot that becomes active is complete.                           *)
LEMMA SwapKeeps ==
  ASSUME UpdateInv, swap, UNCHANGED promised
  PROVE  DiskInv' /\ UpdaterInv' /\ BootInv' /\ PromiseInv'
<1>1. /\ DiskInv /\ UpdaterInv /\ BootInv /\ PromiseInv /\ fs \in Disk /\ Exists(fs.dir) /\ Misfit(fs)
      /\ UNCHANGED <<heads, merged, flash, UpdaterTargetBranch>>
      /\ machine' # "up" /\ booted = active /\ Other(active) \in Slots /\ machine = "swap"
      /\ ~fs.fin.consistent
  BY DEF UpdateInv, DiskInv, Sound, swap, upVars, worldVars, paramVars, BootInv, Slots, Other, Misfit
<1>2. UpdaterInv'
  BY <1>1 DEF UpdaterInv
<1>3. CASE machine' = "swap"
  <2>1. clear_partition_hash /\ UNCHANGED <<active, booted>>
    BY <1>3 DEF swap
  <2> DEFINE s == [Target EXCEPT !.hash = "clear"]
  <2>2. s \in Slot /\ s.hash = "clear" /\ s.boot = Target.boot /\ s.system = Target.system
    <3>1. Target \in Slot
      BY <1>1 DEF Target, get_target_slot_number, Disk
    <3>2. QED
      BY <3>1 DEF Slot
  <2>3. sync(SetTarget(fs, s))
    BY <2>1 DEF clear_partition_hash
  <2> HIDE DEF s
  <2>4. /\ DiskInv' /\ Unmarked' /\ Target' = s /\ OS' = OS
        /\ platter'.slot = fs'.slot
        /\ fs'.dir.ver = fs.dir.ver
        /\ platter'.dir.ver \in {platter.dir.ver, fs.dir.ver}
    BY <1>1, <2>1, <2>2, <2>3, SlotDisk
  <2>5. BootInv'
    BY <1>1, <1>3, <2>2, <2>4 DEF BootInv, Misfit, Exists, OS, Wanted, DiskInv
  <2>6. PromiseInv'
    BY <1>1, <1>3, <2>2, <2>3, <2>4 DEF PromiseInv, Installed, Unmarked, sync
  <2>7. QED
    BY <1>2, <2>4, <2>5, <2>6
<1>4. CASE machine' = "launch"
  <2>1. /\ UNCHANGED <<fs, platter>> /\ active' = Other(active) /\ booted' = active'
        /\ Unmarked /\ platter.slot = fs.slot
        /\ fs.slot[Other(active)].boot = Wanted /\ fs.slot[Other(active)].system = Wanted
    BY <1>1, <1>4 DEF swap, disk, BootInv, Target, get_target_slot_number
  <2>2. Wanted # "junk"
    BY <1>1, VersionsAssumption DEF Wanted, Exists, Disk, Tree
  <2>3. DiskInv'
    BY <1>1, <2>1, <2>2 DEF DiskInv, Sound, Vouched, Unmarked, Misfit
  <2>4. BootInv' /\ PromiseInv'
    BY <1>1, <1>4, <2>1 DEF BootInv, PromiseInv, Pending, Installed, Exists
  <2>5. QED
    BY <1>2, <2>3, <2>4
<1>5. QED
  BY <1>3, <1>4 DEF swap

(* A step of the boot keeps the invariant.                                 *)
LEMMA BootStepKeeps == ASSUME UpdateInv, BootStep PROVE DiskInv' /\ UpdaterInv' /\ BootInv' /\ PromiseInv'
BY LaunchKeeps, StartManagerKeeps, AgnosInitKeeps, SwapKeeps DEF BootStep, BootNext, histVars

(* What the remote and the driver do without touching the disk.            *)
LEMMA EventsKeep ==
  ASSUME UpdateInv, SetClock \/ Push \/ _on_download_update \/ _on_select_branch \/ _on_pause_updates
  PROVE  DiskInv' /\ UpdaterInv' /\ BootInv' /\ PromiseInv'
<1>1. /\ DiskInv /\ UpdaterInv /\ BootInv /\ PromiseInv
      /\ UNCHANGED <<fs, platter, active, booted, up_pc, merged, flash, UpdateAvailable, machine, promised>>
  BY DEF UpdateInv, SetClock, Push, _on_download_update, _on_select_branch, _on_pause_updates, Signal,
       diskVars,
         paramVars, bootVars, histVars
<1>2. DiskInv'
  BY <1>1, DiskSame DEF diskVars
<1>3. heads' \in [Branches -> Versions] /\ UpdaterTargetBranch' \in Branches \union {"none"}
  <2>1. CASE Push
    BY <1>1, <2>1, VersionsAssumption DEF Push, UpdaterInv, paramVars
  <2>2. CASE _on_select_branch
    BY <1>1, <2>2 DEF _on_select_branch, UpdaterInv, worldVars
  <2>3. CASE SetClock \/ _on_download_update \/ _on_pause_updates
    BY <1>1, <2>3 DEF SetClock, _on_download_update, _on_pause_updates, UpdaterInv, worldVars, paramVars
  <2>4. QED
    BY <2>1, <2>2, <2>3
<1>4. UpdaterInv' /\ BootInv' /\ PromiseInv'
  BY <1>1, <1>3
     DEF UpdaterInv, BootInv, PromiseInv, Pending, Installed, Unmarked, Misfit, Exists, Flashing, Bootable,
         Target, get_target_slot_number, Wanted
<1>5. QED
  BY <1>2, <1>4

(* Work in the tree keeps the invariant.                                   *)
LEMMA DevelopKeeps == ASSUME UpdateInv, Develop PROVE DiskInv' /\ UpdaterInv' /\ BootInv' /\ PromiseInv'
<1>1. /\ DiskInv /\ UpdaterInv /\ BootInv /\ fs \in Disk /\ fs.dir \in Tree /\ booted = active
      /\ Exists(fs.dir) /\ ~Misfit(fs)
      /\ UNCHANGED <<platter, active, booted, merged, flash, heads, up_pc, UpdateAvailable,
                     UpdaterTargetBranch, machine>>
      /\ machine = "up" /\ promised' = "none"
  BY DEF UpdateInv, DiskInv, Sound, Disk, Develop, Event, Write, upVars, worldVars, paramVars, bootVars,
       UpdaterInv
<1>2. PICK v \in Versions :
        /\ AgnosOf[v] = OS
        /\ fs' = [fs EXCEPT !.dir.ver = v, !.dir.init = IF @ = "none" THEN "none" ELSE "older"]
  BY DEF Develop, Write
<1> DEFINE dir == [fs.dir EXCEPT !.ver = v, !.init = IF @ = "none" THEN "none" ELSE "older"]
<1>3. dir \in Tree /\ dir.ver = v /\ dir.whole = fs.dir.whole /\ dir.synced = fs.dir.synced
  BY <1>1, <1>2 DEF Tree
<1>4. fs' = [fs EXCEPT !.dir = dir]
  BY <1>1, <1>2 DEF Disk, Tree
<1> HIDE DEF dir
<1>5. fs' \in Disk /\ fs'.dir = dir /\ fs'.fin = fs.fin /\ fs'.old = fs.old /\ fs'.slot = fs.slot
  BY <1>1, <1>3, <1>4 DEF Disk
<1>6. ~Misfit(fs)' /\ Exists(fs'.dir)
  BY <1>1, <1>2, <1>3, <1>5, VersionsAssumption DEF Misfit, OS, Exists
<1>7. DiskInv'
  <2>1. Sound(fs)'
    BY <1>1, <1>3, <1>5, <1>6 DEF DiskInv, Sound, Exists
  <2>2. QED
    BY <1>1, <1>5, <1>6, <2>1, TreesOnly
<1>8. UpdaterInv' /\ BootInv' /\ PromiseInv'
  BY <1>1, <1>5, <1>6
     DEF UpdaterInv, BootInv, PromiseInv, Unmarked, Exists, Flashing, Bootable, Target,
         get_target_slot_number
<1>9. QED
  BY <1>7, <1>8

(* An orderly reboot: an update on offer is one the launcher will find.    *)
LEMMA RebootKeeps == ASSUME UpdateInv, Reboot PROVE DiskInv' /\ UpdaterInv' /\ BootInv' /\ PromiseInv'
<1>1. /\ DiskInv /\ UpdaterInv /\ fs \in Disk /\ Exists(fs.dir) /\ booted = active /\ booted' = active'
      /\ active' = active
      /\ ~Misfit(fs) /\ machine' = "launch" /\ UNCHANGED <<heads, UpdaterTargetBranch>>
      /\ fs' = Synced(fs) /\ platter' = fs'
  BY DEF UpdateInv, DiskInv, Sound, Reboot, sync, paramVars, UpdaterInv
<1>2. /\ fs' \in Disk /\ fs'.slot = fs.slot
      /\ fs'.dir.ver = fs.dir.ver /\ fs'.dir.whole = fs.dir.whole /\ fs'.dir.synced
      /\ fs'.dir.init = fs.dir.init
      /\ fs'.fin.ver = fs.fin.ver /\ fs'.fin.whole = fs.fin.whole /\ fs'.fin.synced
      /\ fs'.fin.consistent = fs.fin.consistent /\ fs'.old.ver = fs.old.ver
  <2>1. /\ fs' \in Disk /\ fs'.slot = fs.slot
        /\ fs'.dir = Durable(fs.dir) /\ fs'.fin = Durable(fs.fin) /\ fs'.old = Durable(fs.old)
    BY <1>1, SyncedDisk
  <2>2. fs.dir \in Tree /\ fs.fin \in Tree /\ fs.old \in Tree
    BY <1>1, DiskParts
  <2>3. /\ Durable(fs.dir).ver = fs.dir.ver /\ Durable(fs.dir).whole = fs.dir.whole
        /\ Durable(fs.dir).synced = TRUE /\ Durable(fs.dir).init = fs.dir.init
    BY <2>2, DurableTree
  <2>4. /\ Durable(fs.fin).ver = fs.fin.ver /\ Durable(fs.fin).whole = fs.fin.whole
        /\ Durable(fs.fin).synced = TRUE /\ Durable(fs.fin).consistent = fs.fin.consistent
    BY <2>2, DurableTree
  <2>5. Durable(fs.old).ver = fs.old.ver
    BY <2>2, DurableTree
  <2>6. QED
    BY <2>1, <2>3, <2>4, <2>5, Zenon
<1>3. DiskInv'
  <2>1. Sound(fs)' /\ Vouched(fs)' /\ ~Misfit(fs)' /\ active' \in Slots /\ booted' = active'
    BY <1>1, <1>2 DEF DiskInv, Sound, Vouched, Misfit, Exists
  <2>2. fs.fin.consistent => Bootable(AgnosOf[fs.fin.ver], fs)'
    BY <1>1, <1>2 DEF DiskInv, Bootable
  <2>3. fs'.fin.consistent => Bootable(AgnosOf[fs.fin.ver], fs)'
    BY <1>2, <2>2 DEF Bootable
  <2>4. QED
    BY <1>1, <2>1, <2>3, OneDisk
<1>4. merged' \in Tree /\ ~merged'.consistent /\ flash' \in FlashStages
  BY DEF Reboot, UpStarts, NoTree, Tree, FlashStages
<1>5. UpdaterInv' /\ BootInv'
  BY <1>1, <1>4 DEF UpdaterInv, BootInv
<1>6. PromiseInv'
  <2>1. CASE promised' # "none"
    <3>1. /\ UpdateAvailable /\ up_pc \in Resting /\ fs.dir.init = "newest" /\ promised' = fs.fin.ver
          /\ machine = "up"
      BY <2>1 DEF Reboot
    <3>2. fs.fin.consistent /\ ~Exists(fs.old)
      BY <1>1, <3>1 DEF UpdaterInv, Resting
    <3>3. Pending(fs)'
      BY <1>2, <3>1, <3>2 DEF Pending, Exists
    <3>4. QED
      BY <1>1, <3>3 DEF PromiseInv, Pending
  <2>2. QED
    BY <2>1 DEF PromiseInv
<1>7. QED
  BY <1>3, <1>5, <1>6

(* A power loss, whichever of the trees and slots it leaves.               *)
LEMMA PowerLossKeeps == ASSUME UpdateInv, PowerLoss PROVE DiskInv' /\ UpdaterInv' /\ BootInv' /\ PromiseInv'
<1>1. /\ DiskInv /\ UpdaterInv /\ PromiseInv /\ fs \in Disk /\ platter \in Disk
      /\ booted = active /\ booted' = active' /\ active' = active
      /\ machine' = "launch" /\ UNCHANGED <<heads, UpdaterTargetBranch, promised>>
  BY DEF UpdateInv, DiskInv, Sound, PowerLoss, paramVars
<1>2. PICK x \in {fs, platter}, y \in {fs, platter} : fs' = Leftover(x, y) /\ platter' = Leftover(x, y)
  BY DEF PowerLoss, Leftovers
<1>3. /\ fs' \in Disk /\ platter' = fs' /\ fs'.slot = y.slot
      /\ fs'.dir.ver = x.dir.ver /\ fs'.dir.whole = (x.dir.whole /\ x.dir.synced) /\ fs'.dir.synced
      /\ fs'.dir.init = x.dir.init
      /\ fs'.fin.ver = x.fin.ver /\ fs'.fin.whole = (x.fin.whole /\ x.fin.synced) /\ fs'.fin.synced
      /\ fs'.fin.consistent = x.fin.consistent
      /\ fs'.old.ver = x.old.ver /\ fs'.old.whole = (x.old.whole /\ x.old.synced) /\ fs'.old.synced
  <2>1. x \in Disk /\ y \in Disk
    BY <1>1
  <2>2. /\ fs' \in Disk /\ platter' = fs' /\ fs'.slot = y.slot
        /\ fs'.dir = Torn(x.dir) /\ fs'.fin = Torn(x.fin) /\ fs'.old = Torn(x.old)
    BY <1>2, <2>1, LeftoverDisk
  <2>3. x.dir \in Tree /\ x.fin \in Tree /\ x.old \in Tree
    BY <2>1, DiskParts
  <2>4. /\ Torn(x.dir).ver = x.dir.ver /\ Torn(x.dir).whole = (x.dir.whole /\ x.dir.synced)
        /\ Torn(x.dir).synced = TRUE /\ Torn(x.dir).init = x.dir.init
    BY <2>3, TornTree
  <2>5. /\ Torn(x.fin).ver = x.fin.ver /\ Torn(x.fin).whole = (x.fin.whole /\ x.fin.synced)
        /\ Torn(x.fin).synced = TRUE /\ Torn(x.fin).consistent = x.fin.consistent
    BY <2>3, TornTree
  <2>6. /\ Torn(x.old).ver = x.old.ver /\ Torn(x.old).whole = (x.old.whole /\ x.old.synced)
        /\ Torn(x.old).synced = TRUE
    BY <2>3, TornTree
  <2>7. QED
    BY <2>2, <2>4, <2>5, <2>6, Zenon
<1>4. DiskInv'
  <2>1. Sound(x) /\ Vouched(y) /\ y.slot[active] = fs.slot[active]
    BY <1>1 DEF DiskInv
  <2>2. Sound(fs)' /\ Vouched(fs)' /\ active' \in Slots
    <3>1. Sound(fs)'
      BY <1>3, <2>1 DEF Sound, Exists
    <3>2. fs'.slot = y.slot /\ active' = active /\ active \in Slots /\ Vouched(y)
      BY <1>1, <1>3, <2>1 DEF DiskInv
    <3>3. Vouched(fs)' /\ active' \in Slots
      BY <3>2, Zenon DEF Vouched
    <3>4. QED
      BY <3>1, <3>3
  <2>3. x.fin.consistent => Bootable(AgnosOf[x.fin.ver], fs)'
    BY <1>1, <1>3 DEF DiskInv, Bootable
  <2>4. Misfit(fs)' => ~x.fin.consistent
    BY <1>1, <1>3, <2>1 DEF DiskInv, Misfit, Exists
  <2>5. fs'.fin.consistent => Bootable(AgnosOf[fs.fin.ver], fs)'
    BY <1>3, <2>3 DEF Bootable
  <2>6. QED
    BY <1>1, <1>3, <2>2, <2>4, <2>5, OneDisk
<1>5. merged' \in Tree /\ ~merged'.consistent /\ flash' \in FlashStages
  BY DEF PowerLoss, UpStarts, NoTree, Tree, FlashStages
<1>6. UpdaterInv' /\ BootInv'
  BY <1>1, <1>5 DEF UpdaterInv, BootInv
<1>7. PromiseInv'
  BY <1>1, <1>3 DEF PromiseInv, Pending, Installed, Exists
<1>8. QED
  BY <1>4, <1>6, <1>7

(* Every step keeps the invariant.                                         *)
LEMMA UpdateNext == UpdateInv /\ [Next]_vars => UpdateInv'
<1> SUFFICES ASSUME UpdateInv, [Next]_vars PROVE UpdateInv'
  OBVIOUS
<1>1. RequestInv'
  BY RequestNext DEF UpdateInv
<1>2. CASE UNCHANGED vars
  <2>1. UNCHANGED <<fs, platter, active, booted, up_pc, merged, flash, UpdateAvailable,
                    UpdaterTargetBranch, heads, machine, promised>>
    BY <1>2 DEF vars, diskVars, upVars, paramVars, worldVars, bootVars, histVars
  <2>2. DiskInv'
    BY <2>1, DiskSame DEF diskVars, UpdateInv
  <2>3. UpdaterInv' /\ BootInv' /\ PromiseInv'
    <3>1. UpdaterInv'
      BY <2>1
         DEF UpdateInv, UpdaterInv, Unmarked, Misfit, Exists, Flashing, Bootable, Target,
             get_target_slot_number
    <3>2. BootInv'
      BY <2>1
         DEF UpdateInv, BootInv, Unmarked, Misfit, Exists, Flashing, Target, get_target_slot_number,
             Wanted
    <3>3. PromiseInv'
      BY <2>1 DEF UpdateInv, PromiseInv, Pending, Installed, Exists
    <3>4. QED
      BY <3>1, <3>2, <3>3
  <2>4. QED
    BY <1>1, <2>2, <2>3 DEF UpdateInv
<1>3. CASE Next
  <2>1. DiskInv' /\ UpdaterInv' /\ BootInv' /\ PromiseInv'
    BY <1>3, UpStepKeeps, BootStepKeeps, EventsKeep, DevelopKeeps, RebootKeeps, PowerLossKeeps DEF Next
  <2>2. QED
    BY <1>1, <2>1 DEF UpdateInv
<1>4. QED
  BY <1>2, <1>3

(* So it holds always.                                                     *)
LEMMA UpdateAlways == Spec => []UpdateInv
BY UpdateInit, UpdateNext, PTL DEF Spec

(* What a power loss leaves, in terms of the two disks it leaves it of.    *)
LEMMA LeftoverFields ==
  ASSUME DiskInv, NEW d \in Leftovers
  PROVE  \E x, y \in {fs, platter} :
           /\ d.slot = y.slot
           /\ d.dir.ver = x.dir.ver /\ d.dir.whole = (x.dir.whole /\ x.dir.synced)
           /\ d.fin.ver = x.fin.ver /\ d.fin.whole = (x.fin.whole /\ x.fin.synced) /\ d.fin.synced
           /\ d.fin.consistent = x.fin.consistent
           /\ d.old.whole = (x.old.whole /\ x.old.synced)
<1>1. PICK x \in {fs, platter}, y \in {fs, platter} : d = Leftover(x, y)
  BY DEF Leftovers
<1>2. x \in Disk /\ y \in Disk
  BY DEF DiskInv, Sound
<1>3. /\ d.slot = y.slot /\ d.dir = Torn(x.dir) /\ d.fin = Torn(x.fin) /\ d.old = Torn(x.old)
      /\ x.dir \in Tree /\ x.fin \in Tree /\ x.old \in Tree
  BY <1>1, <1>2, LeftoverDisk, DiskParts
<1>4. /\ Torn(x.dir).ver = x.dir.ver /\ Torn(x.dir).whole = (x.dir.whole /\ x.dir.synced)
  BY <1>3, TornTree
<1>5. /\ Torn(x.fin).ver = x.fin.ver /\ Torn(x.fin).whole = (x.fin.whole /\ x.fin.synced)
      /\ Torn(x.fin).synced = TRUE /\ Torn(x.fin).consistent = x.fin.consistent
  BY <1>3, TornTree
<1>6. Torn(x.old).whole = (x.old.whole /\ x.old.synced)
  BY <1>3, TornTree
<1>7. QED
  BY <1>3, <1>4, <1>5, <1>6, Zenon

(* An update that is marked can be installed, now and after a power loss   *)
(* at any moment: its tree is whole and durable, and its AGNOS runs or is  *)
(* all in the target slot (finalize_update, handle_agnos_update,           *)
(* agnos.py).                                                              *)
THEOREM StagedStaysInstallable == Spec => []StagedIsInstallable
<1>1. UpdateInv => StagedIsInstallable
  <2> SUFFICES ASSUME UpdateInv, NEW d \in {fs, platter} \union Leftovers PROVE Installable(d)
    BY DEF StagedIsInstallable
  <2>1. DiskInv /\ booted = active
    BY DEF UpdateInv, DiskInv
  <2>2. ASSUME NEW x \in {fs, platter}, NEW y \in {fs, platter},
               d.slot = y.slot, d.fin.ver = x.fin.ver, d.fin.consistent = x.fin.consistent,
               x.fin.whole /\ x.fin.synced => d.fin.whole /\ d.fin.synced
        PROVE  Installable(d)
    <3> SUFFICES ASSUME d.fin.consistent
                 PROVE  /\ d.fin.whole /\ d.fin.synced
                        /\ \/ AgnosOf[d.fin.ver] = d.slot[active].system
                           \/ /\ AgnosOf[d.fin.ver] = d.slot[Other(active)].system
                              /\ d.slot[Other(active)].boot = d.slot[Other(active)].system
                              /\ d.slot[Other(active)].hash = d.slot[Other(active)].system
      BY <2>1 DEF Installable
    <3>1. x.fin.whole /\ x.fin.synced /\ Bootable(AgnosOf[x.fin.ver], y)
      BY <2>1, <2>2 DEF DiskInv, Sound
    <3>2. QED
      BY <2>2, <3>1 DEF Bootable
  <2>3. CASE d \in {fs, platter}
    BY <2>2, <2>3
  <2>4. CASE d \in Leftovers
    <3>1. PICK x, y \in {fs, platter} :
            /\ d.slot = y.slot /\ d.fin.ver = x.fin.ver /\ d.fin.consistent = x.fin.consistent
            /\ d.fin.whole = (x.fin.whole /\ x.fin.synced) /\ d.fin.synced
      BY <2>1, <2>4, LeftoverFields
    <3>2. QED
      BY <2>2, <3>1
  <2>5. QED
    BY <2>3, <2>4
<1>2. QED
  BY <1>1, UpdateAlways, PTL

(* What runs is a whole tree on the AGNOS it wants, and no power loss      *)
(* costs the device its software (launch_chffrplus.sh, agnos_init).        *)
THEOREM DeviceRunsWhole == Spec => []RunsWhole
<1>1. UpdateInv => RunsWhole
  <2> SUFFICES ASSUME UpdateInv PROVE RunsWhole
    OBVIOUS
  <2>1. machine = "up" => fs.dir.whole /\ AgnosOf[fs.dir.ver] = OS
    BY DEF UpdateInv, DiskInv, Sound, UpdaterInv, Misfit, OS
  <2>2. fs.slot[active].boot = fs.slot[active].system /\ fs.slot[active].system # "junk"
    BY DEF UpdateInv, DiskInv, Vouched
  <2>3. ASSUME NEW d \in Leftovers PROVE d.dir.whole \/ (d.old.whole /\ d.fin.whole)
    BY LeftoverFields DEF UpdateInv, DiskInv, Sound
  <2>4. QED
    BY <2>1, <2>2, <2>3 DEF RunsWhole
<1>2. QED
  BY <1>1, UpdateAlways, PTL

(* A reboot on an offer installs it, whatever power losses come on the way *)
(* (set_params, launch_chffrplus.sh).                                      *)
THEOREM PromiseIsKept == Spec => []PromiseKept
<1>1. UpdateInv => PromiseKept
  BY DEF UpdateInv, PromiseInv, Installed, PromiseKept
<1>2. QED
  BY <1>1, UpdateAlways, PTL

(* The loop never sleeps over a request that came during a pass            *)
(* (WaitTimeHelper, main).                                                 *)
THEOREM RequestIsServed == Spec => []NoLostRequest
<1>1. UpdateInv => NoLostRequest
  BY DEF UpdateInv, RequestInv, NoLostRequest
<1>2. QED
  BY <1>1, UpdateAlways, PTL
=============================================================================
