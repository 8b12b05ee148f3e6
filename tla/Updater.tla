------------------------------ MODULE Updater -------------------------------
(***************************************************************************)
(* updated: the loop of main() with init_overlay, check_for_update,        *)
(* fetch_update, handle_agnos_update, finalize_update, set_params and the  *)
(* back-off, as the steps between which a signal, a reboot or a power loss *)
(* may come.  up_pc names the step that is next.                           *)
(***************************************************************************)
EXTENDS UpdateDisk

CONSTANT MaxFaults      \* bound: commands that fail in one behaviour

ASSUME MaxFaultsAssumption == MaxFaults \in Nat

VARIABLES
  up_pc,               \* next step; "off" while the process does not run
  merged,              \* OVERLAY_MERGED, while it is mounted
  flash,               \* how far flash_agnos_update is
  user_request, ready_event,        \* WaitTimeHelper
  first_run, fetch_started, update_failed_count, failed_fetch_count,    \* main
  wait,                \* minutes the last pass decided to sleep
  branches,            \* Updater.branches: the heads check_for_update last saw
  UpdateAvailable, UpdaterTargetBranch, DisableUpdates,     \* params
  heads,               \* external: the heads at the remote
  time_valid,          \* system_time_valid()
  faults               \* commands that have failed

loopVars == <<first_run, fetch_started, update_failed_count, failed_fetch_count, wait>>
helperVars == <<user_request, ready_event>>
paramVars == <<UpdateAvailable, UpdaterTargetBranch>>
worldVars == <<DisableUpdates, heads, time_valid>>
upVars == <<up_pc, merged, flash, loopVars, helperVars, branches, paramVars, worldVars, faults>>
disk == <<fs, platter>>

NoBranches == [b \in Branches |-> "none"]
Resting == {"paused", "soon", "sleep"}
Working == {"main", "top", "init", "wipe", "mount", "params", "check", "decide", "fetch", "reset", "agnos",
            "flash", "finalize", "copy", "copied", "mark", "report", "settle"}

UpTypeOK ==
  /\ up_pc \in {"off"} \union Resting \union Working
  /\ merged \in Tree
  /\ flash \in FlashStages
  /\ user_request \in {"NONE", "CHECK", "FETCH"}
  /\ {ready_event, first_run, fetch_started, UpdateAvailable, DisableUpdates, time_valid}
       \subseteq BOOLEAN
  /\ faults \in 0..MaxFaults
  /\ {update_failed_count, failed_fetch_count} \subseteq 0..MaxFaults + 1
  /\ wait \in 0..90
  /\ heads \in [Branches -> Versions]
  /\ branches \in [Branches -> Versions \union {"none"}]
  /\ UpdaterTargetBranch \in Branches \union {"none"}

target_branch ==
  IF UpdaterTargetBranch = "none" THEN BranchOf[fs.dir.ver] ELSE UpdaterTargetBranch

(* A finalized update stands for the target branch and is not what is      *)
(* installed.                                                              *)
update_ready ==
  /\ fs.fin.consistent
  /\ \/ fs.dir.ver # branches[target_branch]
     \/ BranchOf[fs.dir.ver] # target_branch
  /\ BranchOf[fs.fin.ver] = target_branch

set_params ==
  /\ UpdaterTargetBranch' = target_branch
  /\ UpdateAvailable' = update_ready

(* The process starts; the memory of an earlier one is gone, and so is its *)
(* mount.                                                                  *)
UpStarts(pc) ==
  /\ up_pc' = pc
  /\ merged' = NoTree /\ flash' = "boot" /\ branches' = NoBranches
  /\ user_request' = "NONE" /\ ready_event' = FALSE
  /\ first_run' = TRUE /\ fetch_started' = FALSE
  /\ update_failed_count' = 0 /\ failed_fetch_count' = 0 /\ wait' = 0

Goto(from, to) == up_pc = from /\ up_pc' = to
-----------------------------------------------------------------------------
main ==
  /\ Goto("main", "top")
  /\ set_consistent_flag(FALSE)
  /\ UNCHANGED <<merged, flash, loopVars, helperVars, branches, paramVars>>

top ==
  /\ Goto("top", IF DisableUpdates THEN "paused" ELSE "init")
  /\ ready_event' = FALSE
  /\ fetch_started' = (fetch_started /\ DisableUpdates)
  /\ UNCHANGED <<disk, merged, flash, first_run, update_failed_count, failed_fetch_count, wait,
                 user_request, branches, paramVars>>

(* init_overlay keeps a valid overlay.                                     *)
ValidOverlay == fs.dir.init = "newest" /\ Exists(merged)

init_kept ==
  /\ ValidOverlay
  /\ Goto("init", "params")
  /\ UNCHANGED <<disk, merged, flash, loopVars, helperVars, branches, paramVars>>

init_overlay ==
  /\ ~ValidOverlay
  /\ Goto("init", "wipe")
  /\ UpdateAvailable' = FALSE /\ UNCHANGED UpdaterTargetBranch
  /\ set_consistent_flag(FALSE)
  /\ merged' = NoTree
  /\ UNCHANGED <<flash, loopVars, helperVars, branches>>

(* Mutant: the backup of the last swap stays.                              *)
wipe_KeepsBackup ==
  /\ Goto("wipe", "mount")
  /\ Write([fs EXCEPT !.fin = NoTree])
  /\ UNCHANGED <<merged, flash, loopVars, helperVars, branches, paramVars>>

(* rm -rf STAGING_ROOT, half way and then done.                            *)
wipe ==
  /\ \/ /\ Goto("wipe", "wipe")
        /\ fs.fin.whole \/ fs.old.whole
        /\ Write([fs EXCEPT !.fin.whole = FALSE, !.old.whole = FALSE])
     \/ Goto("wipe", "mount") /\ Write([fs EXCEPT !.fin = NoTree, !.old = NoTree])
  /\ UNCHANGED <<merged, flash, loopVars, helperVars, branches, paramVars>>

(* The canary in BASEDIR, the sync and the mount.                          *)
mount ==
  /\ Goto("mount", "params")
  /\ sync([fs EXCEPT !.dir.consistent = FALSE, !.dir.init = "newest"])
  /\ merged' = fs'.dir
  /\ UNCHANGED <<flash, loopVars, helperVars, branches, paramVars>>

(* set_params before the check; the first pass, and one without a clock,   *)
(* ends here.                                                              *)
params ==
  /\ \/ /\ Goto("params", "soon")
        /\ ~time_valid \/ first_run
        /\ first_run' = FALSE
        /\ UNCHANGED update_failed_count
     \/ /\ Goto("params", "check")
        /\ time_valid /\ ~first_run
        /\ update_failed_count' = update_failed_count + 1
        /\ UNCHANGED first_run
  /\ set_params
  /\ UNCHANGED <<disk, merged, flash, fetch_started, failed_fetch_count, wait, helperVars, branches>>

check_for_update ==
  /\ Goto("check", "decide")
  /\ branches' = heads
  /\ UNCHANGED <<disk, merged, flash, loopVars, helperVars, paramVars>>

decide ==
  /\ \/ /\ user_request = "CHECK"           \* skipping fetch, only checking
        /\ Goto("decide", "report")
        /\ update_failed_count' = 0
        /\ UNCHANGED fetch_started
     \/ /\ user_request # "CHECK"
        /\ Goto("decide", "fetch")
        /\ fetch_started' = TRUE
        /\ UNCHANGED update_failed_count
  /\ UNCHANGED <<disk, merged, flash, first_run, failed_fetch_count, wait, helperVars, branches,
                 paramVars>>

(* The update is withdrawn, then the branch's head, as it is now, is       *)
(* fetched and checked out over the overlay, which is neither the old nor  *)
(* the new tree until the last command is through.                         *)
fetch_update ==
  /\ Goto("fetch", "reset")
  /\ set_consistent_flag(FALSE)
  /\ UpdateAvailable' = FALSE /\ UNCHANGED UpdaterTargetBranch
  /\ merged' = [merged EXCEPT !.ver = heads[target_branch], !.whole = FALSE]
  /\ UNCHANGED <<flash, loopVars, helperVars, branches>>

(* git clean -xdff removes the two flags with the other untracked files.   *)
reset ==
  /\ Goto("reset", "agnos")
  /\ merged' = [merged EXCEPT !.whole = TRUE, !.consistent = FALSE, !.init = "none"]
  /\ UNCHANGED <<disk, flash, loopVars, helperVars, branches, paramVars>>

(* Mutant: the tree is finalized whatever AGNOS it wants.                  *)
handle_agnos_update_Skipped ==
  /\ Goto("agnos", "finalize")
  /\ UNCHANGED <<disk, merged, flash, loopVars, helperVars, branches, paramVars>>

handle_agnos_update ==
  /\ \/ /\ Goto("agnos", "finalize")
        /\ OS = AgnosOf[merged.ver]
        /\ UNCHANGED <<disk, flash>>
     \/ /\ Goto("agnos", "flash")
        /\ OS # AgnosOf[merged.ver]
        /\ set_consistent_flag(FALSE)
        /\ flash' = "boot"
  /\ UNCHANGED <<merged, loopVars, helperVars, branches, paramVars>>

flash_agnos_update ==
  /\ \/ /\ flash = "flashed"
        /\ Goto("flash", "finalize")
        /\ UNCHANGED <<disk, flash>>
     \/ /\ flash # "flashed"
        /\ Goto("flash", "flash")
        /\ flash' \in FlashStages
        /\ flash_partition(flash, AgnosOf[merged.ver], flash')
  /\ UNCHANGED <<merged, loopVars, helperVars, branches, paramVars>>

(* finalize_update: the update is unmarked, the old copy makes way for the *)
(* new, the new one is whole, and only then marked.                        *)
finalize_update ==
  /\ \/ Goto("finalize", "copy") /\ set_consistent_flag(FALSE)
     \/ /\ Goto("copy", "copied")
        /\ Write([fs EXCEPT !.fin = [merged EXCEPT !.whole = FALSE, !.synced = FALSE]])
     \/ Goto("copied", "mark") /\ Write([fs EXCEPT !.fin.whole = merged.whole])
  /\ UNCHANGED <<merged, flash, loopVars, helperVars, branches, paramVars>>

finalized ==
  /\ Goto("mark", "report")
  /\ set_consistent_flag(TRUE)
  /\ update_failed_count' = 0
  /\ UNCHANGED <<merged, flash, first_run, fetch_started, failed_fetch_count, wait, helperVars, branches,
                 paramVars>>
-----------------------------------------------------------------------------
Backoff(n) == IF n >= 6 THEN 90 ELSE 5 * 2^(n - 1)

(* What the pass comes to: set_params, which may itself fail half way, and *)
(* the wait.                                                               *)
report ==
  /\ Goto("report", "settle")
  /\ \/ set_params /\ UNCHANGED faults
     \/ faults < MaxFaults /\ faults' = faults + 1 /\ UNCHANGED paramVars
  /\ \/ update_failed_count = 0 /\ failed_fetch_count' = 0 /\ wait' = 90
     \/ /\ update_failed_count > 0 /\ fetch_started
        /\ failed_fetch_count' = failed_fetch_count + 1
        /\ wait' = Backoff(failed_fetch_count + 1)
     \/ /\ update_failed_count > 0 /\ ~fetch_started
        /\ wait' = 5
        /\ UNCHANGED failed_fetch_count
  /\ UNCHANGED <<disk, merged, flash, first_run, fetch_started, update_failed_count, helperVars, branches>>

(* Mutant: the wake-up is dropped with the request.                        *)
settle_ClearsEvent ==
  /\ Goto("settle", "sleep")
  /\ user_request' = "NONE"
  /\ ready_event' = FALSE
  /\ UNCHANGED <<disk, merged, flash, loopVars, branches, paramVars>>

(* Mutant: the request outlives the pass that served it.                   *)
settle_KeepsRequest ==
  /\ Goto("settle", "sleep")
  /\ UNCHANGED <<disk, merged, flash, loopVars, helperVars, branches, paramVars>>

settle ==
  /\ Goto("settle", "sleep")
  /\ user_request' = "NONE"
  /\ UNCHANGED <<disk, merged, flash, loopVars, ready_event, branches, paramVars>>

(* The sleep ends: the time is up or the event is set.                     *)
wake ==
  /\ up_pc \in Resting /\ up_pc' = "top"
  /\ UNCHANGED <<disk, merged, flash, loopVars, helperVars, branches, paramVars>>

(* A command fails: the overlay is invalidated.                            *)
Fails ==
  /\ up_pc \in {"init", "wipe", "mount", "params", "check", "reset", "agnos", "flash", "copy", "copied"}
  /\ up_pc' = "report"
  /\ Write([fs EXCEPT !.dir.init = "none"])
  /\ UNCHANGED <<merged, flash, loopVars, helperVars, branches, paramVars>>

(* git ls-remote fails: nothing has been written, so all of it is kept.    *)
Offline ==
  /\ Goto("check", "report")
  /\ UNCHANGED <<disk, merged, flash, loopVars, helperVars, branches, paramVars>>

(* A download of AGNOS breaks off and is tried again.                      *)
FlashRetry ==
  /\ Goto("flash", "flash")
  /\ flash # "flashed"
  /\ flash' = Retried(flash)
  /\ UNCHANGED <<disk, merged, loopVars, helperVars, branches, paramVars>>

Fault ==
  /\ faults < MaxFaults
  /\ faults' = faults + 1
  /\ Fails \/ Offline \/ FlashRetry

Pass ==
  \/ main \/ top \/ init_kept \/ init_overlay \/ wipe \/ mount \/ params \/ check_for_update \/ decide
  \/ fetch_update \/ reset \/ handle_agnos_update \/ flash_agnos_update \/ finalize_update \/ finalized
  \/ settle \/ wake

UpNext ==
  /\ \/ Pass /\ UNCHANGED faults
     \/ report
     \/ Fault
  /\ UNCHANGED <<active, booted, worldVars>>

(* The two signals, each the way the interface sends it.                   *)
Signal(request) ==
  /\ up_pc # "off"
  /\ user_request' = request
  /\ ready_event' = TRUE
  /\ UNCHANGED <<diskVars, up_pc, merged, flash, loopVars, branches, paramVars, faults>>

UpInit ==
  /\ up_pc = "off" /\ merged = NoTree /\ flash = "boot" /\ branches = NoBranches
  /\ user_request = "NONE" /\ ready_event = FALSE
  /\ first_run = TRUE /\ fetch_started = FALSE
  /\ update_failed_count = 0 /\ failed_fetch_count = 0 /\ wait = 0
  /\ UpdateAvailable = FALSE /\ UpdaterTargetBranch = "none" /\ DisableUpdates = FALSE
  /\ time_valid = FALSE /\ faults = 0
=============================================================================
