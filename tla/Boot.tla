-------------------------------- MODULE Boot --------------------------------
(***************************************************************************)
(* launch_chffrplus.sh: the swap of a finalized update into place and      *)
(* agnos_init, with the AGNOS updater it may start.                        *)
(***************************************************************************)
EXTENDS Updater

VARIABLE machine      \* how far the boot is; "up" once the manager runs

bootVars == <<machine>>
BootTypeOK == machine \in {"launch", "moved", "agnos", "updater", "swap", "up"}

At(from, to) == machine = from /\ machine' = to

UpdateFound ==
  /\ fs.dir.init = "newest"
  /\ fs.fin.consistent
  /\ ~Exists(fs.old)

(* The two moves of the swap; nothing syncs between them.                  *)
launch ==
  /\ \/ /\ At("launch", "moved")
        /\ Exists(fs.dir) /\ UpdateFound
        /\ Write([fs EXCEPT !.old = fs.dir, !.dir = NoTree])
     \/ /\ At("moved", "launch")
        /\ Write([fs EXCEPT !.dir = fs.fin, !.fin = NoTree])
     \/ /\ At("launch", "agnos")
        /\ Exists(fs.dir) /\ ~UpdateFound
        /\ UNCHANGED disk
  /\ UNCHANGED <<active, booted, upVars>>

Wanted == AgnosOf[fs.dir.ver]

(* The manager starts: params of the last run are cleared, and the         *)
(* processes that always run come up.                                      *)
start_manager ==
  /\ At("agnos", "up")
  /\ OS = Wanted
  /\ UpStarts("main")
  /\ UpdateAvailable' = FALSE /\ UpdaterTargetBranch' = "none"
  /\ UNCHANGED <<diskVars, worldVars, faults>>

(* agnos.py --verify, or the AGNOS updater, which flashes until it can     *)
(* verify (--swap).                                                        *)
agnos_init ==
  /\ machine \in {"agnos", "updater"} /\ OS # Wanted
  /\ \/ At("agnos", "swap") /\ verify_agnos_update(Wanted) /\ UNCHANGED <<disk, flash>>
     \/ /\ At("agnos", "updater") /\ ~verify_agnos_update(Wanted)
        /\ flash' = "boot"
        /\ UNCHANGED disk
     \/ /\ At("updater", "updater") /\ flash # "flashed"
        /\ flash' \in FlashStages
        /\ flash_partition(flash, Wanted, flash')
     \/ /\ At("updater", "swap") /\ flash = "flashed" /\ verify_agnos_update(Wanted)
        /\ UNCHANGED <<disk, flash>>
  /\ UNCHANGED <<active, booted, up_pc, merged, loopVars, helperVars, branches, paramVars, worldVars, faults>>

(* The hashes are cleared, then the slot is made active, then the reboot.  *)
swap ==
  /\ machine = "swap"
  /\ \/ machine' = "swap" /\ Target.hash # "clear" /\ clear_partition_hash /\ UNCHANGED <<active, booted>>
     \/ /\ machine' = "launch" /\ Target.hash = "clear"
        /\ active' = get_target_slot_number
        /\ booted' = active'
        /\ UNCHANGED disk
  /\ UNCHANGED upVars

BootNext == launch \/ start_manager \/ agnos_init \/ swap
=============================================================================
