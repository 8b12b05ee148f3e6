------------------------------- MODULE Update -------------------------------
(***************************************************************************)
(* The updater, the boot and the power: what of a software update survives *)
(* a reboot or a power loss at any moment, with a remote that moves on, a  *)
(* driver at the software page and someone working in the tree.            *)
(***************************************************************************)
EXTENDS Boot

CONSTANTS
  Factory,      \* the commit the device starts with
  MaxEvents,    \* bound: pushes, taps and local changes in one behaviour
  MaxReboots,   \* bound: orderly reboots
  MaxLosses     \* bound: power losses

ASSUME UpdateAssumption ==
  /\ Factory \in Versions
  /\ MaxEvents \in Nat /\ MaxReboots \in Nat /\ MaxLosses \in Nat

VARIABLES
  events, reboots, losses,    \* how much of the bounds is used
  asked,        \* history: a request came since the last pass began
  promised      \* history: the commit offered when the driver chose to reboot

boundVars == <<events, reboots, losses>>
histVars == <<asked, promised>>
vars == <<diskVars, upVars, bootVars, boundVars, histVars>>

TypeOK ==
  /\ DiskTypeOK /\ UpTypeOK /\ BootTypeOK
  /\ events \in 0..MaxEvents /\ reboots \in 0..MaxReboots /\ losses \in 0..MaxLosses
  /\ asked \in BOOLEAN
  /\ promised \in Versions \union {"none"}

Init ==
  /\ update_init(Factory)
  /\ UpInit
  /\ \E h \in {[b \in Branches |-> CHOOSE v \in Versions : BranchOf[v] = b]} :
       heads = [h EXCEPT ![BranchOf[Factory]] = Factory]
  /\ machine = "launch"
  /\ events = 0 /\ reboots = 0 /\ losses = 0
  /\ asked = FALSE /\ promised = "none"

UpStep ==
  /\ machine = "up"
  /\ UpNext
  /\ asked' = (asked /\ ~(up_pc = "top" /\ up_pc' = "init"))
  /\ promised' = "none"
  /\ UNCHANGED <<bootVars, boundVars>>

BootStep == BootNext /\ UNCHANGED <<boundVars, histVars>>

(* The clock is set once there is a network or a GPS fix.                  *)
SetClock ==
  /\ ~time_valid /\ time_valid' = TRUE
  /\ UNCHANGED <<diskVars, up_pc, merged, flash, loopVars, helperVars, branches, paramVars, DisableUpdates,
                 heads, faults, bootVars, boundVars, histVars>>

Event == machine = "up" /\ events < MaxEvents /\ events' = events + 1

(* External: a commit is pushed.                                           *)
Push ==
  /\ Event
  /\ \E v \in Versions : heads[BranchOf[v]] # v /\ heads' = [heads EXCEPT ![BranchOf[v]] = v]
  /\ UNCHANGED <<diskVars, up_pc, merged, flash, loopVars, helperVars, branches, paramVars, DisableUpdates,
                 time_valid, faults, bootVars, reboots, losses, histVars>>

(* The software page: check or download, another branch, pause.            *)
_on_download_update ==
  /\ Event
  /\ \E request \in {"CHECK", "FETCH"} : Signal(request)
  /\ asked' = TRUE
  /\ UNCHANGED <<paramVars, worldVars, bootVars, reboots, losses, promised>>

_on_select_branch ==
  /\ Event
  /\ \E b \in Branches \ {target_branch} : UpdaterTargetBranch' = b
  /\ user_request' = "CHECK" /\ ready_event' = TRUE
  /\ asked' = TRUE
  /\ UNCHANGED <<diskVars, up_pc, merged, flash, loopVars, branches, UpdateAvailable, worldVars, faults,
                 bootVars, reboots, losses, promised>>

_on_pause_updates ==
  /\ Event
  /\ DisableUpdates' = ~DisableUpdates
  /\ UNCHANGED <<diskVars, up_pc, merged, flash, loopVars, helperVars, branches, paramVars, heads, time_valid,
                 faults, bootVars, reboots, losses, histVars>>

(* Someone checks out a commit in BASEDIR, one for the AGNOS that runs.    *)
Develop ==
  /\ Event
  /\ \E v \in {w \in Versions : AgnosOf[w] = OS} :
       Write([fs EXCEPT !.dir.ver = v, !.dir.init = IF @ = "none" THEN "none" ELSE "older"])
  /\ promised' = "none"
  /\ UNCHANGED <<active, booted, upVars, bootVars, reboots, losses, asked>>

(* The device goes down with everything on disk, whatever the updater was  *)
(* doing.  An update that was on offer is what the driver expects to find. *)
Reboot ==
  /\ machine = "up" /\ machine' = "launch"
  /\ reboots < MaxReboots /\ reboots' = reboots + 1
  /\ sync(fs)
  /\ booted' = active
  /\ UpStarts("off")
  /\ time_valid' = FALSE
  /\ asked' = FALSE
  /\ promised' = IF UpdateAvailable /\ up_pc \in Resting /\ fs.dir.init = "newest"
                 THEN fs.fin.ver ELSE "none"
  /\ UNCHANGED <<active, paramVars, DisableUpdates, heads, faults, events, losses>>

PowerLoss ==
  /\ machine' = "launch"
  /\ losses < MaxLosses /\ losses' = losses + 1
  /\ \E left \in Leftovers : fs' = left /\ platter' = left
  /\ booted' = active
  /\ UpStarts("off")
  /\ time_valid' = FALSE
  /\ asked' = FALSE
  /\ UNCHANGED <<active, paramVars, DisableUpdates, heads, faults, events, reboots, promised>>

Next ==
  \/ UpStep \/ BootStep \/ SetClock
  \/ Push \/ _on_download_update \/ _on_select_branch \/ _on_pause_updates \/ Develop
  \/ Reboot \/ PowerLoss

(* The scheduler runs the updater and the launcher, and the clock gets     *)
(* set; nobody has to tap, push or reboot.                                 *)
Fairness == WF_vars(UpStep) /\ WF_vars(BootStep) /\ WF_vars(SetClock)

Spec == Init /\ [][Next]_vars /\ Fairness
=============================================================================
