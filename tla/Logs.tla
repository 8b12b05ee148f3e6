-------------------------------- MODULE Logs --------------------------------
(***************************************************************************)
(* loggerd, the uploader and the deleter on one disk, and the power that   *)
(* may go at any moment.  The three processes share nothing but the disk.  *)
(***************************************************************************)
EXTENDS Loggerd, Uploader, Deleter

CONSTANTS
  MaxReboots,     \* bound: power losses in one behaviour
  MaxFaults       \* bound: requests and candidates that fail in one behaviour, together

ASSUME MaxRebootsAssumption == MaxReboots \in Nat
ASSUME MaxFaultsAssumption == MaxFaults \in Nat

VARIABLES
  reboots,      \* power losses so far
  unreported,   \* history: un-uploaded files destroyed and not reported, but for
                \* what a removal destroyed that then failed
  entered,      \* history: segments that passed the deleter's check before they had a lock
  filmed,       \* history: segments that have had a video writer
  spare         \* history: segments that could have gone without loss ever
                \* since the sweep began, and that the deleter has not failed to remove

histVars == <<unreported, entered, filmed, spare>>
vars == <<diskVars, logVars, upVars, delVars, reboots, histVars>>

TypeOK ==
  /\ DiskTypeOK /\ LogTypeOK /\ UpTypeOK /\ DelTypeOK
  /\ reboots \in 0..MaxReboots
  /\ unreported \subseteq Files
  /\ entered \subseteq Segs
  /\ filmed \subseteq Segs
  /\ spare \subseteq Segs

Init ==
  /\ DiskInit /\ LogInit /\ UpInit /\ DelInit
  /\ reboots = 0
  /\ unreported = {} /\ entered = {} /\ filmed = {}
  /\ spare = {}

(* Files with content that go before the gateway has any of it, though the *)
(* uploader would still have sent them.                                    *)
Destroyed ==
  {f \in Files : /\ file[f] \in {"open", "closed"} /\ file'[f] = "absent"
                 /\ KindOf(f) \in firehose
                 /\ backend[f] = "none"}

(* Nothing is lost with the segment: it is complete, sent, and not kept    *)
(* for a bookmark.                                                         *)
Costless(d) ==
  /\ d \in dirs /\ ~Locked(d)
  /\ ~has_unuploaded_firehose(d)
  /\ d \notin get_preserved_segments(starts)

(* The deleter is done with what it was about to remove: it has reported   *)
(* what it had noted, or has failed, and forgets it.                       *)
Leaves == del_pc \in {"remove", "report"} /\ del_pc' \in {"idle", "check"}

Histories ==
  /\ unreported' = (unreported \union Destroyed) \ (IF Leaves THEN lost ELSE {})
  /\ entered' = entered \union
       {d \in {part} : log_pc = "lock" /\ del_pc = "check" /\ del_pc' = "remove" /\ delete_dir = d}
  /\ filmed' = {d \in dirs' : d \in filmed \/ "ecamera.lock" \in locks'[d]}
  /\ spare' = IF del_pc' = "idle" THEN {}
               ELSE {d \in (IF del_pc = "idle" THEN dirs'
                              ELSE IF ordered' # ordered THEN spare \ {delete_dir}
                              ELSE spare) : Costless(d)'}

FaultsBounded == failures' + issues' <= MaxFaults

LogStep == LogNext /\ UNCHANGED <<upVars, delVars, reboots>> /\ Histories
UpStep == UpNext /\ UNCHANGED <<logVars, delVars, reboots>> /\ FaultsBounded /\ Histories

(* What the gateway and the retry map hold of a file that is gone matters  *)
(* no more, and is forgotten.                                              *)
DelStep ==
  /\ DelNext(starts)
  /\ backend' = [f \in Files |-> IF file'[f] = "absent" THEN "none" ELSE backend[f]]
  /\ cooling' = {f \in cooling : file'[f] # "absent"}
  /\ UNCHANGED <<logVars, up_pc, job, failures, reboots>>
  /\ FaultsBounded
  /\ Histories

(* The power goes.  A file being written keeps what had reached the disk,  *)
(* or nothing; the memory of the processes is gone; the uploader clears    *)
(* the locks when it comes up, which is taken to be before loggerd does.   *)
(* A report that was due is never made, which is no fault of the deleter.  *)
Reboot ==
  /\ reboots < MaxReboots
  /\ reboots' = reboots + 1
  /\ \E torn \in {{}, {f \in Files : file[f] = "open"}} :
       file' = [f \in Files |-> IF f \in torn THEN "empty"
                                ELSE IF file[f] = "open" THEN "closed" ELSE file[f]]
  /\ locks' = [d \in Segs |-> {}]
  /\ log_pc' = "off"
  /\ up_pc' = "idle" /\ job' = NoFile
  /\ cooling' = {}
  /\ del_pc' = "idle" /\ ordered' = <<>> /\ lost' = {}
  /\ spare' = {}
  /\ unreported' = {}
  /\ UNCHANGED <<dirs, preserve, uploaded, part, starts, failures, backend,
                 firehose, issues, entered, filmed>>

Next == LogStep \/ UpStep \/ DelStep \/ Reboot

Spec == Init /\ [][Next]_vars
=============================================================================
