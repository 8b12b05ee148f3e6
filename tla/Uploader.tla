------------------------------ MODULE Uploader ------------------------------
(***************************************************************************)
(* The uploader's main loop on the files of the log root                   *)
(* (loggerd/uploader.py).  A pass picks one file from a fresh listing and  *)
(* works on it for as long as the network takes, while loggerd and the     *)
(* deleter go on changing the disk: choosing, sending and marking  *)
(* are separate steps.  The gateway is external, and known by its answers. *)
(***************************************************************************)
EXTENDS LogDisk

CONSTANT MaxFailures    \* bound: requests without a 2xx in one behaviour

ASSUME MaxFailuresAssumption == MaxFailures \in Nat

NoFile == <<-1, "none">>

VARIABLES
  up_pc,        \* idle, sized, sent (a 2xx), blank (nothing to send), dead
  job,          \* the file in hand
  cooling,      \* _retry_after: files whose retry time has not come
  failures,     \* requests that failed so far
  backend       \* what the gateway holds of each file

upVars == <<up_pc, job, cooling, failures, backend>>

UpTypeOK ==
  /\ up_pc \in {"idle", "sized", "sent", "blank", "dead"}
  /\ job \in Files \union {NoFile}
  /\ cooling \subseteq Files
  /\ failures \in 0..MaxFailures
  /\ backend \in [Files -> {"none", "part", "whole"}]

UpInit ==
  /\ up_pc = "idle" /\ job = NoFile
  /\ cooling = {}
  /\ failures = 0
  /\ backend = [f \in Files |-> "none"]

(* The files list_upload_files yields, for both passes.                    *)
list_upload_files ==
  {f \in Files \ (uploaded \union cooling) :
     /\ Present(f)
     /\ ~Locked(SegOf(f))
     /\ ~("DeferHDVideoUpload" \in toggles /\ KindOf(f) \in HD_VIDEO_FILES)
     /\ ~("SkipWideCameraUpload" \in toggles /\ KindOf(f) \in WIDE_CAMERA_FILES)}

Oldest(S) == {f \in S : \A g \in S : SegOf(f) <= SegOf(g)}

next_file_to_upload == Oldest({f \in list_upload_files : KindOf(f) = "qlog"})

next_pass2_file_to_upload ==
  LET pass2 == {f \in list_upload_files : KindOf(f) \in FIREHOSE_FILES}
      first == {f \in pass2 : KindOf(f) \in PASS2_PRIORITY_FILES}
  IN  Oldest(IF first # {} THEN first ELSE pass2)

Done == up_pc' = "idle" /\ job' = NoFile

(* One turn of the main loop on a network that allows pass 1, and at the   *)
(* priority network pass 2 once pass 1 has nothing left.  A file that is   *)
(* gone before its size is read changes nothing.                           *)
Choose ==
  /\ up_pc = "idle"
  /\ \/ job' \in next_file_to_upload
     \/ next_file_to_upload = {} /\ job' \in next_pass2_file_to_upload
  /\ up_pc' = IF file[job'] = "empty" THEN "blank" ELSE "sized"
  /\ UNCHANGED <<cooling, failures, backend, diskVars>>

Content == IF file[job] = "open" THEN "part" ELSE "whole"

Received == backend' = [backend EXCEPT ![job] = Content]

(* A 2xx for the file: nothing else counts as uploaded.  A file the        *)
(* gateway had already is overwritten.                                     *)
PutAccepted ==
  /\ up_pc = "sized"
  /\ Present(job)
  /\ Received
  /\ cooling' = cooling \ {job}
  /\ up_pc' = "sent"
  /\ UNCHANGED <<job, failures, diskVars>>

(* Any other end of the request leaves the file unmarked and cooling down: *)
(* a 412 (the gateway declines it, perhaps because it has it), another     *)
(* status, no answer, a file that is no longer there.  The body may have   *)
(* arrived, and only its answer been lost.                                 *)
PutFailed ==
  /\ up_pc = "sized"
  /\ failures < MaxFailures
  /\ failures' = failures + 1
  /\ cooling' = cooling \union {job}
  /\ \/ UNCHANGED backend
     \/ Present(job) /\ Received
  /\ Done
  /\ UNCHANGED diskVars

(* setxattr: the deleter may have taken the file.  For a file with nothing *)
(* to send the handler of that error reads a name not yet bound, and the   *)
(* exception ends the process, which the manager does not restart.         *)
Mark ==
  /\ up_pc \in {"sent", "blank"}
  /\ \/ Present(job) /\ uploaded' = uploaded \union {job} /\ Done
     \/ ~Present(job) /\ up_pc = "sent" /\ UNCHANGED uploaded /\ Done
     \/ ~Present(job) /\ up_pc = "blank" /\ UNCHANGED <<uploaded, job>> /\ up_pc' = "dead"
  /\ UNCHANGED <<cooling, failures, backend,
                 dirs, file, locks, preserve>>

(* RETRY_COOLDOWN_S is over for a file.                                    *)
CooldownLapses ==
  /\ up_pc = "idle"
  /\ \E f \in cooling : cooling' = cooling \ {f}
  /\ UNCHANGED <<up_pc, job, failures, backend, diskVars>>

UpNext ==
  \/ Choose \/ PutAccepted \/ PutFailed \/ Mark \/ CooldownLapses
=============================================================================
