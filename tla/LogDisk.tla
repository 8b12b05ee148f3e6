------------------------------- MODULE LogDisk ------------------------------
(***************************************************************************)
(* What loggerd, the uploader and the deleter share: the segment           *)
(* directories of the log root, their files and locks, and the extended    *)
(* attributes the three processes leave on them.  A segment is numbered by *)
(* its creation, which is also the order of the names                      *)
(* (get_directory_sort).                                                   *)
(***************************************************************************)
EXTENDS Integers, FiniteSets

CONSTANTS
  NumSegs,     \* bound: segments recorded in one behaviour
  toggles      \* which of the two upload parameters the driver has on

ASSUME NumSegsAssumption == NumSegs \in Nat \ {0}
ASSUME togglesAssumption == toggles \subseteq {"SkipWideCameraUpload", "DeferHDVideoUpload"}

Segs == 0..(NumSegs - 1)

(* The files of a segment: one of the small files of pass 1, the log and   *)
(* one camera's video of pass 2.                                           *)
Kinds == {"qlog", "rlog", "ecamera"}
Files == Segs \X Kinds
SegOf(f) == f[1]
KindOf(f) == f[2]

FIREHOSE_FILES == {"rlog", "ecamera"}
PASS2_PRIORITY_FILES == {"rlog"}
HD_VIDEO_FILES == {"ecamera"}
WIDE_CAMERA_FILES == {"ecamera"}

VARIABLES
  dirs,         \* the segment directories that exist
  file,         \* each file: absent, open (a writer has it), closed, or closed and empty
  locks,        \* the .lock files of each segment
  preserve,     \* directories with user.preserve
  uploaded      \* files with user.upload

diskVars == <<dirs, file, locks, preserve, uploaded>>

DiskTypeOK ==
  /\ dirs \subseteq Segs
  /\ file \in [Files -> {"absent", "open", "closed", "empty"}]
  /\ locks \in [Segs -> SUBSET {"rlog.lock", "ecamera.lock"}]
  /\ preserve \subseteq dirs
  /\ uploaded \subseteq Files

DiskInit ==
  /\ dirs = {}
  /\ file = [f \in Files |-> "absent"]
  /\ locks = [d \in Segs |-> {}]
  /\ preserve = {}
  /\ uploaded = {}

Present(f) == file[f] # "absent"
(* Mutant: only loggerd's own lock counts.                                 *)
Locked_Rlog(d) == "rlog.lock" \in locks[d]

Locked(d) == locks[d] # {}

unlock(d, l) == locks' = [locks EXCEPT ![d] = @ \ {l}]

(* What a directory holds, by name: files and locks.                       *)
Entries(d) == {k \in Kinds : Present(<<d, k>>)} \union locks[d]

(* Names that go, with the attributes of the files.                        *)
unlink(d, names) ==
  /\ file' = [f \in Files |-> IF SegOf(f) = d /\ KindOf(f) \in names THEN "absent" ELSE file[f]]
  /\ locks' = [locks EXCEPT ![d] = @ \ names]
  /\ uploaded' = {f \in uploaded : ~(SegOf(f) = d /\ KindOf(f) \in names)}

(* All of them, and then the directory.                                    *)
rmtree(d) ==
  /\ unlink(d, Entries(d))
  /\ dirs' = dirs \ {d}
  /\ preserve' = preserve \ {d}

(* The pass-2 files the uploader is ever going to send.                    *)
uploadable_firehose_files ==
  IF "SkipWideCameraUpload" \in toggles THEN FIREHOSE_FILES \ WIDE_CAMERA_FILES
  ELSE FIREHOSE_FILES

unuploaded_firehose(d) ==
  {f \in Files : SegOf(f) = d /\ Present(f) /\ KindOf(f) \in FIREHOSE_FILES} \ uploaded

has_unuploaded_firehose(d) ==
  \E f \in unuploaded_firehose(d) : KindOf(f) \in uploadable_firehose_files
=============================================================================
