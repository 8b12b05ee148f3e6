------------------------------- MODULE Loggerd ------------------------------
(***************************************************************************)
(* loggerd, one thread (loggerd/loggerd.cc, logger.cc, video_writer.cc):   *)
(* records segment after segment.  LoggerState::next and the destructors   *)
(* lock, open, close and unlock in an order the other processes see, so    *)
(* each system call of theirs is a step.                                   *)
(***************************************************************************)
EXTENDS LogDisk

VARIABLES
  log_pc,     \* where the thread is (filming: recording, and the segment has its video)
  part,       \* the segment being recorded or made, -1 before the first
  starts      \* the segments that began a route

logVars == <<log_pc, part, starts>>

LogTypeOK ==
  /\ log_pc \in {"off", "mkdir", "lock", "open", "recording", "filming",
                 "exit_logs", "exit_video", "crashed"}
  /\ part \in Segs \union {-1}
  /\ starts \subseteq Segs

LogInit == log_pc = "off" /\ part = -1 /\ starts = {}

(* The log handler and the encoders are at work on a segment.              *)
Recording == log_pc \in {"recording", "filming"}

LoggerStart ==
  /\ log_pc \in {"off", "crashed"}
  /\ part + 1 \in Segs
  /\ starts' = starts \union {part + 1}
  /\ log_pc' = "mkdir"
  /\ UNCHANGED <<part, diskVars>>

(* rotate_if_needed found all encoders ready, or the segment too long.     *)
Rotate ==
  /\ Recording
  /\ part + 1 \in Segs
  /\ unlock(part, "rlog.lock")
  /\ log_pc' = "mkdir"
  /\ UNCHANGED <<part, starts, dirs, file, preserve, uploaded>>

create_directories ==
  /\ log_pc = "mkdir"
  /\ part' = part + 1
  /\ dirs' = dirs \union {part + 1}
  /\ log_pc' = "lock"
  /\ UNCHANGED <<starts, file, locks, preserve, uploaded>>

(* The lock is created if the directory is still there, and not missed     *)
(* otherwise.                                                              *)
CreateLock ==
  /\ log_pc = "lock"
  /\ \/ part \in dirs /\ locks' = [locks EXCEPT ![part] = {"rlog.lock"}]
     \/ part \notin dirs /\ UNCHANGED locks
  /\ log_pc' = "open"
  /\ UNCHANGED <<part, starts, dirs, file, preserve, uploaded>>

(* A file that cannot be created fails an assertion, and the process dies. *)
Crash ==
  /\ part \notin dirs
  /\ file' = [f \in Files |-> IF file[f] = "open" THEN "closed" ELSE file[f]]
  /\ log_pc' = "crashed"
  /\ UNCHANGED <<part, starts, dirs, locks, preserve, uploaded>>

(* rlog.reset and qlog.reset: each new writer is made, then the old one is *)
(* destroyed, which flushes and closes its file.                           *)
OpenLogs ==
  /\ log_pc = "open"
  /\ \/ /\ part \in dirs
        /\ file' = [f \in Files |->
                      IF KindOf(f) = "ecamera" THEN file[f]
                      ELSE IF SegOf(f) = part THEN "open"
                      ELSE IF file[f] = "open" THEN "closed" ELSE file[f]]
        /\ log_pc' = "recording"
        /\ UNCHANGED <<part, starts, dirs, locks, preserve, uploaded>>
     \/ Crash

(* The writer of an earlier segment's video closes its file and unlocks.   *)
ReleaseVideo(f, l) ==
  /\ file' = [g \in Files |-> IF KindOf(g) = "ecamera" /\ SegOf(g) # part /\ f[g] = "open"
                              THEN "closed" ELSE f[g]]
  /\ locks' = [d \in Segs |-> IF d = part THEN l[d] ELSE l[d] \ {"ecamera.lock"}]

(* The first packet of the encoder in this segment: a VideoWriter locks    *)
(* and opens the new file, and the old writer goes.                        *)
OpenVideo ==
  /\ log_pc = "recording"
  /\ \/ /\ part \in dirs
        /\ ReleaseVideo([file EXCEPT ![<<part, "ecamera">>] = "open"],
                        [locks EXCEPT ![part] = @ \union {"ecamera.lock"}])
        /\ log_pc' = "filming"
        /\ UNCHANGED <<part, starts, dirs, preserve, uploaded>>
     \/ Crash

(* Parked with SkipVideoWhenParked: the old writer goes, and none is made   *)
(* until the car leaves Park.                                              *)
ParkSkip ==
  /\ Recording
  /\ \E d \in Segs \ {part} : file[<<d, "ecamera">>] = "open"
  /\ ReleaseVideo(file, locks)
  /\ UNCHANGED <<logVars, dirs, preserve, uploaded>>

(* handle_preserve_segment: a bookmark marks the segment being recorded.   *)
Bookmark ==
  /\ Recording
  /\ part \in dirs \ preserve
  /\ preserve' = preserve \union {part}
  /\ UNCHANGED <<logVars, dirs, file, locks, uploaded>>

(* Mutant: the video is unlocked with the logs still open.                 *)
ExitUnlock_Both ==
  /\ Recording
  /\ locks' = [locks EXCEPT ![part] = {}]
  /\ log_pc' = "exit_logs"
  /\ UNCHANGED <<part, starts, dirs, file, preserve, uploaded>>

(* The destructors at exit: ~LoggerState unlocks, then its two writers     *)
(* close; the encoders' writers go last.                                   *)
ExitUnlock ==
  /\ Recording
  /\ unlock(part, "rlog.lock")
  /\ log_pc' = "exit_logs"
  /\ UNCHANGED <<part, starts, dirs, file, preserve, uploaded>>

ExitLogs ==
  /\ log_pc = "exit_logs"
  /\ file' = [f \in Files |-> IF KindOf(f) # "ecamera" /\ file[f] = "open"
                              THEN "closed" ELSE file[f]]
  /\ log_pc' = "exit_video"
  /\ UNCHANGED <<part, starts, dirs, locks, preserve, uploaded>>

ExitVideo ==
  /\ log_pc = "exit_video"
  /\ file' = [f \in Files |-> IF file[f] = "open" THEN "closed" ELSE file[f]]
  /\ locks' = [d \in Segs |-> locks[d] \ {"ecamera.lock"}]
  /\ log_pc' = "off"
  /\ UNCHANGED <<part, starts, dirs, preserve, uploaded>>

LogNext ==
  \/ LoggerStart \/ Rotate \/ create_directories \/ CreateLock
  \/ OpenLogs \/ OpenVideo \/ ParkSkip \/ Bookmark
  \/ ExitUnlock \/ ExitLogs \/ ExitVideo
=============================================================================
