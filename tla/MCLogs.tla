------------------------------- MODULE MCLogs -------------------------------
(***************************************************************************)
(* Properties of the disk that loggerd, the uploader and the deleter       *)
(* share, for TLC.                                                         *)
(***************************************************************************)
EXTENDS Logs

(* A file marked as uploaded is at the gateway as a whole, or held nothing *)
(* (upload() marks on a 2xx or a zero size): the lock files keep the       *)
(* uploader off a file that loggerd has not closed.  A segment that never  *)
(* had a video writer is excepted: rlog.lock goes before rlog and qlog are *)
(* closed, and only the video's lock covers that.  So is a segment that    *)
(* the deleter looked at between its mkdir and its lock: it may have taken *)
(* the lock, and failed to remove the rest.                                *)
UploadedIsWhole ==
  \A f \in uploaded :
    SegOf(f) \in filmed \ entered => file[f] = "empty" \/ backend[f] = "whole"

(* Whatever goes un-sent with a segment that the deleter removes is        *)
(* reported (report_unuploaded_loss), however the uploader and loggerd     *)
(* move during the sweep, and also when an earlier removal of the segment  *)
(* has failed.  The exceptions are a power loss before the report, a       *)
(* segment the deleter looked at between its mkdir and its lock, and what  *)
(* a removal had unlinked before it failed: the handler of OSError reports *)
(* nothing, and the next sweep does not find those files any more.         *)
LossIsReported ==
  del_pc = "idle" => \A f \in unreported : SegOf(f) \in entered

(* The deleter never takes the segment loggerd is recording, nor a file it *)
(* has open, except for a segment it looked at between mkdir and lock, and *)
(* the end of one without video.                                           *)
OpenFilesStay ==
  [][/\ \A d \in dirs \ dirs' :
          d = part /\ log_pc \in {"open", "recording", "filming"}
            => d \in entered
     /\ \A f \in Files :
          file[f] = "open" /\ file'[f] = "absent" /\ SegOf(f) \in filmed
            => SegOf(f) \in entered]_vars

(* Un-sent or bookmarked data goes only when no segment could have gone    *)
(* without loss all through the sweep (the sort in _sweep, over the locks, *)
(* uploads and bookmarks that change under it), but for segments that the  *)
(* deleter tried to remove, and could not.                                 *)
LossIsLastResort ==
  [][\A f \in Files :
       /\ Present(f) /\ ~Present(f)' /\ spare # {}
       /\ f \in Destroyed \/ SegOf(f) \in get_preserved_segments(starts)
       => SegOf(f) \in spare]_vars

(* The uploader outlives whatever the deleter removes under it: the        *)
(* handlers of OSError in list_upload_files and upload are there for that. *)
UploaderSurvives == up_pc # "dead"
=============================================================================
