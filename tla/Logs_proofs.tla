----------------------------- MODULE Logs_proofs -----------------------------
(***************************************************************************)
(* Proofs about the disk that loggerd, the uploader and the deleter share, *)
(* for every number of segments, failures and power losses, every pair of  *)
(* upload parameters and every interleaving of the three processes.        *)
(***************************************************************************)
EXTENDS MCLogs, TLAPS

-----------------------------------------------------------------------------
(* loggerd is past this segment: it will write to it no more, but for      *)
(* closing what it has open.                                               *)
Retired(d) == d < part \/ (d = part /\ log_pc \notin {"lock", "open", "recording", "filming"})

(* Nothing of a segment that had a video writer is still open.             *)
Sealed(d) == /\ Retired(d)
             /\ d \in filmed => \A f \in Files : SegOf(f) = d => file[f] # "open"

TypeInv ==
  /\ DiskTypeOK /\ LogTypeOK
  /\ up_pc \in {"idle", "sized", "sent", "blank", "dead"}
  /\ up_pc \in {"sized", "sent", "blank"} => job \in Files
  /\ backend \in [Files -> {"none", "part", "whole"}]
  /\ del_pc \in {"idle", "check", "remove", "report"}
  /\ firehose \subseteq FIREHOSE_FILES
  /\ filmed \subseteq dirs

(* What is on the disk is what loggerd has made so far, and a segment in   *)
(* its hands has its lock, unless the deleter was at it before.            *)
MadeInv ==
  /\ \A d \in dirs : d <= part
  /\ \A f \in Files : Present(f) => SegOf(f) \in dirs
  /\ log_pc \in {"lock", "open"} => /\ part \notin filmed
                                    /\ \A f \in Files : SegOf(f) = part => ~Present(f)
  /\ log_pc = "recording" => \A f \in Files : SegOf(f) = part /\ KindOf(f) = "ecamera" => ~Present(f)
  /\ log_pc \in {"open", "recording", "filming"} /\ part \in dirs =>
       "rlog.lock" \in locks[part] \/ part \in entered
  /\ log_pc \in {"lock", "open", "recording", "filming", "exit_logs", "exit_video"} => part \in Segs
  /\ log_pc = "mkdir" => part + 1 \in Segs

(* The video's lock: on every open video, and on every segment with a      *)
(* video whose logs are open still.                                        *)
VideoInv ==
  /\ \A d \in Segs : "ecamera.lock" \in locks[d] => d \in filmed
  /\ \A f \in Files : file[f] = "open" /\ SegOf(f) \in filmed =>
       "ecamera.lock" \in locks[SegOf(f)] \/ SegOf(f) \in entered
  /\ \A f \in Files : file[f] = "open" /\ KindOf(f) = "ecamera" => SegOf(f) \in filmed
  /\ Recording =>
       \A f \in Files : file[f] = "open" /\ KindOf(f) # "ecamera" => SegOf(f) = part
  /\ log_pc \in {"exit_video", "off", "crashed"} =>
       \A f \in Files : file[f] = "open" => KindOf(f) = "ecamera"
  /\ log_pc \in {"off", "crashed"} => \A f \in Files : file[f] # "open"

(* The file in the uploader's hands, and what its marks say.               *)
UploadInv ==
  /\ up_pc \in {"sized", "sent", "blank"} => Sealed(SegOf(job)) \/ SegOf(job) \in entered
  /\ up_pc = "sent" /\ Present(job) /\ SegOf(job) \notin entered =>
       /\ backend[job] # "none"
       /\ SegOf(job) \in filmed => backend[job] = "whole"
  /\ up_pc = "blank" /\ Present(job) /\ SegOf(job) \notin entered => file[job] = "empty"
  /\ \A f \in uploaded : Present(f)
  /\ \A f \in uploaded : SegOf(f) \notin entered =>
       Retired(SegOf(f)) /\ (file[f] = "empty" \/ backend[f] # "none")
  /\ UploadedIsWhole

(* The directory the deleter is about to remove: nothing came into it      *)
(* since it was looked at, and what it holds is sent or noted as lost.     *)
DeleteInv ==
  /\ del_pc = "remove" =>
       \/ delete_dir \in entered
       \/ /\ delete_dir \in Segs /\ Sealed(delete_dir)
          /\ \A f \in Files : SegOf(f) = delete_dir /\ Present(f) /\ KindOf(f) \in firehose
                                => f \in lost \/ f \in uploaded
  /\ \A f \in unreported : SegOf(f) \in entered \/ (del_pc = "report" /\ f \in lost)

LogsInv == TypeInv /\ MadeInv /\ VideoInv /\ UploadInv /\ DeleteInv

-----------------------------------------------------------------------------

(* A file is its segment and its kind.                                     *)
LEMMA FileFacts ==
  /\ \A f \in Files : SegOf(f) \in Segs /\ KindOf(f) \in Kinds
  /\ \A d \in Segs, k \in Kinds : /\ <<d, k>> \in Files
                                  /\ SegOf(<<d, k>>) = d /\ KindOf(<<d, k>>) = k
  /\ \A f \in Files, d \in Segs, k \in Kinds : SegOf(f) = d /\ KindOf(f) = k => f = <<d, k>>
  /\ Segs \subseteq Nat /\ -1 \notin Segs
  /\ \A d \in Segs : \A e \in Nat : e <= d => e \in Segs
BY NumSegsAssumption DEF Files, SegOf, KindOf, Segs

(* The disk is empty at first.                                             *)
LEMMA LogsInvInit == Init => LogsInv
<1> SUFFICES ASSUME Init PROVE LogsInv
  OBVIOUS
<1> USE DEF Init, DiskInit, LogInit, UpInit, DelInit
<1>1. TypeInv
  BY DEF TypeInv, DiskTypeOK, LogTypeOK
<1>2. MadeInv /\ VideoInv
  BY DEF MadeInv, VideoInv, Present
<1>3. UploadInv /\ DeleteInv
  BY DEF UploadInv, DeleteInv, UploadedIsWhole
<1> QED BY <1>1, <1>2, <1>3 DEF LogsInv

-----------------------------------------------------------------------------

(* The segments with a video writer, after a step that leaves the locks.   *)
LEMMA FilmedSame ==
  ASSUME TypeInv, VideoInv, Histories, UNCHANGED <<dirs, locks>>
  PROVE  filmed' = filmed
<1>1. filmed' = {d \in dirs : d \in filmed \/ "ecamera.lock" \in locks[d]}
  BY DEF Histories
<1>2. dirs \subseteq Segs /\ filmed \subseteq dirs
  BY DEF TypeInv, DiskTypeOK
<1> QED BY <1>1, <1>2 DEF VideoInv

(* What any step of loggerd does to the rest: files are closed, or opened  *)
(* in the segment in its hands where there were none; segments come, and   *)
(* what it is past it stays past.                                          *)
LogFrame ==
  /\ dirs \subseteq dirs' /\ dirs' \subseteq dirs \union {part + 1}
  /\ \A f \in Files :
       \/ file'[f] = file[f]
       \/ file[f] = "open" /\ file'[f] = "closed"
       \/ file[f] = "absent" /\ file'[f] = "open" /\ ~Retired(SegOf(f))
  /\ \A d \in Segs : Retired(d) => Retired(d)' /\ (d \in filmed' => d \in filmed)
  /\ UNCHANGED uploaded

LogInv == TypeInv /\ MadeInv /\ VideoInv

(* loggerd comes up, or rotates: a segment is about to be made.            *)
LEMMA StartStep ==
  ASSUME LogInv, Histories, UNCHANGED <<upVars, delVars>>, LoggerStart \/ Rotate
  PROVE  LogInv' /\ LogFrame
<1> USE DEF LogInv, Recording
<1>a. entered \subseteq entered'
  BY DEF Histories
<1> USE <1>a
<1>1. CASE LoggerStart
  <2>1. /\ log_pc \in {"off", "crashed"} /\ log_pc' = "mkdir" /\ part' = part
        /\ starts' = starts \union {part + 1} /\ part + 1 \in Segs
        /\ UNCHANGED <<dirs, file, locks, preserve, uploaded>>
    BY <1>1 DEF LoggerStart, diskVars
  <2>2. filmed' = filmed
    BY <2>1, FilmedSame
  <2>3. TypeInv'
    BY <2>1, <2>2 DEF TypeInv, DiskTypeOK, LogTypeOK, upVars, delVars
  <2>4. MadeInv' /\ VideoInv'
    BY <2>1, <2>2 DEF MadeInv, VideoInv, Present
  <2>5. LogFrame
    BY <2>1, <2>2 DEF LogFrame, Retired
  <2> QED BY <2>3, <2>4, <2>5
<1>2. CASE Rotate
  <2>1. /\ Recording /\ log_pc' = "mkdir" /\ part' = part /\ part \in Segs
        /\ locks' = [locks EXCEPT ![part] = @ \ {"rlog.lock"}] /\ part + 1 \in Segs
        /\ UNCHANGED <<starts, dirs, file, preserve, uploaded>>
    BY <1>2 DEF Rotate, unlock, MadeInv
  <2>2. locks \in [Segs -> SUBSET {"rlog.lock", "ecamera.lock"}]
    BY DEF TypeInv, DiskTypeOK
  <2>3. \A d \in Segs : "ecamera.lock" \in locks'[d] <=> "ecamera.lock" \in locks[d]
    BY <2>1, <2>2
  <2>4. filmed' = filmed
    <3>1. filmed' = {d \in dirs : d \in filmed \/ "ecamera.lock" \in locks'[d]}
      BY <2>1 DEF Histories
    <3>2. dirs \subseteq Segs /\ filmed \subseteq dirs
      BY DEF TypeInv, DiskTypeOK
    <3> QED BY <3>1, <3>2, <2>3 DEF VideoInv
  <2>5. locks' \in [Segs -> SUBSET {"rlog.lock", "ecamera.lock"}]
    BY <2>1, <2>2
  <2>6. TypeInv'
    BY <2>1, <2>4, <2>5 DEF TypeInv, DiskTypeOK, LogTypeOK, upVars, delVars
  <2>7. MadeInv'
    BY <2>1, <2>4 DEF MadeInv, Present
  <2>8. VideoInv'
    BY <2>1, <2>3, <2>4, FileFacts DEF VideoInv
  <2>9. LogFrame
    BY <2>1, <2>4 DEF LogFrame, Retired
  <2> QED BY <2>6, <2>7, <2>8, <2>9
<1> QED BY <1>1, <1>2

(* The directory of a segment is made, and then its lock.                  *)
LEMMA MakeStep ==
  ASSUME LogInv, Histories, UNCHANGED <<upVars, delVars>>, create_directories \/ CreateLock
  PROVE  LogInv' /\ LogFrame
<1> USE DEF LogInv, Recording
<1>a. entered \subseteq entered'
  BY DEF Histories
<1> USE <1>a
<1>0. /\ dirs \subseteq Segs /\ filmed \subseteq dirs
      /\ locks \in [Segs -> SUBSET {"rlog.lock", "ecamera.lock"}]
  BY DEF TypeInv, DiskTypeOK
<1>1. CASE create_directories
  <2>1. /\ log_pc = "mkdir" /\ log_pc' = "lock" /\ part' = part + 1 /\ part + 1 \in Segs
        /\ dirs' = dirs \union {part + 1} /\ part \in Int
        /\ UNCHANGED <<starts, file, locks, preserve, uploaded>>
    <3>1. part \in Segs \union {-1}
      BY DEF TypeInv, LogTypeOK
    <3>2. part \in Int
      BY <3>1, FileFacts
    <3> QED BY <1>1, <3>2 DEF create_directories, MadeInv
  <2>2. part + 1 \notin dirs
    BY <2>1 DEF MadeInv
  <2>3. filmed' = filmed
    <3>1. filmed' = {d \in dirs \union {part + 1} : d \in filmed \/ "ecamera.lock" \in locks[d]}
      BY <2>1 DEF Histories
    <3>2. "ecamera.lock" \notin locks[part + 1]
      BY <1>0, <2>1, <2>2 DEF VideoInv
    <3> QED BY <1>0, <3>1, <3>2 DEF VideoInv
  <2>4. TypeInv'
    BY <1>0, <2>1, <2>3 DEF TypeInv, DiskTypeOK, LogTypeOK, upVars, delVars
  <2>5. MadeInv'
    <3>1. \A d \in dirs' : d <= part'
      BY <1>0, <2>1, FileFacts DEF MadeInv
    <3>2. part' \notin filmed' /\ \A f \in Files : SegOf(f) = part' => ~Present(f)'
      BY <1>0, <2>1, <2>2, <2>3 DEF MadeInv, Present
    <3> QED BY <2>1, <3>1, <3>2 DEF MadeInv, Present
  <2>6. VideoInv'
    BY <2>1, <2>3 DEF VideoInv
  <2>7. LogFrame
    BY <2>1, <2>3, FileFacts DEF LogFrame, Retired
  <2> QED BY <2>4, <2>5, <2>6, <2>7
<1>2. CASE CreateLock
  <2>1. /\ log_pc = "lock" /\ log_pc' = "open" /\ part' = part /\ part \in Segs
        /\ \/ part \in dirs /\ locks' = [locks EXCEPT ![part] = {"rlog.lock"}]
           \/ part \notin dirs /\ locks' = locks
        /\ UNCHANGED <<starts, dirs, file, preserve, uploaded>>
    BY <1>2 DEF CreateLock, MadeInv
  <2>2. part \notin filmed
    BY <2>1 DEF MadeInv
  <2>3. /\ locks' \in [Segs -> SUBSET {"rlog.lock", "ecamera.lock"}]
        /\ \A d \in Segs : "ecamera.lock" \in locks'[d] <=> "ecamera.lock" \in locks[d]
        /\ part \in dirs => "rlog.lock" \in locks'[part]
    BY <1>0, <2>1, <2>2 DEF VideoInv
  <2>4. filmed' = filmed
    <3>1. filmed' = {d \in dirs : d \in filmed \/ "ecamera.lock" \in locks'[d]}
      BY <2>1 DEF Histories
    <3> QED BY <1>0, <3>1, <2>3 DEF VideoInv
  <2>5. TypeInv'
    BY <2>1, <2>3, <2>4 DEF TypeInv, DiskTypeOK, LogTypeOK, upVars, delVars
  <2>6. MadeInv'
    BY <2>1, <2>3, <2>4 DEF MadeInv, Present
  <2>7. VideoInv'
    BY <2>1, <2>3, <2>4, FileFacts DEF VideoInv
  <2>8. LogFrame
    BY <2>1, <2>4 DEF LogFrame, Retired
  <2> QED BY <2>5, <2>6, <2>7, <2>8
<1> QED BY <1>1, <1>2

(* The process dies on a file it cannot create.                            *)
LEMMA CrashStep ==
  ASSUME LogInv, Histories, UNCHANGED <<upVars, delVars>>, Crash, log_pc \in {"open", "recording", "filming"}
  PROVE  LogInv' /\ LogFrame
<1> USE DEF LogInv, Recording
<1>a. entered \subseteq entered'
  BY DEF Histories
<1> USE <1>a
<1>1. /\ file' = [f \in Files |-> IF file[f] = "open" THEN "closed" ELSE file[f]]
      /\ log_pc' = "crashed" /\ part' = part /\ part \in Segs
      /\ UNCHANGED <<starts, dirs, locks, preserve, uploaded>>
  BY DEF Crash, MadeInv
<1>2. file \in [Files -> {"absent", "open", "closed", "empty"}]
  BY DEF TypeInv, DiskTypeOK
<1>3. filmed' = filmed
  BY <1>1, FilmedSame
<1>4. \A f \in Files : /\ file'[f] = file[f] \/ (file[f] = "open" /\ file'[f] = "closed")
                       /\ file'[f] # "open"
  BY <1>1, <1>2
<1>5. file' \in [Files -> {"absent", "open", "closed", "empty"}]
  BY <1>1, <1>2
<1>6. TypeInv'
  BY <1>1, <1>3, <1>5 DEF TypeInv, DiskTypeOK, LogTypeOK, upVars, delVars
<1>7. MadeInv'
  BY <1>1, <1>3, <1>4 DEF MadeInv, Present
<1>8. VideoInv'
  BY <1>1, <1>3, <1>4 DEF VideoInv
<1>9. LogFrame
  BY <1>1, <1>3, <1>4 DEF LogFrame, Retired
<1> QED BY <1>6, <1>7, <1>8, <1>9

(* The logs of the new segment are opened and those before it closed.      *)
LEMMA OpenLogsStep ==
  ASSUME LogInv, Histories, UNCHANGED <<upVars, delVars>>, OpenLogs
  PROVE  LogInv' /\ LogFrame
<1> USE DEF LogInv, Recording
<1>a. entered \subseteq entered'
  BY DEF Histories
<1> USE <1>a
<1>1. log_pc = "open" /\ part \in Segs
  BY DEF OpenLogs, MadeInv
<1>2. CASE Crash
  BY <1>1, <1>2, CrashStep
<1>3. CASE ~Crash
  <2>1. /\ part \in dirs /\ log_pc' = "recording" /\ part' = part
        /\ file' = [f \in Files |-> IF KindOf(f) = "ecamera" THEN file[f]
                                    ELSE IF SegOf(f) = part THEN "open"
                                    ELSE IF file[f] = "open" THEN "closed" ELSE file[f]]
        /\ UNCHANGED <<starts, dirs, locks, preserve, uploaded>>
    BY <1>3 DEF OpenLogs
  <2>2. file \in [Files -> {"absent", "open", "closed", "empty"}]
    BY DEF TypeInv, DiskTypeOK
  <2>3. filmed' = filmed
    BY <2>1, FilmedSame
  <2>4. /\ part \notin filmed
        /\ \A f \in Files : SegOf(f) = part => file[f] = "absent"
    BY <1>1 DEF MadeInv, Present
  <2>5. \A f \in Files :
          /\ \/ file'[f] = file[f]
             \/ file[f] = "open" /\ file'[f] = "closed"
             \/ file[f] = "absent" /\ file'[f] = "open" /\ SegOf(f) = part /\ KindOf(f) # "ecamera"
          /\ KindOf(f) # "ecamera" /\ file'[f] = "open" => SegOf(f) = part
    BY <2>1, <2>2, <2>4
  <2>6. file' \in [Files -> {"absent", "open", "closed", "empty"}]
    BY <2>1, <2>2
  <2>7. TypeInv'
    BY <2>1, <2>3, <2>6 DEF TypeInv, DiskTypeOK, LogTypeOK, upVars, delVars
  <2>8. MadeInv'
    BY <1>1, <2>1, <2>3, <2>5 DEF MadeInv, Present
  <2>9. VideoInv'
    BY <2>1, <2>3, <2>4, <2>5 DEF VideoInv
  <2>10. LogFrame
    BY <1>1, <2>1, <2>3, <2>5, FileFacts DEF LogFrame, Retired
  <2> QED BY <2>7, <2>8, <2>9, <2>10
<1> QED BY <1>2, <1>3

(* The writers of earlier videos go: each closes its file, then unlocks.   *)
LEMMA ReleaseVideoFacts ==
  ASSUME NEW f0 \in [Files -> {"absent", "open", "closed", "empty"}],
         NEW l0 \in [Segs -> SUBSET {"rlog.lock", "ecamera.lock"}], ReleaseVideo(f0, l0)
  PROVE  /\ file' \in [Files -> {"absent", "open", "closed", "empty"}]
         /\ locks' \in [Segs -> SUBSET {"rlog.lock", "ecamera.lock"}]
         /\ \A f \in Files : \/ file'[f] = f0[f]
                             \/ f0[f] = "open" /\ file'[f] = "closed"
         /\ \A f \in Files : KindOf(f) = "ecamera" /\ file'[f] = "open" => SegOf(f) = part
         /\ \A d \in Segs : /\ "rlog.lock" \in locks'[d] <=> "rlog.lock" \in l0[d]
                            /\ "ecamera.lock" \in locks'[d] <=> d = part /\ "ecamera.lock" \in l0[d]
<1>1. /\ file' = [g \in Files |-> IF KindOf(g) = "ecamera" /\ SegOf(g) # part /\ f0[g] = "open"
                                  THEN "closed" ELSE f0[g]]
      /\ locks' = [d \in Segs |-> IF d = part THEN l0[d] ELSE l0[d] \ {"ecamera.lock"}]
  BY DEF ReleaseVideo
<1>2. \A f \in Files : file'[f] = IF KindOf(f) = "ecamera" /\ SegOf(f) # part /\ f0[f] = "open"
                                  THEN "closed" ELSE f0[f]
  BY <1>1
<1>3. \A d \in Segs : locks'[d] = IF d = part THEN l0[d] ELSE l0[d] \ {"ecamera.lock"}
  BY <1>1
<1>4. file' \in [Files -> {"absent", "open", "closed", "empty"}]
  BY <1>1
<1>5. locks' \in [Segs -> SUBSET {"rlog.lock", "ecamera.lock"}]
  BY <1>1
<1> QED BY <1>2, <1>3, <1>4, <1>5

(* The first packet of the encoder, or the gate in Park.                   *)
LEMMA VideoStep ==
  ASSUME LogInv, Histories, UNCHANGED <<upVars, delVars>>, OpenVideo \/ ParkSkip
  PROVE  LogInv' /\ LogFrame
<1> USE DEF LogInv, Recording
<1>a. entered \subseteq entered'
  BY DEF Histories
<1> USE <1>a
<1>0. /\ dirs \subseteq Segs /\ filmed \subseteq dirs
      /\ file \in [Files -> {"absent", "open", "closed", "empty"}]
      /\ locks \in [Segs -> SUBSET {"rlog.lock", "ecamera.lock"}]
  BY DEF TypeInv, DiskTypeOK
<1>1. Recording /\ part \in Segs
  BY DEF OpenVideo, ParkSkip, MadeInv
<1>2. CASE OpenVideo /\ Crash
  BY <1>1, <1>2, CrashStep
<1>3. CASE OpenVideo /\ ~Crash
  <2> DEFINE v  == <<part, "ecamera">>
             f0 == [file EXCEPT ![v] = "open"]
             l0 == [locks EXCEPT ![part] = @ \union {"ecamera.lock"}]
  <2>1. /\ log_pc = "recording" /\ log_pc' = "filming" /\ part \in dirs /\ ReleaseVideo(f0, l0)
        /\ UNCHANGED <<part, starts, dirs, preserve, uploaded>>
    BY <1>3 DEF OpenVideo
  <2>2. v \in Files /\ SegOf(v) = part /\ KindOf(v) = "ecamera" /\ file[v] = "absent"
    <3>1. v \in Files /\ SegOf(v) = part /\ KindOf(v) = "ecamera"
      BY <1>1, FileFacts DEF Kinds
    <3> QED BY <2>1, <3>1 DEF MadeInv, Present
  <2> HIDE DEF v
  <2>3. f0 \in [Files -> {"absent", "open", "closed", "empty"}]
    BY <1>0
  <2>4. l0 \in [Segs -> SUBSET {"rlog.lock", "ecamera.lock"}]
    BY <1>0
  <2>5. \A f \in Files : f0[f] = IF f = v THEN "open" ELSE file[f]
    BY <1>0
  <2>6. \A d \in Segs : l0[d] = IF d = part THEN locks[part] \union {"ecamera.lock"} ELSE locks[d]
    BY <1>0, <1>1
  <2> HIDE DEF f0, l0
  <2>7. /\ file' \in [Files -> {"absent", "open", "closed", "empty"}]
        /\ locks' \in [Segs -> SUBSET {"rlog.lock", "ecamera.lock"}]
        /\ \A f \in Files : \/ file'[f] = f0[f]
                            \/ f0[f] = "open" /\ file'[f] = "closed"
        /\ \A f \in Files : KindOf(f) = "ecamera" /\ file'[f] = "open" => SegOf(f) = part
        /\ \A d \in Segs : /\ "rlog.lock" \in locks'[d] <=> "rlog.lock" \in l0[d]
                           /\ "ecamera.lock" \in locks'[d] <=> d = part /\ "ecamera.lock" \in l0[d]
    BY <2>1, <2>3, <2>4, ReleaseVideoFacts
  <2>8. \A d \in Segs : /\ "rlog.lock" \in locks'[d] <=> "rlog.lock" \in locks[d]
                        /\ "ecamera.lock" \in locks'[d] <=> d = part
    BY <2>6, <2>7
  <2>9. \A f \in Files : \/ file'[f] = file[f]
                         \/ file[f] = "open" /\ file'[f] = "closed"
                         \/ /\ file[f] = "absent" /\ file'[f] = "open"
                            /\ SegOf(f) = part /\ KindOf(f) = "ecamera"
    <3> SUFFICES ASSUME NEW f \in Files
                 PROVE  \/ file'[f] = file[f]
                        \/ file[f] = "open" /\ file'[f] = "closed"
                        \/ /\ file[f] = "absent" /\ file'[f] = "open"
                           /\ SegOf(f) = part /\ KindOf(f) = "ecamera"
      OBVIOUS
    <3>1. CASE f = v
      <4>1. file'[v] = "open"
        <5>1. file' = [g \in Files |-> IF KindOf(g) = "ecamera" /\ SegOf(g) # part /\ f0[g] = "open"
                                       THEN "closed" ELSE f0[g]]
          BY <2>1 DEF ReleaseVideo
        <5> QED BY <2>2, <2>5, <5>1
      <4> QED BY <2>1, <2>2, <3>1, <4>1
    <3>2. CASE f # v
      BY <2>5, <2>7, <3>2
    <3> QED BY <3>1, <3>2
  <2>10. filmed' = filmed \union {part}
    <3>1. filmed' = {d \in dirs : d \in filmed \/ "ecamera.lock" \in locks'[d]}
      BY <2>1 DEF Histories
    <3> QED BY <1>0, <1>1, <2>1, <2>8, <3>1
  <2>11. TypeInv'
    BY <1>0, <2>1, <2>7, <2>10 DEF TypeInv, DiskTypeOK, LogTypeOK, upVars, delVars
  <2>12. MadeInv'
    BY <1>1, <2>1, <2>8, <2>9 DEF MadeInv, Present
  <2>13. VideoInv'
    BY <1>1, <2>1, <2>7, <2>8, <2>9, <2>10 DEF VideoInv
  <2>14. LogFrame
    BY <1>1, <2>1, <2>9, <2>10, FileFacts DEF LogFrame, Retired
  <2> QED BY <2>11, <2>12, <2>13, <2>14
<1>4. CASE ParkSkip
  <2>1. /\ ReleaseVideo(file, locks)
        /\ UNCHANGED <<log_pc, part, starts, dirs, preserve, uploaded>>
    BY <1>4 DEF ParkSkip, logVars
  <2>2. /\ file' \in [Files -> {"absent", "open", "closed", "empty"}]
        /\ locks' \in [Segs -> SUBSET {"rlog.lock", "ecamera.lock"}]
        /\ \A f \in Files : \/ file'[f] = file[f]
                            \/ file[f] = "open" /\ file'[f] = "closed"
        /\ \A f \in Files : KindOf(f) = "ecamera" /\ file'[f] = "open" => SegOf(f) = part
        /\ \A d \in Segs : /\ "rlog.lock" \in locks'[d] <=> "rlog.lock" \in locks[d]
                           /\ "ecamera.lock" \in locks'[d] <=> d = part /\ "ecamera.lock" \in locks[d]
    BY <1>0, <2>1, ReleaseVideoFacts
  <2>3. filmed' = filmed
    <3>1. filmed' = {d \in dirs : d \in filmed \/ "ecamera.lock" \in locks'[d]}
      BY <2>1 DEF Histories
    <3> QED BY <1>0, <2>2, <3>1 DEF VideoInv
  <2>4. TypeInv'
    BY <2>1, <2>2, <2>3 DEF TypeInv, DiskTypeOK, LogTypeOK, upVars, delVars
  <2>5. MadeInv'
    BY <1>1, <2>1, <2>2, <2>3 DEF MadeInv, Present
  <2>6. VideoInv'
    BY <1>1, <2>1, <2>2, <2>3 DEF VideoInv
  <2>7. LogFrame
    BY <2>1, <2>2, <2>3 DEF LogFrame, Retired
  <2> QED BY <2>4, <2>5, <2>6, <2>7
<1> QED BY <1>2, <1>3, <1>4

(* The bookmark, and the destructors at exit.                              *)
LEMMA ExitStep ==
  ASSUME LogInv, Histories, UNCHANGED <<upVars, delVars>>,
         Bookmark \/ ExitUnlock \/ ExitLogs \/ ExitVideo
  PROVE  LogInv' /\ LogFrame
<1> USE DEF LogInv, Recording
<1>a. entered \subseteq entered'
  BY DEF Histories
<1> USE <1>a
<1>0. /\ dirs \subseteq Segs /\ filmed \subseteq dirs
      /\ file \in [Files -> {"absent", "open", "closed", "empty"}]
      /\ locks \in [Segs -> SUBSET {"rlog.lock", "ecamera.lock"}]
  BY DEF TypeInv, DiskTypeOK
<1>1. CASE Bookmark
  <2>1. /\ part \in dirs /\ preserve' = preserve \union {part}
        /\ UNCHANGED <<log_pc, part, starts, dirs, file, locks, uploaded>>
    BY <1>1 DEF Bookmark, logVars
  <2>2. filmed' = filmed
    BY <2>1, FilmedSame
  <2>3. TypeInv'
    BY <2>1, <2>2 DEF TypeInv, DiskTypeOK, LogTypeOK, upVars, delVars
  <2>4. MadeInv' /\ VideoInv'
    BY <2>1, <2>2 DEF MadeInv, VideoInv, Present
  <2>5. LogFrame
    BY <2>1, <2>2 DEF LogFrame, Retired
  <2> QED BY <2>3, <2>4, <2>5
<1>2. CASE ExitUnlock
  <2>1. /\ Recording /\ log_pc' = "exit_logs" /\ part' = part /\ part \in Segs
        /\ locks' = [locks EXCEPT ![part] = @ \ {"rlog.lock"}]
        /\ UNCHANGED <<starts, dirs, file, preserve, uploaded>>
    BY <1>2 DEF ExitUnlock, unlock, MadeInv
  <2>2. /\ locks' \in [Segs -> SUBSET {"rlog.lock", "ecamera.lock"}]
        /\ \A d \in Segs : "ecamera.lock" \in locks'[d] <=> "ecamera.lock" \in locks[d]
    BY <1>0, <2>1
  <2>3. filmed' = filmed
    <3>1. filmed' = {d \in dirs : d \in filmed \/ "ecamera.lock" \in locks'[d]}
      BY <2>1 DEF Histories
    <3> QED BY <1>0, <2>2, <3>1 DEF VideoInv
  <2>4. TypeInv'
    BY <2>1, <2>2, <2>3 DEF TypeInv, DiskTypeOK, LogTypeOK, upVars, delVars
  <2>5. MadeInv'
    BY <2>1, <2>3 DEF MadeInv, Present
  <2>6. VideoInv'
    BY <2>1, <2>2, <2>3, FileFacts DEF VideoInv
  <2>7. LogFrame
    BY <2>1, <2>3 DEF LogFrame, Retired
  <2> QED BY <2>4, <2>5, <2>6, <2>7
<1>3. CASE ExitLogs
  <2>1. /\ log_pc = "exit_logs" /\ log_pc' = "exit_video" /\ part' = part /\ part \in Segs
        /\ file' = [f \in Files |-> IF KindOf(f) # "ecamera" /\ file[f] = "open"
                                    THEN "closed" ELSE file[f]]
        /\ UNCHANGED <<starts, dirs, locks, preserve, uploaded>>
    BY <1>3 DEF ExitLogs, MadeInv
  <2>2. /\ file' \in [Files -> {"absent", "open", "closed", "empty"}]
        /\ \A f \in Files : file'[f] = file[f] \/ (file[f] = "open" /\ file'[f] = "closed")
        /\ \A f \in Files : file'[f] = "open" => KindOf(f) = "ecamera"
    BY <1>0, <2>1
  <2>3. filmed' = filmed
    BY <2>1, FilmedSame
  <2>4. TypeInv'
    BY <2>1, <2>2, <2>3 DEF TypeInv, DiskTypeOK, LogTypeOK, upVars, delVars
  <2>5. MadeInv'
    BY <2>1, <2>2, <2>3 DEF MadeInv, Present
  <2>6. VideoInv'
    BY <2>1, <2>2, <2>3 DEF VideoInv
  <2>7. LogFrame
    BY <2>1, <2>2, <2>3 DEF LogFrame, Retired
  <2> QED BY <2>4, <2>5, <2>6, <2>7
<1>4. CASE ExitVideo
  <2>1. /\ log_pc = "exit_video" /\ log_pc' = "off" /\ part' = part
        /\ file' = [f \in Files |-> IF file[f] = "open" THEN "closed" ELSE file[f]]
        /\ locks' = [d \in Segs |-> locks[d] \ {"ecamera.lock"}]
        /\ UNCHANGED <<starts, dirs, preserve, uploaded>>
    BY <1>4 DEF ExitVideo
  <2>2. /\ file' \in [Files -> {"absent", "open", "closed", "empty"}]
        /\ \A f \in Files : /\ file'[f] = file[f] \/ (file[f] = "open" /\ file'[f] = "closed")
                            /\ file'[f] # "open"
    BY <1>0, <2>1
  <2>3. /\ locks' \in [Segs -> SUBSET {"rlog.lock", "ecamera.lock"}]
        /\ \A d \in Segs : "ecamera.lock" \notin locks'[d]
    BY <1>0, <2>1
  <2>4. filmed' = filmed
    <3>1. filmed' = {d \in dirs : d \in filmed \/ "ecamera.lock" \in locks'[d]}
      BY <2>1 DEF Histories
    <3> QED BY <1>0, <2>3, <3>1
  <2>5. TypeInv'
    BY <2>1, <2>2, <2>3, <2>4 DEF TypeInv, DiskTypeOK, LogTypeOK, upVars, delVars
  <2>6. MadeInv'
    BY <2>1, <2>2, <2>4 DEF MadeInv, Present
  <2>7. VideoInv'
    BY <2>1, <2>2, <2>3, <2>4 DEF VideoInv
  <2>8. LogFrame
    BY <2>1, <2>2, <2>4 DEF LogFrame, Retired
  <2> QED BY <2>5, <2>6, <2>7, <2>8
<1> QED BY <1>1, <1>2, <1>3, <1>4

(* What is sealed stays so, whatever loggerd does next.                    *)
LEMMA SealedStays ==
  ASSUME LogFrame, NEW d \in Segs, Sealed(d)
  PROVE  Sealed(d)'
BY DEF LogFrame, Sealed, Retired

(* The uploader and the deleter are not disturbed by a step of loggerd.    *)
LEMMA LogStepInv == ASSUME LogsInv, LogStep PROVE LogsInv'
<1>1. LogInv /\ Histories /\ UNCHANGED <<upVars, delVars>> /\ LogNext
  BY DEF LogsInv, LogInv, LogStep
<1>a. entered \subseteq entered'
  BY <1>1 DEF Histories
<1>2. LogInv' /\ LogFrame
  BY <1>1, StartStep, MakeStep, OpenLogsStep, VideoStep, ExitStep DEF LogNext
<1>3. UNCHANGED <<up_pc, job, cooling, failures, backend, del_pc, ordered, firehose, lost>>
  BY <1>1 DEF upVars, delVars
<1>4. /\ file \in [Files -> {"absent", "open", "closed", "empty"}]
      /\ file' \in [Files -> {"absent", "open", "closed", "empty"}]
      /\ uploaded \subseteq Files /\ dirs \subseteq Segs
  BY <1>1, <1>2 DEF LogInv, TypeInv, DiskTypeOK
<1>5. \A f \in Files : /\ Present(f) => Present(f)'
                       /\ file[f] = "empty" => file'[f] = "empty"
                       /\ ~Present(f) /\ Retired(SegOf(f)) => ~Present(f)'
  BY <1>2 DEF LogFrame, Present
<1>6. UploadInv'
  <2>1. ASSUME up_pc \in {"sized", "sent", "blank"}, SegOf(job) \notin entered'
        PROVE  /\ Sealed(SegOf(job))' /\ job \in Files
               /\ Present(job)' <=> Present(job)
               /\ SegOf(job) \in filmed' => SegOf(job) \in filmed
    <3>1. job \in Files /\ SegOf(job) \in Segs /\ Sealed(SegOf(job))
      BY <1>a, <2>1, FileFacts DEF LogsInv, TypeInv, UploadInv
    <3>2. Retired(SegOf(job))
      BY <3>1 DEF Sealed
    <3>3. PICK d \in Segs : d = SegOf(job)
      BY <3>1
    <3>4. Sealed(d)'
      BY <1>2, <3>1, <3>3, SealedStays
    <3>5. Sealed(SegOf(job))'
      BY <1>3, <3>3, <3>4 DEF Sealed, Retired, SegOf
    <3>6. Present(job)' <=> Present(job)
      BY <1>3, <1>5, <3>1, <3>2 DEF Present
    <3>7. SegOf(job) \in filmed' => SegOf(job) \in filmed
      BY <1>2, <3>1, <3>2 DEF LogFrame
    <3> QED BY <3>1, <3>5, <3>6, <3>7
  <2>2. up_pc' \in {"sized", "sent", "blank"} => Sealed(SegOf(job))' \/ SegOf(job)' \in entered'
    BY <1>3, <2>1 DEF SegOf
  <2>3. up_pc' = "sent" /\ Present(job)' /\ SegOf(job)' \notin entered' =>
           /\ backend'[job'] # "none"
           /\ SegOf(job)' \in filmed' => backend'[job'] = "whole"
    BY <1>a, <1>3, <2>1 DEF LogsInv, UploadInv, SegOf
  <2>4. up_pc' = "blank" /\ Present(job)' /\ SegOf(job)' \notin entered' => file'[job'] = "empty"
    BY <1>a, <1>3, <1>5, <2>1 DEF LogsInv, UploadInv, SegOf
  <2>5. uploaded' = uploaded /\ \A f \in uploaded : Present(f)'
    BY <1>2, <1>4, <1>5 DEF LogsInv, UploadInv, LogFrame
  <2>6. ASSUME NEW f \in uploaded, SegOf(f) \notin entered'
        PROVE  /\ Retired(SegOf(f))' /\ (file'[f] = "empty" \/ backend'[f] # "none")
               /\ SegOf(f) \in filmed' => file'[f] = "empty" \/ backend'[f] = "whole"
    <3>1. f \in Files /\ SegOf(f) \in Segs /\ SegOf(f) \notin entered /\ Retired(SegOf(f))
      BY <1>a, <1>4, <2>6, FileFacts DEF LogsInv, UploadInv
    <3>2. SegOf(f) \in filmed' => SegOf(f) \in filmed
      BY <1>2, <3>1 DEF LogFrame
    <3>3. Retired(SegOf(f))'
      BY <1>2, <3>1 DEF LogFrame, Retired
    <3>4. /\ file[f] = "empty" \/ backend[f] # "none"
          /\ SegOf(f) \in filmed => file[f] = "empty" \/ backend[f] = "whole"
      BY <3>1 DEF LogsInv, UploadInv, UploadedIsWhole
    <3> QED BY <1>3, <1>5, <3>1, <3>2, <3>3, <3>4
  <2>7. UploadedIsWhole'
    BY <2>5, <2>6 DEF UploadedIsWhole
  <2> QED BY <2>2, <2>3, <2>4, <2>5, <2>6, <2>7 DEF UploadInv
<1>7. DeleteInv'
  <2>1. delete_dir' = delete_dir /\ entered \subseteq entered'
    BY <1>a, <1>3 DEF delete_dir
  <2>2. Destroyed = {}
    BY <1>4, <1>5 DEF Destroyed, Present
  <2>3. unreported' = unreported
    BY <1>1, <1>3, <2>2 DEF Histories, Leaves
  <2>4. ASSUME del_pc = "remove", delete_dir \notin entered
        PROVE  /\ delete_dir \in Segs /\ Sealed(delete_dir)'
               /\ \A f \in Files : SegOf(f) = delete_dir /\ Present(f)' /\ KindOf(f) \in firehose
                                     => f \in lost \/ f \in uploaded
    <3>1. /\ delete_dir \in Segs /\ Sealed(delete_dir)
          /\ \A f \in Files : SegOf(f) = delete_dir /\ Present(f) /\ KindOf(f) \in firehose
                                => f \in lost \/ f \in uploaded
      BY <2>4 DEF LogsInv, DeleteInv
    <3>2. PICK d \in Segs : d = delete_dir
      BY <3>1
    <3>3. Sealed(d)'
      BY <1>2, <3>1, <3>2, SealedStays
    <3>4. Sealed(delete_dir)'
      BY <2>1, <3>2, <3>3 DEF Sealed, Retired
    <3>5. Retired(delete_dir)
      BY <3>1 DEF Sealed
    <3> HIDE DEF delete_dir
    <3> QED BY <1>5, <3>1, <3>4, <3>5
  <2>5. uploaded' = uploaded
    BY <1>2 DEF LogFrame
  <2> HIDE DEF delete_dir
  <2>6. del_pc' = "remove" =>
          \/ delete_dir' \in entered'
          \/ /\ delete_dir' \in Segs /\ Sealed(delete_dir)'
             /\ \A f \in Files : SegOf(f) = delete_dir' /\ Present(f)' /\ KindOf(f) \in firehose'
                                   => f \in lost' \/ f \in uploaded'
    BY <1>3, <2>1, <2>4, <2>5
  <2>7. \A f \in unreported' : SegOf(f) \in entered' \/ (del_pc' = "report" /\ f \in lost')
    BY <1>3, <2>1, <2>3 DEF LogsInv, DeleteInv
  <2> QED BY <2>6, <2>7 DEF DeleteInv
<1> QED BY <1>2, <1>6, <1>7 DEF LogsInv, LogInv

(* A file that is there in a segment without a lock is one loggerd is past,*)
(* and if the segment has a video it is closed, unless the deleter was at  *)
(* it before it had its lock.                                              *)
LEMMA UnlockedIsSealed ==
  ASSUME LogInv, NEW d \in dirs, ~Locked(d), d \notin entered, ~(d = part /\ log_pc = "lock")
  PROVE  Sealed(d)
<1>1. /\ d \in Segs /\ d \in Int /\ part \in Int /\ d <= part /\ locks[d] = {}
  BY FileFacts DEF LogInv, TypeInv, DiskTypeOK, LogTypeOK, MadeInv, Locked
<1>2. Retired(d)
  BY <1>1 DEF Retired, LogInv, MadeInv
<1>3. d \in filmed => \A f \in Files : SegOf(f) = d => file[f] # "open"
  BY <1>1 DEF LogInv, VideoInv
<1> QED BY <1>2, <1>3 DEF Sealed

(* A body that arrives is that of a closed file, or of a segment without   *)
(* video.                                                                  *)
LEMMA ReceivedFacts ==
  ASSUME LogsInv, up_pc = "sized", Received
  PROVE  /\ backend' \in [Files -> {"none", "part", "whole"}] /\ job \in Files
         /\ backend'[job] # "none"
         /\ SegOf(job) \in filmed => backend'[job] = "whole" \/ SegOf(job) \in entered
         /\ \A f \in Files : f # job => backend'[f] = backend[f]
<1>1. backend \in [Files -> {"none", "part", "whole"}]
  BY DEF LogsInv, TypeInv
<1>2. /\ job \in Files /\ Content \in {"part", "whole"}
      /\ SegOf(job) \in filmed => Content = "whole" \/ SegOf(job) \in entered
  BY DEF Content, LogsInv, TypeInv, UploadInv, Sealed
<1>3. backend' = [backend EXCEPT ![job] = Content]
  BY DEF Received
<1> HIDE DEF Content
<1> QED BY <1>1, <1>2, <1>3

(* A step of the uploader: it touches nothing but its marks.               *)
LEMMA UpStepInv == ASSUME LogsInv, UpStep PROVE LogsInv'
<1>1. /\ UNCHANGED <<log_pc, part, starts, del_pc, ordered, firehose, lost>>
      /\ UNCHANGED <<dirs, file, locks, preserve>> /\ Histories /\ UpNext
      /\ uploaded \subseteq uploaded'
  BY DEF UpStep, UpNext, logVars, delVars, diskVars, Choose, PutAccepted, PutFailed, Mark, CooldownLapses
<1>a. entered \subseteq entered'
  BY <1>1 DEF Histories
<1>2. LogInv
  BY DEF LogsInv, LogInv
<1>3. filmed' = filmed
  BY <1>1, <1>2, FilmedSame DEF LogInv
<1>4. MadeInv' /\ VideoInv'
  BY <1>1, <1>2, <1>3, <1>a DEF LogInv, MadeInv, VideoInv, Present, Recording
<1>5. \A d \in Segs : Sealed(d)' <=> Sealed(d)
  BY <1>1, <1>3 DEF Sealed, Retired
<1>6. \A f \in Files : (Present(f)' <=> Present(f)) /\ (Retired(SegOf(f))' <=> Retired(SegOf(f)))
  BY <1>1 DEF Present, Retired
<1>7. DeleteInv'
  <2>1. delete_dir' = delete_dir /\ entered \subseteq entered'
    BY <1>1 DEF delete_dir, Histories
  <2>2. Destroyed = {}
    BY <1>1 DEF Destroyed
  <2>3. unreported' = unreported
    BY <1>1, <2>2 DEF Histories, Leaves
  <2>4. delete_dir \in Segs => (Sealed(delete_dir)' <=> Sealed(delete_dir))
    BY <1>1, <1>3, <2>1 DEF Sealed, Retired
  <2> HIDE DEF delete_dir
  <2>5. del_pc' = "remove" =>
          \/ delete_dir' \in entered'
          \/ /\ delete_dir' \in Segs /\ Sealed(delete_dir)'
             /\ \A f \in Files : SegOf(f) = delete_dir' /\ Present(f)' /\ KindOf(f) \in firehose'
                                   => f \in lost' \/ f \in uploaded'
    BY <1>1, <1>6, <2>1, <2>4 DEF LogsInv, DeleteInv
  <2>6. \A f \in unreported' : SegOf(f) \in entered' \/ (del_pc' = "report" /\ f \in lost')
    BY <1>1, <2>1, <2>3 DEF LogsInv, DeleteInv
  <2> QED BY <2>5, <2>6 DEF DeleteInv
<1>8. ASSUME up_pc' \in {"idle", "sized", "sent", "blank", "dead"}, uploaded' \subseteq Files,
             up_pc' \in {"sized", "sent", "blank"} => job' \in Files,
             backend' \in [Files -> {"none", "part", "whole"}]
      PROVE  TypeInv'
  BY <1>1, <1>3, <1>8 DEF LogsInv, TypeInv, DiskTypeOK, LogTypeOK
<1>9. /\ uploaded \subseteq Files /\ backend \in [Files -> {"none", "part", "whole"}]
      /\ file \in [Files -> {"absent", "open", "closed", "empty"}]
      /\ up_pc \in {"idle", "sized", "sent", "blank", "dead"}
      /\ up_pc \in {"sized", "sent", "blank"} => job \in Files /\ SegOf(job) \in Segs
  BY FileFacts DEF LogsInv, TypeInv, DiskTypeOK
<1>10. CASE Choose
  <2>1. /\ job' \in list_upload_files /\ up_pc' \in {"blank", "sized"}
        /\ up_pc' = "blank" => file[job'] = "empty"
        /\ UNCHANGED <<backend, uploaded>>
    BY <1>10 DEF Choose, diskVars, next_file_to_upload, next_pass2_file_to_upload, Oldest
  <2>2. PICK j \in Files : j = job'
    BY <2>1 DEF list_upload_files
  <2>3. Present(j) /\ ~Locked(SegOf(j)) /\ SegOf(j) \in dirs /\ SegOf(j) \in Segs
    BY <1>2, <2>1, <2>2, FileFacts DEF list_upload_files, LogInv, MadeInv
  <2>4. ~(SegOf(j) = part /\ log_pc = "lock")
    BY <1>2, <2>2, <2>3 DEF LogInv, MadeInv
  <2>5. Sealed(SegOf(j)) \/ SegOf(j) \in entered
    BY <1>2, <2>3, <2>4, UnlockedIsSealed
  <2>6. Sealed(SegOf(j))' \/ SegOf(j) \in entered'
    BY <1>5, <1>a, <2>3, <2>5
  <2>7. Sealed(SegOf(job))' \/ SegOf(job)' \in entered'
    BY <2>2, <2>6 DEF Sealed, Retired
  <2>8. UploadInv'
    BY <1>1, <1>3, <1>6, <1>9, <1>a, <2>1, <2>7 DEF LogsInv, UploadInv, UploadedIsWhole
  <2> QED BY <1>4, <1>7, <1>8, <1>9, <2>1, <2>2, <2>8 DEF LogsInv
<1>11. CASE PutAccepted
  <2>1. /\ up_pc = "sized" /\ Present(job) /\ Received /\ up_pc' = "sent"
        /\ UNCHANGED <<job, uploaded>>
    BY <1>11 DEF PutAccepted, diskVars
  <2>2. /\ backend' \in [Files -> {"none", "part", "whole"}] /\ job \in Files
        /\ backend'[job] # "none"
        /\ SegOf(job) \in filmed => backend'[job] = "whole" \/ SegOf(job) \in entered
        /\ \A f \in Files : f # job => backend'[f] = backend[f]
    BY <2>1, ReceivedFacts
  <2>3. Sealed(SegOf(job))' \/ SegOf(job)' \in entered'
    BY <1>1, <1>3, <1>a, <2>1 DEF LogsInv, UploadInv, Sealed, Retired
  <2>4. UploadInv'
    BY <1>1, <1>3, <1>6, <1>9, <1>a, <2>1, <2>2, <2>3 DEF LogsInv, UploadInv, UploadedIsWhole
  <2> QED BY <1>4, <1>7, <1>8, <1>9, <2>1, <2>2, <2>4 DEF LogsInv
<1>12. CASE PutFailed
  <2>1. /\ up_pc = "sized" /\ up_pc' = "idle" /\ (backend' = backend \/ Received)
        /\ UNCHANGED uploaded
    BY <1>12 DEF PutFailed, Done, diskVars
  <2>2. /\ backend' \in [Files -> {"none", "part", "whole"}]
        /\ \A f \in Files : \/ backend'[f] = backend[f]
                            \/ /\ backend'[f] # "none"
                               /\ SegOf(f) \in filmed => backend'[f] = "whole" \/ SegOf(f) \in entered
    <3>1. CASE backend' = backend
      BY <1>9, <3>1
    <3>2. CASE Received
      BY <2>1, <3>2, ReceivedFacts
    <3> QED BY <2>1, <3>1, <3>2
  <2>3. UploadInv'
    BY <1>1, <1>3, <1>6, <1>9, <1>a, <2>1, <2>2 DEF LogsInv, UploadInv, UploadedIsWhole
  <2> QED BY <1>4, <1>7, <1>8, <1>9, <2>1, <2>2, <2>3 DEF LogsInv
<1>13. CASE Mark
  <2>1. /\ up_pc \in {"sent", "blank"} /\ up_pc' \in {"idle", "dead"} /\ UNCHANGED backend
        /\ uploaded' = uploaded \/ (Present(job) /\ uploaded' = uploaded \union {job})
    BY <1>13 DEF Mark, Done
  <2>2. /\ job \in Files /\ SegOf(job) \in Segs
        /\ Present(job) /\ SegOf(job) \notin entered =>
             /\ Retired(SegOf(job))
             /\ file[job] = "empty" \/ backend[job] # "none"
             /\ SegOf(job) \in filmed => file[job] = "empty" \/ backend[job] = "whole"
    BY <1>9, <2>1 DEF LogsInv, UploadInv, Sealed
  <2>3. \A f \in uploaded' : f \in uploaded \/ (f = job /\ Present(job))
    BY <2>1
  <2>4. UploadInv'
    BY <1>1, <1>3, <1>6, <1>9, <1>a, <2>1, <2>2, <2>3 DEF LogsInv, UploadInv, UploadedIsWhole
  <2> QED BY <1>4, <1>7, <1>8, <1>9, <2>1, <2>3, <2>4 DEF LogsInv
<1>14. CASE CooldownLapses
  <2>1. up_pc' = "idle" /\ UNCHANGED <<backend, uploaded>>
    BY <1>14 DEF CooldownLapses, diskVars
  <2>2. UploadInv'
    BY <1>1, <1>3, <1>6, <1>9, <1>a, <2>1 DEF LogsInv, UploadInv, UploadedIsWhole
  <2> QED BY <1>4, <1>7, <1>8, <1>9, <2>1, <2>2 DEF LogsInv
<1> QED BY <1>1, <1>10, <1>11, <1>12, <1>13, <1>14 DEF UpNext

(* What a sweep does besides removing anything.                            *)
LEMMA SweepStepInv ==
  ASSUME LogsInv, DelStep, SweepStart(starts) \/ PassOver \/ TryCandidate \/ ListFails \/ Report
  PROVE  LogsInv'
<1>1. /\ UNCHANGED <<log_pc, part, starts, up_pc, job>> /\ Histories
      /\ UNCHANGED <<dirs, file, locks, preserve, uploaded>>
      /\ backend' = [f \in Files |-> IF file'[f] = "absent" THEN "none" ELSE backend[f]]
  BY DEF DelStep, logVars, diskVars, SweepStart, PassOver, TryCandidate, ListFails, Report
<1>a. entered \subseteq entered'
  BY <1>1 DEF Histories
<1>2. /\ LogInv /\ uploaded \subseteq Files /\ firehose \subseteq FIREHOSE_FILES
      /\ backend \in [Files -> {"none", "part", "whole"}]
      /\ up_pc \in {"sized", "sent", "blank"} => job \in Files
  BY DEF LogsInv, LogInv, TypeInv, DiskTypeOK
<1>3. filmed' = filmed
  BY <1>1, <1>2, FilmedSame DEF LogInv
<1>4. MadeInv' /\ VideoInv'
  BY <1>1, <1>2, <1>3, <1>a DEF LogInv, MadeInv, VideoInv, Present, Recording
<1>5. /\ backend' \in [Files -> {"none", "part", "whole"}]
      /\ \A f \in Files : Present(f) => backend'[f] = backend[f]
  BY <1>1, <1>2 DEF Present
<1>6. UploadInv'
  <2>1. /\ Sealed(SegOf(job))' <=> Sealed(SegOf(job))
        /\ Present(job)' <=> Present(job)
        /\ \A f \in Files : /\ Present(f)' <=> Present(f)
                            /\ Retired(SegOf(f))' <=> Retired(SegOf(f))
    BY <1>1, <1>3 DEF Sealed, Retired, Present
  <2> QED BY <1>1, <1>2, <1>3, <1>5, <1>a, <2>1 DEF LogsInv, UploadInv, UploadedIsWhole
<1>7. /\ del_pc # "report" => \A f \in unreported' : SegOf(f) \in entered'
      /\ del_pc = "report" /\ del_pc' = "idle" => \A f \in unreported' : SegOf(f) \in entered'
  <2>1. Destroyed = {}
    BY <1>1 DEF Destroyed
  <2>2. unreported' = unreported \ (IF Leaves THEN lost ELSE {})
    BY <1>1, <2>1 DEF Histories
  <2>3. \A f \in unreported : SegOf(f) \in entered \/ (del_pc = "report" /\ f \in lost)
    BY DEF LogsInv, DeleteInv
  <2> QED BY <1>a, <2>2, <2>3 DEF Leaves
<1>8. ASSUME del_pc' \in {"idle", "check", "remove", "report"}, firehose' \subseteq FIREHOSE_FILES,
             DeleteInv'
      PROVE  LogsInv'
  <2>1. TypeInv'
    BY <1>1, <1>2, <1>3, <1>5, <1>8 DEF LogInv, TypeInv, DiskTypeOK, LogTypeOK
  <2> QED BY <1>4, <1>6, <1>8, <2>1 DEF LogsInv
<1>9. CASE SweepStart(starts)
  <2>1. del_pc = "idle" /\ del_pc' = "check" /\ firehose' \subseteq FIREHOSE_FILES
    BY <1>9 DEF SweepStart, uploadable_firehose_files
  <2>2. DeleteInv'
    BY <1>7, <2>1 DEF DeleteInv
  <2> QED BY <1>8, <2>1, <2>2
<1>10. CASE Report
  <2>1. del_pc = "report" /\ del_pc' = "idle" /\ firehose' = firehose
    BY <1>10 DEF Report
  <2>2. DeleteInv'
    BY <1>7, <2>1 DEF DeleteInv
  <2> QED BY <1>2, <1>8, <2>1, <2>2
<1>11. CASE PassOver \/ ListFails
  <2>1. del_pc = "check" /\ del_pc' \in {"idle", "check"} /\ firehose' = firehose
    BY <1>11 DEF PassOver, ListFails, IssueDeleting, NextCandidate
  <2>2. DeleteInv'
    BY <1>7, <2>1 DEF DeleteInv
  <2> QED BY <1>2, <1>8, <2>1, <2>2
<1>12. CASE TryCandidate
  <2>1. /\ del_pc = "check" /\ del_pc' = "remove" /\ ordered' = ordered
        /\ delete_dir \in dirs /\ ~Locked(delete_dir)
        /\ lost' = {f \in unuploaded_firehose(delete_dir) : KindOf(f) \in firehose}
        /\ firehose' = firehose
    BY <1>12 DEF TryCandidate, ScanLoss
  <2>2. PICK d \in dirs : d = delete_dir
    BY <2>1
  <2>3. d = delete_dir' /\ d \in Segs
    BY <1>2, <2>1, <2>2 DEF delete_dir, LogInv, TypeInv, DiskTypeOK
  <2>4. CASE d = part /\ log_pc = "lock"
    <3>1. d \in entered'
      BY <1>1, <2>1, <2>2, <2>4 DEF Histories
    <3> QED BY <1>2, <1>7, <1>8, <2>1, <2>3, <3>1 DEF DeleteInv
  <2>5. CASE d \in entered
    BY <1>2, <1>7, <1>8, <1>a, <2>1, <2>3, <2>5 DEF DeleteInv
  <2>6. CASE d \notin entered /\ ~(d = part /\ log_pc = "lock")
    <3>1. Sealed(d)
      BY <1>2, <2>1, <2>2, <2>6, UnlockedIsSealed
    <3>2. Sealed(delete_dir)'
      BY <1>1, <1>3, <2>3, <3>1 DEF Sealed, Retired
    <3>3. \A f \in Files : SegOf(f) = d /\ Present(f)' /\ KindOf(f) \in firehose
                            => f \in lost' \/ f \in uploaded'
      BY <1>1, <1>2, <2>1, <2>2 DEF unuploaded_firehose, Present
    <3>4. DeleteInv'
      BY <1>7, <2>1, <2>3, <3>2, <3>3 DEF DeleteInv
    <3> QED BY <1>2, <1>8, <2>1, <3>4
  <2> QED BY <2>4, <2>5, <2>6
<1> QED BY <1>9, <1>10, <1>11, <1>12

(* What a removal does to the disk, whether it comes to its end or fails   *)
(* on the way: nothing outside of the directory changes, nothing in it     *)
(* changes but by going, and the directory goes only when all in it has.   *)
TakesOnlyFrom(d) ==
  /\ file' \in [Files -> {"absent", "open", "closed", "empty"}]
  /\ locks' \in [Segs -> SUBSET {"rlog.lock", "ecamera.lock"}]
  /\ \A f \in Files : file'[f] = file[f] \/ (SegOf(f) = d /\ file'[f] = "absent")
  /\ \A e \in Segs : locks'[e] \subseteq locks[e] /\ (e # d => locks'[e] = locks[e])
  /\ uploaded' \subseteq uploaded /\ \A f \in uploaded' : file'[f] = file[f]
  /\ dirs' \subseteq dirs /\ \A e \in dirs \ dirs' : e = d
  /\ \A f \in Files : SegOf(f) \in dirs \ dirs' => file'[f] = "absent"
  /\ \A e \in dirs \ dirs' : locks'[e] = {}

LEMMA UnlinkFacts ==
  ASSUME DiskTypeOK, NEW d, NEW names, unlink(d, names),
         dirs' = dirs \/ (dirs' = dirs \ {d} /\ names = Entries(d))
  PROVE  TakesOnlyFrom(d)
<1>1. /\ file \in [Files -> {"absent", "open", "closed", "empty"}]
      /\ locks \in [Segs -> SUBSET {"rlog.lock", "ecamera.lock"}]
      /\ uploaded \subseteq Files
  BY DEF DiskTypeOK
<1>2. /\ file' = [f \in Files |-> IF SegOf(f) = d /\ KindOf(f) \in names THEN "absent" ELSE file[f]]
      /\ locks' = [locks EXCEPT ![d] = @ \ names]
      /\ uploaded' = {f \in uploaded : ~(SegOf(f) = d /\ KindOf(f) \in names)}
  BY DEF unlink
<1>3. \A f \in Files :
        file'[f] = IF SegOf(f) = d /\ KindOf(f) \in names THEN "absent" ELSE file[f]
  BY <1>2
<1>4. file' \in [Files -> {"absent", "open", "closed", "empty"}]
  BY <1>1, <1>2
<1>5. /\ locks' \in [Segs -> SUBSET {"rlog.lock", "ecamera.lock"}]
      /\ \A e \in Segs : locks'[e] \subseteq locks[e] /\ (e # d => locks'[e] = locks[e])
  BY <1>1, <1>2
<1>6. uploaded' \subseteq uploaded /\ \A f \in uploaded' : file'[f] = file[f]
  BY <1>1, <1>2, <1>3
<1>7. ASSUME NEW f \in Files, SegOf(f) \in dirs \ dirs' PROVE file'[f] = "absent"
  <2>1. names = Entries(d) /\ SegOf(f) = d
    BY <1>7
  <2>2. f = <<d, KindOf(f)>> /\ KindOf(f) \in Kinds
    BY <2>1 DEF Files, SegOf, KindOf
  <2>3. KindOf(f) \notin names => file[f] = "absent"
    BY <2>1, <2>2 DEF Entries, Present
  <2> QED BY <1>3, <2>1, <2>3
<1>8. dirs' \subseteq dirs /\ \A e \in dirs \ dirs' : e = d
  OBVIOUS
<1>9. \A e \in dirs \ dirs' : locks'[e] = {}
  BY <1>1, <1>2, <1>8 DEF Entries, DiskTypeOK
<1> QED BY <1>3, <1>4, <1>5, <1>6, <1>7, <1>8, <1>9 DEF TakesOnlyFrom

LEMMA TakeFacts ==
  ASSUME TypeInv, RemoveTree \/ RemoveFails
  PROVE  TakesOnlyFrom(delete_dir)
<1>1. DiskTypeOK
  BY DEF TypeInv
<1>2. CASE RemoveTree
  <2>1. unlink(delete_dir, Entries(delete_dir)) /\ dirs' = dirs \ {delete_dir}
    BY <1>2 DEF RemoveTree, rmtree
  <2> HIDE DEF delete_dir
  <2> QED BY <1>1, <2>1, UnlinkFacts
<1>3. CASE RemoveFails
  <2>1. (\E names \in SUBSET Entries(delete_dir) : unlink(delete_dir, names)) /\ dirs' = dirs
    BY <1>3 DEF RemoveFails
  <2> HIDE DEF delete_dir
  <2> QED BY <1>1, <2>1, UnlinkFacts
<1> QED BY <1>2, <1>3

(* What is removed is what was looked at, and what was in it was noted.    *)
LEMMA RemoveStepInv == ASSUME LogsInv, DelStep, RemoveTree \/ RemoveFails PROVE LogsInv'
<1> DEFINE D == delete_dir
<1>1. /\ UNCHANGED <<log_pc, part, starts, up_pc, job, firehose>> /\ Histories
      /\ backend' = [f \in Files |-> IF file'[f] = "absent" THEN "none" ELSE backend[f]]
      /\ del_pc = "remove"
      /\ \/ del_pc' = "report" /\ lost' = lost
         \/ del_pc' \in {"idle", "check"}
      /\ \/ preserve' = preserve /\ dirs' = dirs
         \/ preserve' = preserve \ {D} /\ dirs' = dirs \ {D}
  BY DEF DelStep, logVars, RemoveTree, RemoveFails, rmtree, IssueDeleting, NextCandidate
<1>a. entered \subseteq entered'
  BY <1>1 DEF Histories
<1>2. /\ dirs \subseteq Segs /\ filmed \subseteq dirs /\ uploaded \subseteq Files
      /\ backend \in [Files -> {"none", "part", "whole"}]
      /\ up_pc \in {"sized", "sent", "blank"} => job \in Files /\ SegOf(job) \in Segs
      /\ part \in Int
  BY FileFacts DEF LogsInv, TypeInv, DiskTypeOK, LogTypeOK
<1>3. TakesOnlyFrom(D)
  BY TakeFacts DEF LogsInv
<1>4. \/ D \in entered
      \/ /\ Sealed(D)
         /\ \A f \in Files : SegOf(f) = D /\ Present(f) /\ KindOf(f) \in firehose
                               => f \in lost \/ f \in uploaded
  BY <1>1 DEF LogsInv, DeleteInv
<1> HIDE DEF D
<1>5. /\ backend' \in [Files -> {"none", "part", "whole"}]
      /\ \A f \in Files : backend'[f] = IF file'[f] = "absent" THEN "none" ELSE backend[f]
  BY <1>1, <1>2
<1>6. filmed' = {d \in filmed : d \in dirs'}
  <2>1. filmed' = {d \in dirs' : d \in filmed \/ "ecamera.lock" \in locks'[d]}
    BY <1>1 DEF Histories
  <2>2. \A d \in dirs' : "ecamera.lock" \in locks'[d] => d \in filmed
    BY <1>2, <1>3 DEF TakesOnlyFrom, LogsInv, VideoInv
  <2> QED BY <2>1, <2>2
<1>7. \A f \in Files : Present(f)' => /\ Present(f) /\ file'[f] = file[f]
                                      /\ backend'[f] = backend[f] /\ SegOf(f) \in dirs'
  BY <1>3, <1>5 DEF TakesOnlyFrom, Present, LogsInv, MadeInv
<1>8. TypeInv'
  BY <1>1, <1>2, <1>3, <1>5, <1>6 DEF TakesOnlyFrom, LogsInv, TypeInv, DiskTypeOK, LogTypeOK
<1>9. MadeInv'
  <2>1. \A d \in dirs' : d <= part'
    BY <1>1, <1>3 DEF TakesOnlyFrom, LogsInv, MadeInv
  <2>2. log_pc' \in {"lock", "open"} => /\ part' \notin filmed'
                                        /\ \A f \in Files : SegOf(f) = part' => ~Present(f)'
    BY <1>1, <1>6, <1>7 DEF LogsInv, MadeInv
  <2>3. log_pc' = "recording" =>
          \A f \in Files : SegOf(f) = part' /\ KindOf(f) = "ecamera" => ~Present(f)'
    BY <1>1, <1>7 DEF LogsInv, MadeInv
  <2>4. log_pc' \in {"open", "recording", "filming"} /\ part' \in dirs' =>
          "rlog.lock" \in locks'[part'] \/ part' \in entered'
    <3>1. log_pc \in {"open", "recording", "filming"} => part # D \/ D \in entered
      BY <1>2, <1>4 DEF Sealed, Retired
    <3> QED BY <1>1, <1>2, <1>3, <1>a, <3>1 DEF TakesOnlyFrom, LogsInv, MadeInv
  <2> QED BY <1>1, <1>7, <2>1, <2>2, <2>3, <2>4 DEF LogsInv, MadeInv
<1>10. VideoInv'
  <2>1. \A d \in Segs : "ecamera.lock" \in locks'[d] => d \in filmed'
    BY <1>2, <1>3, <1>6 DEF TakesOnlyFrom, LogsInv, VideoInv
  <2>2. ASSUME NEW f \in Files, file'[f] = "open"
        PROVE  /\ file[f] = "open" /\ SegOf(f) \in dirs' /\ SegOf(f) \in Segs
               /\ SegOf(f) = D /\ D \notin entered => D \notin filmed
    BY <1>4, <1>7, <2>2, FileFacts DEF Present, Sealed
  <2>3. \A f \in Files : file'[f] = "open" /\ SegOf(f) \in filmed' =>
          "ecamera.lock" \in locks'[SegOf(f)] \/ SegOf(f) \in entered'
    BY <1>3, <1>6, <1>a, <2>2 DEF TakesOnlyFrom, LogsInv, VideoInv
  <2>4. \A f \in Files : file'[f] = "open" /\ KindOf(f) = "ecamera" => SegOf(f) \in filmed'
    BY <1>6, <2>2 DEF LogsInv, VideoInv
  <2> QED BY <1>1, <2>1, <2>2, <2>3, <2>4 DEF LogsInv, VideoInv, Recording
<1>11. UploadInv'
  <2>1. ASSUME up_pc \in {"sized", "sent", "blank"}
        PROVE  Sealed(SegOf(job))' \/ SegOf(job) \in entered'
    <3>1. CASE SegOf(job) \in entered
      BY <1>a, <3>1
    <3>2. CASE Sealed(SegOf(job))
      BY <1>1, <1>3, <1>6, <3>2 DEF TakesOnlyFrom, Sealed, Retired, SegOf
    <3> QED BY <2>1, <3>1, <3>2 DEF LogsInv, UploadInv
  <2>2. /\ up_pc' \in {"sized", "sent", "blank"} => Sealed(SegOf(job))' \/ SegOf(job)' \in entered'
        /\ up_pc' = "sent" /\ Present(job)' /\ SegOf(job)' \notin entered' =>
             /\ backend'[job'] # "none"
             /\ SegOf(job)' \in filmed' => backend'[job'] = "whole"
        /\ up_pc' = "blank" /\ Present(job)' /\ SegOf(job)' \notin entered' => file'[job'] = "empty"
    BY <1>1, <1>2, <1>6, <1>7, <1>a, <2>1 DEF LogsInv, UploadInv, SegOf
  <2>3. \A f \in uploaded' : /\ f \in uploaded /\ f \in Files /\ Present(f)' /\ file'[f] = file[f]
                             /\ backend'[f] = backend[f] /\ (Retired(SegOf(f))' <=> Retired(SegOf(f)))
    BY <1>1, <1>2, <1>3, <1>5 DEF TakesOnlyFrom, LogsInv, UploadInv, Present, Retired
  <2>4. UploadedIsWhole'
    BY <1>6, <1>a, <2>3 DEF LogsInv, UploadInv, UploadedIsWhole
  <2> QED BY <1>a, <2>2, <2>3, <2>4 DEF LogsInv, UploadInv
<1>12. DeleteInv'
  <2>1. \A f \in unreported : SegOf(f) \in entered
    BY <1>1 DEF LogsInv, DeleteInv
  <2>2. \A f \in Destroyed : SegOf(f) \in entered \/ f \in lost
    BY <1>3, <1>4 DEF TakesOnlyFrom, Destroyed, Present, LogsInv, UploadInv
  <2>3. unreported' = (unreported \union Destroyed) \ (IF Leaves THEN lost ELSE {})
    BY <1>1 DEF Histories
  <2>4. CASE del_pc' = "report" /\ lost' = lost
    BY <1>a, <2>1, <2>2, <2>3, <2>4 DEF DeleteInv
  <2>5. CASE del_pc' \in {"idle", "check"}
    BY <1>1, <1>a, <2>1, <2>2, <2>3, <2>5 DEF DeleteInv, Leaves
  <2> QED BY <1>1, <2>4, <2>5
<1> QED BY <1>8, <1>9, <1>10, <1>11, <1>12 DEF LogsInv

(* The power goes: nothing is open any more, and nobody is at work.        *)
LEMMA RebootStepInv == ASSUME LogsInv, Reboot PROVE LogsInv'
<1>1. PICK torn \in {{}, {f \in Files : file[f] = "open"}} :
        file' = [f \in Files |-> IF f \in torn THEN "empty"
                                 ELSE IF file[f] = "open" THEN "closed" ELSE file[f]]
  BY DEF Reboot
<1>2. /\ locks' = [d \in Segs |-> {}] /\ log_pc' = "off" /\ up_pc' = "idle"
      /\ del_pc' = "idle" /\ unreported' = {}
      /\ UNCHANGED <<dirs, preserve, uploaded, part, starts, backend, firehose, entered, filmed>>
  BY DEF Reboot
<1>3. /\ dirs \subseteq Segs /\ filmed \subseteq dirs /\ uploaded \subseteq Files
      /\ file \in [Files -> {"absent", "open", "closed", "empty"}] /\ part \in Segs \union {-1}
  BY DEF LogsInv, TypeInv, DiskTypeOK, LogTypeOK
<1>4. /\ file' \in [Files -> {"absent", "open", "closed", "empty"}]
      /\ \A f \in Files : /\ file'[f] # "open" /\ (Present(f)' <=> Present(f))
                          /\ file[f] = "empty" => file'[f] = "empty"
  BY <1>1, <1>3 DEF Present
<1>5. /\ locks' \in [Segs -> SUBSET {"rlog.lock", "ecamera.lock"}]
      /\ \A d \in Segs : locks'[d] = {}
  BY <1>2
<1>6. TypeInv'
  BY <1>2, <1>3, <1>4, <1>5 DEF LogsInv, TypeInv, DiskTypeOK, LogTypeOK
<1>7. MadeInv' /\ VideoInv'
  BY <1>2, <1>4, <1>5 DEF LogsInv, MadeInv, VideoInv, Recording
<1>8. UploadInv'
  BY <1>2, <1>3, <1>4 DEF LogsInv, UploadInv, UploadedIsWhole, Retired
<1>9. DeleteInv'
  BY <1>2 DEF DeleteInv
<1> QED BY <1>6, <1>7, <1>8, <1>9 DEF LogsInv

-----------------------------------------------------------------------------

(* A step that changes nothing.                                            *)
LEMMA LogsStutter == ASSUME LogsInv, UNCHANGED vars PROVE LogsInv'
<1> USE DEF vars, diskVars, logVars, upVars, delVars, histVars
<1>1. TypeInv' /\ MadeInv' /\ VideoInv'
  BY DEF LogsInv, TypeInv, DiskTypeOK, LogTypeOK, MadeInv, VideoInv, Present, Recording
<1>2. UploadInv'
  BY DEF LogsInv, UploadInv, UploadedIsWhole, Sealed, Retired, Present
<1>3. DeleteInv'
  BY DEF LogsInv, DeleteInv, Sealed, Retired, Present, delete_dir
<1> QED BY <1>1, <1>2, <1>3 DEF LogsInv

(* The invariant holds throughout.                                         *)
LEMMA LogsInvHolds == Spec => []LogsInv
<1>1. LogsInv /\ [Next]_vars => LogsInv'
  BY LogStepInv, UpStepInv, SweepStepInv, RemoveStepInv, RebootStepInv, LogsStutter
     DEF Next, DelStep, DelNext
<1> QED BY <1>1, LogsInvInit, PTL DEF Spec

(* A file marked as uploaded is at the gateway as a whole, in every        *)
(* segment that had a video writer and that the deleter did not look at    *)
(* before its lock: the two lock files keep the uploader off what loggerd  *)
(* has not closed, however many removals fail (UploadedIsWhole).           *)
THEOREM MarkedIsWhole == Spec => []UploadedIsWhole
<1>1. LogsInv => UploadedIsWhole
  BY DEF LogsInv, UploadInv
<1> QED BY <1>1, LogsInvHolds, PTL

(* Between sweeps nothing is unreported of what the deleter destroyed      *)
(* un-sent with a segment that it removed, also after any number of        *)
(* removals that failed, but for the segments it looked at before their    *)
(* lock.  Not covered is what a removal had unlinked before it failed,     *)
(* which the code does not report (LossIsReported).                        *)
THEOREM LossesAreReported == Spec => []LossIsReported
<1>1. LogsInv => LossIsReported
  BY DEF LogsInv, DeleteInv, LossIsReported
<1> QED BY <1>1, LogsInvHolds, PTL

(* The deleter never takes the segment in loggerd's hands, nor a file it   *)
(* has open in a segment with a video, whether its removals succeed or     *)
(* fail, but for those same segments (OpenFilesStay).                      *)
THEOREM OpenFilesAreKept == Spec => OpenFilesStay
<1> DEFINE Kept == /\ \A d \in dirs \ dirs' :
                        d = part /\ log_pc \in {"open", "recording", "filming"} => d \in entered
                   /\ \A f \in Files :
                        file[f] = "open" /\ file'[f] = "absent" /\ SegOf(f) \in filmed
                          => SegOf(f) \in entered
<1>1. ASSUME LogsInv, [Next]_vars PROVE [Kept]_vars
  <2>1. CASE LogStep
    <3>1. LogInv /\ Histories /\ UNCHANGED <<upVars, delVars>> /\ LogNext
      BY <1>1, <2>1 DEF LogsInv, LogInv, LogStep
    <3>2. LogFrame
      BY <3>1, StartStep, MakeStep, OpenLogsStep, VideoStep, ExitStep DEF LogNext
    <3> QED BY <3>2 DEF LogFrame
  <2>2. CASE UpStep
    <3>1. UNCHANGED <<dirs, file>>
      BY <2>2 DEF UpStep, UpNext, diskVars, Choose, PutAccepted, PutFailed, Mark, CooldownLapses
    <3> QED BY <3>1
  <2>3. CASE DelStep
    <3>1. CASE RemoveTree \/ RemoveFails
      <4>1. TakesOnlyFrom(delete_dir) /\ del_pc = "remove"
        BY <1>1, <3>1, TakeFacts DEF LogsInv, RemoveTree, RemoveFails
      <4>2. delete_dir \in entered \/ Sealed(delete_dir)
        BY <1>1, <4>1 DEF LogsInv, DeleteInv
      <4>3. part \in Int
        BY <1>1, FileFacts DEF LogsInv, TypeInv, LogTypeOK
      <4> HIDE DEF delete_dir
      <4> QED BY <4>1, <4>2, <4>3 DEF TakesOnlyFrom, Sealed, Retired
    <3>2. CASE ~(RemoveTree \/ RemoveFails)
      <4>1. UNCHANGED <<dirs, file>>
        BY <2>3, <3>2 DEF DelStep, DelNext, diskVars, SweepStart, PassOver, TryCandidate, ListFails, Report
      <4> QED BY <4>1
    <3> QED BY <3>1, <3>2
  <2>4. CASE Reboot
    <3>1. dirs' = dirs /\ \A f \in Files : file[f] = "open" => file'[f] # "absent"
      BY <2>4 DEF Reboot
    <3> QED BY <3>1
  <2>5. CASE UNCHANGED vars
    BY <2>5
  <2> QED BY <1>1, <2>1, <2>2, <2>3, <2>4, <2>5 DEF Next
<1> QED BY <1>1, LogsInvHolds, PTL DEF Spec, OpenFilesStay
=============================================================================
