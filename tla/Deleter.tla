------------------------------- MODULE Deleter ------------------------------
(***************************************************************************)
(* deleter.py: while space is short, one sweep after another removes one   *)
(* segment.  A sweep reads the flags of every directory once, orders the   *)
(* directories by them, and then looks at one candidate after another:     *)
(* what it read may have changed by then.                                  *)
(***************************************************************************)
EXTENDS LogDisk, Sequences

LOCAL INSTANCE SequencesExt

CONSTANTS
  PreserveCount,      \* PRESERVE_COUNT
  MaxIssues           \* bound: candidates in one behaviour that cannot be deleted

ASSUME PreserveCountAssumption == PreserveCount \in Nat \ {0}
ASSUME MaxIssuesAssumption == MaxIssues \in Nat

VARIABLES
  del_pc,       \* idle, check (the next candidate), remove, report
  ordered,      \* the candidates still to try
  firehose,     \* firehose_files of this sweep
  lost,         \* what the scan of the candidate found un-uploaded
  issues        \* candidates that could not be deleted so far

delVars == <<del_pc, ordered, firehose, lost, issues>>

DelTypeOK ==
  /\ del_pc \in {"idle", "check", "remove", "report"}
  /\ ordered \in Seq(Segs)
  /\ firehose \subseteq FIREHOSE_FILES
  /\ lost \subseteq Files
  /\ issues \in 0..MaxIssues

DelInit ==
  /\ del_pc = "idle" /\ ordered = <<>> /\ firehose = FIREHOSE_FILES
  /\ lost = {} /\ issues = 0

(* The PreserveCount latest of the flagged segments.                       *)
RecentlyFlagged ==
  {d \in preserve : Cardinality({e \in preserve : e > d}) < PreserveCount}

(* get_preserved_segments: those and the two before each in its route.     *)
get_preserved_segments(starts) ==
  {d \in Segs : \E b \in RecentlyFlagged :
     /\ b - d \in 0..2
     /\ \A s \in starts : ~(d < s /\ s <= b)}

(* Mutant: what was sent plays no part.                                    *)
rank_IgnoresUploads(d, preserved) == IF d \in preserved THEN 2 ELSE 0

(* Segments go in the order of these ranks, the oldest of a rank first.    *)
rank(d, preserved) ==
  (IF d \in preserved THEN 2 ELSE 0) + (IF has_unuploaded_firehose(d) THEN 1 ELSE 0)

Before(d, e, preserved) ==
  \/ rank(d, preserved) < rank(e, preserved)
  \/ rank(d, preserved) = rank(e, preserved) /\ d < e

(* Space is short: the sweep takes its list.                               *)
SweepStart(starts) ==
  /\ del_pc = "idle"
  /\ dirs # {}
  /\ LET preserved == get_preserved_segments(starts)
     IN  ordered' = SetToSortSeq(dirs, LAMBDA d, e : Before(d, e, preserved))
  /\ firehose' = uploadable_firehose_files
  /\ del_pc' = "check"
  /\ UNCHANGED <<lost, issues, diskVars>>

delete_dir == Head(ordered)

NextCandidate ==
  /\ ordered' = Tail(ordered)
  /\ del_pc' = IF Tail(ordered) = <<>> THEN "idle" ELSE "check"

(* Mutant: only video counts as a loss.                                    *)
ScanLoss_VideoOnly ==
  lost' = {f \in unuploaded_firehose(delete_dir) : KindOf(f) \in firehose \ {"rlog"}}

ScanLoss ==
  lost' = {f \in unuploaded_firehose(delete_dir) : KindOf(f) \in firehose}

(* A directory with a lock file is passed over.                            *)
PassOver ==
  /\ del_pc = "check"
  /\ Locked(delete_dir)
  /\ NextCandidate
  /\ UNCHANGED <<firehose, lost, issues, diskVars>>

(* Of any other, what will be lost is noted before it is removed.          *)
TryCandidate ==
  /\ del_pc = "check"
  /\ delete_dir \in dirs /\ ~Locked(delete_dir)
  /\ ScanLoss
  /\ del_pc' = "remove"
  /\ UNCHANGED <<ordered, firehose, issues, diskVars>>

RemoveTree ==
  /\ del_pc = "remove"
  /\ rmtree(delete_dir)
  /\ del_pc' = "report"
  /\ UNCHANGED <<ordered, firehose, lost, issues>>

(* An OSError: the exception is logged and the next candidate is tried.    *)
IssueDeleting ==
  /\ issues < MaxIssues
  /\ issues' = issues + 1
  /\ NextCandidate
  /\ lost' = {}
  /\ UNCHANGED firehose

(* A directory that cannot be listed.                                      *)
ListFails ==
  /\ del_pc = "check"
  /\ IssueDeleting
  /\ UNCHANGED diskVars

(* shutil.rmtree stops at the first name that it cannot unlink, or at a    *)
(* directory into which something has come since it was listed.  What it   *)
(* has unlinked by then is gone.                                           *)
RemoveFails ==
  /\ del_pc = "remove"
  /\ \E names \in SUBSET Entries(delete_dir) : unlink(delete_dir, names)
  /\ IssueDeleting
  /\ UNCHANGED <<dirs, preserve>>

(* report_unuploaded_loss, when something was lost, and the sweep is over. *)
Report ==
  /\ del_pc = "report"
  /\ del_pc' = "idle"
  /\ ordered' = <<>>
  /\ lost' = {}
  /\ UNCHANGED <<firehose, issues, diskVars>>

DelNext(starts) ==
  \/ SweepStart(starts) \/ PassOver \/ TryCandidate
  \/ RemoveTree \/ ListFails \/ RemoveFails \/ Report
=============================================================================
