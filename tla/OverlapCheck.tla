---------------------------- MODULE OverlapCheck ----------------------------
(***************************************************************************)
(* The post-hoc mutual-exclusion check of lock_timer_test.c:               *)
(* compare_records and verify_no_overlaps.  A lock record is abstracted to *)
(* its two timer readings [start |-> s, end |-> e]; the log is a function  *)
(* from slot (round) numbers 0..n-1 to records, n being total_records.     *)
(***************************************************************************)
EXTENDS Integers, Functions

(* compare_records(a, b) <= 0: records are ordered by start_time alone.    *)
StartsInOrder(a, b) == a.start <= b.start

(* The arrangements qsort can leave lock_records[0..n-1] in: a permutation *)
(* of the slots whose start times are non-decreasing.  qsort is not        *)
(* stable, so records with equal start times may come in either order.     *)
QsortOrders(rec, n) ==
    { s \in [1..n -> 0..(n - 1)] :
        /\ IsInjective(s)
        /\ \A i \in 1..(n - 1) : StartsInOrder(rec[s[i]], rec[s[i + 1]]) }

(* Mutant: the scan also rejects records that merely touch.              *)
AdjacentScanTouchFails(rec, s, n) ==
    \A i \in 1..(n - 1) : rec[s[i]].end < rec[s[i + 1]].start

(* The loop of verify_no_overlaps over one sorted arrangement: it fails at *)
(* the first adjacent pair with current->end_time > next->start_time.      *)
AdjacentScanPasses(rec, s, n) ==
    \A i \in 1..(n - 1) : ~(rec[s[i]].end > rec[s[i + 1]].start)

(* verify_no_overlaps(): the set of verdicts the code can return for the   *)
(* first n records, one per arrangement qsort may produce.                 *)
VerifyNoOverlaps(rec, n) ==
    { AdjacentScanPasses(rec, s, n) : s \in QsortOrders(rec, n) }

(* Reference definition: no two recorded intervals intersect.              *)
PairwiseDisjoint(rec, n) ==
    \A i, j \in 0..(n - 1) :
        i # j => rec[i].end <= rec[j].start \/ rec[j].end <= rec[i].start
=============================================================================
