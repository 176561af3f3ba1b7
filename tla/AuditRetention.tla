--------------------------- MODULE AuditRetention ---------------------------
(***************************************************************************)
(* The monthly partitions of api_audit_log (audit/auditLogger.js): created *)
(* at startup and by a cron job at 01:00 on the first of each month, which *)
(* also drops old ones.  A partition is the number of its month, counted   *)
(* from a January of a common year; a row can be inserted on a day only if *)
(* its month's partition exists.                                           *)
(***************************************************************************)
EXTENDS Integers

CONSTANTS
    LastMonth,          \* bound: the calendar ends here
    MaxCreateFailures   \* bound: CREATE TABLE statements that fail

ASSUME RetentionAssumption == LastMonth \in Nat \ {0} /\ MaxCreateFailures \in Nat

VARIABLES
    month,           \* the current month
    morning,         \* is it the first of the month before 01:00?
    partitions,      \* months that have a partition
    serving,         \* the process: "down", "starting" or "up"
    createFailures   \* CREATE TABLE statements that failed

retentionVars == <<month, morning, partitions, serving, createFailures>>

\* The day a month begins on; leap days are left out.
FirstDay(m) == 365 * ((m - 1) \div 12)
               + <<1, 32, 60, 91, 121, 152, 182, 213, 244, 274, 305, 335>>[((m - 1) % 12) + 1]

RetentionInit ==
    /\ month \in 1..LastMonth /\ morning = FALSE
    /\ partitions = {} /\ serving = "down" /\ createFailures = 0

\* Mutant: only the current month's partition is made.
ensureCurrentMonth(gone) ==
    /\ partitions' = (partitions \cup {month}) \ gone
    /\ UNCHANGED createFailures

\* This month's and the next one's partition; a CREATE that fails raises an alert and
\* nothing else.  gone: what the caller drops after it.
ensureAuditPartitions(gone) ==
    \/ partitions' = (partitions \cup {month, month + 1}) \ gone /\ UNCHANGED createFailures
    \/ /\ createFailures < MaxCreateFailures /\ createFailures' = createFailures + 1
       /\ \E made \in SUBSET {month, month + 1} : partitions' = (partitions \cup made) \ gone

\* startAuditPartitionCron schedules the job and does not wait for the partitions.
StartServing ==
    /\ serving = "down" /\ serving' = "starting"
    /\ UNCHANGED <<month, morning, partitions, createFailures>>

EnsureAtStartup ==
    /\ serving = "starting" /\ serving' = "up"
    /\ ensureAuditPartitions({})
    /\ UNCHANGED <<month, morning>>

StopServing ==
    /\ serving # "down" /\ serving' = "down"
    /\ UNCHANGED <<month, morning, partitions, createFailures>>

MonthBegins ==
    /\ month < LastMonth /\ ~morning
    /\ month' = month + 1 /\ morning' = TRUE
    /\ UNCHANGED <<partitions, serving, createFailures>>

\* The cutoff is today minus 90 days; a partition goes by the first day it covers.
Expired == {p \in partitions : FirstDay(p) < FirstDay(month) - 90}

\* 01:00 passes; the job runs in a live process: the partitions, then the drops.
CronTime ==
    /\ morning /\ morning' = FALSE
    /\ IF serving = "down" THEN UNCHANGED <<partitions, createFailures>>
       ELSE ensureAuditPartitions(Expired)
    /\ UNCHANGED <<month, serving>>

RetentionNext == StartServing \/ EnsureAtStartup \/ StopServing \/ MonthBegins \/ CronTime

RetentionSpec == RetentionInit /\ [][RetentionNext]_retentionVars
-----------------------------------------------------------------------------
(* Properties. *)

RetentionTypeOK ==
    /\ month \in 1..LastMonth /\ morning \in BOOLEAN /\ serving \in {"down", "starting", "up"}
    /\ partitions \subseteq 1..(LastMonth + 1)
    /\ createFailures \in 0..MaxCreateFailures

\* "without a current-month partition, every insert throws": a process that has come up
\* always has one, the hour before the job on the first of a month included, as long as
\* no CREATE has failed.
CurrentMonthInsertable == serving = "up" /\ createFailures = 0 => month \in partitions

\* docs: "records are automatically deleted 90 days after they are created": a
\* partition goes only when its youngest day is that old.
NinetyDaysKept ==
    [][\A p \in partitions \ partitions' : FirstDay(month) - (FirstDay(p + 1) - 1) >= 90]_retentionVars
=============================================================================
