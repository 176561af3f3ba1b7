---------------------------- MODULE KeysetPages ----------------------------
(***************************************************************************)
(* Keyset pagination of the events table: getEventsCursor (indexer/src/    *)
(* db.js) and formatPageResponse (cursor.js).  A reader walks down the     *)
(* feed from the newest row, or back up from where it is, while rows are   *)
(* inserted, in any order of seq since batches commit out of order, and    *)
(* removed by rollbacks and the pruner.                                    *)
(*                                                                         *)
(* A signed cursor is the seq it carries: tokens that fail to decode, and  *)
(* the count of all rows, are left out.  Rows that the filter does not     *)
(* match play no part.                                                     *)
(***************************************************************************)
EXTENDS Integers, Sequences, SequencesExt, FiniteSets

CONSTANTS
    LastSeq,     \* bound: seq values
    PageLimit,   \* limit
    MaxChanges   \* bound: rows inserted or removed

ASSUME KeysetAssumption ==
    LastSeq \in Nat \ {0} /\ PageLimit \in Nat \ {0} /\ MaxChanges \in Nat

VARIABLES
    feed,       \* seq of the rows in events that match the filter
    unused,     \* seq not yet given to a row
    page,       \* the last response
    walk,       \* "start", "down", "up" or "over"
    seen,       \* history: rows returned on this walk
    repeated,   \* history: some row was returned twice on this walk
    steady,     \* history: rows ahead of this walk when it began, and never removed
    changes

keysetVars == <<feed, unused, page, walk, seen, repeated, steady, changes>>

NoAnchor == 0

\* WHERE seq < anchor, or seq > anchor.
InRange(anchor, isBackward) ==
    {s \in feed : anchor = NoAnchor \/ (IF isBackward THEN s > anchor ELSE s < anchor)}

\* ORDER BY seq DESC, or ASC: the i-th row has i - 1 before it.
RowBefore(a, b, isBackward) == IF isBackward THEN a < b ELSE a > b
Ordered(rows, isBackward) ==
    [i \in 1..Cardinality(rows) |->
       CHOOSE s \in rows : Cardinality({r \in rows : RowBefore(r, s, isBackward)}) = i - 1]

\* LIMIT one too many.
fetchRows(anchor, isBackward) ==
    LET ordered == Ordered(InRange(anchor, isBackward), isBackward)
    IN  SubSeq(ordered, 1, IF Len(ordered) > PageLimit THEN PageLimit + 1 ELSE Len(ordered))

\* Mutant: the extra row is always taken from the end.
trimAtEnd(data, isBackward) == SubSeq(data, 1, Len(data) - 1)

\* The extra row is the one farthest from the anchor.
trim(data, isBackward) == IF isBackward THEN Tail(data) ELSE SubSeq(data, 1, Len(data) - 1)

formatPageResponse(fetched, isBackward, hasAnchor) ==
    LET hasMore == Len(fetched) > PageLimit
        newestFirst == IF isBackward THEN Reverse(fetched) ELSE fetched
        data    == IF hasMore THEN trim(newestFirst, isBackward) ELSE newestFirst
    IN  [data        |-> data,
         hasNext     |-> data # <<>> /\ (isBackward \/ hasMore),
         hasPrevious |-> data # <<>> /\ (IF isBackward THEN hasMore ELSE hasAnchor)]

getEventsCursor(anchor, isBackward) ==
    formatPageResponse(fetchRows(anchor, isBackward), isBackward, anchor # NoAnchor)

NoPage      == [data |-> <<>>, hasNext |-> FALSE, hasPrevious |-> FALSE]
startCursor == Head(page.data)
endCursor   == Last(page.data)

KeysetInit ==
    /\ feed \in SUBSET (1..LastSeq) /\ unused = (1..LastSeq) \ feed
    /\ page = NoPage /\ walk = "start"
    /\ seen = {} /\ repeated = FALSE /\ steady = feed /\ changes = 0

\* What a response adds to the walk; it ends where the response says nothing follows.
Receive(answer, direction) ==
    /\ page' = answer
    /\ seen' = seen \cup ToSet(answer.data)
    /\ repeated' = (repeated \/ ToSet(answer.data) \cap seen # {})
    /\ walk' = IF (IF direction = "down" THEN answer.hasNext ELSE answer.hasPrevious)
               THEN direction ELSE "over"

FirstPage ==
    /\ walk = "start"
    /\ Receive(getEventsCursor(NoAnchor, FALSE), "down")
    /\ UNCHANGED <<feed, unused, steady, changes>>

NextPage ==
    /\ walk = "down"
    /\ Receive(getEventsCursor(endCursor, FALSE), "down")
    /\ UNCHANGED <<feed, unused, steady, changes>>

PreviousPage ==
    /\ walk = "up"
    /\ Receive(getEventsCursor(startCursor, TRUE), "up")
    /\ UNCHANGED <<feed, unused, steady, changes>>

\* The reader turns back: what lies above its page is ahead of it now.
TurnBack ==
    /\ walk \in {"down", "over"} /\ page.hasPrevious
    /\ walk' = "up" /\ seen' = {} /\ repeated' = FALSE
    /\ steady' = {s \in feed : s > startCursor}
    /\ UNCHANGED <<feed, unused, page, changes>>

TableChange == changes < MaxChanges /\ changes' = changes + 1

RowInserted ==
    /\ TableChange
    /\ \E s \in unused : feed' = feed \cup {s} /\ unused' = unused \ {s}
    /\ UNCHANGED <<page, walk, seen, repeated, steady>>

RowRemoved ==
    /\ TableChange
    /\ \E s \in feed : feed' = feed \ {s} /\ steady' = steady \ {s}
    /\ UNCHANGED <<unused, page, walk, seen, repeated>>

KeysetNext == FirstPage \/ NextPage \/ PreviousPage \/ TurnBack \/ RowInserted \/ RowRemoved

KeysetSpec == KeysetInit /\ [][KeysetNext]_keysetVars
-----------------------------------------------------------------------------
(* Properties. *)

KeysetTypeOK ==
    /\ feed \subseteq 1..LastSeq /\ unused \subseteq 1..LastSeq
    /\ page \in [data : BoundedSeq(1..LastSeq, PageLimit), hasNext : BOOLEAN, hasPrevious : BOOLEAN]
    /\ walk \in {"start", "down", "up", "over"} /\ repeated \in BOOLEAN
    /\ seen \subseteq 1..LastSeq /\ steady \subseteq feed /\ changes \in 0..MaxChanges

\* "Returns a stable page of decoded events": whatever happens to the table, a walk in
\* either direction returns no row twice, and once the flags say that it is over it has
\* returned every row that was there all the time.
WalkIsExact == ~repeated /\ (walk = "over" => steady \subseteq seen)
=============================================================================
