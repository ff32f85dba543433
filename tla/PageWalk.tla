------------------------------ MODULE PageWalk ------------------------------
(***************************************************************************)
(* Keyset pagination (internal/httpx/pagination.go) as the list endpoints  *)
(* use it: listAthletes, listAthleteSessions, listAthleteAnomalies,        *)
(* listSessionPitches, listPitches.                                        *)
(*                                                                         *)
(* A client walks a list page by page while the processor inserts rows     *)
(* anywhere in it (a replayed outing is older than what is there) and, in  *)
(* the one list that is ordered by a mutable column, renames athletes.     *)
(* Every list is sorted by a key (a time, an index, a name), equal keys by *)
(* the row's id, and a page asks for one row more than it shows.  A        *)
(* descending list is the same list with its order reversed.               *)
(***************************************************************************)
EXTENDS Integers, FiniteSets

CONSTANTS
  Row,            \* ids; their order is the order of the numbers
  SortKey,        \* values of the sort column
  Limit           \* rows of a page

ASSUME WalkAssumption ==
  /\ Row \subseteq Nat
  /\ SortKey \subseteq Nat
  /\ Limit \in Nat \ {0}

NoKey == -1       \* the row is not in the table; no cursor

VARIABLES
  table,          \* [Row -> SortKey \cup {NoKey}]
  cursor,         \* [key, id]  the token the client holds
  walking,        \* "before", "on", "done"
  shown,          \* [Row -> Nat]  how often the client was shown the row
  steady          \* history: rows in the list since the walk began, not renamed

walkVars == <<table, cursor, walking, shown, steady>>

Cursors == [key : SortKey \cup {NoKey}, id : Row \cup {NoKey}]

WalkTypeOK ==
  /\ table \in [Row -> SortKey \cup {NoKey}]
  /\ cursor \in Cursors
  /\ walking \in {"before", "on", "done"}
  /\ shown \in [Row -> Nat]
  /\ steady \subseteq Row

Listed == { r \in Row : table[r] # NoKey }

\* (key, id) > (cursor.key, cursor.id), and everything without a cursor.  The
\* tiebreaker is not optional.
\* Mutant of Beyond: rows with the cursor's key are taken as shown.
BeyondKey(r, c) == table[r] # NoKey /\ (c.key = NoKey \/ table[r] > c.key)
Beyond(r, c) ==
  /\ table[r] # NoKey
  /\ \/ c.key = NoKey
     \/ table[r] > c.key
     \/ table[r] = c.key /\ r > c.id

Precedes(a, b) == table[a] < table[b] \/ (table[a] = table[b] /\ a < b)

After(c) == { r \in Row : Beyond(r, c) }

\* ORDER BY key, id LIMIT n.
IsFirst(rows, n, c) ==
  /\ rows \subseteq After(c)
  /\ \A a \in rows, b \in After(c) \ rows : Precedes(a, b)
  /\ IF Cardinality(After(c)) <= n THEN rows = After(c) ELSE Cardinality(rows) = n

WalkInit ==
  /\ table \in [Row -> SortKey \cup {NoKey}]
  /\ cursor = [key |-> NoKey, id |-> NoKey]
  /\ walking = "before"
  /\ shown = [r \in Row |-> 0]
  /\ steady = {}

StartWalk ==
  /\ walking = "before"
  /\ walking' = "on"
  /\ steady' = Listed
  /\ UNCHANGED <<table, cursor, shown>>

ShownWith(page) == [r \in Row |-> IF r \in page THEN shown[r] + 1 ELSE shown[r]]

\* Fewer than limit+1 rows came back.
LastPage ==
  /\ walking = "on"
  /\ \E rows \in SUBSET After(cursor) :
       /\ IsFirst(rows, Limit + 1, cursor)
       /\ Cardinality(rows) <= Limit
       /\ shown' = ShownWith(rows)
  /\ walking' = "done"
  /\ UNCHANGED <<table, cursor, steady>>

\* Paginate: the row too many is cut off, and the last that is left becomes the
\* cursor.
Trimmed(page, rows) ==
  /\ page \subseteq rows
  /\ Cardinality(page) = Limit
  /\ \A a \in page, b \in rows \ page : Precedes(a, b)

IsLast(r, page, rows) == r \in page /\ \A a \in page \ {r} : Precedes(a, r)

FullPage ==
  /\ walking = "on"
  /\ \E rows \in SUBSET After(cursor) :
       /\ IsFirst(rows, Limit + 1, cursor)
       /\ Cardinality(rows) > Limit
       /\ \E page \in SUBSET rows :
            /\ Trimmed(page, rows)
            /\ shown' = ShownWith(page)
            /\ \E r \in rows :
                 /\ IsLast(r, page, rows)
                 /\ cursor' = [key |-> table[r], id |-> r]
  /\ UNCHANGED <<table, walking, steady>>

\* InsertPitch, UpsertSession, InsertAnomaly, UpsertAthlete.
InsertRow(r, k) ==
  /\ table[r] = NoKey
  /\ table' = [table EXCEPT ![r] = k]
  /\ UNCHANGED <<cursor, walking, shown, steady>>

\* UpsertAthlete refreshes the name; an acknowledged anomaly leaves a filtered
\* list or enters it.
Rekey(r, k) ==
  /\ table[r] # NoKey
  /\ table' = [table EXCEPT ![r] = k]
  /\ steady' = steady \ {r}
  /\ UNCHANGED <<cursor, walking, shown>>

WalkNext ==
  \/ StartWalk \/ LastPage \/ FullPage
  \/ \E r \in Row, k \in SortKey : InsertRow(r, k) \/ Rekey(r, k)

WalkSpec == WalkInit /\ [][WalkNext]_walkVars

----------------------------------------------------------------------------
\* A row that was in the list when the walk began and was not renamed is shown
\* once: never twice, and at the walk's end it has been shown, whatever was
\* inserted before and after the cursor meanwhile (pagination.go, Cursor and
\* Paginate; the list queries).
WalkIsWhole ==
  \A r \in steady :
    /\ shown[r] <= 1
    /\ walking = "done" => shown[r] = 1
============================================================================
