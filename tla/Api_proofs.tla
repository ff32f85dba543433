---------------------------- MODULE Api_proofs -----------------------------
(***************************************************************************)
(* What a client of the REST API may rely on: pages that add up, rollups as*)
(* new as what it has seen invalidated, and a login that counts attempts.  *)
(*                                                                         *)
(* PageWalk: the cursor divides the steady rows, those up to it have been  *)
(* shown once and those beyond it never (CursorDivides).  A full page moves*)
(* the cursor to its last row, and every row it leaves out lies beyond.    *)
(*                                                                         *)
(* RollupCache: what is filed under the current generation holds every row *)
(* of the last invalidation (CurrentIsFresh); so what a request finds under*)
(* the generation it read holds those of the last one before it began      *)
(* (FoundIsDue).  Generation 0 needs care: an expired counter reads as 0   *)
(* too, and what was stored under it while there was no counter is dead by *)
(* then, because it lives shorter (BlankIsFresh).  A counter that starts   *)
(* anew may repeat a number; where that meets older entries the history    *)
(* variable overlapped ends the claim.                                     *)
(*                                                                         *)
(* LoginThrottle: each counter fits the attempts it let through.  Redis's  *)
(* covers all those of the sliding window and outlives the latest of them  *)
(* (SharedFits); a process's covers those since its window began, and those*)
(* before it belong to one earlier window of at most the limit (OwnFits).  *)
(***************************************************************************)
EXTENDS PageWalk, RollupCache, LoginThrottle, FiniteSetTheorems, FunctionTheorems, TLAPS

----------------------------------------------------------------------------
(* Pages.                                                                  *)

CursorDivides ==
  walking = "on" =>
    \A r \in steady : shown[r] = IF Beyond(r, cursor) THEN 0 ELSE 1

WalkInv ==
  /\ WalkTypeOK
  /\ \A r \in steady : table[r] # NoKey
  /\ walking = "before" =>
       /\ steady = {}
       /\ cursor.key = NoKey
       /\ \A r \in Row : shown[r] = 0
  /\ CursorDivides
  /\ walking = "done" => \A r \in steady : shown[r] = 1

LEMMA InitWalk == WalkInit => WalkInv
  BY DEF WalkInit, WalkInv, WalkTypeOK, CursorDivides, Cursors

\* The rows of a page come from beyond the cursor.
LEMMA PageIsBeyond ==
  ASSUME NEW fetched, NEW n, IsFirst(fetched, n, cursor)
  PROVE  fetched \subseteq After(cursor) /\ fetched \subseteq Row
  BY DEF IsFirst, After

\* Whatever a full page leaves out lies beyond its last row.
LEMMA LastRowDivides ==
  ASSUME WalkInv, NEW fetched, NEW page, NEW last,
         IsFirst(fetched, Limit + 1, cursor), Trimmed(page, fetched), IsLast(last, page, fetched),
         NEW s \in steady
  PROVE  LET next == [key |-> table[last], id |-> last]
         IN  /\ ~Beyond(s, cursor) => ~Beyond(s, next) /\ s \notin page
             /\ Beyond(s, cursor) => (Beyond(s, next) <=> s \notin page)
  <1> DEFINE next == [key |-> table[last], id |-> last]
  <1> USE WalkAssumption
  <1>1. /\ s \in Row /\ last \in Row /\ last \in page /\ last \in fetched
        /\ page \subseteq fetched /\ fetched \subseteq After(cursor)
    BY PageIsBeyond DEF WalkInv, WalkTypeOK, Trimmed, IsLast
  <1>2. /\ table[s] \in SortKey /\ table[last] \in SortKey
        /\ s \in Nat /\ last \in Nat /\ table[s] \in Nat /\ table[last] \in Nat
        /\ table[last] # NoKey
    BY <1>1 DEF WalkInv, WalkTypeOK, After, Beyond
  <1>3. cursor.key \in Int /\ cursor.id \in Int
    <2>1. cursor.key \in SortKey \cup {NoKey} /\ cursor.id \in Row \cup {NoKey}
      BY DEF WalkInv, WalkTypeOK, Cursors
    <2>2. NoKey \in Int /\ SortKey \subseteq Int /\ Row \subseteq Int
      BY DEF NoKey
    <2> QED BY <2>1, <2>2, Zenon
  <1>4. Beyond(s, next) <=> Precedes(last, s)
    BY <1>2 DEF Beyond, Precedes, NoKey
  <1>5. ASSUME ~Beyond(s, cursor) PROVE ~Beyond(s, next) /\ s \notin page
    <2>1. s \notin page
      BY <1>1, <1>5 DEF After
    <2>2. Beyond(last, cursor)
      BY <1>1 DEF After
    <2>3. cursor.key # NoKey /\ ~(table[s] > cursor.key) /\ ~(table[s] = cursor.key /\ s > cursor.id)
      BY <1>2, <1>5 DEF Beyond, NoKey
    <2>4. table[last] > cursor.key \/ (table[last] = cursor.key /\ last > cursor.id)
      BY <2>2, <2>3 DEF Beyond
    <2>5. ~Precedes(last, s)
      BY <1>2, <1>3, <2>3, <2>4 DEF Precedes
    <2> QED BY <1>4, <2>1, <2>5
  <1>6. ASSUME Beyond(s, cursor) PROVE Beyond(s, next) <=> s \notin page
    <2>1. CASE s \in page
      <3>1. s = last \/ Precedes(s, last)
        BY <2>1 DEF IsLast
      <3>2. ~Precedes(last, s)
        BY <1>2, <3>1 DEF Precedes
      <3> QED BY <1>4, <2>1, <3>2
    <2>2. CASE s \in fetched \ page
      BY <1>1, <1>4, <2>2 DEF Trimmed
    <2>3. CASE s \notin fetched
      <3>1. s \in After(cursor)
        BY <1>1, <1>6 DEF After
      <3> QED BY <1>1, <1>4, <2>3, <3>1 DEF IsFirst
    <2> QED BY <2>1, <2>2, <2>3
  <1> QED BY <1>5, <1>6

LEMMA NextWalk == WalkInv /\ [WalkNext]_walkVars => WalkInv'
  <1> SUFFICES ASSUME WalkInv, [WalkNext]_walkVars PROVE WalkInv'
    OBVIOUS
  <1> USE WalkAssumption
  <1>1. CASE StartWalk
    <2>1. WalkTypeOK'
      BY <1>1 DEF StartWalk, WalkInv, WalkTypeOK, Listed
    <2>2. \A r \in steady' : table'[r] # NoKey
      BY <1>1 DEF StartWalk, Listed
    <2>3. CursorDivides'
      BY <1>1, <2>2 DEF StartWalk, WalkInv, CursorDivides, Listed, Beyond
    <2> QED BY <1>1, <2>1, <2>2, <2>3 DEF StartWalk, WalkInv
  <1>2. CASE LastPage
    <2>1. PICK fetched \in SUBSET After(cursor) :
            /\ IsFirst(fetched, Limit + 1, cursor)
            /\ Cardinality(fetched) <= Limit
            /\ shown' = ShownWith(fetched)
      BY <1>2 DEF LastPage
    <2>2. fetched = After(cursor)
      BY <2>1 DEF IsFirst
    <2>3. shown' \in [Row -> Nat]
      BY <2>1 DEF ShownWith, WalkInv, WalkTypeOK
    <2>4. ASSUME NEW r \in steady PROVE shown'[r] = 1
      <3>1. r \in Row /\ shown'[r] = IF r \in fetched THEN shown[r] + 1 ELSE shown[r]
        BY <2>1 DEF ShownWith, WalkInv, WalkTypeOK
      <3>2. shown[r] = IF Beyond(r, cursor) THEN 0 ELSE 1
        BY <1>2 DEF LastPage, WalkInv, CursorDivides
      <3> QED BY <2>2, <3>1, <3>2 DEF After
    <2> QED BY <1>2, <2>3, <2>4 DEF LastPage, WalkInv, WalkTypeOK, CursorDivides
  <1>3. CASE FullPage
    <2>1. PICK fetched \in SUBSET After(cursor) :
            /\ IsFirst(fetched, Limit + 1, cursor)
            /\ \E page \in SUBSET fetched :
                 /\ Trimmed(page, fetched)
                 /\ shown' = ShownWith(page)
                 /\ \E r \in fetched :
                      /\ IsLast(r, page, fetched)
                      /\ cursor' = [key |-> table[r], id |-> r]
      BY <1>3 DEF FullPage
    <2>2. PICK page \in SUBSET fetched :
                 /\ Trimmed(page, fetched)
                 /\ shown' = ShownWith(page)
                 /\ \E r \in fetched :
                      /\ IsLast(r, page, fetched)
                      /\ cursor' = [key |-> table[r], id |-> r]
      BY <2>1
    <2>3. PICK last \in fetched :
                      /\ IsLast(last, page, fetched)
                      /\ cursor' = [key |-> table[last], id |-> last]
      BY <2>2
    <2>4. walking = "on" /\ UNCHANGED <<table, walking, steady>>
      BY <1>3 DEF FullPage
    <2>5. last \in Row /\ table[last] \in SortKey
      BY <2>1 DEF After, Beyond, WalkInv, WalkTypeOK
    <2>6. WalkTypeOK'
      BY <2>2, <2>3, <2>4, <2>5 DEF ShownWith, WalkInv, WalkTypeOK, Cursors
    <2>7. CursorDivides'
      <3> SUFFICES ASSUME NEW s \in steady
                   PROVE  shown'[s] = IF Beyond(s, cursor)' THEN 0 ELSE 1
        BY <2>4 DEF CursorDivides
      <3>1. s \in Row /\ shown'[s] = IF s \in page THEN shown[s] + 1 ELSE shown[s]
        BY <2>2 DEF ShownWith, WalkInv, WalkTypeOK
      <3>2. shown[s] = IF Beyond(s, cursor) THEN 0 ELSE 1
        BY <2>4 DEF WalkInv, CursorDivides
      <3>3. Beyond(s, cursor)' <=> Beyond(s, [key |-> table[last], id |-> last])
        BY <2>3, <2>4 DEF Beyond
      <3>4. /\ ~Beyond(s, cursor) => ~Beyond(s, cursor)' /\ s \notin page
            /\ Beyond(s, cursor) => (Beyond(s, cursor)' <=> s \notin page)
        BY <2>1, <2>2, <2>3, <3>3, LastRowDivides
      <3> QED BY <3>1, <3>2, <3>4
    <2> QED BY <2>4, <2>6, <2>7 DEF WalkInv
  <1>4. ASSUME NEW r \in Row, NEW k \in SortKey, InsertRow(r, k) PROVE WalkInv'
    <2>1. r \notin steady
      BY <1>4 DEF InsertRow, WalkInv
    <2>2. /\ table' \in [Row -> SortKey \cup {NoKey}]
          /\ \A s \in steady : table'[s] = table[s]
      BY <1>4, <2>1 DEF InsertRow, WalkInv, WalkTypeOK
    <2>3. \A s \in steady : Beyond(s, cursor)' <=> Beyond(s, cursor)
      BY <1>4, <2>2 DEF InsertRow, Beyond
    <2>4. WalkTypeOK' /\ CursorDivides'
      BY <1>4, <2>2, <2>3 DEF InsertRow, WalkInv, WalkTypeOK, CursorDivides
    <2> QED BY <1>4, <2>2, <2>4 DEF InsertRow, WalkInv
  <1>5. ASSUME NEW r \in Row, NEW k \in SortKey, Rekey(r, k) PROVE WalkInv'
    <2>1. /\ table' \in [Row -> SortKey \cup {NoKey}]
          /\ steady' = steady \ {r}
          /\ \A s \in steady' : table'[s] = table[s]
      BY <1>5 DEF Rekey, WalkInv, WalkTypeOK
    <2>2. \A s \in steady' : Beyond(s, cursor)' <=> Beyond(s, cursor)
      BY <1>5, <2>1 DEF Rekey, Beyond
    <2>3. WalkTypeOK' /\ CursorDivides'
      BY <1>5, <2>1, <2>2 DEF Rekey, WalkInv, WalkTypeOK, CursorDivides
    <2> QED BY <1>5, <2>1, <2>3 DEF Rekey, WalkInv
  <1>6. CASE UNCHANGED walkVars
    BY <1>6 DEF walkVars, WalkInv, WalkTypeOK, CursorDivides, Beyond
  <1> QED BY <1>1, <1>2, <1>3, <1>4, <1>5, <1>6 DEF WalkNext

\* The cursor divides what was shown from what was not, at every moment of a
\* walk (pagination.go, Cursor).
THEOREM WalkInvariant == WalkSpec => []WalkInv
  <1> QED BY InitWalk, NextWalk, PTL DEF WalkSpec

\* The types of a walk (pagination.go, Cursor and Paginate).
THEOREM WalkTypeCorrect == WalkSpec => []WalkTypeOK
  <1>1. WalkInv => WalkTypeOK
    BY DEF WalkInv
  <1> QED BY WalkInvariant, <1>1, PTL

\* A walk shows every steady row exactly once (pagination.go, Paginate).
THEOREM WholeWalk == WalkSpec => []WalkIsWhole
  <1>1. WalkInv => WalkIsWhole
    <2> SUFFICES ASSUME WalkInv, NEW r \in steady
                 PROVE  shown[r] <= 1 /\ (walking = "done" => shown[r] = 1)
      BY DEF WalkIsWhole
    <2>1. walking \in {"before", "on", "done"}
      BY DEF WalkInv, WalkTypeOK
    <2>2. CASE walking = "on"
      BY <2>2 DEF WalkInv, CursorDivides
    <2> QED BY <2>1, <2>2 DEF WalkInv
  <1> QED BY WalkInvariant, <1>1, PTL

----------------------------------------------------------------------------
(* The cache of rollups.                                                   *)

\* What there is to compare holds under every generation.
RollupBounds ==
  /\ generation.count = 0 => generation.until = 0
  /\ \A g \in 0..MaxRows : rollups[g].until <= now + SummaryTTL
  /\ \A r \in Request :
       /\ due[r] <= promised
       /\ request[r].at # "idle" => request[r].since <= now /\ now <= request[r].since + 1
       /\ request[r].at = "storing" =>
            request[r].of # Absent /\ due[r] <= request[r].of

\* No key and no request names a generation that is still to come.
CountLeads ==
  /\ \A g \in 0..MaxRows : Alive(g) => g <= generation.count
  /\ \A r \in Request : request[r].at # "idle" => request[r].generation <= generation.count

\* What is filed under the current generation, or will be, holds every row of
\* the last invalidation.
CurrentIsFresh ==
  generation.count > 0 =>
    /\ Alive(generation.count) => promised <= rollups[generation.count].of
    /\ \A r \in Request :
         request[r].at = "storing" /\ request[r].generation = generation.count
           => promised <= request[r].of

\* Under generation 0 it holds them too, or it dies while the counter lives.
BlankIsFresh ==
  /\ Alive(0) => promised <= rollups[0].of \/ rollups[0].until < generation.until
  /\ \A r \in Request :
       request[r].at = "storing" /\ request[r].generation = 0
         => \/ promised <= request[r].of
            \/ request[r].since + 1 + SummaryTTL < generation.until

\* What a request may find under its generation, now or once it is stored.
FoundIsDue ==
  \A r \in Request :
    request[r].at # "idle" /\ ~request[r].blind =>
      /\ Alive(request[r].generation) => due[r] <= rollups[request[r].generation].of
      /\ \A s \in Request :
           request[s].at = "storing" /\ request[s].generation = request[r].generation
             => due[r] <= request[s].of
      /\ request[r].at = "answered" => request[r].of # Absent /\ due[r] <= request[r].of

RollupInv ==
  /\ RollupTypeOK
  /\ RollupBounds
  /\ ~overlapped => CountLeads /\ CurrentIsFresh /\ BlankIsFresh /\ FoundIsDue

LEMMA RollupTypes ==
  ASSUME RollupInv
  PROVE  /\ now \in Nat /\ misses \in Nat
         /\ rows \in Nat /\ rows <= MaxRows
         /\ promised \in Nat /\ promised <= rows
         /\ toBump \in Nat /\ toBump <= rows
         /\ generation.count \in 0..MaxRows /\ generation.until \in Nat
         /\ generation.count + toBump <= rows
         /\ rollups \in [0..MaxRows -> Entry]
         /\ request \in [Request -> Call]
         /\ due \in [Request -> 0..MaxRows]
         /\ \A r \in Request : due[r] \in Nat /\ due[r] <= promised
  <1> USE RollupAssumption
  <1>1. /\ now \in Nat /\ misses \in Nat
        /\ rows \in Nat /\ rows <= MaxRows
        /\ promised \in Nat /\ promised <= rows
        /\ toBump \in Nat /\ toBump <= rows
    BY DEF RollupInv, RollupTypeOK
  <1>2. /\ generation.count \in 0..MaxRows /\ generation.until \in Nat
        /\ generation.count + toBump <= rows
    BY DEF RollupInv, RollupTypeOK
  <1>3. /\ rollups \in [0..MaxRows -> Entry]
        /\ request \in [Request -> Call]
        /\ due \in [Request -> 0..MaxRows]
    BY DEF RollupInv, RollupTypeOK
  <1>4. \A r \in Request : due[r] \in 0..MaxRows /\ due[r] <= promised
    BY <1>3 DEF RollupInv, RollupBounds
  <1> QED BY <1>1, <1>2, <1>3, <1>4

\* The forms in which a request's record is updated.
Begun(c, t, g)      == [c EXCEPT !.at = "looking", !.since = t, !.generation = g]
BegunBlind(c, t)    == [c EXCEPT !.at = "looking", !.since = t, !.generation = 0, !.blind = TRUE]
GoneOn(c, stage, n) == [c EXCEPT !.at = stage, !.of = n]

LEMMA CallBegins ==
  ASSUME NEW c \in Call, NEW t \in Nat, NEW g \in 0..MaxRows
  PROVE  /\ Begun(c, t, g) \in Call
         /\ Begun(c, t, g).at = "looking"
         /\ Begun(c, t, g).since = t
         /\ Begun(c, t, g).generation = g
  BY DEF Begun, Call, Stages

LEMMA CallBeginsBlind ==
  ASSUME NEW c \in Call, NEW t \in Nat
  PROVE  /\ BegunBlind(c, t) \in Call
         /\ BegunBlind(c, t).at = "looking"
         /\ BegunBlind(c, t).since = t
         /\ BegunBlind(c, t).generation = 0
         /\ BegunBlind(c, t).blind
  <1>1. ASSUME NEW stage \in Stages, NEW g \in 0..MaxRows, NEW b \in BOOLEAN
        PROVE  [c EXCEPT !.at = stage, !.since = t, !.generation = g, !.blind = b] \in Call
    BY <1>1 DEF Call
  <1>2. "looking" \in Stages /\ 0 \in 0..MaxRows /\ TRUE \in BOOLEAN
    BY RollupAssumption DEF Stages
  <1>3. BegunBlind(c, t) \in Call
    BY <1>1, <1>2, Zenon DEF BegunBlind
  <1> QED BY <1>3 DEF Call, BegunBlind

LEMMA CallGoesOn ==
  ASSUME NEW c \in Call, NEW stage \in Stages, NEW n \in 0..MaxRows \cup {Absent}
  PROVE  /\ GoneOn(c, stage, n) \in Call
         /\ GoneOn(c, stage, n).at = stage
         /\ GoneOn(c, stage, n).of = n
         /\ GoneOn(c, stage, n).since = c.since
         /\ GoneOn(c, stage, n).generation = c.generation
         /\ GoneOn(c, stage, n).blind <=> c.blind
  BY DEF GoneOn, Call

LEMMA InitRollup == RollupInit => RollupInv
  <1> USE RollupAssumption
  <1> SUFFICES ASSUME RollupInit PROVE RollupInv
    OBVIOUS
  <1>1. RollupTypeOK
    <2>1. NoCall \in Call
      <3>1. ASSUME NEW b \in BOOLEAN
            PROVE  [at |-> "idle", since |-> 0, generation |-> 0, of |-> Absent, blind |-> b] \in Call
        BY DEF Call, Stages
      <3> QED BY <3>1 DEF NoCall
    <2>2. [of |-> Absent, until |-> 0] \in Entry
      BY DEF Entry
    <2>3. request \in [Request -> Call] /\ rollups \in [0..MaxRows -> Entry]
      BY <2>1, <2>2 DEF RollupInit
    <2>4. /\ now \in 0..MaxTime /\ rows \in 0..MaxRows /\ toBump \in 0..rows
          /\ promised \in 0..rows /\ misses \in Nat
          /\ generation \in [count : 0..MaxRows, until : Nat] /\ generation.count + toBump <= rows
      BY DEF RollupInit
    <2>5. due \in [Request -> 0..MaxRows]
      BY DEF RollupInit
    <2>6. overlapped \in BOOLEAN
      BY DEF RollupInit
    <2> QED BY <2>3, <2>4, <2>5, <2>6 DEF RollupTypeOK
  <1>2. RollupBounds
    BY DEF RollupInit, RollupBounds, NoCall
  <1>3. CountLeads /\ CurrentIsFresh /\ BlankIsFresh /\ FoundIsDue
    BY DEF RollupInit, CountLeads, CurrentIsFresh, BlankIsFresh, FoundIsDue, Alive, NoCall
  <1> QED BY <1>1, <1>2, <1>3 DEF RollupInv

\* Nothing is alive, stored or asked for under the number that an invalidation
\* gives out, or the counter has overlapped.
LEMMA CountIsNew ==
  ASSUME RollupInv, InvalidateAthlete, ~overlapped'
  PROVE  /\ generation'.count \in 1..MaxRows
         /\ ~overlapped
         /\ \A g \in 0..MaxRows : Alive(g) => g < generation'.count
         /\ \A r \in Request : request[r].at # "idle" => request[r].generation < generation'.count
  <1> USE RollupAssumption
  <1>1. /\ ~overlapped
        /\ ~(Generation < generation.count /\ Reachable)
        /\ toBump \in Nat /\ toBump > 0
        /\ generation'.count = Generation + 1
        /\ generation.count \in 0..MaxRows /\ generation.count + toBump <= rows
        /\ rows \in 0..MaxRows
    <2>1. /\ toBump \in Nat /\ generation.count \in 0..MaxRows /\ generation.count + toBump <= rows
          /\ rows \in 0..MaxRows
      BY RollupTypes
    <2> QED BY <2>1 DEF InvalidateAthlete
  <1>2. Generation \in Nat /\ Generation <= generation.count
    BY <1>1 DEF Generation
  <1>3. generation'.count \in 1..MaxRows
    BY <1>1, <1>2
  <1>4. \A g \in 0..MaxRows : Alive(g) => g < generation'.count
    <2> SUFFICES ASSUME NEW g \in 0..MaxRows, Alive(g) PROVE g < generation'.count
      OBVIOUS
    <2>1. g <= generation.count
      BY <1>1 DEF RollupInv, CountLeads
    <2>2. CASE Generation = generation.count
      BY <2>1, <2>2, <1>1
    <2>3. CASE Generation < generation.count
      <3>1. g = 0
        BY <2>3, <1>1 DEF Reachable
      <3> QED BY <3>1, <1>1, <1>2
    <2> QED BY <2>2, <2>3, <1>1, <1>2
  <1>5. ASSUME NEW r \in Request, request[r].at # "idle" PROVE request[r].generation < generation'.count
    <2>1. request[r].generation <= generation.count /\ request[r].generation \in 0..MaxRows
      BY <1>1, <1>5 DEF RollupInv, CountLeads, RollupTypeOK, Call
    <2>2. CASE Generation = generation.count
      BY <2>1, <2>2, <1>1
    <2>3. CASE Generation < generation.count
      <3>1. ~(request[r].generation > 0)
        BY <2>3, <1>1, <1>5 DEF Reachable
      <3> QED BY <2>1, <3>1, <1>1, <1>2
    <2> QED BY <2>2, <2>3, <1>1, <1>2
  <1> QED BY <1>1, <1>3, <1>4, <1>5

LEMMA InvalidateRollup == RollupInv /\ InvalidateAthlete => RollupInv'
  <1> USE RollupAssumption
  <1> SUFFICES ASSUME RollupInv, InvalidateAthlete PROVE RollupInv'
    OBVIOUS
  <1>1. /\ generation' = [count |-> Generation + 1, until |-> now + GenerationTTL]
        /\ toBump' = toBump - 1 /\ toBump > 0 /\ promised' = rows
        /\ UNCHANGED <<now, rows, rollups, request, due, misses>>
    BY DEF InvalidateAthlete
  <1>2. Generation \in Nat /\ Generation <= generation.count
    BY DEF Generation, RollupInv, RollupTypeOK
  <1>3. RollupTypeOK'
    BY <1>1, <1>2 DEF InvalidateAthlete, RollupInv, RollupTypeOK
  <1>4. RollupBounds'
    <2>2. ASSUME NEW r \in Request PROVE due[r] <= rows
      BY RollupTypes
    <2> QED BY <1>1, <1>2, <2>2 DEF RollupInv, RollupBounds
  <1>5. ASSUME ~overlapped' PROVE (CountLeads /\ CurrentIsFresh /\ BlankIsFresh /\ FoundIsDue)'
    <2>1. /\ generation'.count \in 1..MaxRows
          /\ ~overlapped
          /\ \A g \in 0..MaxRows : Alive(g) => g < generation'.count
          /\ \A r \in Request : request[r].at # "idle" => request[r].generation < generation'.count
      BY <1>5, CountIsNew
    <2>2. \A g \in 0..MaxRows : Alive(g)' <=> Alive(g)
      BY <1>1 DEF Alive
    <2>3. CountLeads'
      BY <1>1, <2>1, <2>2 DEF CountLeads, RollupInv, RollupTypeOK, Call
    <2>4. CurrentIsFresh'
      BY <1>1, <2>1, <2>2 DEF CurrentIsFresh, RollupInv, RollupTypeOK, Call
    <2>5. BlankIsFresh'
      <3>1. generation'.until = now + GenerationTTL /\ now \in Nat
        BY <1>1 DEF RollupInv, RollupTypeOK
      <3>2. rollups[0].until < generation'.until
        <4>1. rollups[0].until <= now + SummaryTTL /\ rollups[0].until \in Nat
          BY DEF RollupInv, RollupBounds, RollupTypeOK, Entry
        <4> QED BY <3>1, <4>1
      <3>3. ASSUME NEW r \in Request, request[r].at = "storing"
            PROVE request[r].since + 1 + SummaryTTL < generation'.until
        <4>1. request[r].since <= now /\ request[r].since \in Nat
          BY <3>3 DEF RollupInv, RollupBounds, RollupTypeOK, Call
        <4> QED BY <3>1, <4>1
      <3> QED BY <1>1, <3>2, <3>3 DEF BlankIsFresh
    <2>6. FoundIsDue'
      BY <1>1, <2>1, <2>2 DEF FoundIsDue, Alive, RollupInv, RollupTypeOK, Call
    <2> QED BY <2>3, <2>4, <2>5, <2>6
  <1> QED BY <1>3, <1>4, <1>5 DEF RollupInv

\* What a request begins with is what every find under its generation holds.
LEMMA ReadRollup ==
  ASSUME RollupInv, NEW r \in Request, ReadGeneration(r) PROVE RollupInv'
  <1> USE RollupAssumption
  <1>1. /\ request[r].at = "idle"
        /\ request' = [request EXCEPT ![r].at = "looking", ![r].since = now, ![r].generation = Generation]
        /\ due' = [due EXCEPT ![r] = promised]
        /\ UNCHANGED <<now, rows, toBump, generation, rollups, promised, overlapped, misses>>
    BY DEF ReadGeneration, redisVars
  <1>2. Generation \in 0..MaxRows /\ Generation <= generation.count
    BY DEF Generation, RollupInv, RollupTypeOK
  <1>3. /\ request \in [Request -> Call] /\ now \in Nat
        /\ request'[r] = Begun(request[r], now, Generation)
        /\ \A s \in Request \ {r} : request'[s] = request[s]
        /\ due'[r] = promised /\ \A s \in Request \ {r} : due'[s] = due[s]
    <2>1. request \in [Request -> Call] /\ due \in [Request -> 0..MaxRows] /\ now \in Nat
      BY RollupTypes
    <2>2. request'[r] = Begun(request[r], now, Generation)
      BY <1>1, <2>1 DEF Begun
    <2>3. \A s \in Request \ {r} : request'[s] = request[s]
      BY <1>1, <2>1
    <2>4. due'[r] = promised /\ \A s \in Request \ {r} : due'[s] = due[s]
      BY <1>1, <2>1
    <2> QED BY <2>1, <2>2, <2>3, <2>4
  <1>4. RollupTypeOK'
    <2>1. request[r] \in Call
      BY <1>3
    <2>2. request'[r] \in Call
      BY <1>2, <1>3, <2>1, CallBegins
    <2>3. request' \in [Request -> Call]
      BY <1>1, <1>3, <2>2
    <2>4. due' \in [Request -> 0..MaxRows]
      <3>1. promised \in 0..MaxRows /\ due \in [Request -> 0..MaxRows]
        BY RollupTypes
      <3> QED BY <1>1, <3>1
    <2> QED BY <1>1, <2>3, <2>4 DEF RollupInv, RollupTypeOK
  <1>5. RollupBounds'
    <2>1. request'[r].at = "looking" /\ request'[r].since = now
      BY <1>2, <1>3, CallBegins
    <2>2. ASSUME NEW s \in Request
          PROVE  /\ due'[s] <= promised
                 /\ request'[s].at # "idle" => request'[s].since <= now /\ now <= request'[s].since + 1
                 /\ request'[s].at = "storing" =>
                      request'[s].of # Absent /\ due'[s] <= request'[s].of
      <3>1. CASE s = r
        BY <1>3, <2>1, <3>1, RollupTypes
      <3>2. CASE s # r
        BY <1>3, <3>2 DEF RollupInv, RollupBounds
      <3> QED BY <3>1, <3>2
    <2> QED BY <1>1, <2>2 DEF RollupInv, RollupBounds
  <1>6. ASSUME ~overlapped' PROVE (CountLeads /\ CurrentIsFresh /\ BlankIsFresh /\ FoundIsDue)'
    <2>1. CountLeads /\ CurrentIsFresh /\ BlankIsFresh /\ FoundIsDue
      BY <1>1, <1>6 DEF RollupInv
    <2>2. \A g \in 0..MaxRows : Alive(g)' <=> Alive(g)
      BY <1>1 DEF Alive
    <2>3. request'[r].at = "looking" /\ request'[r].generation = Generation /\ request'[r].since = now
      BY <1>2, <1>3, CallBegins
    <2>4. CountLeads'
      BY <1>1, <1>2, <1>3, <2>1, <2>2, <2>3 DEF CountLeads
    <2>5. CurrentIsFresh'
      BY <1>1, <1>3, <2>1, <2>2, <2>3 DEF CurrentIsFresh, RollupInv, RollupTypeOK
    <2>6. BlankIsFresh'
      BY <1>1, <1>3, <2>1, <2>2, <2>3 DEF BlankIsFresh
    <2>7. /\ Alive(Generation) => promised <= rollups[Generation].of
          /\ \A s \in Request : request[s].at = "storing" /\ request[s].generation = Generation
               => promised <= request[s].of
      <3>1. CASE Generation > 0
        BY <3>1, <2>1 DEF Generation, CurrentIsFresh, RollupInv, RollupTypeOK
      <3>2. CASE Generation = 0
        <4>1. generation.until <= now /\ generation.until \in Nat /\ now \in Nat
          BY <3>2 DEF Generation, RollupInv, RollupTypeOK, RollupBounds
        <4>2. Alive(0) => promised <= rollups[0].of
          <5>1. rollups[0].until \in Nat
            BY RollupTypes DEF Entry
          <5>2. Alive(0) => ~(rollups[0].until < generation.until)
            BY <4>1, <5>1 DEF Alive
          <5> QED BY <2>1, <5>2 DEF BlankIsFresh
        <4>3. ASSUME NEW s \in Request, request[s].at = "storing", request[s].generation = 0
              PROVE promised <= request[s].of
          <5>1. request[s].since \in Nat /\ now <= request[s].since + 1
            BY <4>3, <1>3 DEF RollupInv, RollupBounds, Call
          <5>2. ~(request[s].since + 1 + SummaryTTL < generation.until)
            BY <4>1, <5>1
          <5> QED BY <2>1, <4>3, <5>2 DEF BlankIsFresh
        <4> QED BY <3>2, <4>2, <4>3
      <3> QED BY <1>2, <3>1, <3>2
    <2>8. FoundIsDue'
      <3> SUFFICES ASSUME NEW q \in Request, request'[q].at # "idle", ~request'[q].blind
                   PROVE  /\ Alive(request[q].generation)' => due'[q] <= rollups'[request'[q].generation].of
                          /\ \A s \in Request :
                               request'[s].at = "storing" /\ request'[s].generation = request'[q].generation
                                 => due'[q] <= request'[s].of
                          /\ request'[q].at = "answered" => request'[q].of # Absent /\ due'[q] <= request'[q].of
        BY DEF FoundIsDue
      <3>1. \A s \in Request : request'[s].at = "storing" => request'[s] = request[s]
        BY <1>3, <2>3
      <3>2. CASE q = r
        BY <1>1, <1>2, <1>3, <2>2, <2>3, <2>7, <3>1, <3>2
      <3>3. CASE q # r
        <4>1. request'[q] = request[q] /\ due'[q] = due[q]
          BY <1>3, <3>3
        <4>2. request[q].generation \in 0..MaxRows
          BY <1>3 DEF Call
        <4> QED BY <1>1, <2>1, <2>2, <3>1, <4>1, <4>2 DEF FoundIsDue
      <3> QED BY <3>2, <3>3
    <2> QED BY <2>4, <2>5, <2>6, <2>8
  <1> QED BY <1>4, <1>5, <1>6 DEF RollupInv

\* A request that could not read the generation is owed nothing.
LEMMA UnreadRollup ==
  ASSUME RollupInv, NEW r \in Request, GenerationUnread(r) PROVE RollupInv'
  <1> USE RollupAssumption
  <1>1. /\ request[r].at = "idle"
        /\ request' = [request EXCEPT ![r].at = "looking", ![r].since = now, ![r].generation = 0, ![r].blind = TRUE]
        /\ due' = [due EXCEPT ![r] = promised]
        /\ misses' = misses + 1
        /\ UNCHANGED <<now, rows, toBump, generation, rollups, promised, overlapped>>
    BY DEF GenerationUnread, redisVars, Miss
  <1>2. /\ request \in [Request -> Call] /\ now \in Nat
        /\ request'[r] = BegunBlind(request[r], now)
        /\ \A s \in Request \ {r} : request'[s] = request[s]
        /\ due'[r] = promised /\ \A s \in Request \ {r} : due'[s] = due[s]
    <2>1. /\ request \in [Request -> Call] /\ now \in Nat
          /\ due \in [Request -> 0..MaxRows]
      BY RollupTypes
    <2> QED BY <1>1, <2>1 DEF BegunBlind
  <1>3. RollupTypeOK'
    <2>1. request[r] \in Call
      BY <1>2
    <2>2. request'[r] \in Call
      BY <1>2, <2>1, CallBeginsBlind
    <2>3. request' \in [Request -> Call]
      BY <1>1, <1>2, <2>2
    <2>4. due' \in [Request -> 0..MaxRows] /\ misses' \in Nat
      <3>1. promised \in 0..MaxRows /\ misses \in Nat /\ due \in [Request -> 0..MaxRows]
        BY RollupTypes
      <3> QED BY <1>1, <3>1
    <2> QED BY <1>1, <2>3, <2>4 DEF RollupInv, RollupTypeOK
  <1>4. RollupBounds'
    <2>1. request'[r].at = "looking" /\ request'[r].since = now
      BY <1>2, CallBeginsBlind
    <2>2. ASSUME NEW s \in Request
          PROVE  /\ due'[s] <= promised
                 /\ request'[s].at # "idle" => request'[s].since <= now /\ now <= request'[s].since + 1
                 /\ request'[s].at = "storing" =>
                      request'[s].of # Absent /\ due'[s] <= request'[s].of
      <3>1. CASE s = r
        BY <1>2, <2>1, <3>1, RollupTypes
      <3>2. CASE s # r
        BY <1>2, <3>2 DEF RollupInv, RollupBounds
      <3> QED BY <3>1, <3>2
    <2> QED BY <1>1, <2>2 DEF RollupInv, RollupBounds
  <1>5. ASSUME ~overlapped' PROVE (CountLeads /\ CurrentIsFresh /\ BlankIsFresh /\ FoundIsDue)'
    <2>1. CountLeads /\ CurrentIsFresh /\ BlankIsFresh /\ FoundIsDue
      BY <1>1, <1>5 DEF RollupInv
    <2>2. \A g \in 0..MaxRows : Alive(g)' <=> Alive(g)
      BY <1>1 DEF Alive
    <2>3. request'[r].at = "looking" /\ request'[r].generation = 0 /\ request'[r].blind
      BY <1>2, CallBeginsBlind
    <2>4. \A s \in Request : request'[s].at = "storing" => request'[s] = request[s]
      BY <1>2, <2>3
    <2>5. CountLeads'
      <3>1. ASSUME NEW s \in Request, request'[s].at # "idle"
            PROVE  request'[s].generation <= generation.count
        <4>1. CASE s = r
          BY <2>3, <4>1, RollupTypes
        <4>2. CASE s # r
          BY <1>2, <2>1, <3>1, <4>2 DEF CountLeads
        <4> QED BY <4>1, <4>2
      <3> QED BY <1>1, <2>1, <2>2, <3>1 DEF CountLeads
    <2>6. CurrentIsFresh' /\ BlankIsFresh'
      <3>1. generation.count \in 0..MaxRows /\ 0 \in 0..MaxRows
        BY RollupTypes
      <3>2. /\ Alive(generation.count)' <=> Alive(generation.count)
            /\ Alive(0)' <=> Alive(0)
        BY <1>1 DEF Alive
      <3>3. CurrentIsFresh'
        BY <1>1, <2>1, <2>4, <3>2 DEF CurrentIsFresh
      <3>4. BlankIsFresh'
        BY <1>1, <2>1, <2>4, <3>2 DEF BlankIsFresh
      <3> QED BY <3>3, <3>4
    <2>7. FoundIsDue'
      <3>1. \A q \in Request : ~request'[q].blind => request'[q] = request[q] /\ due'[q] = due[q]
        BY <1>2, <2>3
      <3>2. \A q \in Request : request[q].generation \in 0..MaxRows
        BY <1>2 DEF Call
      <3> SUFFICES ASSUME NEW q \in Request, request'[q].at # "idle", ~request'[q].blind
                   PROVE  /\ Alive(request[q].generation)' => due'[q] <= rollups'[request'[q].generation].of
                          /\ \A s \in Request :
                               request'[s].at = "storing" /\ request'[s].generation = request'[q].generation
                                 => due'[q] <= request'[s].of
                          /\ request'[q].at = "answered" => request'[q].of # Absent /\ due'[q] <= request'[q].of
        BY DEF FoundIsDue
      <3>3. request'[q] = request[q] /\ due'[q] = due[q] /\ request[q].generation \in 0..MaxRows
        BY <3>1, <3>2
      <3>4. /\ Alive(request[q].generation) => due[q] <= rollups[request[q].generation].of
            /\ \A s \in Request :
                 request[s].at = "storing" /\ request[s].generation = request[q].generation
                   => due[q] <= request[s].of
            /\ request[q].at = "answered" => request[q].of # Absent /\ due[q] <= request[q].of
        BY <2>1, <3>3 DEF FoundIsDue
      <3> QED BY <1>1, <2>2, <2>4, <3>3, <3>4
    <2> QED BY <2>5, <2>6, <2>7
  <1> QED BY <1>3, <1>4, <1>5 DEF RollupInv

\* The steps that take a request on and touch nothing else.
LEMMA RequestGoesOn ==
  ASSUME RollupInv, NEW r \in Request, NEW stage \in Stages \ {"idle", "storing"}, NEW n,
         request[r].at # "idle",
         request' = [request EXCEPT ![r].at = stage, ![r].of = n],
         n \in 0..MaxRows \cup {Absent},
         ~overlapped /\ stage = "answered" /\ ~request[r].blind => n # Absent /\ due[r] <= n,
         UNCHANGED <<now, rows, toBump, generation, rollups, promised, due, overlapped>>,
         misses' \in Nat
  PROVE  RollupInv'
  <1> USE RollupAssumption
  <1>1. /\ request \in [Request -> Call]
        /\ request'[r] = GoneOn(request[r], stage, n)
        /\ \A s \in Request \ {r} : request'[s] = request[s]
    BY DEF RollupInv, RollupTypeOK, GoneOn
  <1>2. /\ request'[r] \in Call /\ request'[r].at = stage /\ request'[r].of = n
        /\ request'[r].since = request[r].since /\ request'[r].generation = request[r].generation
        /\ request'[r].blind <=> request[r].blind
    <2>1. request[r] \in Call /\ stage \in Stages
      BY <1>1
    <2> QED BY <1>1, <2>1, CallGoesOn
  <1>3. RollupTypeOK'
    BY <1>1, <1>2 DEF RollupInv, RollupTypeOK
  <1>4. \A s \in Request :
          /\ request'[s].at = "storing" => request'[s] = request[s]
          /\ request'[s].at # "idle" => request[s].at # "idle"
          /\ request'[s].since = request[s].since /\ request'[s].generation = request[s].generation
          /\ request'[s].blind <=> request[s].blind
          /\ request[s].generation \in 0..MaxRows
    BY <1>1, <1>2 DEF Call
  <1>5. RollupBounds'
    <2>1. ASSUME NEW s \in Request
          PROVE  /\ due[s] <= promised
                 /\ request'[s].at # "idle" => request'[s].since <= now /\ now <= request'[s].since + 1
                 /\ request'[s].at = "storing" =>
                      request'[s].of # Absent /\ due[s] <= request'[s].of
      <3>1. /\ due[s] <= promised
            /\ request[s].at # "idle" => request[s].since <= now /\ now <= request[s].since + 1
            /\ request[s].at = "storing" => request[s].of # Absent /\ due[s] <= request[s].of
        BY DEF RollupInv, RollupBounds
      <3>2. request'[s].since = request[s].since
        BY <1>4
      <3>3. request'[s].at # "idle" => request[s].at # "idle"
        BY <1>4
      <3>4. request'[s].at = "storing" => request'[s] = request[s]
        BY <1>4
      <3> QED BY <3>1, <3>2, <3>3, <3>4
    <2> QED BY <2>1 DEF RollupInv, RollupBounds
  <1>6. \A g \in 0..MaxRows : Alive(g)' <=> Alive(g)
    BY DEF Alive
  <1>7. ASSUME ~overlapped' PROVE (CountLeads /\ CurrentIsFresh /\ BlankIsFresh /\ FoundIsDue)'
    <2>1. CountLeads /\ CurrentIsFresh /\ BlankIsFresh /\ FoundIsDue
      BY <1>7 DEF RollupInv
    <2>2. CountLeads'
      BY <1>4, <1>6, <2>1 DEF CountLeads
    <2>3. CurrentIsFresh' /\ BlankIsFresh'
      <3>1. generation.count \in 0..MaxRows /\ 0 \in 0..MaxRows
        BY RollupTypes
      <3>2. /\ Alive(generation.count)' <=> Alive(generation.count)
            /\ Alive(0)' <=> Alive(0)
        BY <1>6, <3>1, RollupTypes
      <3>3. CurrentIsFresh'
        BY <1>4, <2>1, <3>2 DEF CurrentIsFresh, Alive
      <3>4. BlankIsFresh'
        BY <1>4, <2>1, <3>2 DEF BlankIsFresh
      <3> QED BY <3>3, <3>4
    <2>4. FoundIsDue'
      <3> SUFFICES ASSUME NEW q \in Request, request'[q].at # "idle", ~request'[q].blind
                   PROVE  /\ Alive(request[q].generation)' => due'[q] <= rollups'[request'[q].generation].of
                          /\ \A s \in Request :
                               request'[s].at = "storing" /\ request'[s].generation = request'[q].generation
                                 => due'[q] <= request'[s].of
                          /\ request'[q].at = "answered" => request'[q].of # Absent /\ due'[q] <= request'[q].of
        BY DEF FoundIsDue
      <3>1. /\ Alive(request[q].generation) => due[q] <= rollups[request[q].generation].of
            /\ \A s \in Request :
                 request[s].at = "storing" /\ request[s].generation = request[q].generation
                   => due[q] <= request[s].of
            /\ request[q].at = "answered" => request[q].of # Absent /\ due[q] <= request[q].of
        BY <1>4, <2>1 DEF FoundIsDue
      <3>2. request'[q].at = "answered" => request'[q].of # Absent /\ due'[q] <= request'[q].of
        BY <1>1, <1>2, <1>7, <3>1
      <3> QED BY <1>4, <1>6, <3>1, <3>2
    <2> QED BY <2>2, <2>3, <2>4
  <1> QED BY <1>3, <1>5, <1>7 DEF RollupInv

LEMMA ComputeRollupInv ==
  ASSUME RollupInv, NEW r \in Request, ComputeRollup(r) PROVE RollupInv'
  <1> USE RollupAssumption
  <1>1. /\ request[r].at = "computing"
        /\ request' = [request EXCEPT ![r].at = "storing", ![r].of = rows]
        /\ UNCHANGED <<now, rows, toBump, generation, rollups, promised, due, overlapped, misses>>
    BY DEF ComputeRollup, redisVars, historyVars, GetAthleteSummary
  <1>2. /\ request \in [Request -> Call]
        /\ request'[r] = GoneOn(request[r], "storing", rows)
        /\ \A s \in Request \ {r} : request'[s] = request[s]
        /\ rows \in 0..MaxRows /\ rows # Absent
        /\ promised \in Nat /\ promised <= rows
        /\ \A s \in Request : due[s] \in Nat /\ due[s] <= promised
    <2>1. /\ request \in [Request -> Call] /\ rows \in Nat /\ rows <= MaxRows
          /\ promised \in Nat /\ promised <= rows
          /\ \A s \in Request : due[s] \in Nat /\ due[s] <= promised
      BY RollupTypes
    <2>2. request'[r] = GoneOn(request[r], "storing", rows)
      BY <1>1, <2>1 DEF GoneOn
    <2>3. \A s \in Request \ {r} : request'[s] = request[s]
      BY <1>1, <2>1
    <2>4. rows \in 0..MaxRows /\ rows # Absent
      BY <2>1
    <2> QED BY <2>1, <2>2, <2>3, <2>4
  <1>3. /\ request'[r] \in Call /\ request'[r].at = "storing" /\ request'[r].of = rows
        /\ request'[r].since = request[r].since /\ request'[r].generation = request[r].generation
        /\ request'[r].blind <=> request[r].blind
    <2>1. /\ request[r] \in Call /\ "storing" \in Stages
          /\ rows \in 0..MaxRows \cup {Absent}
      BY <1>2 DEF Stages
    <2> QED BY <1>2, <2>1, CallGoesOn
  <1>4. \A s \in Request : due[s] <= rows
    BY <1>2
  <1>5. RollupTypeOK'
    BY <1>1, <1>2, <1>3 DEF RollupInv, RollupTypeOK
  <1>6. RollupBounds'
    BY <1>1, <1>2, <1>3, <1>4 DEF RollupInv, RollupBounds
  <1>7. \A g \in 0..MaxRows : Alive(g)' <=> Alive(g)
    BY <1>1 DEF Alive
  <1>8. ASSUME ~overlapped' PROVE (CountLeads /\ CurrentIsFresh /\ BlankIsFresh /\ FoundIsDue)'
    <2>1. CountLeads /\ CurrentIsFresh /\ BlankIsFresh /\ FoundIsDue
      BY <1>1, <1>8 DEF RollupInv
    <2>2. CountLeads'
      BY <1>1, <1>2, <1>3, <1>7, <2>1 DEF CountLeads
    <2>3. CurrentIsFresh'
      BY <1>1, <1>2, <1>3, <1>7, <2>1 DEF CurrentIsFresh, RollupInv, RollupTypeOK
    <2>4. BlankIsFresh'
      BY <1>1, <1>2, <1>3, <1>7, <2>1 DEF BlankIsFresh
    <2>5. FoundIsDue'
      <3> SUFFICES ASSUME NEW q \in Request, request'[q].at # "idle", ~request'[q].blind
                   PROVE  /\ Alive(request[q].generation)' => due'[q] <= rollups'[request'[q].generation].of
                          /\ \A s \in Request :
                               request'[s].at = "storing" /\ request'[s].generation = request'[q].generation
                                 => due'[q] <= request'[s].of
                          /\ request'[q].at = "answered" => request'[q].of # Absent /\ due'[q] <= request'[q].of
        BY DEF FoundIsDue
      <3>1. /\ request[q].at # "idle" /\ ~request[q].blind
            /\ request'[q].generation = request[q].generation /\ request[q].generation \in 0..MaxRows
            /\ request'[q].at = "answered" => request'[q] = request[q]
        BY <1>1, <1>2, <1>3 DEF Call
      <3>2. /\ Alive(request[q].generation) => due[q] <= rollups[request[q].generation].of
            /\ \A s \in Request :
                 request[s].at = "storing" /\ request[s].generation = request[q].generation
                   => due[q] <= request[s].of
            /\ request[q].at = "answered" => request[q].of # Absent /\ due[q] <= request[q].of
        BY <2>1, <3>1 DEF FoundIsDue
      <3>3. ASSUME NEW s \in Request, request'[s].at = "storing",
                   request'[s].generation = request'[q].generation
            PROVE  due'[q] <= request'[s].of
        <4>1. CASE s = r
          BY <1>1, <1>3, <1>4, <4>1
        <4>2. CASE s # r
          BY <1>1, <1>2, <3>1, <3>2, <3>3, <4>2
        <4> QED BY <4>1, <4>2
      <3> QED BY <1>1, <1>7, <3>1, <3>2, <3>3
    <2> QED BY <2>2, <2>3, <2>4, <2>5
  <1> QED BY <1>5, <1>6, <1>8 DEF RollupInv

LEMMA SetRollup ==
  ASSUME RollupInv, NEW r \in Request, SetAnalytics(r) PROVE RollupInv'
  <1> USE RollupAssumption
  <1> DEFINE g == request[r].generation
             n == request[r].of
  <1>1. /\ request[r].at = "storing"
        /\ rollups' = [rollups EXCEPT ![g] = [of |-> n, until |-> now + SummaryTTL]]
        /\ request' = [request EXCEPT ![r].at = "answered"]
        /\ UNCHANGED <<now, rows, toBump, generation, promised, due, overlapped, misses>>
    BY DEF SetAnalytics, historyVars, StoreUnder
  <1>2. /\ request \in [Request -> Call]
        /\ request'[r] = [request[r] EXCEPT !.at = "answered"]
        /\ \A s \in Request \ {r} : request'[s] = request[s]
        /\ n \in 0..MaxRows /\ n # Absent /\ due[r] <= n
        /\ g \in 0..MaxRows /\ now \in Nat
    <2>1. request \in [Request -> Call] /\ now \in Nat
      BY RollupTypes
    <2>2. request[r] \in Call /\ n # Absent /\ due[r] <= n
      BY <1>1, <2>1 DEF RollupInv, RollupBounds
    <2>3. n \in 0..MaxRows /\ g \in 0..MaxRows
      BY <2>2 DEF Call
    <2> QED BY <1>1, <2>1, <2>2, <2>3
  <1>3. /\ request'[r] \in Call /\ request'[r].at = "answered" /\ request'[r].of = n
        /\ request'[r].since = request[r].since /\ request'[r].generation = g
        /\ request'[r].blind <=> request[r].blind
    BY <1>2 DEF Call, Stages
  <1>4. /\ rollups' \in [0..MaxRows -> Entry]
        /\ rollups'[g] = [of |-> n, until |-> now + SummaryTTL]
        /\ \A k \in 0..MaxRows \ {g} : rollups'[k] = rollups[k]
    <2>1. rollups \in [0..MaxRows -> Entry]
      BY RollupTypes
    <2>2. now + SummaryTTL \in Nat
      BY <1>2
    <2>3. [of |-> n, until |-> now + SummaryTTL] \in Entry
      BY <1>2, <2>2 DEF Entry
    <2> HIDE DEF g, n
    <2> QED BY <1>1, <1>2, <2>1, <2>3
  <1>5. /\ rollups'[g].of = n /\ rollups'[g].until = now + SummaryTTL
        /\ \A k \in 0..MaxRows \ {g} : Alive(k)' <=> Alive(k)
    BY <1>1, <1>4 DEF Alive
  <1>6. RollupTypeOK'
    BY <1>1, <1>2, <1>3, <1>4 DEF RollupInv, RollupTypeOK
  <1>7. \A s \in Request :
          /\ request'[s].at = "storing" => s # r /\ request'[s] = request[s]
          /\ request'[s].at # "idle" => request[s].at # "idle"
          /\ request'[s].since = request[s].since /\ request'[s].generation = request[s].generation
          /\ request'[s].blind <=> request[s].blind
          /\ request[s].generation \in 0..MaxRows
    BY <1>1, <1>2, <1>3 DEF Call
  <1>8. RollupBounds'
    <2>1. \A k \in 0..MaxRows : rollups'[k].until <= now + SummaryTTL
      <3>1. \A k \in 0..MaxRows : rollups[k].until <= now + SummaryTTL
        BY DEF RollupInv, RollupBounds
      <3>2. rollups'[g].until <= now + SummaryTTL
        BY <1>2, <1>5
      <3> QED BY <1>4, <3>1, <3>2
    <2> QED BY <1>1, <1>7, <2>1 DEF RollupInv, RollupBounds
  <1>9. ASSUME ~overlapped' PROVE (CountLeads /\ CurrentIsFresh /\ BlankIsFresh /\ FoundIsDue)'
    <2>1. CountLeads /\ CurrentIsFresh /\ BlankIsFresh /\ FoundIsDue
      BY <1>1, <1>9 DEF RollupInv
    <2>2. CountLeads'
      <3>1. g <= generation.count
        BY <1>1, <2>1 DEF CountLeads
      <3> QED BY <1>1, <1>2, <1>5, <1>7, <2>1, <3>1 DEF CountLeads
    <2>3. CurrentIsFresh'
      <3> SUFFICES ASSUME generation.count > 0
                   PROVE  /\ Alive(generation.count)' => promised <= rollups'[generation.count].of
                          /\ \A s \in Request :
                               request'[s].at = "storing" /\ request'[s].generation = generation.count
                                 => promised <= request'[s].of
        BY <1>1 DEF CurrentIsFresh
      <3>1. generation.count \in 0..MaxRows
        BY DEF RollupInv, RollupTypeOK
      <3>2. CASE generation.count = g
        BY <1>1, <1>5, <1>7, <2>1, <3>2 DEF CurrentIsFresh
      <3>3. CASE generation.count # g
        <4>1. /\ Alive(generation.count) => promised <= rollups[generation.count].of
              /\ \A s \in Request :
                   request[s].at = "storing" /\ request[s].generation = generation.count
                     => promised <= request[s].of
          BY <2>1 DEF CurrentIsFresh
        <4>2. /\ Alive(generation.count)' => Alive(generation.count)
              /\ rollups'[generation.count] = rollups[generation.count]
          BY <1>1, <1>4, <1>5, <3>1, <3>3 DEF Alive
        <4> QED BY <1>7, <4>1, <4>2
      <3> QED BY <3>2, <3>3
    <2>4. BlankIsFresh'
      <3>1. Alive(0)' => promised <= rollups'[0].of \/ rollups'[0].until < generation.until
        <4>1. CASE g = 0
          <5>1. promised <= n \/ request[r].since + 1 + SummaryTTL < generation.until
            BY <1>1, <2>1, <4>1 DEF BlankIsFresh
          <5>2. now <= request[r].since + 1 /\ request[r].since \in Nat /\ generation.until \in Nat
            BY <1>1, <1>2 DEF RollupInv, RollupBounds, RollupTypeOK, Call
          <5>3. request[r].since + 1 + SummaryTTL < generation.until => now + SummaryTTL < generation.until
            BY <1>2, <5>2
          <5> QED BY <1>5, <4>1, <5>1, <5>3
        <4>2. CASE g # 0
          BY <1>2, <1>4, <1>5, <2>1, <4>2 DEF BlankIsFresh
        <4> QED BY <4>1, <4>2
      <3> QED BY <1>1, <1>7, <2>1, <3>1 DEF BlankIsFresh
    <2>5. FoundIsDue'
      <3> SUFFICES ASSUME NEW q \in Request, request'[q].at # "idle", ~request'[q].blind
                   PROVE  /\ Alive(request[q].generation)' => due'[q] <= rollups'[request'[q].generation].of
                          /\ \A s \in Request :
                               request'[s].at = "storing" /\ request'[s].generation = request'[q].generation
                                 => due'[q] <= request'[s].of
                          /\ request'[q].at = "answered" => request'[q].of # Absent /\ due'[q] <= request'[q].of
        BY DEF FoundIsDue
      <3>1. /\ Alive(request[q].generation) => due[q] <= rollups[request[q].generation].of
            /\ \A s \in Request :
                 request[s].at = "storing" /\ request[s].generation = request[q].generation
                   => due[q] <= request[s].of
            /\ request[q].at = "answered" => request[q].of # Absent /\ due[q] <= request[q].of
        BY <1>7, <2>1 DEF FoundIsDue
      <3>2. Alive(request[q].generation)' => due'[q] <= rollups'[request'[q].generation].of
        <4>1. CASE request[q].generation = g
          BY <1>1, <1>5, <1>7, <3>1, <4>1
        <4>2. CASE request[q].generation # g
          BY <1>1, <1>4, <1>5, <1>7, <3>1, <4>2
        <4> QED BY <4>1, <4>2
      <3>3. request'[q].at = "answered" => request'[q].of # Absent /\ due'[q] <= request'[q].of
        BY <1>1, <1>2, <1>3, <3>1
      <3> QED BY <1>1, <1>7, <3>1, <3>2, <3>3
    <2> QED BY <2>2, <2>3, <2>4, <2>5
  <1> QED BY <1>6, <1>8, <1>9 DEF RollupInv

LEMMA AnswerRollup ==
  ASSUME RollupInv, NEW r \in Request, Answer(r) PROVE RollupInv'
  <1> USE RollupAssumption
  <1>1. /\ request' = [request EXCEPT ![r] = NoCall]
        /\ due' = [due EXCEPT ![r] = 0]
        /\ UNCHANGED <<now, rows, toBump, generation, rollups, promised, overlapped, misses>>
    BY DEF Answer, redisVars
  <1>2. /\ request \in [Request -> Call] /\ due \in [Request -> 0..MaxRows]
        /\ request'[r] = NoCall /\ NoCall \in Call /\ request'[r].at = "idle"
        /\ due'[r] = 0
        /\ \A s \in Request \ {r} : request'[s] = request[s] /\ due'[s] = due[s]
    BY <1>1 DEF RollupInv, RollupTypeOK, NoCall, Call, Stages
  <1>3. RollupTypeOK'
    BY <1>1, <1>2 DEF RollupInv, RollupTypeOK
  <1>4. \A s \in Request : request'[s].at # "idle" => request'[s] = request[s] /\ due'[s] = due[s]
    BY <1>2
  <1>5. RollupBounds'
    BY <1>1, <1>2, <1>4 DEF RollupInv, RollupBounds, RollupTypeOK
  <1>6. \A g \in 0..MaxRows : Alive(g)' <=> Alive(g)
    BY <1>1 DEF Alive
  <1>7. \A s \in Request : request[s].generation \in 0..MaxRows
    BY <1>2 DEF Call
  <1>8. ASSUME ~overlapped' PROVE (CountLeads /\ CurrentIsFresh /\ BlankIsFresh /\ FoundIsDue)'
    <2>1. CountLeads /\ CurrentIsFresh /\ BlankIsFresh /\ FoundIsDue
      BY <1>1, <1>8 DEF RollupInv
    <2>2. CountLeads' /\ CurrentIsFresh' /\ BlankIsFresh'
      BY <1>1, <1>4, <1>6, <2>1 DEF CountLeads, CurrentIsFresh, BlankIsFresh, RollupInv, RollupTypeOK
    <2>3. FoundIsDue'
      BY <1>1, <1>4, <1>6, <1>7, <2>1 DEF FoundIsDue
    <2> QED BY <2>2, <2>3
  <1> QED BY <1>3, <1>5, <1>8 DEF RollupInv

LEMMA TickRollup == RollupInv /\ Tick => RollupInv'
  <1> USE RollupAssumption
  <1> SUFFICES ASSUME RollupInv, Tick PROVE RollupInv'
    OBVIOUS
  <1>1. /\ now < MaxTime /\ now' = now + 1 /\ now \in Nat
        /\ \A r \in Request : request[r].at # "idle" => request[r].since = now
        /\ UNCHANGED <<rows, toBump, generation, rollups, request, promised, due, overlapped, misses>>
    BY DEF Tick, redisVars, historyVars, RollupInv, RollupTypeOK
  <1>2. RollupTypeOK'
    BY <1>1 DEF RollupInv, RollupTypeOK
  <1>3. RollupBounds'
    <2>1. ASSUME NEW g \in 0..MaxRows PROVE rollups[g].until <= now' + SummaryTTL
      <3>1. rollups[g] \in Entry /\ now \in Nat
        BY RollupTypes
      <3>2. rollups[g].until \in Nat /\ rollups[g].until <= now + SummaryTTL
        BY <3>1 DEF RollupInv, RollupBounds, Entry
      <3> QED BY <1>1, <3>1, <3>2
    <2>2. ASSUME NEW s \in Request, request[s].at # "idle"
          PROVE  request[s].since <= now' /\ now' <= request[s].since + 1
      BY <1>1, <2>2
    <2> QED BY <1>1, <2>1, <2>2 DEF RollupInv, RollupBounds
  <1>4. \A g \in 0..MaxRows : Alive(g)' => Alive(g)
    BY <1>1 DEF Alive, RollupInv, RollupTypeOK, Entry
  <1>5. \A r \in Request : request[r].generation \in 0..MaxRows
    BY DEF RollupInv, RollupTypeOK, Call
  <1>6. ASSUME ~overlapped' PROVE (CountLeads /\ CurrentIsFresh /\ BlankIsFresh /\ FoundIsDue)'
    <2>1. CountLeads /\ CurrentIsFresh /\ BlankIsFresh /\ FoundIsDue
      BY <1>1, <1>6 DEF RollupInv
    <2>2. CountLeads' /\ CurrentIsFresh' /\ BlankIsFresh'
      BY <1>1, <1>4, <2>1 DEF CountLeads, CurrentIsFresh, BlankIsFresh, RollupInv, RollupTypeOK
    <2>3. FoundIsDue'
      BY <1>1, <1>4, <1>5, <2>1 DEF FoundIsDue
    <2> QED BY <2>2, <2>3
  <1> QED BY <1>2, <1>3, <1>6 DEF RollupInv

\* Rows, the work that is left and the misses are none of the cache's.
LEMMA OutsideRollup ==
  ASSUME RollupInv, RollupTypeOK', promised \in 0..rows',
         UNCHANGED <<now, generation, rollups, request, promised, due, overlapped>>
  PROVE  RollupInv'
  BY DEF RollupInv, RollupBounds, CountLeads, CurrentIsFresh, BlankIsFresh, FoundIsDue, Alive

LEMMA NextRollup == RollupInv /\ [RollupNext]_rollupVars => RollupInv'
  <1> USE RollupAssumption
  <1> SUFFICES ASSUME RollupInv, [RollupNext]_rollupVars PROVE RollupInv'
    OBVIOUS
  <1>1. CASE CommitRow
    <2>1. RollupTypeOK' /\ promised \in 0..rows'
      BY <1>1 DEF CommitRow, RollupInv, RollupTypeOK, redisVars, historyVars
    <2> QED BY <1>1, <2>1, OutsideRollup DEF CommitRow, redisVars, historyVars
  <1>2. CASE InvalidateAthlete
    BY <1>2, InvalidateRollup
  <1>3. CASE InvalidationFails
    <2>1. RollupTypeOK' /\ promised \in 0..rows'
      BY <1>3 DEF InvalidationFails, Miss, RollupInv, RollupTypeOK, redisVars, historyVars
    <2> QED BY <1>3, <2>1, OutsideRollup DEF InvalidationFails, redisVars, historyVars
  <1>4. CASE Tick
    BY <1>4, TickRollup
  <1>5. ASSUME NEW r \in Request,
               \/ ReadGeneration(r) \/ GenerationUnread(r)
               \/ Hit(r) \/ NotCached(r) \/ LookupFails(r)
               \/ ComputeRollup(r) \/ SetAnalytics(r) \/ StoreFails(r) \/ Answer(r)
        PROVE  RollupInv'
    <2>1. /\ request \in [Request -> Call] /\ misses \in Nat
          /\ rollups \in [0..MaxRows -> Entry]
          /\ request[r].of \in 0..MaxRows \cup {Absent} /\ request[r].generation \in 0..MaxRows
      BY DEF RollupInv, RollupTypeOK, Call
    <2>2. \A stage \in Stages :
            [request EXCEPT ![r].at = stage] = [request EXCEPT ![r].at = stage, ![r].of = request[r].of]
      BY <2>1 DEF Call
    <2>3. CASE ReadGeneration(r)
      BY <2>3, ReadRollup
    <2>4. CASE GenerationUnread(r)
      BY <2>4, UnreadRollup
    <2>5. CASE Hit(r)
      <3> DEFINE n == rollups[request[r].generation].of
      <3>1. /\ request[r].at = "looking" /\ Alive(request[r].generation)
            /\ request' = [request EXCEPT ![r].at = "answered", ![r].of = n]
            /\ UNCHANGED <<now, rows, toBump, generation, rollups, promised, due, overlapped, misses>>
        BY <2>5 DEF Hit, redisVars, historyVars
      <3>2. n \in 0..MaxRows \cup {Absent} /\ n # Absent
        BY <2>1, <3>1 DEF Entry, Alive
      <3>3. ~overlapped /\ ~request[r].blind => due[r] <= n
        BY <3>1 DEF RollupInv, FoundIsDue
      <3> HIDE DEF n
      <3> QED BY <2>1, <3>1, <3>2, <3>3, RequestGoesOn DEF Stages
    <2>6. CASE NotCached(r) \/ LookupFails(r)
      <3>1. /\ request[r].at = "looking"
            /\ request' = [request EXCEPT ![r].at = "computing", ![r].of = request[r].of]
            /\ misses' \in Nat
            /\ UNCHANGED <<now, rows, toBump, generation, rollups, promised, due, overlapped>>
        <4>1. "computing" \in Stages
          BY DEF Stages
        <4>2. CASE NotCached(r)
          BY <2>1, <2>2, <4>1, <4>2 DEF NotCached, redisVars, historyVars
        <4>3. CASE LookupFails(r)
          <5>1. /\ request[r].at = "looking" /\ misses' = misses + 1
                /\ request' = [request EXCEPT ![r].at = "computing"]
                /\ UNCHANGED <<now, rows, toBump, generation, rollups, promised, due, overlapped>>
            BY <4>3 DEF LookupFails, Miss, redisVars, historyVars
          <5>2. misses' \in Nat
            BY <2>1, <5>1
          <5>3. request' = [request EXCEPT ![r].at = "computing", ![r].of = request[r].of]
            BY <2>2, <4>1, <5>1
          <5> QED BY <5>1, <5>2, <5>3
        <4> QED BY <2>6, <4>2, <4>3
      <3>2. "computing" \in Stages \ {"idle", "storing"} /\ "computing" # "answered"
        BY DEF Stages
      <3> QED BY <2>1, <3>1, <3>2, RequestGoesOn
    <2>7. CASE ComputeRollup(r)
      BY <2>7, ComputeRollupInv
    <2>8. CASE SetAnalytics(r)
      BY <2>8, SetRollup
    <2>9. CASE StoreFails(r)
      <3>1. /\ request[r].at = "storing"
            /\ request' = [request EXCEPT ![r].at = "answered", ![r].of = request[r].of]
            /\ misses' \in Nat
            /\ UNCHANGED <<now, rows, toBump, generation, rollups, promised, due, overlapped>>
        BY <2>1, <2>2, <2>9 DEF StoreFails, Miss, redisVars, historyVars, Stages
      <3>2. request[r].of # Absent /\ due[r] <= request[r].of
        BY <3>1 DEF RollupInv, RollupBounds
      <3> QED BY <2>1, <3>1, <3>2, RequestGoesOn DEF Stages
    <2>10. CASE Answer(r)
      BY <2>10, AnswerRollup
    <2> QED BY <1>5, <2>3, <2>4, <2>5, <2>6, <2>7, <2>8, <2>9, <2>10
  <1>6. CASE UNCHANGED rollupVars
    <2>1. RollupTypeOK' /\ promised \in 0..rows'
      BY <1>6 DEF rollupVars, redisVars, historyVars, RollupInv, RollupTypeOK
    <2> QED BY <1>6, <2>1, OutsideRollup DEF rollupVars, redisVars, historyVars
  <1> QED BY <1>1, <1>2, <1>3, <1>4, <1>5, <1>6 DEF RollupNext

\* The inductive invariant of the cache: types, and, until the counter overlaps
\* older entries, freshness of what is filed under each generation (analytics.go,
\* GetAnalytics, SetAnalytics, InvalidateAthlete).
THEOREM RollupInvariant == RollupSpec => []RollupInv
  BY InitRollup, NextRollup, PTL DEF RollupSpec

\* For any requests, lifetimes with SummaryTTL + 1 < GenerationTTL, rows and Redis
\* failures: who could read the generation is answered with every row invalidated
\* before (handlers_athletes.go, getAthleteAnalytics), unless the counter has
\* overlapped older entries.
THEOREM CurrentRollup == RollupSpec => []RollupIsCurrent
  <1>1. RollupInv => RollupIsCurrent
    BY DEF RollupInv, FoundIsDue, RollupIsCurrent
  <1> QED BY RollupInvariant, <1>1, PTL

\* The state of counter, entries and requests keeps its types, and the counter
\* never runs ahead of the pitches stored (analytics.go, InvalidateAthlete).
THEOREM RollupTypeCorrect == RollupSpec => []RollupTypeOK
  <1>1. RollupInv => RollupTypeOK
    BY DEF RollupInv
  <1> QED BY RollupInvariant, <1>1, PTL


----------------------------------------------------------------------------
(* The throttle of the login.                                              *)

(* Counting attempts.                                                      *)

Numbers == [Age -> Nat]

\* Numbers after a tick, and after one more attempt.
Aged(n) == [t \in Age |-> IF t = 0 THEN 0 ELSE n[t - 1]]
OneMore(n) == [n EXCEPT ![0] = @ + 1]
None == [t \in Age |-> 0]

LEMMA AttemptsElement ==
  ASSUME NEW n \in Numbers, NEW S \in SUBSET Age
  PROVE  /\ \A a \in Attempts(n, S) : \E t \in S : \E i \in 1..n[t] : a = <<t, i>>
         /\ \A t \in S : \A i \in 1..n[t] : <<t, i>> \in Attempts(n, S)
  <1>1. ASSUME NEW a \in Attempts(n, S) PROVE \E t \in S : \E i \in 1..n[t] : a = <<t, i>>
    <2>1. PICK t \in S : a \in {t} \X (1..n[t])
      BY DEF Attempts
    <2> QED BY <2>1
  <1>2. ASSUME NEW t \in S, NEW i \in 1..n[t] PROVE <<t, i>> \in Attempts(n, S)
    <2>1. <<t, i>> \in {t} \X (1..n[t])
      OBVIOUS
    <2> QED BY <2>1 DEF Attempts
  <1> QED BY <1>1, <1>2

LEMMA AgeIsNat == Age \subseteq Nat /\ 0 \in Age
  BY ThrottleAssumption DEF Age

LEMMA NoAttempts ==
  ASSUME NEW S \in SUBSET Age
  PROVE  IsFiniteSet(Attempts(None, S)) /\ Cardinality(Attempts(None, S)) = 0
  <1>1. None \in Numbers
    BY DEF None, Numbers
  <1>2. Attempts(None, S) = {}
    BY <1>1, AttemptsElement DEF None
  <1> QED BY <1>2, FS_EmptySet

LEMMA MoreAttempts ==
  ASSUME NEW n \in Numbers, NEW S \in SUBSET Age, 0 \in S, IsFiniteSet(Attempts(n, S))
  PROVE  /\ IsFiniteSet(Attempts(OneMore(n), S))
         /\ Cardinality(Attempts(OneMore(n), S)) = Cardinality(Attempts(n, S)) + 1
  <1>1. /\ OneMore(n) \in Numbers /\ n[0] \in Nat /\ OneMore(n)[0] = n[0] + 1
        /\ \A t \in Age \ {0} : OneMore(n)[t] = n[t]
    BY AgeIsNat DEF OneMore, Numbers
  <1>2. <<0, n[0] + 1>> \notin Attempts(n, S)
    BY <1>1, AttemptsElement
  <1>3. Attempts(OneMore(n), S) = Attempts(n, S) \cup {<<0, n[0] + 1>>}
    <2>1. ASSUME NEW a \in Attempts(OneMore(n), S)
          PROVE  a \in Attempts(n, S) \cup {<<0, n[0] + 1>>}
      <3>1. PICK t \in S : \E i \in 1..OneMore(n)[t] : a = <<t, i>>
        BY <1>1, AttemptsElement
      <3>2. PICK i \in 1..OneMore(n)[t] : a = <<t, i>>
        BY <3>1
      <3>3. CASE i \in 1..n[t]
        BY <3>2, <3>3, AttemptsElement
      <3>4. CASE i \notin 1..n[t]
        <4>1. t = 0
          BY <1>1, <3>4
        <4>2. i = n[0] + 1
          BY <1>1, <3>4, <4>1
        <4> QED BY <3>2, <4>1, <4>2
      <3> QED BY <3>3, <3>4
    <2>2. ASSUME NEW a \in Attempts(n, S) PROVE a \in Attempts(OneMore(n), S)
      <3>1. PICK t \in S : \E i \in 1..n[t] : a = <<t, i>>
        BY AttemptsElement
      <3>2. PICK i \in 1..n[t] : a = <<t, i>>
        BY <3>1
      <3>3. i \in 1..OneMore(n)[t]
        BY <1>1
      <3> QED BY <1>1, <3>2, <3>3, AttemptsElement
    <2>3. <<0, n[0] + 1>> \in Attempts(OneMore(n), S)
      <3>1. n[0] + 1 \in 1..OneMore(n)[0]
        BY <1>1
      <3> QED BY <1>1, <3>1, AttemptsElement
    <2> QED BY <2>1, <2>2, <2>3
  <1> DEFINE A == Attempts(n, S)
             x == <<0, n[0] + 1>>
  <1> HIDE DEF A, x
  <1>4. IsFiniteSet(A) /\ x \notin A /\ Attempts(OneMore(n), S) = A \cup {x}
    BY <1>2, <1>3 DEF A, x
  <1>5. IsFiniteSet(A \cup {x}) /\ Cardinality(A \cup {x}) = Cardinality(A) + 1
    BY <1>4, FS_AddElement
  <1> QED BY <1>4, <1>5 DEF A

\* What is not of age 0 is not touched by one more attempt.
LEMMA OlderAttempts ==
  ASSUME NEW n \in Numbers, NEW S \in SUBSET Age, 0 \notin S
  PROVE  Attempts(OneMore(n), S) = Attempts(n, S)
  <1>1. \A t \in S : OneMore(n)[t] = n[t]
    BY AgeIsNat DEF OneMore, Numbers
  <1> QED BY <1>1 DEF Attempts

\* A tick lets no attempt into a set of ages that was not in it, a tick younger.
LEMMA AgedAttempts ==
  ASSUME NEW n \in Numbers, NEW S \in SUBSET Age, NEW T \in SUBSET Age,
         \A t \in T : t # 0 => t - 1 \in S,
         IsFiniteSet(Attempts(n, S))
  PROVE  /\ IsFiniteSet(Attempts(Aged(n), T))
         /\ Cardinality(Attempts(Aged(n), T)) <= Cardinality(Attempts(n, S))
  <1> DEFINE back == [a \in Attempts(Aged(n), T) |-> <<a[1] - 1, a[2]>>]
  <1>1. Aged(n) \in Numbers
    <2>1. \A t \in Age : t # 0 => t - 1 \in Age
      BY ThrottleAssumption DEF Age
    <2> QED BY <2>1 DEF Aged, Numbers
  <1>2. ASSUME NEW a \in Attempts(Aged(n), T)
        PROVE  /\ <<a[1] - 1, a[2]>> \in Attempts(n, S)
               /\ a = <<a[1], a[2]>> /\ a[1] \in Nat
    <2>1. PICK t \in T : \E i \in 1..Aged(n)[t] : a = <<t, i>>
      BY <1>1, AttemptsElement
    <2>2. PICK i \in 1..Aged(n)[t] : a = <<t, i>>
      BY <2>1
    <2>3. t # 0 /\ Aged(n)[t] = n[t - 1]
      BY <2>2 DEF Aged
    <2>4. t - 1 \in S
      BY <2>3
    <2> QED BY <2>2, <2>3, <2>4, AttemptsElement, AgeIsNat
  <1>3. back \in Injection(Attempts(Aged(n), T), Attempts(n, S))
    <2>1. back \in [Attempts(Aged(n), T) -> Attempts(n, S)]
      BY <1>2
    <2>2. ASSUME NEW a \in Attempts(Aged(n), T), NEW b \in Attempts(Aged(n), T), back[a] = back[b]
          PROVE  a = b
      <3>1. a[1] - 1 = b[1] - 1 /\ a[2] = b[2]
        BY <2>2
      <3>2. a = <<a[1], a[2]>> /\ b = <<b[1], b[2]>> /\ a[1] \in Nat /\ b[1] \in Nat
        BY <1>2
      <3>3. a[1] = b[1]
        BY <3>1, <3>2
      <3> QED BY <3>1, <3>2, <3>3
    <2>3. \A a, b \in Attempts(Aged(n), T) : back[a] = back[b] => a = b
      BY <2>2
    <2> HIDE DEF back
    <2> QED BY <2>1, <2>3, Fun_IsInj
  <1> QED BY <1>3, FS_Injection

LEMMA FewerAttempts ==
  ASSUME NEW n \in Numbers, NEW S \in SUBSET Age, NEW T \in SUBSET S,
         IsFiniteSet(Attempts(n, S))
  PROVE  /\ IsFiniteSet(Attempts(n, T))
         /\ Cardinality(Attempts(n, T)) <= Cardinality(Attempts(n, S))
  <1>1. Attempts(n, T) \subseteq Attempts(n, S)
    BY DEF Attempts
  <1> QED BY <1>1, FS_Subset

LEMMA AllAttempts ==
  ASSUME NEW n \in Numbers, NEW S \in SUBSET Age, IsFiniteSet(Attempts(n, Age))
  PROVE  Cardinality(Attempts(n, Age))
           <= Cardinality(Attempts(n, S)) + Cardinality(Attempts(n, Age \ S))
  <1>1. IsFiniteSet(Attempts(n, S)) /\ IsFiniteSet(Attempts(n, Age \ S))
    BY FewerAttempts
  <1>2. Attempts(n, Age) = Attempts(n, S) \cup Attempts(n, Age \ S)
    BY DEF Attempts
  <1> DEFINE A == Attempts(n, S)
             B == Attempts(n, Age \ S)
  <1> HIDE DEF A, B
  <1>3. IsFiniteSet(A) /\ IsFiniteSet(B) /\ Attempts(n, Age) = A \cup B
    BY <1>1, <1>2 DEF A, B
  <1>4. Cardinality(A \cap B) \in Nat /\ Cardinality(A) \in Nat /\ Cardinality(B) \in Nat
    BY <1>3, FS_Intersection, FS_CardinalityType
  <1>5. Cardinality(A \cup B) = Cardinality(A) + Cardinality(B) - Cardinality(A \cap B)
    BY <1>3, FS_Union
  <1> QED BY <1>3, <1>4, <1>5 DEF A, B

(* One counter and the attempts it let through.                            *)

\* Redis: the window slides, so the count covers all attempts in it, and the
\* key outlives each of them.
SharedFits(n, slot, limit) ==
  /\ IsFiniteSet(Attempts(n, Age))
  /\ Cardinality(Attempts(n, Age)) <= limit
  /\ Cardinality(Attempts(n, Age)) <= slot.count
  /\ \A t \in Age : n[t] > 0 => Window - t <= slot.left

\* The ages that belong to the window of a process's counter.
Young(slot) == {t \in Age : t <= Window + 1 - slot.left}

\* A process: the count covers the attempts since its window began; those
\* before belong to one earlier window.
OwnFits(n, slot, limit) ==
  /\ slot.left <= Window + 1
  /\ slot.count = 0 <=> slot.left = 0
  /\ IsFiniteSet(Attempts(n, Age))
  /\ slot.count = 0 => n[0] = 0 /\ Cardinality(Attempts(n, Age)) <= limit
  /\ slot.count > 0 =>
       /\ Cardinality(Attempts(n, Young(slot))) <= slot.count
       /\ Cardinality(Attempts(n, Young(slot))) <= limit
       /\ Cardinality(Attempts(n, Age \ Young(slot))) <= limit

\* A count, one higher unless it is past the limit, and what it lets through.
CountRaised(slot, limit) == IF slot.count > limit THEN slot.count ELSE slot.count + 1
LetThrough(n, count, limit) == IF count <= limit THEN OneMore(n) ELSE n

LEMMA SharedNone ==
  ASSUME NEW slot \in Slot, NEW limit \in Nat
  PROVE  SharedFits(None, slot, limit)
  <1>1. slot.count \in Nat
    BY DEF Slot
  <1>2. IsFiniteSet(Attempts(None, Age)) /\ Cardinality(Attempts(None, Age)) = 0
    BY NoAttempts
  <1> QED BY <1>1, <1>2 DEF SharedFits, None

LEMMA SharedCounts ==
  ASSUME NEW n \in Numbers, NEW slot \in Slot, NEW limit \in Nat, SharedFits(n, slot, limit)
  PROVE  LET count == CountRaised(slot, limit)
         IN  SharedFits(LetThrough(n, count, limit), [count |-> count, left |-> Window], limit)
  <1> DEFINE count == CountRaised(slot, limit)
             after == [count |-> count, left |-> Window]
  <1>1. /\ slot.count \in Nat /\ slot.left \in Nat /\ Window \in Nat
        /\ IsFiniteSet(Attempts(n, Age))
        /\ Cardinality(Attempts(n, Age)) \in Nat
        /\ Cardinality(Attempts(n, Age)) <= limit
        /\ Cardinality(Attempts(n, Age)) <= slot.count
    BY FS_CardinalityType, ThrottleAssumption DEF Slot, SharedFits
  <1>2. \A t \in Age : t \in Nat /\ Window - t <= Window
    BY AgeIsNat, <1>1
  <1>3. after.count = count /\ after.left = Window /\ count \in Nat
    BY <1>1 DEF CountRaised
  <1>4. CASE count <= limit
    <2>1. count = slot.count + 1 /\ LetThrough(n, count, limit) = OneMore(n)
      BY <1>1, <1>4 DEF CountRaised, LetThrough
    <2>2. /\ IsFiniteSet(Attempts(OneMore(n), Age))
          /\ Cardinality(Attempts(OneMore(n), Age)) = Cardinality(Attempts(n, Age)) + 1
      BY <1>1, MoreAttempts, AgeIsNat
    <2> HIDE DEF count, after
    <2>3. Cardinality(Attempts(OneMore(n), Age)) <= count
      BY <1>1, <1>3, <2>1, <2>2
    <2>4. Cardinality(Attempts(OneMore(n), Age)) <= limit
      BY <1>1, <1>3, <1>4, <2>2, <2>3
    <2>5. SharedFits(OneMore(n), after, limit)
      BY <1>2, <1>3, <2>2, <2>3, <2>4 DEF SharedFits
    <2> QED BY <2>1, <2>5 DEF count, after
  <1>5. CASE ~(count <= limit)
    <2>1. slot.count <= count /\ LetThrough(n, count, limit) = n
      BY <1>1, <1>5 DEF CountRaised, LetThrough
    <2> HIDE DEF count, after
    <2>2. Cardinality(Attempts(n, Age)) <= count
      BY <1>1, <1>3, <2>1
    <2>3. SharedFits(n, after, limit)
      BY <1>1, <1>2, <1>3, <2>2 DEF SharedFits
    <2> QED BY <2>1, <2>3 DEF count, after
  <1> QED BY <1>4, <1>5

LEMMA SharedAged ==
  ASSUME NEW n \in Numbers, NEW slot \in Slot, NEW limit \in Nat, SharedFits(n, slot, limit)
  PROVE  SharedFits(Aged(n), Older(slot), limit)
  <1>1. /\ slot.count \in Nat /\ slot.left \in Nat /\ Window \in Nat
        /\ IsFiniteSet(Attempts(n, Age))
        /\ Cardinality(Attempts(n, Age)) \in Nat
        /\ Cardinality(Attempts(n, Age)) <= limit
        /\ Cardinality(Attempts(n, Age)) <= slot.count
    BY FS_CardinalityType, ThrottleAssumption DEF Slot, SharedFits
  <1>2. \A t \in Age : t # 0 => t - 1 \in Age
    BY <1>1 DEF Age
  <1>3. /\ IsFiniteSet(Attempts(Aged(n), Age))
        /\ Cardinality(Attempts(Aged(n), Age)) <= Cardinality(Attempts(n, Age))
    BY <1>1, <1>2, AgedAttempts
  <1>4. Cardinality(Attempts(Aged(n), Age)) \in Nat
    BY <1>3, FS_CardinalityType
  <1>5. ASSUME NEW t \in Age, Aged(n)[t] > 0
        PROVE  t # 0 /\ t \in Nat /\ t - 1 \in Age /\ Window - (t - 1) <= slot.left
    BY <1>1, <1>2, <1>5, AgeIsNat DEF Aged, SharedFits
  <1>6. CASE slot.left <= 1
    <2>1. Older(slot) = Empty
      BY <1>6 DEF Older
    <2>2. \A t \in Age : Aged(n)[t] = 0
      <3> SUFFICES ASSUME NEW t \in Age, Aged(n)[t] # 0 PROVE FALSE
        OBVIOUS
      <3>1. Aged(n)[t] > 0
        BY <1>2 DEF Aged, Numbers
      <3>2. t <= Window - 1
        BY <1>1 DEF Age
      <3> QED BY <1>1, <1>5, <1>6, <3>1, <3>2
    <2>3. Aged(n) = None
      BY <2>2 DEF Aged, None
    <2>4. Empty \in Slot
      BY DEF Empty, Slot
    <2> QED BY <2>1, <2>3, <2>4, SharedNone
  <1>7. CASE ~(slot.left <= 1)
    <2>1. Older(slot) = [slot EXCEPT !.left = @ - 1]
      BY <1>7 DEF Older
    <2>2. Older(slot).left = slot.left - 1 /\ Older(slot).count = slot.count
      BY <2>1 DEF Slot
    <2>3. \A t \in Age : Aged(n)[t] > 0 => Window - t <= Older(slot).left
      BY <1>1, <1>5, <2>2
    <2>4. /\ Cardinality(Attempts(Aged(n), Age)) <= limit
          /\ Cardinality(Attempts(Aged(n), Age)) <= Older(slot).count
      BY <1>1, <1>3, <1>4, <2>2
    <2> QED BY <1>3, <2>3, <2>4 DEF SharedFits
  <1> QED BY <1>6, <1>7

LEMMA OwnNone ==
  ASSUME NEW slot \in Slot, NEW limit \in Nat,
         slot.left <= Window + 1, slot.count = 0 <=> slot.left = 0
  PROVE  OwnFits(None, slot, limit)
  <1>1. slot.count \in Nat
    BY DEF Slot
  <1>2. \A S \in SUBSET Age : IsFiniteSet(Attempts(None, S)) /\ Cardinality(Attempts(None, S)) = 0
    BY NoAttempts
  <1>3. None[0] = 0
    BY AgeIsNat DEF None
  <1>4. Young(slot) \subseteq Age /\ Age \ Young(slot) \subseteq Age
    BY DEF Young
  <1> QED BY <1>1, <1>2, <1>3, <1>4 DEF OwnFits

LEMMA OwnCounts ==
  ASSUME NEW n \in Numbers, NEW slot \in Slot, NEW limit \in Nat \ {0}, OwnFits(n, slot, limit)
  PROVE  LET count == CountRaised(slot, limit)
             left  == IF slot.count = 0 THEN Window + 1 ELSE slot.left
         IN  OwnFits(LetThrough(n, count, limit), [count |-> count, left |-> left], limit)
  <1> DEFINE count == CountRaised(slot, limit)
             left  == IF slot.count = 0 THEN Window + 1 ELSE slot.left
             after == [count |-> count, left |-> left]
             m     == LetThrough(n, count, limit)
  <1>1. /\ slot.count \in Nat /\ slot.left \in Nat /\ Window \in Nat /\ Window > 0
        /\ slot.left <= Window + 1 /\ (slot.count = 0 <=> slot.left = 0)
        /\ IsFiniteSet(Attempts(n, Age))
    BY ThrottleAssumption DEF Slot, OwnFits
  <1>2. /\ after.count = count /\ after.left = left
        /\ count \in Nat /\ count > 0 /\ left \in Nat /\ left > 0 /\ left <= Window + 1
    BY <1>1 DEF CountRaised
  <1>3. 0 \in Young(after) /\ Young(after) \subseteq Age
    BY <1>1, <1>2, AgeIsNat DEF Young
  <1>4. m = IF count <= limit THEN OneMore(n) ELSE n
    BY DEF LetThrough
  <1>5. IsFiniteSet(Attempts(m, Age))
    BY <1>1, <1>4, MoreAttempts, AgeIsNat
  <1>6. CASE slot.count = 0
    <2>1. count = 1 /\ left = Window + 1 /\ m = OneMore(n)
      BY <1>1, <1>4, <1>6 DEF CountRaised
    <2> HIDE DEF count, left, after, m
    <2>2. Young(after) = {0}
      <3>1. Window + 1 - after.left = 0
        BY <1>1, <1>2, <2>1
      <3>2. \A t \in Age : t <= 0 <=> t = 0
        BY AgeIsNat
      <3> QED BY <3>1, <3>2, AgeIsNat DEF Young
    <2>3. n[0] = 0 /\ Cardinality(Attempts(n, Age)) <= limit
      BY <1>6 DEF OwnFits
    <2>4. IsFiniteSet(Attempts(n, {0})) /\ Cardinality(Attempts(n, {0})) = 0
      <3>1. Attempts(n, {0}) = {}
        BY <2>3, AttemptsElement, AgeIsNat
      <3> QED BY <3>1, FS_EmptySet
    <2>5. Cardinality(Attempts(m, {0})) = 1
      BY <2>1, <2>4, MoreAttempts, AgeIsNat
    <2>6. Attempts(m, Age \ {0}) = Attempts(n, Age \ {0})
      BY <2>1, OlderAttempts
    <2>7. Cardinality(Attempts(n, Age \ {0})) <= limit
      <3>1. /\ IsFiniteSet(Attempts(n, Age \ {0}))
            /\ Cardinality(Attempts(n, Age \ {0})) <= Cardinality(Attempts(n, Age))
        BY <1>1, FewerAttempts
      <3>2. Cardinality(Attempts(n, Age \ {0})) \in Nat /\ Cardinality(Attempts(n, Age)) \in Nat
        BY <1>1, <3>1, FS_CardinalityType
      <3> QED BY <2>3, <3>1, <3>2
    <2>8. OwnFits(m, after, limit)
      BY <1>1, <1>2, <1>5, <2>1, <2>2, <2>5, <2>6, <2>7 DEF OwnFits
    <2> QED BY <2>8 DEF count, left, after, m
  <1>7. CASE slot.count # 0
    <2>1. left = slot.left /\ Young(after) = Young(slot)
      BY <1>2, <1>7 DEF Young
    <2>2. /\ Cardinality(Attempts(n, Young(slot))) <= slot.count
          /\ Cardinality(Attempts(n, Young(slot))) <= limit
          /\ Cardinality(Attempts(n, Age \ Young(slot))) <= limit
      BY <1>1, <1>7 DEF OwnFits
    <2>3. IsFiniteSet(Attempts(n, Young(slot))) /\ Cardinality(Attempts(n, Young(slot))) \in Nat
      BY <1>1, <1>3, <2>1, FewerAttempts, FS_CardinalityType
    <2>4. CASE count <= limit
      <3>1. count = slot.count + 1 /\ m = OneMore(n)
        BY <1>1, <1>4, <2>4 DEF CountRaised
      <3> HIDE DEF count, left, after, m
      <3>2. Cardinality(Attempts(m, Young(slot))) = Cardinality(Attempts(n, Young(slot))) + 1
        BY <1>3, <2>1, <2>3, <3>1, MoreAttempts
      <3>3. Attempts(m, Age \ Young(slot)) = Attempts(n, Age \ Young(slot))
        BY <1>3, <2>1, <3>1, OlderAttempts
      <3>4. /\ Cardinality(Attempts(m, Young(slot))) <= count
            /\ Cardinality(Attempts(m, Young(slot))) <= limit
        BY <1>1, <1>2, <2>2, <2>3, <2>4, <3>1, <3>2
      <3>5. OwnFits(m, after, limit)
        BY <1>1, <1>2, <1>5, <2>1, <2>2, <3>3, <3>4 DEF OwnFits
      <3> QED BY <3>5 DEF count, left, after, m
    <2>5. CASE ~(count <= limit)
      <3>1. slot.count <= count /\ m = n
        BY <1>1, <1>4, <2>5 DEF CountRaised
      <3> HIDE DEF count, left, after, m
      <3>2. Cardinality(Attempts(n, Young(slot))) <= count
        BY <1>1, <1>2, <2>2, <2>3, <3>1
      <3>3. OwnFits(m, after, limit)
        BY <1>1, <1>2, <1>5, <2>1, <2>2, <3>1, <3>2 DEF OwnFits
      <3> QED BY <3>3 DEF count, left, after, m
    <2> QED BY <2>4, <2>5
  <1> QED BY <1>6, <1>7

LEMMA OwnAged ==
  ASSUME NEW n \in Numbers, NEW slot \in Slot, NEW limit \in Nat, OwnFits(n, slot, limit)
  PROVE  OwnFits(Aged(n), Older(slot), limit)
  <1>1. /\ slot.count \in Nat /\ slot.left \in Nat /\ Window \in Nat
        /\ slot.left <= Window + 1 /\ (slot.count = 0 <=> slot.left = 0)
        /\ IsFiniteSet(Attempts(n, Age))
    BY ThrottleAssumption DEF Slot, OwnFits
  <1>2. \A t \in Age : t # 0 => t - 1 \in Age
    BY <1>1 DEF Age
  <1>3. ASSUME NEW S \in SUBSET Age, NEW T \in SUBSET Age, \A t \in T : t # 0 => t - 1 \in S
        PROVE  /\ IsFiniteSet(Attempts(Aged(n), T))
               /\ Cardinality(Attempts(Aged(n), T)) <= Cardinality(Attempts(n, S))
               /\ Cardinality(Attempts(Aged(n), T)) \in Nat
               /\ Cardinality(Attempts(n, S)) \in Nat
    <2>1. IsFiniteSet(Attempts(n, S)) /\ Cardinality(Attempts(n, S)) \in Nat
      BY <1>1, FewerAttempts, FS_CardinalityType
    <2>2. /\ IsFiniteSet(Attempts(Aged(n), T))
          /\ Cardinality(Attempts(Aged(n), T)) <= Cardinality(Attempts(n, S))
      BY <1>3, <2>1, AgedAttempts
    <2> QED BY <2>1, <2>2, FS_CardinalityType
  <1>4. Aged(n)[0] = 0
    BY AgeIsNat DEF Aged
  <1>5. Young(slot) \subseteq Age
    BY DEF Young
  <1>6. CASE slot.left <= 1
    <2>1. Older(slot) = Empty /\ Empty.count = 0 /\ Empty.left = 0
      BY <1>6 DEF Older, Empty
    <2>2. Cardinality(Attempts(n, Age)) <= limit
      <3>1. CASE slot.count = 0
        BY <3>1 DEF OwnFits
      <3>2. CASE slot.count # 0
        <4>1. Young(slot) = Age
          BY <1>1, <1>6, <3>2 DEF Young, Age
        <4> QED BY <1>1, <3>2, <4>1 DEF OwnFits
      <3> QED BY <3>1, <3>2
    <2>3. Cardinality(Attempts(Aged(n), Age)) <= limit /\ IsFiniteSet(Attempts(Aged(n), Age))
      BY <1>2, <1>3, <2>2
    <2> QED BY <1>1, <1>4, <2>1, <2>3 DEF OwnFits
  <1>7. CASE ~(slot.left <= 1)
    <2>1. Older(slot) = [slot EXCEPT !.left = @ - 1]
      BY <1>7 DEF Older
    <2>2. Older(slot).left = slot.left - 1 /\ Older(slot).count = slot.count /\ slot.count > 0
      BY <1>1, <1>7, <2>1 DEF Slot
    <2>3. Young(Older(slot)) \subseteq Age
      BY DEF Young
    <2>4. \A t \in Young(Older(slot)) : t # 0 => t - 1 \in Young(slot)
      BY <1>1, <1>2, <2>2, AgeIsNat DEF Young
    <2>5. \A t \in Age \ Young(Older(slot)) : t # 0 => t - 1 \in Age \ Young(slot)
      BY <1>1, <1>2, <2>2, AgeIsNat DEF Young
    <2>6. /\ Cardinality(Attempts(n, Young(slot))) <= slot.count
          /\ Cardinality(Attempts(n, Young(slot))) <= limit
          /\ Cardinality(Attempts(n, Age \ Young(slot))) <= limit
      BY <2>2 DEF OwnFits
    <2>7. /\ Cardinality(Attempts(Aged(n), Young(Older(slot)))) <= slot.count
          /\ Cardinality(Attempts(Aged(n), Young(Older(slot)))) <= limit
      BY <1>1, <1>3, <1>5, <2>3, <2>4, <2>6
    <2>8. Cardinality(Attempts(Aged(n), Age \ Young(Older(slot)))) <= limit
      BY <1>3, <2>5, <2>6
    <2>9. IsFiniteSet(Attempts(Aged(n), Age))
      BY <1>2, <1>3
    <2> QED BY <1>1, <1>7, <2>2, <2>7, <2>8, <2>9 DEF OwnFits
  <1> QED BY <1>6, <1>7

(* The throttle.                                                           *)

\* Every counter fits the attempts that it let through.
CountersFit ==
  \A k \in Counted :
    /\ SharedFits(passed[k][Redis], shared[k], LimitOf(k))
    /\ \A p \in Process : OwnFits(passed[k][p], own[p][k], LimitOf(k))

LoginsAreWhole ==
  \A l \in Login : login[l].at # "idle" =>
    login[l].account \in Account /\ login[l].address \in Address /\ login[l].process \in Process

ThrottleInv == ThrottleTypeOK /\ LoginsAreWhole /\ CountersFit

Requests == [at : {"idle", "account", "address", "verify", "reset"},
             account : Account \cup {"none"}, address : Address \cup {"none"},
             process : Process \cup {"none"}]

LEMMA ThrottleTypes ==
  ASSUME ThrottleInv
  PROVE  /\ shared \in [Counted -> Slot]
         /\ own \in [Process -> [Counted -> Slot]]
         /\ login \in [Login -> Requests]
         /\ passed \in [Counted -> [Counters -> Numbers]]
         /\ refusals \in Nat
         /\ Redis \in Counters /\ Process \subseteq Counters
         /\ \A k \in Counted : LimitOf(k) \in Nat \ {0}
  BY ThrottleAssumption DEF ThrottleInv, ThrottleTypeOK, Requests, Numbers, Counters, LimitOf

LEMMA InitThrottle == ThrottleInit => ThrottleInv
  <1> SUFFICES ASSUME ThrottleInit PROVE ThrottleInv
    OBVIOUS
  <1>1. Empty \in Slot /\ Empty.left = 0 /\ Empty.count = 0
    BY DEF Empty, Slot
  <1>2. NoLogin \in Requests /\ NoLogin.at = "idle"
    BY DEF NoLogin, Requests
  <1>3. None \in Numbers
    BY DEF None, Numbers
  <1>4. /\ \A k \in Counted : shared[k] = Empty
        /\ \A p \in Process, k \in Counted : own[p][k] = Empty
        /\ \A l \in Login : login[l] = NoLogin
        /\ \A k \in Counted, via \in Counters : passed[k][via] = None
    BY DEF ThrottleInit, None
  <1>5. ThrottleTypeOK
    <2>1. shared \in [Counted -> Slot] /\ own \in [Process -> [Counted -> Slot]]
      BY <1>1 DEF ThrottleInit
    <2>2. login \in [Login -> Requests] /\ refusals \in Nat
      BY <1>2 DEF ThrottleInit
    <2>3. passed \in [Counted -> [Counters -> Numbers]]
      BY <1>3 DEF ThrottleInit, None
    <2> QED BY <2>1, <2>2, <2>3 DEF ThrottleTypeOK, Requests, Numbers
  <1>6. LoginsAreWhole
    BY <1>2, <1>4 DEF LoginsAreWhole
  <1>7. CountersFit
    <2> SUFFICES ASSUME NEW k \in Counted
                 PROVE  /\ SharedFits(passed[k][Redis], shared[k], LimitOf(k))
                        /\ \A p \in Process : OwnFits(passed[k][p], own[p][k], LimitOf(k))
      BY DEF CountersFit
    <2>1. LimitOf(k) \in Nat
      BY ThrottleAssumption DEF LimitOf
    <2>2. Empty.left <= Window + 1 /\ (Empty.count = 0 <=> Empty.left = 0)
      BY <1>1, ThrottleAssumption
    <2>3. SharedFits(None, Empty, LimitOf(k)) /\ OwnFits(None, Empty, LimitOf(k))
      BY <1>1, <2>1, <2>2, SharedNone, OwnNone
    <2> QED BY <1>4, <2>3 DEF Counters
  <1> QED BY <1>5, <1>6, <1>7 DEF ThrottleInv

\* One more attempt in one history.
LEMMA OneMorePassed ==
  ASSUME NEW h \in [Counted -> [Counters -> Numbers]], NEW k \in Counted, NEW via \in Counters,
         NEW g, g = [h EXCEPT ![k][via][0] = @ + 1]
  PROVE  /\ g \in [Counted -> [Counters -> Numbers]]
         /\ g[k][via] = OneMore(h[k][via])
         /\ \A j \in Counted, w \in Counters : j # k \/ w # via => g[j][w] = h[j][w]
  <1>1. h[k] \in [Counters -> Numbers] /\ h[k][via] \in Numbers /\ OneMore(h[k][via]) \in Numbers
    BY AgeIsNat DEF OneMore, Numbers
  <1>2. g = [h EXCEPT ![k] = [h[k] EXCEPT ![via] = OneMore(h[k][via])]]
    BY <1>1 DEF OneMore
  <1> HIDE DEF OneMore
  <1> DEFINE row == [h[k] EXCEPT ![via] = OneMore(h[k][via])]
  <1>3. /\ row \in [Counters -> Numbers] /\ row[via] = OneMore(h[k][via])
        /\ \A w \in Counters \ {via} : row[w] = h[k][w]
    BY <1>1
  <1>4. g = [h EXCEPT ![k] = row]
    BY <1>2
  <1> HIDE DEF row
  <1>5. g \in [Counted -> [Counters -> Numbers]]
    BY <1>3, <1>4
  <1>6. g[k] = row /\ \A j \in Counted \ {k} : g[j] = h[j]
    BY <1>4
  <1> QED BY <1>3, <1>5, <1>6

\* What becomes of a request that is judged.
LEMMA JudgedThrottle ==
  ASSUME ThrottleInv, NEW l \in Login, NEW via \in Counters, NEW count \in Nat,
         login[l].at \in {"account", "address"},
         Judge(l, KeyOf(l), via, count)
  PROVE  /\ KeyOf(l) \in Counted
         /\ login' \in [Login -> Requests] /\ LoginsAreWhole'
         /\ passed' \in [Counted -> [Counters -> Numbers]]
         /\ passed'[KeyOf(l)][via] = LetThrough(passed[KeyOf(l)][via], count, LimitOf(KeyOf(l)))
         /\ \A j \in Counted, w \in Counters : j # KeyOf(l) \/ w # via => passed'[j][w] = passed[j][w]
  <1>1. /\ login \in [Login -> Requests] /\ passed \in [Counted -> [Counters -> Numbers]]
        /\ login[l] \in Requests
    BY ThrottleTypes
  <1>2. /\ login[l].account \in Account /\ login[l].address \in Address /\ login[l].process \in Process
    BY DEF ThrottleInv, LoginsAreWhole
  <1>3. KeyOf(l) \in Counted
    BY <1>2 DEF KeyOf, Counted
  <1>4. CASE count <= LimitOf(KeyOf(l))
    <2>1. /\ login' = [login EXCEPT ![l].at = IF @ = "account" THEN "address" ELSE "verify"]
          /\ passed' = [passed EXCEPT ![KeyOf(l)][via][0] = @ + 1]
      BY <1>4 DEF Judge
    <2>2. /\ login'[l] \in Requests
          /\ login'[l].account = login[l].account /\ login'[l].address = login[l].address
          /\ login'[l].process = login[l].process
      BY <1>1, <2>1 DEF Requests
    <2>3. login' \in [Login -> Requests] /\ \A m \in Login \ {l} : login'[m] = login[m]
      BY <1>1, <2>1, <2>2
    <2>4. LoginsAreWhole'
      BY <1>2, <2>2, <2>3 DEF ThrottleInv, LoginsAreWhole
    <2>5. LetThrough(passed[KeyOf(l)][via], count, LimitOf(KeyOf(l))) = OneMore(passed[KeyOf(l)][via])
      BY <1>4 DEF LetThrough
    <2>6. /\ passed' \in [Counted -> [Counters -> Numbers]]
          /\ passed'[KeyOf(l)][via] = OneMore(passed[KeyOf(l)][via])
          /\ \A j \in Counted, w \in Counters : j # KeyOf(l) \/ w # via => passed'[j][w] = passed[j][w]
      <3> DEFINE k == KeyOf(l)
                 h == passed
                 g == [h EXCEPT ![k][via][0] = @ + 1]
      <3>1. passed' = g
        BY <2>1
      <3>2. k \in Counted /\ h \in [Counted -> [Counters -> Numbers]]
        BY <1>1, <1>3
      <3> HIDE DEF k, h
      <3>3. /\ g \in [Counted -> [Counters -> Numbers]]
            /\ g[k][via] = OneMore(h[k][via])
            /\ \A j \in Counted, w \in Counters : j # k \/ w # via => g[j][w] = h[j][w]
        BY <3>2, OneMorePassed
      <3> QED BY <3>1, <3>3 DEF k, h
    <2> QED BY <1>3, <2>3, <2>4, <2>5, <2>6
  <1>5. CASE ~(count <= LimitOf(KeyOf(l)))
    <2>1. login' = [login EXCEPT ![l] = NoLogin] /\ passed' = passed
      BY <1>5 DEF Judge
    <2>2. NoLogin \in Requests /\ NoLogin.at = "idle"
      BY DEF NoLogin, Requests
    <2>3. login' \in [Login -> Requests] /\ LoginsAreWhole'
      BY <1>1, <2>1, <2>2 DEF ThrottleInv, LoginsAreWhole
    <2>4. LetThrough(passed[KeyOf(l)][via], count, LimitOf(KeyOf(l))) = passed[KeyOf(l)][via]
      BY <1>5 DEF LetThrough
    <2> QED BY <1>1, <1>3, <2>1, <2>3, <2>4
  <1> QED BY <1>4, <1>5

LEMMA AllowSharedThrottle ==
  ASSUME ThrottleInv, NEW l \in Login, AllowShared(l) PROVE ThrottleInv'
  <1> DEFINE k == KeyOf(l)
             count == CountRaised(shared[k], LimitOf(k))
  <1>1. /\ login[l].at \in {"account", "address"}
        /\ shared' = [shared EXCEPT ![k] = Increment(k)]
        /\ Judge(l, k, Redis, Increment(k).count)
        /\ UNCHANGED <<own, refusals>>
    BY DEF AllowShared
  <1>2. k \in Counted
    BY <1>1 DEF ThrottleInv, LoginsAreWhole, KeyOf, Counted
  <1>3. /\ Increment(k) = [count |-> count, left |-> Window] /\ Increment(k).count = count
        /\ count \in Nat /\ Increment(k) \in Slot
    <2>1. Increment(k) = [count |-> count, left |-> Window]
      BY DEF Increment, CountUp, CountRaised
    <2>2. count \in Nat
      <3>1. shared[k] \in Slot
        BY <1>2, ThrottleTypes
      <3> QED BY <3>1 DEF Slot, CountRaised
    <2> QED BY <2>1, <2>2, ThrottleAssumption DEF Slot
  <1> HIDE DEF k, count
  <1>4. /\ login' \in [Login -> Requests] /\ LoginsAreWhole'
        /\ passed' \in [Counted -> [Counters -> Numbers]]
        /\ passed'[k][Redis] = LetThrough(passed[k][Redis], count, LimitOf(k))
        /\ \A j \in Counted, w \in Counters : j # k \/ w # Redis => passed'[j][w] = passed[j][w]
    BY <1>1, <1>3, ThrottleTypes, JudgedThrottle DEF k
  <1>5. /\ shared' \in [Counted -> Slot]
        /\ shared'[k] = [count |-> count, left |-> Window]
        /\ \A j \in Counted \ {k} : shared'[j] = shared[j]
    BY <1>1, <1>2, <1>3, ThrottleTypes
  <1>6. ThrottleTypeOK'
    BY <1>1, <1>4, <1>5, ThrottleTypes DEF ThrottleTypeOK, Requests, Numbers
  <1>7. CountersFit'
    <2> SUFFICES ASSUME NEW j \in Counted
                 PROVE  /\ SharedFits(passed'[j][Redis], shared'[j], LimitOf(j))
                        /\ \A p \in Process : OwnFits(passed'[j][p], own'[p][j], LimitOf(j))
      BY DEF CountersFit
    <2>1. /\ SharedFits(passed[j][Redis], shared[j], LimitOf(j))
          /\ \A p \in Process : OwnFits(passed[j][p], own[p][j], LimitOf(j))
      BY DEF ThrottleInv, CountersFit
    <2>2. SharedFits(passed'[j][Redis], shared'[j], LimitOf(j))
      <3>1. CASE j = k
        <4>1. passed[k][Redis] \in Numbers /\ shared[k] \in Slot /\ LimitOf(k) \in Nat
          BY <1>2, ThrottleTypes
        <4>2. SharedFits(LetThrough(passed[k][Redis], count, LimitOf(k)), [count |-> count, left |-> Window], LimitOf(k))
          BY <2>1, <3>1, <4>1, SharedCounts DEF count
        <4> QED BY <1>4, <1>5, <3>1, <4>2
      <3>2. CASE j # k
        <4>1. passed'[j][Redis] = passed[j][Redis] /\ shared'[j] = shared[j]
          BY <1>4, <1>5, <3>2, ThrottleTypes
        <4> QED BY <2>1, <4>1
      <3> QED BY <3>1, <3>2
    <2>3. ASSUME NEW p \in Process PROVE OwnFits(passed'[j][p], own'[p][j], LimitOf(j))
      <3>1. p # Redis /\ p \in Counters
        BY ThrottleAssumption, ThrottleTypes
      <3>2. passed'[j][p] = passed[j][p] /\ own' = own
        BY <1>1, <1>4, <3>1
      <3> QED BY <2>1, <3>2
    <2> QED BY <2>2, <2>3
  <1> QED BY <1>4, <1>6, <1>7 DEF ThrottleInv

LEMMA AllowLocalThrottle ==
  ASSUME ThrottleInv, NEW l \in Login, AllowLocal(l) PROVE ThrottleInv'
  <1> DEFINE k == KeyOf(l)
             p == login[l].process
             slot == own[p][k]
             count == CountRaised(slot, LimitOf(k))
             left == IF slot.count = 0 THEN Window + 1 ELSE slot.left
  <1>1. /\ login[l].at \in {"account", "address"}
        /\ own' = [own EXCEPT ![p][k] = CountAlone(k, @)]
        /\ Judge(l, k, p, CountAlone(k, own[p][k]).count)
        /\ shared' = shared /\ refusals' = refusals + 1
    BY DEF AllowLocal, Refusal
  <1>2. k \in Counted /\ p \in Process /\ p \in Counters /\ p # Redis
    BY <1>1, ThrottleAssumption DEF ThrottleInv, LoginsAreWhole, KeyOf, Counted, Counters
  <1>3. own \in [Process -> [Counted -> Slot]] /\ own[p] \in [Counted -> Slot] /\ slot \in Slot
    BY <1>2, ThrottleTypes
  <1>4. /\ CountAlone(k, slot) = [count |-> count, left |-> left] /\ CountAlone(k, slot).count = count
        /\ count \in Nat /\ CountAlone(k, slot) \in Slot
    <2>1. CountAlone(k, slot) = [count |-> count, left |-> left]
      BY DEF CountAlone, CountUp, CountRaised
    <2>2. count \in Nat /\ left \in Nat
      BY <1>3, ThrottleAssumption DEF Slot, CountRaised
    <2> QED BY <2>1, <2>2 DEF Slot
  <1>5. own' = [own EXCEPT ![p] = [own[p] EXCEPT ![k] = CountAlone(k, slot)]]
    BY <1>1, <1>2, <1>3
  <1> HIDE DEF k, p, slot, count, left
  <1>6. /\ login' \in [Login -> Requests] /\ LoginsAreWhole'
        /\ passed' \in [Counted -> [Counters -> Numbers]]
        /\ passed'[k][p] = LetThrough(passed[k][p], count, LimitOf(k))
        /\ \A j \in Counted, w \in Counters : j # k \/ w # p => passed'[j][w] = passed[j][w]
    BY <1>1, <1>2, <1>4, ThrottleTypes, JudgedThrottle DEF k, slot
  <1>7. /\ own' \in [Process -> [Counted -> Slot]]
        /\ own'[p][k] = [count |-> count, left |-> left]
        /\ \A q \in Process, j \in Counted : q # p \/ j # k => own'[q][j] = own[q][j]
    BY <1>2, <1>3, <1>4, <1>5
  <1>8. ThrottleTypeOK'
    BY <1>1, <1>6, <1>7, ThrottleTypes DEF ThrottleTypeOK, Requests, Numbers
  <1>9. CountersFit'
    <2> SUFFICES ASSUME NEW j \in Counted
                 PROVE  /\ SharedFits(passed'[j][Redis], shared'[j], LimitOf(j))
                        /\ \A q \in Process : OwnFits(passed'[j][q], own'[q][j], LimitOf(j))
      BY DEF CountersFit
    <2>1. /\ SharedFits(passed[j][Redis], shared[j], LimitOf(j))
          /\ \A q \in Process : OwnFits(passed[j][q], own[q][j], LimitOf(j))
      BY DEF ThrottleInv, CountersFit
    <2>2. SharedFits(passed'[j][Redis], shared'[j], LimitOf(j))
      <3>1. passed'[j][Redis] = passed[j][Redis] /\ shared' = shared
        BY <1>1, <1>2, <1>6, ThrottleTypes
      <3> QED BY <2>1, <3>1
    <2>3. ASSUME NEW q \in Process PROVE OwnFits(passed'[j][q], own'[q][j], LimitOf(j))
      <3>1. CASE j = k /\ q = p
        <4>1. passed[k][p] \in Numbers /\ slot \in Slot /\ LimitOf(k) \in Nat \ {0}
          BY <1>2, <1>3, ThrottleTypes
        <4>2. OwnFits(passed[k][p], slot, LimitOf(k))
          BY <2>1, <3>1 DEF slot
        <4>3. OwnFits(LetThrough(passed[k][p], count, LimitOf(k)), [count |-> count, left |-> left], LimitOf(k))
          BY <4>1, <4>2, OwnCounts DEF count, left
        <4> QED BY <1>6, <1>7, <3>1, <4>3
      <3>2. CASE ~(j = k /\ q = p)
        <4>1. passed'[j][q] = passed[j][q] /\ own'[q][j] = own[q][j]
          BY <1>6, <1>7, <3>2, ThrottleTypes
        <4> QED BY <2>1, <4>1
      <3> QED BY <3>1, <3>2
    <2> QED BY <2>2, <2>3
  <1> QED BY <1>6, <1>8, <1>9 DEF ThrottleInv

\* The steps that count nothing.
LEMMA UncountedThrottle ==
  ASSUME ThrottleInv, login' \in [Login -> Requests], LoginsAreWhole',
         UNCHANGED <<shared, own, passed, refusals>>
  PROVE  ThrottleInv'
  BY DEF ThrottleInv, ThrottleTypeOK, CountersFit, Requests, Numbers

LEMMA ResetThrottle ==
  ASSUME ThrottleInv, NEW l \in Login, Reset(l) PROVE ThrottleInv'
  <1> DEFINE u == login[l].account
             p == login[l].process
  <1>1. /\ login[l].at = "reset"
        /\ \/ /\ shared' = [k \in Counted |-> IF k = u THEN Empty ELSE shared[k]]
              /\ refusals' = refusals
           \/ refusals' = refusals + 1 /\ shared' = shared
        /\ own' = [own EXCEPT ![p] = [k \in Counted |-> IF k = u THEN Empty ELSE own[p][k]]]
        /\ passed' = [passed EXCEPT ![u] = [via \in Counters |-> None]]
        /\ login' = [login EXCEPT ![l] = NoLogin]
    <2>1. \A k : k \in Cleared(l) <=> k = u
      BY DEF Cleared
    <2> QED BY <2>1 DEF Reset, Refusal, None
  <1>2. u \in Counted /\ p \in Process
    BY <1>1 DEF ThrottleInv, LoginsAreWhole, Counted
  <1>3. Empty \in Slot /\ Empty.left = 0 /\ Empty.count = 0 /\ None \in Numbers
    BY DEF Empty, Slot, None, Numbers
  <1>4. login' \in [Login -> Requests] /\ LoginsAreWhole'
    <2>1. NoLogin \in Requests /\ NoLogin.at = "idle"
      BY DEF NoLogin, Requests
    <2> QED BY <1>1, <2>1, ThrottleTypes DEF ThrottleInv, LoginsAreWhole
  <1> HIDE DEF u, p
  <1>5. /\ passed' \in [Counted -> [Counters -> Numbers]]
        /\ \A via \in Counters : passed'[u][via] = None
        /\ \A k \in Counted \ {u} : passed'[k] = passed[k]
    BY <1>1, <1>2, <1>3, ThrottleTypes
  <1>6. /\ shared' \in [Counted -> Slot]
        /\ \A k \in Counted \ {u} : shared'[k] = shared[k]
    BY <1>1, <1>2, <1>3, ThrottleTypes
  <1>7. /\ own' \in [Process -> [Counted -> Slot]]
        /\ \A q \in Process : \A k \in Counted :
             own'[q][k] = IF q = p /\ k = u THEN Empty ELSE own[q][k]
    <2>1. own \in [Process -> [Counted -> Slot]]
      BY ThrottleTypes
    <2>2. [k \in Counted |-> IF k = u THEN Empty ELSE own[p][k]] \in [Counted -> Slot]
      BY <1>2, <1>3, <2>1
    <2> QED BY <1>1, <1>2, <2>1, <2>2
  <1>8. refusals' \in Nat
    BY <1>1, ThrottleTypes
  <1>9. ThrottleTypeOK'
    BY <1>4, <1>5, <1>6, <1>7, <1>8 DEF ThrottleTypeOK, Requests, Numbers
  <1>10. CountersFit'
    <2> SUFFICES ASSUME NEW k \in Counted
                 PROVE  /\ SharedFits(passed'[k][Redis], shared'[k], LimitOf(k))
                        /\ \A q \in Process : OwnFits(passed'[k][q], own'[q][k], LimitOf(k))
      BY DEF CountersFit
    <2>1. /\ SharedFits(passed[k][Redis], shared[k], LimitOf(k))
          /\ \A q \in Process : OwnFits(passed[k][q], own[q][k], LimitOf(k))
          /\ LimitOf(k) \in Nat /\ Redis \in Counters /\ Process \subseteq Counters
      BY ThrottleTypes DEF ThrottleInv, CountersFit
    <2>2. CASE k = u
      <3>1. SharedFits(None, shared'[k], LimitOf(k))
        BY <1>6, <2>1, SharedNone
      <3>2. ASSUME NEW q \in Process PROVE OwnFits(None, own'[q][k], LimitOf(k))
        <4>1. own'[q][k] \in Slot
          BY <1>7
        <4>2. own[q][k].left <= Window + 1 /\ (own[q][k].count = 0 <=> own[q][k].left = 0)
          BY <2>1 DEF OwnFits
        <4>3. own'[q][k].left <= Window + 1 /\ (own'[q][k].count = 0 <=> own'[q][k].left = 0)
          BY <1>3, <1>7, <4>2, ThrottleAssumption
        <4> QED BY <2>1, <4>1, <4>3, OwnNone
      <3> QED BY <1>5, <2>1, <2>2, <3>1, <3>2
    <2>3. CASE k # u
      BY <1>5, <1>6, <1>7, <2>1, <2>3
    <2> QED BY <2>2, <2>3
  <1> QED BY <1>4, <1>9, <1>10 DEF ThrottleInv

LEMMA TimeThrottle == ThrottleInv /\ TimePasses => ThrottleInv'
  <1> SUFFICES ASSUME ThrottleInv, TimePasses PROVE ThrottleInv'
    OBVIOUS
  <1>1. /\ shared' = [k \in Counted |-> Older(shared[k])]
        /\ own' = [p \in Process |-> [k \in Counted |-> Older(own[p][k])]]
        /\ passed' = [k \in Counted |-> [via \in Counters |-> Aged(passed[k][via])]]
        /\ UNCHANGED <<login, refusals>>
    BY DEF TimePasses, Aged
  <1>2. ASSUME NEW slot \in Slot PROVE Older(slot) \in Slot
    <2>1. CASE slot.left <= 1
      BY <2>1 DEF Older, Empty, Slot
    <2>2. CASE ~(slot.left <= 1)
      <3>1. slot.left - 1 \in Nat
        BY <2>2 DEF Slot
      <3> QED BY <2>2, <3>1 DEF Older, Slot
    <2> QED BY <2>1, <2>2
  <1>3. ASSUME NEW n \in Numbers PROVE Aged(n) \in Numbers
    <2>1. \A t \in Age : t # 0 => t - 1 \in Age
      BY ThrottleAssumption DEF Age
    <2> QED BY <2>1 DEF Aged, Numbers
  <1>4. /\ shared' \in [Counted -> Slot]
        /\ own' \in [Process -> [Counted -> Slot]]
        /\ passed' \in [Counted -> [Counters -> Numbers]]
    BY <1>1, <1>2, <1>3, ThrottleTypes
  <1>5. ThrottleTypeOK' /\ LoginsAreWhole'
    BY <1>1, <1>4, ThrottleTypes DEF ThrottleInv, ThrottleTypeOK, LoginsAreWhole, Requests, Numbers
  <1>6. CountersFit'
    <2> SUFFICES ASSUME NEW k \in Counted
                 PROVE  /\ SharedFits(passed'[k][Redis], shared'[k], LimitOf(k))
                        /\ \A q \in Process : OwnFits(passed'[k][q], own'[q][k], LimitOf(k))
      BY DEF CountersFit
    <2>1. /\ SharedFits(passed[k][Redis], shared[k], LimitOf(k))
          /\ \A q \in Process : OwnFits(passed[k][q], own[q][k], LimitOf(k))
          /\ LimitOf(k) \in Nat /\ Redis \in Counters /\ Process \subseteq Counters
          /\ shared[k] \in Slot /\ passed[k] \in [Counters -> Numbers]
          /\ own \in [Process -> [Counted -> Slot]]
      BY ThrottleTypes DEF ThrottleInv, CountersFit
    <2>2. /\ passed'[k][Redis] = Aged(passed[k][Redis]) /\ shared'[k] = Older(shared[k])
          /\ \A q \in Process : passed'[k][q] = Aged(passed[k][q]) /\ own'[q][k] = Older(own[q][k])
      BY <1>1, <2>1
    <2>3. SharedFits(Aged(passed[k][Redis]), Older(shared[k]), LimitOf(k))
      BY <2>1, SharedAged
    <2>4. ASSUME NEW q \in Process PROVE OwnFits(Aged(passed[k][q]), Older(own[q][k]), LimitOf(k))
      BY <2>1, OwnAged
    <2> QED BY <2>2, <2>3, <2>4
  <1> QED BY <1>5, <1>6 DEF ThrottleInv

LEMMA NextThrottle == ThrottleInv /\ [ThrottleNext]_throttleVars => ThrottleInv'
  <1> SUFFICES ASSUME ThrottleInv, [ThrottleNext]_throttleVars PROVE ThrottleInv'
    OBVIOUS
  <1>1. ASSUME NEW l \in Login, NEW asking \in Requests, login' = [login EXCEPT ![l] = asking],
               asking.at # "idle" =>
                 asking.account \in Account /\ asking.address \in Address /\ asking.process \in Process
        PROVE  login' \in [Login -> Requests] /\ LoginsAreWhole'
    BY <1>1, ThrottleTypes DEF ThrottleInv, LoginsAreWhole
  <1>2. NoLogin \in Requests /\ NoLogin.at = "idle"
    BY DEF NoLogin, Requests
  <1>3. ASSUME NEW l \in Login, NEW u \in Account, NEW a \in Address, NEW p \in Process, Arrive(l, u, a, p)
        PROVE  ThrottleInv'
    <2> DEFINE asking == [at |-> "account", account |-> u, address |-> a, process |-> p]
    <2>1. /\ login' = [login EXCEPT ![l] = asking] /\ UNCHANGED <<shared, own, passed, refusals>>
          /\ asking \in Requests
          /\ asking.account \in Account /\ asking.address \in Address /\ asking.process \in Process
      BY <1>3 DEF Arrive, Requests
    <2> QED BY <1>1, <2>1, UncountedThrottle
  <1>4. ASSUME NEW l \in Login, WrongPassword(l) PROVE ThrottleInv'
    BY <1>1, <1>2, <1>4, UncountedThrottle DEF WrongPassword
  <1>5. ASSUME NEW l \in Login, RightPassword(l) PROVE ThrottleInv'
    <2> DEFINE asking == [login[l] EXCEPT !.at = "reset"]
    <2>1. login \in [Login -> Requests] /\ login[l] \in Requests
      BY ThrottleTypes
    <2>2. /\ login[l].at # "idle" /\ login' = [login EXCEPT ![l] = asking]
          /\ UNCHANGED <<shared, own, passed, refusals>>
      BY <1>5 DEF RightPassword
    <2>3. /\ asking \in Requests /\ asking.account = login[l].account
          /\ asking.address = login[l].address /\ asking.process = login[l].process
      BY <2>1 DEF Requests
    <2>4. asking.account \in Account /\ asking.address \in Address /\ asking.process \in Process
      BY <2>2, <2>3 DEF ThrottleInv, LoginsAreWhole
    <2> QED BY <1>1, <2>2, <2>3, <2>4, UncountedThrottle
  <1>6. CASE UNCHANGED throttleVars
    BY <1>6 DEF throttleVars, ThrottleInv, ThrottleTypeOK, LoginsAreWhole, CountersFit
  <1> QED BY <1>3, <1>4, <1>5, <1>6, TimeThrottle, AllowSharedThrottle, AllowLocalThrottle, ResetThrottle
          DEF ThrottleNext

\* The inductive invariant of the throttle: every counter, in Redis and in each
\* process, fits the attempts it let through (ratelimit.go, Allow, allowLocal,
\* Reset; analytics.go, Increment, Forget).
THEOREM ThrottleInvariant == ThrottleSpec => []ThrottleInv
  BY InitThrottle, NextThrottle, PTL DEF ThrottleSpec

\* For any limits, window, processes and concurrent logins, and any failing Redis
\* calls: Redis lets no more than the limit through in any window, a process by
\* itself no more than twice the limit (ratelimit.go, Allow and allowLocal).
THEOREM BoundedAttempts == ThrottleSpec => []AttemptsAreBounded
  <1>1. ThrottleInv => AttemptsAreBounded
    <2> SUFFICES ASSUME ThrottleInv, NEW k \in Counted
                 PROVE  /\ Recent(k, Redis) <= LimitOf(k)
                        /\ \A p \in Process : Recent(k, p) <= 2 * LimitOf(k)
      BY DEF AttemptsAreBounded
    <2>1. /\ SharedFits(passed[k][Redis], shared[k], LimitOf(k))
          /\ \A p \in Process : OwnFits(passed[k][p], own[p][k], LimitOf(k))
          /\ LimitOf(k) \in Nat /\ Redis \in Counters /\ Process \subseteq Counters
          /\ own \in [Process -> [Counted -> Slot]]
          /\ passed[k] \in [Counters -> Numbers]
      BY ThrottleTypes DEF ThrottleInv, CountersFit
    <2>2. Recent(k, Redis) <= LimitOf(k)
      BY <2>1 DEF Recent, SharedFits
    <2>3. ASSUME NEW p \in Process PROVE Recent(k, p) <= 2 * LimitOf(k)
      <3> DEFINE n == passed[k][p]
                 slot == own[p][k]
                 limit == LimitOf(k)
      <3>1. n \in Numbers /\ slot \in Slot /\ slot.count \in Nat /\ OwnFits(n, slot, limit) /\ limit \in Nat
        BY <2>1 DEF Slot
      <3> HIDE DEF n, slot, limit
      <3>2. IsFiniteSet(Attempts(n, Age)) /\ Cardinality(Attempts(n, Age)) \in Nat
        BY <3>1, FS_CardinalityType DEF OwnFits
      <3>3. CASE slot.count = 0
        <4>1. Cardinality(Attempts(n, Age)) <= limit
          BY <3>1, <3>3 DEF OwnFits
        <4>2. Cardinality(Attempts(n, Age)) <= 2 * limit
          BY <3>1, <3>2, <4>1
        <4> QED BY <4>2 DEF Recent, n, limit
      <3>4. CASE slot.count # 0
        <4>1. Young(slot) \subseteq Age /\ Age \ Young(slot) \subseteq Age
          BY DEF Young
        <4>2. /\ IsFiniteSet(Attempts(n, Young(slot))) /\ IsFiniteSet(Attempts(n, Age \ Young(slot)))
          BY <3>1, <3>2, <4>1, FewerAttempts
        <4>3. /\ Cardinality(Attempts(n, Young(slot))) \in Nat
              /\ Cardinality(Attempts(n, Age \ Young(slot))) \in Nat
          BY <4>2, FS_CardinalityType
        <4>4. /\ Cardinality(Attempts(n, Young(slot))) <= limit
              /\ Cardinality(Attempts(n, Age \ Young(slot))) <= limit
          BY <3>1, <3>4 DEF OwnFits
        <4>5. Cardinality(Attempts(n, Age))
                <= Cardinality(Attempts(n, Young(slot))) + Cardinality(Attempts(n, Age \ Young(slot)))
          BY <3>1, <3>2, <4>1, AllAttempts
        <4>6. Cardinality(Attempts(n, Age)) <= 2 * limit
          BY <3>1, <3>2, <4>3, <4>4, <4>5
        <4> QED BY <4>6 DEF Recent, n, limit
      <3> QED BY <3>3, <3>4
    <2> QED BY <2>2, <2>3
  <1> QED BY ThrottleInvariant, <1>1, PTL

\* Counters, histories and requests keep their types through every step of the
\* limiter (ratelimit.go; handlers_auth.go, login).
THEOREM ThrottleTypeCorrect == ThrottleSpec => []ThrottleTypeOK
  <1>1. ThrottleInv => ThrottleTypeOK
    BY DEF ThrottleInv
  <1> QED BY ThrottleInvariant, <1>1, PTL

============================================================================
