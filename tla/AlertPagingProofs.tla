------------------------- MODULE AlertPagingProofs -------------------------
(***************************************************************************)
(* Proofs that a walk through the pages of GetDeviceAlerts is sound and    *)
(* complete for every page size, every table and every timeframe, while    *)
(* alerts are being stored.                                                *)
(*                                                                         *)
(* The argument: the cursor splits the rows that match in two.  Every row  *)
(* that was listed is at the cursor or before it, and every row that the   *)
(* walk has to list and has not listed yet is behind it (CursorInv).       *)
(***************************************************************************)
EXTENDS AlertPaging, FiniteSetTheorems, TLAPS

\* Ids are unique, and none is larger than the counter.
IdInv ==
    /\ \A a \in alerts : a.id <= lastAlertId
    /\ \A a, b \in alerts : a.id = b.id => a = b

\* token points at last, which is the end of what was listed so far and the
\* beginning of what is left of the snapshot.
Splits(last) ==
    /\ token = PageToken(FromUnix(last.ts), last.id)
    /\ \A a \in (delivered \cup page) \ {last} : ListedBefore(a, last)
    /\ \A a \in snapshot \ (delivered \cup page) : ListedBefore(last, a)

\* A walk that goes on has a token that points at such a row.
CursorInv ==
    /\ phase = "walking" <=> token # NULL
    /\ token # NULL => \E last \in page : Splits(last)

\* A walk has a timeframe that validation accepted.  What it was to list and
\* what it has listed is found by the query.
FoundInv ==
    phase # "idle" =>
        /\ frame.start # ZeroTime /\ frame.end # ZeroTime
        /\ snapshot \cup delivered \cup page \subseteq Found(frame)

\* The column holds the second of the instant that the metric carried.
SecondInv == \A a \in alerts : a.ts = Unix(a.by)

\* The inductive invariant.
Inv == /\ TypeOK /\ IdInv /\ SecondInv /\ CursorInv /\ FoundInv
       /\ PagesDescend /\ WalkComplete /\ PagesBounded

-----------------------------------------------------------------------------
(* Lemmas on one page *)

\* A second survives the way through a time.Time and back.
LEMMA UnixFromUnix == ASSUME NEW ts \in Int PROVE Unix(FromUnix(ts)) = ts
BY RepositoryAssumption DEF Unix, FromUnix

\* Seconds follow each other as the instants in them do.
LEMMA UnixMonotone ==
    ASSUME NEW t \in Int, NEW u \in Int
    PROVE  /\ Unix(t) \in Int
           /\ t <= u => Unix(t) <= Unix(u)
           /\ Unix(t) <= Unix(u) => t < u + TicksPerSecond
<1>1. ASSUME NEW x \in Int
      PROVE  /\ Unix(x) \in Int
             /\ TicksPerSecond * Unix(x) <= x
             /\ x < TicksPerSecond * Unix(x) + TicksPerSecond
    BY RepositoryAssumption DEF Unix
<1>2. ASSUME NEW m \in Int, NEW n \in Int, m <= n
      PROVE  TicksPerSecond * m <= TicksPerSecond * n
    BY <1>2, RepositoryAssumption
<1>3. ASSUME t <= u PROVE Unix(t) <= Unix(u)
  <2>1. SUFFICES ASSUME Unix(u) + 1 <= Unix(t) PROVE FALSE
      BY <1>1
  <2>2. TicksPerSecond * (Unix(u) + 1) <= TicksPerSecond * Unix(t)
      BY <2>1, <1>1, <1>2
  <2>3. TicksPerSecond * (Unix(u) + 1) = TicksPerSecond * Unix(u) + TicksPerSecond
      BY <1>1, RepositoryAssumption
  <2>. QED
      BY <1>1, <1>3, <2>2, <2>3, RepositoryAssumption
<1>4. ASSUME Unix(t) <= Unix(u) PROVE t < u + TicksPerSecond
  <2>1. TicksPerSecond * Unix(t) <= TicksPerSecond * Unix(u)
      BY <1>1, <1>2, <1>4
  <2>2. TicksPerSecond * Unix(t) \in Int /\ TicksPerSecond * Unix(u) \in Int
      BY <1>1, RepositoryAssumption
  <2>3. t < TicksPerSecond * Unix(t) + TicksPerSecond /\ TicksPerSecond * Unix(u) <= u
      BY <1>1
  <2>. QED
      BY <2>1, <2>2, <2>3, RepositoryAssumption
<1>. QED
    BY <1>1, <1>3, <1>4

\* A set of rows that ListedBefore orders totally.
Ordered(rows) ==
    /\ \A a \in rows : a.ts \in Int /\ a.id \in Int
    /\ \A a, b \in rows : a.id = b.id => a = b

\* ORDER BY timestamp DESC, id DESC is transitive.
LEMMA ListedTransitive ==
    ASSUME NEW rows, Ordered(rows), NEW a \in rows, NEW b \in rows, NEW c \in rows,
           ListedBefore(a, b), ListedBefore(b, c)
    PROVE  ListedBefore(a, c)
BY DEF Ordered, ListedBefore

\* Of two rows with different ids one is listed before the other.
LEMMA ListedTotal ==
    ASSUME NEW rows, Ordered(rows), NEW a \in rows, NEW b \in rows, a # b
    PROVE  ListedBefore(a, b) \/ ListedBefore(b, a)
BY DEF Ordered, ListedBefore

\* A page is all that was found, or it ends with a row that all the rest is
\* listed behind; and it is not longer than was asked for.
GoodPage(items, next, found, size) ==
    /\ items \subseteq found
    /\ Cardinality(items) <= size
    /\ \/ next = NULL /\ items = found
       \/ \E last \in items :
             /\ next = PageToken(FromUnix(last.ts), last.id)
             /\ \A a \in items \ {last} : ListedBefore(a, last)
             /\ \A a \in found \ items : ListedBefore(last, a)

\* What the repository returns is such a page.
LEMMA PageSplits ==
    ASSUME NEW rows, IsFiniteSet(rows), Ordered(rows),
           NEW p, NEW size \in Nat \ {0}, NEW items, NEW next,
           IsPage(items, next, rows, p, size)
    PROVE  GoodPage(items, next, Selected(rows, p), size)
<1>. DEFINE found == Selected(rows, p)
<1>. USE DEF GoodPage
<1>1. found \subseteq rows /\ IsFiniteSet(found) /\ Cardinality(found) \in Nat
  <2>1. found \subseteq rows
      BY DEF Selected
  <2>. QED
      BY <2>1, FS_Subset, FS_CardinalityType
<1>2. CASE /\ IsLimit(items, found, size + 1)
           /\ Cardinality(items) # size + 1
           /\ next = NULL
  <2>1. items \subseteq found /\ Cardinality(items) = Cardinality(found)
      BY <1>2 DEF IsLimit
  <2>2. items = found
      BY <2>1, <1>1, FS_Subset
  <2>3. Cardinality(found) <= size
      BY <1>1, <1>2, <2>1 DEF IsLimit
  <2>. QED
      BY <1>2, <2>1, <2>2, <2>3
<1>3. ASSUME NEW peeked \in found \ items, NEW last \in items,
             IsLimit(items \cup {peeked}, found, size + 1),
             Cardinality(items \cup {peeked}) = size + 1,
             IsLastRow(peeked, items \cup {peeked}),
             IsLastRow(last, items),
             next = PageToken(FromUnix(last.ts), last.id)
      PROVE  /\ items \subseteq found
             /\ Cardinality(items) <= size
             /\ \A a \in items \ {last} : ListedBefore(a, last)
             /\ \A a \in found \ items : ListedBefore(last, a)
  <2>1. items \subseteq found
      BY <1>3 DEF IsLimit
  <2>2. IsFiniteSet(items) /\ Cardinality(items) \in Nat
      BY <2>1, <1>1, FS_Subset, FS_CardinalityType
  <2>3. Cardinality(items \cup {peeked}) = Cardinality(items) + 1
      BY <2>2, FS_AddElement
  <2>4. Cardinality(items) <= size
      BY <1>3, <2>2, <2>3
  <2>5. \A a \in items \ {last} : ListedBefore(a, last)
      BY <1>3 DEF IsLastRow
  <2>6. ASSUME NEW a \in found \ items PROVE ListedBefore(last, a)
    <3>1. CASE a = peeked
        BY <3>1, <1>3 DEF IsLastRow
    <3>2. CASE a # peeked
      <4>1. ~ListedBefore(a, last)
          BY <3>2, <1>3 DEF IsLimit
      <4>2. a \in rows /\ last \in rows /\ a # last
          BY <2>1, <1>1
      <4>. QED
          BY <4>1, <4>2, ListedTotal
    <3>. QED BY <3>1, <3>2
  <2>. QED
      BY <2>1, <2>4, <2>5, <2>6
<1>4. \/ /\ IsLimit(items, found, size + 1)
         /\ Cardinality(items) # size + 1
         /\ next = NULL
      \/ \E last \in items :
            /\ next = PageToken(FromUnix(last.ts), last.id)
            /\ IsLastRow(last, items)
            /\ \E peeked \in found \ items :
                  /\ Cardinality(items \cup {peeked}) = size + 1
                  /\ IsLimit(items \cup {peeked}, found, size + 1)
                  /\ IsLastRow(peeked, items \cup {peeked})
    BY DEF IsPage
<1>. HIDE DEF found
<1>5. CASE \E last \in items :
            /\ next = PageToken(FromUnix(last.ts), last.id)
            /\ IsLastRow(last, items)
            /\ \E peeked \in found \ items :
                  /\ Cardinality(items \cup {peeked}) = size + 1
                  /\ IsLimit(items \cup {peeked}, found, size + 1)
                  /\ IsLastRow(peeked, items \cup {peeked})
    BY <1>5, <1>3 DEF found
<1>. QED
    BY <1>2, <1>4, <1>5 DEF found

-----------------------------------------------------------------------------
(* The steps of a walk *)

\* The sizes that reach the repository.
LEMMA PageSizeType ==
    ASSUME NEW q, q.size \in Int, validateGetDeviceAlertsReq(q)
    PROVE  PageSize(q) \in Nat \ {0} /\ PageSize(q) <= MaxPageSize
<1>1. ~(q.size < 0)
    BY DEF validateGetDeviceAlertsReq
<1>. QED
    BY <1>1, PagingAssumption DEF PageSize

\* The ids of the table are unique, so the listing order is total on it.
LEMMA AlertsOrdered == TypeOK /\ IdInv => Ordered(alerts)
BY DEF TypeOK, IdInv, Ordered, Row

\* A token that was made from a row is a token, and not NULL.
LEMMA TokenType ==
    ASSUME NEW ts \in Int, NEW id \in Nat
    PROVE  PageToken(FromUnix(ts), id) \in Token /\ PageToken(FromUnix(ts), id) # NULL
<1>1. FromUnix(ts) \in Int
    BY RepositoryAssumption DEF FromUnix
<1>2. PageToken(FromUnix(ts), id) \in DecodedToken
    BY <1>1 DEF PageToken, DecodedToken
<1>. QED
    BY <1>1, <1>2, PagingAssumption DEF PageToken, Token

\* The bounds of a timeframe that validation accepted.
LEMMA Bounds ==
    ASSUME NEW f \in Frames \cup {NoFrame}, f.start # ZeroTime, f.end # ZeroTime
    PROVE  f.start \in Int \cup {NULL} /\ f.end \in Int \cup {NULL}
<1>1. CASE f \in Frames
  <2>1. f.start \in StartInputs /\ f.end \in EndInputs
      BY <1>1 DEF Frames
  <2>. QED
      BY <2>1, PagingAssumption
<1>2. CASE f = NoFrame
    BY <1>2 DEF NoFrame
<1>. QED
    BY <1>1, <1>2

\* The query finds all that the client means.
LEMMA FindsMatching ==
    ASSUME TypeOK, SecondInv, NEW f \in Frames, f.start # ZeroTime, f.end # ZeroTime
    PROVE  Matching(f) \subseteq Found(f)
<1>. SUFFICES ASSUME NEW a \in Matching(f)
              PROVE  InWindow(a, UnixPtr(f.start), UnixPtr(f.end)) /\ a.device = f.device
                     /\ a \in alerts
    BY DEF Found, Selected, QueryParams, AfterCursor
<1>1. a \in alerts /\ a.device = f.device /\ a.ts = Unix(a.by) /\ a.by \in Int
    BY PagingAssumption DEF Matching, SecondInv, TypeOK, Row
<1>2. f.start \in Int \cup {NULL} /\ f.end \in Int \cup {NULL}
    BY Bounds
<1>3. f.start # NULL => Unix(f.start) <= a.ts /\ Unix(f.start) \in Int
    BY <1>1, <1>2, UnixMonotone DEF Matching
<1>4. f.end # NULL => a.ts <= Unix(f.end) /\ Unix(f.end) \in Int
    BY <1>1, <1>2, UnixMonotone DEF Matching
<1>5. a.ts \in Int
    BY <1>1, UnixMonotone
<1>. QED
    BY <1>1, <1>3, <1>4, <1>5 DEF InWindow, UnixPtr

\* What the query finds is less than a second outside of the timeframe.
LEMMA FindsNear ==
    ASSUME TypeOK, SecondInv, NEW f \in Frames \cup {NoFrame},
           f.start # ZeroTime, f.end # ZeroTime, NEW a \in Found(f)
    PROVE  /\ a.device = f.device
           /\ f.start # NULL => a.by > f.start - TicksPerSecond
           /\ f.end # NULL => a.by < f.end + TicksPerSecond
<1>1. a \in alerts /\ a.device = f.device /\ InWindow(a, UnixPtr(f.start), UnixPtr(f.end))
    BY DEF Found, Selected, QueryParams
<1>2. a.ts = Unix(a.by) /\ a.by \in Int /\ a.ts \in Int
    BY <1>1, PagingAssumption DEF SecondInv, TypeOK, Row
<1>3. f.start \in Int \cup {NULL} /\ f.end \in Int \cup {NULL}
    BY Bounds
<1>4. ASSUME f.start # NULL PROVE a.by > f.start - TicksPerSecond
  <2>1. Unix(f.start) \in Int /\ f.start \in Int
      BY <1>3, <1>4, UnixMonotone
  <2>2. Unix(f.start) <= Unix(a.by)
      BY <1>1, <1>2, <1>4, <2>1, RepositoryAssumption DEF InWindow, UnixPtr
  <2>3. f.start < a.by + TicksPerSecond
      BY <1>2, <2>1, <2>2, UnixMonotone
  <2>. QED
      BY <1>2, <2>1, <2>3, RepositoryAssumption
<1>5. ASSUME f.end # NULL PROVE a.by < f.end + TicksPerSecond
  <2>1. Unix(f.end) \in Int /\ f.end \in Int
      BY <1>3, <1>5, UnixMonotone
  <2>2. Unix(a.by) <= Unix(f.end)
      BY <1>1, <1>2, <1>5, <2>1, RepositoryAssumption DEF InWindow, UnixPtr
  <2>. QED
      BY <1>2, <2>1, <2>2, UnixMonotone
<1>. QED
    BY <1>1, <1>4, <1>5

\* The first page of a walk.
LEMMA FirstPageInv ==
    ASSUME Inv, NEW f \in Frames, NEW size \in SizeInputs, NEW codec \in Codecs,
           NEW items, NEW next,
           Served(Request(f, size, NULL, codec)),
           Answered(Request(f, size, NULL, codec), items, next),
           phase' = IF next = NULL THEN "done" ELSE "walking",
           frame' = f, token' = next, page' = items, delivered' = {},
           snapshot' = Matching(f), UNCHANGED table
    PROVE  Inv'
<1>. DEFINE q == Request(f, size, NULL, codec)
            found == Selected(alerts, Params(q))
<1>. USE DEF Inv, table
<1>1. validateGetDeviceAlertsReq(q) /\ q.size \in Int
    BY PagingAssumption DEF Served, Rejected, Request
<1>2. PageSize(q) \in Nat \ {0} /\ PageSize(q) <= MaxPageSize
    BY <1>1, PageSizeType
<1>3. found = Found(f)
    BY DEF Params, Request, Found
<1>4. IsPage(items, next, alerts, Params(q), PageSize(q)) /\ reply' = "ok"
    BY DEF Answered, IsPageOf
<1>. HIDE DEF q, found
<1>5. GoodPage(items, next, found, PageSize(q))
  <2>1. IsFiniteSet(alerts) /\ Ordered(alerts)
      BY AlertsOrdered DEF TypeOK
  <2>. HIDE DEF Inv
  <2>. QED
      BY <2>1, <1>2, <1>4, PageSplits DEF found
<1>. USE DEF GoodPage
<1>6. Found(f) \subseteq alerts /\ Found(f)' = Found(f)
    BY DEF Found, Selected
<1>14. f.start # ZeroTime /\ f.end # ZeroTime
    BY <1>1 DEF validateGetDeviceAlertsReq, Request, q
<1>15. Matching(f) \subseteq Found(f)
    BY <1>14, FindsMatching
<1>7. next \in Token \cup {NULL}
    BY <1>3, <1>5, <1>6, TokenType DEF TypeOK, Row
<1>8. TypeOK'
    BY <1>3, <1>4, <1>5, <1>6, <1>7, <1>15 DEF TypeOK
<1>9. next = NULL \/ (next # NULL /\ \E last \in items : Splits(last)')
    BY <1>3, <1>5, <1>6, <1>15, TokenType DEF Splits, TypeOK, Row
<1>10. CursorInv' /\ FoundInv'
    BY <1>3, <1>5, <1>6, <1>9, <1>14, <1>15 DEF CursorInv, FoundInv
<1>11. PagesDescend'
    BY DEF PagesDescend
<1>12. WalkComplete'
  <2>1. next = NULL => items = found
      BY <1>3, <1>5, <1>6, TokenType DEF TypeOK, Row
  <2>. QED
      BY <2>1, <1>3, <1>15 DEF WalkComplete
<1>13. PagesBounded'
  <2>1. Cardinality(items) \in Nat
      BY <1>3, <1>5, <1>6, FS_Subset, FS_CardinalityType DEF TypeOK
  <2>. QED
      BY <2>1, <1>2, <1>5, <1>9, PagingAssumption DEF PagesBounded
<1>. QED
    BY <1>8, <1>10, <1>11, <1>12, <1>13 DEF IdInv, SecondInv

\* A later page of a walk.
LEMMA NextPageInv ==
    ASSUME Inv, NextPage
    PROVE  Inv'
<1>. USE DEF Inv, table
<1>1. PICK size \in SizeInputs, codec \in Codecs :
         /\ Served(Request(frame, size, token, codec))
         /\ \E items, next :
               /\ Answered(Request(frame, size, token, codec), items, next)
               /\ phase' = IF next = NULL THEN "done" ELSE "walking"
               /\ token' = next
               /\ page' = items
               /\ delivered' = delivered \cup page
    BY DEF NextPage
<1>2. /\ phase = "walking"
      /\ UNCHANGED <<alerts, lastAlertId, frame, snapshot>>
    BY DEF NextPage
<1>. DEFINE q == Request(frame, size, token, codec)
            found == Selected(alerts, Params(q))
<1>3. PICK items, next :
         /\ IsPage(items, next, alerts, Params(q), PageSize(q))
         /\ reply' = "ok"
         /\ phase' = IF next = NULL THEN "done" ELSE "walking"
         /\ token' = next
         /\ page' = items
         /\ delivered' = delivered \cup page
    BY <1>1 DEF Answered, IsPageOf
<1>4. PICK last \in page : Splits(last)
    BY <1>2 DEF CursorInv
<1>5. last \in alerts /\ last.ts \in Int /\ last.id \in Nat /\ token # NULL
    BY <1>2 DEF TypeOK, Row, CursorInv
<1>6. validateGetDeviceAlertsReq(q) /\ q.size \in Int
    BY <1>1, PagingAssumption DEF Served, Rejected, Request
<1>7. PageSize(q) \in Nat \ {0} /\ PageSize(q) <= MaxPageSize
    BY <1>6, PageSizeType
<1>8. found = {a \in Found(frame) : ListedBefore(last, a)}
  <2>1. Unix(token.lastTime) = last.ts /\ token.lastId = last.id
      BY <1>4, <1>5, UnixFromUnix DEF Splits, PageToken
  <2>2. /\ Params(q).lastTs = last.ts /\ Params(q).lastId = last.id
        /\ Params(q).device = frame.device
        /\ Params(q).startTs = UnixPtr(frame.start)
        /\ Params(q).endTs = UnixPtr(frame.end)
      BY <2>1, <1>5 DEF Params, QueryParams, Request
  <2>3. \A a \in alerts : AfterCursor(a, last.ts, last.id) <=> ListedBefore(last, a)
    <3>1. NULL \notin Int
        BY RepositoryAssumption
    <3>. QED
        BY <3>1, <1>5 DEF AfterCursor, ListedBefore, TypeOK, Row
  <2>. QED
      BY <2>2, <2>3 DEF Selected, Found, QueryParams, AfterCursor
<1>. HIDE DEF q, found
<1>9. GoodPage(items, next, found, PageSize(q))
  <2>1. IsFiniteSet(alerts) /\ Ordered(alerts)
      BY AlertsOrdered DEF TypeOK
  <2>. HIDE DEF Inv
  <2>. QED
      BY <2>1, <1>3, <1>7, PageSplits DEF found
<1>. USE DEF GoodPage
<1>10. items \subseteq Found(frame) /\ Found(frame) \subseteq alerts
    BY <1>8, <1>9 DEF Found, Selected
<1>11. Found(frame)' = Found(frame)
    BY <1>2 DEF Found, Selected
<1>12. next \in Token \cup {NULL}
    BY <1>9, <1>10, TokenType DEF TypeOK, Row
<1>13. TypeOK'
    BY <1>2, <1>3, <1>10, <1>12 DEF TypeOK
<1>14. delivered \cup page \subseteq alerts /\ Ordered(alerts)
    BY AlertsOrdered DEF TypeOK
<1>15. ASSUME NEW a \in delivered \cup page, NEW b \in items
       PROVE  ListedBefore(a, b)
  <2>1. ListedBefore(last, b) /\ b \in alerts
      BY <1>8, <1>9, <1>10
  <2>2. a = last \/ ListedBefore(a, last)
      BY <1>4 DEF Splits
  <2>. QED
      BY <2>1, <2>2, <1>5, <1>14, ListedTransitive
<1>16. snapshot \ (delivered \cup page) \subseteq found
    BY <1>2, <1>4, <1>8 DEF Splits, FoundInv
<1>17. next = NULL \/ (next # NULL /\ \E row \in items : Splits(row)')
  <2>1. ASSUME NEW row \in items,
               next = PageToken(FromUnix(row.ts), row.id),
               \A a \in items \ {row} : ListedBefore(a, row),
               \A a \in found \ items : ListedBefore(row, a)
        PROVE  next # NULL /\ Splits(row)'
    <3>1. next # NULL
        BY <2>1, <1>10, TokenType DEF TypeOK, Row
    <3>2. \A a \in (delivered' \cup page') \ {row} : ListedBefore(a, row)
        BY <2>1, <1>3, <1>15
    <3>3. \A a \in snapshot' \ (delivered' \cup page') : ListedBefore(row, a)
        BY <2>1, <1>2, <1>3, <1>16
    <3>. QED
        BY <2>1, <3>1, <3>2, <3>3, <1>3 DEF Splits
  <2>. QED
      BY <2>1, <1>9
<1>18. CursorInv' /\ FoundInv'
    BY <1>2, <1>3, <1>10, <1>11, <1>17 DEF CursorInv, FoundInv
<1>19. PagesDescend'
    BY <1>3, <1>15 DEF PagesDescend
<1>20. WalkComplete'
  <2>1. next = NULL => items = found
      BY <1>9, <1>10, TokenType DEF TypeOK, Row
  <2>. QED
      BY <2>1, <1>2, <1>3, <1>16 DEF WalkComplete
<1>21. PagesBounded'
  <2>1. Cardinality(items) \in Nat
      BY <1>10, FS_Subset, FS_CardinalityType DEF TypeOK
  <2>. QED
      BY <2>1, <1>3, <1>7, <1>9, <1>17, PagingAssumption DEF PagesBounded
<1>. QED
    BY <1>2, <1>13, <1>18, <1>19, <1>20, <1>21 DEF IdInv, SecondInv

\* An alert is stored beside the walk.
LEMMA SaveDeviceAlertInv ==
    ASSUME Inv, SaveDeviceAlert
    PROVE  Inv'
<1>. USE DEF Inv, walk
<1>1. PICK d \in Devices, reason \in Reasons, t \in AlertTimes :
         alerts' = alerts \cup
            {AlertRow(lastAlertId + 1, d, [reason |-> reason, time |-> t], t)}
    BY DEF SaveDeviceAlert
<1>. DEFINE row == AlertRow(lastAlertId + 1, d, [reason |-> reason, time |-> t], t)
<1>2. /\ lastAlertId' = lastAlertId + 1
      /\ UNCHANGED <<phase, frame, token, page, delivered, snapshot, reply>>
    BY DEF SaveDeviceAlert
<1>3. Unix(t) \in Int
    BY PagingAssumption, RepositoryAssumption DEF Unix
<1>4. row \in Row /\ row.id = lastAlertId + 1 /\ row.ts = Unix(row.by)
    BY <1>3 DEF AlertRow, Row, TypeOK
<1>. HIDE DEF row
<1>5. alerts' = alerts \cup {row}
    BY <1>1 DEF row
<1>6. IsFiniteSet(alerts')
    BY <1>5, FS_AddElement DEF TypeOK
<1>7. TypeOK'
    BY <1>2, <1>4, <1>5, <1>6 DEF TypeOK
<1>8. IdInv'
    BY <1>2, <1>4, <1>5 DEF IdInv, TypeOK, Row
<1>9. Found(frame) \subseteq Found(frame)'
    BY <1>2, <1>5 DEF Found, Selected
<1>10. FoundInv' /\ SecondInv'
    BY <1>2, <1>4, <1>5, <1>9 DEF FoundInv, SecondInv
<1>11. CursorInv' /\ PagesDescend' /\ WalkComplete' /\ PagesBounded'
    BY <1>2 DEF CursorInv, Splits, PagesDescend, WalkComplete, PagesBounded
<1>. QED
    BY <1>7, <1>8, <1>10, <1>11

\* A request that gets no page, or a page that the client does not keep.
LEMMA UnansweredInv ==
    ASSUME Inv, UNCHANGED <<table, walk>>,
           reply' \in {reply, "ok", "badRequest", "internal", "panic"}
    PROVE  Inv'
BY DEF Inv, table, walk, TypeOK, IdInv, SecondInv, CursorInv, Splits, FoundInv, Found,
       PagesDescend, WalkComplete, PagesBounded

\* No walk has begun on the empty table.
LEMMA InitInv == Init => Inv
<1>. SUFFICES ASSUME Init PROVE Inv
    OBVIOUS
<1>1. TypeOK
    BY FS_EmptySet DEF Init, TypeOK
<1>2. PagesBounded
    BY FS_EmptySet, PagingAssumption DEF Init, PagesBounded
<1>. QED
    BY <1>1, <1>2
    DEF Init, Inv, IdInv, SecondInv, CursorInv, FoundInv, PagesDescend, WalkComplete

\* Every request of the client and every alert that is stored keeps Inv.
LEMMA NextInv == Inv /\ [Next]_vars => Inv'
<1>. SUFFICES ASSUME Inv, [Next]_vars PROVE Inv'
    OBVIOUS
<1>1. CASE FirstPage
  <2>1. PICK f \in Frames, size \in SizeInputs, codec \in Codecs :
           \/ Fails(Request(f, size, NULL, codec))
           \/ FailsToEncode(Request(f, size, NULL, codec))
           \/ /\ Served(Request(f, size, NULL, codec))
              /\ \E items, next :
                    /\ Answered(Request(f, size, NULL, codec), items, next)
                    /\ phase' = IF next = NULL THEN "done" ELSE "walking"
                    /\ frame' = f
                    /\ token' = next
                    /\ page' = items
                    /\ delivered' = {}
                    /\ snapshot' = Matching(f)
      BY <1>1 DEF FirstPage
  <2>2. UNCHANGED table
      BY <1>1 DEF FirstPage
  <2>. DEFINE q == Request(f, size, NULL, codec)
  <2>3. CASE Fails(q) \/ FailsToEncode(q)
      BY <2>2, <2>3, UnansweredInv DEF Fails, FailsToEncode
  <2>. HIDE DEF q
  <2>4. CASE ~(Fails(q) \/ FailsToEncode(q))
      BY <2>1, <2>2, <2>4, FirstPageInv DEF q
  <2>. QED BY <2>3, <2>4
<1>2. CASE NextPage
    BY <1>2, NextPageInv
<1>3. CASE NextPageFails
    BY <1>3, UnansweredInv DEF NextPageFails, Fails, FailsToEncode
<1>4. CASE OddToken
    BY <1>4, UnansweredInv DEF OddToken, Fails, Answered
<1>5. CASE SaveDeviceAlert
    BY <1>5, SaveDeviceAlertInv
<1>6. CASE UNCHANGED vars
    BY <1>6, UnansweredInv DEF vars
<1>. QED
    BY <1>1, <1>2, <1>3, <1>4, <1>5, <1>6 DEF Next

-----------------------------------------------------------------------------
(* Theorems *)

\* The inductive invariant holds in every state.
THEOREM Invariance == Spec => []Inv
BY InitInv, NextInv, PTL DEF Spec

\* The table, the client's token and its pages keep their types.
THEOREM TypeCorrect == Spec => []TypeOK
<1>1. Inv => TypeOK
    BY DEF Inv
<1>. QED
    BY <1>1, Invariance, PTL

\* Pages descend: no alert is listed twice or out of order in a walk.
THEOREM WalkDescends == Spec => []PagesDescend
<1>1. Inv => PagesDescend
    BY DEF Inv
<1>. QED
    BY <1>1, Invariance, PTL

\* A walk that ended has listed every alert of the timeframe, by the instant
\* its metric carried, that was stored when it began.
THEOREM WalkIsComplete == Spec => []WalkComplete
<1>1. Inv => WalkComplete
    BY DEF Inv
<1>. QED
    BY <1>1, Invariance, PTL

\* A walk lists alerts of its device only, and none that is a second or more
\* outside of the timeframe the client asked for.
THEOREM WalkIsSound == Spec => []WalkWithinASecond
<1>1. Inv => WalkWithinASecond
    BY FindsNear DEF Inv, TypeOK, FoundInv, WalkWithinASecond
<1>. QED
    BY <1>1, Invariance, PTL

\* Pages are bounded, and a page with a successor is not empty.
THEOREM PagesAreBounded == Spec => []PagesBounded
<1>1. Inv => PagesBounded
    BY DEF Inv
<1>. QED
    BY <1>1, Invariance, PTL

=============================================================================
