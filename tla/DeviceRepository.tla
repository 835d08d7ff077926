-------------------------- MODULE DeviceRepository --------------------------
(***************************************************************************)
(* The persistence layer: sqlite/repository.go, the queries of             *)
(* sqlite/queries/device.sql (compiled into sqlite/sqlc/device.sql.go) and *)
(* the schema of sqlite/migrations/0001_tables.up.sql.                     *)
(*                                                                         *)
(* The module has no variables: it defines the rows that the statements    *)
(* write and what the queries return for a given table.  The modules that  *)
(* extend it own the tables.  sqlite/conn.go caps the pool at a single     *)
(* connection, every repository method runs one statement on it, and no    *)
(* method opens a transaction: a statement is one atomic step.             *)
(*                                                                         *)
(* Instants are integers, TicksPerSecond of them in a second.  Columns     *)
(* hold whole seconds.                                                     *)
(***************************************************************************)
EXTENDS Integers, FiniteSets

CONSTANTS
    NULL,            \* a nil pointer, an SQL NULL, an absent row
    TicksPerSecond   \* resolution of time.Time relative to the columns

ASSUME RepositoryAssumption ==
    /\ TicksPerSecond \in Nat \ {0}
    /\ NULL \notin Int

-----------------------------------------------------------------------------
(* Rows *)

\* time.Time.Unix(): the whole second an instant falls in.
Unix(t) == t \div TicksPerSecond

\* A nil *time.Time stays a nil *int64.
UnixPtr(t) == IF t = NULL THEN NULL ELSE Unix(t)

\* Mutants: the second of a row is its key.
MetricRowKeyedByTime(id, device, metric, by) ==
    [id |-> Unix(metric.time), device |-> device, temp |-> metric.temp,
     battery |-> metric.battery, ts |-> Unix(metric.time), by |-> by]

AlertRowKeyedByTime(id, device, alert, by) ==
    [id |-> Unix(alert.time), device |-> device, reason |-> alert.reason,
     ts |-> Unix(alert.time), by |-> by]

\* The rows of SaveDeviceMetric and SaveDeviceAlert.  The field by is not a
\* column: it records who wrote the row, for the properties.  The text of an
\* alert's description is left out.
MetricRow(id, device, metric, by) ==
    [id |-> id, device |-> device, temp |-> metric.temp,
     battery |-> metric.battery, ts |-> Unix(metric.time), by |-> by]

AlertRow(id, device, alert, by) ==
    [id |-> id, device |-> device, reason |-> alert.reason,
     ts |-> Unix(alert.time), by |-> by]

-----------------------------------------------------------------------------
(* The query behind GetDeviceAlerts and GetDeviceMetrics *)

\* ORDER BY timestamp DESC, id DESC: row a is listed before row b.
ListedBefore(a, b) ==
    \/ a.ts > b.ts
    \/ a.ts = b.ts /\ a.id > b.id

\* The time window of the WHERE clause; a NULL bound is open.
InWindow(row, startTs, endTs) ==
    /\ startTs = NULL \/ row.ts >= startTs
    /\ endTs = NULL \/ row.ts <= endTs

\* Mutants: the last row of a page is selected again; the cursor is the
\* second alone.
AfterCursorInclusive(row, lastTs, lastId) ==
    \/ lastTs = NULL
    \/ row.ts < lastTs
    \/ row.ts = lastTs /\ (lastId = NULL \/ row.id <= lastId)

AfterCursorByTime(row, lastTs, lastId) ==
    lastTs = NULL \/ row.ts < lastTs

\* The composite cursor of the WHERE clause.
AfterCursor(row, lastTs, lastId) ==
    \/ lastTs = NULL
    \/ row.ts < lastTs
    \/ row.ts = lastTs /\ (lastId = NULL \/ row.id < lastId)

\* The rows of table that the WHERE clause selects.
Selected(table, p) ==
    {row \in table : /\ row.device = p.device
                     /\ InWindow(row, p.startTs, p.endTs)
                     /\ AfterCursor(row, p.lastTs, p.lastId)}

\* T is what LIMIT n keeps of S: the first n rows in listing order, or all.
IsLimit(T, S, n) ==
    /\ T \subseteq S
    /\ \A a \in T, b \in S : ListedBefore(b, a) => b \in T
    /\ Cardinality(T) = IF Cardinality(S) <= n THEN Cardinality(S) ELSE n

\* row is the last one of rows in listing order.
IsLastRow(row, rows) ==
    /\ row \in rows
    /\ \A other \in rows \ {row} : ListedBefore(other, row)

\* Mutant: LastID is left out of the token.
PageTokenWithoutId(lastTime, lastId) == [lastTime |-> lastTime, lastId |-> NULL]

\* A RepositoryPageToken; either field may be a nil pointer.
PageToken(lastTime, lastId) == [lastTime |-> lastTime, lastId |-> lastId]

\* Mutant: the end of the timeframe is not passed on.
QueryParamsOpenEnded(device, start, end, token) ==
    [device  |-> device,
     startTs |-> UnixPtr(start),
     endTs   |-> NULL,
     lastTs  |-> IF token = NULL THEN NULL ELSE Unix(token.lastTime),
     lastId  |-> IF token = NULL THEN NULL ELSE token.lastId]

\* The parameters a repository method passes to the query.  A token is
\* expected to hold a time: LastTime.Unix() panics on a nil pointer, see
\* AlertPaging!TokenPanics.
QueryParams(device, start, end, token) ==
    [device  |-> device,
     startTs |-> UnixPtr(start),
     endTs   |-> UnixPtr(end),
     lastTs  |-> IF token = NULL THEN NULL ELSE Unix(token.lastTime),
     lastId  |-> IF token = NULL THEN NULL ELSE token.lastId]

\* time.Unix(ts, 0): the instant a column stands for.
FromUnix(ts) == ts * TicksPerSecond

\* items and next are what GetDeviceAlerts returns for a page of `size` rows.
\* One row more than the page is read; when it is there it is dropped from the
\* page, and the last row that is left becomes the cursor of the next page.
IsPage(items, next, table, p, size) ==
    LET found == Selected(table, p)
    IN  \/ /\ next = NULL
           /\ Cardinality(items) # size + 1
           /\ IsLimit(items, found, size + 1)
        \/ \E last \in items :
              /\ next = PageToken(FromUnix(last.ts), last.id)
              /\ IsLastRow(last, items)
              /\ \E peeked \in found \ items :
                    LET rows == items \cup {peeked}
                    IN  /\ Cardinality(rows) = size + 1
                        /\ IsLimit(rows, found, size + 1)
                        /\ IsLastRow(peeked, rows)

=============================================================================
