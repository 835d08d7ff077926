--------------------------- MODULE AppendOnlyLog ---------------------------
(***************************************************************************)
(* What a table with an AUTOINCREMENT key promises its readers: the table  *)
(* starts empty, a step adds one row and that row's id is larger than the  *)
(* id of every row before it, and no row is ever changed or removed.       *)
(*                                                                         *)
(* The metrics and the alerts table of DeviceService are shown to          *)
(* implement this specification: a cursor over such a table can tell the   *)
(* rows it has passed from those that were added behind it (AlertPaging).  *)
(***************************************************************************)
EXTENDS Integers

VARIABLE log    \* the rows of the table, records with an id

Init == log = {}

\* The row is looked for in log', so that TLC can evaluate the step.
Append ==
    \E row \in log' :
        /\ \A r \in log : r.id < row.id
        /\ log' = log \cup {row}

Spec == Init /\ [][Append]_log

=============================================================================
