--------------------------- MODULE MCAlertPaging ---------------------------
(* Small instances of AlertPaging for TLC. *)
EXTENDS AlertPaging, TLC

\* Instants of three seconds, two of them in the same one; JSON cannot express
\* the last second.  The bounds of the timeframes lie inside and at the beginning
\* of the second with two instants, and one timeframe has its start after its end.
MCAlertTimes == {1, 2, 3, 6}
MCStartInputs == {NULL, ZeroTime, 3}
MCEndInputs == {NULL, ZeroTime, 2}

\* Rejected, the default of 1, the largest page, a size above the cap.
MCSizeInputs == {-1, 0, 2, 3}

\* Garbled, without a time, without an id.
MCOddTokens == {Garbled, PageToken(NULL, NULL), PageToken(4, NULL)}

=============================================================================
