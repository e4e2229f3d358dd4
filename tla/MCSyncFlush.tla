---------------------------- MODULE MCSyncFlush ----------------------------
EXTENDS SyncFlush

\* Absent, a few seconds, saturated, more digits than are read, a date, and
\* digits that are followed by something else.
MCRetryAfters == {<<>>, <<3>>, <<6>>, <<1, 2, 3>>, <<10, 3>>, <<2, 10>>}
============================================================================
