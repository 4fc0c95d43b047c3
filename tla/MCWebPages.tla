----------------------------- MODULE MCWebPages -----------------------------
EXTENDS WebPages

\* The clocks change on the first and on the third day, to winter and to summer
\* time, and stay as they are on the second and on the last.
MCDayLengths == <<25, 24, 23, 24>>
=============================================================================
