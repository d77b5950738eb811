----------------------------- MODULE MCConsole ------------------------------
\* The instance of Console that TLC checks.
EXTENDS Console

\* The first session, until it ends or expires, is followed with everything the
\* pages can do; what comes after it only while the tables are empty and the
\* requests under way carry at most two tokens.
FirstSession == issued = {token} /\ expired = {}

EmptyTables ==
  /\ saved = {}
  /\ shown.pages = 0
  /\ table = NoTable

MCBound ==
  FirstSession \/ (EmptyTables /\ Cardinality(carried \cup late) <= 2)
=============================================================================
