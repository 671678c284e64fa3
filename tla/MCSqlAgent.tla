--------------------------- MODULE MCSqlAgent ---------------------------
(***************************************************************************)
(* SqlAgent with two modules that share the program's SQL-connections.     *)
(***************************************************************************)
EXTENDS SqlAgent

\* Module A has a static cursor.  Module B has a cursor (WITH HOLD) for its
\* prepared statement, with the name of A's.
MCCursors == {"c", "d"}
MCStatements == {"p"}
MCHome == [c |-> "A", d |-> "B", p |-> "B"]
MCCursorName == [c |-> "C", d |-> "C"]
MCHoldable == {"d"}
MCStatementOf == [c |-> None, d |-> "p"]
MCQuery == [c |-> "q", d |-> None]
=============================================================================
