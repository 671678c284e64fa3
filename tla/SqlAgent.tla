---------------------------- MODULE SqlAgent ----------------------------
(***************************************************************************)
(* The run-time system of compiled SQL-client modules (the C code that a   *)
(* module is compiled to) and the part of the CLI (libvsql) it relies on.  *)
(*                                                                         *)
(* All modules of a program share one SQL-agent: its SQL-connections, the  *)
(* current one, and the first diagnostics area.  A procedure of a module   *)
(* first gets the current SQL-connection, and makes the schema of its      *)
(* module the default one, which may need a statement of its own (and a    *)
(* COMMIT after it).  The agent remembers in `active' whether there is a   *)
(* transaction, while the CLI knows: the two are kept apart here.          *)
(*                                                                         *)
(* A handler is an operator that maps a state to the set of states it can  *)
(* end in.  Its sqlstate says how: a handler stops at the first call that  *)
(* leaves anything but Success there (see Then).                           *)
(*                                                                         *)
(* The definitions named Bug... are mutations of the one that follows; no  *)
(* specification uses them.                                                *)
(***************************************************************************)
EXTENDS Naturals, FiniteSets

CONSTANTS
  Modules,      \* the modules that are linked into the program
  Default,      \* the default SQL-connection, which has no name
  Names,        \* names of the other SQL-connections
  Cursors,      \* the cursors of all modules
  Statements,   \* the names of prepared statements of all modules
  Home,         \* the module of a cursor or of a statement name
  CursorName,   \* the name of a cursor, only unique in its module
  Holdable,     \* the cursors that are WITH HOLD
  StatementOf,  \* the statement of a dynamic cursor, or None
  Query,        \* the query of a static cursor
  Queries, Changes, \* texts, by what they do
  None, Orphan

Conns == {Default} \cup Names
Texts == Queries \cup Changes

ASSUME SqlAgentAssumption ==
  /\ Default \notin Names
  /\ None # Orphan /\ {None, Orphan} \cap (Conns \cup Modules \cup Texts) = {}
  /\ {"fresh", "closed", "leaked"} \cap ({None} \cup Texts) = {}
  /\ Home \in [Cursors \cup Statements -> Modules]
  /\ StatementOf \in [Cursors -> Statements \cup {None}]
  /\ \A k \in Cursors : IF StatementOf[k] = None THEN Query[k] \in Queries
                                               ELSE Home[StatementOf[k]] = Home[k]
  /\ \A k, l \in Cursors :
       Home[k] = Home[l] /\ CursorName[k] = CursorName[l] => k = l

VARIABLES
  agent,    \* struct vsql_m_agent and its list of connections
  cli,      \* libvsql: transactions, CLI statements, its current connection
  da,         \* the first diagnostics area: what the call did to the transaction
  published,  \* whether changes became permanent in the last call
  running     \* FALSE after exit

vars == <<agent, cli, da, published, running>>

Success == "00000"
Clear == [committed |-> FALSE, rolledBack |-> FALSE]

\* A prepared statement: its text, and whether the cursor of its CLI statement
\* is open.
NoStatement == [text |-> None, open |-> FALSE]

\* A cursor has no CLI statement (None), one that was never executed
\* ("fresh"), or whose cursor is closed ("closed") or open (the query it was
\* opened with).  A "leaked" one is known to the CLI only.
IsOpen(x) == x \in Queries

Init ==
  /\ agent = [current |-> None, connected |-> FALSE, conns |-> {},
              active |-> [c \in Conns |-> FALSE],
              module |-> [c \in Conns |-> None]]
  /\ cli = [current |-> None, tran |-> [c \in Conns |-> "none"], stuck |-> {},
            cursor |-> [c \in Conns |-> [k \in Cursors |-> None]],
            prepared |-> [c \in Conns |-> [p \in Statements |-> NoStatement]]]
  /\ da = Clear
  /\ published = FALSE
  /\ running = TRUE

\* What a handler starts from: vsql_m_begin has emptied the diagnostics area.
Begin == [agent |-> agent, cli |-> cli, da |-> Clear, published |-> FALSE,
          sqlstate |-> Success]

Become(states) ==
  \E s \in states : /\ agent' = s.agent
                    /\ cli' = s.cli
                    /\ da' = s.da
                    /\ published' = s.published

Finish(states) == running /\ Become(states) /\ UNCHANGED running

Raise(code, s) == [s EXCEPT !.sqlstate = code]
Failed(s) == s.sqlstate # Success
Then(states, F(_)) ==
  {s \in states : Failed(s)} \cup UNION {F(s) : s \in {t \in states : ~Failed(t)}}
\* A call whose return code isn't looked at.
Ignoring(states, s) == {[t EXCEPT !.sqlstate = s.sqlstate] : t \in states}

----------------------------------------------------------------------------
(* The CLI, as the modules use it. *)

InTransaction(s, c) == s.cli.tran[c] # "none"

\* The current SQL-connection of the CLI is another one, in a transaction.
Refused(s, c) ==
  /\ s.cli.current \notin {None, c}
  /\ s.cli.current = Orphan \/ InTransaction(s, s.cli.current)

\* Every routine on a statement of c makes c the current connection first.
Invoke(c, s) ==
  IF Refused(s, c) THEN {Raise("0A001", s)} ELSE {[s EXCEPT !.cli.current = c]}

Started(c, s) ==
  IF InTransaction(s, c) THEN s ELSE [s EXCEPT !.cli.tran[c] = "idle"]

Ended(c, s) ==
  [s EXCEPT !.cli.tran[c] = "none", !.cli.stuck = @ \ {c}]

\* SQLExecute of a text: it starts a transaction, and then succeeds, fails (the
\* transaction goes on) or fails with class 40 (the transaction is over).
Run(c, text, s) ==
  LET t == Started(c, s) IN
  {IF text \in Queries THEN t ELSE [t EXCEPT !.cli.tran[c] = "changed"],
   Raise("22000", t),
   Raise("40001", Ended(c, t))}
  \cup (IF InTransaction(s, c) THEN {} ELSE {Raise("58030", s)})

\* SQLEndTran closes the cursors, whether there is a transaction or not.  An
\* I/O error leaves the transaction as it is ("stuck"), and a deferred
\* constraint that isn't satisfied rolls it back.
EndTran(c, commit, s) ==
  LET t == [s EXCEPT !.cli.cursor[c] = [k \in Cursors |->
              IF IsOpen(@[k]) /\ ~(commit /\ k \in Holdable) THEN "closed" ELSE @[k]]]
      changed == s.cli.tran[c] = "changed"
  IN
  IF ~InTransaction(s, c) THEN {t}
  ELSE {Raise("58030", [t EXCEPT !.cli.stuck = @ \cup {c}]),
        [Ended(c, t) EXCEPT !.published = @ \/ (commit /\ changed)]}
       \cup (IF commit /\ changed THEN {Raise("40002", Ended(c, t))} ELSE {})

BugKeepsFailed(c, k, s) == s

\* SQLFreeHandle of the CLI statement of a cursor, and cursors[i] = 0.
FreeCursor(c, k, s) ==
  IF Refused(s, c) THEN [s EXCEPT !.cli.cursor[c][k] = "leaked"]
  ELSE [s EXCEPT !.cli.cursor[c][k] = None]

\* SQLPrepare of a text by a CLI statement that has no open cursor.
CliPrepare(c, s) == Then(Invoke(c, s), LAMBDA t : {Raise("42000", t), t})

----------------------------------------------------------------------------
(* SQL-connections. *)

SetModule(m, c, s) == [s EXCEPT !.agent.module[c] = m]

\* vsql_m_schema: when another module used c last, SET SCHEMA is executed, and
\* committed unless the agent knows of a transaction.
Schema(m, c, s) ==
  IF s.agent.module[c] = m THEN {s}
  ELSE Then(Invoke(c, s), LAMBDA t :
         LET u == Started(c, t) IN
         {Raise("3F000", u), Raise("58030", t)}
         \cup {SetModule(m, c, v) :
                 v \in IF u.agent.active[c] THEN {u}
                       ELSE Ignoring(EndTran(c, TRUE, u), u)})

BugKeepsCurrent(c, s) ==
  [s EXCEPT !.agent.conns = @ \ {c}, !.agent.active[c] = FALSE, !.agent.module[c] = None]

\* The connection leaves the list of the agent.
Unlink(c, s) ==
  [s EXCEPT !.agent.conns = @ \ {c}, !.agent.active[c] = FALSE, !.agent.module[c] = None,
            !.agent.current = IF @ = c THEN None ELSE @]

\* The CLI statements are freed (a routine that makes c the current connection),
\* and SQLDisconnect fails if there is a transaction: the CLI keeps it then.
CliDisconnect(c, s) ==
  LET used == \/ \E k \in Cursors : s.cli.cursor[c][k] # None
              \/ \E p \in Statements : s.cli.prepared[c][p] # NoStatement
      kept == InTransaction(s, c)
      mine == s.cli.current = c \/ (used /\ ~Refused(s, c))
  IN [s EXCEPT
        !.cli.cursor[c] = [k \in Cursors |-> None],
        !.cli.prepared[c] = [p \in Statements |-> NoStatement],
        !.cli.tran[c] = "none",
        !.cli.stuck = (@ \ {c}) \cup (IF kept /\ c \in @ THEN {Orphan} ELSE {}),
        !.cli.current = IF kept THEN Orphan ELSE IF mine THEN None ELSE @]

BugClosesActive(c, s) == {CliDisconnect(c, Unlink(c, s))}

\* vsql_m_close: everything of c is freed, after a ROLLBACK.
Close(c, s) ==
  {CliDisconnect(c, t) : t \in Ignoring(EndTran(c, FALSE, Unlink(c, s)), s)}

BugLeavesOpened(c, states) == states

CloseFailed(c, states) ==
  UNION {IF Failed(s) THEN Close(c, s) ELSE {s} : s \in states}

\* vsql_m_open: SQLConnect, and the schema of the module.
Open(m, c, s) ==
  LET t == [s EXCEPT !.agent.conns = @ \cup {c}] IN
  CloseFailed(c,
    IF Refused(t, None) THEN {Raise("0A001", t)}
    ELSE {Raise("08001", t)} \cup Schema(m, c, [t EXCEPT !.cli.current = c]))

MakeCurrent(c, s) == [s EXCEPT !.agent.current = c]

\* vsql_m_connection: the connection a statement uses, which is the current one
\* or the implicit default one.
Connection(m, s) ==
  IF s.agent.current # None THEN Schema(m, s.agent.current, s)
  ELSE IF s.agent.connected THEN {Raise("08003", s)}
  ELSE Then(Open(m, Default, s), LAMBDA t : {MakeCurrent(Default, t)})

BugSwitchesActive(s) == {[s EXCEPT !.agent.connected = TRUE]}

\* vsql_m_switch.
Switch(s) ==
  LET t == [s EXCEPT !.agent.connected = TRUE] IN
  IF t.agent.current # None /\ t.agent.active[t.agent.current]
  THEN {Raise("0A001", t)} ELSE {t}

\* vsql_m_connect.  An invalid user or connection name has no connection.
Connect(m, c) ==
  Finish(Then(Switch(Begin), LAMBDA s :
    IF c \in s.agent.conns THEN {Raise("08002", s)}
    ELSE Then(Open(m, c, s), LAMBDA t : {MakeCurrent(c, t)})))

ConnectToInvalidName ==
  Finish(Then(Switch(Begin), LAMBDA s : {Raise("2E000", s), Raise("28000", s)}))

\* vsql_m_set_connection.
SetConnection(c) ==
  Finish(Then(Switch(Begin), LAMBDA s :
    IF c \in s.agent.conns THEN {MakeCurrent(c, s)} ELSE {Raise("08003", s)}))

BugForgetsOrphan(s) ==
  {[s EXCEPT !.agent.conns = {}, !.agent.current = None,
             !.agent.active = [c \in Conns |-> FALSE],
             !.agent.module = [c \in Conns |-> None],
             !.cli.tran = [c \in Conns |-> "none"], !.cli.stuck = {},
             !.cli.cursor = [c \in Conns |-> [k \in Cursors |-> None]],
             !.cli.prepared = [c \in Conns |-> [p \in Statements |-> NoStatement]],
             !.cli.current = None]}

\* Closing every connection of the list, in any order (see ClosedInTurn): those
\* whose ROLLBACK fails leave the CLI with a connection that nobody knows.
CloseAll(s) ==
  LET gone == s.agent.conns
      Cleared(f, x) == [c \in Conns |-> IF c \in gone THEN x ELSE f[c]]
  IN {[s EXCEPT
         !.agent = [current |-> None, connected |-> s.agent.connected, conns |-> {},
                    active |-> Cleared(s.agent.active, FALSE),
                    module |-> Cleared(s.agent.module, None)],
         !.cli =
           [current |-> IF kept # {} THEN Orphan
                        ELSE IF s.cli.current \in gone THEN None ELSE s.cli.current,
            tran |-> Cleared(s.cli.tran, "none"),
            stuck |-> (s.cli.stuck \ gone) \cup (IF kept = {} THEN {} ELSE {Orphan}),
            cursor |-> Cleared(s.cli.cursor, [k \in Cursors |-> None]),
            prepared |-> Cleared(s.cli.prepared, [p \in Statements |-> NoStatement])]] :
       kept \in SUBSET {c \in gone : InTransaction(s, c)}}

\* vsql_m_disconnect of one connection, and of ALL.
Disconnect(c) ==
  LET s == [Begin EXCEPT !.agent.connected = TRUE] IN
  Finish(IF c \notin s.agent.conns THEN {Raise("08003", s)}
         ELSE IF s.agent.active[c] THEN {Raise("25001", s)}
         ELSE Close(c, s))

DisconnectAll ==
  LET s == [Begin EXCEPT !.agent.connected = TRUE] IN
  Finish(IF \E c \in s.agent.conns : s.agent.active[c] THEN {Raise("25001", s)}
         ELSE CloseAll(s))

----------------------------------------------------------------------------
(* Statements.  m is the module whose procedure is called. *)

WithConnection(m, F(_)) == Finish(Then(Connection(m, Begin), F))

\* The agent takes the statement as one that initiates a transaction.
Activate(c, s) == [s EXCEPT !.agent.active[c] = TRUE]

BugRunsUnnoticed(c, text, s) ==
  Then(CliPrepare(c, s), LAMBDA t : Run(c, text, t))

\* vsql_m_exec, on a CLI statement that is freed after it.
Exec(c, text, s) ==
  Then(CliPrepare(c, s), LAMBDA t : Run(c, text, Activate(c, t)))

\* vsql_m_run and vsql_m_execute.
Execute(m, text) ==
  WithConnection(m, LAMBDA s : Exec(s.agent.current, text, s))

\* vsql_m_select: no row, more than one row, and a row.
Select(m, text) ==
  WithConnection(m, LAMBDA s :
    Then(Exec(s.agent.current, text, s), LAMBDA t :
      {t, Raise("02000", t), Raise("21000", t)}))

\* vsql_m_execute_immediate: a query is refused after it's prepared.
ExecuteImmediate(m, text) ==
  WithConnection(m, LAMBDA s :
    IF text \notin Queries THEN Exec(s.agent.current, text, s)
    ELSE Then(CliPrepare(s.agent.current, s), LAMBDA t : {Raise("42000", t)}))

\* vsql_m_start.
Start(m) ==
  WithConnection(m, LAMBDA s :
    LET c == s.agent.current IN
    IF InTransaction(s, c) THEN {Raise("25001", s)}
    ELSE Then(Invoke(c, s), LAMBDA t :
           {Raise("58030", t), Activate(c, Started(c, t))}))

BugReportsAnyRollback(m, commit) ==
  WithConnection(m, LAMBDA s :
    {[t EXCEPT !.da = [committed |-> /\ s.agent.active[s.agent.current]
                                     /\ commit /\ ~Failed(t),
                       rolledBack |-> ~commit \/ t.sqlstate = "40002"],
               !.agent.active[s.agent.current] = FALSE]
     : t \in EndTran(s.agent.current, commit, s)})

\* vsql_m_end.
End(m, commit) ==
  WithConnection(m, LAMBDA s :
    LET c == s.agent.current
        ends(t) == s.agent.active[c] /\ (~commit \/ t.sqlstate = "40002")
    IN {[t EXCEPT !.da = [committed |-> s.agent.active[c] /\ commit /\ ~Failed(t),
                          rolledBack |-> ends(t)],
                  !.agent.active[c] = FALSE]
        : t \in EndTran(c, commit, s)})

Commit(m) == End(m, TRUE)
Rollback(m) == End(m, FALSE)

----------------------------------------------------------------------------
(* Cursors. *)

SetCursor(c, k, x, s) == [s EXCEPT !.cli.cursor[c][k] = x]

\* The agent has a CLI statement for the cursor.
HasCursor(c, k, s) == s.cli.cursor[c][k] \notin {None, "leaked"}

\* vsql_m_cursor for FETCH and CLOSE: the cursor was opened before.
WithCursor(k, F(_)) ==
  WithConnection(Home[k], LAMBDA s :
    IF HasCursor(s.agent.current, k, s) THEN F(s) ELSE {Raise("24000", s)})

\* vsql_m_cursor for OPEN: a CLI statement is allocated and named, if the cursor
\* doesn't have one.
OpeningCursor(c, k, s) ==
  IF HasCursor(c, k, s) THEN {s}
  ELSE Then(Invoke(c, s), LAMBDA t :
    IF \E l \in Cursors : /\ CursorName[l] = CursorName[k]
                          /\ t.cli.cursor[c][l] # None
    THEN {Raise("34000", t)} ELSE {SetCursor(c, k, "fresh", t)})

BugOpensUnnoticed(c, k, text, s) ==
  IF ~Refused(s, c) /\ IsOpen(s.cli.cursor[c][k]) THEN {Raise("24000", s)}
  ELSE {IF Failed(t) THEN FreeCursor(c, k, t) ELSE SetCursor(c, k, text, t) :
          t \in Then(CliPrepare(c, s), LAMBDA t : Run(c, text, t))}

\* The CLI statement of the cursor prepares the text and executes it.  If the
\* cursor isn't open after it, the CLI statement is freed.
OpenWith(c, k, text, s) ==
  LET opened(t) == Then(Run(c, text, Activate(c, t)), LAMBDA u : {SetCursor(c, k, text, u)})
      prepared(t) == SetCursor(c, k, "fresh", t)
  IN
  IF ~Refused(s, c) /\ IsOpen(s.cli.cursor[c][k]) THEN {Raise("24000", s)}
  ELSE {IF Failed(t) THEN FreeCursor(c, k, t) ELSE t :
          t \in Then(CliPrepare(c, s), LAMBDA t : opened(prepared(t)))}

\* vsql_m_open_cursor.
OpenCursor(k) ==
  /\ StatementOf[k] = None
  /\ WithConnection(Home[k], LAMBDA s :
       Then(OpeningCursor(s.agent.current, k, s), LAMBDA t :
         OpenWith(t.agent.current, k, Query[k], t)))

\* vsql_m_fetch and vsql_m_fetch_dynamic.
Fetch(k) ==
  WithCursor(k, LAMBDA s :
    LET c == s.agent.current IN
    Then(Invoke(c, s), LAMBDA t :
      CASE t.cli.cursor[c][k] = "fresh" -> {Raise("HY010", t)}
        [] IsOpen(t.cli.cursor[c][k]) -> {t, Raise("02000", t), Raise("07002", t)}
        [] OTHER -> {Raise("24000", t)}))

\* vsql_m_close_cursor.
CloseCursor(k) ==
  WithCursor(k, LAMBDA s :
    LET c == s.agent.current IN
    Then(Invoke(c, s), LAMBDA t :
      CASE t.cli.cursor[c][k] = "fresh" -> {Raise("HY010", t)}
        [] IsOpen(t.cli.cursor[c][k]) -> {SetCursor(c, k, "closed", t)}
        [] OTHER -> {Raise("24000", t)}))

----------------------------------------------------------------------------
(* Prepared statements. *)

\* vsql_m_find_prepared.
IsPrepared(c, p, s) == s.cli.prepared[c][p] # NoStatement

\* vsql_m_prepared_statement.
WithStatement(p, F(_)) ==
  WithConnection(Home[p], LAMBDA s :
    IF IsPrepared(s.agent.current, p, s) THEN F(s) ELSE {Raise("26000", s)})

BugDeallocatesOpen(c, p, s) == {[s EXCEPT !.cli.prepared[c][p] = NoStatement]}

\* vsql_m_deallocate: refused if a dynamic cursor of the statement is open,
\* which only the CLI can say (a routine that it refuses says nothing).
Deallocate(c, p, s) ==
  LET holds == \E k \in Cursors : StatementOf[k] = p /\ IsOpen(s.cli.cursor[c][k]) IN
  IF ~Refused(s, c) /\ holds THEN {Raise("24000", s)}
  ELSE {[s EXCEPT !.cli.prepared[c][p] = NoStatement]}

\* vsql_m_prepare.
Prepare(p, text) ==
  WithConnection(Home[p], LAMBDA s :
    LET c == s.agent.current IN
    Then(IF IsPrepared(c, p, s) THEN Deallocate(c, p, s) ELSE {s}, LAMBDA t :
      Then(Invoke(c, t), LAMBDA u :
        Then(CliPrepare(c, Activate(c, u)), LAMBDA v :
          {[v EXCEPT !.cli.prepared[c][p] = [text |-> text, open |-> FALSE]]}))))

\* vsql_m_deallocate_prepare.
DeallocatePrepare(p) ==
  WithConnection(Home[p], LAMBDA s :
    LET c == s.agent.current
        t == Activate(c, s)
    IN IF IsPrepared(c, p, t) THEN Deallocate(c, p, t) ELSE {Raise("26000", t)})

\* vsql_m_execute_prepared.  A query must return a single row, and its cursor is
\* closed whether it does or not.
ExecutePrepared(p) ==
  WithStatement(p, LAMBDA s :
    LET c == s.agent.current
        x == s.cli.prepared[c][p]
        query == x.text \in Queries /\ ~Refused(s, c)
        setOpen(t, open) == [t EXCEPT !.cli.prepared[c][p].open = open]
        executed(t) == IF x.open THEN {Raise("24000", t)} ELSE Run(c, x.text, t)
        fetched(t) == {t, Raise("02000", t), Raise("21000", t)}
        singleRow(t) == {setOpen(u, FALSE) : u \in fetched(setOpen(t, TRUE))}
    IN {Raise(IF query THEN "07003" ELSE "07002", s)}
       \cup Then(Then(Invoke(c, Activate(c, s)), executed),
                 LAMBDA t : IF query THEN singleRow(t) ELSE {t}))

\* vsql_m_open_dynamic: the cursor prepares the text of the statement again.
OpenDynamic(k) ==
  /\ StatementOf[k] # None
  /\ WithStatement(StatementOf[k], LAMBDA s :
       LET c == s.agent.current
           x == s.cli.prepared[c][StatementOf[k]]
       IN IF Refused(s, c) \/ x.text \notin Queries THEN {Raise("07005", s)}
          ELSE Then(OpeningCursor(c, k, s), LAMBDA t : OpenWith(c, k, x.text, t)))

----------------------------------------------------------------------------
\* vsql_m_exit: after the last call everything is closed, and the process ends.
Exit == running /\ Become(CloseAll(Begin)) /\ running' = FALSE

\* The program is started again.
Restart ==
  /\ ~running
  /\ agent' = [agent EXCEPT !.connected = FALSE]
  /\ cli' = [cli EXCEPT !.current = None, !.stuck = {}]
  /\ da' = Clear
  /\ published' = FALSE
  /\ running' = TRUE

Next ==
  \/ \E m \in Modules, c \in Conns : Connect(m, c)
  \/ ConnectToInvalidName
  \/ \E c \in Conns : SetConnection(c)
  \/ \E c \in Conns : Disconnect(c)
  \/ DisconnectAll
  \/ \E m \in Modules, text \in Changes : Execute(m, text)
  \/ \E m \in Modules, text \in Queries : Select(m, text)
  \/ \E m \in Modules, text \in Texts : ExecuteImmediate(m, text)
  \/ \E m \in Modules : Start(m)
  \/ \E m \in Modules : Commit(m)
  \/ \E m \in Modules : Rollback(m)
  \/ \E k \in Cursors : OpenCursor(k)
  \/ \E k \in Cursors : OpenDynamic(k)
  \/ \E k \in Cursors : Fetch(k)
  \/ \E k \in Cursors : CloseCursor(k)
  \/ \E p \in Statements, text \in Texts : Prepare(p, text)
  \/ \E p \in Statements : DeallocatePrepare(p)
  \/ \E p \in Statements : ExecutePrepared(p)
  \/ Exit
  \/ Restart

Spec == Init /\ [][Next]_vars

----------------------------------------------------------------------------
(* Properties. *)

\* The current SQL-connection is one of the list (it's a pointer into it), and
\* everything else is of its type.
TypeOK ==
  /\ agent.current \in agent.conns \cup {None}
  /\ agent \in [current : Conns \cup {None}, connected : BOOLEAN,
               conns : SUBSET Conns, active : [Conns -> BOOLEAN],
               module : [Conns -> Modules \cup {None}]]
  /\ cli \in [current : Conns \cup {None, Orphan},
             tran : [Conns -> {"none", "idle", "changed"}],
             stuck : SUBSET (Conns \cup {Orphan}),
             cursor : [Conns -> [Cursors -> {None, "fresh", "closed", "leaked"} \cup Queries]],
             prepared : [Conns -> [Statements -> [text : Texts \cup {None}, open : BOOLEAN]]]]
  /\ da \in [committed : BOOLEAN, rolledBack : BOOLEAN]
  /\ {published, running} \subseteq BOOLEAN

\* Only the current SQL-connection is taken to be in a transaction, so that
\* TRANSACTION_ACTIVE, CONNECT and SET CONNECTION may look at that one only
\* (vsql_m_switch).
ActiveIsCurrent == \A c \in Conns : agent.active[c] => c = agent.current

\* Between two calls, no cursor has a CLI statement that never was executed (a
\* FETCH would be a function sequence error, see vsql_m_open_cursor), and the
\* CLI statement of a prepared statement has no open cursor (an EXECUTE would be
\* an invalid cursor state).
AtRest ==
  \A c \in Conns :
    /\ \A k \in Cursors : cli.cursor[c][k] # "fresh"
    /\ \A p \in Statements : ~cli.prepared[c][p].open

\* The current connection of the CLI is one of the agent's list.  The CLI is left
\* with one that the agent has forgotten, which would refuse all others for good,
\* only if its ROLLBACK failed (vsql_m_close).
NoOrphan ==
  /\ cli.current \in agent.conns \cup {None, Orphan}
  /\ cli.current = Orphan => Orphan \in cli.stuck

\* Changes become permanent in a COMMIT.  The COMMIT that a procedure of another
\* module does for its SET SCHEMA (vsql_m_schema) makes none permanent, unless
\* an earlier COMMIT or ROLLBACK failed and the transaction outlived it.
PublishedOnRequest ==
  [][published' => \/ \E m \in Modules : Commit(m)
                   \/ agent.current \in cli.stuck]_vars

\* The agent takes c to be in a transaction that the CLI doesn't have: an error of
\* class 40 ended it, it couldn't be started, or nothing was executed in it yet.
Unfounded(c) == agent.active[c] /\ ~InTransaction(Begin, c)

\* The transaction information agrees with what became of the changes
\* (vsql_m_end).  What is reported as rolled back isn't permanent.  What is
\* reported as committed is, if there was anything, but also a transaction that
\* is Unfounded is reported as committed.  What was made permanent is reported as
\* committed, and a COMMIT or ROLLBACK that ends a transaction with changes
\* reports it as one of the two; an earlier COMMIT or ROLLBACK that failed is
\* excepted.  Statements that lose the transaction report nothing (see
\* LossIsReported).
ReportedEnds ==
  [][LET c == agent.current IN
     /\ da'.rolledBack => ~published'
     /\ da'.committed => published' \/ cli.tran[c] = "idle" \/ Unfounded(c)
     /\ published' => da'.committed \/ c \in cli.stuck
     /\ /\ c \in agent.conns \ cli.stuck
        /\ cli.tran[c] = "changed" /\ cli'.tran[c] = "none"
        /\ \E m \in Modules : Commit(m) \/ Rollback(m)
        => da'.committed \/ da'.rolledBack]_vars

\* TRANSACTIONS_ROLLED_BACK is "1 if a transaction was rolled back, otherwise 0":
\* also for a statement whose error of class 40 rolls it back (vsql_m_exec, which
\* leaves it at 0).
LossIsReported ==
  [][\A c \in (agent.conns \cap agent'.conns) \ cli.stuck :
       cli.tran[c] = "changed" /\ cli'.tran[c] = "none" =>
         da'.committed \/ da'.rolledBack]_vars

Blocked(c) == Refused(Begin, c)

\* An open cursor stays open until it's closed by CLOSE, COMMIT, ROLLBACK or the
\* end of its connection: no call of another module closes it on the side, and
\* no OPEN of an open cursor does.  The CLI refusing the connection is excepted.
CursorsStayOpen ==
  [][\A c \in Conns, k \in Cursors :
       IsOpen(cli.cursor[c][k]) /\ ~IsOpen(cli.cursor'[c][k]) =>
         \/ Blocked(c)
         \/ c \notin agent'.conns
         \/ CloseCursor(k)
         \/ \E m \in Modules : Commit(m) \/ Rollback(m)]_vars

\* A prepared statement isn't replaced or deallocated while a dynamic cursor
\* that is declared for it is open (vsql_m_deallocate).  The CLI refusing the
\* connection is excepted: then it can't tell whether a cursor is open.
OpenCursorsKeepTheirStatement ==
  [][\A c \in Conns, k \in Cursors :
       /\ StatementOf[k] # None
       /\ IsOpen(cli.cursor[c][k]) /\ IsOpen(cli.cursor'[c][k])
       /\ cli.prepared[c][StatementOf[k]] \notin
            {NoStatement, cli.prepared'[c][StatementOf[k]]}
       => Blocked(c)]_vars

\* A connection that a call makes is the current one after it, or it's gone (a
\* CONNECT that fails part way leaves none behind, see vsql_m_open), and the call
\* changes no connection but the one that was current.
ConnectionsAreSeparate ==
  [][/\ agent'.conns \ agent.conns \subseteq {agent'.current}
     /\ \A c \in (agent.conns \cap agent'.conns) \ {agent.current} :
          <<agent.active[c], agent.module[c], cli.tran[c], cli.cursor[c], cli.prepared[c]>> =
          <<agent'.active[c], agent'.module[c], cli'.tran[c], cli'.cursor[c], cli'.prepared[c]>>]_vars

\* The orders that the list of connections may have.
Orders ==
  {order \in [1 .. Cardinality(agent.conns) -> agent.conns] :
     \A i, j \in DOMAIN order : order[i] = order[j] => i = j}

\* Closing the connections of an order one after the other, as the loops of
\* vsql_m_exit and of DISCONNECT ALL do with the list of connections.
InTurn(order) ==
  LET closed[i \in 0 .. Cardinality(agent.conns)] ==
        IF i = 0 THEN {Begin}
        ELSE UNION {Close(order[i], s) : s \in closed[i - 1]}
  IN closed[Cardinality(agent.conns)]

\* The end of a program and DISCONNECT ALL leave the same states whatever the
\* order of the list is, those of CloseAll: a connection whose ROLLBACK fails,
\* and that the CLI keeps as its current one, keeps no other from being closed.
ClosedInTurn == \A order \in Orders : CloseAll(Begin) = InTurn(order)
=============================================================================
