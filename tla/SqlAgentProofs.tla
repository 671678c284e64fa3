---------------------------- MODULE SqlAgentProofs ----------------------------
(***************************************************************************)
(* What the agent remembers and reports agrees with the CLI, as far as the *)
(* properties of SqlAgent say, for every set of modules, SQL-connections,  *)
(* cursors and prepared statements.                                        *)
(*                                                                         *)
(* A handler works on one connection (Works): everything of the others     *)
(* stays as it is. What it leaves of its own is Fine.                      *)
(***************************************************************************)
EXTENDS SqlAgent, FiniteSetTheorems, TLAPS

-----------------------------------------------------------------------------
(* The states that handlers go through. *)

CursorState == {None, "fresh", "closed", "leaked"} \cup Queries

Agent == [current : Conns \cup {None}, connected : BOOLEAN, conns : SUBSET Conns,
          active : [Conns -> BOOLEAN], module : [Conns -> Modules \cup {None}]]

Prepared == [text : Texts \cup {None}, open : BOOLEAN]

Cli == [current : Conns \cup {None, Orphan},
        tran : [Conns -> {"none", "idle", "changed"}],
        stuck : SUBSET (Conns \cup {Orphan}),
        cursor : [Conns -> [Cursors -> CursorState]],
        prepared : [Conns -> [Statements -> Prepared]]]

(* The SQLSTATEs that a handler raises. *)
Codes == {Success, "02000", "07002", "07003", "07005", "08001", "08002", "08003", "0A001",
          "21000", "22000", "24000", "25001", "26000", "28000", "2E000", "34000", "3F000",
          "40001", "40002", "42000", "58030", "HY010"}

State == [agent : Agent, cli : Cli, da : [committed : BOOLEAN, rolledBack : BOOLEAN],
          published : BOOLEAN, sqlstate : Codes]

(* The values that stand for nothing are none of the program's.            *)
LEMMA NoneIs == None \notin Queries /\ None \notin Conns /\ Orphan \notin Conns /\ None # Orphan
BY SqlAgentAssumption DEF Texts

(* Nothing of a connection but the ones of C is changed, and the current   *)
(* connection of the CLI is the same one or one of C.                      *)
Same(d, s, u) ==
  /\ u.agent.active[d] = s.agent.active[d]
  /\ u.agent.module[d] = s.agent.module[d]
  /\ u.cli.tran[d] = s.cli.tran[d]
  /\ u.cli.cursor[d] = s.cli.cursor[d]
  /\ u.cli.prepared[d] = s.cli.prepared[d]
  /\ d \in u.cli.stuck <=> d \in s.cli.stuck

Works(c, s, u) ==
  /\ u \in State
  /\ u.agent.conns = s.agent.conns /\ u.agent.current = s.agent.current
  /\ u.agent.connected = s.agent.connected
  /\ u.cli.current \in {s.cli.current, c}
  /\ \A d \in Conns \ {c} : Same(d, s, u)
  /\ Orphan \in s.cli.stuck <=> Orphan \in u.cli.stuck

(* No work at all.                                                         *)
LEMMA WorksSelf ==
  ASSUME NEW c, NEW s \in State
  PROVE  Works(c, s, s)
BY DEF Works, Same

(* One piece of work after another on the same connection.                 *)
LEMMA WorksOn ==
  ASSUME NEW c, NEW s, NEW t, NEW u, Works(c, s, t), Works(c, t, u)
  PROVE  Works(c, s, u)
BY DEF Works, Same

(* Only the SQLSTATE differs. *)
Reports(s, u) ==
  /\ u \in State
  /\ u.agent = s.agent /\ u.cli = s.cli /\ u.da = s.da /\ u.published = s.published

(* Raising an SQLSTATE changes nothing else.                               *)
LEMMA RaiseReports ==
  ASSUME NEW s \in State, NEW code \in Codes
  PROVE  Reports(s, Raise(code, s)) /\ Raise(code, s).sqlstate = code
BY DEF Reports, Raise, State

(* Raising an SQLSTATE leaves the connections as they are.                 *)
LEMMA ReportsWorks ==
  ASSUME NEW c, NEW s \in State, NEW u, Reports(s, u)
  PROVE  Works(c, s, u) /\ Same(c, s, u)
BY DEF Reports, Works, Same

(* What a routine of the CLI that works on c does to the connection.       *)
Invokes(c, s, u) ==
  /\ Works(c, s, u) /\ Same(c, s, u)
  /\ u.published = s.published /\ u.da = s.da
  /\ Failed(u) => Refused(s, c)
  /\ ~ Failed(u) => ~ Refused(s, c) /\ u.cli.current = c

(* The implicit SET CONNECTION of the CLI changes its current connection,  *)
(* or is refused.                                                          *)
LEMMA InvokeIs ==
  ASSUME NEW c \in Conns, NEW s \in State, ~ Failed(s), NEW u \in Invoke(c, s)
  PROVE  Invokes(c, s, u)
<1>1. CASE Refused(s, c)
  <2>1. u = Raise("0A001", s)
    BY <1>1 DEF Invoke
  <2>2. Reports(s, u) /\ u.sqlstate = "0A001"
    BY <2>1, RaiseReports DEF Codes
  <2>3. Failed(u)
    BY <2>2 DEF Failed, Success
  <2> QED BY <1>1, <2>2, <2>3, ReportsWorks DEF Invokes, Reports
<1>2. CASE ~ Refused(s, c)
  <2>1. u = [s EXCEPT !.cli.current = c]
    BY <1>2 DEF Invoke
  <2>2. u \in State
    BY <2>1 DEF State, Cli
  <2>3. u.agent = s.agent /\ u.published = s.published /\ u.da = s.da /\ u.sqlstate = s.sqlstate
    BY <2>1 DEF State, Cli
  <2>4. /\ u.cli.current = c /\ u.cli.tran = s.cli.tran /\ u.cli.cursor = s.cli.cursor
        /\ u.cli.prepared = s.cli.prepared /\ u.cli.stuck = s.cli.stuck
    BY <2>1 DEF State, Cli
  <2> QED BY <1>2, <2>2, <2>3, <2>4 DEF Invokes, Works, Same, Failed
<1> QED BY <1>1, <1>2

(* SQLPrepare.                                                             *)
Prepares(c, s, u) ==
  /\ Works(c, s, u) /\ Same(c, s, u)
  /\ u.published = s.published /\ u.da = s.da
  /\ ~ Failed(u) => ~ Refused(s, c) /\ u.cli.current = c

(* Preparing a text changes no cursor, statement or transaction.           *)
LEMMA PrepareIs ==
  ASSUME NEW c \in Conns, NEW s \in State, ~ Failed(s), NEW u \in CliPrepare(c, s)
  PROVE  Prepares(c, s, u)
<1>1. PICK t \in Invoke(c, s) : \/ Failed(t) /\ u = t
                                \/ ~ Failed(t) /\ (u = t \/ u = Raise("42000", t))
  BY DEF CliPrepare, Then
<1>2. Invokes(c, s, t) /\ t \in State
  BY InvokeIs DEF Invokes, Works
<1>3. CASE u = t
  BY <1>2, <1>3 DEF Invokes, Prepares
<1>4. CASE u = Raise("42000", t)
  <2>1. Reports(t, u) /\ u.sqlstate = "42000"
    BY <1>2, <1>4, RaiseReports DEF Codes
  <2>2. Failed(u)
    BY <2>1 DEF Failed, Success
  <2> QED BY <1>2, <2>1, <2>2 DEF Reports, Invokes, Prepares, Works, Same
<1> QED BY <1>1, <1>3, <1>4

(* What the agent and the CLI know of the cursors and statements of c.     *)
SameStatements(c, s, u) ==
  /\ u.cli.cursor[c] = s.cli.cursor[c] /\ u.cli.prepared[c] = s.cli.prepared[c]

(* Starting a transaction, executing a statement in it, and taking it for  *)
(* started.                                                                *)
Runs(c, s, u) ==
  /\ Works(c, s, u) /\ SameStatements(c, s, u)
  /\ u.agent.module[c] = s.agent.module[c]
  /\ u.published = s.published /\ u.da = s.da /\ u.cli.current = s.cli.current

(* A transaction is started unless there is one.                           *)
LEMMA StartedIs ==
  ASSUME NEW c \in Conns, NEW s \in State
  PROVE  /\ Runs(c, s, Started(c, s)) /\ Started(c, s).agent = s.agent
         /\ Started(c, s).sqlstate = s.sqlstate
         /\ Started(c, s).cli.stuck = s.cli.stuck
         /\ Started(c, s).cli.tran[c] \in {s.cli.tran[c], "idle"}
         /\ Started(c, s).cli.tran[c] # "none"
         /\ s.cli.tran[c] = "changed" => Started(c, s).cli.tran[c] = "changed"
<1> DEFINE u == Started(c, s)
<1>1. CASE InTransaction(s, c)
  BY <1>1, WorksSelf DEF Started, InTransaction, Runs, SameStatements
<1>2. CASE ~ InTransaction(s, c)
  <2>1. u = [s EXCEPT !.cli.tran[c] = "idle"]
    BY <1>2 DEF Started
  <2> HIDE DEF u
  <2>2. /\ u \in State /\ u.agent = s.agent /\ u.published = s.published /\ u.da = s.da
        /\ u.sqlstate = s.sqlstate
    BY <2>1 DEF State, Cli
  <2>3. /\ u.cli.current = s.cli.current /\ u.cli.cursor = s.cli.cursor
        /\ u.cli.prepared = s.cli.prepared /\ u.cli.stuck = s.cli.stuck
        /\ u.cli.tran = [s.cli.tran EXCEPT ![c] = "idle"]
    BY <2>1 DEF State, Cli
  <2>4. u.cli.tran[c] = "idle" /\ \A d \in Conns \ {c} : u.cli.tran[d] = s.cli.tran[d]
    BY <2>3 DEF State, Cli
  <2>5. s.cli.tran[c] = "none"
    BY <1>2 DEF InTransaction
  <2> QED BY <2>2, <2>3, <2>4, <2>5 DEF u, Runs, Works, Same, SameStatements
<1> QED BY <1>1, <1>2

(* The CLI's transaction of c is over.                                     *)
LEMMA EndedIs ==
  ASSUME NEW c \in Conns, NEW s \in State
  PROVE  /\ Runs(c, s, Ended(c, s)) /\ Ended(c, s).agent = s.agent
         /\ Ended(c, s).cli.tran[c] = "none" /\ Ended(c, s).sqlstate = s.sqlstate
<1> DEFINE u == Ended(c, s)
<1>1. u = [s EXCEPT !.cli.tran[c] = "none", !.cli.stuck = @ \ {c}]
  BY DEF Ended
<1> HIDE DEF u
<1>2. /\ u \in State /\ u.agent = s.agent /\ u.published = s.published /\ u.da = s.da
      /\ u.sqlstate = s.sqlstate
  BY <1>1 DEF State, Cli
<1>3. /\ u.cli.current = s.cli.current /\ u.cli.cursor = s.cli.cursor
      /\ u.cli.prepared = s.cli.prepared /\ u.cli.stuck = s.cli.stuck \ {c}
      /\ u.cli.tran = [s.cli.tran EXCEPT ![c] = "none"]
  BY <1>1 DEF State, Cli
<1>4. u.cli.tran[c] = "none" /\ \A d \in Conns \ {c} : u.cli.tran[d] = s.cli.tran[d]
  BY <1>3 DEF State, Cli
<1>5. c # Orphan
  BY SqlAgentAssumption
<1> QED BY <1>2, <1>3, <1>4, <1>5 DEF u, Runs, Works, Same, SameStatements

(* The agent takes a transaction of c for started (vsql_m_exec).           *)
LEMMA ActivateIs ==
  ASSUME NEW c \in Conns, NEW s \in State
  PROVE  /\ Runs(c, s, Activate(c, s)) /\ Activate(c, s).cli = s.cli
         /\ Activate(c, s).agent.active[c] /\ Activate(c, s).sqlstate = s.sqlstate
<1> DEFINE u == Activate(c, s)
<1>1. u = [s EXCEPT !.agent.active[c] = TRUE]
  BY DEF Activate
<1> HIDE DEF u
<1>2. /\ u \in State /\ u.cli = s.cli /\ u.published = s.published /\ u.da = s.da
      /\ u.sqlstate = s.sqlstate
  BY <1>1 DEF State, Agent
<1>3. /\ u.agent.current = s.agent.current /\ u.agent.conns = s.agent.conns
      /\ u.agent.connected = s.agent.connected
      /\ u.agent.module = s.agent.module
      /\ u.agent.active = [s.agent.active EXCEPT ![c] = TRUE]
  BY <1>1 DEF State, Agent
<1>4. u.agent.active[c] /\ \A d \in Conns \ {c} : u.agent.active[d] = s.agent.active[d]
  BY <1>3 DEF State, Agent
<1> QED BY <1>2, <1>3, <1>4 DEF u, Runs, Works, Same, SameStatements

(* One execution after another.                                            *)
LEMMA RunsOn ==
  ASSUME NEW c, NEW s, NEW t, NEW u, Runs(c, s, t), Runs(c, t, u)
  PROVE  Runs(c, s, u)
BY WorksOn DEF Runs, SameStatements

(* Raising an SQLSTATE after an execution.                                 *)
LEMMA ReportsRuns ==
  ASSUME NEW c, NEW s \in State, NEW u, Reports(s, u)
  PROVE  Runs(c, s, u)
BY ReportsWorks DEF Runs, SameStatements, Reports

(* SQLExecute. *)
LEMMA RunIs ==
  ASSUME NEW c \in Conns, NEW text, NEW s \in State, NEW u \in Run(c, text, s)
  PROVE  Runs(c, s, u) /\ u.agent = s.agent
<1> DEFINE t == Started(c, s)
<1>1. Runs(c, s, t) /\ t \in State /\ t.agent = s.agent
  BY StartedIs DEF Runs, Works
<1>2. \/ u = t
      \/ u = [t EXCEPT !.cli.tran[c] = "changed"]
      \/ u = Raise("22000", t)
      \/ u = Raise("40001", Ended(c, t))
      \/ u = Raise("58030", s)
  BY DEF Run
<1> HIDE DEF t
<1>3. CASE u = [t EXCEPT !.cli.tran[c] = "changed"]
  <2>1. /\ u \in State /\ u.agent = t.agent /\ u.published = t.published /\ u.da = t.da
    BY <1>1, <1>3 DEF State, Cli
  <2>2. /\ u.cli.current = t.cli.current /\ u.cli.cursor = t.cli.cursor
        /\ u.cli.prepared = t.cli.prepared /\ u.cli.stuck = t.cli.stuck
        /\ u.cli.tran = [t.cli.tran EXCEPT ![c] = "changed"]
    BY <1>1, <1>3 DEF State, Cli
  <2>3. \A d \in Conns \ {c} : u.cli.tran[d] = t.cli.tran[d]
    BY <1>1, <2>2 DEF State, Cli
  <2>4. Runs(c, t, u)
    BY <2>1, <2>2, <2>3 DEF Runs, Works, Same, SameStatements
  <2> QED BY <1>1, <2>1, <2>4, RunsOn
<1>4. CASE u = Raise("22000", t)
  <2>1. Reports(t, u)
    BY <1>1, <1>4, RaiseReports DEF Codes
  <2> QED BY <1>1, <2>1, ReportsRuns, RunsOn DEF Reports
<1>5. CASE u = Raise("40001", Ended(c, t))
  <2> DEFINE e == Ended(c, t)
  <2>1. Runs(c, t, e) /\ e \in State /\ e.agent = t.agent
    BY <1>1, EndedIs DEF Runs, Works
  <2> HIDE DEF e
  <2>2. Reports(e, u)
    BY <1>5, <2>1, RaiseReports DEF Codes, e
  <2> QED BY <1>1, <2>1, <2>2, ReportsRuns, RunsOn DEF Reports
<1>6. CASE u = Raise("58030", s)
  <2>1. Reports(s, u)
    BY <1>6, RaiseReports DEF Codes
  <2> QED BY <2>1, ReportsRuns DEF Reports
<1> QED BY <1>1, <1>2, <1>3, <1>4, <1>5, <1>6

(* SQLEndTran. *)
Ends(c, commit, s, u) ==
  /\ Works(c, s, u)
  /\ u.agent = s.agent /\ u.da = s.da /\ u.cli.current = s.cli.current
  /\ u.cli.prepared = s.cli.prepared
  /\ \A k \in Cursors : u.cli.cursor[c][k] =
       IF IsOpen(s.cli.cursor[c][k]) /\ ~(commit /\ k \in Holdable) THEN "closed"
       ELSE s.cli.cursor[c][k]
  /\ \/ u.cli.tran[c] = "none"
     \/ u.cli.tran[c] = s.cli.tran[c] /\ c \in u.cli.stuck
  /\ Failed(s) => Failed(u)
  /\ u.published # s.published => commit /\ s.cli.tran[c] = "changed"
  /\ ~ Failed(s) /\ Failed(u) => u.published = s.published
  /\ ~ Failed(u) /\ commit /\ s.cli.tran[c] = "changed" => u.published
  /\ ~ Failed(s) /\ Failed(u) /\ u.cli.tran[c] # s.cli.tran[c] => u.sqlstate = "40002"

(* What SQLEndTran does to c: which cursors it closes, that changes become *)
(* permanent only in a commit that is reported, and that an error either   *)
(* leaves the transaction or says that it was rolled back.                 *)
LEMMA EndTranIs ==
  ASSUME NEW c \in Conns, NEW commit \in BOOLEAN, NEW s \in State,
         NEW u \in EndTran(c, commit, s)
  PROVE  Ends(c, commit, s, u)
<1> DEFINE closed == [k \in Cursors |->
             IF IsOpen(s.cli.cursor[c][k]) /\ ~(commit /\ k \in Holdable) THEN "closed"
             ELSE s.cli.cursor[c][k]]
           t == [s EXCEPT !.cli.cursor[c] = [k \in Cursors |->
                   IF IsOpen(@[k]) /\ ~(commit /\ k \in Holdable) THEN "closed" ELSE @[k]]]
           e == Ended(c, t)
           changed == s.cli.tran[c] = "changed"
<1>1. t = [s EXCEPT !.cli.cursor[c] = closed]
  BY DEF State, Cli
<1>2. \/ ~ InTransaction(s, c) /\ u = t
      \/ InTransaction(s, c) /\ u = Raise("58030", [t EXCEPT !.cli.stuck = @ \cup {c}])
      \/ InTransaction(s, c) /\ u = [e EXCEPT !.published = @ \/ (commit /\ changed)]
      \/ commit /\ changed /\ u = Raise("40002", e)
  BY DEF EndTran
<1>3. closed \in [Cursors -> CursorState]
  BY DEF State, Cli, CursorState
<1> HIDE DEF t
<1>4. /\ t \in State /\ t.agent = s.agent /\ t.published = s.published /\ t.da = s.da
      /\ t.sqlstate = s.sqlstate
  <2> HIDE DEF closed
  <2> QED BY <1>1, <1>3 DEF State, Cli
<1>5. /\ t.cli.current = s.cli.current /\ t.cli.tran = s.cli.tran
      /\ t.cli.prepared = s.cli.prepared /\ t.cli.stuck = s.cli.stuck
      /\ t.cli.cursor = [s.cli.cursor EXCEPT ![c] = closed]
  <2> HIDE DEF closed
  <2> QED BY <1>1, <1>3 DEF State, Cli
<1>6. t.cli.cursor[c] = closed /\ \A d \in Conns \ {c} : t.cli.cursor[d] = s.cli.cursor[d]
  <2> HIDE DEF closed
  <2> QED BY <1>5 DEF State, Cli
<1>7. Works(c, s, t)
  <2> HIDE DEF closed
  <2> QED BY <1>4, <1>5, <1>6 DEF Works, Same
<1>8. \A k \in Cursors : t.cli.cursor[c][k] =
         IF IsOpen(s.cli.cursor[c][k]) /\ ~(commit /\ k \in Holdable) THEN "closed"
         ELSE s.cli.cursor[c][k]
  BY <1>6
<1> HIDE DEF closed
<1>9. CASE ~ InTransaction(s, c) /\ u = t
  BY <1>9, <1>4, <1>5, <1>7, <1>8 DEF Ends, InTransaction, Failed
<1>10. CASE u = Raise("58030", [t EXCEPT !.cli.stuck = @ \cup {c}])
  <2> DEFINE v == [t EXCEPT !.cli.stuck = @ \cup {c}]
  <2>1. /\ v \in State /\ v.agent = t.agent /\ v.published = t.published /\ v.da = t.da
    BY <1>4 DEF State, Cli
  <2>2. /\ v.cli.current = t.cli.current /\ v.cli.tran = t.cli.tran
        /\ v.cli.prepared = t.cli.prepared /\ v.cli.stuck = t.cli.stuck \cup {c}
        /\ v.cli.cursor = t.cli.cursor
    BY <1>4 DEF State, Cli
  <2> HIDE DEF v
  <2>3. Works(c, t, v)
    BY <1>4, <2>1, <2>2, NoneIs DEF Works, Same
  <2>4. Reports(v, u) /\ u.sqlstate = "58030"
    BY <1>10, <2>1, RaiseReports DEF Codes, v
  <2>5. Works(c, s, u)
    <3>1. Works(c, v, u)
      BY <2>1, <2>4, ReportsWorks
    <3> QED BY <1>7, <2>3, <3>1, WorksOn
  <2>6. Failed(u)
    BY <2>4 DEF Failed, Success
  <2>7. /\ u.agent = s.agent /\ u.da = s.da /\ u.cli.current = s.cli.current
        /\ u.cli.prepared = s.cli.prepared /\ u.cli.cursor[c] = t.cli.cursor[c]
        /\ u.cli.tran[c] = s.cli.tran[c] /\ u.published = s.published
    BY <1>4, <1>5, <2>1, <2>2, <2>4 DEF Reports
  <2>8. c \in u.cli.stuck
    BY <2>2, <2>4 DEF Reports
  <2> QED BY <1>8, <2>5, <2>6, <2>7, <2>8 DEF Ends
<1>11. Runs(c, t, e) /\ e \in State /\ e.agent = t.agent /\ e.cli.tran[c] = "none"
       /\ e.sqlstate = t.sqlstate /\ e.cli.prepared = t.cli.prepared
  <2>1. /\ Runs(c, t, e) /\ e.agent = t.agent /\ e.cli.tran[c] = "none"
        /\ e.sqlstate = t.sqlstate
    BY <1>4, EndedIs
  <2>2. e.cli.prepared = t.cli.prepared
    BY <1>4 DEF Ended, State, Cli
  <2> QED BY <2>1, <2>2 DEF Runs, Works
<1> HIDE DEF e
<1>12. CASE u = [e EXCEPT !.published = @ \/ (commit /\ changed)]
  <2>1. e.published = s.published
    BY <1>4, <1>11 DEF Runs
  <2>2. /\ u.agent = e.agent /\ u.cli = e.cli /\ u.da = e.da
        /\ u.sqlstate = e.sqlstate
    BY <1>11, <1>12 DEF State
  <2>3. u.published = (e.published \/ (commit /\ changed))
    BY <1>11, <1>12 DEF State
  <2>4. u \in State
    BY <1>11, <1>12 DEF State
  <2>5. Works(c, t, u)
    BY <1>11, <2>2, <2>4 DEF Runs, Works, Same
  <2>6. Works(c, s, u)
    BY <1>7, <2>5, WorksOn
  <2>7. /\ u.published # s.published => commit /\ changed
        /\ commit /\ changed => u.published
    <3>1. s.published \in BOOLEAN
      BY DEF State
    <3> QED BY <2>1, <2>3, <3>1
  <2>8. Failed(s) <=> Failed(u)
    BY <1>4, <1>11, <2>2 DEF Failed
  <2>9. /\ u.agent = s.agent /\ u.da = s.da /\ u.cli.current = s.cli.current
        /\ u.cli.prepared = s.cli.prepared /\ u.cli.cursor[c] = t.cli.cursor[c]
        /\ u.cli.tran[c] = "none"
    BY <1>4, <1>5, <1>11, <2>2 DEF Runs, SameStatements
  <2> QED BY <1>8, <2>6, <2>7, <2>8, <2>9 DEF Ends
<1>13. CASE commit /\ changed /\ u = Raise("40002", e)
  <2>1. Reports(e, u) /\ u.sqlstate = "40002"
    BY <1>11, <1>13, RaiseReports DEF Codes
  <2>2. Works(c, s, u)
    <3>1. Works(c, t, e) /\ Works(c, e, u)
      BY <1>11, <2>1, ReportsWorks DEF Runs
    <3> QED BY <1>7, <3>1, WorksOn
  <2>3. Failed(u)
    BY <2>1 DEF Failed, Success
  <2> QED BY <1>4, <1>5, <1>8, <1>11, <2>1, <2>2, <2>3
          DEF Ends, Reports, Runs, SameStatements
<1> QED BY <1>2, <1>9, <1>10, <1>12, <1>13

-----------------------------------------------------------------------------
(* What holds of a connection between two calls: changes of a transaction  *)
(* that the agent doesn't know of are left from an end that failed, only   *)
(* holdable cursors survive a transaction, and no CLI statement is half    *)
(* way.                                                                    *)
Noticed(s, c) == s.cli.tran[c] = "changed" /\ ~ s.agent.active[c] => c \in s.cli.stuck
CursorsHeld(s, c) ==
  \A k \in Cursors \ Holdable : IsOpen(s.cli.cursor[c][k]) => s.agent.active[c]
Rests(s, c) == /\ \A k \in Cursors : s.cli.cursor[c][k] # "fresh"
               /\ \A p \in Statements : ~ s.cli.prepared[c][p].open

Fine(s, c) == Noticed(s, c) /\ CursorsHeld(s, c) /\ Rests(s, c)

(* A connection that the agent doesn't have. *)
Empty(s, c) ==
  /\ ~ s.agent.active[c] /\ s.agent.module[c] = None
  /\ s.cli.tran[c] = "none"
  /\ s.cli.cursor[c] = [k \in Cursors |-> None]
  /\ s.cli.prepared[c] = [p \in Statements |-> NoStatement]

(* The CLI's current connection is known to the agent, or was lost. *)
NoneLost(s) == /\ s.cli.current \in s.agent.conns \cup {None, Orphan}
               /\ s.cli.current = Orphan => Orphan \in s.cli.stuck

Good(s) ==
  /\ s \in State
  /\ s.agent.current \in s.agent.conns \cup {None}
  /\ \A c \in Conns : s.agent.active[c] => c = s.agent.current
  /\ NoneLost(s)
  /\ \A c \in s.agent.conns : Fine(s, c)
  /\ \A c \in Conns \ s.agent.conns : Empty(s, c)

(* The states of a cursor that isn't open are no queries.                  *)
LEMMA FreshIs == "fresh" \notin Queries /\ "closed" \notin Queries /\ "leaked" \notin Queries
                 /\ "fresh" # None /\ "closed" # None /\ "leaked" # None
BY SqlAgentAssumption DEF Texts

(* An unknown connection is in order.                                      *)
LEMMA EmptyIsFine ==
  ASSUME NEW s, NEW c, Empty(s, c)
  PROVE  Fine(s, c)
<1>1. Noticed(s, c)
  BY DEF Empty, Noticed
<1>2. CursorsHeld(s, c)
  BY NoneIs DEF Empty, CursorsHeld, IsOpen
<1>3. Rests(s, c)
  BY FreshIs DEF Empty, Rests, NoStatement
<1> QED BY <1>1, <1>2, <1>3 DEF Fine

(* A connection that isn't touched stays in order.                         *)
LEMMA FineSame ==
  ASSUME NEW s, NEW u, NEW c, Fine(s, c), Same(c, s, u)
  PROVE  Fine(u, c)
BY DEF Fine, Same, Noticed, CursorsHeld, Rests

(* Every connection is in order, known or unknown.                         *)
LEMMA GoodAll ==
  ASSUME NEW s, Good(s), NEW c \in Conns
  PROVE  Fine(s, c)
BY EmptyIsFine DEF Good

(* Work on one connection that leaves it in order leaves all in order.     *)
LEMMA WorkIsGood ==
  ASSUME NEW s, Good(s), NEW c \in s.agent.conns, NEW u, Works(c, s, u), Fine(u, c),
         u.agent.active[c] => c = s.agent.current
  PROVE  Good(u)
<1>1. s \in State /\ u \in State /\ s.agent.conns \subseteq Conns /\ c \in Conns
  BY DEF Good, Works, State, Agent
<1>2. \A d \in Conns \ {c} : Same(d, s, u)
  BY DEF Works
<1>3. /\ u.agent.conns = s.agent.conns /\ u.agent.current = s.agent.current
      /\ u.cli.current \in {s.cli.current, c}
      /\ Orphan \in s.cli.stuck => Orphan \in u.cli.stuck
  BY DEF Works
<1>4. \A d \in Conns : u.agent.active[d] => d = u.agent.current
  BY <1>2, <1>3 DEF Good, Same
<1>5. NoneLost(u)
  BY <1>1, <1>3, NoneIs DEF Good, NoneLost
<1>6. \A d \in u.agent.conns : Fine(u, d)
  BY <1>1, <1>2, <1>3, FineSame DEF Good
<1>7. \A d \in Conns \ u.agent.conns : Empty(u, d)
  BY <1>1, <1>2, <1>3 DEF Good, Empty, Same
<1> QED BY <1>1, <1>3, <1>4, <1>5, <1>6, <1>7 DEF Good

(* vsql_m_schema. *)
OpenStays(c, s, u) ==
  \A k \in Cursors : IsOpen(s.cli.cursor[c][k]) => u.cli.cursor[c][k] = s.cli.cursor[c][k]

Schemas(c, s, u) ==
  /\ Works(c, s, u) /\ Fine(u, c)
  /\ u.agent.active = s.agent.active /\ u.da = s.da
  /\ u.cli.prepared = s.cli.prepared
  /\ OpenStays(c, s, u)
  /\ u.published # s.published => ~ s.agent.active[c] /\ s.cli.tran[c] = "changed"
  /\ s.agent.active[c] /\ s.cli.tran[c] = "changed" => u.cli.tran[c] = "changed"
  /\ u.cli.tran[c] = "changed" => s.cli.tran[c] = "changed"

(* The agent notes which module used c last.                               *)
LEMMA SetModuleIs ==
  ASSUME NEW m \in Modules, NEW c \in Conns, NEW s \in State
  PROVE  LET u == SetModule(m, c, s) IN
         /\ Works(c, s, u) /\ u.cli = s.cli /\ u.da = s.da /\ u.published = s.published
         /\ u.agent.active = s.agent.active /\ u.sqlstate = s.sqlstate
<1> DEFINE u == SetModule(m, c, s)
<1>1. u = [s EXCEPT !.agent.module[c] = m]
  BY DEF SetModule
<1> HIDE DEF u
<1>2. /\ u \in State /\ u.cli = s.cli /\ u.da = s.da /\ u.published = s.published
      /\ u.sqlstate = s.sqlstate
  BY <1>1 DEF State, Agent
<1>3. /\ u.agent.current = s.agent.current /\ u.agent.conns = s.agent.conns
      /\ u.agent.connected = s.agent.connected
      /\ u.agent.active = s.agent.active
      /\ u.agent.module = [s.agent.module EXCEPT ![c] = m]
  BY <1>1 DEF State, Agent
<1>4. \A d \in Conns \ {c} : u.agent.module[d] = s.agent.module[d]
  BY <1>3 DEF State, Agent
<1> QED BY <1>2, <1>3, <1>4 DEF u, Works, Same

(* Raising an SQLSTATE after vsql_m_schema.                                *)
LEMMA SchemasReports ==
  ASSUME NEW c, NEW s, NEW t, NEW u, Schemas(c, s, t), Reports(t, u)
  PROVE  Schemas(c, s, u)
<1>1. Works(c, s, u) /\ Same(c, t, u)
  <2>1. Works(c, s, t) /\ t \in State
    BY DEF Schemas, Works
  <2>2. Works(c, t, u) /\ Same(c, t, u)
    BY <2>1, ReportsWorks
  <2> QED BY <2>1, <2>2, WorksOn
<1>2. Fine(u, c)
  BY <1>1, FineSame DEF Schemas
<1> QED BY <1>1, <1>2 DEF Schemas, Reports, OpenStays

(* vsql_m_schema closes no cursor that was open and makes nothing          *)
(* permanent that the agent knows of: its COMMIT is only done without a    *)
(* transaction, and then only holdable cursors can be open.                *)
LEMMA SchemaIs ==
  ASSUME NEW m \in Modules, NEW s \in State, ~ Failed(s), NEW c \in Conns, Fine(s, c),
         NEW u \in Schema(m, c, s)
  PROVE  Schemas(c, s, u)
<1>1. CASE u = s
  BY <1>1, WorksSelf DEF Schemas, OpenStays
<1>2. CASE u # s
  <2>1. PICK t \in Invoke(c, s) :
          LET v == Started(c, t) IN
          \/ u = t
          \/ ~ Failed(t) /\
             \/ u = Raise("3F000", v)
             \/ u = Raise("58030", t)
             \/ \E w \in IF v.agent.active[c] THEN {v} ELSE Ignoring(EndTran(c, TRUE, v), v) :
                  u = SetModule(m, c, w)
    BY <1>2 DEF Schema, Then
  <2> DEFINE v == Started(c, t)
  <2>2. Invokes(c, s, t) /\ t \in State
    BY InvokeIs DEF Invokes, Works
  <2>3. Schemas(c, s, t) /\ t.agent.active = s.agent.active
    <3>1. Works(c, s, t) /\ Same(c, s, t) /\ t.published = s.published /\ t.da = s.da
      BY <2>2 DEF Invokes
    <3>2. t.agent = s.agent /\ t.cli.prepared = s.cli.prepared
      BY DEF Invoke, Raise, State, Cli
    <3>3. Fine(t, c)
      BY <3>1, FineSame
    <3> QED BY <3>1, <3>2, <3>3 DEF Schemas, OpenStays, Same
  <2>4. /\ Works(c, s, v) /\ v \in State
        /\ v.agent = s.agent /\ v.published = s.published /\ v.da = s.da
        /\ v.cli.prepared = s.cli.prepared /\ v.cli.cursor[c] = s.cli.cursor[c]
        /\ v.cli.tran[c] = "changed" <=> s.cli.tran[c] = "changed"
        /\ c \in v.cli.stuck <=> c \in s.cli.stuck
        /\ v.sqlstate = t.sqlstate
    <3>1. /\ Runs(c, t, v) /\ v.agent = t.agent /\ v.cli.stuck = t.cli.stuck
          /\ v.cli.tran[c] \in {t.cli.tran[c], "idle"}
          /\ t.cli.tran[c] = "changed" => v.cli.tran[c] = "changed"
          /\ v.sqlstate = t.sqlstate
      BY <2>2, StartedIs
    <3>2. t.agent = s.agent /\ t.cli.prepared = s.cli.prepared
      BY DEF Invoke, Raise, State, Cli
    <3>3. v.cli.prepared = t.cli.prepared
      BY <2>2 DEF Started, State, Cli
    <3>4. Works(c, s, v)
      BY <2>2, <3>1, WorksOn DEF Runs, Invokes
    <3> HIDE DEF v
    <3> QED BY <2>2, <3>1, <3>2, <3>3, <3>4 DEF Runs, SameStatements, Invokes, Same, Works
  <2> HIDE DEF v
  <2>5. Schemas(c, s, v)
    <3>1. Fine(v, c)
      BY <2>4 DEF Fine, Noticed, CursorsHeld, Rests
    <3> QED BY <2>4, <3>1 DEF Schemas, OpenStays
  <2>6. CASE u = t
    BY <2>3, <2>6
  <2>7. CASE u = Raise("3F000", v)
    <3>1. Reports(v, u)
      BY <2>4, <2>7, RaiseReports DEF Codes
    <3> QED BY <2>5, <3>1, SchemasReports
  <2>8. CASE u = Raise("58030", t)
    <3>1. Reports(t, u)
      BY <2>2, <2>8, RaiseReports DEF Codes
    <3> QED BY <2>3, <3>1, SchemasReports
  <2>9. CASE \E w \in IF v.agent.active[c] THEN {v} ELSE Ignoring(EndTran(c, TRUE, v), v) :
                u = SetModule(m, c, w)
    <3>1. PICK w : /\ \/ v.agent.active[c] /\ w = v
                      \/ ~ v.agent.active[c] /\ w \in Ignoring(EndTran(c, TRUE, v), v)
                   /\ u = SetModule(m, c, w)
      BY <2>9
    <3>2. Schemas(c, s, w) /\ w \in State
      <4>1. CASE w = v
        BY <4>1, <2>4, <2>5
      <4>2. CASE ~ v.agent.active[c] /\ w \in Ignoring(EndTran(c, TRUE, v), v)
        <5>1. PICK e \in EndTran(c, TRUE, v) : w = [e EXCEPT !.sqlstate = v.sqlstate]
          BY <4>2 DEF Ignoring
        <5>2. Ends(c, TRUE, v, e) /\ e \in State
          <6>1. v \in State /\ TRUE \in BOOLEAN /\ e \in EndTran(c, TRUE, v)
            BY <2>4, <5>1
          <6>2. Ends(c, TRUE, v, e)
            BY <6>1, EndTranIs
          <6> QED BY <6>2 DEF Ends, Works
        <5>3. Reports(e, w)
          BY <2>4, <5>1, <5>2 DEF Reports, State
        <5>4. Schemas(c, s, e)
          <6>1. Works(c, s, e)
            BY <2>4, <5>2, WorksOn DEF Ends
          <6>2. OpenStays(c, s, e)
            BY <2>4, <4>2, <5>2 DEF Ends, OpenStays, Fine, CursorsHeld
          <6>3. Noticed(e, c)
            BY <2>4, <5>2 DEF Noticed, Ends
          <6>4. CursorsHeld(e, c)
            BY <2>4, <5>2, FreshIs DEF Ends, Fine, CursorsHeld, IsOpen
          <6>5. Rests(e, c)
            BY <2>4, <5>2 DEF Ends, Fine, Rests
          <6>6. /\ e.agent.active = s.agent.active /\ e.da = s.da
                /\ e.cli.prepared = s.cli.prepared
                /\ e.published # s.published => ~ s.agent.active[c] /\ s.cli.tran[c] = "changed"
                /\ ~ s.agent.active[c]
                /\ e.cli.tran[c] = "changed" => s.cli.tran[c] = "changed"
            BY <2>4, <4>2, <5>2 DEF Ends
          <6> QED BY <6>1, <6>2, <6>3, <6>4, <6>5, <6>6 DEF Schemas, Fine
        <5> QED BY <5>2, <5>3, <5>4, SchemasReports DEF Reports
      <4> QED BY <3>1, <4>1, <4>2
    <3>3. /\ Works(c, w, u) /\ u.cli = w.cli /\ u.da = w.da /\ u.published = w.published
          /\ u.agent.active = w.agent.active
      BY <3>1, <3>2, SetModuleIs
    <3>4. Works(c, s, u)
      BY <3>2, <3>3, WorksOn DEF Schemas
    <3>5. Fine(u, c)
      BY <3>2, <3>3 DEF Schemas, Fine, Noticed, CursorsHeld, Rests
    <3> QED BY <3>2, <3>3, <3>4, <3>5 DEF Schemas, OpenStays
  <2> QED BY <2>1, <2>6, <2>7, <2>8, <2>9 DEF v
<1> QED BY <1>1, <1>2

-----------------------------------------------------------------------------
(* vsql_m_close. *)

(* What the CLI is left with when c is closed. It keeps a connection that  *)
(* is in a transaction, which is Lost.                                     *)
Lost(c, s) == IF InTransaction(s, c) THEN {Orphan} ELSE {}

Leaves(c, s, lost, u) ==
  /\ u.cli.stuck = (s.cli.stuck \ {c}) \cup lost
  /\ IF lost # {} THEN u.cli.current = Orphan
     ELSE \/ u.cli.current = None /\ (s.cli.current = c \/ ~ Refused(s, c))
          \/ u.cli.current = s.cli.current /\ s.cli.current # c

(* None of the connections of C stays the CLI's current one. *)
Loses(C, s, u) ==
  \/ u.cli.current = None
  \/ u.cli.current = s.cli.current /\ s.cli.current \notin C
  \/ u.cli.current = Orphan /\ Orphan \in u.cli.stuck

Closes(c, s, u) ==
  /\ u \in State /\ u.agent.connected = s.agent.connected
  /\ u.agent.conns = s.agent.conns \ {c}
  /\ u.agent.current = IF s.agent.current = c THEN None ELSE s.agent.current
  /\ Empty(u, c)
  /\ \A d \in Conns \ {c} : Same(d, s, u)
  /\ Loses({c}, s, u)
  /\ Orphan \in s.cli.stuck => Orphan \in u.cli.stuck
  /\ u.published = s.published /\ u.da = s.da /\ u.sqlstate = s.sqlstate

(* The agent forgets c.                                                    *)
LEMMA UnlinkIs ==
  ASSUME NEW c \in Conns, NEW s \in State
  PROVE  LET u == Unlink(c, s) IN
         /\ u \in State /\ u.cli = s.cli /\ u.published = s.published /\ u.da = s.da
         /\ u.sqlstate = s.sqlstate /\ u.agent.connected = s.agent.connected
         /\ u.agent.conns = s.agent.conns \ {c}
         /\ u.agent.current = IF s.agent.current = c THEN None ELSE s.agent.current
         /\ ~ u.agent.active[c] /\ u.agent.module[c] = None
         /\ \A d \in Conns \ {c} : Same(d, s, u)
<1> DEFINE u == Unlink(c, s)
<1>1. u = [s EXCEPT !.agent.conns = @ \ {c}, !.agent.active[c] = FALSE,
                    !.agent.module[c] = None,
                    !.agent.current = IF @ = c THEN None ELSE @]
  BY DEF Unlink
<1> HIDE DEF u
<1>2. /\ u.cli = s.cli /\ u.published = s.published /\ u.da = s.da
      /\ u.sqlstate = s.sqlstate
  BY <1>1 DEF State, Agent
<1>3. /\ u.agent.conns = s.agent.conns \ {c} /\ u.agent.connected = s.agent.connected
      /\ u.agent.current = IF s.agent.current = c THEN None ELSE s.agent.current
      /\ u.agent.active = [s.agent.active EXCEPT ![c] = FALSE]
      /\ u.agent.module = [s.agent.module EXCEPT ![c] = None]
  BY <1>1 DEF State, Agent
<1>4. u \in State
  <2>1. /\ u.agent.current \in Conns \cup {None} /\ u.agent.conns \in SUBSET Conns
        /\ u.agent.active \in [Conns -> BOOLEAN]
        /\ u.agent.module \in [Conns -> Modules \cup {None}]
    BY <1>3 DEF State, Agent
  <2>2. u = [agent |-> u.agent, cli |-> s.cli, da |-> s.da, published |-> s.published,
             sqlstate |-> s.sqlstate]
    BY <1>1 DEF State, Agent
  <2>3. u.agent = [s.agent EXCEPT !.conns = u.agent.conns, !.active = u.agent.active,
                                  !.module = u.agent.module, !.current = u.agent.current]
    BY <1>1, <1>3 DEF State, Agent
  <2>4. u.agent \in Agent
    BY <2>1, <2>3 DEF State, Agent
  <2> QED BY <2>2, <2>4 DEF State
<1>5. /\ ~ u.agent.active[c] /\ u.agent.module[c] = None
      /\ \A d \in Conns \ {c} : /\ u.agent.active[d] = s.agent.active[d]
                                /\ u.agent.module[d] = s.agent.module[d]
  BY <1>3 DEF State, Agent
<1> QED BY <1>2, <1>3, <1>4, <1>5 DEF u, Same

(* SQLDisconnect, and the handles of c that are freed before. *)
Disconnects(c, s, u) ==
  /\ u \in State /\ u.agent = s.agent /\ u.published = s.published /\ u.da = s.da
  /\ u.sqlstate = s.sqlstate
  /\ u.cli.tran[c] = "none"
  /\ u.cli.cursor[c] = [k \in Cursors |-> None]
  /\ u.cli.prepared[c] = [p \in Statements |-> NoStatement]
  /\ \A d \in Conns \ {c} : Same(d, s, u)
  /\ Loses({c}, s, u)
  /\ Orphan \in s.cli.stuck => Orphan \in u.cli.stuck
  /\ Leaves(c, s, Lost(c, s), u)

(* The state that SQLDisconnect ends in, if freeing the handles of c made  *)
(* left the current connection.                                            *)
Disconnected(c, s, left) ==
  [s EXCEPT
     !.cli.cursor[c] = [k \in Cursors |-> None],
     !.cli.prepared[c] = [p \in Statements |-> NoStatement],
     !.cli.tran[c] = "none",
     !.cli.stuck = (@ \ {c}) \cup (IF InTransaction(s, c) /\ c \in @ THEN {Orphan} ELSE {}),
     !.cli.current = IF InTransaction(s, c) THEN Orphan ELSE left]

(* The CLI forgets c, unless its transaction couldn't be ended.            *)
LEMMA CliDisconnectIs ==
  ASSUME NEW c \in Conns, NEW s \in State, s.cli.tran[c] # "none" => c \in s.cli.stuck,
         NEW u, u = CliDisconnect(c, s)
  PROVE  Disconnects(c, s, u)
<1> DEFINE kept == InTransaction(s, c)
           lost == IF kept /\ c \in s.cli.stuck THEN {Orphan} ELSE {}
           noCursors == [k \in Cursors |-> None]
           noStatements == [p \in Statements |-> NoStatement]
<1>1. PICK left : /\ \/ left = None /\ (s.cli.current = c \/ ~ Refused(s, c))
                     \/ left = s.cli.current /\ s.cli.current # c
                  /\ u = Disconnected(c, s, left)
  <2> DEFINE used == \/ \E k \in Cursors : s.cli.cursor[c][k] # None
                     \/ \E p \in Statements : s.cli.prepared[c][p] # NoStatement
             mine == s.cli.current = c \/ (used /\ ~Refused(s, c))
             left == IF mine THEN None ELSE s.cli.current
  <2>1. u = Disconnected(c, s, left)
    BY DEF CliDisconnect, Disconnected
  <2>2. \/ left = None /\ (s.cli.current = c \/ ~ Refused(s, c))
        \/ left = s.cli.current /\ s.cli.current # c
    OBVIOUS
  <2> HIDE DEF left
  <2> QED BY <2>1, <2>2
<1> DEFINE now == IF kept THEN Orphan ELSE left
<1>13. u = Disconnected(c, s, left)
  BY <1>1
<1>16. u = [s EXCEPT
         !.cli.cursor[c] = noCursors,
         !.cli.prepared[c] = noStatements,
         !.cli.tran[c] = "none",
         !.cli.stuck = (@ \ {c}) \cup lost,
         !.cli.current = now]
  BY <1>13 DEF Disconnected
<1>17. now \in Conns \cup {None, Orphan} /\ now = IF kept THEN Orphan ELSE left
  BY <1>1 DEF State, Cli
<1>2. noCursors \in [Cursors -> CursorState] /\ noStatements \in [Statements -> Prepared]
  BY DEF CursorState, NoStatement, Prepared
<1>3. /\ kept \in BOOLEAN /\ kept = InTransaction(s, c)
      /\ lost = IF kept THEN {Orphan} ELSE {}
  BY DEF InTransaction
<1>4. s.agent \in Agent /\ s.cli \in Cli
  BY DEF State
<1> HIDE DEF now, kept, lost, noCursors, noStatements
<1>5. /\ u.agent = s.agent /\ u.published = s.published /\ u.da = s.da
      /\ u.sqlstate = s.sqlstate
  BY <1>16 DEF State, Cli
<1>6. /\ u.cli.cursor = [s.cli.cursor EXCEPT ![c] = noCursors]
      /\ u.cli.prepared = [s.cli.prepared EXCEPT ![c] = noStatements]
      /\ u.cli.tran = [s.cli.tran EXCEPT ![c] = "none"]
      /\ u.cli.stuck = (s.cli.stuck \ {c}) \cup lost
      /\ u.cli.current = now
  <2>1. s \in State /\ c \in Conns
    OBVIOUS
  <2> QED BY ONLY <1>16, <2>1 DEF State, Cli
<1>7. u \in State
  <2>1. /\ u.cli.current \in Conns \cup {None, Orphan}
        /\ u.cli.tran \in [Conns -> {"none", "idle", "changed"}]
        /\ u.cli.cursor \in [Conns -> [Cursors -> CursorState]]
        /\ u.cli.prepared \in [Conns -> [Statements -> Prepared]]
        /\ u.cli.stuck \in SUBSET (Conns \cup {Orphan})
    BY <1>2, <1>3, <1>4, <1>6, <1>17 DEF Cli
  <2>2. u = [agent |-> s.agent, cli |-> u.cli, da |-> s.da, published |-> s.published,
             sqlstate |-> s.sqlstate]
    BY <1>16 DEF State, Cli
  <2>3. u.cli = [s.cli EXCEPT !.cursor = u.cli.cursor, !.prepared = u.cli.prepared,
                              !.tran = u.cli.tran, !.stuck = u.cli.stuck,
                              !.current = u.cli.current]
    <3> DEFINE w == [s.cli EXCEPT !.cursor = u.cli.cursor, !.prepared = u.cli.prepared,
                                  !.tran = u.cli.tran, !.stuck = u.cli.stuck,
                                  !.current = u.cli.current]
    <3>1. s \in State /\ c \in Conns
      OBVIOUS
    <3>2. u = [s EXCEPT !.cli = [s.cli EXCEPT
                 !.cursor = [s.cli.cursor EXCEPT ![c] = noCursors],
                 !.prepared = [s.cli.prepared EXCEPT ![c] = noStatements],
                 !.tran = [s.cli.tran EXCEPT ![c] = "none"],
                 !.stuck = (s.cli.stuck \ {c}) \cup lost,
                 !.current = now]]
      BY ONLY <1>16, <3>1 DEF State, Cli
    <3>3. u = [s EXCEPT !.cli = w]
      BY ONLY <3>2, <1>6
    <3> HIDE DEF w
    <3>4. u.cli = w
      BY ONLY <3>3, <3>1 DEF State
    <3> QED BY ONLY <3>4 DEF w
  <2>4. u.cli \in Cli
    BY <1>4, <2>1, <2>3 DEF Cli
  <2> QED BY <2>2, <2>4 DEF State
<1>8. /\ u.cli.tran[c] = "none" /\ u.cli.cursor[c] = noCursors
      /\ u.cli.prepared[c] = noStatements
      /\ \A d \in Conns \ {c} : /\ u.cli.tran[d] = s.cli.tran[d]
                                /\ u.cli.cursor[d] = s.cli.cursor[d]
                                /\ u.cli.prepared[d] = s.cli.prepared[d]
  BY <1>4, <1>6 DEF Cli
<1>9. \A d \in Conns \ {c} : d \in u.cli.stuck <=> d \in s.cli.stuck
  BY <1>3, <1>6, NoneIs
<1>10. Loses({c}, s, u)
  BY <1>1, <1>3, <1>6, <1>17 DEF Loses
<1>11. Orphan \in s.cli.stuck => Orphan \in u.cli.stuck
  BY <1>6, NoneIs
<1>12. Leaves(c, s, Lost(c, s), u)
  BY <1>1, <1>3, <1>6, <1>17 DEF Leaves, Lost
<1> QED BY <1>5, <1>7, <1>8, <1>9, <1>10, <1>11, <1>12
    DEF Disconnects, Same, noCursors, noStatements

(* vsql_m_close leaves nothing of c in the agent or the CLI, and nothing   *)
(* of the others changes, however its ROLLBACK ends.                       *)
LEMMA CloseEnds ==
  ASSUME NEW c \in Conns, NEW s \in State, NEW e \in EndTran(c, FALSE, Unlink(c, s)),
         NEW u, u = CliDisconnect(c, [e EXCEPT !.sqlstate = s.sqlstate])
  PROVE  /\ Closes(c, s, u) /\ Leaves(c, s, Lost(c, e), u)
         /\ InTransaction(e, c) => InTransaction(s, c)
<1> DEFINE t == Unlink(c, s)
<1>1. e \in EndTran(c, FALSE, t) /\ u = CliDisconnect(c, [e EXCEPT !.sqlstate = s.sqlstate])
  OBVIOUS
<1>2. /\ t \in State /\ t.cli = s.cli /\ t.published = s.published /\ t.da = s.da
      /\ t.agent.conns = s.agent.conns \ {c} /\ t.agent.connected = s.agent.connected
      /\ t.agent.current = IF s.agent.current = c THEN None ELSE s.agent.current
      /\ ~ t.agent.active[c] /\ t.agent.module[c] = None
      /\ \A d \in Conns \ {c} : Same(d, s, t)
  BY UnlinkIs
<1> HIDE DEF t
<1>3. Ends(c, FALSE, t, e)
  <2>1. FALSE \in BOOLEAN /\ e \in EndTran(c, FALSE, t) /\ t \in State
    BY <1>1, <1>2
  <2> QED BY <2>1, EndTranIs
<1> DEFINE i == [e EXCEPT !.sqlstate = s.sqlstate]
<1>4. Reports(e, i) /\ i.sqlstate = s.sqlstate
  <2>1. e \in State
    BY <1>3 DEF Ends, Works
  <2> QED BY <2>1 DEF Reports, State
<1> HIDE DEF i
<1>5. /\ i \in State /\ i.agent = t.agent /\ i.da = s.da /\ i.cli.current = s.cli.current
      /\ i.published = s.published
      /\ i.cli.tran[c] # "none" => c \in i.cli.stuck
      /\ \A d \in Conns \ {c} : Same(d, t, i)
      /\ Orphan \in s.cli.stuck <=> Orphan \in i.cli.stuck
  <2>1. e.published = t.published
    BY <1>3 DEF Ends
  <2> QED BY <1>2, <1>3, <1>4, <2>1 DEF Ends, Works, Reports, Same
<1>6. u = CliDisconnect(c, i)
  BY <1>1 DEF i
<1>7. Disconnects(c, i, u)
  <2>1. i \in State /\ i.cli.tran[c] # "none" => c \in i.cli.stuck
    BY <1>5
  <2> QED BY <1>5, <1>6, <2>1, CliDisconnectIs
<1>8. Empty(u, c)
  BY <1>2, <1>5, <1>7 DEF Empty, Disconnects
<1>9. \A d \in Conns \ {c} : Same(d, s, u)
  BY <1>2, <1>5, <1>7 DEF Same, Disconnects
<1>10. Loses({c}, s, u)
  BY <1>5, <1>7 DEF Loses, Disconnects
<1>11. Closes(c, s, u)
  BY <1>2, <1>4, <1>5, <1>7, <1>8, <1>9, <1>10 DEF Closes, Disconnects
<1>12. Lost(c, i) = Lost(c, e)
  BY <1>4 DEF Reports, InTransaction, Lost
<1>13. InTransaction(e, c) => InTransaction(s, c)
  BY <1>2, <1>3 DEF Ends, InTransaction
<1>14. \A d \in Conns \ {c} : Same(d, s, i)
  BY <1>2, <1>5 DEF Same
<1>15. s.cli \in Cli /\ i.cli \in Cli
  BY <1>5 DEF State
<1>16. i.cli.stuck \ {c} = s.cli.stuck \ {c}
  BY <1>5, <1>14, <1>15 DEF Same, Cli
<1>17. Refused(i, c) = Refused(s, c)
  <2>1. s.cli.current \in Conns \ {c} =>
          InTransaction(i, s.cli.current) = InTransaction(s, s.cli.current)
    BY <1>14 DEF Same, InTransaction
  <2> QED BY <1>5, <1>15, <2>1 DEF Refused, Cli
<1>18. Leaves(c, s, Lost(c, e), u)
  BY <1>5, <1>7, <1>12, <1>16, <1>17 DEF Leaves, Disconnects
<1> QED BY <1>11, <1>13, <1>18

(* The same of every state that vsql_m_close ends in.                      *)
LEMMA CloseIs ==
  ASSUME NEW c \in Conns, NEW s \in State, NEW u \in Close(c, s)
  PROVE  Closes(c, s, u)
<1>1. PICK e \in EndTran(c, FALSE, Unlink(c, s)) :
        u = CliDisconnect(c, [e EXCEPT !.sqlstate = s.sqlstate])
  BY DEF Close, Ignoring
<1> QED BY <1>1, CloseEnds

(* Closing a connection leaves the others in order.                        *)
LEMMA CloseIsGood ==
  ASSUME NEW c \in Conns, NEW s, Good(s), NEW u, Closes(c, s, u)
  PROVE  Good(u)
<1>1. u \in State
  BY DEF Closes
<1>2. u.agent.current \in u.agent.conns \cup {None}
  BY NoneIs DEF Good, Closes
<1>3. \A d \in Conns : u.agent.active[d] => d = u.agent.current
  BY DEF Good, Closes, Empty, Same
<1>4. NoneLost(u)
  BY NoneIs DEF Good, Closes, NoneLost, Loses
<1>5. \A d \in u.agent.conns : Fine(u, d)
  <2>1. s.agent.conns \subseteq Conns
    BY DEF Good, State, Agent
  <2> QED BY <2>1, FineSame DEF Good, Closes
<1>6. \A d \in Conns \ u.agent.conns : Empty(u, d)
  BY DEF Good, Closes, Empty, Same
<1> QED BY <1>1, <1>2, <1>3, <1>4, <1>5, <1>6 DEF Good

(* Closing all connections. *)
ClosesAll(s, u) ==
  /\ u \in State /\ u.agent.connected = s.agent.connected
  /\ u.agent.conns = {} /\ u.agent.current = None
  /\ \A d \in Conns : IF d \in s.agent.conns THEN Empty(u, d) ELSE Same(d, s, u)
  /\ Loses(s.agent.conns, s, u)
  /\ Orphan \in s.cli.stuck => Orphan \in u.cli.stuck
  /\ u.published = s.published /\ u.da = s.da /\ u.sqlstate = s.sqlstate

(* What the CLI is left with when all are closed. *)
LeavesAll(s, lost, u) ==
  /\ u.cli.stuck = (s.cli.stuck \ s.agent.conns) \cup lost
  /\ u.cli.current = IF lost # {} THEN Orphan
                     ELSE IF s.cli.current \in s.agent.conns THEN None ELSE s.cli.current

(* The state in which the CLI keeps the connections of kept. *)
AllClosed(s, kept) ==
  LET gone == s.agent.conns
      Cleared(f, x) == [c \in Conns |-> IF c \in gone THEN x ELSE f[c]]
  IN [s EXCEPT
        !.agent = [current |-> None, connected |-> s.agent.connected, conns |-> {},
                   active |-> Cleared(s.agent.active, FALSE),
                   module |-> Cleared(s.agent.module, None)],
        !.cli =
          [current |-> IF kept # {} THEN Orphan
                       ELSE IF s.cli.current \in gone THEN None ELSE s.cli.current,
           tran |-> Cleared(s.cli.tran, "none"),
           stuck |-> (s.cli.stuck \ gone) \cup (IF kept = {} THEN {} ELSE {Orphan}),
           cursor |-> Cleared(s.cli.cursor, [k \in Cursors |-> None]),
           prepared |-> Cleared(s.cli.prepared, [p \in Statements |-> NoStatement])]]

LostOf(kept) == IF kept = {} THEN {} ELSE {Orphan}

(* Closing all connections leaves nothing of them.                         *)
LEMMA AllClosedIs ==
  ASSUME NEW s \in State, NEW kept \in SUBSET s.agent.conns
  PROVE  ClosesAll(s, AllClosed(s, kept)) /\ LeavesAll(s, LostOf(kept), AllClosed(s, kept))
<1> DEFINE gone == s.agent.conns
           Cleared(f, x) == [c \in Conns |-> IF c \in gone THEN x ELSE f[c]]
           noCursors == [k \in Cursors |-> None]
           noStatements == [p \in Statements |-> NoStatement]
           active == Cleared(s.agent.active, FALSE)
           module == Cleared(s.agent.module, None)
           cursor == Cleared(s.cli.cursor, noCursors)
           prepared == Cleared(s.cli.prepared, noStatements)
           tran == Cleared(s.cli.tran, "none")
           u == AllClosed(s, kept)
<1>1. u = [s EXCEPT
          !.agent = [current |-> None, connected |-> s.agent.connected, conns |-> {},
                     active |-> active, module |-> module],
          !.cli =
            [current |-> IF kept # {} THEN Orphan
                         ELSE IF s.cli.current \in gone THEN None ELSE s.cli.current,
             tran |-> tran,
             stuck |-> (s.cli.stuck \ gone) \cup (IF kept = {} THEN {} ELSE {Orphan}),
             cursor |-> cursor, prepared |-> prepared]]
  BY DEF AllClosed
<1> DEFINE lost == IF kept = {} THEN {} ELSE {Orphan}
           left == IF kept # {} THEN Orphan
                   ELSE IF s.cli.current \in gone THEN None ELSE s.cli.current
<1> HIDE DEF u, noCursors, noStatements, active, module, cursor, prepared, tran
<1>2. /\ u.published = s.published /\ u.da = s.da /\ u.sqlstate = s.sqlstate
      /\ u = [agent |-> u.agent, cli |-> u.cli, da |-> s.da, published |-> s.published,
              sqlstate |-> s.sqlstate]
      /\ u.agent = [current |-> None, connected |-> s.agent.connected, conns |-> {},
                    active |-> active, module |-> module]
      /\ u.cli = [current |-> left, tran |-> tran, stuck |-> (s.cli.stuck \ gone) \cup lost,
                  cursor |-> cursor, prepared |-> prepared]
  BY <1>1 DEF State
<1> HIDE DEF lost, left
<1>5. noCursors \in [Cursors -> CursorState] /\ noStatements \in [Statements -> Prepared]
  BY DEF CursorState, NoStatement, Prepared, noCursors, noStatements
<1>6. s.agent \in Agent /\ s.cli \in Cli
  BY DEF State
<1>7. /\ active \in [Conns -> BOOLEAN] /\ module \in [Conns -> Modules \cup {None}]
  BY <1>6 DEF Agent, active, module
<1>8. /\ tran \in [Conns -> {"none", "idle", "changed"}]
      /\ cursor \in [Conns -> [Cursors -> CursorState]]
      /\ prepared \in [Conns -> [Statements -> Prepared]]
  <2> QED BY <1>5, <1>6 DEF Cli, tran, cursor, prepared
<1>9. \A d \in Conns :
        IF d \in gone
        THEN /\ ~ active[d] /\ module[d] = None /\ tran[d] = "none"
             /\ cursor[d] = noCursors /\ prepared[d] = noStatements
        ELSE /\ active[d] = s.agent.active[d] /\ module[d] = s.agent.module[d]
             /\ tran[d] = s.cli.tran[d] /\ cursor[d] = s.cli.cursor[d]
             /\ prepared[d] = s.cli.prepared[d]
  <2> QED BY DEF active, module, tran, cursor, prepared
<1> HIDE DEF Cleared
<1>10. u.agent \in Agent
  BY <1>2, <1>6, <1>7 DEF Agent
<1>11. u.cli \in Cli
  <2>1. /\ (s.cli.stuck \ gone) \cup lost \in SUBSET (Conns \cup {Orphan})
        /\ left \in Conns \cup {None, Orphan}
    BY <1>6 DEF Cli, lost, left
  <2> QED BY <1>2, <1>6, <1>8, <2>1 DEF Cli
<1>12. u \in State
  BY <1>2, <1>10, <1>11 DEF State
<1>13. \A d \in Conns : IF d \in gone THEN Empty(u, d) ELSE Same(d, s, u)
  <2>1. /\ u.agent.active = active /\ u.agent.module = module /\ u.cli.tran = tran
        /\ u.cli.cursor = cursor /\ u.cli.prepared = prepared
    BY <1>2
  <2>2. \A d \in Conns \ gone : d \in u.cli.stuck <=> d \in s.cli.stuck
    BY <1>2, NoneIs DEF lost
  <2> QED BY <1>9, <2>1, <2>2 DEF Empty, Same, noCursors, noStatements
<1>14. gone \subseteq Conns
  BY <1>6 DEF Agent
<1>15. /\ Loses(gone, s, u)
       /\ Orphan \in s.cli.stuck => Orphan \in u.cli.stuck
  BY <1>2, <1>14, NoneIs DEF lost, left, Loses
<1>16. LeavesAll(s, LostOf(kept), u)
  BY <1>2 DEF LeavesAll, LostOf, lost, left
<1> QED BY <1>2, <1>12, <1>13, <1>15, <1>16 DEF ClosesAll, u

(* A connection can only be kept if it's in a transaction.                 *)
LEMMA CloseAllIs ==
  ASSUME NEW s \in State, NEW u \in CloseAll(s)
  PROVE  ClosesAll(s, u)
<1>1. PICK kept \in SUBSET {c \in s.agent.conns : InTransaction(s, c)} : u = AllClosed(s, kept)
  BY DEF CloseAll, AllClosed
<1> QED BY <1>1, AllClosedIs

(* Closing all connections leaves everything in order.                     *)
LEMMA CloseAllIsGood ==
  ASSUME NEW s, Good(s), NEW u, ClosesAll(s, u)
  PROVE  Good(u)
<1>1. \A d \in Conns : Empty(u, d)
  BY DEF Good, ClosesAll, Empty, Same
<1>2. NoneLost(u)
  BY NoneIs DEF Good, ClosesAll, NoneLost, Loses
<1> QED BY <1>1, <1>2 DEF Good, ClosesAll, Empty

(* vsql_m_open. *)
Opens(c, s, u) ==
  /\ Good(u) /\ u.agent.connected = s.agent.connected
  /\ u.published = s.published /\ u.da = s.da /\ u.agent.current = s.agent.current
  /\ \A d \in Conns \ {c} : Same(d, s, u)
  /\ u.agent.conns = IF Failed(u) THEN s.agent.conns ELSE s.agent.conns \cup {c}
  /\ u.cli.tran[c] # "changed"

(* The connection is in the list, whether the statement succeeds or not. *)
Listed(c, s, u) ==
  /\ Good(u) /\ u.agent.connected = s.agent.connected
  /\ u.published = s.published /\ u.da = s.da /\ u.agent.current = s.agent.current
  /\ \A d \in Conns \ {c} : Same(d, s, u)
  /\ u.agent.conns = s.agent.conns \cup {c}
  /\ u.cli.tran[c] # "changed"

(* Raising an SQLSTATE leaves everything in order.                         *)
LEMMA ReportsGood ==
  ASSUME NEW s, Good(s), NEW u, Reports(s, u)
  PROVE  Good(u)
BY DEF Good, Reports, NoneLost, Fine, Noticed, CursorsHeld, Rests, Empty

(* A connection that couldn't be opened is closed again.                   *)
LEMMA CloseFailedIs ==
  ASSUME NEW s, NEW c \in Conns \ s.agent.conns, NEW states,
         s.agent.conns \subseteq Conns, s.agent.current # c,
         \A t \in states : Listed(c, s, t),
         NEW u \in CloseFailed(c, states)
  PROVE  Opens(c, s, u)
<1>1. PICK t \in states : u \in IF Failed(t) THEN Close(c, t) ELSE {t}
  BY DEF CloseFailed
<1>2. Listed(c, s, t) /\ t \in State /\ Good(t)
  BY <1>1 DEF Listed, Good
<1>3. CASE ~ Failed(t)
  BY <1>1, <1>2, <1>3 DEF Listed, Opens
<1>4. CASE Failed(t)
  <2>1. Closes(c, t, u)
    BY <1>1, <1>2, <1>4, CloseIs
  <2>2. Good(u)
    BY <1>2, <2>1, CloseIsGood
  <2>3. Failed(u)
    BY <1>4, <2>1 DEF Closes, Failed
  <2>4. \A d \in Conns \ {c} : Same(d, s, u)
    BY <1>2, <2>1 DEF Closes, Listed, Same
  <2>5. u.agent.conns = s.agent.conns
    BY <1>2, <2>1 DEF Closes, Listed
  <2>6. /\ u.published = s.published /\ u.da = s.da /\ u.agent.current = s.agent.current
        /\ u.agent.connected = s.agent.connected
    BY <1>2, <2>1 DEF Closes, Listed
  <2>7. u.cli.tran[c] # "changed"
    BY <2>1 DEF Closes, Empty
  <2> QED BY <2>2, <2>3, <2>4, <2>5, <2>6, <2>7 DEF Opens
<1> QED BY <1>3, <1>4

(* vsql_m_open adds a connection that is in order, or none.                *)
LEMMA OpenIs ==
  ASSUME NEW m \in Modules, NEW s, Good(s), ~ Failed(s), NEW c \in Conns \ s.agent.conns,
         NEW u \in Open(m, c, s)
  PROVE  Opens(c, s, u)
<1> DEFINE t == [s EXCEPT !.agent.conns = @ \cup {c}]
           i == [t EXCEPT !.cli.current = c]
           states == IF Refused(t, None) THEN {Raise("0A001", t)}
                     ELSE {Raise("08001", t)} \cup Schema(m, c, i)
<1>1. s \in State /\ s.agent.conns \subseteq Conns /\ Empty(s, c)
  BY DEF Good, State, Agent
<1>2. s.agent.current # c
  BY NoneIs DEF Good
<1>3. Listed(c, s, t) /\ t \in State /\ ~ Failed(t)
  <2>1. /\ t \in State /\ t.cli = s.cli /\ t.published = s.published /\ t.da = s.da
        /\ t.sqlstate = s.sqlstate
    BY <1>1 DEF State, Agent
  <2>2. /\ t.agent.current = s.agent.current /\ t.agent.active = s.agent.active
        /\ t.agent.connected = s.agent.connected
        /\ t.agent.module = s.agent.module /\ t.agent.conns = s.agent.conns \cup {c}
    BY <1>1 DEF State, Agent
  <2> HIDE DEF t
  <2>3. \A d \in Conns : Same(d, s, t)
    BY <2>1, <2>2 DEF Same
  <2>4. \A d \in Conns : Fine(t, d)
    BY <2>3, FineSame, GoodAll
  <2>5. \A d \in Conns \ t.agent.conns : Empty(t, d)
    BY <2>1, <2>2 DEF Good, Empty
  <2>6. Good(t)
    BY <1>1, <2>1, <2>2, <2>4, <2>5 DEF Good, NoneLost
  <2>7. t.cli.tran[c] # "changed"
    BY <1>1, <2>1 DEF Empty
  <2> QED BY <2>1, <2>2, <2>3, <2>6, <2>7 DEF Listed, Failed
<1> HIDE DEF t
<1>4. Listed(c, s, i) /\ i \in State /\ ~ Failed(i)
  <2>1. /\ i \in State /\ i.agent = t.agent /\ i.published = t.published /\ i.da = t.da
        /\ i.sqlstate = t.sqlstate
    BY <1>3 DEF State, Cli
  <2>2. /\ i.cli.current = c /\ i.cli.tran = t.cli.tran /\ i.cli.cursor = t.cli.cursor
        /\ i.cli.prepared = t.cli.prepared /\ i.cli.stuck = t.cli.stuck
    BY <1>3 DEF State, Cli
  <2> HIDE DEF i
  <2>3. \A d \in Conns : Same(d, t, i)
    BY <2>1, <2>2 DEF Same
  <2>4. \A d \in Conns : Fine(i, d)
    BY <1>3, <2>3, FineSame, GoodAll DEF Listed
  <2>5. \A d \in Conns \ i.agent.conns : Empty(i, d)
    BY <1>3, <2>1, <2>2 DEF Listed, Good, Empty
  <2>6. NoneLost(i)
    BY <1>3, <2>1, <2>2, NoneIs DEF Listed, NoneLost
  <2>7. i.agent.conns \subseteq Conns
    BY <2>1 DEF State, Agent
  <2>8. /\ i.agent.current \in i.agent.conns \cup {None}
        /\ \A d \in Conns : i.agent.active[d] => d = i.agent.current
    BY <1>3, <2>1 DEF Good, Listed
  <2>9. Good(i)
    BY <2>1, <2>4, <2>5, <2>6, <2>7, <2>8 DEF Good
  <2> QED BY <1>3, <2>1, <2>2, <2>3, <2>9 DEF Listed, Failed, Same
<1> HIDE DEF i
<1>5. \A v \in states : Listed(c, s, v)
  <2>1. ASSUME NEW v \in {Raise("0A001", t), Raise("08001", t)}
        PROVE  Listed(c, s, v)
    <3>1. Reports(t, v)
      BY <1>3, RaiseReports DEF Codes
    <3>2. Good(v)
      BY <1>3, <3>1, ReportsGood DEF Listed
    <3> QED BY <1>3, <3>1, <3>2 DEF Listed, Reports, Same
  <2>2. ASSUME NEW v \in Schema(m, c, i)
        PROVE  Listed(c, s, v)
    <3>1. Fine(i, c) /\ ~ i.agent.active[c] /\ i.cli.tran[c] = "none"
      BY <1>1, <1>3, <1>4, GoodAll, EmptyIsFine DEF Listed, i, t, State, Cli, Agent, Empty
    <3>2. Schemas(c, i, v)
      BY <1>4, <2>2, <3>1, SchemaIs
    <3>3. Good(v)
      BY <1>4, <3>1, <3>2, WorkIsGood DEF Schemas, Listed
    <3> QED BY <1>4, <3>1, <3>2, <3>3 DEF Listed, Schemas, Works, Same
  <2> QED BY <2>1, <2>2
<1>6. u \in CloseFailed(c, states)
  BY DEF Open, t, i
<1> HIDE DEF states
<1> QED BY <1>1, <1>2, <1>5, <1>6, CloseFailedIs

-----------------------------------------------------------------------------
(* A whole call.  b is where it starts.                                    *)

(* What was made permanent is what the agent didn't know of.               *)
Quiet(b, u) == u.da = b.da /\ (u.published # b.published => b.agent.current \in b.cli.stuck)

(* A new connection becomes the current one, and none but the current one  *)
(* is changed.                                                             *)
Apart(b, u) ==
  /\ u.agent.conns \ b.agent.conns \subseteq {u.agent.current}
  /\ \A d \in (b.agent.conns \cap u.agent.conns) \ {b.agent.current} : Same(d, b, u)

(* Open cursors stay open (but the ones of K may not), and their statement *)
(* is the same.                                                            *)
KeepsCursor(d, k, b, u) ==
  ~ Refused(b, d) /\ IsOpen(b.cli.cursor[d][k]) => u.cli.cursor[d][k] = b.cli.cursor[d][k]
KeepsStatement(d, k, b, u) ==
  /\ ~ Refused(b, d) /\ StatementOf[k] # None /\ IsOpen(b.cli.cursor[d][k])
  /\ b.cli.prepared[d][StatementOf[k]] # NoStatement
  => u.cli.prepared[d][StatementOf[k]] = b.cli.prepared[d][StatementOf[k]]
Keeps(d, K, b, u) == /\ \A k \in Cursors \ K : KeepsCursor(d, k, b, u)
                     /\ \A k \in Cursors : KeepsStatement(d, k, b, u)

(* The connection that is made without a CONNECT is the only one.          *)
Alone(s) == ~ s.agent.connected => s.agent.conns \subseteq {s.agent.current}

Calls(K, b, u) ==
  /\ Good(u) /\ Alone(u) /\ Quiet(b, u) /\ Apart(b, u)
  /\ \A d \in b.agent.conns \cap u.agent.conns : Keeps(d, K, b, u)

Effects(K, b, u) ==
  /\ Good(u) /\ Alone(u) /\ Apart(b, u)
  /\ \A d \in b.agent.conns \cap u.agent.conns : Keeps(d, K, b, u)

(* A call is one that ends no transaction on request.                      *)
LEMMA CallsEffects ==
  ASSUME NEW K, NEW b, NEW u
  PROVE  Calls(K, b, u) <=> Effects(K, b, u) /\ Quiet(b, u)
BY DEF Calls, Effects

(* A connection that isn't touched keeps its cursors and statements.       *)
LEMMA SameKeeps ==
  ASSUME NEW d, NEW K, NEW b, NEW u, Same(d, b, u)
  PROVE  Keeps(d, K, b, u)
BY DEF Same, Keeps, KeepsCursor, KeepsStatement

(* Work on c never makes the CLI refuse it.                                *)
LEMMA RefusedOn ==
  ASSUME NEW c, NEW b, NEW s, Works(c, b, s), b \in State, Refused(s, c)
  PROVE  Refused(b, c)
<1>1. s.cli.current = b.cli.current /\ b.cli.current \notin {None, c}
  BY DEF Refused, Works
<1>2. CASE b.cli.current = Orphan
  BY <1>1, <1>2 DEF Refused
<1>3. CASE b.cli.current # Orphan
  <2>1. b.cli.current \in Conns \ {c}
    BY <1>1, <1>3 DEF State, Cli
  <2> QED BY <1>1, <1>3, <2>1 DEF Refused, Works, Same, InTransaction
<1> QED BY <1>2, <1>3

(* Another connection becomes the current one, while the agent knows of no *)
(* transaction.                                                            *)
LEMMA MakeCurrentIs ==
  ASSUME NEW s, Good(s), NEW c \in s.agent.conns, \A d \in Conns : ~ s.agent.active[d]
  PROVE  LET u == MakeCurrent(c, s) IN
         /\ Good(u) /\ u.agent.current = c /\ u.agent.conns = s.agent.conns
         /\ u.agent.connected = s.agent.connected
         /\ u.published = s.published /\ u.da = s.da /\ u.sqlstate = s.sqlstate
         /\ \A d \in Conns : Same(d, s, u)
<1> DEFINE u == MakeCurrent(c, s)
<1>1. s \in State /\ s.agent.conns \subseteq Conns
  BY DEF Good, State, Agent
<1>2. u = [s EXCEPT !.agent.current = c]
  BY DEF MakeCurrent
<1> HIDE DEF u
<1>3. /\ u \in State /\ u.cli = s.cli /\ u.published = s.published /\ u.da = s.da
      /\ u.sqlstate = s.sqlstate
  BY <1>1, <1>2 DEF State, Agent
<1>4. /\ u.agent.current = c /\ u.agent.conns = s.agent.conns
      /\ u.agent.connected = s.agent.connected
      /\ u.agent.active = s.agent.active /\ u.agent.module = s.agent.module
  BY <1>1, <1>2 DEF State, Agent
<1>5. \A d \in Conns : Same(d, s, u)
  BY <1>3, <1>4 DEF Same
<1>6. \A d \in Conns : Fine(u, d)
  BY <1>5, FineSame, GoodAll
<1>7. \A d \in Conns \ u.agent.conns : Empty(u, d)
  BY <1>3, <1>4 DEF Good, Empty
<1>8. NoneLost(u)
  BY <1>3, <1>4 DEF Good, NoneLost
<1>9. Good(u)
  BY <1>1, <1>3, <1>4, <1>6, <1>7, <1>8 DEF Good
<1> QED BY <1>3, <1>4, <1>5, <1>9 DEF u

(* vsql_m_open, and the connection is the current one then. *)
LEMMA OpenCurrentIs ==
  ASSUME NEW m \in Modules, NEW b, Good(b), Alone(b), ~ Failed(b),
         NEW c \in Conns \ b.agent.conns,
         \A d \in Conns : ~ b.agent.active[d],
         b.agent.conns = {} \/ b.agent.connected,
         NEW u \in Then(Open(m, c, b), LAMBDA t : {MakeCurrent(c, t)})
  PROVE  /\ Calls({}, b, u) /\ u.published = b.published
         /\ \A d \in Conns \ {c} : Same(d, b, u)
         /\ ~ Failed(u) => /\ u.agent.current = c /\ c \in u.agent.conns
                           /\ ~ u.agent.active[c] /\ u.cli.tran[c] # "changed"
<1>1. PICK t \in Open(m, c, b) : \/ Failed(t) /\ u = t
                                 \/ ~ Failed(t) /\ u = MakeCurrent(c, t)
  BY DEF Then
<1>2. Opens(c, b, t)
  BY OpenIs
<1>3. \A d \in Conns : ~ t.agent.active[d]
  <2>1. \A d \in Conns : t.agent.active[d] => d = b.agent.current
    BY <1>2 DEF Opens, Good
  <2>2. \A d \in Conns \ {c} : ~ t.agent.active[d]
    BY <1>2 DEF Opens, Same
  <2>3. b.agent.current # c
    BY NoneIs DEF Good
  <2> QED BY <2>1, <2>2, <2>3
<1>4. b.agent.conns \subseteq Conns
  BY DEF Good, State, Agent
<1>5. CASE Failed(t) /\ u = t
  <2>1. Good(u) /\ Quiet(b, u) /\ u.agent.conns = b.agent.conns
        /\ \A d \in Conns \ {c} : Same(d, b, u)
    BY <1>2, <1>5 DEF Opens, Quiet
  <2>2. Alone(u)
    BY <1>2, <1>5, <2>1 DEF Alone, Opens
  <2>3. Apart(b, u) /\ \A d \in b.agent.conns \cap u.agent.conns : Keeps(d, {}, b, u)
    BY <1>4, <2>1, SameKeeps DEF Apart
  <2> QED BY <1>2, <1>5, <2>1, <2>2, <2>3 DEF Calls, Opens
<1>6. CASE ~ Failed(t) /\ u = MakeCurrent(c, t)
  <2>1. c \in t.agent.conns /\ Good(t) /\ t.agent.conns = b.agent.conns \cup {c}
    BY <1>2, <1>6 DEF Opens
  <2>2. /\ Good(u) /\ u.agent.current = c /\ u.agent.conns = t.agent.conns
        /\ u.agent.connected = t.agent.connected
        /\ u.published = t.published /\ u.da = t.da /\ u.sqlstate = t.sqlstate
        /\ \A d \in Conns : Same(d, t, u)
    <3>1. Good(t) /\ c \in t.agent.conns /\ \A d \in Conns : ~ t.agent.active[d]
      BY <1>3, <2>1
    <3>2. u = MakeCurrent(c, t)
      BY <1>6
    <3> QED BY ONLY <3>1, <3>2, MakeCurrentIs
  <2>3. Quiet(b, u) /\ u.published = b.published
    BY <1>2, <2>2 DEF Opens, Quiet
  <2>4. \A d \in Conns \ {c} : Same(d, b, u)
    <3>1. \A d \in Conns \ {c} : Same(d, b, t) /\ Same(d, t, u)
      BY <1>2, <2>2 DEF Opens
    <3> QED BY <3>1 DEF Same
  <2>5. Alone(u)
    BY <1>2, <2>1, <2>2 DEF Alone, Opens
  <2>6. Apart(b, u) /\ \A d \in b.agent.conns \cap u.agent.conns : Keeps(d, {}, b, u)
    BY <1>4, <2>1, <2>2, <2>4, SameKeeps DEF Apart
  <2>7. ~ u.agent.active[c] /\ u.cli.tran[c] # "changed"
    BY <1>2, <1>3, <2>2 DEF Same, Opens
  <2> QED BY <2>1, <2>2, <2>3, <2>4, <2>5, <2>6, <2>7 DEF Calls
<1> QED BY <1>1, <1>5, <1>6

(* vsql_m_connection.  The connection is the one that was current, or new. *)
Connects(b, s) ==
  LET c == s.agent.current IN
  /\ c \in s.agent.conns
  /\ \/ /\ c = b.agent.current /\ Works(c, b, s)
        /\ s.agent.active = b.agent.active
        /\ b.agent.active[c] => s.published = b.published
        /\ s.cli.tran[c] = "changed" => b.cli.tran[c] = "changed"
     \/ /\ b.agent.current = None /\ c \notin b.agent.conns
        /\ ~ s.agent.active[c] /\ s.cli.tran[c] # "changed"
        /\ \A d \in Conns \ {c} : Same(d, b, s)

(* The changes that the agent knows of are still there, also if it fails.  *)
StillChanged(b, s) ==
  LET c == b.agent.current IN
  c \in b.agent.conns /\ b.agent.active[c] /\ b.cli.tran[c] = "changed" =>
    s.cli.tran[c] = "changed"

(* vsql_m_connection finds the current connection or makes the implicit    *)
(* one, and keeps what it had open and what it changed.                    *)
LEMMA ConnectionIs ==
  ASSUME NEW m \in Modules, NEW b, Good(b), Alone(b), ~ Failed(b), NEW s \in Connection(m, b)
  PROVE  Calls({}, b, s) /\ StillChanged(b, s) /\ (~ Failed(s) => Connects(b, s))
<1>1. b \in State /\ b.agent.conns \subseteq Conns /\ b.agent \in Agent
  BY DEF Good, State, Agent
<1>2. CASE b.agent.current # None
  <2> DEFINE c == b.agent.current
  <2>1. c \in b.agent.conns /\ c \in Conns
    BY <1>1, <1>2 DEF Good
  <2>2. s \in Schema(m, c, b)
    BY <1>2 DEF Connection
  <2> HIDE DEF c
  <2>3. Schemas(c, b, s)
    <3>1. Fine(b, c)
      BY <2>1, GoodAll
    <3> QED BY <1>1, <2>1, <2>2, <3>1, SchemaIs
  <2>4. /\ Works(c, b, s) /\ s.agent.active = b.agent.active
        /\ s.agent.current = c /\ s.agent.conns = b.agent.conns
        /\ s.agent.connected = b.agent.connected
        /\ \A d \in Conns \ {c} : Same(d, b, s)
    BY <2>3 DEF Schemas, Works, c
  <2>5. Good(s)
    <3>1. s.agent.active[c] => c = b.agent.current
      BY DEF c
    <3> QED BY <2>1, <2>3, <3>1, WorkIsGood DEF Schemas
  <2>6. Alone(s)
    BY <2>4 DEF Alone, c
  <2>7. Quiet(b, s)
    <3>1. Noticed(b, c)
      BY <2>1, GoodAll DEF Fine
    <3> QED BY <2>3, <3>1 DEF Quiet, Schemas, Noticed, c
  <2>8. Apart(b, s)
    BY <1>1, <2>4 DEF Apart, c
  <2>9. \A d \in b.agent.conns \cap s.agent.conns : Keeps(d, {}, b, s)
    <3>1. Keeps(c, {}, b, s)
      BY <2>3 DEF Schemas, OpenStays, Keeps, KeepsCursor, KeepsStatement
    <3> QED BY <1>1, <2>4, <3>1, SameKeeps
  <2>10. Connects(b, s)
    <3>1. /\ b.agent.active[c] => s.published = b.published
          /\ s.cli.tran[c] = "changed" => b.cli.tran[c] = "changed"
      BY <2>3 DEF Schemas
    <3> QED BY <2>1, <2>4, <3>1 DEF Connects, c
  <2>11. StillChanged(b, s)
    BY <2>3 DEF Schemas, StillChanged, c
  <2> QED BY <2>5, <2>6, <2>7, <2>8, <2>9, <2>10, <2>11 DEF Calls
<1>3. CASE b.agent.current = None /\ b.agent.connected
  <2>1. s = Raise("08003", b)
    BY <1>3 DEF Connection
  <2>2. Reports(b, s) /\ s.sqlstate = "08003"
    BY <1>1, <2>1, RaiseReports DEF Codes
  <2>3. Failed(s)
    BY <2>2 DEF Failed, Success
  <2>4. Good(s)
    BY <2>2, ReportsGood
  <2>5. \A d \in Conns : Same(d, b, s)
    BY <2>2 DEF Reports, Same
  <2>6. \A d \in b.agent.conns : Keeps(d, {}, b, s)
    BY <1>1, <2>5, SameKeeps
  <2>7. StillChanged(b, s)
    BY <1>1, <1>3, NoneIs DEF StillChanged
  <2> QED BY <1>1, <2>2, <2>3, <2>4, <2>5, <2>6, <2>7 DEF Calls, Reports, Alone, Quiet, Apart
<1>4. CASE b.agent.current = None /\ ~ b.agent.connected
  <2>1. s \in Then(Open(m, Default, b), LAMBDA t : {MakeCurrent(Default, t)})
    BY <1>4 DEF Connection
  <2>2. b.agent.conns = {}
    BY <1>1, <1>4, NoneIs DEF Alone
  <2>3. Default \in Conns \ b.agent.conns
    BY <2>2 DEF Conns
  <2>4. \A d \in Conns : ~ b.agent.active[d]
    BY <1>4, NoneIs DEF Good
  <2>5. /\ Calls({}, b, s) /\ s.published = b.published
        /\ \A d \in Conns \ {Default} : Same(d, b, s)
        /\ ~ Failed(s) => /\ s.agent.current = Default /\ Default \in s.agent.conns
                          /\ ~ s.agent.active[Default] /\ s.cli.tran[Default] # "changed"
    <3>1. b.agent.conns = {} \/ b.agent.connected
      BY <2>2
    <3> QED BY <2>1, <2>3, <2>4, <3>1, OpenCurrentIs
  <2>6. StillChanged(b, s)
    BY <2>2 DEF StillChanged
  <2> QED BY <1>4, <2>3, <2>5, <2>6 DEF Connects
<1> QED BY <1>2, <1>3, <1>4

(* What a statement does then on its connection.                           *)
Within(c, K, s, u) ==
  Works(c, s, u) /\ u.published = s.published /\ u.da = s.da /\ Keeps(c, K, s, u)
Does(c, K, s, u) == Within(c, K, s, u) /\ Fine(u, c)

(* Cursors and statements that are kept by two steps.                      *)
LEMMA KeepsOn ==
  ASSUME NEW c, NEW K, NEW s \in State, NEW t, NEW u, Works(c, s, t),
         Keeps(c, {}, s, t), Keeps(c, K, t, u)
  PROVE  Keeps(c, K, s, u)
<1>1. ~ Refused(s, c) => ~ Refused(t, c)
  BY RefusedOn
<1>2. \A k \in Cursors \ K : KeepsCursor(c, k, s, u)
  BY <1>1 DEF Keeps, KeepsCursor
<1>3. \A k \in Cursors : KeepsStatement(c, k, s, u)
  BY <1>1 DEF Keeps, KeepsCursor, KeepsStatement
<1> QED BY <1>2, <1>3 DEF Keeps

(* Keeping all cursors keeps those outside of K.                           *)
LEMMA KeepsLess ==
  ASSUME NEW c, NEW K, NEW s, NEW u, Keeps(c, {}, s, u)
  PROVE  Keeps(c, K, s, u)
BY DEF Keeps

(* Two pieces of work that keep the cursors of c.                          *)
LEMMA WithinOn ==
  ASSUME NEW c, NEW K, NEW s \in State, NEW t, NEW u, Within(c, {}, s, t), Within(c, K, t, u)
  PROVE  Within(c, K, s, u)
BY WorksOn, KeepsOn DEF Within

(* Work that touches no cursor and no statement keeps them.                *)
LEMMA SameWithin ==
  ASSUME NEW c, NEW K, NEW s \in State, NEW u, Works(c, s, u), SameStatements(c, s, u),
         u.published = s.published, u.da = s.da
  PROVE  Within(c, K, s, u)
BY DEF Within, SameStatements, Keeps, KeepsCursor, KeepsStatement

(* Work on the connection of vsql_m_connection is the effect of a whole    *)
(* call.                                                                   *)
LEMMA WorkEffects ==
  ASSUME NEW K, NEW b, Good(b), NEW s, Effects({}, b, s), Connects(b, s), NEW u,
         Works(s.agent.current, s, u), Keeps(s.agent.current, K, s, u), Fine(u, s.agent.current)
  PROVE  Effects(K, b, u)
<1> DEFINE c == s.agent.current
<1>1. b \in State /\ s \in State /\ b.agent.conns \subseteq Conns /\ s.agent.conns \subseteq Conns
  BY DEF Effects, Good, State, Agent
<1>2. Good(s) /\ Alone(s) /\ Apart(b, s) /\ c \in s.agent.conns
  BY DEF Effects, Connects
<1>3. Works(c, s, u) /\ Keeps(c, K, s, u) /\ Fine(u, c)
  OBVIOUS
<1>4. /\ u.agent.conns = s.agent.conns /\ u.agent.current = c
      /\ u.agent.connected = s.agent.connected
      /\ \A d \in Conns \ {c} : Same(d, s, u)
  BY <1>3 DEF Works
<1>5. Good(u)
  <2>1. u.agent.active[c] => c = s.agent.current
    OBVIOUS
  <2> HIDE DEF c
  <2> QED BY <1>2, <1>3, <2>1, WorkIsGood
<1>6. Alone(u)
  BY <1>2, <1>4 DEF Alone
<1>7. (c = b.agent.current /\ Works(c, b, s)) \/ c \notin b.agent.conns
  BY DEF Connects
<1> HIDE DEF c
<1>8. Apart(b, u)
  <2>1. u.agent.conns \ b.agent.conns \subseteq {u.agent.current}
    BY <1>2, <1>4 DEF Apart, c
  <2>2. ASSUME NEW d \in (b.agent.conns \cap u.agent.conns) \ {b.agent.current}
        PROVE  Same(d, b, u)
    <3>1. d # c /\ d \in Conns
      BY <1>1, <1>7
    <3>2. Same(d, b, s) /\ Same(d, s, u)
      BY <1>2, <1>4, <3>1 DEF Apart
    <3> QED BY <3>2 DEF Same
  <2> QED BY <2>1, <2>2 DEF Apart
<1>9. ASSUME NEW d \in b.agent.conns \cap u.agent.conns
      PROVE  Keeps(d, K, b, u)
  <2>1. Keeps(d, {}, b, s)
    BY <1>4 DEF Effects
  <2>2. CASE d = c
    <3>1. Works(c, b, s)
      BY <1>7, <2>2
    <3> QED BY <1>1, <1>3, <2>1, <2>2, <3>1, KeepsOn
  <2>3. CASE d # c
    <3>1. Same(d, s, u)
      BY <1>1, <1>4, <2>3
    <3> QED BY <2>1, <3>1 DEF Keeps, KeepsCursor, KeepsStatement, Same
  <2> QED BY <2>2, <2>3
<1> QED BY <1>5, <1>6, <1>8, <1>9 DEF Effects

(* The same for a procedure that ends no transaction.                      *)
LEMMA DoesCalls ==
  ASSUME NEW K, NEW b, Good(b), NEW s, Calls({}, b, s), Connects(b, s), NEW u,
         Does(s.agent.current, K, s, u)
  PROVE  Calls(K, b, u)
<1>1. Effects({}, b, s) /\ Quiet(b, s)
  BY CallsEffects
<1>2. /\ Works(s.agent.current, s, u) /\ Keeps(s.agent.current, K, s, u)
      /\ Fine(u, s.agent.current) /\ u.published = s.published /\ u.da = s.da
  BY DEF Does, Within
<1>3. Effects(K, b, u)
  BY <1>1, <1>2, WorkEffects
<1>4. Quiet(b, u)
  BY <1>1, <1>2 DEF Quiet
<1> QED BY <1>3, <1>4, CallsEffects

-----------------------------------------------------------------------------
(* A procedure that found its connection. *)
Ready(c, s) == s \in State /\ c \in Conns /\ ~ Failed(s) /\ Fine(s, c)

(* It's enough to look at what a procedure does once it has a connection.  *)
LEMMA ThenCalls ==
  ASSUME NEW m \in Modules, NEW b, Good(b), Alone(b), ~ Failed(b),
         NEW s \in Connection(m, b), NEW K, NEW u,
         Failed(s) => u = s,
         Ready(s.agent.current, s) => Does(s.agent.current, K, s, u)
  PROVE  Calls(K, b, u)
<1>1. Calls({}, b, s) /\ (~ Failed(s) => Connects(b, s))
  BY ConnectionIs
<1>2. CASE Failed(s)
  BY <1>1, <1>2 DEF Calls, Keeps
<1>3. CASE ~ Failed(s)
  <2>1. Good(s) /\ Connects(b, s)
    BY <1>1, <1>3 DEF Calls
  <2>2. Ready(s.agent.current, s)
    <3>1. s \in State /\ s.agent.current \in Conns
      BY <2>1 DEF Good, State, Agent, Connects
    <3> QED BY <1>3, <2>1, <3>1, GoodAll DEF Ready
  <2> QED BY <1>1, <2>1, <2>2, DoesCalls
<1> QED BY <1>2, <1>3

(* A procedure may raise an SQLSTATE at its end.                           *)
LEMMA ReportsDoes ==
  ASSUME NEW c, NEW K, NEW s, NEW t, NEW u, Does(c, K, s, t), Reports(t, u)
  PROVE  Does(c, K, s, u)
<1>1. t \in State /\ Works(c, s, t)
  BY DEF Does, Within, Works
<1>2. Works(c, t, u) /\ Same(c, t, u)
  BY <1>1, ReportsWorks
<1>3. Works(c, s, u)
  BY <1>1, <1>2, WorksOn
<1>4. Fine(u, c)
  BY <1>2, FineSame DEF Does
<1> QED BY <1>3, <1>4 DEF Does, Within, Reports, Keeps, KeepsCursor, KeepsStatement

(* A procedure that does nothing.                                          *)
LEMMA SelfDoes ==
  ASSUME NEW c, NEW K, NEW s, Ready(c, s)
  PROVE  Does(c, K, s, s)
BY WorksSelf, SameWithin DEF Ready, Does, SameStatements

(* The SQLSTATEs of the procedures.                                        *)
LEMMA CodesAre ==
  /\ "02000" \in Codes /\ "07002" \in Codes /\ "07003" \in Codes /\ "07005" \in Codes
  /\ "08001" \in Codes /\ "08002" \in Codes /\ "08003" \in Codes /\ "0A001" \in Codes
  /\ "21000" \in Codes /\ "22000" \in Codes /\ "24000" \in Codes /\ "25001" \in Codes
  /\ "26000" \in Codes /\ "28000" \in Codes /\ "2E000" \in Codes /\ "34000" \in Codes
  /\ "3F000" \in Codes /\ "40001" \in Codes /\ "40002" \in Codes /\ "42000" \in Codes
  /\ "58030" \in Codes /\ "HY010" \in Codes
BY DEF Codes

(* A procedure may raise any of them at its end.                           *)
LEMMA RaiseDoes ==
  ASSUME NEW c, NEW K, NEW s, NEW t, NEW code \in Codes, Does(c, K, s, t)
  PROVE  Does(c, K, s, Raise(code, t)) /\ Raise(code, t).sqlstate = code
<1>1. t \in State
  BY DEF Does, Within, Works
<1>2. Reports(t, Raise(code, t)) /\ Raise(code, t).sqlstate = code
  BY <1>1, RaiseReports
<1> QED BY <1>2, ReportsDoes

(* A procedure that only changes the CLI's current connection.             *)
LEMMA SameDoes ==
  ASSUME NEW c, NEW K, NEW s, Ready(c, s), NEW t, Works(c, s, t), Same(c, s, t),
         t.published = s.published, t.da = s.da
  PROVE  Does(c, K, s, t)
<1>1. SameStatements(c, s, t)
  BY DEF Same, SameStatements
<1>2. Fine(t, c)
  BY FineSame DEF Ready
<1> QED BY <1>1, <1>2, SameWithin DEF Does, Ready

(* A procedure that calls a routine of the CLI.                            *)
LEMMA InvokeDoes ==
  ASSUME NEW c, NEW K, NEW s, Ready(c, s), NEW t \in Invoke(c, s)
  PROVE  Does(c, K, s, t) /\ Same(c, s, t) /\ Works(c, s, t) /\ (~ Failed(t) => Ready(c, t))
<1>1. Invokes(c, s, t)
  BY InvokeIs DEF Ready
<1>2. Does(c, K, s, t)
  BY <1>1, SameDoes DEF Invokes
<1> QED BY <1>1, <1>2 DEF Invokes, Ready, Does, Works

(* A procedure that prepares a text.                                       *)
LEMMA PrepareDoes ==
  ASSUME NEW c, NEW K, NEW s, Ready(c, s), NEW t \in CliPrepare(c, s)
  PROVE  Does(c, K, s, t) /\ Same(c, s, t) /\ Works(c, s, t) /\ (~ Failed(t) => Ready(c, t))
<1>1. Prepares(c, s, t)
  BY PrepareIs DEF Ready
<1>2. Does(c, K, s, t)
  BY <1>1, SameDoes DEF Prepares
<1> QED BY <1>1, <1>2 DEF Prepares, Ready, Does, Works

(* Whatever a statement does in a transaction that the agent takes for     *)
(* started.                                                                *)
LEMMA RunsDoes ==
  ASSUME NEW c, NEW K, NEW s, Ready(c, s), NEW u, Runs(c, s, u), u.agent.active[c]
  PROVE  Does(c, K, s, u)
<1>1. Within(c, K, s, u)
  BY SameWithin DEF Runs, Ready
<1>2. Fine(u, c)
  BY DEF Ready, Runs, SameStatements, Fine, Noticed, CursorsHeld, Rests
<1> QED BY <1>1, <1>2 DEF Does

(* Executing a text after the agent took a transaction for started.        *)
LEMMA RunActiveIs ==
  ASSUME NEW c, NEW s, Ready(c, s), NEW text, NEW u \in Run(c, text, Activate(c, s))
  PROVE  Runs(c, s, u) /\ u.agent.active[c]
<1> DEFINE t == Activate(c, s)
<1>1. Runs(c, s, t) /\ t \in State /\ t.agent.active[c]
  BY ActivateIs DEF Ready, Runs, Works
<1> HIDE DEF t
<1>2. Runs(c, t, u) /\ u.agent = t.agent
  <2>1. c \in Conns /\ u \in Run(c, text, t)
    BY DEF t, Ready
  <2> QED BY <1>1, <2>1, RunIs
<1> QED BY <1>1, <1>2, RunsOn

(* A procedure in two parts.                                               *)
LEMMA DoesOn ==
  ASSUME NEW c, NEW K, NEW s \in State, NEW t, NEW u, Does(c, {}, s, t), Does(c, K, t, u)
  PROVE  Does(c, K, s, u)
BY WithinOn DEF Does

(* vsql_m_exec: what it starts is noticed.                                 *)
LEMMA ExecDoes ==
  ASSUME NEW c, NEW s, Ready(c, s), NEW text, NEW u \in Exec(c, text, s)
  PROVE  Does(c, {}, s, u)
<1>1. PICK t \in CliPrepare(c, s) : \/ Failed(t) /\ u = t
                                    \/ ~ Failed(t) /\ u \in Run(c, text, Activate(c, t))
  BY DEF Exec, Then
<1>2. Does(c, {}, s, t) /\ (~ Failed(t) => Ready(c, t))
  BY PrepareDoes
<1>3. CASE ~ Failed(t) /\ u \in Run(c, text, Activate(c, t))
  <2>1. Does(c, {}, t, u)
    BY <1>2, <1>3, RunActiveIs, RunsDoes
  <2> QED BY <1>2, <2>1, DoesOn DEF Ready
<1> QED BY <1>1, <1>2, <1>3

-----------------------------------------------------------------------------
(* Cursors. *)
SetsCursor(c, k, x, s, u) ==
  /\ Works(c, s, u)
  /\ u.agent = s.agent /\ u.published = s.published /\ u.da = s.da /\ u.sqlstate = s.sqlstate
  /\ u.cli.current = s.cli.current /\ u.cli.tran = s.cli.tran /\ u.cli.stuck = s.cli.stuck
  /\ u.cli.prepared = s.cli.prepared
  /\ u.cli.cursor[c][k] = x
  /\ \A l \in Cursors \ {k} : u.cli.cursor[c][l] = s.cli.cursor[c][l]

(* Changing one cursor of c.                                               *)
LEMMA SetCursorIs ==
  ASSUME NEW c \in Conns, NEW k \in Cursors, NEW x \in CursorState, NEW s \in State, NEW u,
         u = [s EXCEPT !.cli.cursor[c][k] = x]
  PROVE  SetsCursor(c, k, x, s, u)
<1>1. /\ u \in State /\ u.agent = s.agent /\ u.published = s.published /\ u.da = s.da
      /\ u.sqlstate = s.sqlstate
  BY DEF State, Cli
<1>2. /\ u.cli.current = s.cli.current /\ u.cli.tran = s.cli.tran
      /\ u.cli.stuck = s.cli.stuck /\ u.cli.prepared = s.cli.prepared
  BY DEF State, Cli
<1>3. u.cli.cursor = [s.cli.cursor EXCEPT ![c] = [s.cli.cursor[c] EXCEPT ![k] = x]]
  BY DEF State, Cli
<1>4. s.cli.cursor \in [Conns -> [Cursors -> CursorState]]
  BY DEF State, Cli
<1>5. /\ \A d \in Conns \ {c} : u.cli.cursor[d] = s.cli.cursor[d]
      /\ u.cli.cursor[c] = [s.cli.cursor[c] EXCEPT ![k] = x]
  BY <1>3, <1>4
<1>6. /\ u.cli.cursor[c][k] = x
      /\ \A l \in Cursors \ {k} : u.cli.cursor[c][l] = s.cli.cursor[c][l]
  BY <1>4, <1>5
<1>7. Works(c, s, u)
  BY <1>1, <1>2, <1>5 DEF Works, Same
<1> QED BY <1>1, <1>2, <1>6, <1>7 DEF SetsCursor

(* The states of a cursor.                                                 *)
LEMMA CursorStateIs ==
  /\ None \in CursorState /\ "fresh" \in CursorState /\ "closed" \in CursorState
  /\ "leaked" \in CursorState /\ Queries \subseteq CursorState
BY DEF CursorState

(* Fine, but the CLI statement of k wasn't executed. *)
FineBut(s, c, k) ==
  /\ Noticed(s, c) /\ CursorsHeld(s, c)
  /\ \A l \in Cursors \ {k} : s.cli.cursor[c][l] # "fresh"
  /\ \A p \in Statements : ~ s.cli.prepared[c][p].open

(* On the way to open k nothing else is changed, and k isn't open.         *)
Opening(c, k, s, t) ==
  /\ Works(c, s, t) /\ t.published = s.published /\ t.da = s.da
  /\ t.cli.prepared[c] = s.cli.prepared[c]
  /\ \A l \in Cursors \ {k} : t.cli.cursor[c][l] = s.cli.cursor[c][l]
  /\ ~ Refused(s, c) => ~ IsOpen(s.cli.cursor[c][k])
  /\ Noticed(t, c)
  /\ \A l \in Cursors \ (Holdable \cup {k}) : IsOpen(t.cli.cursor[c][l]) => t.agent.active[c]

(* A cursor that was being opened gets a state that may last.              *)
LEMMA OpeningEnds ==
  ASSUME NEW c \in Conns, NEW k \in Cursors, NEW s, FineBut(s, c, k), NEW t, Opening(c, k, s, t),
         NEW x \in CursorState, x # "fresh", x \in Queries => t.agent.active[c],
         NEW u, SetsCursor(c, k, x, t, u)
  PROVE  Does(c, {}, s, u)
<1>1. Works(c, s, u)
  <2>1. Works(c, s, t) /\ Works(c, t, u)
    BY DEF Opening, SetsCursor
  <2> QED BY <2>1, WorksOn
<1>2. u.published = s.published /\ u.da = s.da /\ u.cli.prepared[c] = s.cli.prepared[c]
  BY DEF Opening, SetsCursor
<1>3. \A l \in Cursors \ {k} : u.cli.cursor[c][l] = s.cli.cursor[c][l]
  BY DEF Opening, SetsCursor
<1>4. Keeps(c, {}, s, u)
  BY <1>2, <1>3 DEF Keeps, KeepsCursor, KeepsStatement, Opening
<1>5. Noticed(u, c)
  BY DEF Opening, SetsCursor, Noticed
<1>6. CursorsHeld(u, c)
  BY DEF Opening, SetsCursor, CursorsHeld, IsOpen
<1>7. Rests(u, c)
  BY <1>2, <1>3 DEF SetsCursor, FineBut, Rests
<1> QED BY <1>1, <1>2, <1>4, <1>5, <1>6, <1>7 DEF Does, Within, Fine

(* vsql_m_cursor: a new CLI statement is the only one that wasn't          *)
(* executed.                                                               *)
LEMMA OpeningCursorIs ==
  ASSUME NEW c, NEW s, Ready(c, s), NEW k \in Cursors, NEW u \in OpeningCursor(c, k, s)
  PROVE  /\ Failed(u) => Does(c, {}, s, u)
         /\ ~ Failed(u) => Within(c, {}, s, u) /\ FineBut(u, c, k)
<1>1. CASE u = s
  <2>1. Does(c, {}, s, u)
    BY <1>1, SelfDoes
  <2> QED BY <2>1 DEF Does, Fine, Rests, FineBut
<1>2. CASE \E t \in Invoke(c, s) : \/ u = t /\ Failed(t)
                                   \/ u = Raise("34000", t)
  <2>1. PICK t \in Invoke(c, s) : (u = t /\ Failed(t)) \/ u = Raise("34000", t)
    BY <1>2
  <2>2. Does(c, {}, s, t)
    BY InvokeDoes
  <2>3. CASE u = Raise("34000", t)
    <3>1. Does(c, {}, s, u) /\ u.sqlstate = "34000"
      BY <2>2, <2>3, RaiseDoes, CodesAre
    <3> QED BY <3>1 DEF Failed, Success
  <2> QED BY <2>1, <2>2, <2>3
<1>3. CASE ~ HasCursor(c, k, s) /\ \E t \in Invoke(c, s) :
             ~ Failed(t) /\ u = SetCursor(c, k, "fresh", t)
  <2>1. PICK t \in Invoke(c, s) : ~ Failed(t) /\ u = SetCursor(c, k, "fresh", t)
    BY <1>3
  <2>2. Does(c, {}, s, t) /\ Same(c, s, t) /\ Ready(c, t)
    BY <2>1, InvokeDoes
  <2>3. SetsCursor(c, k, "fresh", t, u)
    BY <2>1, <2>2, SetCursorIs, CursorStateIs DEF Ready, SetCursor
  <2>4. ~ IsOpen(s.cli.cursor[c][k])
    BY <1>3, NoneIs, FreshIs DEF HasCursor, IsOpen
  <2>5. Within(c, {}, t, u)
    <3>1. /\ Works(c, t, u) /\ u.published = t.published /\ u.da = t.da
          /\ u.cli.prepared = t.cli.prepared
          /\ \A l \in Cursors \ {k} : u.cli.cursor[c][l] = t.cli.cursor[c][l]
      BY <2>3 DEF SetsCursor
    <3>2. ~ IsOpen(t.cli.cursor[c][k])
      BY <2>2, <2>4 DEF Same
    <3> QED BY <3>1, <3>2 DEF Within, Keeps, KeepsCursor, KeepsStatement
  <2>6. Within(c, {}, s, u)
    BY <2>2, <2>5, WithinOn DEF Does, Ready
  <2>7. FineBut(u, c, k)
    <3>1. Noticed(t, c) /\ CursorsHeld(t, c) /\ Rests(t, c)
      BY <2>2 DEF Ready, Fine
    <3>2. Noticed(u, c)
      BY <2>3, <3>1 DEF Noticed, SetsCursor
    <3>3. CursorsHeld(u, c)
      BY <2>3, <3>1, FreshIs DEF CursorsHeld, SetsCursor, IsOpen
    <3> QED BY <2>3, <3>1, <3>2, <3>3 DEF FineBut, Rests, SetsCursor
  <2>8. ~ Failed(u)
    BY <2>1, <2>3 DEF SetsCursor, Failed
  <2> QED BY <2>6, <2>7, <2>8
<1> QED BY <1>1, <1>2, <1>3 DEF OpeningCursor, Then

(* A CLI statement is freed, or leaked if the CLI refuses c.               *)
LEMMA FreeCursorIs ==
  ASSUME NEW c \in Conns, NEW k \in Cursors, NEW s \in State
  PROVE  \E x \in {None, "leaked"} : SetsCursor(c, k, x, s, FreeCursor(c, k, s))
<1>1. \E x \in {None, "leaked"} : FreeCursor(c, k, s) = [s EXCEPT !.cli.cursor[c][k] = x]
  BY DEF FreeCursor
<1> QED BY <1>1, SetCursorIs, CursorStateIs

(* An OPEN that fails half way leaves no CLI statement that wasn't         *)
(* executed, and no open cursor is opened again.                           *)
LEMMA OpenWithIs ==
  ASSUME NEW c \in Conns, NEW k \in Cursors, NEW text \in Queries, NEW s \in State,
         ~ Failed(s), FineBut(s, c, k), NEW u \in OpenWith(c, k, text, s)
  PROVE  Does(c, {}, s, u)
<1>1. CASE IsOpen(s.cli.cursor[c][k]) /\ u = Raise("24000", s)
  <2>1. Ready(c, s)
    BY <1>1, FreshIs DEF FineBut, Ready, Fine, Rests, IsOpen
  <2> QED BY <1>1, <2>1, SelfDoes, RaiseDoes, CodesAre
<1>2. CASE /\ ~ Refused(s, c) => ~ IsOpen(s.cli.cursor[c][k])
           /\ \E t \in CliPrepare(c, s) :
                \/ Failed(t) /\ u = FreeCursor(c, k, t)
                \/ ~ Failed(t) /\ \E r \in Run(c, text, Activate(c, SetCursor(c, k, "fresh", t))) :
                     \E v : /\ \/ Failed(r) /\ v = r
                               \/ ~ Failed(r) /\ v = SetCursor(c, k, text, r)
                            /\ u = IF Failed(v) THEN FreeCursor(c, k, v) ELSE v
  <2>1. PICK t \in CliPrepare(c, s) :
                \/ Failed(t) /\ u = FreeCursor(c, k, t)
                \/ ~ Failed(t) /\ \E r \in Run(c, text, Activate(c, SetCursor(c, k, "fresh", t))) :
                     \E v : /\ \/ Failed(r) /\ v = r
                               \/ ~ Failed(r) /\ v = SetCursor(c, k, text, r)
                            /\ u = IF Failed(v) THEN FreeCursor(c, k, v) ELSE v
    BY <1>2
  <2>2. Prepares(c, s, t) /\ t \in State
    BY PrepareIs DEF Prepares, Works
  <2>3. Opening(c, k, s, t)
    BY <1>2, <2>2 DEF Prepares, Opening, Same, FineBut, Noticed, CursorsHeld
  <2>4. CASE Failed(t) /\ u = FreeCursor(c, k, t)
    <3>1. PICK x \in {None, "leaked"} : SetsCursor(c, k, x, t, u)
      BY <2>2, <2>4, FreeCursorIs
    <3>2. x \in CursorState /\ x # "fresh" /\ x \notin Queries
      BY <3>1, CursorStateIs, NoneIs, FreshIs
    <3> QED BY <2>3, <3>1, <3>2, OpeningEnds
  <2>5. CASE \E r \in Run(c, text, Activate(c, SetCursor(c, k, "fresh", t))) :
               \E v : /\ \/ Failed(r) /\ v = r
                         \/ ~ Failed(r) /\ v = SetCursor(c, k, text, r)
                      /\ u = IF Failed(v) THEN FreeCursor(c, k, v) ELSE v
    <3> DEFINE p == SetCursor(c, k, "fresh", t)
               a == Activate(c, p)
    <3>1. PICK r, v :
            /\ r \in Run(c, text, a)
            /\ \/ Failed(r) /\ v = r
               \/ ~ Failed(r) /\ v = SetCursor(c, k, text, r)
            /\ u = IF Failed(v) THEN FreeCursor(c, k, v) ELSE v
      BY <2>5
    <3>2. SetsCursor(c, k, "fresh", t, p)
      BY <2>2, SetCursorIs, CursorStateIs DEF SetCursor
    <3> HIDE DEF p
    <3>3. Runs(c, p, a) /\ a \in State /\ a.agent.active[c] /\ p \in State
      BY <3>2, ActivateIs DEF SetsCursor, Works, Runs
    <3> HIDE DEF a
    <3>4. Runs(c, a, r) /\ r.agent = a.agent
      BY <3>1, <3>3, RunIs
    <3>5. Runs(c, p, r) /\ r.agent.active[c] /\ r \in State
      BY <3>3, <3>4, RunsOn DEF Runs, Works
    <3>6. Opening(c, k, s, r)
      <4>1. Works(c, s, r)
        <5>1. Works(c, s, t) /\ Works(c, t, p) /\ Works(c, p, r)
          BY <2>3, <3>2, <3>5 DEF Opening, SetsCursor, Runs
        <5>2. Works(c, s, p)
          BY <5>1, WorksOn
        <5> QED BY <5>1, <5>2, WorksOn
      <4>2. /\ r.published = s.published /\ r.da = s.da
            /\ r.cli.prepared[c] = s.cli.prepared[c]
            /\ \A l \in Cursors \ {k} : r.cli.cursor[c][l] = s.cli.cursor[c][l]
        BY <2>3, <3>2, <3>5 DEF Opening, SetsCursor, Runs, SameStatements
      <4> QED BY <1>2, <3>5, <4>1, <4>2 DEF Opening, Noticed
    <3>7. CASE Failed(r) /\ v = r
      <4>1. PICK x \in {None, "leaked"} : SetsCursor(c, k, x, r, u)
        BY <3>1, <3>5, <3>7, FreeCursorIs
      <4>2. x \in CursorState /\ x # "fresh" /\ x \notin Queries
        BY <4>1, CursorStateIs, NoneIs, FreshIs
      <4> QED BY <3>6, <4>1, <4>2, OpeningEnds
    <3>8. CASE ~ Failed(r) /\ v = SetCursor(c, k, text, r)
      <4>1. text \in CursorState /\ text # "fresh"
        BY CursorStateIs, FreshIs
      <4>2. SetsCursor(c, k, text, r, v)
        BY <3>5, <3>8, <4>1, SetCursorIs DEF SetCursor
      <4>3. u = v
        BY <3>1, <3>8, <4>2 DEF SetsCursor, Failed
      <4> QED BY <3>5, <3>6, <4>1, <4>2, <4>3, OpeningEnds
    <3> QED BY <3>1, <3>7, <3>8
  <2> QED BY <2>1, <2>4, <2>5
<1>3. \/ IsOpen(s.cli.cursor[c][k]) /\ u = Raise("24000", s)
      \/ /\ ~ Refused(s, c) => ~ IsOpen(s.cli.cursor[c][k])
         /\ \E t \in CliPrepare(c, s) :
                \/ Failed(t) /\ u = FreeCursor(c, k, t)
                \/ ~ Failed(t) /\ \E r \in Run(c, text, Activate(c, SetCursor(c, k, "fresh", t))) :
                     \E v : /\ \/ Failed(r) /\ v = r
                               \/ ~ Failed(r) /\ v = SetCursor(c, k, text, r)
                            /\ u = IF Failed(v) THEN FreeCursor(c, k, v) ELSE v
  <2> DEFINE opened(t) == Then(Run(c, text, Activate(c, t)), LAMBDA w : {SetCursor(c, k, text, w)})
             open == Then(CliPrepare(c, s), LAMBDA t : opened(SetCursor(c, k, "fresh", t)))
  <2>1. CASE ~ Refused(s, c) /\ IsOpen(s.cli.cursor[c][k])
    BY <2>1 DEF OpenWith
  <2>2. CASE ~ (~ Refused(s, c) /\ IsOpen(s.cli.cursor[c][k]))
    <3>1. PICK v \in open : u = IF Failed(v) THEN FreeCursor(c, k, v) ELSE v
      BY <2>2 DEF OpenWith
    <3>2. PICK t \in CliPrepare(c, s) : \/ Failed(t) /\ v = t
                                        \/ ~ Failed(t) /\ v \in opened(SetCursor(c, k, "fresh", t))
      BY <3>1 DEF Then
    <3>3. CASE ~ Failed(t)
      <4>1. PICK r \in Run(c, text, Activate(c, SetCursor(c, k, "fresh", t))) :
              \/ Failed(r) /\ v = r
              \/ ~ Failed(r) /\ v = SetCursor(c, k, text, r)
        BY <3>2, <3>3 DEF Then
      <4> QED BY <2>2, <3>1, <3>2, <3>3, <4>1
    <3> QED BY <2>2, <3>1, <3>2, <3>3
  <2> QED BY <2>1, <2>2
<1> QED BY <1>1, <1>2, <1>3

(* OPEN as a whole.                                                        *)
LEMMA OpenDoes ==
  ASSUME NEW c, NEW s, Ready(c, s), NEW k \in Cursors, NEW text \in Queries, NEW t, NEW u,
         t \in OpeningCursor(c, k, s),
         \/ Failed(t) /\ u = t
         \/ ~ Failed(t) /\ u \in OpenWith(c, k, text, t)
  PROVE  Does(c, {}, s, u)
<1>1. CASE Failed(t) /\ u = t
  BY <1>1, OpeningCursorIs
<1>2. CASE ~ Failed(t) /\ u \in OpenWith(c, k, text, t)
  <2>1. Within(c, {}, s, t) /\ FineBut(t, c, k)
    BY <1>2, OpeningCursorIs
  <2>2. c \in Conns /\ s \in State /\ t \in State
    BY <2>1 DEF Ready, Within, Works
  <2>3. Does(c, {}, t, u)
    BY <1>2, <2>1, <2>2, OpenWithIs
  <2> QED BY <2>1, <2>2, <2>3, WithinOn DEF Does
<1> QED BY <1>1, <1>2

-----------------------------------------------------------------------------
(* The actions.  Between two calls: *)
Between ==
  /\ Good(Begin) /\ Alone(Begin)
  /\ da \in [committed : BOOLEAN, rolledBack : BOOLEAN]
  /\ published \in BOOLEAN /\ running \in BOOLEAN
  /\ ~ running => agent.conns = {}

Becomes(u) == agent' = u.agent /\ cli' = u.cli /\ da' = u.da /\ published' = u.published

Step(K) == \E b, u : /\ b = Begin /\ Calls(K, b, u) /\ Becomes(u)
                     /\ running /\ running' = running

(* A call starts from a state that is in order.                            *)
LEMMA BeginIs ==
  ASSUME Between
  PROVE  \E b : b = Begin /\ Good(b) /\ Alone(b) /\ ~ Failed(b) /\ b.published = FALSE
BY DEF Between, Begin, Failed

(* vsql_m_run and vsql_m_execute. *)
LEMMA ExecuteStep ==
  ASSUME Between, NEW m \in Modules, NEW text, Execute(m, text)
  PROVE  Step({})
<1>1. PICK b : b = Begin /\ Good(b) /\ Alone(b) /\ ~ Failed(b) /\ b.published = FALSE
  BY BeginIs
<1>2. PICK s, u :
        /\ s \in Connection(m, b)
        /\ \/ Failed(s) /\ u = s
           \/ ~ Failed(s) /\
              u \in Exec(s.agent.current, text, s)
        /\ Becomes(u) /\ running /\ running' = running
  BY <1>1 DEF Execute, WithConnection, Finish, Become, Becomes, Then
<1> DEFINE c == s.agent.current
<1>4. ASSUME Ready(c, s)
      PROVE  Does(c, {}, s, u)
  BY <1>2, <1>4, ExecDoes DEF Ready
<1>5. Calls({}, b, u)
  BY <1>1, <1>2, <1>4, ThenCalls
<1> QED BY <1>1, <1>2, <1>5 DEF Step

(* vsql_m_select. *)
LEMMA SelectStep ==
  ASSUME Between, NEW m \in Modules, NEW text, Select(m, text)
  PROVE  Step({})
<1>1. PICK b : b = Begin /\ Good(b) /\ Alone(b) /\ ~ Failed(b) /\ b.published = FALSE
  BY BeginIs
<1>2. PICK s, u :
        /\ s \in Connection(m, b)
        /\ \/ Failed(s) /\ u = s
           \/ ~ Failed(s) /\
              \E t \in Exec(s.agent.current, text, s) :
                \/ u = t
                \/ u = Raise("02000", t) \/ u = Raise("21000", t)
        /\ Becomes(u) /\ running /\ running' = running
  BY <1>1 DEF Select, WithConnection, Finish, Become, Becomes, Then
<1> DEFINE c == s.agent.current
<1>4. ASSUME Ready(c, s)
      PROVE  Does(c, {}, s, u)
  <2>1. PICK t \in Exec(c, text, s) :
          \/ u = t
          \/ u = Raise("02000", t) \/ u = Raise("21000", t)
    BY <1>2, <1>4 DEF Ready
  <2> HIDE DEF c
  <2>2. Does(c, {}, s, t)
    BY <1>4, ExecDoes
  <2>3. CASE u = Raise("02000", t)
    BY <2>2, <2>3, RaiseDoes, CodesAre
  <2>4. CASE u = Raise("21000", t)
    BY <2>2, <2>4, RaiseDoes, CodesAre
  <2> QED BY <2>1, <2>2, <2>3, <2>4
<1>5. Calls({}, b, u)
  BY <1>1, <1>2, <1>4, ThenCalls
<1> QED BY <1>1, <1>2, <1>5 DEF Step

(* vsql_m_execute_immediate. *)
LEMMA ExecuteImmediateStep ==
  ASSUME Between, NEW m \in Modules, NEW text, ExecuteImmediate(m, text)
  PROVE  Step({})
<1>1. PICK b : b = Begin /\ Good(b) /\ Alone(b) /\ ~ Failed(b) /\ b.published = FALSE
  BY BeginIs
<1>2. PICK s, u :
        /\ s \in Connection(m, b)
        /\ \/ Failed(s) /\ u = s
           \/ ~ Failed(s) /\
              \/ u \in Exec(s.agent.current, text, s)
              \/ \E t \in CliPrepare(s.agent.current, s) : u = t \/ u = Raise("42000", t)
        /\ Becomes(u) /\ running /\ running' = running
  BY <1>1 DEF ExecuteImmediate, WithConnection, Finish, Become, Becomes, Then
<1> DEFINE c == s.agent.current
<1>4. ASSUME Ready(c, s)
      PROVE  Does(c, {}, s, u)
  <2> HIDE DEF c
  <2>1. CASE u \in Exec(c, text, s)
    BY <1>4, <2>1, ExecDoes
  <2>2. ASSUME NEW t \in CliPrepare(c, s), u = t \/ u = Raise("42000", t)
        PROVE  Does(c, {}, s, u)
    <3>1. Does(c, {}, s, t)
      BY <1>4, PrepareDoes
    <3>2. CASE u = Raise("42000", t)
      BY <3>1, <3>2, RaiseDoes, CodesAre
    <3> QED BY <2>2, <3>1, <3>2
  <2> QED BY <1>2, <1>4, <2>1, <2>2 DEF Ready, c
<1>5. Calls({}, b, u)
  BY <1>1, <1>2, <1>4, ThenCalls
<1> QED BY <1>1, <1>2, <1>5 DEF Step

(* vsql_m_start. *)
LEMMA StartStep ==
  ASSUME Between, NEW m \in Modules, Start(m)
  PROVE  Step({})
<1>1. PICK b : b = Begin /\ Good(b) /\ Alone(b) /\ ~ Failed(b) /\ b.published = FALSE
  BY BeginIs
<1>2. PICK s, u :
        /\ s \in Connection(m, b)
        /\ \/ Failed(s) /\ u = s
           \/ ~ Failed(s) /\
              LET c == s.agent.current IN
              \/ u = Raise("25001", s)
              \/ \E t \in Invoke(c, s) : \/ u = t \/ u = Raise("58030", t)
                                         \/ ~ Failed(t) /\ u = Activate(c, Started(c, t))
        /\ Becomes(u) /\ running /\ running' = running
  BY <1>1 DEF Start, WithConnection, Finish, Become, Becomes, Then
<1> DEFINE c == s.agent.current
<1>4. ASSUME Ready(c, s)
      PROVE  Does(c, {}, s, u)
  <2> HIDE DEF c
  <2>1. CASE u = Raise("25001", s)
    BY <1>4, <2>1, SelfDoes, RaiseDoes, CodesAre
  <2>2. ASSUME NEW t \in Invoke(c, s), u = t \/ u = Raise("58030", t)
        PROVE  Does(c, {}, s, u)
    <3>1. Does(c, {}, s, t)
      BY <1>4, InvokeDoes
    <3>2. CASE u = Raise("58030", t)
      BY <3>1, <3>2, RaiseDoes, CodesAre
    <3> QED BY <2>2, <3>1, <3>2
  <2>3. ASSUME NEW t \in Invoke(c, s), ~ Failed(t), u = Activate(c, Started(c, t))
        PROVE  Does(c, {}, s, u)
    <3> DEFINE v == Started(c, t)
    <3>1. Does(c, {}, s, t) /\ Ready(c, t)
      BY <1>4, <2>3, InvokeDoes
    <3>2. Runs(c, t, v) /\ v \in State
      BY <3>1, StartedIs DEF Ready, Runs, Works
    <3> HIDE DEF v
    <3>3. Runs(c, v, u) /\ u.agent.active[c]
      BY <2>3, <3>1, <3>2, ActivateIs DEF v, Ready
    <3>4. Does(c, {}, t, u)
      BY <3>1, <3>2, <3>3, RunsOn, RunsDoes
    <3> QED BY <1>4, <3>1, <3>4, DoesOn DEF Ready
  <2> QED BY <1>2, <1>4, <2>1, <2>2, <2>3 DEF Ready, c
<1>5. Calls({}, b, u)
  BY <1>1, <1>2, <1>4, ThenCalls
<1> QED BY <1>1, <1>2, <1>5 DEF Step

(* vsql_m_open_cursor. *)
LEMMA OpenCursorStep ==
  ASSUME Between, NEW k \in Cursors, OpenCursor(k)
  PROVE  Step({})
<1>1. PICK b : b = Begin /\ Good(b) /\ Alone(b) /\ ~ Failed(b) /\ b.published = FALSE
  BY BeginIs
<1>2. PICK s, u :
        /\ s \in Connection(Home[k], b)
        /\ \/ Failed(s) /\ u = s
           \/ ~ Failed(s) /\
              \E t \in OpeningCursor(s.agent.current, k, s) :
                \/ Failed(t) /\ u = t
                \/ ~ Failed(t) /\ u \in OpenWith(t.agent.current, k, Query[k], t)
        /\ Becomes(u) /\ running /\ running' = running
  BY <1>1 DEF OpenCursor, WithConnection, Finish, Become, Becomes, Then
<1>3. Home[k] \in Modules
  BY SqlAgentAssumption
<1> DEFINE c == s.agent.current
<1>4. ASSUME Ready(c, s)
      PROVE  Does(c, {}, s, u)
  <2> HIDE DEF c
  <2>1. Query[k] \in Queries
    BY SqlAgentAssumption DEF OpenCursor
  <2>2. PICK t \in OpeningCursor(c, k, s) :
          \/ Failed(t) /\ u = t
          \/ ~ Failed(t) /\ u \in OpenWith(t.agent.current, k, Query[k], t)
    BY <1>2, <1>4 DEF Ready, c
  <2>3. ~ Failed(t) => t.agent.current = c
    BY <1>4, OpeningCursorIs DEF Within, Works, c
  <2> QED BY <1>4, <2>1, <2>2, <2>3, OpenDoes
<1>5. Calls({}, b, u)
  BY <1>1, <1>2, <1>3, <1>4, ThenCalls
<1> QED BY <1>1, <1>2, <1>5 DEF Step

(* vsql_m_fetch and vsql_m_fetch_dynamic. *)
LEMMA FetchStep ==
  ASSUME Between, NEW k \in Cursors, Fetch(k)
  PROVE  Step({})
<1>1. PICK b : b = Begin /\ Good(b) /\ Alone(b) /\ ~ Failed(b) /\ b.published = FALSE
  BY BeginIs
<1>2. PICK s, u :
        /\ s \in Connection(Home[k], b)
        /\ \/ Failed(s) /\ u = s
           \/ ~ Failed(s) /\
              \/ u = Raise("24000", s)
              \/ \E t \in Invoke(s.agent.current, s) :
                   \/ u = t
                   \/ \E code \in {"HY010", "02000", "07002", "24000"} : u = Raise(code, t)
        /\ Becomes(u) /\ running /\ running' = running
  BY <1>1 DEF Fetch, WithCursor, WithConnection, Finish, Become, Becomes, Then
<1>3. Home[k] \in Modules
  BY SqlAgentAssumption
<1> DEFINE c == s.agent.current
<1>4. ASSUME Ready(c, s)
      PROVE  Does(c, {}, s, u)
  <2> HIDE DEF c
  <2>1. CASE u = Raise("24000", s)
    BY <1>4, <2>1, SelfDoes, RaiseDoes, CodesAre
  <2>2. ASSUME NEW t \in Invoke(c, s),
               u = t \/ \E code \in {"HY010", "02000", "07002", "24000"} : u = Raise(code, t)
        PROVE  Does(c, {}, s, u)
    <3>1. Does(c, {}, s, t)
      BY <1>4, InvokeDoes
    <3>2. {"HY010", "02000", "07002", "24000"} \subseteq Codes
      BY CodesAre
    <3> QED BY <2>2, <3>1, <3>2, RaiseDoes
  <2> QED BY <1>2, <1>4, <2>1, <2>2 DEF Ready, c
<1>5. Calls({}, b, u)
  BY <1>1, <1>2, <1>3, <1>4, ThenCalls
<1> QED BY <1>1, <1>2, <1>5 DEF Step

(* vsql_m_close_cursor. *)
LEMMA CloseCursorStep ==
  ASSUME Between, NEW k \in Cursors, CloseCursor(k)
  PROVE  Step({k})
<1>1. PICK b : b = Begin /\ Good(b) /\ Alone(b) /\ ~ Failed(b) /\ b.published = FALSE
  BY BeginIs
<1>2. PICK s, u :
        /\ s \in Connection(Home[k], b)
        /\ \/ Failed(s) /\ u = s
           \/ ~ Failed(s) /\
              LET c == s.agent.current IN
              \/ u = Raise("24000", s)
              \/ \E t \in Invoke(c, s) :
                   \/ u = t
                   \/ u = Raise("HY010", t) \/ u = Raise("24000", t)
                   \/ ~ Failed(t) /\ u = SetCursor(c, k, "closed", t)
        /\ Becomes(u) /\ running /\ running' = running
  BY <1>1 DEF CloseCursor, WithCursor, WithConnection, Finish, Become, Becomes, Then
<1>3. Home[k] \in Modules
  BY SqlAgentAssumption
<1> DEFINE c == s.agent.current
<1>4. ASSUME Ready(c, s)
      PROVE  Does(c, {k}, s, u)
  <2> HIDE DEF c
  <2>1. CASE u = Raise("24000", s)
    BY <1>4, <2>1, SelfDoes, RaiseDoes, CodesAre
  <2>2. ASSUME NEW t \in Invoke(c, s), \/ u = t
                                      \/ u = Raise("HY010", t) \/ u = Raise("24000", t)
        PROVE  Does(c, {k}, s, u)
    <3>1. Does(c, {k}, s, t)
      BY <1>4, InvokeDoes
    <3>2. CASE u = Raise("HY010", t)
      BY <3>1, <3>2, RaiseDoes, CodesAre
    <3>3. CASE u = Raise("24000", t)
      BY <3>1, <3>3, RaiseDoes, CodesAre
    <3> QED BY <2>2, <3>1, <3>2, <3>3
  <2>3. ASSUME NEW t \in Invoke(c, s), ~ Failed(t), u = SetCursor(c, k, "closed", t)
        PROVE  Does(c, {k}, s, u)
    <3>1. Does(c, {}, s, t) /\ Ready(c, t)
      BY <1>4, <2>3, InvokeDoes
    <3>2. SetsCursor(c, k, "closed", t, u)
      BY <2>3, <3>1, SetCursorIs, CursorStateIs DEF SetCursor, Ready
    <3>3. Within(c, {k}, t, u)
      BY <3>2 DEF SetsCursor, Within, Keeps, KeepsCursor, KeepsStatement
    <3>4. Fine(u, c)
      <4>1. Noticed(t, c) /\ CursorsHeld(t, c) /\ Rests(t, c)
        BY <3>1 DEF Ready, Fine
      <4>2. Noticed(u, c)
        BY <3>2, <4>1 DEF SetsCursor, Noticed
      <4>3. CursorsHeld(u, c)
        BY <3>2, <4>1, FreshIs DEF SetsCursor, CursorsHeld, IsOpen
      <4>4. Rests(u, c)
        BY <3>2, <4>1 DEF SetsCursor, Rests
      <4> QED BY <4>2, <4>3, <4>4 DEF Fine
    <3> QED BY <1>4, <3>1, <3>3, <3>4, DoesOn DEF Ready, Does
  <2> QED BY <1>2, <1>4, <2>1, <2>2, <2>3 DEF Ready, c
<1>5. Calls({k}, b, u)
  BY <1>1, <1>2, <1>3, <1>4, ThenCalls
<1> QED BY <1>1, <1>2, <1>5 DEF Step

(* vsql_m_open_dynamic. *)
LEMMA OpenDynamicStep ==
  ASSUME Between, NEW k \in Cursors, OpenDynamic(k)
  PROVE  Step({})
<1>1. PICK b : b = Begin /\ Good(b) /\ Alone(b) /\ ~ Failed(b) /\ b.published = FALSE
  BY BeginIs
<1> DEFINE p == StatementOf[k]
<1>2. PICK s, u :
        /\ s \in Connection(Home[p], b)
        /\ \/ Failed(s) /\ u = s
           \/ ~ Failed(s) /\
              LET c == s.agent.current
                  x == s.cli.prepared[c][p]
              IN u \in IF IsPrepared(c, p, s)
                       THEN IF Refused(s, c) \/ x.text \notin Queries THEN {Raise("07005", s)}
                            ELSE Then(OpeningCursor(c, k, s),
                                      LAMBDA t : OpenWith(c, k, x.text, t))
                       ELSE {Raise("26000", s)}
        /\ Becomes(u) /\ running /\ running' = running
  <2>1. Finish(Then(Connection(Home[p], b), LAMBDA s :
          LET c == s.agent.current
              x == s.cli.prepared[c][p]
          IN IF IsPrepared(c, p, s)
                       THEN IF Refused(s, c) \/ x.text \notin Queries THEN {Raise("07005", s)}
                            ELSE Then(OpeningCursor(c, k, s),
                                      LAMBDA t : OpenWith(c, k, x.text, t))
                       ELSE {Raise("26000", s)}))
    BY <1>1 DEF OpenDynamic, WithStatement, WithConnection
  <2> QED BY <2>1 DEF Finish, Become, Becomes, Then
<1>3. p \in Statements /\ Home[p] \in Modules
  BY SqlAgentAssumption DEF OpenDynamic
<1> HIDE DEF p
<1> DEFINE c == s.agent.current
<1>4. ASSUME Ready(c, s)
      PROVE  Does(c, {}, s, u)
  <2> HIDE DEF c
  <2>1. CASE u = Raise("26000", s)
    BY <1>4, <2>1, SelfDoes, RaiseDoes, CodesAre
  <2>2. CASE u = Raise("07005", s)
    BY <1>4, <2>2, SelfDoes, RaiseDoes, CodesAre
  <2>3. ASSUME NEW text \in Queries, NEW t \in OpeningCursor(c, k, s),
               \/ Failed(t) /\ u = t
               \/ ~ Failed(t) /\ u \in OpenWith(c, k, text, t)
        PROVE  Does(c, {}, s, u)
    BY <1>4, <2>3, OpenDoes
  <2>4. CASE s.cli.prepared[c][p].text \in Queries /\
             u \in Then(OpeningCursor(c, k, s),
                       LAMBDA t : OpenWith(c, k, s.cli.prepared[c][p].text, t))
    BY <2>3, <2>4 DEF Then
  <2> QED BY <1>2, <1>4, <2>1, <2>2, <2>4 DEF Ready, c
<1>5. Calls({}, b, u)
  BY <1>1, <1>2, <1>3, <1>4, ThenCalls
<1> QED BY <1>1, <1>2, <1>5 DEF Step

(* vsql_m_end. *)
Reported(b, u) ==
  LET c == b.agent.current IN
  /\ u.da.rolledBack => ~ u.published
  /\ u.da.committed => \/ u.published \/ b.cli.tran[c] = "idle"
                       \/ b.agent.active[c] /\ b.cli.tran[c] = "none"
  /\ u.published => u.da.committed \/ c \in b.cli.stuck
  /\ c \in b.agent.conns \ b.cli.stuck /\ b.cli.tran[c] = "changed" /\ u.cli.tran[c] = "none"
     => u.da.committed \/ u.da.rolledBack

OnRequest(commit, b, u) ==
  u.published # b.published => commit \/ b.agent.current \in b.cli.stuck

EndOf(commit, c, s, e) ==
  [e EXCEPT !.da = [committed |-> s.agent.active[c] /\ commit /\ ~Failed(e),
                    rolledBack |-> s.agent.active[c] /\ (~commit \/ e.sqlstate = "40002")],
            !.agent.active[c] = FALSE]

EndStep(commit) ==
  \E b, u : /\ b = Begin /\ Effects(Cursors, b, u)
            /\ Reported(b, u) /\ OnRequest(commit, b, u)
            /\ Becomes(u) /\ running /\ running' = running

(* What vsql_m_end does, and what it reports about the transaction.        *)
LEMMA EndOfIs ==
  ASSUME NEW c, NEW s, Ready(c, s), NEW commit \in BOOLEAN, NEW e \in EndTran(c, commit, s),
         NEW u, u = EndOf(commit, c, s, e)
  PROVE  /\ Works(c, s, u) /\ Keeps(c, Cursors, s, u) /\ Fine(u, c)
         /\ u.published = e.published /\ u.cli = e.cli /\ Ends(c, commit, s, e)
         /\ u.da.committed <=> s.agent.active[c] /\ commit /\ ~Failed(e)
         /\ u.da.rolledBack <=> s.agent.active[c] /\ (~commit \/ e.sqlstate = "40002")
<1>1. s \in State /\ c \in Conns
  BY DEF Ready
<1>2. Ends(c, commit, s, e)
  BY <1>1, EndTranIs
<1>3. e \in State
  BY <1>2 DEF Ends, Works
<1> DEFINE committed == s.agent.active[c] /\ commit /\ ~Failed(e)
           rolledBack == s.agent.active[c] /\ (~commit \/ e.sqlstate = "40002")
<1>4. committed \in BOOLEAN /\ rolledBack \in BOOLEAN
  BY <1>1 DEF State, Agent
<1>5. u = [e EXCEPT !.da = [committed |-> committed, rolledBack |-> rolledBack],
                    !.agent.active[c] = FALSE]
  BY DEF EndOf
<1> HIDE DEF committed, rolledBack
<1>6. /\ u.cli = e.cli /\ u.published = e.published /\ u.sqlstate = e.sqlstate
      /\ u.da.committed = committed /\ u.da.rolledBack = rolledBack
  BY <1>3, <1>5 DEF State, Agent
<1>16. u.agent = [e.agent EXCEPT !.active[c] = FALSE]
  BY <1>3, <1>5 DEF State, Agent
<1>17. e.agent \in Agent
  BY <1>3 DEF State
<1>7. /\ u.agent.current = e.agent.current /\ u.agent.conns = e.agent.conns
      /\ u.agent.connected = e.agent.connected /\ u.agent.module = e.agent.module
      /\ u.agent.active = [e.agent.active EXCEPT ![c] = FALSE]
  BY <1>16, <1>17 DEF Agent
<1>8. u \in State
  <2>1. u.agent \in Agent
    <3>1. u.agent.active \in [Conns -> BOOLEAN]
      BY <1>7, <1>17 DEF Agent
    <3>2. u.agent = [e.agent EXCEPT !.active = u.agent.active]
      BY <1>16, <1>17, <1>7 DEF Agent
    <3> QED BY <1>17, <3>1, <3>2 DEF Agent
  <2>2. u.da \in [committed : BOOLEAN, rolledBack : BOOLEAN]
    <3>1. u.da = [committed |-> committed, rolledBack |-> rolledBack]
      BY <1>3, <1>5 DEF State
    <3> QED BY <1>4, <3>1
  <2>3. u = [agent |-> u.agent, cli |-> e.cli, da |-> u.da, published |-> e.published,
             sqlstate |-> e.sqlstate]
    BY <1>3, <1>5 DEF State, Agent
  <2> QED BY <1>3, <2>1, <2>2, <2>3 DEF State
<1>9. ~ u.agent.active[c] /\ \A d \in Conns \ {c} : u.agent.active[d] = e.agent.active[d]
  BY <1>1, <1>3, <1>7 DEF State, Agent
<1>10. Works(c, e, u)
  BY <1>6, <1>7, <1>8, <1>9 DEF Works, Same
<1>11. Works(c, s, u)
  BY <1>2, <1>10, WorksOn DEF Ends
<1>12. Keeps(c, Cursors, s, u)
  BY <1>2, <1>6 DEF Ends, Keeps, KeepsStatement
<1>13. Noticed(u, c)
  <2>1. Noticed(s, c)
    BY DEF Ready, Fine
  <2> QED BY <1>2, <1>6, <2>1 DEF Ends, Noticed
<1>14. CursorsHeld(u, c)
  BY <1>2, <1>6, FreshIs DEF Ends, CursorsHeld, IsOpen
<1>15. Rests(u, c)
  <2>1. Rests(s, c)
    BY DEF Ready, Fine
  <2> QED BY <1>2, <1>6, <2>1 DEF Ends, Rests
<1> QED BY <1>2, <1>6, <1>11, <1>12, <1>13, <1>14, <1>15 DEF Fine, committed, rolledBack

(* COMMIT and ROLLBACK.                                                    *)
LEMMA EndIsStep ==
  ASSUME Between, NEW m \in Modules, NEW commit \in BOOLEAN, End(m, commit)
  PROVE  EndStep(commit)
<1>1. PICK b : b = Begin /\ Good(b) /\ Alone(b) /\ ~ Failed(b) /\ b.published = FALSE
  BY BeginIs
<1>2. PICK s, u :
        /\ s \in Connection(m, b)
        /\ \/ Failed(s) /\ u = s
           \/ ~ Failed(s) /\ \E e \in EndTran(s.agent.current, commit, s) :
                u = EndOf(commit, s.agent.current, s, e)
        /\ Becomes(u) /\ running /\ running' = running
  <2> DEFINE F(s) == {EndOf(commit, s.agent.current, s, e) :
                        e \in EndTran(s.agent.current, commit, s)}
  <2>1. Finish(Then(Connection(m, b), F))
    BY <1>1 DEF End, EndOf, WithConnection
  <2> QED BY <2>1 DEF Finish, Become, Becomes, Then
<1>3. Calls({}, b, s) /\ StillChanged(b, s) /\ (~ Failed(s) => Connects(b, s))
  BY <1>1, <1>2, ConnectionIs
<1>7. ASSUME NEW d \in b.agent.conns \ b.cli.stuck, b.cli.tran[d] = "changed"
      PROVE  b.agent.active[d]
  <2>1. Fine(b, d)
    BY <1>1 DEF Good
  <2> QED BY <1>7, <2>1 DEF Fine, Noticed
<1>4. ~ b.da.committed /\ ~ b.da.rolledBack
  BY <1>1 DEF Begin, Clear
<1>5. CASE Failed(s) /\ u = s
  <2>1. Effects({}, b, u) /\ Quiet(b, u)
    BY <1>3, <1>5, CallsEffects
  <2>2. Effects(Cursors, b, u)
    BY <2>1 DEF Effects, Keeps
  <2>3. Reported(b, u)
    BY <1>1, <1>3, <1>4, <1>5, <1>7, <2>1 DEF Quiet, Reported, StillChanged
  <2>4. OnRequest(commit, b, u)
    BY <2>1 DEF Quiet, OnRequest
  <2> QED BY <1>1, <1>2, <2>2, <2>3, <2>4 DEF EndStep
<1>6. CASE ~ Failed(s) /\ \E e \in EndTran(s.agent.current, commit, s) :
             u = EndOf(commit, s.agent.current, s, e)
  <2> DEFINE c == s.agent.current
  <2>1. PICK e \in EndTran(c, commit, s) : u = EndOf(commit, c, s, e)
    BY <1>6
  <2>2. Good(s) /\ Connects(b, s)
    BY <1>3, <1>6 DEF Calls
  <2>3. Ready(c, s)
    <3>1. s \in State /\ s.agent.current \in Conns
      BY <2>2 DEF Good, State, Agent, Connects
    <3> QED BY <1>6, <2>2, <3>1, GoodAll DEF Ready
  <2> HIDE DEF c
  <2>4. /\ Works(c, s, u) /\ Keeps(c, Cursors, s, u) /\ Fine(u, c)
        /\ u.published = e.published /\ u.cli = e.cli /\ Ends(c, commit, s, e)
        /\ u.da.committed <=> s.agent.active[c] /\ commit /\ ~Failed(e)
        /\ u.da.rolledBack <=> s.agent.active[c] /\ (~commit \/ e.sqlstate = "40002")
    BY <2>1, <2>3, EndOfIs
  <2>5. Effects(Cursors, b, u)
    <3>1. Effects({}, b, s)
      BY <1>3, CallsEffects
    <3> QED BY <1>1, <2>2, <2>4, <3>1, WorkEffects DEF c
  <2>6. ASSUME c = b.agent.current
        PROVE  Reported(b, u)
    <3>1. c \in b.agent.conns /\ c \in Conns /\ s.agent.active = b.agent.active
      BY <1>1, <2>2, <2>3, <2>6, NoneIs DEF Connects, c, Ready, Works
    <3>2. /\ s.agent.active[c] => ~ s.published
          /\ s.cli.tran[c] = "changed" => b.cli.tran[c] = "changed"
          /\ b.agent.active[c] /\ b.cli.tran[c] = "changed" => s.cli.tran[c] = "changed"
      BY <1>1, <1>3, <2>2, <2>6, <3>1, NoneIs DEF Connects, StillChanged, c
    <3>3. b.cli.tran[c] \in {"none", "idle", "changed"}
      BY <1>1, <3>1 DEF Good, State, Cli
    <3>4. s.published => c \in b.cli.stuck
      BY <1>1, <1>3, <2>6 DEF Calls, Quiet
    <3>5. e.sqlstate = "40002" => Failed(e)
      BY DEF Failed, Success
    <3>6. c \notin b.cli.stuck /\ b.cli.tran[c] = "changed" => b.agent.active[c]
      BY <1>7, <3>1
    <3>7. u.da.rolledBack => ~ u.published
      BY <1>6, <2>4, <3>2, <3>5 DEF Ends
    <3>8. u.da.committed => \/ u.published \/ b.cli.tran[c] = "idle"
                            \/ b.agent.active[c] /\ b.cli.tran[c] = "none"
      BY <2>4, <3>1, <3>2, <3>3 DEF Ends
    <3>9. u.published => u.da.committed \/ c \in b.cli.stuck
      BY <1>6, <2>4, <3>1, <3>2, <3>4, <3>6 DEF Ends
    <3>10. c \notin b.cli.stuck /\ b.cli.tran[c] = "changed" /\ u.cli.tran[c] = "none"
           => u.da.committed \/ u.da.rolledBack
      BY <1>6, <2>4, <3>1, <3>2, <3>6 DEF Ends
    <3> QED BY <2>6, <3>7, <3>8, <3>9, <3>10 DEF Reported
  <2>7. ASSUME c # b.agent.current
        PROVE  Reported(b, u)
    <3>1. b.agent.current = None /\ ~ s.agent.active[c] /\ s.cli.tran[c] # "changed"
      BY <2>2, <2>7 DEF Connects, c
    <3>2. None \notin b.cli.stuck /\ None \notin b.agent.conns
      BY <1>1, NoneIs DEF Good, State, Cli, Agent
    <3>3. ~ u.published
      BY <1>1, <1>3, <2>4, <3>1, <3>2 DEF Calls, Quiet, Ends
    <3> QED BY <2>4, <3>1, <3>2, <3>3 DEF Reported
  <2>8. Reported(b, u)
    BY <2>6, <2>7
  <2>9. OnRequest(commit, b, u)
    BY <1>3, <2>4 DEF Calls, Quiet, Ends, OnRequest
  <2> QED BY <1>1, <1>2, <2>5, <2>8, <2>9 DEF EndStep
<1> QED BY <1>2, <1>5, <1>6

-----------------------------------------------------------------------------
(* Prepared statements. *)
SetsPrepared(c, p, x, s, u) ==
  /\ Works(c, s, u)
  /\ u.agent = s.agent /\ u.published = s.published /\ u.da = s.da /\ u.sqlstate = s.sqlstate
  /\ u.cli.current = s.cli.current /\ u.cli.tran = s.cli.tran /\ u.cli.stuck = s.cli.stuck
  /\ u.cli.cursor = s.cli.cursor
  /\ u.cli.prepared[c][p] = x
  /\ \A q \in Statements \ {p} : u.cli.prepared[c][q] = s.cli.prepared[c][q]

(* Changing one prepared statement of c.                                   *)
LEMMA SetPreparedIs ==
  ASSUME NEW c \in Conns, NEW p \in Statements, NEW x \in Prepared, NEW s \in State, NEW u,
         u = [s EXCEPT !.cli.prepared[c][p] = x]
  PROVE  SetsPrepared(c, p, x, s, u)
<1>1. /\ u \in State /\ u.agent = s.agent /\ u.published = s.published /\ u.da = s.da
      /\ u.sqlstate = s.sqlstate
  BY DEF State, Cli
<1>2. /\ u.cli.current = s.cli.current /\ u.cli.tran = s.cli.tran
      /\ u.cli.stuck = s.cli.stuck /\ u.cli.cursor = s.cli.cursor
  BY DEF State, Cli
<1>3. u.cli.prepared = [s.cli.prepared EXCEPT ![c] = [s.cli.prepared[c] EXCEPT ![p] = x]]
  BY DEF State, Cli
<1>4. s.cli.prepared \in [Conns -> [Statements -> Prepared]]
  BY DEF State, Cli
<1>5. /\ \A d \in Conns \ {c} : u.cli.prepared[d] = s.cli.prepared[d]
      /\ u.cli.prepared[c] = [s.cli.prepared[c] EXCEPT ![p] = x]
  BY <1>3, <1>4
<1>6. /\ u.cli.prepared[c][p] = x
      /\ \A q \in Statements \ {p} : u.cli.prepared[c][q] = s.cli.prepared[c][q]
  BY <1>4, <1>5
<1>7. Works(c, s, u)
  BY <1>1, <1>2, <1>5 DEF Works, Same
<1> QED BY <1>1, <1>2, <1>6, <1>7 DEF SetsPrepared

(* No open cursor was declared for the statement that is replaced. *)
Replaceable(c, p, s) ==
  \A k \in Cursors : ~ Refused(s, c) /\ StatementOf[k] = p /\ IsOpen(s.cli.cursor[c][k]) =>
                       s.cli.prepared[c][p] = NoStatement

(* A statement may be replaced if no open cursor needs it.                 *)
LEMMA SetPreparedDoes ==
  ASSUME NEW c, NEW s, Ready(c, s), NEW p \in Statements, Replaceable(c, p, s),
         NEW t, Does(c, {}, s, t), SameStatements(c, s, t),
         NEW x \in Prepared, ~ x.open, NEW u, SetsPrepared(c, p, x, t, u)
  PROVE  Does(c, {}, s, u)
<1>1. Works(c, s, t) /\ t.published = s.published /\ t.da = s.da /\ Fine(t, c)
  BY DEF Does, Within
<1>2. Works(c, s, u)
  BY <1>1, WorksOn DEF SetsPrepared
<1>3. /\ u.published = s.published /\ u.da = s.da
      /\ u.cli.cursor[c] = s.cli.cursor[c]
      /\ \A q \in Statements \ {p} : u.cli.prepared[c][q] = s.cli.prepared[c][q]
  BY <1>1 DEF SetsPrepared, SameStatements
<1>4. \A k \in Cursors : KeepsCursor(c, k, s, u)
  BY <1>3 DEF KeepsCursor
<1>5. \A k \in Cursors : KeepsStatement(c, k, s, u)
  <2>1. \A k \in Cursors : StatementOf[k] # None => StatementOf[k] \in Statements
    BY SqlAgentAssumption
  <2> QED BY <1>3, <2>1 DEF KeepsStatement, Replaceable
<1>6. Fine(u, c)
  BY <1>1 DEF SetsPrepared, Fine, Noticed, CursorsHeld, Rests
<1> QED BY <1>2, <1>3, <1>4, <1>5, <1>6 DEF Does, Within, Keeps

(* vsql_m_deallocate only succeeds if no open cursor needs the statement,  *)
(* or the CLI refuses c.                                                   *)
LEMMA DeallocateIs ==
  ASSUME NEW c, NEW s, Ready(c, s), NEW p \in Statements, NEW u \in Deallocate(c, p, s)
  PROVE  /\ Does(c, {}, s, u)
         /\ ~ Failed(u) => Ready(c, u) /\ Replaceable(c, p, u)
<1>1. CASE u = Raise("24000", s)
  <2>1. Does(c, {}, s, u) /\ u.sqlstate = "24000"
    BY <1>1, SelfDoes, RaiseDoes, CodesAre
  <2> QED BY <2>1 DEF Failed, Success
<1>2. CASE /\ u = [s EXCEPT !.cli.prepared[c][p] = NoStatement]
           /\ ~ (~ Refused(s, c) /\ \E k \in Cursors : StatementOf[k] = p
                                                   /\ IsOpen(s.cli.cursor[c][k]))
  <2>1. NoStatement \in Prepared /\ ~ NoStatement.open
    BY DEF NoStatement, Prepared
  <2>2. SetsPrepared(c, p, NoStatement, s, u)
    BY <1>2, <2>1, SetPreparedIs DEF Ready
  <2>3. Replaceable(c, p, s)
    BY <1>2 DEF Replaceable
  <2>4. Does(c, {}, s, s) /\ SameStatements(c, s, s)
    BY SelfDoes DEF SameStatements
  <2>5. Does(c, {}, s, u)
    BY <2>1, <2>2, <2>3, <2>4, SetPreparedDoes
  <2>6. Ready(c, u)
    BY <2>2, <2>5 DEF Ready, Does, SetsPrepared, Works, Failed
  <2>7. Replaceable(c, p, u)
    BY <2>2 DEF SetsPrepared, Replaceable
  <2> QED BY <2>5, <2>6, <2>7
<1> QED BY <1>1, <1>2 DEF Deallocate

(* The agent takes the transaction for started. *)
LEMMA ActiveDoes ==
  ASSUME NEW c, NEW K, NEW s, Ready(c, s), NEW u, Works(c, s, u), SameStatements(c, s, u),
         u.published = s.published, u.da = s.da, u.agent.active[c]
  PROVE  Does(c, K, s, u)
<1>1. Within(c, K, s, u)
  BY SameWithin DEF Ready
<1>2. Fine(u, c)
  BY DEF Ready, SameStatements, Fine, Noticed, CursorsHeld, Rests
<1> QED BY <1>1, <1>2 DEF Does

(* A procedure that only takes a transaction for started.                  *)
LEMMA ActivateDoes ==
  ASSUME NEW c, NEW K, NEW s, Ready(c, s)
  PROVE  LET u == Activate(c, s) IN
         Does(c, K, s, u) /\ SameStatements(c, s, u) /\ Ready(c, u) /\ u.agent.active[c]
<1> DEFINE u == Activate(c, s)
<1>1. Runs(c, s, u) /\ u.agent.active[c] /\ u.sqlstate = s.sqlstate
  BY ActivateIs DEF Ready
<1> HIDE DEF u
<1>2. Does(c, K, s, u)
  BY <1>1, RunsDoes
<1>3. Ready(c, u)
  BY <1>1, <1>2 DEF Runs, Works, Ready, Does, Failed
<1> QED BY <1>1, <1>2, <1>3 DEF u, Runs

(* vsql_m_deallocate_prepare. *)
LEMMA DeallocatePrepareStep ==
  ASSUME Between, NEW p \in Statements, DeallocatePrepare(p)
  PROVE  Step({})
<1>1. PICK b : b = Begin /\ Good(b) /\ Alone(b) /\ ~ Failed(b) /\ b.published = FALSE
  BY BeginIs
<1>2. PICK s, u :
        /\ s \in Connection(Home[p], b)
        /\ \/ Failed(s) /\ u = s
           \/ ~ Failed(s) /\
              LET t == Activate(s.agent.current, s) IN
              \/ u \in Deallocate(s.agent.current, p, t)
              \/ u = Raise("26000", t)
        /\ Becomes(u) /\ running /\ running' = running
  BY <1>1 DEF DeallocatePrepare, WithConnection, Finish, Become, Becomes, Then
<1>3. Home[p] \in Modules
  BY SqlAgentAssumption
<1> DEFINE c == s.agent.current
<1>4. ASSUME Ready(c, s)
      PROVE  Does(c, {}, s, u)
  <2> DEFINE t == Activate(c, s)
  <2>1. u \in Deallocate(c, p, t) \/ u = Raise("26000", t)
    BY <1>2, <1>4 DEF Ready
  <2> HIDE DEF c
  <2>2. Does(c, {}, s, t) /\ Ready(c, t)
    BY <1>4, ActivateDoes
  <2> HIDE DEF t
  <2>3. CASE u \in Deallocate(c, p, t)
    <3>1. Does(c, {}, t, u)
      BY <2>2, <2>3, DeallocateIs
    <3> QED BY <1>4, <2>2, <3>1, DoesOn DEF Ready
  <2>4. CASE u = Raise("26000", t)
    BY <2>2, <2>4, RaiseDoes, CodesAre
  <2> QED BY <2>1, <2>3, <2>4
<1>5. Calls({}, b, u)
  BY <1>1, <1>2, <1>3, <1>4, ThenCalls
<1> QED BY <1>1, <1>2, <1>5 DEF Step

(* vsql_m_prepare. *)
LEMMA PrepareTextDoes ==
  ASSUME NEW c, NEW d, Ready(c, d), NEW p \in Statements, Replaceable(c, p, d),
         NEW text \in Texts, NEW i, i \in Invoke(c, d), NEW u,
         \/ Failed(i) /\ u = i
         \/ ~ Failed(i) /\ \E v \in CliPrepare(c, Activate(c, i)) :
              \/ u = v
              \/ ~ Failed(v) /\
                 u = [v EXCEPT !.cli.prepared[c][p] = [text |-> text, open |-> FALSE]]
  PROVE  Does(c, {}, d, u)
<1>1. Does(c, {}, d, i) /\ Same(c, d, i) /\ (~ Failed(i) => Ready(c, i))
  BY InvokeDoes
<1>2. CASE Failed(i) /\ u = i
  BY <1>1, <1>2
<1>3. CASE ~ Failed(i)
  <2> DEFINE a == Activate(c, i)
  <2>1. PICK v \in CliPrepare(c, a) :
          \/ u = v
          \/ ~ Failed(v) /\
             u = [v EXCEPT !.cli.prepared[c][p] = [text |-> text, open |-> FALSE]]
    BY <1>3
  <2>2. Does(c, {}, i, a) /\ SameStatements(c, i, a) /\ Ready(c, a)
    BY <1>1, <1>3, ActivateDoes
  <2> HIDE DEF a
  <2>3. Does(c, {}, a, v) /\ Same(c, a, v) /\ (~ Failed(v) => Ready(c, v))
    BY <2>1, <2>2, PrepareDoes
  <2>4. Does(c, {}, d, v)
    <3>1. Does(c, {}, d, a)
      BY <1>1, <2>2, DoesOn DEF Ready
    <3> QED BY <2>3, <3>1, DoesOn DEF Ready
  <2>5. SameStatements(c, d, v)
    BY <1>1, <2>2, <2>3 DEF Same, SameStatements
  <2>6. CASE ~ Failed(v) /\ u = [v EXCEPT !.cli.prepared[c][p] = [text |-> text, open |-> FALSE]]
    <3> DEFINE x == [text |-> text, open |-> FALSE]
    <3>1. x \in Prepared /\ ~ x.open
      BY DEF Prepared
    <3> HIDE DEF x
    <3>2. SetsPrepared(c, p, x, v, u)
      BY <2>3, <2>6, <3>1, SetPreparedIs DEF x, Ready
    <3> QED BY <2>4, <2>5, <3>1, <3>2, SetPreparedDoes
  <2> QED BY <2>1, <2>4, <2>6
<1> QED BY <1>2, <1>3

(* vsql_m_prepare as a whole.                                              *)
LEMMA PrepareStep ==
  ASSUME Between, NEW p \in Statements, NEW text \in Texts, Prepare(p, text)
  PROVE  Step({})
<1>1. PICK b : b = Begin /\ Good(b) /\ Alone(b) /\ ~ Failed(b) /\ b.published = FALSE
  BY BeginIs
<1> DEFINE x == [text |-> text, open |-> FALSE]
           Prepared1(c, i) == Then(CliPrepare(c, Activate(c, i)),
                                   LAMBDA v : {[v EXCEPT !.cli.prepared[c][p] = x]})
           Prepared0(c, d) == Then(Invoke(c, d), LAMBDA i : Prepared1(c, i))
           Old(c, s) == IF IsPrepared(c, p, s) THEN Deallocate(c, p, s) ELSE {s}
           F(s) == Then(Old(s.agent.current, s), LAMBDA d : Prepared0(s.agent.current, d))
<1>2. PICK s, u : /\ s \in Connection(Home[p], b)
                  /\ (Failed(s) /\ u = s) \/ (~ Failed(s) /\ u \in F(s))
                  /\ Becomes(u) /\ running /\ running' = running
  <2>1. Finish(Then(Connection(Home[p], b), F))
    BY <1>1 DEF Prepare, WithConnection
  <2> HIDE DEF F
  <2> QED BY <2>1 DEF Finish, Become, Becomes, Then
<1>3. Home[p] \in Modules
  BY SqlAgentAssumption
<1> DEFINE c == s.agent.current
<1>4. ASSUME Ready(c, s)
      PROVE  Does(c, {}, s, u)
  <2>1. PICK d \in Old(c, s) : (Failed(d) /\ u = d) \/ (~ Failed(d) /\ u \in Prepared0(c, d))
    BY <1>2, <1>4 DEF Ready, Then
  <2> HIDE DEF c
  <2>2. Does(c, {}, s, d) /\ (~ Failed(d) => Ready(c, d) /\ Replaceable(c, p, d))
    <3>1. CASE d \in Deallocate(c, p, s)
      BY <1>4, <3>1, DeallocateIs
    <3>2. CASE d = s /\ ~ IsPrepared(c, p, s)
      BY <1>4, <3>2, SelfDoes DEF IsPrepared, Replaceable
    <3> QED BY <2>1, <3>1, <3>2
  <2>3. CASE ~ Failed(d)
    <3>1. PICK i \in Invoke(c, d) : (Failed(i) /\ u = i) \/ (~ Failed(i) /\ u \in Prepared1(c, i))
      BY <2>1, <2>3 DEF Then
    <3>2. u \in Prepared1(c, i) => \E v \in CliPrepare(c, Activate(c, i)) :
            u = v \/ (~ Failed(v) /\ u = [v EXCEPT !.cli.prepared[c][p] = x])
      BY DEF Then
    <3>3. Does(c, {}, d, u)
      BY <2>2, <2>3, <3>1, <3>2, PrepareTextDoes
    <3> QED BY <1>4, <2>2, <3>3, DoesOn DEF Ready
  <2> QED BY <2>1, <2>2, <2>3
<1>5. Calls({}, b, u)
  BY <1>1, <1>2, <1>3, <1>4, ThenCalls
<1> QED BY <1>1, <1>2, <1>5 DEF Step

(* vsql_m_execute_prepared. *)
ActiveWork(c, s, u) ==
  /\ Works(c, s, u) /\ SameStatements(c, s, u)
  /\ u.published = s.published /\ u.da = s.da /\ u.agent.active[c]

SetOpen(c, p, open, s) == [s EXCEPT !.cli.prepared[c][p].open = open]

(* Raising an SQLSTATE in a transaction.                                   *)
LEMMA ActiveReports ==
  ASSUME NEW c, NEW s, NEW t, NEW u, ActiveWork(c, s, t), Reports(t, u)
  PROVE  ActiveWork(c, s, u)
<1>1. t \in State /\ Works(c, s, t)
  BY DEF ActiveWork, Works
<1>2. Works(c, s, u)
  BY <1>1, ReportsWorks, WorksOn
<1> QED BY <1>2 DEF ActiveWork, Reports, SameStatements

(* The cursor of a prepared statement is opened or closed.                 *)
LEMMA SetOpenIs ==
  ASSUME NEW c \in Conns, NEW p \in Statements, NEW open \in BOOLEAN, NEW s \in State
  PROVE  SetsPrepared(c, p, [s.cli.prepared[c][p] EXCEPT !.open = open], s, SetOpen(c, p, open, s))
<1> DEFINE x == [s.cli.prepared[c][p] EXCEPT !.open = open]
<1>1. SetOpen(c, p, open, s) = [s EXCEPT !.cli.prepared[c][p] = x]
  BY DEF SetOpen
<1>2. x \in Prepared
  <2>1. s.cli.prepared[c][p] \in Prepared
    BY DEF State, Cli
  <2> QED BY <2>1 DEF Prepared
<1> HIDE DEF x
<1> QED BY <1>1, <1>2, SetPreparedIs DEF x

(* The cursor of a single row is closed however it was fetched.            *)
LEMMA SingleRowIs ==
  ASSUME NEW c, NEW s, Ready(c, s), NEW p \in Statements, NEW t, ActiveWork(c, s, t),
         NEW f, LET o == SetOpen(c, p, TRUE, t) IN
                f = o \/ f = Raise("02000", o) \/ f = Raise("21000", o),
         NEW u, u = SetOpen(c, p, FALSE, f)
  PROVE  ActiveWork(c, s, u)
<1> DEFINE o == SetOpen(c, p, TRUE, t)
<1>1. c \in Conns /\ t \in State /\ TRUE \in BOOLEAN /\ FALSE \in BOOLEAN
  BY DEF Ready, ActiveWork, Works
<1>2. SetsPrepared(c, p, [t.cli.prepared[c][p] EXCEPT !.open = TRUE], t, o)
  BY <1>1, SetOpenIs
<1>3. f = o \/ f = Raise("02000", o) \/ f = Raise("21000", o)
  OBVIOUS
<1> HIDE DEF o
<1>4. o \in State
  BY <1>2 DEF SetsPrepared, Works
<1>5. Reports(o, f)
  <2>1. Reports(o, o)
    BY <1>4 DEF Reports
  <2>2. CASE f = Raise("02000", o)
    BY <1>4, <2>2, RaiseReports, CodesAre
  <2>3. CASE f = Raise("21000", o)
    BY <1>4, <2>3, RaiseReports, CodesAre
  <2> QED BY <1>3, <2>1, <2>2, <2>3
<1>6. SetsPrepared(c, p, [f.cli.prepared[c][p] EXCEPT !.open = FALSE], f, u)
  BY <1>1, <1>5, SetOpenIs DEF Reports
<1>7. Works(c, s, u)
  <2>1. Works(c, s, t) /\ Works(c, t, o) /\ Works(c, o, f) /\ Works(c, f, u)
    BY <1>2, <1>4, <1>5, <1>6, ReportsWorks DEF ActiveWork, SetsPrepared
  <2>2. Works(c, s, o)
    BY <2>1, WorksOn
  <2>3. Works(c, s, f)
    BY <2>1, <2>2, WorksOn
  <2> QED BY <2>1, <2>3, WorksOn
<1>8. u.cli.prepared[c][p] = t.cli.prepared[c][p]
  <2>1. t.cli.prepared[c][p] \in Prepared /\ ~ t.cli.prepared[c][p].open
    <3>1. t.cli.prepared[c] = s.cli.prepared[c] /\ Rests(s, c)
      BY DEF ActiveWork, SameStatements, Ready, Fine
    <3> QED BY <1>1, <3>1 DEF State, Cli, Rests
  <2>2. u.cli.prepared[c][p] =
          [[t.cli.prepared[c][p] EXCEPT !.open = TRUE] EXCEPT !.open = FALSE]
    BY <1>2, <1>5, <1>6 DEF SetsPrepared, Reports
  <2> QED BY <2>1, <2>2 DEF Prepared
<1>9. u.cli.prepared[c] = t.cli.prepared[c]
  <2>1. ASSUME NEW q \in Statements \ {p}
        PROVE  u.cli.prepared[c][q] = t.cli.prepared[c][q]
    <3>1. /\ u.cli.prepared[c][q] = f.cli.prepared[c][q] /\ f.cli = o.cli
          /\ o.cli.prepared[c][q] = t.cli.prepared[c][q]
      BY <1>2, <1>5, <1>6 DEF SetsPrepared, Reports
    <3> QED BY <3>1
  <2>2. /\ u.cli.prepared[c] \in [Statements -> Prepared]
        /\ t.cli.prepared[c] \in [Statements -> Prepared]
    BY <1>1, <1>7 DEF Works, State, Cli
  <2>3. /\ u.cli.prepared[c] = [q \in Statements |-> u.cli.prepared[c][q]]
        /\ t.cli.prepared[c] = [q \in Statements |-> t.cli.prepared[c][q]]
    BY <2>2
  <2> QED BY <1>8, <2>1, <2>3
<1>10. /\ u.published = t.published /\ u.da = t.da /\ u.agent = t.agent
       /\ u.cli.cursor = t.cli.cursor
  BY <1>2, <1>5, <1>6 DEF SetsPrepared, Reports
<1> QED BY <1>7, <1>9, <1>10 DEF ActiveWork, SameStatements

(* vsql_m_execute_prepared as a whole.                                     *)
LEMMA ExecutePreparedStep ==
  ASSUME Between, NEW p \in Statements, ExecutePrepared(p)
  PROVE  Step({})
<1>1. PICK b : b = Begin /\ Good(b) /\ Alone(b) /\ ~ Failed(b) /\ b.published = FALSE
  BY BeginIs
<1> DEFINE x(s) == s.cli.prepared[s.agent.current][p]
           query(s) == x(s).text \in Queries /\ ~Refused(s, s.agent.current)
           executed(s, t) == IF x(s).open THEN {Raise("24000", t)}
                             ELSE Run(s.agent.current, x(s).text, t)
           fetched(t) == {t, Raise("02000", t), Raise("21000", t)}
           singleRow(s, t) ==
             {SetOpen(s.agent.current, p, FALSE, f) :
                f \in fetched(SetOpen(s.agent.current, p, TRUE, t))}
           started(s) == Then(Invoke(s.agent.current, Activate(s.agent.current, s)),
                              LAMBDA t : executed(s, t))
           F(s) == {Raise(IF query(s) THEN "07003" ELSE "07002", s)}
                   \cup Then(started(s), LAMBDA t : IF query(s) THEN singleRow(s, t) ELSE {t})
           G(s) == IF IsPrepared(s.agent.current, p, s) THEN F(s) ELSE {Raise("26000", s)}
<1>2. PICK s, u : /\ s \in Connection(Home[p], b)
                  /\ (Failed(s) /\ u = s) \/ (~ Failed(s) /\ u \in G(s))
                  /\ Becomes(u) /\ running /\ running' = running
  <2>1. Finish(Then(Connection(Home[p], b), G))
    BY <1>1 DEF ExecutePrepared, WithStatement, WithConnection, SetOpen
  <2> HIDE DEF G
  <2> QED BY <2>1 DEF Finish, Become, Becomes, Then
<1>3. Home[p] \in Modules
  BY SqlAgentAssumption
<1> DEFINE c == s.agent.current
<1>4. ASSUME Ready(c, s)
      PROVE  Does(c, {}, s, u)
  <2>1. \/ u = Raise("26000", s) \/ u = Raise("07003", s) \/ u = Raise("07002", s)
        \/ u \in Then(started(s), LAMBDA t : IF query(s) THEN singleRow(s, t) ELSE {t})
    <3> HIDE DEF started, query, singleRow
    <3> QED BY <1>2, <1>4 DEF Ready
  <2>2. CASE u = Raise("26000", s)
    BY <1>4, <2>2, SelfDoes, RaiseDoes, CodesAre
  <2>3. CASE u = Raise("07003", s)
    BY <1>4, <2>3, SelfDoes, RaiseDoes, CodesAre
  <2>4. CASE u = Raise("07002", s)
    BY <1>4, <2>4, SelfDoes, RaiseDoes, CodesAre
  <2>5. CASE u \in Then(started(s), LAMBDA t : IF query(s) THEN singleRow(s, t) ELSE {t})
    <3>1. PICK t \in started(s) : u = t \/ u \in singleRow(s, t)
      <4> HIDE DEF started, singleRow, query
      <4> QED BY <2>5 DEF Then
    <3> DEFINE a == Activate(c, s)
    <3>2. PICK i \in Invoke(c, a) : \/ t = i
                                    \/ ~ Failed(i) /\ (\/ t = Raise("24000", i)
                                                       \/ t \in Run(c, x(s).text, i))
      BY <3>1 DEF Then
    <3>3. Runs(c, s, a) /\ a.agent.active[c] /\ Ready(c, a)
      BY <1>4, ActivateIs, ActivateDoes DEF Ready
    <3> HIDE DEF a, c
    <3>4. Works(c, a, i) /\ Same(c, a, i) /\ i.published = a.published /\ i.da = a.da
          /\ i \in State /\ c \in Conns
      BY <3>2, <3>3, InvokeIs DEF Invokes, Ready, Works
    <3>5. ActiveWork(c, s, i)
      <4>1. Works(c, s, i)
        BY <3>3, <3>4, WorksOn DEF Runs
      <4> QED BY <3>3, <3>4, <4>1 DEF ActiveWork, Runs, Same, SameStatements
    <3>6. ActiveWork(c, s, t)
      <4>1. CASE t = Raise("24000", i)
        <5>1. Reports(i, t)
          BY <3>4, <4>1, RaiseReports, CodesAre
        <5> QED BY <3>5, <5>1, ActiveReports
      <4>2. CASE t \in Run(c, x(s).text, i)
        <5>1. Runs(c, i, t) /\ t.agent = i.agent
          BY <3>4, <4>2, RunIs
        <5>2. Works(c, s, t)
          BY <3>5, <5>1, WorksOn DEF ActiveWork, Runs
        <5> QED BY <3>5, <5>1, <5>2 DEF ActiveWork, Runs, SameStatements
      <4> QED BY <3>2, <3>5, <4>1, <4>2
    <3>7. ActiveWork(c, s, u)
      <4>1. CASE u \in singleRow(s, t)
        <5>1. PICK f \in fetched(SetOpen(c, p, TRUE, t)) : u = SetOpen(c, p, FALSE, f)
          BY <4>1 DEF c
        <5> QED BY <1>4, <3>6, <5>1, SingleRowIs
      <4> QED BY <3>1, <3>6, <4>1
    <3> QED BY <1>4, <3>7, ActiveDoes DEF ActiveWork
  <2> QED BY <2>1, <2>2, <2>3, <2>4, <2>5
<1>5. Calls({}, b, u)
  <2> HIDE DEF F, G
  <2> QED BY <1>1, <1>2, <1>3, <1>4, ThenCalls
<1> QED BY <1>1, <1>2, <1>5 DEF Step

-----------------------------------------------------------------------------
(* CONNECT, SET CONNECTION, DISCONNECT and the end of the program.         *)

(* The agent only notes that the program connects by itself. *)
Noted(b, s) ==
  /\ Good(s) /\ s.cli = b.cli /\ s.published = b.published /\ s.da = b.da
  /\ s.agent.current = b.agent.current /\ s.agent.conns = b.agent.conns
  /\ s.agent.active = b.agent.active /\ s.agent.module = b.agent.module
  /\ s.agent.connected

(* The program has used CONNECT, SET CONNECTION or DISCONNECT.             *)
LEMMA NotedIs ==
  ASSUME NEW b, Good(b), NEW s, s = [b EXCEPT !.agent.connected = TRUE]
  PROVE  Noted(b, s) /\ s.sqlstate = b.sqlstate
<1>1. b \in State
  BY DEF Good
<1>2. /\ s \in State /\ s.cli = b.cli /\ s.published = b.published /\ s.da = b.da
      /\ s.sqlstate = b.sqlstate
  BY <1>1 DEF State, Agent
<1>3. /\ s.agent.current = b.agent.current /\ s.agent.conns = b.agent.conns
      /\ s.agent.active = b.agent.active /\ s.agent.module = b.agent.module
      /\ s.agent.connected
  BY <1>1 DEF State, Agent
<1>4. Good(s)
  <2>1. \A d \in Conns : Same(d, b, s)
    BY <1>2, <1>3 DEF Same
  <2>2. \A d \in Conns : Fine(s, d)
    BY <2>1, FineSame, GoodAll
  <2>3. \A d \in Conns \ s.agent.conns : Empty(s, d)
    BY <1>2, <1>3 DEF Good, Empty
  <2>4. NoneLost(s) /\ s.agent.conns \subseteq Conns
    BY <1>1, <1>2, <1>3 DEF Good, NoneLost, State, Agent
  <2> QED BY <1>2, <1>3, <2>2, <2>3, <2>4 DEF Good
<1> QED BY <1>2, <1>3, <1>4 DEF Noted

(* Noting that isn't seen in the effects of a call.                        *)
LEMMA NotedCalls ==
  ASSUME NEW b, NEW s, Noted(b, s), NEW K, NEW u, Calls(K, s, u)
  PROVE  Calls(K, b, u)
<1>1. \A d : Same(d, s, u) => Same(d, b, u)
  BY DEF Noted, Same
<1>2. Apart(b, u)
  BY <1>1 DEF Noted, Calls, Apart
<1>3. Quiet(b, u)
  BY DEF Noted, Calls, Quiet
<1>4. \A d \in b.agent.conns \cap u.agent.conns : Keeps(d, K, b, u)
  <2>1. \A d : Refused(b, d) <=> Refused(s, d)
    BY DEF Noted, Refused, InTransaction
  <2> QED BY <2>1 DEF Noted, Calls, Keeps, KeepsCursor, KeepsStatement
<1> QED BY <1>2, <1>3, <1>4 DEF Calls

(* Connections leave or change places, and nothing else changes.           *)
LEMMA StaysCalls ==
  ASSUME NEW K, NEW s, NEW u, Good(u), u.agent.connected, u.published = s.published,
         u.da = s.da, u.agent.conns \subseteq s.agent.conns,
         s.agent.conns \subseteq Conns,
         \A d \in u.agent.conns : Same(d, s, u)
  PROVE  Calls(K, s, u)
<1>1. Apart(s, u)
  BY DEF Apart
<1>2. \A d \in u.agent.conns : Keeps(d, K, s, u)
  BY SameKeeps
<1> QED BY <1>1, <1>2 DEF Calls, Alone, Quiet

(* A statement that only raises an SQLSTATE.                               *)
LEMMA RaiseCalls ==
  ASSUME NEW b, NEW s, Noted(b, s), NEW K, NEW u, NEW code \in Codes, u = Raise(code, s)
  PROVE  Calls(K, b, u) /\ (code # Success => Failed(u))
<1>1. s \in State /\ s.agent.conns \subseteq Conns /\ Good(s)
  BY DEF Noted, Good, State, Agent
<1>2. Reports(s, u) /\ u.sqlstate = code
  BY <1>1, RaiseReports
<1>3. Good(u)
  BY <1>1, <1>2, ReportsGood
<1>4. \A d \in Conns : Same(d, s, u)
  BY <1>2 DEF Reports, Same
<1>5. Calls(K, s, u)
  BY <1>1, <1>2, <1>3, <1>4, StaysCalls DEF Noted, Reports
<1> QED BY <1>2, <1>5, NotedCalls DEF Failed

(* vsql_m_switch. *)
LEMMA SwitchIs ==
  ASSUME NEW b, Good(b), ~ Failed(b), NEW s \in Switch(b)
  PROVE  /\ Calls({}, b, s)
         /\ ~ Failed(s) => Noted(b, s) /\ \A d \in Conns : ~ s.agent.active[d]
<1> DEFINE t == [b EXCEPT !.agent.connected = TRUE]
<1>1. \/ s = Raise("0A001", t)
      \/ s = t /\ ~ (t.agent.current # None /\ t.agent.active[t.agent.current])
  BY DEF Switch
<1>2. Noted(b, t) /\ t.sqlstate = b.sqlstate
  BY NotedIs
<1> HIDE DEF t
<1>3. CASE s = Raise("0A001", t)
  <2>1. Calls({}, b, s) /\ Failed(s)
    <3>1. "0A001" # Success /\ "0A001" \in Codes
      BY CodesAre DEF Success
    <3> QED BY <1>2, <1>3, <3>1, RaiseCalls
  <2> QED BY <2>1
<1>4. CASE s = t /\ ~ (t.agent.current # None /\ t.agent.active[t.agent.current])
  <2>1. t.agent.conns \subseteq Conns /\ Good(t)
    BY <1>2 DEF Noted, Good, State, Agent
  <2>2. Calls({}, t, t)
    BY <1>2, <2>1, StaysCalls DEF Same, Noted
  <2>3. \A d \in Conns : ~ t.agent.active[d]
    BY <1>4, <2>1, NoneIs DEF Good
  <2> QED BY <1>2, <1>4, <2>2, <2>3, NotedCalls
<1> QED BY <1>1, <1>3, <1>4

(* vsql_m_connect. *)
LEMMA ConnectStep ==
  ASSUME Between, NEW m \in Modules, NEW c \in Conns, Connect(m, c)
  PROVE  Step({})
<1>1. PICK b : b = Begin /\ Good(b) /\ Alone(b) /\ ~ Failed(b) /\ b.published = FALSE
  BY BeginIs
<1> DEFINE new(s) == Then(Open(m, c, s), LAMBDA t : {MakeCurrent(c, t)})
           F(s) == IF c \in s.agent.conns THEN {Raise("08002", s)} ELSE new(s)
<1>2. PICK s, u : /\ s \in Switch(b)
                  /\ (Failed(s) /\ u = s) \/ (~ Failed(s) /\ u \in F(s))
                  /\ Becomes(u) /\ running /\ running' = running
  <2>1. Finish(Then(Switch(b), F))
    BY <1>1 DEF Connect
  <2> HIDE DEF F
  <2> QED BY <2>1 DEF Finish, Become, Becomes, Then
<1>3. /\ Calls({}, b, s)
      /\ ~ Failed(s) => Noted(b, s) /\ \A d \in Conns : ~ s.agent.active[d]
  BY <1>1, <1>2, SwitchIs
<1>4. Calls({}, b, u)
  <2>1. CASE Failed(s)
    BY <1>2, <1>3, <2>1
  <2>2. CASE ~ Failed(s) /\ u = Raise("08002", s)
    BY <1>3, <2>2, RaiseCalls, CodesAre
  <2>3. CASE ~ Failed(s) /\ c \notin s.agent.conns /\ u \in new(s)
    <3>1. Noted(b, s) /\ Good(s) /\ Alone(s) /\ s.agent.connected
      BY <1>3, <2>3 DEF Noted, Alone
    <3>2. Calls({}, s, u)
      BY <1>3, <2>3, <3>1, OpenCurrentIs
    <3> QED BY <3>1, <3>2, NotedCalls
  <2> QED BY <1>2, <2>1, <2>2, <2>3
<1> QED BY <1>1, <1>2, <1>4 DEF Step

(* CONNECT with an invalid name.                                           *)
LEMMA ConnectToInvalidNameStep ==
  ASSUME Between, ConnectToInvalidName
  PROVE  Step({})
<1>1. PICK b : b = Begin /\ Good(b) /\ Alone(b) /\ ~ Failed(b) /\ b.published = FALSE
  BY BeginIs
<1>2. PICK s, u : /\ s \in Switch(b)
                  /\ \/ Failed(s) /\ u = s
                     \/ ~ Failed(s) /\ (u = Raise("2E000", s) \/ u = Raise("28000", s))
                  /\ Becomes(u) /\ running /\ running' = running
  BY <1>1 DEF ConnectToInvalidName, Finish, Become, Becomes, Then
<1>3. Calls({}, b, s) /\ (~ Failed(s) => Noted(b, s))
  BY <1>1, <1>2, SwitchIs
<1>4. CASE Failed(s) /\ u = s
  BY <1>1, <1>2, <1>3, <1>4 DEF Step
<1>5. CASE ~ Failed(s) /\ u = Raise("2E000", s)
  <2>1. Calls({}, b, u)
    BY <1>3, <1>5, RaiseCalls, CodesAre
  <2> QED BY <1>1, <1>2, <2>1 DEF Step
<1>6. CASE ~ Failed(s) /\ u = Raise("28000", s)
  <2>1. Calls({}, b, u)
    BY <1>3, <1>6, RaiseCalls, CodesAre
  <2> QED BY <1>1, <1>2, <2>1 DEF Step
<1> QED BY <1>2, <1>4, <1>5, <1>6

(* vsql_m_set_connection. *)
LEMMA SetConnectionStep ==
  ASSUME Between, NEW c \in Conns, SetConnection(c)
  PROVE  Step({})
<1>1. PICK b : b = Begin /\ Good(b) /\ Alone(b) /\ ~ Failed(b) /\ b.published = FALSE
  BY BeginIs
<1>2. PICK s, u : /\ s \in Switch(b)
                  /\ \/ Failed(s) /\ u = s
                     \/ ~ Failed(s) /\ (\/ c \in s.agent.conns /\ u = MakeCurrent(c, s)
                                        \/ u = Raise("08003", s))
                  /\ Becomes(u) /\ running /\ running' = running
  BY <1>1 DEF SetConnection, Finish, Become, Becomes, Then
<1>3. /\ Calls({}, b, s)
      /\ ~ Failed(s) => Noted(b, s) /\ \A d \in Conns : ~ s.agent.active[d]
  BY <1>1, <1>2, SwitchIs
<1>4. CASE Failed(s) /\ u = s
  BY <1>1, <1>2, <1>3, <1>4 DEF Step
<1>5. CASE ~ Failed(s) /\ u = Raise("08003", s)
  <2>1. Calls({}, b, u)
    BY <1>3, <1>5, RaiseCalls, CodesAre
  <2> QED BY <1>1, <1>2, <2>1 DEF Step
<1>6. CASE ~ Failed(s) /\ c \in s.agent.conns /\ u = MakeCurrent(c, s)
  <2>1. Noted(b, s) /\ Good(s) /\ s.agent.conns \subseteq Conns
    BY <1>3, <1>6 DEF Noted, Good, State, Agent
  <2>2. /\ Good(u) /\ u.agent.conns = s.agent.conns /\ u.agent.connected = s.agent.connected
        /\ u.published = s.published /\ u.da = s.da
        /\ \A d \in Conns : Same(d, s, u)
    <3>1. Good(s) /\ c \in s.agent.conns /\ \A d \in Conns : ~ s.agent.active[d]
      BY <1>3, <1>6, <2>1
    <3>2. u = MakeCurrent(c, s)
      BY <1>6
    <3> QED BY ONLY <3>1, <3>2, MakeCurrentIs
  <2>3. Calls({}, s, u)
    BY <2>1, <2>2, StaysCalls DEF Noted
  <2>4. Calls({}, b, u)
    BY <2>1, <2>3, NotedCalls
  <2> QED BY <1>1, <1>2, <2>4 DEF Step
<1> QED BY <1>2, <1>4, <1>5, <1>6

(* vsql_m_disconnect. *)
LEMMA DisconnectStep ==
  ASSUME Between, NEW c \in Conns, Disconnect(c)
  PROVE  Step({})
<1>1. PICK b : b = Begin /\ Good(b) /\ Alone(b) /\ ~ Failed(b) /\ b.published = FALSE
  BY BeginIs
<1>2. PICK s, u : /\ s = [b EXCEPT !.agent.connected = TRUE]
                  /\ \/ u = Raise("08003", s) \/ u = Raise("25001", s)
                     \/ u \in Close(c, s)
                  /\ Becomes(u) /\ running /\ running' = running
  BY <1>1 DEF Disconnect, Finish, Become, Becomes
<1>3. Noted(b, s)
  BY <1>1, <1>2, NotedIs
<1>4. CASE u = Raise("08003", s)
  <2>1. Calls({}, b, u)
    BY <1>3, <1>4, RaiseCalls, CodesAre
  <2> QED BY <1>1, <1>2, <2>1 DEF Step
<1>5. CASE u = Raise("25001", s)
  <2>1. Calls({}, b, u)
    BY <1>3, <1>5, RaiseCalls, CodesAre
  <2> QED BY <1>1, <1>2, <2>1 DEF Step
<1>6. CASE u \in Close(c, s)
  <2>1. Good(s) /\ s \in State /\ s.agent.conns \subseteq Conns /\ s.agent.connected
    BY <1>3 DEF Noted, Good, State, Agent
  <2>2. Closes(c, s, u)
    BY <1>6, <2>1, CloseIs
  <2>3. Good(u)
    BY <2>1, <2>2, CloseIsGood
  <2>4. Calls({}, s, u)
    BY <2>1, <2>2, <2>3, StaysCalls DEF Closes
  <2>5. Calls({}, b, u)
    BY <1>3, <2>4, NotedCalls
  <2> QED BY <1>1, <1>2, <2>5 DEF Step
<1> QED BY <1>2, <1>4, <1>5, <1>6

(* DISCONNECT ALL.                                                         *)
LEMMA DisconnectAllStep ==
  ASSUME Between, DisconnectAll
  PROVE  Step({})
<1>1. PICK b : b = Begin /\ Good(b) /\ Alone(b) /\ ~ Failed(b) /\ b.published = FALSE
  BY BeginIs
<1>2. PICK s, u : /\ s = [b EXCEPT !.agent.connected = TRUE]
                  /\ u = Raise("25001", s) \/ u \in CloseAll(s)
                  /\ Becomes(u) /\ running /\ running' = running
  BY <1>1 DEF DisconnectAll, Finish, Become, Becomes
<1>3. Noted(b, s)
  BY <1>1, <1>2, NotedIs
<1>4. CASE u = Raise("25001", s)
  <2>1. Calls({}, b, u)
    BY <1>3, <1>4, RaiseCalls, CodesAre
  <2> QED BY <1>1, <1>2, <2>1 DEF Step
<1>5. CASE u \in CloseAll(s)
  <2>1. Good(s) /\ s \in State /\ s.agent.conns \subseteq Conns /\ s.agent.connected
    BY <1>3 DEF Noted, Good, State, Agent
  <2>2. ClosesAll(s, u)
    BY <1>5, <2>1, CloseAllIs
  <2>3. Good(u)
    BY <2>1, <2>2, CloseAllIsGood
  <2>4. Calls({}, s, u)
    BY <2>1, <2>2, <2>3, StaysCalls DEF ClosesAll
  <2>5. Calls({}, b, u)
    BY <1>3, <2>4, NotedCalls
  <2> QED BY <1>1, <1>2, <2>5 DEF Step
<1> QED BY <1>2, <1>4, <1>5

(* vsql_m_exit. *)
LEMMA ExitStep ==
  ASSUME Between, Exit
  PROVE  \E b, u : /\ b = Begin /\ Calls({}, b, u) /\ u.agent.conns = {} /\ Becomes(u)
                   /\ running /\ running' = FALSE
<1>1. PICK b : b = Begin /\ Good(b) /\ Alone(b) /\ ~ Failed(b) /\ b.published = FALSE
  BY BeginIs
<1>2. PICK u : /\ u \in CloseAll(b) /\ Becomes(u) /\ running /\ running' = FALSE
  BY <1>1 DEF Exit, Become, Becomes
<1>3. b \in State
  BY <1>1 DEF Good
<1>4. ClosesAll(b, u)
  BY <1>2, <1>3, CloseAllIs
<1>5. Good(u)
  BY <1>1, <1>4, CloseAllIsGood
<1>6. Calls({}, b, u) /\ u.agent.conns = {}
  BY <1>4, <1>5 DEF ClosesAll, Calls, Alone, Quiet, Apart
<1> QED BY <1>1, <1>2, <1>6

-----------------------------------------------------------------------------
(* The state between two calls. *)
Rested(a, l) == [agent |-> a, cli |-> l, da |-> Clear, published |-> FALSE,
                 sqlstate |-> Success]

(* The next call starts from what this one leaves.                         *)
LEMMA RestedIsGood ==
  ASSUME NEW u, Good(u), Alone(u)
  PROVE  Good(Rested(u.agent, u.cli)) /\ Alone(Rested(u.agent, u.cli))
<1> DEFINE e == Rested(u.agent, u.cli)
<1>1. e.agent = u.agent /\ e.cli = u.cli
  BY DEF Rested
<1>2. e \in State
  <2>1. u.agent \in Agent /\ u.cli \in Cli
    BY DEF Good, State
  <2> QED BY <2>1 DEF Rested, State, Clear, Codes
<1> HIDE DEF e
<1>3. Good(e)
  <2>1. /\ e.agent.current \in e.agent.conns \cup {None} /\ NoneLost(e)
        /\ \A c \in Conns : e.agent.active[c] => c = e.agent.current
    BY <1>1 DEF Good, NoneLost
  <2>2. \A c \in e.agent.conns : Fine(e, c)
    BY <1>1 DEF Good, Fine, Noticed, CursorsHeld, Rests
  <2>3. \A c \in Conns \ e.agent.conns : Empty(e, c)
    BY <1>1 DEF Good, Empty
  <2> QED BY <1>2, <2>1, <2>2, <2>3 DEF Good
<1>4. Alone(e)
  BY <1>1 DEF Alone
<1> QED BY <1>3, <1>4 DEF e

(* A state that is in order is one between two calls.                      *)
LEMMA BecomesBetween ==
  ASSUME NEW u, Good(u), Alone(u), Becomes(u), running' \in BOOLEAN,
         ~ running' => u.agent.conns = {}
  PROVE  Between'
<1>1. Good(Rested(agent', cli')) /\ Alone(Rested(agent', cli'))
  BY RestedIsGood DEF Becomes
<1>2. /\ da' \in [committed : BOOLEAN, rolledBack : BOOLEAN]
      /\ published' \in BOOLEAN
  BY DEF Becomes, Good, State
<1>3. ~ running' => agent'.conns = {}
  BY DEF Becomes
<1>4. Begin' = Rested(agent', cli')
  BY DEF Begin, Rested
<1> QED BY <1>1, <1>2, <1>3, <1>4 DEF Between

(* The program is started again.  It has no connections. *)
LEMMA RestartIs ==
  ASSUME Between, Restart
  PROVE  /\ Between' /\ agent' = [agent EXCEPT !.connected = FALSE]
         /\ cli'.tran = cli.tran /\ cli'.cursor = cli.cursor /\ cli'.prepared = cli.prepared
         /\ da' = Clear /\ ~ published'
         /\ agent.conns = {} /\ agent'.conns = {}
         /\ \A c \in Conns, k \in Cursors : ~ IsOpen(cli.cursor[c][k])
<1>1. PICK b : b = Begin /\ Good(b) /\ Alone(b) /\ ~ Failed(b) /\ b.published = FALSE
  BY BeginIs
<1>2. /\ b.agent = agent /\ b.cli = cli /\ b.agent \in Agent /\ b.cli \in Cli
      /\ agent.conns = {}
  BY <1>1 DEF Begin, Good, State, Between, Restart
<1>3. /\ agent' = [agent EXCEPT !.connected = FALSE]
      /\ cli' = [cli EXCEPT !.current = None, !.stuck = {}]
      /\ da' = Clear /\ published' = FALSE /\ running' = TRUE
  BY DEF Restart
<1>4. \A c \in Conns : Empty(b, c)
  BY <1>1, <1>2 DEF Good
<1>5. PICK u : u = Rested(agent', cli')
  OBVIOUS
<1>6. /\ u.agent.current = agent.current /\ u.agent.conns = {}
      /\ u.agent.active = agent.active /\ u.agent.module = agent.module /\ u.agent \in Agent
  BY <1>2, <1>3, <1>5 DEF Rested, Agent
<1>7. /\ u.cli.current = None /\ u.cli.tran = cli.tran /\ u.cli.cursor = cli.cursor
      /\ u.cli.prepared = cli.prepared /\ u.cli \in Cli
  BY <1>2, <1>3, <1>5 DEF Rested, Cli
<1>8. u \in State
  BY <1>5, <1>6, <1>7 DEF Rested, State, Clear, Codes
<1>9. \A c \in Conns : Empty(u, c)
  BY <1>2, <1>4, <1>6, <1>7 DEF Empty
<1>10. agent.current = None
  BY <1>1, <1>2 DEF Good
<1>11. Good(u)
  BY <1>6, <1>7, <1>8, <1>9, <1>10, NoneIs DEF Good, NoneLost, Empty
<1>12. Alone(u)
  BY <1>6 DEF Alone
<1>13. Between'
  <2>1. Begin' = u
    BY <1>5 DEF Begin, Rested
  <2>2. /\ da' \in [committed : BOOLEAN, rolledBack : BOOLEAN]
        /\ published' \in BOOLEAN /\ running' \in BOOLEAN /\ running'
    BY <1>3 DEF Clear
  <2> QED BY <1>11, <1>12, <2>1, <2>2 DEF Between
<1>14. \A c \in Conns, k \in Cursors : ~ IsOpen(cli.cursor[c][k])
  BY <1>2, <1>4, NoneIs DEF Empty, IsOpen
<1>15. u.agent = agent' /\ u.cli = cli'
  BY <1>5 DEF Rested
<1> QED BY <1>2, <1>3, <1>6, <1>7, <1>13, <1>14, <1>15

(* What a step may be. *)
Called(K) ==
  \E b, u : /\ b = Begin /\ Calls(K, b, u) /\ Becomes(u)
            /\ running' \in BOOLEAN /\ (~ running' => u.agent.conns = {})

(* Every step is a call (only CLOSE may close a cursor), a COMMIT or a     *)
(* ROLLBACK, or a restart.                                                 *)
LEMMA NextIs ==
  ASSUME Between, Next
  PROVE  \/ Called({})
         \/ \E k \in Cursors : CloseCursor(k) /\ Called({k})
         \/ \E m \in Modules, commit \in BOOLEAN : End(m, commit) /\ EndStep(commit)
         \/ Restart
<1>1. ASSUME NEW m \in Modules, NEW c \in Conns, Connect(m, c)
      PROVE  Step({})
  BY <1>1, ConnectStep
<1>2. ASSUME ConnectToInvalidName
      PROVE  Step({})
  BY <1>2, ConnectToInvalidNameStep
<1>3. ASSUME NEW c \in Conns, SetConnection(c) \/ Disconnect(c)
      PROVE  Step({})
  BY <1>3, SetConnectionStep, DisconnectStep
<1>4. ASSUME DisconnectAll
      PROVE  Step({})
  BY <1>4, DisconnectAllStep
<1>5. ASSUME NEW m \in Modules, NEW text,
             Execute(m, text) \/ Select(m, text) \/ ExecuteImmediate(m, text)
      PROVE  Step({})
  BY <1>5, ExecuteStep, SelectStep, ExecuteImmediateStep
<1>6. ASSUME NEW m \in Modules, Start(m)
      PROVE  Step({})
  BY <1>6, StartStep
<1>7. ASSUME NEW m \in Modules, NEW commit \in BOOLEAN, End(m, commit)
      PROVE  EndStep(commit)
  BY <1>7, EndIsStep
<1>8. ASSUME NEW k \in Cursors, OpenCursor(k) \/ OpenDynamic(k) \/ Fetch(k)
      PROVE  Step({})
  BY <1>8, OpenCursorStep, OpenDynamicStep, FetchStep
<1>9. ASSUME NEW k \in Cursors, CloseCursor(k)
      PROVE  Step({k})
  BY <1>9, CloseCursorStep
<1>10. ASSUME NEW p \in Statements, NEW text \in Texts, Prepare(p, text)
       PROVE  Step({})
  BY <1>10, PrepareStep
<1>11. ASSUME NEW p \in Statements, DeallocatePrepare(p) \/ ExecutePrepared(p)
       PROVE  Step({})
  BY <1>11, DeallocatePrepareStep, ExecutePreparedStep
<1>12. ASSUME Exit
       PROVE  Called({})
  BY <1>12, ExitStep DEF Called
<1>13. \A K : Step(K) => Called(K)
  BY DEF Step, Called, Between
<1>14. \A m \in Modules : /\ Commit(m) => End(m, TRUE) /\ EndStep(TRUE)
                          /\ Rollback(m) => End(m, FALSE) /\ EndStep(FALSE)
  BY <1>7 DEF Commit, Rollback
<1>15. \/ Step({})
       \/ \E k \in Cursors : CloseCursor(k) /\ Step({k})
       \/ \E m \in Modules : \/ End(m, TRUE) /\ EndStep(TRUE)
                             \/ End(m, FALSE) /\ EndStep(FALSE)
       \/ Called({})
       \/ Restart
  BY <1>1, <1>2, <1>3, <1>4, <1>5, <1>6, <1>8, <1>9, <1>10, <1>11, <1>12, <1>14 DEF Next
<1> QED BY <1>13, <1>15

(* The invariant is inductive.                                             *)
LEMMA NextKeepsBetween ==
  ASSUME Between, [Next]_vars
  PROVE  Between'
<1>1. ASSUME NEW K, Called(K)
      PROVE  Between'
  BY <1>1, BecomesBetween DEF Called, Calls
<1>2. ASSUME NEW commit, EndStep(commit)
      PROVE  Between'
  <2>1. PICK u : Good(u) /\ Alone(u) /\ Becomes(u) /\ running /\ running' = running
    BY <1>2 DEF EndStep, Effects
  <2>2. running' \in BOOLEAN /\ running'
    BY <2>1 DEF Between
  <2> QED BY <2>1, <2>2, BecomesBetween
<1>3. ASSUME UNCHANGED vars
      PROVE  Between'
  BY <1>3 DEF vars, Between, Begin
<1>4. CASE Next
  BY <1>1, <1>2, <1>4, NextIs, RestartIs
<1> QED BY <1>3, <1>4

(* It holds when the program starts.                                       *)
LEMMA InitIsBetween ==
  ASSUME Init
  PROVE  Between
<1>1. PICK b : b = Begin
  OBVIOUS
<1>2. /\ b.agent = agent /\ b.cli = cli
      /\ b = [agent |-> agent, cli |-> cli, da |-> Clear, published |-> FALSE,
              sqlstate |-> Success]
  BY <1>1 DEF Begin
<1>3. agent \in Agent
  BY DEF Init, Agent
<1>4. cli \in Cli
  <2>1. [k \in Cursors |-> None] \in [Cursors -> CursorState]
    BY DEF CursorState
  <2>2. [p \in Statements |-> NoStatement] \in [Statements -> Prepared]
    BY DEF NoStatement, Prepared
  <2> DEFINE noCursors == [k \in Cursors |-> None]
             noStatements == [p \in Statements |-> NoStatement]
  <2>3. cli = [current |-> None, tran |-> [c \in Conns |-> "none"], stuck |-> {},
               cursor |-> [c \in Conns |-> noCursors],
               prepared |-> [c \in Conns |-> noStatements]]
    BY DEF Init
  <2> HIDE DEF noCursors, noStatements
  <2>4. noCursors \in [Cursors -> CursorState] /\ noStatements \in [Statements -> Prepared]
    BY <2>1, <2>2 DEF noCursors, noStatements
  <2> QED BY <2>3, <2>4 DEF Cli
<1>5. b \in State
  BY <1>2, <1>3, <1>4 DEF State, Clear, Codes
<1>6. \A c \in Conns : Empty(b, c)
  BY <1>2 DEF Init, Empty
<1>7. Good(b) /\ Alone(b)
  BY <1>2, <1>5, <1>6, NoneIs DEF Init, Good, NoneLost, Empty, Alone
<1> QED BY <1>1, <1>7 DEF Between, Init, Clear

(* Between any two calls every connection of the list is in order, and     *)
(* nothing is left of any other: the inductive invariant.                  *)
THEOREM BetweenAlways == Spec => []Between
<1>1. Init => Between
  BY InitIsBetween
<1>2. Between /\ [Next]_vars => Between'
  BY NextKeepsBetween
<1> QED BY <1>1, <1>2, PTL DEF Spec

-----------------------------------------------------------------------------
(* The invariants. *)

(* The current SQL-connection is always one of the list it points into     *)
(* (vsql_m_close and DISCONNECT forget it), and all is of its type.        *)
THEOREM TypeAlways == Spec => []TypeOK
<1>1. ASSUME Between
      PROVE  TypeOK
  <2>1. PICK b : b = Begin /\ Good(b)
    BY <1>1, BeginIs
  <2>2. agent \in Agent /\ cli \in Cli /\ agent.current \in agent.conns \cup {None}
    BY <2>1 DEF Begin, Good, State
  <2>3. cli \in [current : Conns \cup {None, Orphan},
             tran : [Conns -> {"none", "idle", "changed"}],
             stuck : SUBSET (Conns \cup {Orphan}),
             cursor : [Conns -> [Cursors -> {None, "fresh", "closed", "leaked"} \cup Queries]],
             prepared : [Conns -> [Statements -> [text : Texts \cup {None}, open : BOOLEAN]]]]
    BY <2>2 DEF Cli, CursorState, Prepared
  <2> QED BY <1>1, <2>2, <2>3 DEF TypeOK, Between, Agent
<1>2. Between => TypeOK
  BY <1>1
<1> QED BY <1>2, BetweenAlways, PTL

(* Only the current connection is taken to be in a transaction, so that    *)
(* vsql_m_switch may look at that one only.                                *)
THEOREM CurrentAlways == Spec => []ActiveIsCurrent
<1>1. ASSUME Between
      PROVE  ActiveIsCurrent
  <2>1. PICK b : b = Begin /\ Good(b)
    BY <1>1, BeginIs
  <2>2. b.agent = agent /\ \A c \in Conns : b.agent.active[c] => c = b.agent.current
    BY <2>1 DEF Begin, Good
  <2> QED BY <2>2 DEF ActiveIsCurrent
<1>2. Between => ActiveIsCurrent
  BY <1>1
<1> QED BY <1>2, BetweenAlways, PTL

(* However an OPEN or an EXECUTE fails, it leaves no CLI statement that    *)
(* was never executed and no prepared statement with an open cursor        *)
(* (vsql_m_open_cursor, vsql_m_open_dynamic, vsql_m_execute_prepared).     *)
THEOREM RestAlways == Spec => []AtRest
<1>1. ASSUME Between
      PROVE  AtRest
  <2>1. PICK b : b = Begin /\ Good(b)
    BY <1>1, BeginIs
  <2>2. \A c \in Conns : Rests(b, c)
    BY <2>1, GoodAll DEF Fine
  <2>3. b.cli = cli
    BY <2>1 DEF Begin
  <2> QED BY <2>2, <2>3 DEF Rests, AtRest
<1>2. Between => AtRest
  BY <1>1
<1> QED BY <1>2, BetweenAlways, PTL

(* The CLI is only left with a connection that the agent has forgotten if  *)
(* the ROLLBACK of vsql_m_close failed.                                    *)
THEOREM NoOrphanAlways == Spec => []NoOrphan
<1>1. ASSUME Between
      PROVE  NoOrphan
  <2>1. PICK b : b = Begin /\ Good(b)
    BY <1>1, BeginIs
  <2>2. b.cli = cli /\ b.agent = agent /\ NoneLost(b)
    BY <2>1 DEF Begin, Good
  <2> QED BY <2>2 DEF NoneLost, NoOrphan
<1>2. Between => NoOrphan
  BY <1>1
<1> QED BY <1>2, BetweenAlways, PTL

-----------------------------------------------------------------------------
(* The action properties. *)

(* What a call starts from.                                                *)
LEMMA CalledIs ==
  ASSUME NEW K, Called(K)
  PROVE  \E b, u : /\ Calls(K, b, u) /\ Becomes(u) /\ b.agent = agent /\ b.cli = cli
                   /\ b.da = Clear /\ ~ b.published
                   /\ \A c : Refused(b, c) <=> Blocked(c)
<1>1. PICK b, u : b = Begin /\ Calls(K, b, u) /\ Becomes(u)
  BY DEF Called
<1>2. b.agent = agent /\ b.cli = cli /\ b.da = Clear /\ ~ b.published
  BY <1>1 DEF Begin
<1>3. \A c : Refused(b, c) <=> Blocked(c)
  BY <1>1 DEF Blocked
<1> QED BY <1>1, <1>2, <1>3

(* What a COMMIT or a ROLLBACK starts from.                                *)
LEMMA EndStepIs ==
  ASSUME NEW commit, EndStep(commit)
  PROVE  \E b, u : /\ Effects(Cursors, b, u) /\ Reported(b, u) /\ OnRequest(commit, b, u)
                   /\ Becomes(u) /\ b.agent = agent /\ b.cli = cli /\ ~ b.published
                   /\ \A c : Refused(b, c) <=> Blocked(c)
<1>1. PICK b, u : /\ b = Begin /\ Effects(Cursors, b, u) /\ Reported(b, u)
                  /\ OnRequest(commit, b, u) /\ Becomes(u)
  BY DEF EndStep
<1>2. b.agent = agent /\ b.cli = cli /\ ~ b.published
  BY <1>1 DEF Begin
<1>3. \A c : Refused(b, c) <=> Blocked(c)
  BY <1>1 DEF Blocked
<1> QED BY <1>1, <1>2, <1>3

(* Changes become permanent in a COMMIT only. That of vsql_m_schema makes  *)
(* none permanent, unless an earlier end of a transaction failed.          *)
THEOREM PublishedOnRequestAlways == Spec => PublishedOnRequest
<1> DEFINE Requested == published' => \/ \E m \in Modules : Commit(m)
                                      \/ agent.current \in cli.stuck
<1>1. ASSUME Between, Next
      PROVE  Requested
  <2>1. ASSUME NEW K, Called(K)
        PROVE  Requested
    BY <2>1, CalledIs DEF Calls, Quiet, Becomes
  <2>2. ASSUME NEW m \in Modules, NEW commit \in BOOLEAN, End(m, commit), EndStep(commit)
        PROVE  Requested
    <3>1. commit => Commit(m)
      BY <2>2 DEF Commit
    <3> QED BY <2>2, <3>1, EndStepIs DEF OnRequest, Becomes
  <2> HIDE DEF Requested
  <2>3. Restart => Requested
    BY <1>1, RestartIs DEF Requested
  <2> QED BY <1>1, <2>1, <2>2, <2>3, NextIs
<1>2. Between /\ [Next]_vars => [Requested]_vars
  BY <1>1
<1> QED BY <1>2, BetweenAlways, PTL DEF Spec, PublishedOnRequest

(* The transaction information of vsql_m_end agrees with what became of    *)
(* the changes, but for a COMMIT without the transaction that the agent    *)
(* remembers (Unfounded) and after an end of it that failed: none that are *)
(* reported as rolled back are permanent, all that are reported as         *)
(* committed are, and no COMMIT or ROLLBACK that ends a transaction with   *)
(* changes is silent.                                                      *)
THEOREM ReportedEndsAlways == Spec => ReportedEnds
<1> DEFINE Agrees ==
             LET c == agent.current IN
             /\ da'.rolledBack => ~published'
             /\ da'.committed => published' \/ cli.tran[c] = "idle" \/ Unfounded(c)
             /\ published' => da'.committed \/ c \in cli.stuck
           Told ==
             LET c == agent.current IN
             /\ c \in agent.conns \ cli.stuck
             /\ cli.tran[c] = "changed" /\ cli'.tran[c] = "none"
             /\ \E m \in Modules : Commit(m) \/ Rollback(m)
             => da'.committed \/ da'.rolledBack
<1>1. ASSUME Between, Next
      PROVE  Agrees
  <2>1. ASSUME NEW K, Called(K)
        PROVE  Agrees
    BY <2>1, CalledIs DEF Calls, Quiet, Becomes, Clear
  <2>2. ASSUME NEW commit, EndStep(commit)
        PROVE  Agrees
    <3>1. PICK b, u : Reported(b, u) /\ Becomes(u) /\ b.agent = agent /\ b.cli = cli
      BY <2>2, EndStepIs
    <3>2. \A c : b.agent.active[c] /\ b.cli.tran[c] = "none" => Unfounded(c)
      BY <3>1 DEF Unfounded, InTransaction, Begin
    <3> QED BY <3>1, <3>2 DEF Reported, Becomes
  <2>3. Restart => Agrees
    BY <1>1, RestartIs DEF Clear
  <2> HIDE DEF Agrees
  <2> QED BY <1>1, <2>1, <2>2, <2>3, NextIs
<1>2. ASSUME Between
      PROVE  Told
  <2>1. SUFFICES ASSUME NEW m \in Modules, Commit(m) \/ Rollback(m)
                 PROVE  LET c == agent.current IN
                        /\ c \in agent.conns \ cli.stuck
                        /\ cli.tran[c] = "changed" /\ cli'.tran[c] = "none"
                        => da'.committed \/ da'.rolledBack
    OBVIOUS
  <2>2. PICK commit \in BOOLEAN : EndStep(commit)
    BY <1>2, <2>1, EndIsStep DEF Commit, Rollback
  <2>3. PICK b, u : Reported(b, u) /\ Becomes(u) /\ b.agent = agent /\ b.cli = cli
    BY <2>2, EndStepIs
  <2> QED BY <2>3 DEF Reported, Becomes
<1>3. Between /\ [Next]_vars => [Agrees /\ Told]_vars
  BY <1>1, <1>2
<1>4. Spec => [][Agrees /\ Told]_vars
  BY <1>3, BetweenAlways, PTL DEF Spec
<1>5. [Agrees /\ Told]_vars <=> [LET c == agent.current IN
        /\ da'.rolledBack => ~published'
        /\ da'.committed => published' \/ cli.tran[c] = "idle" \/ Unfounded(c)
        /\ published' => da'.committed \/ c \in cli.stuck
        /\ /\ c \in agent.conns \ cli.stuck
           /\ cli.tran[c] = "changed" /\ cli'.tran[c] = "none"
           /\ \E m \in Modules : Commit(m) \/ Rollback(m)
           => da'.committed \/ da'.rolledBack]_vars
  OBVIOUS
<1> QED BY <1>4, <1>5, PTL DEF ReportedEnds

(* A cursor stays open until it's closed by CLOSE (vsql_m_close_cursor),   *)
(* COMMIT, ROLLBACK or the end of its connection, or the CLI refuses the   *)
(* connection.                                                             *)
THEOREM CursorsStayOpenAlways == Spec => CursorsStayOpen
<1> DEFINE Stays(c, k) == IsOpen(cli.cursor[c][k]) /\ ~IsOpen(cli.cursor'[c][k]) =>
             \/ Blocked(c)
             \/ c \notin agent'.conns
             \/ CloseCursor(k)
             \/ \E m \in Modules : Commit(m) \/ Rollback(m)
<1>1. ASSUME Between, Next, NEW c \in Conns, NEW k \in Cursors
      PROVE  Stays(c, k)
  <2>1. PICK e : e = Begin /\ Good(e)
    BY <1>1, BeginIs
  <2>2. c \notin agent.conns => ~ IsOpen(cli.cursor[c][k])
    BY <2>1, NoneIs DEF Begin, Good, Empty, IsOpen
  <2>3. ASSUME NEW K, Called(K), k \notin K
        PROVE  Stays(c, k)
    <3>1. PICK b, u : /\ Calls(K, b, u) /\ Becomes(u) /\ b.agent = agent /\ b.cli = cli
                      /\ \A d : Refused(b, d) <=> Blocked(d)
      BY <2>3, CalledIs
    <3>2. c \in agent.conns \cap u.agent.conns => KeepsCursor(c, k, b, u)
      BY <2>3, <3>1 DEF Calls, Keeps
    <3>3. agent' = u.agent /\ cli' = u.cli
      BY <3>1 DEF Becomes
    <3>4. cli.cursor'[c][k] = cli'.cursor[c][k]
      OBVIOUS
    <3> QED BY <2>2, <3>1, <3>2, <3>3, <3>4 DEF KeepsCursor
  <2>4. ASSUME NEW l \in Cursors, CloseCursor(l), Called({l})
        PROVE  Stays(c, k)
    <3>1. CASE l = k
      BY <2>4, <3>1
    <3>2. CASE l # k
      <4> HIDE DEF Stays
      <4> QED BY <2>3, <2>4, <3>2
    <3> QED BY <3>1, <3>2
  <2>5. ASSUME NEW m \in Modules, NEW commit \in BOOLEAN, End(m, commit)
        PROVE  Stays(c, k)
    BY <2>5 DEF Commit, Rollback
  <2>6. Restart => Stays(c, k)
    BY <1>1, RestartIs
  <2> HIDE DEF Stays
  <2> QED BY <1>1, <2>3, <2>4, <2>5, <2>6, NextIs
<1>2. Between /\ [Next]_vars => [\A c \in Conns, k \in Cursors : Stays(c, k)]_vars
  <2> HIDE DEF Stays
  <2> QED BY <1>1
<1> QED BY <1>2, BetweenAlways, PTL DEF Spec, CursorsStayOpen

(* The statement of an open dynamic cursor isn't deallocated or prepared   *)
(* again (vsql_m_deallocate), unless the CLI refuses the connection.       *)
THEOREM StatementsKeptAlways == Spec => OpenCursorsKeepTheirStatement
<1> DEFINE Kept(c, k) ==
             /\ StatementOf[k] # None
             /\ IsOpen(cli.cursor[c][k]) /\ IsOpen(cli.cursor'[c][k])
             /\ cli.prepared[c][StatementOf[k]] \notin
                  {NoStatement, cli.prepared'[c][StatementOf[k]]}
             => Blocked(c)
<1>1. ASSUME Between, Next, NEW c \in Conns, NEW k \in Cursors
      PROVE  Kept(c, k)
  <2>1. PICK e : e = Begin /\ Good(e)
    BY <1>1, BeginIs
  <2>2. c \notin agent.conns => ~ IsOpen(cli.cursor[c][k])
    BY <2>1, NoneIs DEF Begin, Good, Empty, IsOpen
  <2>3. ASSUME NEW K, NEW b, NEW u, Effects(K, b, u), Becomes(u), b.agent = agent, b.cli = cli,
               \A d : Refused(b, d) <=> Blocked(d)
        PROVE  Kept(c, k)
    <3>1. c \in agent.conns \cap u.agent.conns => KeepsStatement(c, k, b, u)
      BY <2>3 DEF Effects, Keeps
    <3>2. agent' = u.agent /\ cli' = u.cli
      BY <2>3 DEF Becomes
    <3>3. c \notin u.agent.conns => ~ IsOpen(u.cli.cursor[c][k])
      BY <2>3, NoneIs DEF Effects, Good, Empty, IsOpen
    <3> QED BY <2>2, <2>3, <3>1, <3>2, <3>3 DEF KeepsStatement
  <2>4. ASSUME NEW K, Called(K)
        PROVE  Kept(c, k)
    <3> HIDE DEF Kept
    <3> QED BY <2>3, <2>4, CalledIs, CallsEffects
  <2>5. ASSUME NEW commit, EndStep(commit)
        PROVE  Kept(c, k)
    <3> HIDE DEF Kept
    <3> QED BY <2>3, <2>5, EndStepIs
  <2>6. Restart => Kept(c, k)
    BY <1>1, RestartIs
  <2> HIDE DEF Kept
  <2> QED BY <1>1, <2>4, <2>5, <2>6, NextIs
<1>2. Between /\ [Next]_vars => [\A c \in Conns, k \in Cursors : Kept(c, k)]_vars
  <2> HIDE DEF Kept
  <2> QED BY <1>1
<1> QED BY <1>2, BetweenAlways, PTL DEF Spec, OpenCursorsKeepTheirStatement

(* A call works on one connection, which is the current one after it if    *)
(* it's new (vsql_m_connection, vsql_m_open), and changes no other.        *)
THEOREM SeparateAlways == Spec => ConnectionsAreSeparate
<1> DEFINE Made == agent'.conns \ agent.conns \subseteq {agent'.current}
           Kept(c) ==
             <<agent.active[c], agent.module[c], cli.tran[c], cli.cursor[c], cli.prepared[c]>> =
             <<agent'.active[c], agent'.module[c], cli'.tran[c], cli'.cursor[c], cli'.prepared[c]>>
           Others == \A c \in (agent.conns \cap agent'.conns) \ {agent.current} : Kept(c)
<1>1. ASSUME Between, Next
      PROVE  Made /\ Others
  <2>1. ASSUME NEW K, NEW b, NEW u, Effects(K, b, u), Becomes(u), b.agent = agent, b.cli = cli
        PROVE  Made /\ Others
    <3>1. Apart(b, u) /\ agent' = u.agent /\ cli' = u.cli
      BY <2>1 DEF Effects, Becomes
    <3>2. Made
      BY <2>1, <3>1 DEF Apart
    <3>3. \A c \in (agent.conns \cap agent'.conns) \ {agent.current} : Same(c, b, u)
      BY <2>1, <3>1 DEF Apart
    <3>4. ASSUME NEW c, Same(c, b, u)
          PROVE  Kept(c)
      BY <2>1, <3>1, <3>4 DEF Same
    <3> HIDE DEF Kept
    <3> QED BY <3>2, <3>3, <3>4
  <2>2. Restart => Made /\ Others
    BY <1>1, RestartIs
  <2> HIDE DEF Made, Others
  <2>3. ASSUME NEW K, Called(K)
        PROVE  Made /\ Others
    BY <2>1, <2>3, CalledIs, CallsEffects
  <2>4. ASSUME NEW commit, EndStep(commit)
        PROVE  Made /\ Others
    BY <2>1, <2>4, EndStepIs
  <2> QED BY <1>1, <2>2, <2>3, <2>4, NextIs
<1>2. Between /\ [Next]_vars => [Made /\ Others]_vars
  <2> HIDE DEF Made, Others
  <2> QED BY <1>1
<1> QED BY <1>2, BetweenAlways, PTL DEF Spec, ConnectionsAreSeparate

-----------------------------------------------------------------------------
(* Closing all connections is closing one after the other. *)

(* Whether the CLI may keep one of the connections of C. *)
Losing(C, s) ==
  {{}} \cup (IF \E d \in C : InTransaction(s, d) THEN {{Orphan}} ELSE {})

(* The ROLLBACK of vsql_m_close may fail, or not: SQLEndTran ends in both.  *)
LEMMA EndTranMay ==
  ASSUME NEW c \in Conns, NEW s \in State, NEW lost \in Losing({c}, s)
  PROVE  \E e \in EndTran(c, FALSE, s) : Lost(c, e) = lost
<1> DEFINE closed == [k \in Cursors |->
             IF IsOpen(s.cli.cursor[c][k]) /\ ~(FALSE /\ k \in Holdable) THEN "closed"
             ELSE s.cli.cursor[c][k]]
           t == [s EXCEPT !.cli.cursor[c] = [k \in Cursors |->
                   IF IsOpen(@[k]) /\ ~(FALSE /\ k \in Holdable) THEN "closed" ELSE @[k]]]
           kept == Raise("58030", [t EXCEPT !.cli.stuck = @ \cup {c}])
           changed == s.cli.tran[c] = "changed"
           e == [Ended(c, t) EXCEPT !.published = @ \/ (FALSE /\ changed)]
<1>1. t = [s EXCEPT !.cli.cursor[c] = closed]
  BY DEF State, Cli
<1>2. IF InTransaction(s, c) THEN kept \in EndTran(c, FALSE, s) /\ e \in EndTran(c, FALSE, s)
                             ELSE t \in EndTran(c, FALSE, s)
  BY DEF EndTran
<1>3. closed \in [Cursors -> CursorState]
  BY DEF State, Cli, CursorState
<1> HIDE DEF closed, t
<1>4. t \in State /\ t.cli.tran = s.cli.tran
  BY <1>1, <1>3 DEF State, Cli
<1>5. kept.cli.tran = s.cli.tran
  BY <1>4 DEF Raise, State, Cli
<1>6. Ended(c, t) \in State /\ Ended(c, t).cli.tran[c] = "none"
  BY <1>4, EndedIs DEF Runs, Works
<1>7. e.cli = Ended(c, t).cli
  BY <1>6 DEF State
<1> HIDE DEF kept, e
<1>8. CASE ~ InTransaction(s, c)
  <2>1. lost = {}
    BY <1>8 DEF Losing
  <2> QED BY <1>2, <1>4, <1>8, <2>1 DEF Lost, InTransaction
<1>9. CASE InTransaction(s, c)
  <2>1. Lost(c, kept) = {Orphan} /\ Lost(c, e) = {}
    BY <1>5, <1>6, <1>7, <1>9 DEF Lost, InTransaction
  <2>2. lost \in {{}, {Orphan}}
    BY DEF Losing
  <2> QED BY <1>2, <1>9, <2>1, <2>2
<1> QED BY <1>8, <1>9

(* Every state that vsql_m_close ends in is one where its ROLLBACK failed, *)
(* or didn't.                                                              *)
LEMMA CloseDoes ==
  ASSUME NEW c \in Conns, NEW s \in State, NEW u \in Close(c, s)
  PROVE  \E lost \in Losing({c}, s) : Closes(c, s, u) /\ Leaves(c, s, lost, u)
<1>1. PICK e \in EndTran(c, FALSE, Unlink(c, s)) :
        u = CliDisconnect(c, [e EXCEPT !.sqlstate = s.sqlstate])
  BY DEF Close, Ignoring
<1>2. /\ Closes(c, s, u) /\ Leaves(c, s, Lost(c, e), u)
      /\ InTransaction(e, c) => InTransaction(s, c)
  BY <1>1, CloseEnds
<1>3. Lost(c, e) \in Losing({c}, s)
  BY <1>2 DEF Lost, Losing
<1> QED BY <1>2, <1>3

(* And vsql_m_close may end in each of them.                               *)
LEMMA CloseMay ==
  ASSUME NEW c \in Conns, NEW s \in State, NEW lost \in Losing({c}, s)
  PROVE  \E u \in Close(c, s) : Closes(c, s, u) /\ Leaves(c, s, lost, u)
<1> DEFINE t == Unlink(c, s)
<1>1. t \in State /\ t.cli = s.cli
  BY UnlinkIs
<1> HIDE DEF t
<1>2. lost \in Losing({c}, t)
  BY <1>1 DEF Losing, InTransaction
<1>3. PICK e \in EndTran(c, FALSE, t) : Lost(c, e) = lost
  BY <1>1, <1>2, EndTranMay
<1> DEFINE u == CliDisconnect(c, [e EXCEPT !.sqlstate = s.sqlstate])
<1>4. u \in Close(c, s)
  BY <1>3 DEF Close, Ignoring, t
<1> HIDE DEF u
<1>5. Closes(c, s, u) /\ Leaves(c, s, lost, u)
  BY <1>3, CloseEnds DEF t, u
<1> QED BY <1>4, <1>5

(* Everything that CloseAll ends in, by whether the CLI keeps one.         *)
ClosesTo(s, lost, u) == ClosesAll(s, u) /\ LeavesAll(s, lost, u)

(* These leave nothing open: two of them are the same state.               *)
LEMMA ClosedIsOne ==
  ASSUME NEW s, NEW lost, NEW u, NEW v, ClosesTo(s, lost, u), ClosesTo(s, lost, v)
  PROVE  u = v
<1>1. /\ u \in State /\ v \in State
      /\ ClosesAll(s, u) /\ LeavesAll(s, lost, u) /\ ClosesAll(s, v) /\ LeavesAll(s, lost, v)
  BY DEF ClosesTo, ClosesAll
<1>2. u.agent \in Agent /\ v.agent \in Agent /\ u.cli \in Cli /\ v.cli \in Cli
  BY <1>1 DEF State
<1>3. \A d \in Conns : /\ u.agent.active[d] = v.agent.active[d]
                       /\ u.agent.module[d] = v.agent.module[d]
                       /\ u.cli.tran[d] = v.cli.tran[d]
                       /\ u.cli.cursor[d] = v.cli.cursor[d]
                       /\ u.cli.prepared[d] = v.cli.prepared[d]
  <2> TAKE d \in Conns
  <2>1. u.agent.active[d] \in BOOLEAN /\ v.agent.active[d] \in BOOLEAN
    BY <1>2 DEF Agent
  <2>2. CASE d \in s.agent.conns
    BY <1>1, <2>1, <2>2 DEF ClosesAll, Empty
  <2>3. CASE d \notin s.agent.conns
    BY <1>1, <2>3 DEF ClosesAll, Same
  <2> QED BY <2>2, <2>3
<1>4. u.agent = v.agent
  <2>1. u.agent.active = v.agent.active /\ u.agent.module = v.agent.module
    BY <1>2, <1>3 DEF Agent
  <2>2. /\ u.agent.current = v.agent.current /\ u.agent.connected = v.agent.connected
        /\ u.agent.conns = v.agent.conns
    BY <1>1 DEF ClosesAll
  <2> QED BY <1>2, <2>1, <2>2 DEF Agent
<1>5. u.cli = v.cli
  <2>1. u.cli.tran = v.cli.tran
    BY <1>2, <1>3 DEF Cli
  <2>2. u.cli.cursor = v.cli.cursor
    BY <1>2, <1>3 DEF Cli
  <2>3. u.cli.prepared = v.cli.prepared
    BY <1>2, <1>3 DEF Cli
  <2>4. u.cli.current = v.cli.current /\ u.cli.stuck = v.cli.stuck
    BY <1>1 DEF LeavesAll
  <2>5. ASSUME NEW x \in Cli
        PROVE  x = [current |-> x.current, tran |-> x.tran, stuck |-> x.stuck,
                    cursor |-> x.cursor, prepared |-> x.prepared]
    BY DEF Cli
  <2> QED BY <1>2, <2>1, <2>2, <2>3, <2>4, <2>5
<1>6. u.da = v.da /\ u.published = v.published /\ u.sqlstate = v.sqlstate
  BY <1>1 DEF ClosesAll
<1> QED BY <1>1, <1>4, <1>5, <1>6 DEF State

(* CloseAll ends in a state where the CLI keeps no connection, or, if one  *)
(* is in a transaction, in one where it keeps one.                         *)
LEMMA CloseAllDoes ==
  ASSUME NEW s \in State, NEW u
  PROVE  u \in CloseAll(s) <=> \E lost \in Losing(s.agent.conns, s) : ClosesTo(s, lost, u)
<1> DEFINE busy == {c \in s.agent.conns : InTransaction(s, c)}
<1>1. \A v : v \in CloseAll(s) <=> \E kept \in SUBSET busy : v = AllClosed(s, kept)
  BY DEF CloseAll, AllClosed
<1>2. \A kept \in SUBSET busy : ClosesTo(s, LostOf(kept), AllClosed(s, kept))
  BY AllClosedIs DEF ClosesTo
<1>3. \A kept \in SUBSET busy : LostOf(kept) \in Losing(s.agent.conns, s)
  BY DEF LostOf, Losing
<1>4. \A lost \in Losing(s.agent.conns, s) : \E kept \in SUBSET busy : LostOf(kept) = lost
  <2> TAKE lost \in Losing(s.agent.conns, s)
  <2>1. CASE lost = {}
    BY <2>1 DEF LostOf
  <2>2. CASE lost # {}
    <3>1. busy # {} /\ lost = {Orphan}
      BY <2>2 DEF Losing
    <3> QED BY <3>1 DEF LostOf
  <2> QED BY <2>1, <2>2
<1> HIDE DEF busy
<1>5. ASSUME u \in CloseAll(s)
      PROVE  \E lost \in Losing(s.agent.conns, s) : ClosesTo(s, lost, u)
  BY <1>1, <1>2, <1>3, <1>5
<1>6. ASSUME NEW lost \in Losing(s.agent.conns, s), ClosesTo(s, lost, u)
      PROVE  u \in CloseAll(s)
  <2>1. PICK kept \in SUBSET busy : LostOf(kept) = lost
    BY <1>4
  <2>2. ClosesTo(s, lost, AllClosed(s, kept))
    BY <1>2, <2>1
  <2>3. u = AllClosed(s, kept)
    BY <1>6, <2>2, ClosedIsOne
  <2> QED BY <1>1, <2>3
<1> QED BY <1>5, <1>6

(* Each of them is reached.                                                *)
LEMMA CloseAllMay ==
  ASSUME NEW s \in State, NEW lost \in Losing(s.agent.conns, s)
  PROVE  \E u \in CloseAll(s) : ClosesTo(s, lost, u)
<1>1. PICK kept \in SUBSET s.agent.conns : LostOf(kept) = lost
  <2>1. CASE lost = {}
    BY <2>1 DEF LostOf
  <2>2. CASE lost # {}
    <3>1. s.agent.conns # {} /\ lost = {Orphan}
      BY <2>2 DEF Losing
    <3> QED BY <3>1 DEF LostOf
  <2> QED BY <2>1, <2>2
<1>2. ClosesTo(s, lost, AllClosed(s, kept))
  BY <1>1, AllClosedIs DEF ClosesTo
<1> QED BY <1>2, CloseAllDoes

(* Closing c and then the others comes to closing all.                     *)
LEMMA ClosesOn ==
  ASSUME NEW s, Good(s), NEW c \in s.agent.conns,
         NEW one \in SUBSET {Orphan}, NEW t, Closes(c, s, t), Leaves(c, s, one, t),
         NEW others \in SUBSET {Orphan}, NEW u, ClosesTo(t, others, u)
  PROVE  ClosesTo(s, one \cup others, u)
<1>1. /\ s \in State /\ t \in State /\ c \in Conns /\ Orphan \notin Conns
      /\ s.agent.conns \subseteq Conns
      /\ s.cli.current \in s.agent.conns \cup {None, Orphan}
  BY NoneIs DEF Good, NoneLost, Closes, State, Agent
<1>2. t.agent.conns = s.agent.conns \ {c}
  BY DEF Closes
<1>3. ClosesAll(t, u) /\ LeavesAll(t, others, u)
  BY DEF ClosesTo
<1>4. \A d \in Conns : IF d \in s.agent.conns THEN Empty(u, d) ELSE Same(d, s, u)
  <2> TAKE d \in Conns
  <2>1. CASE d = c
    <3>1. Empty(t, c) /\ Same(c, t, u)
      BY <1>1, <1>2, <1>3 DEF Closes, ClosesAll
    <3> QED BY <2>1, <3>1 DEF Empty, Same
  <2>2. CASE d \in s.agent.conns \ {c}
    BY <1>2, <1>3, <2>2 DEF ClosesAll
  <2>3. CASE d \notin s.agent.conns
    <3>1. Same(d, s, t) /\ Same(d, t, u)
      BY <1>2, <1>3, <2>3 DEF Closes, ClosesAll
    <3> QED BY <2>3, <3>1 DEF Same
  <2> QED BY <2>1, <2>2, <2>3
<1>5. u.cli.stuck = (s.cli.stuck \ s.agent.conns) \cup (one \cup others)
  <2>1. /\ t.cli.stuck = (s.cli.stuck \ {c}) \cup one
        /\ u.cli.stuck = (t.cli.stuck \ t.agent.conns) \cup others
    BY <1>3 DEF Leaves, LeavesAll
  <2>2. one \cap s.agent.conns = {}
    BY <1>1
  <2> QED BY <1>2, <2>1, <2>2
<1>6. u.cli.current = IF one \cup others # {} THEN Orphan
                      ELSE IF s.cli.current \in s.agent.conns THEN None ELSE s.cli.current
  <2>1. u.cli.current = IF others # {} THEN Orphan
                        ELSE IF t.cli.current \in t.agent.conns THEN None ELSE t.cli.current
    BY <1>3 DEF LeavesAll
  <2>2. CASE others # {}
    BY <2>1, <2>2
  <2>3. CASE others = {} /\ one # {}
    <3>1. t.cli.current = Orphan
      BY <2>3 DEF Leaves
    <3> QED BY <1>1, <1>2, <2>1, <2>3, <3>1
  <2>4. CASE others = {} /\ one = {}
    <3>1. \/ t.cli.current = None /\ (s.cli.current = c \/ ~ Refused(s, c))
          \/ t.cli.current = s.cli.current /\ s.cli.current # c
      BY <2>4 DEF Leaves
    <3>2. CASE t.cli.current = None /\ (s.cli.current = c \/ ~ Refused(s, c))
      <4>1. s.cli.current # Orphan
        BY <1>1, <3>2, NoneIs DEF Refused
      <4>2. None \notin t.agent.conns
        BY <1>1, <1>2, NoneIs
      <4> QED BY <1>1, <2>1, <2>4, <3>2, <4>1, <4>2
    <3>3. CASE t.cli.current = s.cli.current /\ s.cli.current # c
      BY <1>2, <2>1, <2>4, <3>3
    <3> QED BY <3>1, <3>2, <3>3
  <2> QED BY <2>2, <2>3, <2>4
<1>7. LeavesAll(s, one \cup others, u)
  BY <1>5, <1>6 DEF LeavesAll
<1>8. Loses(s.agent.conns, s, u)
  <2>1. one \cup others # {} => Orphan \in u.cli.stuck
    BY <1>5
  <2> QED BY <1>6, <2>1 DEF Loses
<1>9. Orphan \in s.cli.stuck => Orphan \in u.cli.stuck
  BY <1>1, <1>5
<1>10. /\ u \in State /\ u.agent.connected = s.agent.connected
       /\ u.agent.conns = {} /\ u.agent.current = None
       /\ u.published = s.published /\ u.da = s.da /\ u.sqlstate = s.sqlstate
  BY <1>3 DEF Closes, ClosesAll
<1>11. ClosesAll(s, u)
  BY <1>4, <1>8, <1>9, <1>10 DEF ClosesAll
<1> QED BY <1>7, <1>11 DEF ClosesTo

(* What may be lost of the list is what may be lost of c, or of the others *)
(* after c is closed.                                                      *)
LEMMA LosingOn ==
  ASSUME NEW s, NEW c \in s.agent.conns, NEW t, s.agent.conns \subseteq Conns, Closes(c, s, t)
  PROVE  /\ \A one \in Losing({c}, s), others \in Losing(t.agent.conns, t) :
              one \cup others \in Losing(s.agent.conns, s)
         /\ \A lost \in Losing(s.agent.conns, s) :
              lost \in Losing({c}, s) \/ lost \in Losing(t.agent.conns, t)
<1>1. t.agent.conns = s.agent.conns \ {c}
  BY DEF Closes
<1>2. \A d \in t.agent.conns : InTransaction(t, d) <=> InTransaction(s, d)
  BY <1>1 DEF Closes, Same, InTransaction
<1> DEFINE Busy(C) == \E d \in C : InTransaction(s, d)
<1>3. (\E d \in t.agent.conns : InTransaction(t, d)) <=> Busy(s.agent.conns \ {c})
  BY <1>1, <1>2
<1>4. Busy(s.agent.conns) <=> Busy({c}) \/ Busy(s.agent.conns \ {c})
  OBVIOUS
<1>5. /\ Losing({c}, s) = {{}} \cup (IF Busy({c}) THEN {{Orphan}} ELSE {})
      /\ Losing(s.agent.conns, s) = {{}} \cup (IF Busy(s.agent.conns) THEN {{Orphan}} ELSE {})
      /\ Losing(t.agent.conns, t) =
           {{}} \cup (IF Busy(s.agent.conns \ {c}) THEN {{Orphan}} ELSE {})
  BY <1>3 DEF Losing
<1> HIDE DEF Busy
<1> QED BY <1>4, <1>5

(* One turn of the loop: closing c first changes nothing of where closing  *)
(* all of the list ends.                                                   *)
LEMMA CloseFirst ==
  ASSUME NEW s, Good(s), NEW c \in s.agent.conns
  PROVE  CloseAll(s) = UNION {CloseAll(t) : t \in Close(c, s)}
<1>1. s \in State /\ s.agent.conns \subseteq Conns /\ c \in Conns
  BY DEF Good, State, Agent
<1>2. \A x, lost : lost \in Losing(x.agent.conns, x) \/ lost \in Losing({c}, x)
                   => lost \in SUBSET {Orphan}
  BY DEF Losing
<1>3. ASSUME NEW t \in Close(c, s), NEW u \in CloseAll(t)
      PROVE  u \in CloseAll(s)
  <2>1. PICK one \in Losing({c}, s) : Closes(c, s, t) /\ Leaves(c, s, one, t)
    BY <1>1, <1>3, CloseDoes
  <2>2. t \in State
    BY <2>1 DEF Closes
  <2>3. PICK others \in Losing(t.agent.conns, t) : ClosesTo(t, others, u)
    BY <1>3, <2>2, CloseAllDoes
  <2>4. one \in SUBSET {Orphan} /\ others \in SUBSET {Orphan}
    BY <1>2
  <2>5. ClosesTo(s, one \cup others, u)
    BY <2>1, <2>3, <2>4, ClosesOn
  <2>6. one \cup others \in Losing(s.agent.conns, s)
    BY <1>1, <2>1, LosingOn
  <2> QED BY <1>1, <2>5, <2>6, CloseAllDoes
<1>4. ASSUME NEW u \in CloseAll(s)
      PROVE  \E t \in Close(c, s) : u \in CloseAll(t)
  <2>1. PICK lost \in Losing(s.agent.conns, s) : ClosesTo(s, lost, u)
    BY <1>1, <1>4, CloseAllDoes
  <2>2. \A x, C : {} \in Losing(C, x)
    BY DEF Losing
  <2>3. ASSUME NEW one \in Losing({c}, s), NEW t \in Close(c, s), Closes(c, s, t),
               Leaves(c, s, one, t), NEW others \in Losing(t.agent.conns, t),
               one \cup others = lost
        PROVE  u \in CloseAll(t)
    <3>1. t \in State
      BY <2>3 DEF Closes
    <3>2. PICK v \in CloseAll(t) : ClosesTo(t, others, v)
      BY <3>1, CloseAllMay
    <3>3. one \in SUBSET {Orphan} /\ others \in SUBSET {Orphan}
      BY <1>2
    <3>4. ClosesTo(s, lost, v)
      BY <2>3, <3>2, <3>3, ClosesOn
    <3>5. u = v
      BY <2>1, <3>4, ClosedIsOne
    <3> QED BY <3>2, <3>5
  <2>4. CASE lost \in Losing({c}, s)
    <3>1. PICK t \in Close(c, s) : Closes(c, s, t) /\ Leaves(c, s, lost, t)
      BY <1>1, <2>4, CloseMay
    <3>2. lost \cup {} = lost
      OBVIOUS
    <3> QED BY <2>2, <2>3, <2>4, <3>1, <3>2
  <2>5. CASE lost \notin Losing({c}, s)
    <3>1. {} \in Losing({c}, s)
      BY <2>2
    <3>2. PICK t \in Close(c, s) : Closes(c, s, t) /\ Leaves(c, s, {}, t)
      BY <1>1, <3>1, CloseMay
    <3>3. lost \in Losing(t.agent.conns, t)
      BY <1>1, <2>1, <2>5, <3>2, LosingOn
    <3>4. {} \cup lost = lost
      OBVIOUS
    <3> QED BY <2>3, <3>1, <3>2, <3>3, <3>4
  <2> QED BY <2>4, <2>5
<1>5. \A u : u \in CloseAll(s) <=> \E t \in Close(c, s) : u \in CloseAll(t)
  BY <1>3, <1>4
<1>6. \A u : u \in UNION {CloseAll(t) : t \in Close(c, s)}
               <=> \E t \in Close(c, s) : u \in CloseAll(t)
  OBVIOUS
<1> QED BY <1>5, <1>6

(* With no connection left there is nothing to close.                      *)
LEMMA CloseNone ==
  ASSUME NEW s, Good(s), s.agent.conns = {}
  PROVE  CloseAll(s) = {s}
<1>1. s \in State /\ s.agent.current = None
  BY DEF Good
<1>2. Losing(s.agent.conns, s) = {{}}
  BY DEF Losing
<1>3. ClosesTo(s, {}, s)
  <2>1. \A d \in Conns : Same(d, s, s)
    BY DEF Same
  <2>2. ClosesAll(s, s)
    BY <1>1, <2>1 DEF ClosesAll, Loses
  <2>3. LeavesAll(s, {}, s)
    BY DEF LeavesAll
  <2> QED BY <2>2, <2>3 DEF ClosesTo
<1>4. \A u : u \in CloseAll(s) <=> ClosesTo(s, {}, u)
  BY <1>1, <1>2, CloseAllDoes
<1>5. \A u : u \in CloseAll(s) <=> u = s
  BY <1>3, <1>4, ClosedIsOne
<1> QED BY <1>5

(* A set of numbers that starts with 0 and goes on has them all: induction *)
(* by the least number that isn't in it.                                   *)
LEMMA AllNumbers ==
  ASSUME NEW T, 0 \in T, \A m \in Nat : m \in T => m + 1 \in T
  PROVE  Nat \subseteq T
<1> DEFINE R == OpToRel(<, Nat)
           rest == {m \in Nat : m \notin T}
<1>1. IsWellFoundedOn(R, Nat)
  BY NatLessThanWellFounded
<1>2. \A x, y \in Nat : x < y => <<x, y>> \in R
  BY DEF OpToRel
<1> HIDE DEF R
<1>3. SUFFICES ASSUME rest # {}
               PROVE  FALSE
  OBVIOUS
<1>4. PICK m \in rest : \A y \in rest : ~ (<<y, m>> \in R)
  BY <1>1, <1>3, WFMin
<1>5. m \in Nat /\ m # 0 /\ m - 1 \in Nat /\ m - 1 < m
  BY <1>4
<1>6. m - 1 \in T
  BY <1>2, <1>4, <1>5
<1>7. (m - 1) + 1 \in T
  BY <1>5, <1>6
<1> QED BY <1>4, <1>5, <1>7

(* The states after each turn of the loop, from b on. *)
Turn(order, i, states) == UNION {Close(order[i], s) : s \in states}

Turns(b, order, n, f) ==
  f = [i \in 0 .. n |-> IF i = 0 THEN {b} ELSE Turn(order, i, f[i - 1])]

(* There are such states after any number of turns.                        *)
LEMMA TurnsExist ==
  ASSUME NEW b, NEW order, NEW n \in Nat
  PROVE  \E f : Turns(b, order, n, f)
<1> DEFINE T == {m \in Nat : \E f : Turns(b, order, m, f)}
<1>1. 0 \in T
  <2> DEFINE f == [i \in 0 .. 0 |-> {b}]
  <2>1. Turns(b, order, 0, f)
    BY DEF Turns
  <2> QED BY <2>1
<1>2. ASSUME NEW m \in Nat, m \in T
      PROVE  m + 1 \in T
  <2>1. PICK f : Turns(b, order, m, f)
    BY <1>2
  <2>2. /\ \A i \in 0 .. m :
             f[i] = IF i = 0 THEN {b} ELSE Turn(order, i, f[i - 1])
    BY <2>1 DEF Turns
  <2> DEFINE g == [i \in 0 .. m + 1 |-> IF i = m + 1 THEN Turn(order, m + 1, f[m]) ELSE f[i]]
  <2>3. ASSUME NEW i \in 0 .. m + 1
        PROVE  g[i] = IF i = 0 THEN {b} ELSE Turn(order, i, g[i - 1])
    <3>1. CASE i = m + 1
      <4>1. m \in 0 .. m + 1 /\ m # m + 1 /\ i # 0 /\ i - 1 = m
        BY <3>1
      <4>2. g[m] = f[m]
        BY <4>1
      <4> QED BY <3>1, <4>1, <4>2
    <3>2. CASE i # m + 1
      <4>1. i \in 0 .. m /\ g[i] = f[i]
        BY <3>2
      <4>2. i # 0 => i - 1 \in 0 .. m + 1 /\ i - 1 # m + 1 /\ g[i - 1] = f[i - 1]
        BY <3>2
      <4> HIDE DEF g
      <4> QED BY <2>2, <4>1, <4>2
    <3> QED BY <3>1, <3>2
  <2>4. DOMAIN g = 0 .. m + 1 /\ g = [i \in 0 .. m + 1 |-> g[i]]
    OBVIOUS
  <2> HIDE DEF g
  <2>5. Turns(b, order, m + 1, g)
    BY <2>3, <2>4 DEF Turns
  <2> QED BY <2>5
<1> HIDE DEF T
<1>3. Nat \subseteq T
  BY <1>1, <1>2, AllNumbers
<1> QED BY <1>3 DEF T

(* The connections that are left of a list C after m turns. *)
InOrder(C, order) ==
  /\ IsFiniteSet(C)
  /\ order \in [1 .. Cardinality(C) -> C]
  /\ \A i, j \in 1 .. Cardinality(C) : order[i] = order[j] => i = j

LeftOf(C, order, m) == C \ {order[j] : j \in 1 .. m}

(* Each turn of the loop is about another connection.                      *)
LEMMA NextIsLeft ==
  ASSUME NEW C, NEW order, InOrder(C, order), NEW m \in Nat, m < Cardinality(C),
         Cardinality(C) \in Nat
  PROVE  /\ order[m + 1] \in LeftOf(C, order, m)
         /\ LeftOf(C, order, m + 1) = LeftOf(C, order, m) \ {order[m + 1]}
<1>1. m + 1 \in 1 .. Cardinality(C) /\ \A j \in 1 .. m : j \in 1 .. Cardinality(C) /\ j # m + 1
  OBVIOUS
<1>2. order[m + 1] \in C /\ \A j \in 1 .. m : order[j] # order[m + 1]
  BY <1>1 DEF InOrder
<1>3. 1 .. m + 1 = 1 .. m \cup {m + 1}
  OBVIOUS
<1> QED BY <1>2, <1>3 DEF LeftOf

(* After m turns there are m connections less, none in the end.            *)
LEMMA LeftIs ==
  ASSUME NEW C, NEW order, InOrder(C, order)
  PROVE  Cardinality(C) \in Nat /\ LeftOf(C, order, Cardinality(C)) = {}
<1> DEFINE n == Cardinality(C)
           Fewer(m) == /\ IsFiniteSet(LeftOf(C, order, m))
                       /\ Cardinality(LeftOf(C, order, m)) = n - m
           T == {m \in Nat : m <= n => Fewer(m)}
<1>1. n \in Nat
  BY FS_CardinalityType DEF InOrder
<1>2. 0 \in T
  <2>1. LeftOf(C, order, 0) = C
    BY DEF LeftOf
  <2> QED BY <1>1, <2>1 DEF InOrder
<1>3. ASSUME NEW m \in Nat, m \in T
      PROVE  m + 1 \in T
  <2>1. SUFFICES ASSUME m + 1 <= n
                 PROVE  Fewer(m + 1)
    OBVIOUS
  <2>2. Fewer(m) /\ m < n
    BY <1>1, <1>3, <2>1
  <2>3. /\ order[m + 1] \in LeftOf(C, order, m)
        /\ LeftOf(C, order, m + 1) = LeftOf(C, order, m) \ {order[m + 1]}
    BY <1>1, <2>2, NextIsLeft
  <2> DEFINE S == LeftOf(C, order, m)
  <2>4. IsFiniteSet(S) /\ Cardinality(S) = n - m /\ order[m + 1] \in S
    BY <2>2, <2>3
  <2> HIDE DEF S
  <2>5. /\ IsFiniteSet(S \ {order[m + 1]})
        /\ Cardinality(S \ {order[m + 1]}) = Cardinality(S) - 1
    BY <2>4, FS_RemoveElement
  <2>6. n - m - 1 = n - (m + 1)
    BY <1>1
  <2> QED BY <1>1, <2>3, <2>4, <2>5, <2>6 DEF S
<1> HIDE DEF T
<1>4. n \in T
  BY <1>1, <1>2, <1>3, AllNumbers
<1>5. Fewer(n)
  BY <1>1, <1>4 DEF T
<1>6. IsFiniteSet(LeftOf(C, order, n)) /\ Cardinality(LeftOf(C, order, n)) = 0
  BY <1>1, <1>5
<1>7. LeftOf(C, order, n) = {}
  BY <1>6, FS_EmptySet
<1> QED BY <1>1, <1>7

(* What every turn of the loop keeps: what is left of the list, and where  *)
(* it ends if the rest is closed at once.                                  *)
Looping(b, order, states, m) ==
  /\ \A t \in states : Good(t) /\ t.agent.conns = LeftOf(b.agent.conns, order, m)
  /\ CloseAll(b) = UNION {CloseAll(t) : t \in states}

(* One turn keeps it.                                                      *)
LEMMA TurnKeeps ==
  ASSUME NEW b, NEW order, InOrder(b.agent.conns, order), NEW m \in Nat,
         m < Cardinality(b.agent.conns), NEW states, Looping(b, order, states, m)
  PROVE  Looping(b, order, Turn(order, m + 1, states), m + 1)
<1> DEFINE C == b.agent.conns
           c == order[m + 1]
<1>1. /\ c \in LeftOf(C, order, m)
      /\ LeftOf(C, order, m + 1) = LeftOf(C, order, m) \ {c}
  BY LeftIs, NextIsLeft
<1>2. ASSUME NEW t \in states
      PROVE  /\ Good(t) /\ c \in t.agent.conns /\ c \in Conns /\ t \in State
             /\ CloseAll(t) = UNION {CloseAll(u) : u \in Close(c, t)}
             /\ t.agent.conns \ {c} = LeftOf(C, order, m + 1)
  <2>1. Good(t) /\ t.agent.conns = LeftOf(C, order, m)
    BY DEF Looping
  <2>2. t \in State /\ t.agent.conns \subseteq Conns
    BY <2>1 DEF Good, State, Agent
  <2> HIDE DEF c, C
  <2>3. c \in t.agent.conns
    BY <1>1, <2>1
  <2>4. CloseAll(t) = UNION {CloseAll(u) : u \in Close(c, t)}
    BY <2>1, <2>3, CloseFirst
  <2> QED BY <1>1, <2>1, <2>2, <2>3, <2>4
<1>3. ASSUME NEW t \in states, NEW u \in Close(c, t)
      PROVE  Good(u) /\ u.agent.conns = LeftOf(C, order, m + 1)
  <2> HIDE DEF c, C
  <2>1. Good(t) /\ c \in Conns /\ t \in State /\ t.agent.conns \ {c} = LeftOf(C, order, m + 1)
    BY <1>2
  <2>2. Closes(c, t, u)
    BY <1>3, <2>1, CloseIs
  <2>3. Good(u)
    BY <2>1, <2>2, CloseIsGood
  <2> QED BY <2>1, <2>2, <2>3 DEF Closes
<1>4. Turn(order, m + 1, states) = UNION {Close(c, t) : t \in states}
  BY DEF Turn
<1>5. CloseAll(b) = UNION {CloseAll(t) : t \in states}
  BY DEF Looping
<1>6. \A t \in states : CloseAll(t) = UNION {CloseAll(u) : u \in Close(c, t)}
  BY <1>2
<1> DEFINE next == Turn(order, m + 1, states)
<1>7. \A u : u \in next <=> \E t \in states : u \in Close(c, t)
  BY <1>4
<1>8. CloseAll(b) = UNION {CloseAll(u) : u \in next}
  <2> HIDE DEF next, c
  <2>1. \A x : x \in CloseAll(b) <=> \E t \in states : x \in CloseAll(t)
    BY <1>5
  <2>2. \A t \in states : \A x : x \in CloseAll(t) <=> \E u \in Close(c, t) : x \in CloseAll(u)
    BY <1>6
  <2>3. \A x : x \in CloseAll(b) <=> \E u \in next : x \in CloseAll(u)
    BY <1>7, <2>1, <2>2
  <2> QED BY <2>3
<1>9. \A u \in next : Good(u) /\ u.agent.conns = LeftOf(C, order, m + 1)
  BY <1>3, <1>7
<1> QED BY <1>8, <1>9 DEF Looping

(* The loop ends where CloseAll ends, whatever the order is.               *)
LEMMA LoopIs ==
  ASSUME NEW b, Good(b), NEW order, InOrder(b.agent.conns, order),
         NEW f, Turns(b, order, Cardinality(b.agent.conns), f)
  PROVE  CloseAll(b) = f[Cardinality(b.agent.conns)]
<1> DEFINE n == Cardinality(b.agent.conns)
           T == {m \in Nat : m <= n => Looping(b, order, f[m], m)}
<1>1. n \in Nat /\ LeftOf(b.agent.conns, order, n) = {}
  BY LeftIs
<1>2. \A i \in 0 .. n : f[i] = IF i = 0 THEN {b} ELSE Turn(order, i, f[i - 1])
  BY DEF Turns
<1>3. 0 \in T
  <2>1. f[0] = {b}
    BY <1>1, <1>2
  <2>2. LeftOf(b.agent.conns, order, 0) = b.agent.conns
    BY DEF LeftOf
  <2>3. Looping(b, order, {b}, 0)
    BY <2>2 DEF Looping
  <2> QED BY <2>1, <2>3
<1>4. ASSUME NEW m \in Nat, m \in T
      PROVE  m + 1 \in T
  <2>1. SUFFICES ASSUME m + 1 <= n
                 PROVE  Looping(b, order, f[m + 1], m + 1)
    OBVIOUS
  <2>2. Looping(b, order, f[m], m) /\ m < n
    BY <1>1, <1>4, <2>1
  <2>3. Looping(b, order, Turn(order, m + 1, f[m]), m + 1)
    BY <2>2, TurnKeeps
  <2>4. m + 1 \in 0 .. n /\ m + 1 # 0 /\ (m + 1) - 1 = m
    BY <1>1, <2>1
  <2>5. f[m + 1] = Turn(order, m + 1, f[m])
    BY <1>2, <2>4
  <2> QED BY <2>3, <2>5
<1> HIDE DEF T
<1>5. n \in T
  BY <1>1, <1>3, <1>4, AllNumbers
<1>6. Looping(b, order, f[n], n)
  BY <1>1, <1>5 DEF T
<1>7. \A t \in f[n] : CloseAll(t) = {t}
  BY <1>1, <1>6, CloseNone DEF Looping
<1>8. CloseAll(b) = UNION {CloseAll(t) : t \in f[n]}
  BY <1>6 DEF Looping
<1> HIDE DEF n
<1>9. \A x : x \in CloseAll(b) <=> \E t \in f[n] : x \in CloseAll(t)
  BY <1>8
<1>10. \A x : x \in CloseAll(b) <=> x \in f[n]
  BY <1>7, <1>9
<1>11. CloseAll(b) = f[n]
  BY <1>10
<1> QED BY <1>11 DEF n

(* There are never infinitely many connections, as each call adds one.     *)
THEOREM ListIsFinite == Spec => []IsFiniteSet(agent.conns)
<1> DEFINE Others ==
             \A c \in (agent.conns \cap agent'.conns) \ {agent.current} :
               <<agent.active[c], agent.module[c], cli.tran[c], cli.cursor[c], cli.prepared[c]>> =
               <<agent'.active[c], agent'.module[c], cli'.tran[c], cli'.cursor[c],
                 cli'.prepared[c]>>
           Made == agent'.conns \ agent.conns \subseteq {agent'.current}
<1>1. Init => IsFiniteSet(agent.conns)
  BY FS_EmptySet DEF Init
<1>2. IsFiniteSet(agent.conns) /\ [Made /\ Others]_vars => IsFiniteSet(agent.conns)'
  <2> HIDE DEF Others
  <2>1. SUFFICES ASSUME IsFiniteSet(agent.conns), Made
                 PROVE  IsFiniteSet(agent'.conns)
    BY DEF vars
  <2>2. IsFiniteSet(agent.conns \cup {agent'.current})
    BY <2>1, FS_AddElement
  <2>3. agent'.conns \in SUBSET (agent.conns \cup {agent'.current})
    BY <2>1
  <2> QED BY <2>2, <2>3, FS_Subset
<1>3. Spec => [][Made /\ Others]_vars
  BY SeparateAlways, PTL DEF ConnectionsAreSeparate
<1> QED BY <1>1, <1>2, <1>3, PTL DEF Spec

(* Closing the connections of the list one after the other, in any order,  *)
(* as DISCONNECT ALL and vsql_m_exit do, ends in the states of CloseAll.   *)
THEOREM ClosedInTurnAlways == Spec => []ClosedInTurn
<1>1. ASSUME Between, IsFiniteSet(agent.conns)
      PROVE  ClosedInTurn
  <2>1. PICK b : b = Begin /\ Good(b)
    BY <1>1, BeginIs
  <2>2. b.agent.conns = agent.conns
    BY <2>1 DEF Begin
  <2>3. ASSUME NEW order \in Orders
        PROVE  CloseAll(Begin) = InTurn(order)
    <3> DEFINE n == Cardinality(agent.conns)
               f == CHOOSE f : Turns(b, order, n, f)
    <3>1. InOrder(agent.conns, order)
      BY <1>1 DEF Orders, InOrder
    <3>2. n \in Nat
      BY <1>1, FS_CardinalityType
    <3>3. Turns(b, order, n, f)
      BY <3>2, TurnsExist
    <3>4. InTurn(order) = f[n]
      BY <2>1 DEF InTurn, Turns, Turn
    <3> HIDE DEF f
    <3>5. CloseAll(b) = f[n]
      BY <2>1, <2>2, <3>1, <3>3, LoopIs
    <3> QED BY <2>1, <3>4, <3>5
  <2> QED BY <2>3 DEF ClosedInTurn
<1>2. Between /\ IsFiniteSet(agent.conns) => ClosedInTurn
  BY <1>1
<1> QED BY <1>2, BetweenAlways, ListIsFinite, PTL
=============================================================================
