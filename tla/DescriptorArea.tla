------------------------- MODULE DescriptorArea -------------------------
(***************************************************************************)
(* The SQL descriptor areas of one SQL-connection of a compiled SQL-client *)
(* module, a prepared statement and a dynamic cursor that is declared for  *)
(* it.                                                                     *)
(*                                                                         *)
(* DATA of an item is untyped memory, which is written as the C type that  *)
(* the item has (or a column is cast to), and read later as the C type     *)
(* that the item or a host parameter has by then.  A dynamic parameter is  *)
(* bound to the memory itself, and stays bound to it after the call.  So   *)
(* DATA is modelled by what the memory holds, and a bound parameter by     *)
(* what it points to.                                                      *)
(*                                                                         *)
(* The values themselves, the components that nothing depends on, the      *)
(* LENGTH and PRECISION of a type, failures of malloc and of the           *)
(* connection are left out.                                                *)
(*                                                                         *)
(* The definitions named Bug... are mutations of the one that follows; no  *)
(* specification uses them.                                                *)
(***************************************************************************)
EXTENDS Integers, Sequences, FiniteSetsExt, SequencesExt

CONSTANTS
  Descriptors,  \* descriptor names in their scope: <<module or Global, name>>
  Settings,     \* what a SET DESCRIPTOR may set: component -> value
  Counts,       \* what COUNT may be set to
  Targets,      \* what a GET DESCRIPTOR may name for DATA: sequences of host parameters
  Texts,        \* statements: [params : Nat, columns : Seq(Types)]
  MaxItems,     \* bound on the items of all areas
  Host,         \* the memory of a host parameter, in its call
  Dangling,     \* memory that was freed since
  Wide,         \* an integer that doesn't fit an SQLINTEGER
  None

Types == {"none", "INTEGER", "CHAR", "DATETIME"}

\* What a host parameter may be: an integer, or a string that has the LENGTH of
\* the item or another one.
Hosts == {"int", Wide, "string", "other"}

\* The sign of INDICATOR is all that the code looks at.
ASSUME DescriptorAssumption ==
  /\ MaxItems \in Nat /\ Counts \subseteq Int
  /\ None \notin Descriptors /\ Wide \notin {"int", "string", "other"}
  /\ Targets \subseteq Seq(Hosts \ {Wide}) \ {<<>>}
  /\ Texts \subseteq [params : Nat, columns : Seq(Types \ {"none"})]
  /\ \E t \in Texts : \A u \in Texts : u.params <= t.params
  /\ \A s \in Settings :
       /\ DOMAIN s \subseteq {"TYPE", "CODE", "INDICATOR", "DATA"}
       /\ "TYPE" \in DOMAIN s => s.TYPE \in (Types \ {"none"}) \cup {Wide}
       /\ "CODE" \in DOMAIN s => s.CODE \in Int \cup {Wide}
       /\ "INDICATOR" \in DOMAIN s => s.INDICATOR \in {-1, 0, Wide}
       /\ "DATA" \in DOMAIN s => s.DATA \in Hosts

VARIABLES
  areas,     \* the list of descriptor areas, the newest first
  prepared,  \* the text of the prepared statement, or None
  cursor,    \* the CLI statement of the cursor: [columns, open], or None
  bound,     \* what the parameters of the cursor's CLI statement point to
  last       \* what the last call did, for the properties

vars == <<areas, prepared, cursor, bound, last>>

\* The memory of DATA: undefined, memory that nothing was written to, or a value.
Memory == {"undefined", "garbage", "int", "string"}

\* A parameter isn't bound (None), or bound to Host or Dangling memory, or to an
\* item, to be read as a C type.
Params == 1..Max({t.params : t \in Texts})
Pointers == [area : Descriptors, item : 1..MaxItems, as : {"int", "string"}]
Unbound == [j \in Params |-> None]

\* used: the areas that the call names, if it changed any.  sound: it read nothing
\* that isn't a value.  unchecked: it had a target that DATA wasn't compared with.
\* row: the whole row that it assigned.  refused: see Open.
Quiet == [used |-> {}, sound |-> TRUE, unchecked |-> FALSE, row |-> None,
          refused |-> FALSE]

Init ==
  /\ areas = <<>>
  /\ prepared = None
  /\ cursor = None
  /\ bound = Unbound
  /\ last = Quiet

----------------------------------------------------------------------------
(* Items. *)

\* vsql_m_reset_item.
Reset == [type |-> "none", code |-> 0, indicator |-> 0, data |-> "undefined"]

\* vsql_m_matches.  A datetime has no C type, so that any string matches.
Matches(item, host) ==
  \/ item.type = "DATETIME" /\ host \in {"string", "other"}
  \/ item.type = "CHAR" /\ host = "string"
  \/ item.type = "INTEGER" /\ host \in {"int", Wide}

\* vsql_m_valid.
Valid(item) == item.type # "none" /\ (item.type = "DATETIME" => item.code # 0)

\* vsql_m_c_type.
CType(item) == IF item.type = "INTEGER" THEN "int" ELSE "string"

Done(item) == [item |-> item, sqlstate |-> "00000"]
Stopped(item, code) == [item |-> item, sqlstate |-> code]

BugKeepsData(component, value, item) ==
  IF value = Wide THEN Stopped(item, "22003")
  ELSE CASE component = "TYPE" -> Done([Reset EXCEPT !.type = value])
    [] component = "CODE" ->
         IF item.type = "DATETIME" /\ value \in 1..5
         THEN Done([item EXCEPT !.code = value]) ELSE Stopped(item, "0700F")
    [] component = "INDICATOR" -> Done([item EXCEPT !.indicator = value])

\* vsql_m_set_number: DATA is undefined after it, even if it fails.
SetNumber(component, value, item) ==
  LET freed == [item EXCEPT !.data = "undefined"] IN
  IF value = Wide THEN Stopped(freed, "22003")
  ELSE CASE component = "TYPE" -> Done([Reset EXCEPT !.type = value])
    [] component = "CODE" ->
         IF item.type = "DATETIME" /\ value \in 1..5
         THEN Done([freed EXCEPT !.code = value]) ELSE Stopped(freed, "0700F")
    [] component = "INDICATOR" -> Done([freed EXCEPT !.indicator = value])

\* vsql_m_set_data.
SetData(host, item) ==
  IF ~Matches(item, host) THEN Stopped(item, "22005")
  ELSE IF host = Wide THEN Stopped(item, "22003")
  ELSE Done([item EXCEPT !.data = IF host = "int" THEN "int" ELSE "string"])

BugSetOrder == <<"TYPE", "CODE", "DATA", "INDICATOR">>

\* descriptor_set_order: the components are set in this order.
SetOrder == <<"TYPE", "CODE", "INDICATOR", "DATA">>

\* The item after a SET DESCRIPTOR, which stops at the first exception and
\* keeps what was set before it.
SetItem(setting, item) ==
  LET set(s, component) ==
        IF component \notin DOMAIN setting \/ s.sqlstate # "00000" THEN s
        ELSE IF component = "DATA" THEN SetData(setting.DATA, s.item)
        ELSE SetNumber(component, setting[component], s.item)
  IN set(set(set(set(Done(item), SetOrder[1]), SetOrder[2]), SetOrder[3]), SetOrder[4])

\* vsql_m_describe_column.
DescribeColumn(type) ==
  [Reset EXCEPT !.type = type, !.code = IF type = "DATETIME" THEN 1 ELSE 0]

BugKeepsIndicator(null, item) ==
  IF null THEN [item EXCEPT !.data = "garbage", !.indicator = -1]
  ELSE [item EXCEPT !.data = CType(item)]

\* vsql_m_get_column: the memory for the value is new, and isn't written to if
\* the column is null.
GetColumn(null, item) ==
  [item EXCEPT !.data = IF null THEN "garbage" ELSE CType(item),
               !.indicator = IF null THEN -1 ELSE 0]

----------------------------------------------------------------------------
(* Areas. *)

BugFind(d) == SelectInSeq(areas, LAMBDA a : a.name[2] = d[2])

\* vsql_m_find_descriptor: the index of the area with the name, or 0.
Find(d) == SelectInSeq(areas, LAMBDA a : a.name = d)

Exists(d) == Find(d) # 0
Area(d) == areas[Find(d)]

\* The pointers that were to memory that is now freed.
Dangle(b, freed) == [j \in Params |-> IF b[j] \in freed THEN Dangling ELSE b[j]]

Use(d) == [Quiet EXCEPT !.used = {d}]

\* A call that has no effect on the areas or statements.
Nothing == last' = Quiet /\ UNCHANGED <<areas, prepared, cursor, bound>>

BugAllocatesTwice(d, max) ==
  IF max < 1 THEN Nothing
  ELSE /\ FoldLeft(LAMBDA n, a : n + a.max, max, areas) <= MaxItems
       /\ areas' = <<[name |-> d, max |-> max, count |-> 0,
                      items |-> [i \in 1..max |-> Reset]]>> \o areas
       /\ last' = Use(d)
       /\ UNCHANGED <<prepared, cursor, bound>>

\* vsql_m_allocate_descriptor.
Allocate(d, max) ==
  IF max < 1 \/ Exists(d) THEN Nothing
  ELSE /\ FoldLeft(LAMBDA n, a : n + a.max, max, areas) <= MaxItems
       /\ areas' = <<[name |-> d, max |-> max, count |-> 0,
                      items |-> [i \in 1..max |-> Reset]]>> \o areas
       /\ last' = Use(d)
       /\ UNCHANGED <<prepared, cursor, bound>>

\* vsql_m_deallocate_descriptor.
Deallocate(d) ==
  IF ~Exists(d) THEN Nothing
  ELSE /\ areas' = RemoveAt(areas, Find(d))
       /\ bound' = Dangle(bound, {x \in Pointers : x.area = d})
       /\ last' = Use(d)
       /\ UNCHANGED <<prepared, cursor>>

\* vsql_m_set_count, which doesn't compare it with the number of items.
SetCount(d, count) ==
  IF ~Exists(d) THEN Nothing
  ELSE /\ areas' = [areas EXCEPT ![Find(d)].count = count]
       /\ last' = Use(d)
       /\ UNCHANGED <<prepared, cursor, bound>>

\* vsql_m_set_item, and the calls for the components.  DATA that was there is
\* freed, unless DATA is all that's set and it's refused.
SetDescriptor(d, n, setting) ==
  IF ~Exists(d) \/ n \notin DOMAIN Area(d).items THEN Nothing
  ELSE LET s == SetItem(setting, Area(d).items[n])
           freed == s.sqlstate = "00000" \/ DOMAIN setting # {"DATA"}
       IN
       /\ areas' = [areas EXCEPT ![Find(d)].items[n] = s.item]
       /\ bound' = Dangle(bound, {x \in Pointers : freed /\ x.area = d /\ x.item = n})
       /\ last' = Use(d)
       /\ UNCHANGED <<prepared, cursor>>

\* Memory that is read as a C type, with an indicator, is null or has that type.
SoundRead(item, as) == item.indicator < 0 \/ item.data = as

\* A target for DATA is read as its own type.  DATA that is undefined isn't
\* assigned to it (vsql_m_get_data).
SoundTarget(item, host) ==
  item.data = "undefined" \/ SoundRead(item, IF host = "int" THEN "int" ELSE "string")

\* get_descriptor_statement, vsql_m_get_item and vsql_m_get_data.  A GET DESCRIPTOR
\* may name several targets for DATA.  The item is compared with the last of them,
\* and DATA is then read for each.
GetData(d, n, targets, withIndicator) ==
  LET item == Area(d).items[n] IN
  IF \/ ~Exists(d)
     \/ n \notin DOMAIN Area(d).items
     \/ n > Area(d).count
     \/ ~Matches(item, Last(targets))
     \/ item.indicator < 0 /\ ~withIndicator
  THEN Nothing
  ELSE /\ last' = [Quiet EXCEPT
              !.sound = \A i \in DOMAIN targets : SoundTarget(item, targets[i]),
              !.unchecked = \E i \in DOMAIN targets : ~Matches(item, targets[i])]
       /\ UNCHANGED <<areas, prepared, cursor, bound>>

----------------------------------------------------------------------------
(* Statements. *)

\* vsql_m_items: the first COUNT items are n valid ones.
Usable(d, n) ==
  /\ Exists(d)
  /\ Area(d).count \in 0..Area(d).max
  /\ \A i \in 1..Area(d).count : Valid(Area(d).items[i])
  /\ Area(d).count = n

\* An item of an input using clause has DATA, or is null.
HasValue(item) == item.data # "undefined" \/ item.indicator < 0

Opened == cursor # None /\ cursor.open

\* vsql_m_prepare: the statement gets a CLI statement of its own.  It's refused
\* while the cursor of the statement that it replaces is open.  The text may be
\* in error, after that statement is gone.
Prepare(text) ==
  IF prepared # None /\ Opened THEN UNCHANGED vars
  ELSE /\ prepared' \in {text, None}
       /\ last' = Quiet
       /\ UNCHANGED <<areas, cursor, bound>>

BugDescribe(d, columns) ==
  [i \in 1..Area(d).max |-> IF i <= Len(columns) THEN DescribeColumn(columns[i])
                           ELSE Area(d).items[i]]

\* The items that a DESCRIBE describes: none if there are too few.
Described(d, columns) ==
  IF Len(columns) > Area(d).max THEN Area(d).items
  ELSE [i \in 1..Area(d).max |-> IF i <= Len(columns) THEN DescribeColumn(columns[i])
                                ELSE Area(d).items[i]]

\* vsql_m_describe.
Describe(d) ==
  IF prepared = None \/ ~Exists(d) THEN Nothing
  ELSE LET items == Described(d, prepared.columns) IN
       /\ areas' = [areas EXCEPT ![Find(d)] =
                     [@ EXCEPT !.items = items, !.count = Len(prepared.columns)]]
       /\ bound' = Dangle(bound, {x \in Pointers :
                     /\ x.area = d /\ x.item <= Len(prepared.columns)
                     /\ Len(prepared.columns) <= Area(d).max})
       /\ last' = Use(d)
       /\ UNCHANGED <<prepared, cursor>>

\* The using clause is None, so many host parameters, or an area.
Values(n) == <<None, n>>
IsArea(clause) == clause \in Descriptors

\* Whether vsql_m_bind accepts the clause, and each of its items.  If it stops at
\* an item, those before it are bound, but the CLI statement is freed then, or
\* bound again before it's executed.
Accepts(in, params) ==
  CASE IsArea(in) -> /\ Usable(in, params)
                     /\ \A i \in 1..params : HasValue(Area(in).items[i])
    [] in = None -> params = 0
    [] OTHER -> in = Values(params)

BugBind(in, params, b) ==
  [j \in Params |-> IF j > params \/ in = None \/ b[j] # None THEN b[j]
     ELSE IF IsArea(in) THEN [area |-> in, item |-> j, as |-> CType(Area(in).items[j])]
     ELSE Host]

\* vsql_m_bind_item and vsql_m_bind_params.
Bind(in, params, b) ==
  [j \in Params |-> IF j > params \/ in = None THEN b[j]
     ELSE IF IsArea(in) THEN [area |-> in, item |-> j, as |-> CType(Area(in).items[j])]
     ELSE Host]

\* After the call, the memory of the host parameters isn't theirs any more.
Leave(b) == [j \in Params |-> IF b[j] = Host THEN Dangling ELSE b[j]]

\* SQLExecute reads each of the parameters.
SoundReads(b, params) ==
  \A j \in 1..params :
    \/ b[j] = Host
    \/ b[j] \in Pointers /\ SoundRead(Area(b[j].area).items[b[j].item], b[j].as)

\* SQLExecute refuses a parameter that is bound and isn't in the statement.
Extra(b, params) == \E j \in Params : j > params /\ b[j] # None

\* The columns of a row that are assigned, by whether they are null: all of them,
\* or those before one that can't be cast to the type of its item.
Rows(columns) == UNION {[1..k -> BOOLEAN] : k \in 0..Len(columns)}

\* vsql_m_into: the row is assigned to the output using clause.
Into(out, columns, row, did) ==
  IF IsArea(out) /\ Usable(out, Len(columns))
  THEN /\ areas' = [areas EXCEPT ![Find(out)].items =
             [i \in DOMAIN @ |-> IF i \in DOMAIN row THEN GetColumn(row[i], @[i]) ELSE @[i]]]
       /\ bound' = Dangle(bound, {x \in Pointers : x.area = out /\ x.item \in DOMAIN row})
       /\ last' = [did EXCEPT !.used = {out},
                              !.row = IF Len(row) = Len(columns) THEN row ELSE None]
  ELSE last' = did /\ UNCHANGED <<areas, bound>>

\* vsql_m_execute_prepared.  It binds all parameters of its statement, and their
\* number never changes, so what an earlier one left isn't kept here.
Execute(in, out) ==
  LET params == prepared.params
      columns == prepared.columns
      b == Bind(in, params, Unbound)
      outputFits == IF columns # <<>> THEN out # None
                    ELSE IF IsArea(out) THEN Usable(out, 0) ELSE TRUE
  IN
  /\ UNCHANGED <<prepared, cursor>>
  /\ IF prepared = None \/ ~outputFits
     THEN last' = Quiet /\ UNCHANGED <<areas, bound>>
     ELSE IF ~Accepts(in, params)
     THEN last' = Quiet /\ UNCHANGED <<areas, bound>>
     ELSE LET executed == [Quiet EXCEPT !.sound = SoundReads(b, params)] IN
          \/ last' = executed /\ UNCHANGED <<areas, bound>>
          \/ /\ columns # <<>>
             /\ \E row \in Rows(columns) : Into(out, columns, row, executed)

\* vsql_m_open_dynamic.  The cursor keeps its CLI statement, and what it is bound
\* to, when it's closed.  The CLI statement is freed if it can't be opened.
Open(in) ==
  LET params == prepared.params
      b == Bind(in, params, bound)
      freed == /\ cursor' = None
               /\ bound' = Unbound
  IN
  /\ UNCHANGED <<areas, prepared>>
  /\ IF prepared = None \/ prepared.columns = <<>> \/ Opened
     THEN last' = Quiet /\ UNCHANGED <<cursor, bound>>
     ELSE IF ~Accepts(in, params) THEN last' = Quiet /\ freed
     ELSE IF Extra(b, params) THEN last' = [Quiet EXCEPT !.refused = TRUE] /\ freed
     ELSE /\ last' = [Quiet EXCEPT !.sound = SoundReads(b, params)]
          /\ \/ freed
             \/ /\ cursor' = [columns |-> prepared.columns, open |-> TRUE]
                /\ bound' = Leave(b)

\* vsql_m_fetch_dynamic.
Fetch(out) ==
  /\ UNCHANGED <<prepared, cursor>>
  /\ IF ~Opened
     THEN last' = Quiet /\ UNCHANGED <<areas, bound>>
     ELSE \E row \in Rows(cursor.columns) : Into(out, cursor.columns, row, Quiet)

\* CLOSE, and the end of the transaction.
Close ==
  /\ Opened
  /\ cursor' = [columns |-> <<>>, open |-> FALSE]
  /\ last' = Quiet
  /\ UNCHANGED <<areas, prepared, bound>>

\* vsql_m_deallocate_prepare.
DeallocatePrepare ==
  IF prepared = None \/ Opened THEN UNCHANGED vars
  ELSE /\ prepared' = None
       /\ last' = Quiet
       /\ UNCHANGED <<areas, cursor, bound>>

Inputs == {None} \cup {Values(n) : n \in Params} \cup Descriptors
Outputs == {Values(1)} \cup Descriptors

Next ==
  \/ \E d \in Descriptors, max \in 0..MaxItems : Allocate(d, max)
  \/ \E d \in Descriptors : Deallocate(d)
  \/ \E d \in Descriptors, count \in Counts : SetCount(d, count)
  \/ \E d \in Descriptors, n \in 1..MaxItems, s \in Settings : SetDescriptor(d, n, s)
  \/ \E d \in Descriptors, n \in 1..MaxItems, targets \in Targets, i \in BOOLEAN :
       GetData(d, n, targets, i)
  \/ \E text \in Texts : Prepare(text)
  \/ \E d \in Descriptors : Describe(d)
  \/ \E in \in Inputs, out \in Outputs : Execute(in, out)
  \/ \E in \in Inputs : Open(in)
  \/ \E out \in Descriptors : Fetch(out)
  \/ Close
  \/ DeallocatePrepare

Spec == Init /\ [][Next]_vars

----------------------------------------------------------------------------
(* Properties. *)

Items == [type : Types, code : 0..5, indicator : {-1, 0}, data : Memory]

Columns == {t.columns : t \in Texts}

AreaType ==
  [name : Descriptors, max : 1..MaxItems,
   count : Counts \cup {Len(columns) : columns \in Columns} \cup {0},
   items : UNION {[1..n -> Items] : n \in 1..MaxItems}]

\* The state is of its type, and no two areas have the same name.
TypeOK ==
  /\ areas \in Seq(AreaType)
  /\ \A i \in DOMAIN areas : DOMAIN areas[i].items = 1..areas[i].max
  /\ \A i, j \in DOMAIN areas : areas[i].name = areas[j].name => i = j
  /\ prepared \in Texts \cup {None}
  /\ cursor \in [columns : Columns \cup {<<>>}, open : BOOLEAN] \cup {None}
  /\ bound \in [Params -> {None, Dangling} \cup Pointers]

\* DATA is the C type that the item has now, whatever it was set to before
\* (vsql_m_set_number, vsql_m_describe_column), so it may be read as that type.
\* Memory that nothing was written to is never the value (vsql_m_get_column).
DataIsOfItsType ==
  \A i \in DOMAIN areas : \A n \in DOMAIN areas[i].items :
    LET item == areas[i].items[n] IN
    \/ item.data = "undefined"
    \/ item.type # "none" /\ item.data = CType(item)
    \/ item.data = "garbage" /\ item.indicator < 0

\* Whatever an EXECUTE, an OPEN or a GET DESCRIPTOR reads is a value, in memory
\* that is allocated and has the type that it's read as (vsql_m_bind,
\* vsql_m_get_data).  A GET DESCRIPTOR with several targets for DATA, of which one
\* isn't of the type of the item, is excepted (see TargetsMatch).
ReadsAreSound == last.sound \/ last.unchecked

\* After a FETCH or an EXECUTE that succeeds, the items are the row: null or not
\* null, whatever the row before it was (vsql_m_into).
RowIsAssigned ==
  last.row # None =>
    \A d \in last.used, n \in DOMAIN last.row :
      LET item == Area(d).items[n] IN
      /\ item.indicator < 0 <=> last.row[n]
      /\ item.indicator >= 0 => item.data = CType(item)

\* A SET DESCRIPTOR that succeeds has set all it says, though setting one
\* component resets others (descriptor_set_order).
SetTakesEffect ==
  \A i \in DOMAIN areas : \A n \in DOMAIN areas[i].items, setting \in Settings :
    LET s == SetItem(setting, areas[i].items[n])
        has(c) == c \in DOMAIN setting
    IN s.sqlstate = "00000" =>
         /\ has("TYPE") => s.item.type = setting.TYPE
         /\ has("CODE") => s.item.code = setting.CODE
         /\ has("INDICATOR") => s.item.indicator = setting.INDICATOR
         /\ has("DATA") => s.item.data # "undefined"

Named(d, list) == {list[i] : i \in {j \in DOMAIN list : list[j].name = d}}

\* A LOCAL name is only in its module, and a GLOBAL one isn't the LOCAL one with
\* the same name: a call changes the areas that it names (vsql_m_find_descriptor).
OnlyNamedAreasChange ==
  [][\A d \in Descriptors :
       \/ d \in last'.used
       \/ Named(d, areas') = Named(d, areas)]_vars

\* "If there are more columns than items, the SQLSTATE is 01005, and only COUNT is
\* set" (vsql_m_describe).
OnlyCountIsSet ==
  [][\A d \in Descriptors :
       /\ Exists(d) /\ Exists(d)'
       /\ Area(d)'.count # Area(d).count
       /\ Area(d)'.count > Area(d).max
       => Area(d)'.items = Area(d).items]_vars

\* The CLI accepts the values of an OPEN that vsql_m_bind has accepted: they are
\* refused (07001) only if there aren't as many as the statement has "?".
MatchingValuesOpen == ~last.refused

\* "DATA must be the same type as its parameter (otherwise it's 22005)": a GET
\* DESCRIPTOR assigns to no target of another type (vsql_m_get_item, which only
\* knows the last one).
TargetsMatch == ~last.unchecked
============================================================================
