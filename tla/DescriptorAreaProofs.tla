------------------------ MODULE DescriptorAreaProofs ------------------------
(***************************************************************************)
(* What DATA of an item holds is what it's read as, but by a target of GET *)
(* DESCRIPTOR that isn't compared with the item, for every set of          *)
(* descriptor names, statements and settings, and any number of items.     *)
(*                                                                         *)
(* The items that a call leaves are Well.  A call changes one area, the    *)
(* first with its name, which is the only one, and the parameters that     *)
(* point into it from then on point to nothing that's allocated.           *)
(***************************************************************************)
EXTENDS DescriptorArea, TLAPS, SequenceTheorems

-----------------------------------------------------------------------------
(* Items. *)

(* DATA is undefined, or of the C type that the item has, or of a null.    *)
Right(item) ==
  \/ item.data = "undefined"
  \/ item.type # "none" /\ item.data = CType(item)
  \/ item.data = "garbage" /\ item.indicator < 0

Well(item) == item \in Items /\ Right(item)

(* An item that was reset has no DATA.                                     *)
LEMMA ResetIsWell == Well(Reset)
BY DEF Well, Right, Items, Reset, Types, Memory

(* vsql_m_set_number leaves no DATA.                                       *)
LEMMA SetNumberIs ==
  ASSUME NEW item \in Items, NEW component \in {"TYPE", "CODE", "INDICATOR"}, NEW value,
         component = "TYPE" => value \in (Types \ {"none"}) \cup {Wide},
         component = "CODE" => value \in Int \cup {Wide},
         component = "INDICATOR" => value \in {-1, 0, Wide},
         NEW s, s = SetNumber(component, value, item)
  PROVE  /\ s.item \in Items /\ s.item.data = "undefined"
         /\ s.sqlstate = "00000" /\ component = "TYPE" => s.item.type = value
         /\ s.sqlstate = "00000" /\ component = "CODE" =>
              s.item.code = value /\ s.item.type = item.type
         /\ s.sqlstate = "00000" /\ component = "INDICATOR" =>
              s.item.indicator = value /\ s.item.code = item.code /\ s.item.type = item.type
<1> DEFINE freed == [item EXCEPT !.data = "undefined"]
<1>1. /\ freed \in Items /\ freed.data = "undefined" /\ freed.type = item.type
      /\ freed.code = item.code /\ freed.indicator = item.indicator
  BY DEF Items, Memory
<1>2. CASE value = Wide
  <2>1. s = [item |-> freed, sqlstate |-> "22003"]
    BY <1>2 DEF SetNumber, Stopped
  <2> HIDE DEF freed
  <2> QED BY <1>1, <2>1
<1>3. CASE value # Wide /\ component = "TYPE"
  <2>1. s = [item |-> [Reset EXCEPT !.type = value], sqlstate |-> "00000"]
    BY <1>3 DEF SetNumber, Done
  <2>2. value \in Types
    BY <1>3
  <2> QED BY <1>3, <2>1, <2>2 DEF Items, Reset, Memory
<1>4. CASE value # Wide /\ component = "CODE"
  <2>1. \/ s = [item |-> freed, sqlstate |-> "0700F"]
        \/ value \in 1..5 /\ s = [item |-> [freed EXCEPT !.code = value], sqlstate |-> "00000"]
    BY <1>4 DEF SetNumber, Done, Stopped
  <2>2. ASSUME value \in 1..5
        PROVE  LET i == [freed EXCEPT !.code = value] IN
               i \in Items /\ i.data = "undefined" /\ i.code = value /\ i.type = item.type
    <3> HIDE DEF freed
    <3> QED BY <1>1, <2>2 DEF Items
  <2> HIDE DEF freed
  <2>3. CASE s = [item |-> freed, sqlstate |-> "0700F"]
    BY <1>1, <1>4, <2>3
  <2>4. CASE value \in 1..5 /\ s = [item |-> [freed EXCEPT !.code = value], sqlstate |-> "00000"]
    <3>1. s.item = [freed EXCEPT !.code = value]
      BY <2>4
    <3>2. /\ s.item \in Items /\ s.item.data = "undefined" /\ s.item.code = value
          /\ s.item.type = item.type
      BY <2>2, <2>4, <3>1
    <3> QED BY <1>4, <3>2
  <2> QED BY <2>1, <2>3, <2>4
<1>5. CASE value # Wide /\ component = "INDICATOR"
  <2>1. s = [item |-> [freed EXCEPT !.indicator = value], sqlstate |-> "00000"]
    BY <1>5 DEF SetNumber, Done
  <2>2. LET i == [freed EXCEPT !.indicator = value] IN
        /\ i \in Items /\ i.data = "undefined" /\ i.indicator = value /\ i.code = item.code
        /\ i.type = item.type
    BY <1>1, <1>5 DEF Items
  <2> HIDE DEF freed
  <2>3. s.item = [freed EXCEPT !.indicator = value]
    BY <2>1
  <2>4. /\ s.item \in Items /\ s.item.data = "undefined" /\ s.item.indicator = value
        /\ s.item.code = item.code /\ s.item.type = item.type
    BY <2>2, <2>3
  <2> QED BY <1>5, <2>4
<1> QED BY <1>2, <1>3, <1>4, <1>5

(* vsql_m_set_data writes DATA as the C type of the item.                  *)
LEMMA SetDataIs ==
  ASSUME NEW item, Well(item), NEW host \in Hosts, NEW s, s = SetData(host, item)
  PROVE  /\ Well(s.item)
         /\ s.item.type = item.type /\ s.item.code = item.code
         /\ s.item.indicator = item.indicator
         /\ s.sqlstate = "00000" => s.item.data # "undefined"
<1> DEFINE memory == IF host = "int" THEN "int" ELSE "string"
<1>1. \/ s = [item |-> item, sqlstate |-> "22005"]
      \/ s = [item |-> item, sqlstate |-> "22003"]
      \/ /\ Matches(item, host) /\ host # Wide
         /\ s = [item |-> [item EXCEPT !.data = memory], sqlstate |-> "00000"]
  BY DEF SetData, Stopped, Done
<1>2. ASSUME Matches(item, host), host # Wide
      PROVE  item.type # "none" /\ memory = CType(item)
  BY <1>2 DEF Matches, CType, Hosts
<1>3. LET i == [item EXCEPT !.data = memory] IN
      /\ i \in Items /\ i.data = memory /\ i.type = item.type /\ i.code = item.code
      /\ i.indicator = item.indicator /\ CType(i) = CType(item)
  BY DEF Well, Items, Memory, CType
<1> HIDE DEF memory
<1>4. memory # "undefined"
  BY DEF memory
<1>5. CASE s = [item |-> item, sqlstate |-> "22005"] \/ s = [item |-> item, sqlstate |-> "22003"]
  BY <1>5
<1>6. CASE /\ Matches(item, host) /\ host # Wide
           /\ s = [item |-> [item EXCEPT !.data = memory], sqlstate |-> "00000"]
  <2>1. s.item = [item EXCEPT !.data = memory]
    BY <1>6
  <2> QED BY <1>2, <1>3, <1>4, <1>6, <2>1 DEF Well, Right
<1> QED BY <1>1, <1>5, <1>6

(* One component of a SET DESCRIPTOR. *)
SetOne(setting, component, s) ==
  IF component \notin DOMAIN setting \/ s.sqlstate # "00000" THEN s
  ELSE IF component = "DATA" THEN SetData(setting.DATA, s.item)
  ELSE SetNumber(component, setting[component], s.item)

(* It's set, or the rest isn't done.                                       *)
LEMMA SetOneNumber ==
  ASSUME NEW setting \in Settings, NEW component \in {"TYPE", "CODE", "INDICATOR"},
         NEW s, Well(s.item), NEW t, t = SetOne(setting, component, s)
  PROVE  /\ Well(t.item)
         /\ t.sqlstate = "00000" =>
              /\ s.sqlstate = "00000"
              /\ component = "TYPE" /\ "TYPE" \in DOMAIN setting => t.item.type = setting.TYPE
              /\ component = "CODE" =>
                   /\ t.item.type = s.item.type
                   /\ "CODE" \in DOMAIN setting => t.item.code = setting.CODE
              /\ component = "INDICATOR" =>
                   /\ t.item.type = s.item.type /\ t.item.code = s.item.code
                   /\ "INDICATOR" \in DOMAIN setting => t.item.indicator = setting.INDICATOR
<1>1. CASE component \notin DOMAIN setting \/ s.sqlstate # "00000"
  <2>1. t = s
    BY <1>1 DEF SetOne
  <2> QED BY <1>1, <2>1
<1>2. CASE component \in DOMAIN setting /\ s.sqlstate = "00000"
  <2> DEFINE value == setting[component]
  <2>1. t = SetNumber(component, value, s.item)
    BY <1>2 DEF SetOne
  <2>2. /\ component = "TYPE" => value = setting.TYPE
        /\ component = "CODE" => value = setting.CODE
        /\ component = "INDICATOR" => value = setting.INDICATOR
    OBVIOUS
  <2>3. /\ component = "TYPE" => value \in (Types \ {"none"}) \cup {Wide}
        /\ component = "CODE" => value \in Int \cup {Wide}
        /\ component = "INDICATOR" => value \in {-1, 0, Wide}
    BY <1>2, <2>2, DescriptorAssumption
  <2> HIDE DEF value
  <2>4. s.item \in Items
    BY DEF Well
  <2>5. /\ t.item \in Items /\ t.item.data = "undefined"
        /\ t.sqlstate = "00000" /\ component = "TYPE" => t.item.type = value
        /\ t.sqlstate = "00000" /\ component = "CODE" =>
             t.item.code = value /\ t.item.type = s.item.type
        /\ t.sqlstate = "00000" /\ component = "INDICATOR" =>
             t.item.indicator = value /\ t.item.code = s.item.code /\ t.item.type = s.item.type
    BY <2>1, <2>3, <2>4, SetNumberIs
  <2>6. Well(t.item)
    BY <2>5 DEF Well, Right
  <2> QED BY <1>2, <2>2, <2>5, <2>6
<1> QED BY <1>1, <1>2

(* All components in their order.                                          *)
LEMMA SetItemIs ==
  ASSUME NEW setting \in Settings, NEW item, Well(item), NEW s, s = SetItem(setting, item)
  PROVE  /\ Well(s.item)
         /\ s.sqlstate = "00000" =>
              /\ "TYPE" \in DOMAIN setting => s.item.type = setting.TYPE
              /\ "CODE" \in DOMAIN setting => s.item.code = setting.CODE
              /\ "INDICATOR" \in DOMAIN setting => s.item.indicator = setting.INDICATOR
              /\ "DATA" \in DOMAIN setting => s.item.data # "undefined"
<1>1. PICK s1 : s1 = SetOne(setting, "TYPE", Done(item))
  OBVIOUS
<1>2. PICK s2 : s2 = SetOne(setting, "CODE", s1)
  OBVIOUS
<1>3. PICK s3 : s3 = SetOne(setting, "INDICATOR", s2)
  OBVIOUS
<1>4. s = SetOne(setting, "DATA", s3)
  BY <1>1, <1>2, <1>3 DEF SetItem, SetOne, SetOrder
<1>5. Well(Done(item).item)
  BY DEF Done
<1>6. /\ Well(s1.item)
      /\ s1.sqlstate = "00000" => ("TYPE" \in DOMAIN setting => s1.item.type = setting.TYPE)
  BY <1>1, <1>5, SetOneNumber
<1>7. /\ Well(s2.item)
      /\ s2.sqlstate = "00000" =>
           /\ s1.sqlstate = "00000" /\ s2.item.type = s1.item.type
           /\ "CODE" \in DOMAIN setting => s2.item.code = setting.CODE
  BY <1>2, <1>6, SetOneNumber
<1>8. /\ Well(s3.item)
      /\ s3.sqlstate = "00000" =>
           /\ s2.sqlstate = "00000" /\ s3.item.type = s2.item.type /\ s3.item.code = s2.item.code
           /\ "INDICATOR" \in DOMAIN setting => s3.item.indicator = setting.INDICATOR
  BY <1>3, <1>7, SetOneNumber
<1>9. CASE "DATA" \notin DOMAIN setting \/ s3.sqlstate # "00000"
  <2>1. s = s3
    BY <1>4, <1>9 DEF SetOne
  <2> QED BY <1>6, <1>7, <1>8, <1>9, <2>1
<1>10. CASE "DATA" \in DOMAIN setting /\ s3.sqlstate = "00000"
  <2>1. s = SetData(setting.DATA, s3.item) /\ setting.DATA \in Hosts
    BY <1>4, <1>10, DescriptorAssumption DEF SetOne
  <2>2. /\ Well(s.item)
        /\ s.item.type = s3.item.type /\ s.item.code = s3.item.code
        /\ s.item.indicator = s3.item.indicator
        /\ s.sqlstate = "00000" => s.item.data # "undefined"
    BY <1>8, <2>1, SetDataIs
  <2> QED BY <1>6, <1>7, <1>8, <1>10, <2>2
<1> QED BY <1>9, <1>10

(* vsql_m_describe_column and vsql_m_get_column.                           *)
LEMMA DescribeColumnIs ==
  ASSUME NEW type \in Types
  PROVE  Well(DescribeColumn(type))
<1>1. DescribeColumn(type).data = "undefined"
  BY DEF DescribeColumn, Reset
<1>2. DescribeColumn(type) \in Items
  <2> DEFINE code == IF type = "DATETIME" THEN 1 ELSE 0
  <2>1. DescribeColumn(type) = [Reset EXCEPT !.type = type, !.code = code]
    BY DEF DescribeColumn
  <2>2. code \in 0..5
    OBVIOUS
  <2> HIDE DEF code
  <2>3. DescribeColumn(type) = [type |-> type, code |-> code, indicator |-> 0, data |-> "undefined"]
    BY <2>1 DEF Reset
  <2> QED BY <2>2, <2>3 DEF Items, Memory
<1> QED BY <1>1, <1>2 DEF Well, Right

(* The memory of a null isn't a value, and is never read.                  *)
LEMMA GetColumnIs ==
  ASSUME NEW item \in Items, Valid(item), NEW null \in BOOLEAN, NEW u, u = GetColumn(null, item)
  PROVE  /\ Well(u)
         /\ u.indicator < 0 <=> null
         /\ u.indicator >= 0 => u.data = CType(u)
<1> DEFINE memory == IF null THEN "garbage" ELSE CType(item)
           indicator == IF null THEN -1 ELSE 0
<1>1. u = [item EXCEPT !.data = memory, !.indicator = indicator]
  BY DEF GetColumn
<1>2. memory \in Memory /\ indicator \in {-1, 0}
  BY DEF Memory, CType
<1> HIDE DEF memory, indicator
<1>3. /\ u \in Items /\ u.data = memory /\ u.indicator = indicator /\ u.type = item.type
  BY <1>1, <1>2 DEF Items
<1>4. CType(u) = CType(item) /\ u.type # "none"
  BY <1>3 DEF CType, Valid
<1> QED BY <1>3, <1>4 DEF Well, Right, memory, indicator

(* What has the type it's read as, or is null, is sound to read.           *)
LEMMA WellIsSound ==
  ASSUME NEW item, Well(item), item.data # "undefined" \/ item.indicator < 0
  PROVE  SoundRead(item, CType(item))
BY DEF Well, Right, SoundRead, Items

-----------------------------------------------------------------------------
(* The list of areas. *)
FindIn(s, d) == SelectInSeq(s, LAMBDA a : a.name = d)

WellArea(a) ==
  /\ a \in AreaType /\ DOMAIN a.items = 1..a.max
  /\ \A n \in 1..a.max : Well(a.items[n])

(* Each area has all its items, and a name of its own.                     *)
WellList(s) ==
  /\ s \in Seq(AreaType)
  /\ \A i \in DOMAIN s : WellArea(s[i])
  /\ \A i, j \in DOMAIN s : s[i].name = s[j].name => i = j

(* vsql_m_find_descriptor finds the only area with the name, if there is   *)
(* one.                                                                    *)
LEMMA FindInIs ==
  ASSUME NEW s, WellList(s), NEW d
  PROVE  /\ FindIn(s, d) # 0 =>
              FindIn(s, d) \in DOMAIN s /\ s[FindIn(s, d)].name = d /\ WellArea(s[FindIn(s, d)])
         /\ \A i \in DOMAIN s : s[i].name = d => FindIn(s, d) = i /\ i # 0
<1> DEFINE I == {i \in 1..Len(s) : s[i].name = d}
<1>1. FindIn(s, d) = IF I # {} THEN Min(I) ELSE 0
  BY DEF FindIn, SelectInSeq
<1>2. s \in Seq(AreaType) /\ DOMAIN s = 1..Len(s) /\ Len(s) \in Nat
  BY DEF WellList
<1>3. ASSUME NEW i \in I
      PROVE  Min(I) = i /\ i # 0
  <2>1. I = {i}
    BY <1>2, <1>3 DEF WellList
  <2>2. i \in Nat /\ i # 0
    BY <1>2, <1>3
  <2> HIDE DEF I
  <2> QED BY <2>1, <2>2 DEF Min
<1>4. \A i \in I : i \in DOMAIN s /\ s[i].name = d /\ WellArea(s[i])
  BY <1>2 DEF WellList
<1>5. \A i \in DOMAIN s : s[i].name = d => i \in I
  BY <1>2
<1> HIDE DEF I
<1> QED BY <1>1, <1>3, <1>4, <1>5

(* The areas with a name: the one that is found, if there is one.          *)
LEMMA NamedIs ==
  ASSUME NEW s, WellList(s), NEW d
  PROVE  Named(d, s) = IF FindIn(s, d) # 0 THEN {s[FindIn(s, d)]} ELSE {}
BY FindInIs DEF Named

(* A list that differs at d only.                                          *)
OnlyAt(d, s, u) == WellList(u) /\ \A e : e # d => Named(e, u) = Named(e, s)

(* The areas with other names are found as they were.                      *)
LEMMA OtherIsSame ==
  ASSUME NEW s, WellList(s), NEW d, NEW u, OnlyAt(d, s, u), NEW e, e # d
  PROVE  /\ FindIn(u, e) # 0 <=> FindIn(s, e) # 0
         /\ FindIn(s, e) # 0 => u[FindIn(u, e)] = s[FindIn(s, e)]
BY NamedIs DEF OnlyAt

Put(s, f, a) == [s EXCEPT ![f] = a]

(* An area that is changed keeps its name, and the others stay as they     *)
(* are.                                                                    *)
LEMMA ChangeIs ==
  ASSUME NEW s, WellList(s), NEW d, FindIn(s, d) # 0, NEW a, WellArea(a), a.name = d,
         NEW u, u = Put(s, FindIn(s, d), a)
  PROVE  OnlyAt(d, s, u) /\ FindIn(u, d) # 0 /\ u[FindIn(u, d)] = a
<1> DEFINE f == FindIn(s, d)
<1>1. f \in DOMAIN s /\ s[f].name = d
  BY FindInIs
<1> HIDE DEF f
<1>2. u \in Seq(AreaType) /\ DOMAIN u = DOMAIN s
  <2>1. s \in Seq(AreaType) /\ a \in AreaType
    BY DEF WellList, WellArea
  <2> QED BY <1>1, <2>1, ExceptSeq DEF f, Put
<1>3. u[f] = a /\ \A i \in DOMAIN s \ {f} : u[i] = s[i]
  BY <1>1 DEF f, Put
<1>4. WellList(u)
  <2>1. \A i \in DOMAIN u : WellArea(u[i]) /\ u[i].name = s[i].name
    BY <1>1, <1>2, <1>3 DEF WellList
  <2> QED BY <1>2, <2>1 DEF WellList
<1>5. ASSUME NEW e, e # d
      PROVE  Named(e, u) = Named(e, s)
  <2>1. ASSUME NEW i \in DOMAIN s
        PROVE  /\ u[i].name = e <=> s[i].name = e
               /\ s[i].name = e => u[i] = s[i]
    BY <1>1, <1>3, <1>5, <2>1
  <2>2. \A x : x \in Named(e, u) => x \in Named(e, s)
    BY <1>2, <2>1 DEF Named
  <2>3. \A x : x \in Named(e, s) => x \in Named(e, u)
    BY <1>2, <2>1 DEF Named
  <2> QED BY <2>2, <2>3
<1>6. FindIn(u, d) = f /\ f # 0
  <2>1. f \in DOMAIN u /\ u[f].name = d
    BY <1>1, <1>2, <1>3
  <2> QED BY <1>4, <2>1, FindInIs
<1> QED BY <1>3, <1>4, <1>5, <1>6 DEF OnlyAt

(* A new area has a name that none had (vsql_m_allocate_descriptor).       *)
LEMMA AllocateIs ==
  ASSUME NEW s, WellList(s), NEW d, FindIn(s, d) = 0, NEW a, WellArea(a), a.name = d,
         NEW u, u = <<a>> \o s
  PROVE  OnlyAt(d, s, u)
<1>1. s \in Seq(AreaType) /\ a \in AreaType /\ <<a>> \in Seq(AreaType) /\ Len(<<a>>) = 1
  BY DEF WellList, WellArea
<1>2. /\ u \in Seq(AreaType) /\ Len(u) = 1 + Len(s)
      /\ \A i \in 1..Len(u) : u[i] = IF i <= 1 THEN <<a>>[i] ELSE s[i - 1]
  BY <1>1, ConcatProperties
<1>3. /\ DOMAIN s = 1..Len(s) /\ DOMAIN u = 1..Len(u) /\ Len(s) \in Nat
  BY <1>1, <1>2
<1>4. 1 \in DOMAIN u /\ u[1] = a
  BY <1>2, <1>3
<1>5. \A i \in DOMAIN u : i = 1 \/ (i - 1 \in DOMAIN s /\ u[i] = s[i - 1])
  BY <1>2, <1>3
<1>6. \A i \in DOMAIN s : i + 1 \in DOMAIN u /\ u[i + 1] = s[i]
  BY <1>2, <1>3
<1>7. \A i \in DOMAIN s : s[i].name # d
  BY FindInIs
<1>8. WellList(u)
  <2>1. \A i \in DOMAIN u : WellArea(u[i])
    BY <1>4, <1>5 DEF WellList
  <2>2. ASSUME NEW i \in DOMAIN u, NEW j \in DOMAIN u, u[i].name = u[j].name
        PROVE  i = j
    <3>1. CASE i = 1 /\ j # 1
      BY <1>4, <1>5, <1>7, <2>2, <3>1
    <3>2. CASE i # 1 /\ j = 1
      BY <1>4, <1>5, <1>7, <2>2, <3>2
    <3>3. CASE i # 1 /\ j # 1
      <4>1. i - 1 = j - 1
        BY <1>5, <2>2, <3>3 DEF WellList
      <4> QED BY <1>3, <4>1
    <3> QED BY <3>1, <3>2, <3>3
  <2> QED BY <1>2, <2>1, <2>2 DEF WellList
<1>9. ASSUME NEW e, e # d
      PROVE  Named(e, u) = Named(e, s)
  <2>1. \A x : x \in Named(e, u) => x \in Named(e, s)
    BY <1>4, <1>5, <1>9 DEF Named
  <2>2. \A x : x \in Named(e, s) => x \in Named(e, u)
    BY <1>6 DEF Named
  <2> QED BY <2>1, <2>2
<1> QED BY <1>8, <1>9 DEF OnlyAt

(* A name is free after its area is deallocated                            *)
(* (vsql_m_deallocate_descriptor).                                         *)
LEMMA DeallocateIs ==
  ASSUME NEW s, WellList(s), NEW d, FindIn(s, d) # 0, NEW u, u = RemoveAt(s, FindIn(s, d))
  PROVE  OnlyAt(d, s, u) /\ FindIn(u, d) = 0
<1> DEFINE f == FindIn(s, d)
           p == SubSeq(s, 1, f - 1)
           q == SubSeq(s, f + 1, Len(s))
<1>1. f \in DOMAIN s /\ s[f].name = d
  BY FindInIs
<1>2. u = p \o q
  BY DEF RemoveAt
<1> HIDE DEF f
<1>3. s \in Seq(AreaType) /\ DOMAIN s = 1..Len(s) /\ Len(s) \in Nat
  BY DEF WellList
<1>4. /\ p \in Seq(AreaType) /\ Len(p) = f - 1
      /\ \A i \in 1..(f - 1) : p[i] = s[i]
  BY <1>1, <1>3, SubSeqProperties
<1>5. /\ q \in Seq(AreaType) /\ Len(q) = Len(s) - f
      /\ \A i \in 1..(Len(s) - f) : q[i] = s[f + i]
  BY <1>1, <1>3, SubSeqProperties
<1> HIDE DEF p, q
<1>6. /\ u \in Seq(AreaType) /\ Len(u) = Len(p) + Len(q)
      /\ \A i \in 1..(Len(p) + Len(q)) : u[i] = IF i <= Len(p) THEN p[i] ELSE q[i - Len(p)]
  <2>1. p \in Seq(AreaType) /\ q \in Seq(AreaType)
    BY <1>4, <1>5
  <2> QED BY ONLY <1>2, <2>1, ConcatProperties
<1>7. DOMAIN u = 1..(Len(s) - 1)
  <2>1. DOMAIN u = 1..Len(u)
    BY <1>6
  <2>2. f \in Int /\ Len(u) = Len(s) - 1
    BY <1>1, <1>3, <1>4, <1>5, <1>6
  <2> QED BY <2>1, <2>2
<1>8. \A i \in DOMAIN u : u[i] = IF i < f THEN s[i] ELSE s[i + 1]
  <2> SUFFICES ASSUME NEW i \in DOMAIN u
               PROVE  u[i] = IF i < f THEN s[i] ELSE s[i + 1]
    OBVIOUS
  <2>1. f \in 1..Len(s) /\ i \in 1..(Len(s) - 1) /\ i \in 1..(Len(p) + Len(q))
    BY <1>1, <1>3, <1>4, <1>5, <1>7
  <2>2. u[i] = IF i <= f - 1 THEN p[i] ELSE q[i - (f - 1)]
    BY <1>4, <1>6, <2>1
  <2>3. CASE i < f
    BY <1>3, <1>4, <2>1, <2>2, <2>3
  <2>4. CASE i >= f
    <3>1. u[i] = q[i - (f - 1)] /\ i - (f - 1) \in 1..(Len(s) - f)
      BY <1>3, <2>1, <2>2, <2>4
    <3>2. u[i] = s[f + (i - (f - 1))] /\ f + (i - (f - 1)) = i + 1
      BY <1>3, <1>5, <2>1, <3>1
    <3> QED BY <1>3, <2>1, <2>4, <3>2
  <2> QED BY <1>3, <2>1, <2>3, <2>4
<1>9. \A i \in DOMAIN u : LET j == IF i < f THEN i ELSE i + 1 IN
        j \in DOMAIN s \ {f} /\ u[i] = s[j]
  BY <1>1, <1>3, <1>7, <1>8
<1>10. \A j \in DOMAIN s \ {f} : \E i \in DOMAIN u : u[i] = s[j]
  <2> SUFFICES ASSUME NEW j \in DOMAIN s \ {f}
               PROVE  \E i \in DOMAIN u : u[i] = s[j]
    OBVIOUS
  <2>1. CASE j < f
    BY <1>1, <1>3, <1>7, <1>8, <2>1
  <2>2. CASE j > f
    <3>1. j - 1 \in DOMAIN u /\ u[j - 1] = s[j]
      BY <1>1, <1>3, <1>7, <1>8, <2>2
    <3> QED BY <3>1
  <2> QED BY <1>1, <1>3, <2>1, <2>2
<1>11. \A j \in DOMAIN s : s[j].name = d => j = f
  BY <1>1 DEF WellList
<1>12. WellList(u)
  <2>1. \A i \in DOMAIN u : WellArea(u[i]) /\ u[i].name # d
    BY <1>9, <1>11 DEF WellList
  <2>2. ASSUME NEW i \in DOMAIN u, NEW j \in DOMAIN u, u[i].name = u[j].name
        PROVE  i = j
    <3>1. (IF i < f THEN i ELSE i + 1) = (IF j < f THEN j ELSE j + 1)
      BY <1>9, <2>2 DEF WellList
    <3> QED BY <1>1, <1>3, <1>7, <3>1
  <2> QED BY <1>6, <2>1, <2>2 DEF WellList
<1>13. \A i \in DOMAIN u : u[i].name # d
  BY <1>9, <1>11
<1>14. ASSUME NEW e, e # d
       PROVE  Named(e, u) = Named(e, s)
  <2>1. \A x : x \in Named(e, u) => x \in Named(e, s)
    BY <1>9 DEF Named
  <2>2. \A x : x \in Named(e, s) => x \in Named(e, u)
    BY <1>1, <1>10, <1>14 DEF Named
  <2> QED BY <2>1, <2>2
<1> QED BY <1>12, <1>13, <1>14, FindInIs DEF OnlyAt
With(a, items, count) == [a EXCEPT !.items = items, !.count = count]

(* The items or the COUNT of an area are set, and nothing else.            *)
LEMMA SetAreaIs ==
  ASSUME NEW s, WellList(s), NEW d, FindIn(s, d) # 0,
         NEW max, max = s[FindIn(s, d)].max,
         NEW items, DOMAIN items = 1..max, items \in [1..max -> Items],
         \A n \in 1..max : Well(items[n]),
         NEW count \in Counts \cup {Len(columns) : columns \in Columns} \cup {0},
         NEW a, a = With(s[FindIn(s, d)], items, count),
         NEW u, u = Put(s, FindIn(s, d), a)
  PROVE  /\ OnlyAt(d, s, u) /\ FindIn(u, d) # 0
         /\ u[FindIn(u, d)].items = items /\ u[FindIn(u, d)].count = count
         /\ u[FindIn(u, d)].max = max
<1>1. PICK r : r = s[FindIn(s, d)]
  OBVIOUS
<1>2. WellArea(r) /\ r.name = d
  BY <1>1, FindInIs
<1>3. r \in AreaType /\ max \in 1..MaxItems
  BY <1>1, <1>2 DEF WellArea, AreaType
<1>4. a = [r EXCEPT !.items = items, !.count = count]
  BY <1>1 DEF With
<1>5. /\ a.name = d /\ a.max = max /\ a.items = items /\ a.count = count
      /\ a = [name |-> a.name, max |-> a.max, count |-> a.count, items |-> a.items]
  BY <1>1, <1>2, <1>3, <1>4 DEF AreaType
<1>6. d \in Descriptors /\ items \in UNION {[1..n -> Items] : n \in 1..MaxItems}
  BY <1>2, <1>3 DEF AreaType
<1>7. a \in AreaType
  BY <1>3, <1>5, <1>6 DEF AreaType
<1>8. WellArea(a)
  BY <1>5, <1>7 DEF WellArea
<1>9. OnlyAt(d, s, u) /\ FindIn(u, d) # 0 /\ u[FindIn(u, d)] = a
  <2>1. /\ WellList(s) /\ FindIn(s, d) # 0 /\ WellArea(a) /\ a.name = d
        /\ u = Put(s, FindIn(s, d), a)
    BY <1>5, <1>8
  <2> QED BY ONLY <2>1, ChangeIs
<1> QED BY <1>5, <1>9

(* All items of a new area are reset (vsql_m_allocate_descriptor).         *)
LEMMA NewAreaIs ==
  ASSUME NEW d \in Descriptors, NEW max \in 1..MaxItems,
         NEW a, a = [name |-> d, max |-> max, count |-> 0, items |-> [i \in 1..max |-> Reset]]
  PROVE  WellArea(a) /\ a.name = d
<1>1. \A i \in 1..max : Well(a.items[i])
  BY ResetIsWell
<1>2. a.items \in [1..max -> Items]
  BY <1>1 DEF Well
<1>3. a.items \in UNION {[1..n -> Items] : n \in 1..MaxItems}
  BY <1>2
<1>4. a \in AreaType
  BY <1>3 DEF AreaType
<1> QED BY <1>1, <1>4 DEF WellArea

-----------------------------------------------------------------------------
(* The parameters. *)
Bounds == [Params -> {None, Dangling} \cup Pointers]

(* Params has the parameters of every statement.                           *)
LEMMA ParamsIs ==
  ASSUME NEW t \in Texts
  PROVE  t.params \in Nat /\ 1..t.params \subseteq Params
<1> DEFINE S == {u.params : u \in Texts}
<1>1. PICK m \in Texts : \A u \in Texts : u.params <= m.params
  BY DescriptorAssumption
<1>2. \A u \in Texts : u.params \in Nat
  BY DescriptorAssumption
<1>3. m.params \in S /\ \A n \in S : n <= m.params /\ n \in Nat
  BY <1>1, <1>2
<1> HIDE DEF S
<1>4. Max(S) = m.params
  BY <1>3 DEF Max
<1>5. Params = 1..m.params
  BY <1>4 DEF Params, S
<1> QED BY <1>1, <1>2, <1>5

(* Freeing memory leaves no pointer to it.                                 *)
LEMMA DangleIs ==
  ASSUME NEW b \in Bounds, NEW freed
  PROVE  Dangle(b, freed) \in Bounds
BY DEF Dangle, Bounds

(* After a call nothing is bound to its host parameters                    *)
(* (vsql_m_bind_params).                                                   *)
LEMMA LeaveIs ==
  ASSUME NEW b \in [Params -> {None, Dangling, Host} \cup Pointers]
  PROVE  Leave(b) \in Bounds
BY DEF Leave, Bounds

(* Nothing is bound to a new CLI statement.                                *)
LEMMA UnboundIs == Unbound \in Bounds
BY DEF Unbound, Bounds

-----------------------------------------------------------------------------
(* The inductive invariant and what a step may do to the areas. *)
PreparedType(p) == p \in Texts \cup {None}
CursorType(c) == c \in [columns : Columns \cup {<<>>}, open : BOOLEAN] \cup {None}

\* The items of the areas that the last call assigned a row to are that row.
RowIs(l, s) ==
  l.row # None =>
    \A d \in l.used, n \in DOMAIN l.row :
      LET item == s[FindIn(s, d)].items[n] IN
      /\ item.indicator < 0 <=> l.row[n]
      /\ item.indicator >= 0 => item.data = CType(item)

\* What was read is values, unless a target was never compared with the item.
Sound(l) == l.sound \/ l.unchecked

IInv ==
  /\ WellList(areas)
  /\ PreparedType(prepared)
  /\ CursorType(cursor)
  /\ bound \in Bounds
  /\ Sound(last)
  /\ RowIs(last, areas)

\* COUNT is all that is set if it becomes more than the items.
CountOnly(d, s, u) ==
  /\ FindIn(s, d) # 0 /\ FindIn(u, d) # 0
  /\ u[FindIn(u, d)].count # s[FindIn(s, d)].count
  /\ u[FindIn(u, d)].count > s[FindIn(s, d)].max
  => u[FindIn(u, d)].items = s[FindIn(s, d)].items

\* A call changes the area that it names, if any.
Changes(l, s, u) ==
  \/ u = s
  \/ \E d \in Descriptors : l.used = {d} /\ OnlyAt(d, s, u) /\ CountOnly(d, s, u)

\* What a step leaves: l, u, p, c and b are the variables after it, s is the list
\* of areas before it.
Holds(l, s, u, p, c, b) ==
  /\ WellList(u) /\ PreparedType(p) /\ CursorType(c) /\ b \in Bounds
  /\ Sound(l) /\ RowIs(l, u) /\ Changes(l, s, u)

StepHolds == Holds(last', areas, areas', prepared', cursor', bound')

(* A call that reads nothing and assigns no row is sound.                  *)
LEMMA QuietIs ==
  ASSUME NEW d, NEW u, NEW l, l = Quiet \/ l = Use(d) \/ l = [Quiet EXCEPT !.refused = TRUE]
  PROVE  l.sound /\ RowIs(l, u) /\ (l = Use(d) => l.used = {d})
BY DEF Quiet, Use, RowIs

(* A step that leaves the areas alone, and reads only values.              *)
LEMMA SameAreas ==
  ASSUME IInv, areas' = areas, PreparedType(prepared'), CursorType(cursor'),
         bound' \in Bounds, last'.sound \/ last'.unchecked, last'.row = None
  PROVE  StepHolds
BY DEF IInv, StepHolds, Holds, Sound, Changes, RowIs

(* A call that ends with an exception before it has an effect.             *)
LEMMA NothingStep ==
  ASSUME IInv, Nothing
  PROVE  StepHolds
<1>1. last' = Quiet /\ UNCHANGED <<areas, prepared, cursor, bound>>
  BY DEF Nothing
<1>2. last'.sound /\ last'.row = None
  BY <1>1 DEF Quiet
<1> QED BY <1>1, <1>2, SameAreas DEF IInv

(* A call that isn't made.                                                 *)
LEMMA SameStep ==
  ASSUME IInv, UNCHANGED vars
  PROVE  StepHolds
BY DEF IInv, StepHolds, Holds, Changes, vars

(* A step that changes one area, and not the statements.                   *)
LEMMA OneArea ==
  ASSUME IInv, NEW d \in Descriptors, NEW u, areas' = u, OnlyAt(d, areas, u),
         CountOnly(d, areas, u), UNCHANGED <<prepared, cursor>>, bound' \in Bounds,
         last'.used = {d}, last'.sound, RowIs(last', u)
  PROVE  StepHolds
BY DEF IInv, StepHolds, Holds, Sound, Changes, OnlyAt

-----------------------------------------------------------------------------
(* The steps. *)

(* ALLOCATE DESCRIPTOR (vsql_m_allocate_descriptor).                       *)
LEMMA AllocateStep ==
  ASSUME IInv, NEW d \in Descriptors, NEW max \in 0..MaxItems, Allocate(d, max)
  PROVE  StepHolds
<1>1. CASE max < 1 \/ Exists(d)
  BY <1>1, NothingStep DEF Allocate
<1>2. CASE ~(max < 1 \/ Exists(d))
  <2> DEFINE a == [name |-> d, max |-> max, count |-> 0, items |-> [i \in 1..max |-> Reset]]
             u == <<a>> \o areas
  <2>1. areas' = u /\ last' = Use(d) /\ UNCHANGED <<prepared, cursor, bound>>
    BY <1>2 DEF Allocate
  <2>2. max \in 1..MaxItems /\ FindIn(areas, d) = 0 /\ WellList(areas)
    BY <1>2, DescriptorAssumption DEF Exists, Find, FindIn, IInv
  <2>3. WellArea(a) /\ a.name = d
    BY <2>2, NewAreaIs
  <2> HIDE DEF a
  <2>4. OnlyAt(d, areas, u)
    BY ONLY <2>2, <2>3, AllocateIs
  <2> HIDE DEF u
  <2>5. CountOnly(d, areas, u)
    BY <2>2 DEF CountOnly
  <2>6. last'.used = {d} /\ last'.sound /\ RowIs(last', u)
    BY <2>1, QuietIs
  <2>7. bound' \in Bounds
    BY <2>1 DEF IInv
  <2> QED BY <2>1, <2>4, <2>5, <2>6, <2>7, OneArea
<1> QED BY <1>1, <1>2

(* DEALLOCATE DESCRIPTOR (vsql_m_deallocate_descriptor).                   *)
LEMMA DeallocateStep ==
  ASSUME IInv, NEW d \in Descriptors, Deallocate(d)
  PROVE  StepHolds
<1>1. CASE ~Exists(d)
  BY <1>1, NothingStep DEF Deallocate
<1>2. CASE Exists(d)
  <2>1. FindIn(areas, d) # 0 /\ WellList(areas)
    BY <1>2 DEF Exists, Find, FindIn, IInv
  <2>2. PICK u : u = RemoveAt(areas, FindIn(areas, d))
    OBVIOUS
  <2>3. PICK freed : freed = {x \in Pointers : x.area = d}
    OBVIOUS
  <2>4. /\ areas' = u /\ last' = Use(d) /\ UNCHANGED <<prepared, cursor>>
        /\ bound' = Dangle(bound, freed)
    BY <1>2, <2>2, <2>3 DEF Deallocate, Find, FindIn
  <2>5. OnlyAt(d, areas, u) /\ FindIn(u, d) = 0
    BY ONLY <2>1, <2>2, DeallocateIs
  <2>6. CountOnly(d, areas, u)
    BY <2>5 DEF CountOnly
  <2>7. last'.used = {d} /\ last'.sound /\ RowIs(last', u)
    BY <2>4, QuietIs
  <2>8. bound' \in Bounds
    BY <2>4, DangleIs DEF IInv
  <2> QED BY <2>4, <2>5, <2>6, <2>7, <2>8, OneArea
<1> QED BY <1>1, <1>2

(* The area that a call finds has all its items, and they are Well.        *)
LEMMA AreaIs ==
  ASSUME IInv, NEW d, Exists(d), NEW a, a = Area(d)
  PROVE  /\ FindIn(areas, d) # 0 /\ WellList(areas) /\ Find(d) = FindIn(areas, d)
         /\ a = areas[FindIn(areas, d)]
         /\ a.max \in 1..MaxItems /\ DOMAIN a.items = 1..a.max /\ a.items \in [1..a.max -> Items]
         /\ \A n \in 1..a.max : Well(a.items[n])
         /\ a.count \in Counts \cup {Len(columns) : columns \in Columns} \cup {0}
         /\ a.max \in Int /\ a.count \in Int
         /\ a = [name |-> a.name, max |-> a.max, count |-> a.count, items |-> a.items]
<1>1. /\ FindIn(areas, d) # 0 /\ WellList(areas) /\ Find(d) = FindIn(areas, d)
      /\ a = areas[FindIn(areas, d)]
  BY DEF Exists, Area, Find, FindIn, IInv
<1>2. WellArea(a)
  BY <1>1, FindInIs
<1>3. /\ a.max \in 1..MaxItems
      /\ a.count \in Counts \cup {Len(columns) : columns \in Columns} \cup {0}
      /\ a.items \in UNION {[1..n -> Items] : n \in 1..MaxItems}
      /\ a = [name |-> a.name, max |-> a.max, count |-> a.count, items |-> a.items]
  BY <1>2 DEF WellArea, AreaType
<1>4. DOMAIN a.items = 1..a.max /\ \A n \in 1..a.max : Well(a.items[n])
  BY <1>2 DEF WellArea
<1>5. a.items \in [1..a.max -> Items]
  <2>1. PICK k \in 1..MaxItems : a.items \in [1..k -> Items]
    BY <1>3
  <2>2. 1..k = 1..a.max
    BY <1>4, <2>1
  <2> QED BY <2>1, <2>2
<1>6. a.max \in Int /\ a.count \in Int
  <2>1. \A columns \in Columns : Len(columns) \in Nat
    BY DescriptorAssumption DEF Columns
  <2> QED BY <1>3, <2>1, DescriptorAssumption
<1> QED BY <1>1, <1>2, <1>3, <1>4, <1>5, <1>6

(* A call that sets the items or the COUNT of an area, to Well items.      *)
(* Those of the row that it says it assigned are that row.                 *)
LEMMA SetAreaStep ==
  ASSUME IInv, NEW d \in Descriptors, Exists(d), NEW a, a = Area(d),
         NEW items, DOMAIN items = 1..a.max, items \in [1..a.max -> Items],
         \A n \in 1..a.max : Well(items[n]),
         NEW count \in Counts \cup {Len(columns) : columns \in Columns} \cup {0},
         areas' = Put(areas, Find(d), With(a, items, count)),
         count = a.count \/ items = a.items \/ count <= a.max,
         UNCHANGED <<prepared, cursor>>, bound' \in Bounds,
         last'.used = {d}, last'.sound,
         \A n \in DOMAIN last'.row : last'.row # None =>
           /\ items[n].indicator < 0 <=> last'.row[n]
           /\ items[n].indicator >= 0 => items[n].data = CType(items[n])
  PROVE  StepHolds
<1>1. /\ FindIn(areas, d) # 0 /\ WellList(areas) /\ Find(d) = FindIn(areas, d)
      /\ a = areas[FindIn(areas, d)] /\ a.max \in Int /\ a.count \in Int
  BY AreaIs
<1>2. PICK u : u = Put(areas, FindIn(areas, d), With(areas[FindIn(areas, d)], items, count))
  OBVIOUS
<1>3. areas' = u
  BY <1>1, <1>2
<1>4. /\ OnlyAt(d, areas, u) /\ FindIn(u, d) # 0
      /\ u[FindIn(u, d)].items = items /\ u[FindIn(u, d)].count = count
      /\ u[FindIn(u, d)].max = a.max
  BY <1>1, <1>2, SetAreaIs
<1>5. count \in Int
  <2>1. \A columns \in Columns : Len(columns) \in Nat
    BY DescriptorAssumption DEF Columns
  <2> QED BY <2>1, DescriptorAssumption
<1>6. CountOnly(d, areas, u)
  BY <1>1, <1>4, <1>5 DEF CountOnly
<1>7. RowIs(last', u)
  BY <1>4 DEF RowIs
<1> QED BY <1>3, <1>4, <1>6, <1>7, OneArea

(* SET DESCRIPTOR COUNT (vsql_m_set_count), with any COUNT.                *)
LEMMA SetCountStep ==
  ASSUME IInv, NEW d \in Descriptors, NEW count \in Counts, SetCount(d, count)
  PROVE  StepHolds
<1>1. CASE ~Exists(d)
  BY <1>1, NothingStep DEF SetCount
<1>2. CASE Exists(d)
  <2>1. PICK a : a = Area(d)
    OBVIOUS
  <2>2. /\ areas' = [areas EXCEPT ![Find(d)].count = count]
        /\ last' = Use(d) /\ UNCHANGED <<prepared, cursor, bound>>
    BY <1>2 DEF SetCount
  <2>3. /\ Find(d) = FindIn(areas, d) /\ a = areas[Find(d)]
        /\ DOMAIN a.items = 1..a.max /\ a.items \in [1..a.max -> Items]
        /\ \A n \in 1..a.max : Well(a.items[n])
        /\ a = [name |-> a.name, max |-> a.max, count |-> a.count, items |-> a.items]
    BY <1>2, <2>1, AreaIs
  <2>4. [a EXCEPT !.count = count] = With(a, a.items, count)
    BY <2>3 DEF With
  <2>5. areas' = Put(areas, Find(d), With(a, a.items, count))
    BY <2>2, <2>3, <2>4 DEF Put
  <2>6. last'.used = {d} /\ last'.sound /\ last'.row = None /\ bound' \in Bounds
    BY <2>2 DEF Use, Quiet, IInv
  <2> QED BY <1>2, <2>1, <2>2, <2>3, <2>5, <2>6, SetAreaStep
<1> QED BY <1>1, <1>2

(* SET DESCRIPTOR VALUE (vsql_m_set_item), also if it stops part way.      *)
LEMMA SetDescriptorStep ==
  ASSUME IInv, NEW d \in Descriptors, NEW n \in 1..MaxItems, NEW setting \in Settings,
         SetDescriptor(d, n, setting)
  PROVE  StepHolds
<1>1. CASE ~Exists(d) \/ n \notin DOMAIN Area(d).items
  BY <1>1, NothingStep DEF SetDescriptor
<1>2. CASE Exists(d) /\ n \in DOMAIN Area(d).items
  <2>1. PICK a : a = Area(d)
    OBVIOUS
  <2>2. PICK s : s = SetItem(setting, a.items[n])
    OBVIOUS
  <2>3. PICK freed : freed = {x \in Pointers :
          (s.sqlstate = "00000" \/ DOMAIN setting # {"DATA"}) /\ x.area = d /\ x.item = n}
    OBVIOUS
  <2>4. /\ areas' = [areas EXCEPT ![Find(d)].items[n] = s.item]
        /\ bound' = Dangle(bound, freed)
        /\ last' = Use(d) /\ UNCHANGED <<prepared, cursor>>
    BY <1>2, <2>1, <2>2, <2>3 DEF SetDescriptor
  <2>5. /\ Find(d) = FindIn(areas, d) /\ a = areas[Find(d)]
        /\ DOMAIN a.items = 1..a.max /\ a.items \in [1..a.max -> Items]
        /\ \A i \in 1..a.max : Well(a.items[i])
        /\ a = [name |-> a.name, max |-> a.max, count |-> a.count, items |-> a.items]
        /\ a.count \in Counts \cup {Len(columns) : columns \in Columns} \cup {0}
    BY <1>2, <2>1, AreaIs
  <2>6. Well(s.item) /\ n \in 1..a.max
    BY <1>2, <2>1, <2>2, <2>5, SetItemIs
  <2>7. PICK items : items = [a.items EXCEPT ![n] = s.item]
    OBVIOUS
  <2>8. /\ DOMAIN items = 1..a.max /\ items \in [1..a.max -> Items]
        /\ \A i \in 1..a.max : Well(items[i])
    BY <2>5, <2>6, <2>7 DEF Well
  <2>9. [a EXCEPT !.items = items] = With(a, items, a.count)
    BY <2>5 DEF With
  <2>10. areas' = Put(areas, Find(d), With(a, items, a.count))
    BY <2>4, <2>5, <2>7, <2>9 DEF Put
  <2>11. last'.used = {d} /\ last'.sound /\ last'.row = None /\ bound' \in Bounds
    BY <2>4, DangleIs DEF Use, Quiet, IInv
  <2>12. IInv /\ d \in Descriptors /\ Exists(d) /\ UNCHANGED <<prepared, cursor>>
    BY <1>2, <2>4
  <2>13. a.count \in Counts \cup {Len(columns) : columns \in Columns} \cup {0}
    BY <2>5
  <2> QED BY ONLY <2>1, <2>8, <2>10, <2>11, <2>12, <2>13, SetAreaStep
<1> QED BY <1>1, <1>2

(* DATA is read as the type that the item has now, for every target that   *)
(* matches the item (vsql_m_matches).                                      *)
LEMMA TargetIsSound ==
  ASSUME NEW item, Well(item), NEW host \in Hosts \ {Wide}, Matches(item, host)
  PROVE  SoundTarget(item, host)
<1>1. CType(item) = IF host = "int" THEN "int" ELSE "string"
  BY DescriptorAssumption DEF Matches, CType, Hosts
<1>2. CASE item.data = "undefined"
  BY <1>2 DEF SoundTarget
<1>3. CASE item.data # "undefined"
  <2>1. SoundRead(item, CType(item))
    BY <1>3, WellIsSound
  <2> QED BY <1>1, <2>1 DEF SoundTarget
<1> QED BY <1>2, <1>3

(* GET DESCRIPTOR VALUE (vsql_m_get_item, vsql_m_get_data): either some    *)
(* target doesn't match, or each one is read as the type that the item has.*)
LEMMA GetDataStep ==
  ASSUME IInv, NEW d \in Descriptors, NEW n \in 1..MaxItems, NEW targets \in Targets,
         NEW withIndicator \in BOOLEAN, GetData(d, n, targets, withIndicator)
  PROVE  StepHolds
<1> DEFINE refused == \/ ~Exists(d)
                      \/ n \notin DOMAIN Area(d).items
                      \/ n > Area(d).count
                      \/ ~Matches(Area(d).items[n], Last(targets))
                      \/ Area(d).items[n].indicator < 0 /\ ~withIndicator
<1>1. CASE refused
  BY <1>1, NothingStep DEF GetData
<1>2. CASE ~refused
  <2>1. PICK item : item = Area(d).items[n]
    OBVIOUS
  <2> DEFINE sound == \A i \in DOMAIN targets : SoundTarget(item, targets[i])
             unchecked == \E i \in DOMAIN targets : ~Matches(item, targets[i])
  <2>2. /\ last' = [Quiet EXCEPT !.sound = sound, !.unchecked = unchecked]
        /\ UNCHANGED <<areas, prepared, cursor, bound>>
    BY <1>2, <2>1 DEF GetData
  <2>3. Exists(d) /\ n \in DOMAIN Area(d).items
    BY <1>2
  <2>4. Well(item)
    BY <2>1, <2>3, AreaIs
  <2>5. \A i \in DOMAIN targets : targets[i] \in Hosts \ {Wide}
    BY DescriptorAssumption
  <2>6. sound \/ unchecked
    BY <2>4, <2>5, TargetIsSound
  <2> HIDE DEF sound, unchecked
  <2>7. (last'.sound \/ last'.unchecked) /\ last'.row = None
    BY <2>2, <2>6 DEF Quiet
  <2> QED BY <2>2, <2>7, SameAreas DEF IInv
<1> QED BY <1>1, <1>2

(* PREPARE (vsql_m_prepare).                                               *)
LEMMA PrepareStep ==
  ASSUME IInv, NEW text \in Texts, Prepare(text)
  PROVE  StepHolds
<1>1. CASE prepared # None /\ Opened
  BY <1>1, SameStep DEF Prepare
<1>2. CASE ~(prepared # None /\ Opened)
  <2>1. prepared' \in {text, None} /\ last' = Quiet /\ UNCHANGED <<areas, cursor, bound>>
    BY <1>2 DEF Prepare
  <2>2. last'.sound /\ last'.row = None
    BY <2>1 DEF Quiet
  <2> QED BY <2>1, <2>2, SameAreas DEF IInv, PreparedType
<1> QED BY <1>1, <1>2

(* DEALLOCATE PREPARE (vsql_m_deallocate_prepare).                         *)
LEMMA DeallocatePrepareStep ==
  ASSUME IInv, DeallocatePrepare
  PROVE  StepHolds
<1>1. CASE prepared = None \/ Opened
  BY <1>1, SameStep DEF DeallocatePrepare
<1>2. CASE ~(prepared = None \/ Opened)
  <2>1. prepared' = None /\ last' = Quiet /\ UNCHANGED <<areas, cursor, bound>>
    BY <1>2 DEF DeallocatePrepare
  <2>2. last'.sound /\ last'.row = None
    BY <2>1 DEF Quiet
  <2> QED BY <2>1, <2>2, SameAreas DEF IInv, PreparedType
<1> QED BY <1>1, <1>2

(* CLOSE, and the end of the transaction.                                  *)
LEMMA CloseStep ==
  ASSUME IInv, Close
  PROVE  StepHolds
<1>1. /\ cursor' = [columns |-> <<>>, open |-> FALSE] /\ last' = Quiet
      /\ UNCHANGED <<areas, prepared, bound>>
  BY DEF Close
<1>2. last'.sound /\ last'.row = None
  BY <1>1 DEF Quiet
<1>3. CursorType(cursor')
  BY <1>1 DEF CursorType
<1> QED BY <1>1, <1>2, <1>3, SameAreas DEF IInv

(* The items of a DESCRIBE have no DATA, or are as they were.              *)
LEMMA DescribedIs ==
  ASSUME NEW d, NEW columns, columns \in Seq(Types \ {"none"}), NEW a, a = Area(d),
         a.max \in 1..MaxItems, DOMAIN a.items = 1..a.max, a.items \in [1..a.max -> Items],
         \A n \in 1..a.max : Well(a.items[n]), NEW items, items = Described(d, columns)
  PROVE  /\ DOMAIN items = 1..a.max /\ items \in [1..a.max -> Items]
         /\ \A n \in 1..a.max : Well(items[n])
         /\ Len(columns) > a.max => items = a.items
<1>1. CASE Len(columns) > a.max
  BY <1>1 DEF Described
<1>2. CASE ~(Len(columns) > a.max)
  <2>1. items = [i \in 1..a.max |-> IF i <= Len(columns) THEN DescribeColumn(columns[i])
                                    ELSE a.items[i]]
    BY <1>2 DEF Described
  <2>2. ASSUME NEW i \in 1..a.max
        PROVE  Well(items[i])
    <3>1. CASE i <= Len(columns)
      <4>1. columns[i] \in Types
        BY <2>2, <3>1
      <4> QED BY <2>1, <3>1, <4>1, DescribeColumnIs
    <3>2. CASE ~(i <= Len(columns))
      BY <2>1, <3>2
    <3> QED BY <3>1, <3>2
  <2> QED BY <1>2, <2>1, <2>2 DEF Well
<1> QED BY <1>1, <1>2

(* DESCRIBE (vsql_m_describe). COUNT is more than the items only if they   *)
(* are as they were.                                                       *)
LEMMA DescribeStep ==
  ASSUME IInv, NEW d \in Descriptors, Describe(d)
  PROVE  StepHolds
<1>1. CASE prepared = None \/ ~Exists(d)
  BY <1>1, NothingStep DEF Describe
<1>2. CASE prepared # None /\ Exists(d)
  <2>1. PICK a : a = Area(d)
    OBVIOUS
  <2>2. PICK columns : columns = prepared.columns
    OBVIOUS
  <2>3. PICK items : items = Described(d, columns)
    OBVIOUS
  <2>4. PICK freed : freed = {x \in Pointers :
          x.area = d /\ x.item <= Len(columns) /\ Len(columns) <= a.max}
    OBVIOUS
  <2>5. PICK count : count = Len(columns)
    OBVIOUS
  <2>6. /\ areas' = [areas EXCEPT ![Find(d)] = [@ EXCEPT !.items = items, !.count = count]]
        /\ bound' = Dangle(bound, freed)
        /\ last' = Use(d) /\ UNCHANGED <<prepared, cursor>>
    BY <1>2, <2>1, <2>2, <2>3, <2>4, <2>5 DEF Describe
  <2>7. /\ Find(d) = FindIn(areas, d) /\ a = areas[Find(d)]
        /\ DOMAIN a.items = 1..a.max /\ a.items \in [1..a.max -> Items] /\ a.max \in 1..MaxItems
        /\ \A i \in 1..a.max : Well(a.items[i])
        /\ a.max \in Int
    BY <1>2, <2>1, AreaIs
  <2>8. columns \in Columns /\ columns \in Seq(Types \ {"none"}) /\ count \in Nat
    BY <1>2, <2>2, <2>5, DescriptorAssumption DEF IInv, PreparedType, Columns
  <2>9. /\ DOMAIN items = 1..a.max /\ items \in [1..a.max -> Items]
        /\ \A i \in 1..a.max : Well(items[i])
        /\ count > a.max => items = a.items
    BY <2>1, <2>3, <2>5, <2>7, <2>8, DescribedIs
  <2>10. items = a.items \/ count <= a.max
    BY <2>7, <2>8, <2>9
  <2>11. areas' = Put(areas, Find(d), With(a, items, count))
    BY <2>6, <2>7 DEF Put, With
  <2>12. last'.used = {d} /\ last'.sound /\ last'.row = None /\ bound' \in Bounds
    BY <2>6, DangleIs DEF Use, Quiet, IInv
  <2>13. count \in Counts \cup {Len(c) : c \in Columns} \cup {0}
    BY <2>5, <2>8
  <2>14. IInv /\ d \in Descriptors /\ Exists(d) /\ UNCHANGED <<prepared, cursor>>
    BY <1>2, <2>6
  <2>15. DOMAIN items = 1..a.max /\ items \in [1..a.max -> Items] /\ \A i \in 1..a.max : Well(items[i])
    BY <2>9
  <2> QED BY ONLY <2>1, <2>10, <2>11, <2>12, <2>13, <2>14, <2>15, SetAreaStep
<1> QED BY <1>1, <1>2

(* The items that a row is assigned to. *)
Assigned(items, row) ==
  [i \in DOMAIN items |-> IF i \in DOMAIN row THEN GetColumn(row[i], items[i]) ELSE items[i]]

WellItems(items, max) ==
  /\ DOMAIN items = 1..max /\ items \in [1..max -> Items]
  /\ \A n \in 1..max : Well(items[n])

FirstValid(items, k) == \A n \in 1..k : Valid(items[n])

ItemsAre(items, row) ==
  \A n \in DOMAIN row : /\ items[n].indicator < 0 <=> row[n]
                        /\ items[n].indicator >= 0 => items[n].data = CType(items[n])

(* The items of a row are null or not as the row says, and the ones after  *)
(* it are as they were (vsql_m_into).                                      *)
LEMMA AssignedIs ==
  ASSUME NEW max \in Nat, NEW items, WellItems(items, max),
         NEW k \in 0..max, FirstValid(items, k), NEW row \in [1..k -> BOOLEAN],
         NEW set, set = Assigned(items, row)
  PROVE  WellItems(set, max) /\ ItemsAre(set, row)
<1> USE DEF WellItems, FirstValid, ItemsAre
<1>1. DOMAIN row = 1..k /\ \A n \in 1..k : n \in 1..max /\ row[n] \in BOOLEAN
  OBVIOUS
<1>2. DOMAIN set = 1..max
  BY DEF Assigned
<1>3. ASSUME NEW n \in 1..k
      PROVE  /\ Well(set[n])
             /\ set[n].indicator < 0 <=> row[n]
             /\ set[n].indicator >= 0 => set[n].data = CType(set[n])
  <2>1. set[n] = GetColumn(row[n], items[n])
    BY <1>1, <1>3 DEF Assigned
  <2>2. items[n] \in Items /\ Valid(items[n]) /\ row[n] \in BOOLEAN
    BY <1>1, <1>3
  <2> QED BY ONLY <2>1, <2>2, GetColumnIs
<1>4. ASSUME NEW n \in 1..max, n \notin 1..k
      PROVE  Well(set[n])
  <2>1. set[n] = items[n]
    BY <1>1, <1>4 DEF Assigned
  <2> QED BY <1>4, <2>1
<1>5. \A n \in 1..max : Well(set[n])
  BY <1>3, <1>4
<1>6. set = [n \in 1..max |-> set[n]]
  BY <1>2 DEF Assigned
<1>7. set \in [1..max -> Items]
  BY <1>5, <1>6 DEF Well
<1> QED BY <1>2, <1>3, <1>5, <1>7

(* A row has the columns before one that can't be cast.                    *)
LEMMA RowsIs ==
  ASSUME NEW columns, NEW T, columns \in Seq(T), NEW row \in Rows(columns)
  PROVE  \E k \in 0..Len(columns) : row \in [1..k -> BOOLEAN]
BY DEF Rows

(* The row of a FETCH or an EXECUTE (vsql_m_into).                         *)
LEMMA IntoStep ==
  ASSUME IInv, NEW columns, columns \in Columns \cup {<<>>}, NEW row \in Rows(columns),
         NEW out \in Outputs, NEW did, did.sound, did.row = None,
         DOMAIN did = DOMAIN Quiet, did = [x \in DOMAIN did |-> did[x]],
         UNCHANGED <<prepared, cursor>>, Into(out, columns, row, did)
  PROVE  StepHolds
<1>1. CASE ~(IsArea(out) /\ Usable(out, Len(columns)))
  <2>1. last' = did /\ UNCHANGED <<areas, bound>>
    BY <1>1 DEF Into
  <2> QED BY <2>1, SameAreas DEF IInv
<1>2. CASE IsArea(out) /\ Usable(out, Len(columns))
  <2>1. PICK a : a = Area(out)
    OBVIOUS
  <2>2. PICK items : items = Assigned(a.items, row)
    OBVIOUS
  <2>3. PICK freed : freed = {x \in Pointers : x.area = out /\ x.item \in DOMAIN row}
    OBVIOUS
  <2>4. PICK assigned : assigned = (IF Len(row) = Len(columns) THEN row ELSE None)
    OBVIOUS
  <2>5. out \in Descriptors /\ Exists(out)
    BY <1>2 DEF IsArea, Usable
  <2>6. /\ Find(out) = FindIn(areas, out) /\ a = areas[Find(out)]
        /\ DOMAIN a.items = 1..a.max /\ a.items \in [1..a.max -> Items] /\ a.max \in 1..MaxItems
        /\ \A i \in 1..a.max : Well(a.items[i])
        /\ a = [name |-> a.name, max |-> a.max, count |-> a.count, items |-> a.items]
        /\ a.count \in Counts \cup {Len(c) : c \in Columns} \cup {0}
        /\ a.max \in Int /\ a.count \in Int
    BY <2>1, <2>5, AreaIs
  <2>7. /\ areas' = [areas EXCEPT ![Find(out)].items =
             [i \in DOMAIN @ |-> IF i \in DOMAIN row THEN GetColumn(row[i], @[i]) ELSE @[i]]]
        /\ bound' = Dangle(bound, freed)
        /\ last' = [did EXCEPT !.used = {out}, !.row = assigned]
    BY <1>2, <2>3, <2>4 DEF Into
  <2>8. areas' = [areas EXCEPT ![Find(out)] = [a EXCEPT !.items = items]]
    BY <2>2, <2>6, <2>7 DEF Assigned
  <2>9. areas' = Put(areas, Find(out), With(a, items, a.count))
    <3>1. [a EXCEPT !.items = items] = With(a, items, a.count)
      BY <2>6 DEF With
    <3> QED BY <2>8, <3>1 DEF Put
  <2>10. /\ last'.used = {out} /\ last'.sound /\ last'.row = assigned
    BY <2>7 DEF Quiet
  <2>11. Len(columns) = a.count /\ a.count \in 0..a.max /\ \A i \in 1..a.count : Valid(a.items[i])
    BY <1>2, <2>1 DEF Usable
  <2>12. columns \in Seq(Types \ {"none"})
    <3>1. CASE columns \in Columns
      BY <3>1, DescriptorAssumption DEF Columns
    <3>2. CASE columns = <<>>
      BY <3>2, EmptySeq
    <3> QED BY <3>1, <3>2
  <2>13. PICK k \in 0..Len(columns) : row \in [1..k -> BOOLEAN]
    BY <2>12, RowsIs
  <2>14. k \in 0..a.max /\ a.max \in Nat /\ \A i \in 1..k : Valid(a.items[i])
    BY <2>6, <2>11, <2>13
  <2>15. /\ DOMAIN items = 1..a.max /\ items \in [1..a.max -> Items]
         /\ \A n \in 1..a.max : Well(items[n])
         /\ \A n \in 1..k : /\ items[n].indicator < 0 <=> row[n]
                            /\ items[n].indicator >= 0 => items[n].data = CType(items[n])
    <3>1. PICK max, old : max = a.max /\ old = a.items
      OBVIOUS
    <3>2. WellItems(old, max)
      BY <2>6, <3>1 DEF WellItems
    <3>3. max \in Nat /\ k \in 0..max /\ FirstValid(old, k)
      BY <2>14, <3>1 DEF FirstValid
    <3>4. row \in [1..k -> BOOLEAN]
      BY <2>13
    <3>5. items = Assigned(old, row)
      BY <2>2, <3>1
    <3>6. WellItems(items, max) /\ ItemsAre(items, row)
      BY ONLY <3>2, <3>3, <3>4, <3>5, AssignedIs
    <3> QED BY <3>1, <3>4, <3>6 DEF WellItems, ItemsAre
  <2>16. \A n \in DOMAIN last'.row : last'.row # None =>
           /\ items[n].indicator < 0 <=> last'.row[n]
           /\ items[n].indicator >= 0 => items[n].data = CType(items[n])
    <3>1. CASE assigned = None
      BY <2>10, <3>1
    <3>2. CASE assigned = row
      <4>1. last'.row = row /\ DOMAIN row = 1..k
        BY <2>10, <2>13, <3>2
      <4> QED BY <2>15, <4>1
    <3> QED BY <2>4, <3>1, <3>2
  <2>17. bound' \in Bounds
    BY <2>7, DangleIs DEF IInv
  <2>18. IInv /\ out \in Descriptors /\ Exists(out) /\ UNCHANGED <<prepared, cursor>>
    BY <2>5
  <2>19. a.count = a.count \/ items = a.items \/ a.count <= a.max
    OBVIOUS
  <2>20. /\ DOMAIN items = 1..a.max /\ items \in [1..a.max -> Items]
         /\ \A n \in 1..a.max : Well(items[n])
         /\ a.count \in Counts \cup {Len(c) : c \in Columns} \cup {0}
         /\ last'.used = {out} /\ last'.sound
    BY <2>6, <2>10, <2>15
  <2> QED BY ONLY <2>1, <2>9, <2>16, <2>17, <2>18, <2>19, <2>20, SetAreaStep
<1> QED BY <1>1, <1>2

(* What vsql_m_bind_params has bound is sound to read: every parameter of  *)
(* the statement is bound again, whatever it was bound to, to an item with *)
(* a value or to a host parameter of this call.                            *)
LEMMA BindIs ==
  ASSUME IInv, NEW in \in Inputs, NEW text \in Texts, NEW params, params = text.params,
         Accepts(in, params), NEW before \in Bounds, NEW b, b = Bind(in, params, before)
  PROVE  b \in [Params -> {None, Dangling, Host} \cup Pointers] /\ SoundReads(b, params)
<1>1. params \in Nat /\ 1..params \subseteq Params
  BY ParamsIs
<1>2. Params \subseteq Int
  BY DEF Params
<1>3. CASE IsArea(in)
  <2>1. Usable(in, params) /\ \A i \in 1..params : HasValue(Area(in).items[i])
    BY <1>3, DescriptorAssumption DEF Accepts, IsArea
  <2>2. PICK a : a = Area(in)
    OBVIOUS
  <2>3. in \in Descriptors /\ in # None /\ Exists(in) /\ a.count = params /\ a.count \in 0..a.max
    BY <1>3, <2>1, <2>2, DescriptorAssumption DEF IsArea, Usable
  <2>4. a.max \in 1..MaxItems /\ \A n \in 1..a.max : Well(a.items[n])
    BY <2>2, <2>3, AreaIs
  <2>5. b = [j \in Params |-> IF j > params THEN before[j]
               ELSE [area |-> in, item |-> j, as |-> CType(a.items[j])]]
    BY <1>3, <2>2, <2>3 DEF Bind
  <2>6. ASSUME NEW j \in Params, ~(j > params)
        PROVE  /\ b[j] \in Pointers /\ b[j].area = in /\ b[j].item = j
               /\ SoundRead(a.items[j], b[j].as)
    <3>1. b[j] = [area |-> in, item |-> j, as |-> CType(a.items[j])]
      BY <2>5, <2>6
    <3>2. j \in 1..params
      BY <1>1, <1>2, <2>6 DEF Params
    <3>3. j \in 1..MaxItems /\ Well(a.items[j])
      BY <1>1, <2>3, <2>4, <3>2, DescriptorAssumption
    <3>4. HasValue(a.items[j])
      BY <2>1, <2>2, <3>2
    <3>5. SoundRead(a.items[j], CType(a.items[j]))
      BY <3>3, <3>4, WellIsSound DEF HasValue
    <3>6. CType(a.items[j]) \in {"int", "string"}
      BY DEF CType
    <3> QED BY <2>3, <3>1, <3>3, <3>5, <3>6 DEF Pointers
  <2>7. b \in [Params -> {None, Dangling, Host} \cup Pointers]
    <3>1. \A j \in Params : b[j] \in {None, Dangling, Host} \cup Pointers
      BY <2>5, <2>6 DEF Bounds
    <3>2. b = [j \in Params |-> b[j]]
      BY <2>5
    <3> QED BY <3>1, <3>2
  <2>8. \A j \in 1..params : j \in Params /\ ~(j > params)
    BY <1>1
  <2>9. SoundReads(b, params)
    BY <2>2, <2>6, <2>8 DEF SoundReads
  <2> QED BY <2>7, <2>9
<1>4. CASE ~IsArea(in) /\ in = None
  <2>1. params = 0
    BY <1>4 DEF Accepts
  <2>2. b = [j \in Params |-> before[j]]
    BY <1>4 DEF Bind
  <2>3. b \in [Params -> {None, Dangling, Host} \cup Pointers]
    BY <2>2 DEF Bounds
  <2> QED BY <2>1, <2>3 DEF SoundReads
<1>5. CASE ~IsArea(in) /\ in # None
  <2>1. b = [j \in Params |-> IF j > params THEN before[j] ELSE Host]
    BY <1>5 DEF Bind
  <2>2. b \in [Params -> {None, Dangling, Host} \cup Pointers]
    BY <2>1 DEF Bounds
  <2>3. \A j \in 1..params : b[j] = Host
    BY <1>1, <2>1
  <2> QED BY <2>2, <2>3 DEF SoundReads
<1> QED BY <1>3, <1>4, <1>5

(* EXECUTE (vsql_m_execute_prepared).                                      *)
LEMMA ExecuteStep ==
  ASSUME IInv, NEW in \in Inputs, NEW out \in Outputs, Execute(in, out)
  PROVE  StepHolds
<1> DEFINE quiet == last' = Quiet /\ UNCHANGED <<areas, bound>>
<1>1. PICK params, columns : params = prepared.params /\ columns = prepared.columns
  OBVIOUS
<1>2. PICK b : b = Bind(in, params, Unbound)
  OBVIOUS
<1>3. PICK executed : executed = [Quiet EXCEPT !.sound = SoundReads(b, params)]
  OBVIOUS
<1>4. UNCHANGED <<prepared, cursor>>
  BY DEF Execute
<1>5. \/ quiet
      \/ /\ prepared # None /\ Accepts(in, params)
         /\ \/ last' = executed /\ UNCHANGED <<areas, bound>>
            \/ \E row \in Rows(columns) : Into(out, columns, row, executed)
  BY <1>1, <1>2, <1>3 DEF Execute
<1>6. CASE quiet
  <2>1. last'.sound /\ last'.row = None
    BY <1>6 DEF Quiet
  <2> QED BY <1>4, <1>6, <2>1, SameAreas DEF IInv
<1>7. CASE prepared # None /\ Accepts(in, params)
  <2>1. prepared \in Texts
    BY <1>7 DEF IInv, PreparedType
  <2>2. SoundReads(b, params)
    BY <1>1, <1>2, <1>7, <2>1, BindIs, UnboundIs
  <2>3. executed.sound /\ executed.row = None /\ DOMAIN executed = DOMAIN Quiet
        /\ executed = [x \in DOMAIN executed |-> executed[x]]
    BY <1>3, <2>2 DEF Quiet
  <2>4. columns \in Columns \cup {<<>>}
    BY <1>1, <2>1 DEF Columns
  <2>5. CASE quiet
    BY <1>6, <2>5
  <2>6. CASE last' = executed /\ UNCHANGED <<areas, bound>>
    BY <1>4, <2>3, <2>6, SameAreas DEF IInv
  <2>7. CASE \E row \in Rows(columns) : Into(out, columns, row, executed)
    <3>1. PICK row \in Rows(columns) : Into(out, columns, row, executed)
      BY <2>7
    <3> QED BY <1>4, <2>3, <2>4, <3>1, IntoStep
  <2> QED BY <1>5, <2>5, <2>6, <2>7
<1> QED BY <1>5, <1>6, <1>7

(* OPEN (vsql_m_open_dynamic), on a CLI statement that may be bound to     *)
(* memory that was freed.                                                  *)
LEMMA OpenStep ==
  ASSUME IInv, NEW in \in Inputs, Open(in)
  PROVE  StepHolds
<1> DEFINE freed == cursor' = None /\ bound' = Unbound
<1>1. PICK params : params = prepared.params
  OBVIOUS
<1>2. PICK b : b = Bind(in, params, bound)
  OBVIOUS
<1>3. UNCHANGED <<areas, prepared>>
  BY DEF Open
<1>4. \/ last' = Quiet /\ UNCHANGED <<cursor, bound>>
      \/ last' = Quiet /\ freed
      \/ last' = [Quiet EXCEPT !.refused = TRUE] /\ freed
      \/ /\ prepared # None /\ Accepts(in, params)
         /\ last' = [Quiet EXCEPT !.sound = SoundReads(b, params)]
         /\ \/ freed
            \/ /\ cursor' = [columns |-> prepared.columns, open |-> TRUE]
               /\ bound' = Leave(b)
  BY <1>1, <1>2 DEF Open
<1>5. PreparedType(prepared')
  BY <1>3 DEF IInv
<1>6. freed => CursorType(cursor') /\ bound' \in Bounds
  BY UnboundIs DEF CursorType
<1>7. CASE last' = Quiet \/ last' = [Quiet EXCEPT !.refused = TRUE]
  <2>1. last'.sound /\ last'.row = None
    BY <1>7 DEF Quiet
  <2>2. CASE freed
    BY <1>3, <1>5, <1>6, <2>1, <2>2, SameAreas
  <2>3. CASE UNCHANGED <<cursor, bound>>
    BY <1>3, <1>5, <2>1, <2>3, SameAreas DEF IInv
  <2>4. CASE cursor' = [columns |-> prepared.columns, open |-> TRUE] /\ bound' = Leave(b)
             /\ prepared # None /\ Accepts(in, params)
    <3>1. prepared \in Texts /\ prepared.columns \in Columns
      BY <2>4 DEF IInv, PreparedType, Columns
    <3>2. b \in [Params -> {None, Dangling, Host} \cup Pointers]
      BY <1>1, <1>2, <2>4, <3>1, BindIs DEF IInv
    <3>3. CursorType(cursor') /\ bound' \in Bounds
      BY <2>4, <3>1, <3>2, LeaveIs DEF CursorType
    <3> QED BY <1>3, <1>5, <2>1, <3>3, SameAreas
  <2> QED BY <1>4, <2>2, <2>3, <2>4
<1>8. CASE /\ prepared # None /\ Accepts(in, params)
           /\ last' = [Quiet EXCEPT !.sound = SoundReads(b, params)]
           /\ \/ freed
              \/ /\ cursor' = [columns |-> prepared.columns, open |-> TRUE]
                 /\ bound' = Leave(b)
  <2>1. prepared \in Texts /\ prepared.columns \in Columns
    BY <1>8 DEF IInv, PreparedType, Columns
  <2>2. b \in [Params -> {None, Dangling, Host} \cup Pointers] /\ SoundReads(b, params)
    BY <1>1, <1>2, <1>8, <2>1, BindIs DEF IInv
  <2>3. last'.sound /\ last'.row = None
    BY <1>8, <2>2 DEF Quiet
  <2>4. CASE freed
    BY <1>3, <1>5, <1>6, <2>3, <2>4, SameAreas
  <2>5. CASE cursor' = [columns |-> prepared.columns, open |-> TRUE] /\ bound' = Leave(b)
    <3>1. CursorType(cursor') /\ bound' \in Bounds
      BY <2>1, <2>2, <2>5, LeaveIs DEF CursorType
    <3> QED BY <1>3, <1>5, <2>3, <3>1, SameAreas
  <2> QED BY <1>8, <2>4, <2>5
<1> QED BY <1>4, <1>7, <1>8

(* FETCH (vsql_m_fetch_dynamic).                                           *)
LEMMA FetchStep ==
  ASSUME IInv, NEW out \in Descriptors, Fetch(out)
  PROVE  StepHolds
<1>1. UNCHANGED <<prepared, cursor>>
  BY DEF Fetch
<1>2. Quiet.sound /\ Quiet.row = None
      /\ Quiet = [x \in DOMAIN Quiet |-> Quiet[x]]
  BY DEF Quiet
<1>3. CASE ~Opened
  <2>1. last' = Quiet /\ UNCHANGED <<areas, bound>>
    BY <1>3 DEF Fetch
  <2> QED BY <1>1, <1>2, <2>1, SameAreas DEF IInv
<1>4. CASE Opened
  <2>1. PICK columns : columns = cursor.columns
    OBVIOUS
  <2>2. PICK row \in Rows(columns) : Into(out, columns, row, Quiet)
    BY <1>4, <2>1 DEF Fetch
  <2>3. columns \in Columns \cup {<<>>} /\ out \in Outputs
    BY <1>4, <2>1 DEF IInv, CursorType, Opened, Outputs
  <2> QED BY <1>1, <1>2, <2>2, <2>3, IntoStep
<1> QED BY <1>3, <1>4

-----------------------------------------------------------------------------
(* The theorems. *)

(* Without areas and statements all of it holds.                           *)
LEMMA InitHolds ==
  ASSUME Init
  PROVE  IInv
<1>1. areas = <<>> /\ areas \in Seq(AreaType) /\ DOMAIN areas = {}
  BY EmptySeq DEF Init
<1>2. WellList(areas)
  BY <1>1 DEF WellList
<1>3. last.sound /\ RowIs(last, areas)
  BY DEF Init, Quiet, RowIs
<1>4. PreparedType(prepared) /\ CursorType(cursor) /\ bound \in Bounds
  BY UnboundIs DEF Init, PreparedType, CursorType
<1> QED BY <1>2, <1>3, <1>4 DEF IInv, Sound

(* Every call keeps it, and changes only the area that it names.           *)
LEMMA NextHolds ==
  ASSUME IInv, [Next]_vars
  PROVE  StepHolds
<1>1. CASE UNCHANGED vars
  BY <1>1, SameStep
<1>2. CASE \E d \in Descriptors, max \in 0..MaxItems : Allocate(d, max)
  BY <1>2, AllocateStep
<1>3. CASE \E d \in Descriptors : Deallocate(d)
  BY <1>3, DeallocateStep
<1>4. CASE \E d \in Descriptors, count \in Counts : SetCount(d, count)
  BY <1>4, SetCountStep
<1>5. CASE \E d \in Descriptors, n \in 1..MaxItems, s \in Settings : SetDescriptor(d, n, s)
  BY <1>5, SetDescriptorStep
<1>6. CASE \E d \in Descriptors, n \in 1..MaxItems, targets \in Targets, i \in BOOLEAN :
             GetData(d, n, targets, i)
  BY <1>6, GetDataStep
<1>7. CASE \E text \in Texts : Prepare(text)
  BY <1>7, PrepareStep
<1>8. CASE \E d \in Descriptors : Describe(d)
  BY <1>8, DescribeStep
<1>9. CASE \E in \in Inputs, out \in Outputs : Execute(in, out)
  BY <1>9, ExecuteStep
<1>10. CASE \E in \in Inputs : Open(in)
  BY <1>10, OpenStep
<1>11. CASE \E out \in Descriptors : Fetch(out)
  BY <1>11, FetchStep
<1>12. CASE Close
  BY <1>12, CloseStep
<1>13. CASE DeallocatePrepare
  BY <1>13, DeallocatePrepareStep
<1> QED
  BY <1>1, <1>2, <1>3, <1>4, <1>5, <1>6, <1>7, <1>8, <1>9, <1>10, <1>11, <1>12, <1>13 DEF Next

(* The state after such a step.                                            *)
LEMMA StepKeeps ==
  ASSUME StepHolds
  PROVE  IInv'
BY DEF StepHolds, Holds, IInv

(* The inductive invariant: items are Well, names are unique, and what the *)
(* last call read of them, for targets that match, and assigned to them    *)
(* was right.                                                              *)
THEOREM WellAlways == Spec => []IInv
<1>1. Init => IInv
  BY InitHolds
<1>2. IInv /\ [Next]_vars => IInv'
  BY NextHolds, StepKeeps
<1> QED BY <1>1, <1>2, PTL DEF Spec

(* The state is of its type, and no two areas have the same name           *)
(* (vsql_m_allocate_descriptor).                                           *)
THEOREM TypeAlways == Spec => []TypeOK
<1>1. IInv => TypeOK
  BY DEF IInv, TypeOK, WellList, WellArea, PreparedType, CursorType, Bounds
<1> QED BY <1>1, WellAlways, PTL

(* DATA is the C type that the item has now, or memory that nothing was    *)
(* written to of a null (vsql_m_set_number, vsql_m_describe_column,        *)
(* vsql_m_get_column).                                                     *)
THEOREM DataAlways == Spec => []DataIsOfItsType
<1>1. IInv => DataIsOfItsType
  BY DEF IInv, DataIsOfItsType, WellList, WellArea, Well, Right
<1> QED BY <1>1, WellAlways, PTL

(* No EXECUTE, OPEN or GET DESCRIPTOR reads memory that was freed, that    *)
(* has no value or that was written as another C type (vsql_m_bind,        *)
(* vsql_m_get_data), but for a GET DESCRIPTOR with several targets of      *)
(* which vsql_m_get_item never compared one that doesn't match.            *)
THEOREM ReadsAlways == Spec => []ReadsAreSound
<1>1. IInv => ReadsAreSound
  BY DEF IInv, ReadsAreSound, Sound
<1> QED BY <1>1, WellAlways, PTL

(* After a FETCH or an EXECUTE the items are the row, whatever they were   *)
(* before (vsql_m_into).                                                   *)
THEOREM RowAlways == Spec => []RowIsAssigned
<1>1. IInv => RowIsAssigned
  BY DEF IInv, RowIsAssigned, RowIs, Area, Find, FindIn
<1> QED BY <1>1, WellAlways, PTL

(* A SET DESCRIPTOR that succeeds has set all components that it says, in  *)
(* whatever order they're written (descriptor_set_order).                  *)
THEOREM SetAlways == Spec => []SetTakesEffect
<1>1. ASSUME IInv
      PROVE  SetTakesEffect
  <2> SUFFICES ASSUME NEW i \in DOMAIN areas, NEW n \in DOMAIN areas[i].items,
                      NEW setting \in Settings, NEW s, s = SetItem(setting, areas[i].items[n]),
                      s.sqlstate = "00000"
               PROVE  /\ "TYPE" \in DOMAIN setting => s.item.type = setting.TYPE
                      /\ "CODE" \in DOMAIN setting => s.item.code = setting.CODE
                      /\ "INDICATOR" \in DOMAIN setting => s.item.indicator = setting.INDICATOR
                      /\ "DATA" \in DOMAIN setting => s.item.data # "undefined"
    BY DEF SetTakesEffect
  <2>1. Well(areas[i].items[n])
    BY <1>1 DEF IInv, WellList, WellArea
  <2> QED BY <2>1, SetItemIs
<1> QED BY <1>1, WellAlways, PTL

(* A call changes no area but the one that it names, in its scope          *)
(* (vsql_m_find_descriptor).                                               *)
THEOREM OnlyNamedAlways == Spec => OnlyNamedAreasChange
<1>1. ASSUME IInv, [Next]_vars
      PROVE  [\A d \in Descriptors :
                \/ d \in last'.used
                \/ Named(d, areas') = Named(d, areas)]_vars
  <2>1. Changes(last', areas, areas')
    BY <1>1, NextHolds DEF StepHolds, Holds
  <2>2. ASSUME NEW d \in Descriptors
        PROVE  d \in last'.used \/ Named(d, areas') = Named(d, areas)
    <3>1. CASE areas' = areas
      BY <3>1
    <3>2. CASE areas' # areas
      <4>1. PICK e \in Descriptors : last'.used = {e} /\ OnlyAt(e, areas, areas')
        BY <2>1, <3>2 DEF Changes
      <4> QED BY <4>1 DEF OnlyAt
    <3> QED BY <3>1, <3>2
  <2> QED BY <2>2
<1> QED BY <1>1, WellAlways, PTL DEF Spec, OnlyNamedAreasChange

(* A DESCRIBE of more columns than items sets only COUNT                   *)
(* (vsql_m_describe).                                                      *)
THEOREM OnlyCountAlways == Spec => OnlyCountIsSet
<1>1. ASSUME IInv, [Next]_vars
      PROVE  [\A d \in Descriptors :
                /\ Exists(d) /\ Exists(d)'
                /\ Area(d)'.count # Area(d).count
                /\ Area(d)'.count > Area(d).max
                => Area(d)'.items = Area(d).items]_vars
  <2>1. Changes(last', areas, areas') /\ WellList(areas) /\ WellList(areas')
    BY <1>1, NextHolds DEF StepHolds, Holds, IInv
  <2>2. ASSUME NEW d \in Descriptors, FindIn(areas, d) # 0, FindIn(areas', d) # 0
        PROVE  CountOnly(d, areas, areas')
    <3>1. CASE areas' = areas
      BY <3>1 DEF CountOnly
    <3>2. CASE areas' # areas
      <4>1. PICK e \in Descriptors : OnlyAt(e, areas, areas') /\ CountOnly(e, areas, areas')
        BY <2>1, <3>2 DEF Changes
      <4>2. CASE e = d
        BY <4>1, <4>2
      <4>3. CASE e # d
        <5>1. areas'[FindIn(areas', d)] = areas[FindIn(areas, d)]
          BY <2>1, <2>2, <4>1, <4>3, OtherIsSame
        <5> QED BY <5>1 DEF CountOnly
      <4> QED BY <4>2, <4>3
    <3> QED BY <3>1, <3>2
  <2>3. ASSUME NEW d \in Descriptors
        PROVE  /\ Exists(d) <=> FindIn(areas, d) # 0
               /\ Exists(d)' <=> FindIn(areas', d) # 0
               /\ Area(d) = areas[FindIn(areas, d)]
               /\ Area(d)' = areas'[FindIn(areas', d)]
    <3>1. Find(d) = FindIn(areas, d)
      BY DEF Find, FindIn
    <3>2. Find(d)' = FindIn(areas', d)
      BY DEF Find, FindIn, SelectInSeq
    <3> QED BY <3>1, <3>2 DEF Exists, Area
  <2>4. ASSUME NEW d \in Descriptors, Exists(d), Exists(d)',
               Area(d)'.count # Area(d).count, Area(d)'.count > Area(d).max
        PROVE  Area(d)'.items = Area(d).items
    BY <2>2, <2>3, <2>4 DEF CountOnly
  <2> QED BY <2>4
<1> QED BY <1>1, WellAlways, PTL DEF Spec, OnlyCountIsSet
=============================================================================
