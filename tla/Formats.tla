------------------------------ MODULE Formats ------------------------------
(* The format strings of the C API as cereja.h:176-372 describes them: how    *)
(* they are written, which C arguments go with them, and what they mean.  The *)
(* items for numbers stand for i, all pointers for u.                         *)
EXTENDS Integers, SequencesExt

CONSTANTS Absent, Untouched  \* no such value; a variable that keeps its own

\* Lua values; id tells them apart.
Value(type, id) == [type |-> type, id |-> id]
Nil == Value("nil", 0)
False == Value("boolean", 0)
True == Value("boolean", 1)
Table(fields) == [type |-> "table", fields |-> fields]
Field(t, k) == IF k \in DOMAIN t.fields THEN t.fields[k] ELSE Nil
OrderKey == <<"1", "2", "3", "4", "5", "6", "7">>

\* An item is a record of its characters and, if it is a table, of its entries; an
\* entry has no mark, or = or ?, and an item.  The keys are strings.
Concat(Op(_), s) == FlattenSeq([i \in DOMAIN s |-> Op(s[i])])

RECURSIVE TextOf(_, _)
TextOf(item, pad) ==
  IF item.chars # <<"{">> THEN item.chars
  ELSE <<"{">> \o Concat(LAMBDA e : (IF e.mark = "" THEN <<>> ELSE <<e.mark, "s">>)
                                    \o TextOf(e.item, pad) \o pad, item.entries)
       \o <<"}">>

Text(items, pad) == Concat(LAMBDA item : TextOf(item, pad) \o pad, items)

\* The C arguments of an item: pointers to variables, or values.
RECURSIVE ArgumentsOf(_)
ArgumentsOf(item) ==
  CASE item.chars = <<"{">> -> Concat(LAMBDA e :
         (IF e.mark = "" THEN <<>> ELSE << <<"key", e.key>> >>) \o ArgumentsOf(e.item), item.entries)
    [] item.chars = <<"|">> -> <<>>
    [] Len(item.chars) = 2 /\ item.chars[2] = "#" -> << <<item.chars[1]>>, <<"#">> >>
    [] OTHER -> << <<item.chars[1]>> >>

Arguments(items) == Concat(ArgumentsOf, items)

-----------------------------------------------------------------------------
(* What Crj_ParseArgs does with the Lua arguments                          *)

\* The number of the entry among those without a mark.
Order(entries, i) == Cardinality({j \in 1..i : entries[j].mark = ""})
KeyOf(entries, i) == IF entries[i].mark = "" THEN OrderKey[Order(entries, i)] ELSE entries[i].key

RECURSIVE Fits(_, _)
Fits(item, v) ==
  CASE item.chars = <<"{">> ->
         /\ v.type = "table"
         /\ \A i \in DOMAIN item.entries : item.entries[i].item.chars[1] \notin {"O", "|"}
         /\ \A i \in DOMAIN item.entries :
              LET x == Field(v, KeyOf(item.entries, i))
              IN  IF x = Nil /\ item.entries[i].mark # "" THEN item.entries[i].mark = "?"
                                                          ELSE Fits(item.entries[i].item, x)
    [] item.chars[1] = "i" -> v.type = "number"
    [] item.chars[1] = "s" -> v.type = "string"
    [] item.chars[1] = "z" -> v.type = "string" \/ v \in {Nil, False}
    [] item.chars[1] = "Q" -> v.type = "boolean"
    [] item.chars[1] = "u" -> v.type = "light userdata"
    [] item.chars = <<"O", "/", "t">> -> v.type = "table"
    [] OTHER -> TRUE

NULL == Value("null", 0)
Length(v) == Value("length", v.id)

\* What the variables of an item are then.
RECURSIVE Meaning(_, _, _)
Meaning(item, v, index) ==
  CASE item.chars = <<"{">> -> FlattenSeq([i \in DOMAIN item.entries |->
         LET e == item.entries[i]
             x == Field(v, KeyOf(item.entries, i))
         IN  (IF e.mark = "" THEN <<>> ELSE <<Untouched>>)
             \o IF x = Nil /\ e.mark = "?" THEN [k \in DOMAIN ArgumentsOf(e.item) |-> Untouched]
                ELSE Meaning(e.item, x, index)])
    [] item.chars[1] = "O" -> <<Value("index", index)>>
    [] item.chars[1] = "z" /\ v \in {Nil, False} -> IF Len(item.chars) = 2 THEN <<NULL, Value("length", 0)>> ELSE <<NULL>>
    [] Len(item.chars) = 2 -> <<v, Length(v)>>
    [] OTHER -> <<v>>

\* The items that take a parameter, and how many of them are not optional.
Parameters(items) == SelectSeq(items, LAMBDA item : item.chars # <<"|">>)
Bars(items) == {i \in DOMAIN items : items[i].chars = <<"|">>}
Required(items) == IF Bars(items) = {} THEN Len(items) ELSE Min(Bars(items)) - 1

Accepted(items, args) ==
  /\ Len(args) \in Required(items)..Len(Parameters(items))
  /\ \A i \in DOMAIN args : Fits(Parameters(items)[i], args[i])

Variables(items, args) ==
  LET p == Parameters(items)
  IN  FlattenSeq([i \in DOMAIN p |-> IF i \in DOMAIN args THEN Meaning(p[i], args[i], i)
                                     ELSE [k \in DOMAIN ArgumentsOf(p[i]) |-> Untouched]])

-----------------------------------------------------------------------------
(* What Crj_BuildValues makes of C arguments: the nth is Passed(n).        *)

\* The BOOLs that are passed are TRUE at odd positions.
Boolean(n) == IF n % 2 = 1 THEN True ELSE False

\* Each item with the position of its first argument.
RECURSIVE Built(_, _)
Built(item, n) ==
  IF item.chars = <<"Q">> THEN Boolean(n)
  ELSE IF item.chars # <<"{">> THEN Value(CASE item.chars[1] = "i" -> "number"
                                            [] item.chars[1] = "s" -> "string"
                                            [] item.chars[1] = "u" -> "light userdata", n)
  ELSE LET e == item.entries
           At(i) == n + Len(Concat(LAMBDA x : ArgumentsOf([chars |-> <<"{">>, entries |-> <<x>>]),
                                   SubSeq(e, 1, i - 1)))
           from(k) == CHOOSE i \in DOMAIN e : KeyOf(e, i) = k
       IN  Table([k \in {KeyOf(e, i) : i \in DOMAIN e} |->
                    Built(e[from(k)].item, At(from(k)) + IF e[from(k)].mark = "" THEN 0 ELSE 1)])

Values(items) ==
  [i \in DOMAIN items |-> Built(items[i], 1 + Len(Arguments(SubSeq(items, 1, i - 1))))]

=============================================================================
