----------------------------- MODULE Arguments -----------------------------
(* Crj_ParseArgs, Crj_ParseTable and Crj_BuildValues (src/api.c:41-586): two   *)
(* interpreters that walk a format string together with the C arguments of the *)
(* call; nothing but the format says how many there are and which is which.    *)
EXTENDS Formats

CONSTANTS
  Format,       \* formats: sequences of items
  Candidates(_) \* the Lua arguments to parse with a format

VARIABLES
  items, text,  \* the format, and how it is written
  mode,         \* "parse", "parse table", or "build" and then "parse again"
  args,         \* the Lua arguments, or the values built so far
  pos, va,      \* the next character and the next C argument
  arg_index, optionalp,
  frames,       \* the tables in progress, the innermost last
  variables,    \* what the C variables hold that are passed to Crj_ParseArgs
  result

vars == <<items, text, mode, args, pos, va, arg_index, optionalp, frames, variables, result>>
format == <<items, text>>

Passed == Arguments(items)
Buildable == \A p \in DOMAIN text : text[p] \notin {"z", "O", "|", "?"}
\* Formats that lack the last bracket.
Unterminated == text \o <<"}">> = Text(items, <<>>)

Char(p) == IF p \in DOMAIN text THEN text[p] ELSE "end"

Init ==
  /\ items \in Format
  /\ text \in {Text(items, <<>>), Text(items, <<" ">>), Front(Text(items, <<>>))}
  /\ Len(text) < Len(Text(items, <<>>)) => Unterminated
  /\ \/ mode = "parse" /\ args \in Candidates(items)
     \/ mode = "parse table" /\ Char(1) = "{" /\ args \in {a \in Candidates(items) : Len(a) = 1}
     \/ mode = "build" /\ Buildable /\ args = <<>>
  /\ pos = 1 /\ va = 1 /\ arg_index = 1
  /\ optionalp = FALSE
  /\ frames = <<>>
  /\ variables = [n \in DOMAIN Passed |-> Untouched]
  /\ result = "none"

-----------------------------------------------------------------------------
\* STRSKIP
here == Min({p \in pos..Len(text) + 1 : Char(p) # " "})

Return(r) ==
  /\ result' = r
  /\ UNCHANGED <<format, mode, args, pos, va, arg_index, optionalp, frames, variables>>

\* An item, how long it is, and which C arguments it takes.
Long(p) == Char(p) \in {"s", "z"} /\ Char(p + 1) = "#"
Typed(p) == Char(p) = "O" /\ Char(p + 1) = "/"
Behind(p) == p + 1 + (IF Long(p) THEN 1 ELSE 0) + (IF Typed(p) THEN 2 ELSE 0)
Kinds(p) == IF Long(p) THEN << <<Char(p)>>, <<"#">> >> ELSE << <<Char(p)>> >>

\* Has the caller passed these at n?  If not, what happens is undefined.
PassedAt(n, kinds) == \A k \in DOMAIN kinds : n + k - 1 \in DOMAIN Passed /\ Passed[n + k - 1] = kinds[k]

-----------------------------------------------------------------------------
(* Crj_ParseArgs and, for a single table, Crj_ParseTable                   *)

Parsing == mode # "build" /\ result = "none"

\* A frame of parse_table: the table, the order of its next value without a key,
\* and whether the table is itself a value without a key.
Frame(t, plain) == [table |-> t, order |-> 1, plain |-> plain]

\* An item is done: the next parameter or the next value follows.
Done(fs, plain) ==
  /\ frames' = IF fs = <<>> \/ ~plain THEN fs ELSE [fs EXCEPT ![Len(fs)].order = @ + 1]
  /\ arg_index' = IF fs = <<>> THEN arg_index + 1 ELSE arg_index

toboolean(v) == v \notin {Nil, False}

Accepts(p, v) ==
  CASE Char(p) = "i" -> v.type = "number"
    [] Char(p) = "s" -> v.type = "string"
    [] Char(p) = "z" -> v.type \in {"string", "number"} \/ ~toboolean(v)
    [] Char(p) = "Q" -> TRUE
    [] Char(p) = "u" -> v.type = "light userdata"
    [] Char(p) = "O" -> frames = <<>> /\ (Typed(p) => Char(p + 2) = "t" /\ v.type = "table")
    [] OTHER -> FALSE

\* lua_tolstring makes a string of a number.
Converted(p, v) ==
  LET x == CASE Char(p) = "O" -> Value("index", arg_index)
             [] Char(p) = "Q" -> IF toboolean(v) THEN True ELSE False
             [] Char(p) = "z" /\ ~toboolean(v) -> NULL
             [] Char(p) = "z" /\ v.type = "number" -> Value("string", v.id)
             [] OTHER -> v
  IN  IF Long(p) THEN <<x, IF x = NULL THEN Value("length", 0) ELSE Length(v)>> ELSE <<x>>

\* parse_item at p for the value v, which begins with C argument n.
parse_item(p, v, n, plain) ==
  \/ /\ Accepts(p, v)
     /\ PassedAt(n, Kinds(p))
     /\ variables' = [k \in DOMAIN Passed |-> IF k \in n..n + Len(Kinds(p)) - 1
                                              THEN Converted(p, v)[k - n + 1] ELSE variables[k]]
     /\ va' = n + Len(Kinds(p))
     /\ pos' = Behind(p)
     /\ Done(frames, plain)
     /\ UNCHANGED <<format, mode, args, optionalp, result>>
  \/ /\ Accepts(p, v)
     /\ ~PassedAt(n, Kinds(p))
     /\ Return("undefined")
  \/ /\ Char(p) = "{"
     /\ v.type = "table"
     /\ frames' = Append(frames, Frame(v, plain))
     /\ va' = n
     /\ pos' = p + 1
     /\ UNCHANGED <<format, mode, args, arg_index, optionalp, variables, result>>
  \/ /\ ~Accepts(p, v)
     /\ Char(p) # "|" \/ frames # <<>>
     /\ ~(Char(p) = "{" /\ v.type = "table")
     /\ Return("error")

Parameter ==
  /\ Parsing
  /\ frames = <<>>
  /\ arg_index <= Len(args)
  /\ parse_item(here, args[arg_index], va, TRUE)

\* L_RETRY
Bar ==
  /\ Parsing
  /\ frames = <<>>
  /\ arg_index <= Len(args)
  /\ Char(here) = "|"
  /\ optionalp' = TRUE
  /\ pos' = here + 1
  /\ UNCHANGED <<format, mode, args, va, arg_index, frames, variables, result>>

ParametersEnd ==
  /\ Parsing
  /\ frames = <<>>
  /\ arg_index > Len(args)
  /\ mode # "parse table"
  /\ Return(IF Char(here) \in {"end", "|"} \/ optionalp THEN "ok" ELSE "error")

\* The end of Crj_ParseTable.
TableParsed ==
  /\ Parsing
  /\ frames = <<>>
  /\ arg_index > Len(args)
  /\ mode = "parse table"
  /\ Return(IF Char(here) = "end" THEN "ok" ELSE "error")

table == Last(frames).table

PlainEntry ==
  /\ Parsing
  /\ frames # <<>>
  /\ Char(here) \notin {"end", "}", "=", "?"}
  /\ parse_item(here, Field(table, OrderKey[Last(frames).order]), va, TRUE)

UnterminatedTable ==
  /\ Parsing
  /\ frames # <<>>
  /\ Char(here) = "end"
  /\ Return("error")

\* Mutant: the table counts as a value without a key even if it has one.
TableEndsCounted ==
  /\ Parsing
  /\ frames # <<>>
  /\ Char(here) = "}"
  /\ pos' = here + 1
  /\ Done(Front(frames), TRUE)
  /\ UNCHANGED <<format, mode, args, va, optionalp, variables, result>>

TableEnds ==
  /\ Parsing
  /\ frames # <<>>
  /\ Char(here) = "}"
  /\ pos' = here + 1
  /\ Done(Front(frames), Last(frames).plain)
  /\ UNCHANGED <<format, mode, args, va, optionalp, variables, result>>

\* skip_item: what is behind the item at p, and how many C arguments it takes; for a
\* table it looks for the bracket that closes it, and takes none.
Level(p, q) == Cardinality({r \in p..q : Char(r) = "{"}) - Cardinality({r \in p..q : Char(r) = "}"})
Closing(p) == {q \in p..Len(text) : Level(p, q) = 0}

skip_item(p) ==
  CASE Char(p) \in {"i", "s", "z", "Q", "u"} -> [pos |-> Behind(p), taken |-> Len(Kinds(p))]
    [] Char(p) = "{" /\ Closing(p) # {} -> [pos |-> Min(Closing(p)) + 1, taken |-> 0]
    [] OTHER -> [pos |-> p, taken |-> 0]

Key == Passed[va][2]

KeyedEntry ==
  /\ Parsing
  /\ frames # <<>>
  /\ Char(here) \in {"=", "?"}
  /\ va \in DOMAIN Passed
  /\ Passed[va][1] = "key"
  /\ LET v == Field(table, Key)
     IN  \/ /\ v # Nil
            /\ parse_item(here + 2, v, va + 1, FALSE)
         \/ /\ v = Nil
            /\ Char(here) = "="
            /\ Return("error")
         \/ /\ v = Nil
            /\ Char(here) = "?"
            /\ pos' = skip_item(here + 2).pos
            /\ va' = va + 1 + skip_item(here + 2).taken
            /\ UNCHANGED <<format, mode, args, arg_index, optionalp, frames, variables, result>>

KeyUnknown ==
  /\ Parsing
  /\ frames # <<>>
  /\ Char(here) \in {"=", "?"}
  /\ ~(va \in DOMAIN Passed /\ Passed[va][1] = "key")
  /\ Return("undefined")

-----------------------------------------------------------------------------
(* Crj_BuildValues                                                         *)

Building == mode = "build" /\ result = "none"

\* A frame of build_a_value: the table, the order of its next value, and what comes
\* next: an entry, the key of one, or the value of that key.
New == [fields |-> <<>>, order |-> 1, next |-> "entry", key |-> Absent]
With(t, k, v) == [j \in DOMAIN t \cup {k} |-> IF j = k THEN v ELSE t[j]]

\* Mutant: a value with a key counts as well.
IntoCounted(f, v) ==
  CASE f.next = "entry" -> [f EXCEPT !.fields = With(@, OrderKey[f.order], v), !.order = @ + 1]
    [] f.next = "key" -> [f EXCEPT !.key = v.id, !.next = "value"]
    [] f.next = "value" -> [f EXCEPT !.fields = With(@, f.key, v), !.next = "entry", !.order = @ + 1]

Into(f, v) ==
  CASE f.next = "entry" -> [f EXCEPT !.fields = With(@, OrderKey[f.order], v), !.order = @ + 1]
    [] f.next = "key" -> [f EXCEPT !.key = v.id, !.next = "value"]
    [] f.next = "value" -> [f EXCEPT !.fields = With(@, f.key, v), !.next = "entry"]

\* A value is built: it goes to the innermost of the tables, or is returned.
Push(fs, v) ==
  IF fs = <<>> THEN args' = Append(args, v) /\ frames' = fs
  ELSE frames' = [fs EXCEPT ![Len(fs)] = Into(@, v)] /\ UNCHANGED args

\* An error in a table within a table meets assert(FALSE); in the value of a key it
\* does not.
Fails(fs) ==
  Return(IF \A f \in {fs[k] : k \in 1..Len(fs) - 1} : f.next # "entry" THEN "error" ELSE "undefined")

\* The C arguments again, as Lua values.
Given(n) ==
  LET type == [i |-> "number", s |-> "string", u |-> "light userdata"]
  IN  CASE Passed[n][1] = "key" -> Value("string", Passed[n][2])
        [] Passed[n][1] = "Q" -> Boolean(n)
        [] OTHER -> Value(type[Passed[n][1]], n)

\* For Crj_BuildValues a key is passed like any string.
Builds(p) == Char(p) \in {"i", "s", "Q", "u"}
GivenAt(n, p) == \/ PassedAt(n, Kinds(p))
                 \/ Char(p) = "s" /\ ~Long(p) /\ n \in DOMAIN Passed /\ Passed[n][1] = "key"

BuildItem ==
  /\ Building
  /\ Builds(here)
  /\ GivenAt(va, here)
  /\ Push(frames, Given(va))
  /\ va' = va + Len(Kinds(here))
  /\ pos' = Behind(here)
  /\ UNCHANGED <<format, mode, arg_index, optionalp, variables, result>>

BuildMismatch ==
  /\ Building
  /\ Builds(here)
  /\ ~GivenAt(va, here)
  /\ Return("undefined")

BuildPrefix ==
  /\ Building
  /\ Char(here) = "="
  /\ frames # <<>>
  /\ Last(frames).next = "entry"
  /\ frames' = [frames EXCEPT ![Len(frames)].next = "key"]
  /\ pos' = here + 1
  /\ UNCHANGED <<format, mode, args, va, arg_index, optionalp, variables, result>>

BuildTable ==
  /\ Building
  /\ Char(here) = "{"
  /\ frames' = Append(frames, New)
  /\ pos' = here + 1
  /\ UNCHANGED <<format, mode, args, va, arg_index, optionalp, variables, result>>

\* The character behind the bracket is left out; if there is none, the format has
\* ended, also for the table around.
BuildTableEnds ==
  /\ Building
  /\ Char(here) = "}"
  /\ frames # <<>>
  /\ Last(frames).next = "entry"
  /\ Char(here + 1) = "end" => Len(frames) = 1
  /\ Push(Front(frames), Table(Last(frames).fields))
  /\ pos' = IF Char(here + 1) = "end" THEN here + 1 ELSE here + 2
  /\ UNCHANGED <<format, mode, va, arg_index, optionalp, variables, result>>

\* Then what was built is parsed with the same format.
BuildEnds ==
  /\ Building
  /\ frames = <<>>
  /\ Char(here) = "end"
  /\ mode' = "parse again"
  /\ pos' = 1
  /\ va' = 1
  /\ UNCHANGED <<format, args, arg_index, optionalp, frames, variables, result>>

BuildFails ==
  /\ Building
  /\ \/ Char(here) = "end" /\ frames # <<>> /\ Fails(frames)
     \/ /\ Char(here) = "}" /\ Char(here + 1) = "end"
        /\ Len(frames) > 1
        /\ Last(frames).next = "entry"
        /\ Fails(Front(frames))
     \/ /\ Char(here) \in {"}", "="}
        /\ frames = <<>> \/ Last(frames).next # "entry"
        /\ Fails(frames)

\* As an entry a character that is no item meets assert(FALSE) at once.
BuildUnknown ==
  /\ Building
  /\ ~Builds(here)
  /\ Char(here) \notin {"end", "{", "}", "="}
  /\ IF frames # <<>> /\ Last(frames).next = "entry" THEN Return("undefined") ELSE Fails(frames)

-----------------------------------------------------------------------------

Returned == result # "none" /\ UNCHANGED vars

Next ==
  \/ Parameter \/ Bar \/ ParametersEnd \/ TableParsed
  \/ PlainEntry \/ KeyedEntry \/ KeyUnknown \/ TableEnds \/ UnterminatedTable
  \/ BuildItem \/ BuildMismatch \/ BuildPrefix \/ BuildTable \/ BuildTableEnds
  \/ BuildEnds \/ BuildFails \/ BuildUnknown
  \/ Returned

Spec == Init /\ [][Next]_vars

-----------------------------------------------------------------------------
(* Properties                                                              *)

\* A table that is optional within another one is left out.
RECURSIVE LeavesTableOut(_, _)
LeavesTableOut(item, v) ==
  /\ item.chars = <<"{">>
  /\ v.type = "table"
  /\ \E i \in DOMAIN item.entries :
       LET e == item.entries[i]
           x == Field(v, KeyOf(item.entries, i))
       IN  \/ e.mark = "?" /\ x = Nil /\ ArgumentsOf(e.item) # <<>> /\ e.item.chars = <<"{">>
           \/ LeavesTableOut(e.item, x)

Skipping == \E i \in DOMAIN args : /\ i \in DOMAIN Parameters(items)
                                  /\ LeavesTableOut(Parameters(items)[i], args[i])

\* Where the code takes more than is documented: Q takes any value for its truth,
\* and z a number for a string.  The value as it is taken; the keys of a table's
\* entries are different, and a value without a key may be missing.
RECURSIVE Taken(_, _)
Taken(item, v) ==
  CASE item.chars = <<"{">> /\ v.type = "table" ->
         LET e == item.entries
             missing == {i \in DOMAIN e : e[i].mark = "" /\ e[i].item.chars = <<"Q">>}
             Entry(k) == CHOOSE i \in DOMAIN e : KeyOf(e, i) = k
         IN  Table([k \in DOMAIN v.fields \cup {KeyOf(e, i) : i \in missing} |->
                      Taken(e[Entry(k)].item, Field(v, k))])
    [] item.chars = <<"Q">> -> IF v \in {Nil, False} THEN False ELSE True
    [] item.chars[1] = "z" /\ v.type = "number" -> Value("string", v.id)
    [] OTHER -> v

taken == [i \in DOMAIN args |-> IF i \in DOMAIN Parameters(items)
                                THEN Taken(Parameters(items)[i], args[i]) ELSE args[i]]

\* An unterminated table is an error if its turn comes.
Correct ==
  /\ Accepted(items, taken)
  /\ Unterminated => Len(args) < Len(Parameters(items))
  /\ mode = "parse table" => Len(items) = 1

\* Crj_ParseArgs returns for the arguments that cereja.h:176-285 describes, and leaves
\* in each variable what is described there, untouched where something optional is
\* left out; it raises an error for all other arguments (api.c:83-392).  So does
\* Crj_ParseTable, for a format that is one table.  Two kinds of values that are not
\* as described it does not reject (Taken): a Q that is no boolean and a z that is a
\* number (against cereja.h:217 and 222); what it makes of them is said.  A table left
\* out of a table is excepted: skip_item does not skip its C arguments (api.c:230).
ParsedAsDocumented ==
  mode \in {"parse", "parse table"} /\ ~Skipping =>
    CASE result = "none" -> TRUE
      [] result = "ok" -> Correct /\ variables = Variables(items, taken)
      [] result = "error" -> ~Correct
      [] result = "undefined" -> FALSE

\* The brackets that end a table are followed by a space or by nothing.
Separated == \A p \in DOMAIN text : text[p] = "}" => Char(p + 1) \in {" ", "end"}

\* Crj_BuildValues builds what cereja.h:295-372 describes (api.c:431-586), and
\* Crj_ParseArgs of that with the same format gives the same C values back; unless a
\* table is followed at once by another character, which is lost (api.c:560).
SameAgain(n) ==
  CASE Passed[n][1] = "key" -> variables[n] = Untouched
    [] Passed[n][1] = "#" -> variables[n] = Length(Given(n - 1))
    [] OTHER -> variables[n] = Given(n)

RoundTrip ==
  mode \in {"build", "parse again"} /\ Separated /\ ~Unterminated =>
    /\ result \in {"none", "ok"}
    /\ mode = "parse again" => args = Values(items)
    /\ result = "ok" => \A n \in DOMAIN Passed : SameAgain(n)

=============================================================================
