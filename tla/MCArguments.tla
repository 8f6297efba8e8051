---------------------------- MODULE MCArguments ----------------------------
(* Two parameters, optional or not, or a table of up to two entries, which may *)
(* be tables again; arguments that fit, that do not, too few and too many.     *)
EXTENDS Arguments

Item(chars) == [chars |-> chars]
TableOf(entries) == [chars |-> <<"{">>, entries |-> entries]
bar == Item(<<"|">>)
i == Item(<<"i">>)
length == Item(<<"s", "#">>)
Simple == {i, length} \cup {Item(<<c>>) : c \in {"s", "z", "Q", "u", "O"}}
          \cup {Item(<<"z", "#">>), Item(<<"O", "/", "t">>)}

\* Entries of these items; the keys are different.
Entries(S, key) == [mark : {"", "=", "?"}, key : {key}, item : S]
TablesOf(S) == {TableOf(<<>>)} \cup {TableOf(<<e>>) : e \in Entries(S, "a")}
TablesOfTwo(S) == {TableOf(<<e, f>>) : e \in Entries(S, "a"), f \in Entries(S, "b")}

Tables == TablesOfTwo({i, length}) \cup TablesOf({Item(<<"O">>), Item(<<"z">>), Item(<<"Q">>), bar})
          \cup TablesOf(TablesOf(TablesOf({i})))
          \cup TablesOfTwo({i} \cup TablesOf({i}))

MCFormat == {<<p>> : p \in Simple \cup Tables} \cup {<<p, q>> : p, q \in Simple}
            \cup {<<bar, p, q>> : p, q \in Simple} \cup {<<p, bar, q>> : p, q \in Simple}
            \cup {<<t, i>> : t \in Tables} \cup {<<bar, t>> : t \in Tables}
            \cup {<<t, i, length>> : t \in TablesOf({i, length})}
            \cup {<<t, length>> : t \in TablesOf({i})}

\* A value that fits, others, and none; ids tell apart the places they are at.
RECURSIVE Sample(_, _)
Sample(item, id) ==
  CASE item.chars = <<"{">> ->
         {Value("number", id), Nil} \cup
         LET e == item.entries
             Inner(n) == Sample(e[n].item, 10 * id + n)
             Fields(f) == {n \in DOMAIN e : f[n] # Nil}
         IN  {Table([k \in {KeyOf(e, n) : n \in Fields(f)} |->
                       f[CHOOSE n \in Fields(f) : KeyOf(e, n) = k]]) :
                f \in {g \in [DOMAIN e -> UNION {Inner(n) : n \in DOMAIN e}] :
                         \A n \in DOMAIN e : g[n] \in Inner(n)}}
    [] item.chars[1] = "i" -> {Value("number", id), Value("string", id), Nil}
    [] item.chars[1] = "s" -> {Value("string", id), Value("number", id), Nil}
    [] item.chars[1] = "z" -> {Value("string", id), Value("number", id), True, False, Nil}
    [] item.chars[1] = "Q" -> {True, False, Value("number", id), Nil}
    [] item.chars[1] = "u" -> {Value("light userdata", id), Nil}
    [] OTHER -> {Value("number", id), Table(<<>>)}

MCCandidates(items_) ==
  LET p == Parameters(items_)
  IN  {<<>>} \cup {<<a>> : a \in Sample(p[1], 1)}
      \cup (IF Len(p) = 1 THEN {<<a, Value("number", 2)>> : a \in Sample(p[1], 1)}
             ELSE {<<a, b>> : a \in Sample(p[1], 1), b \in Sample(p[2], 2)}
                  \cup {<<a, b, Value("string", 3)>> : a \in Sample(p[1], 1), b \in Sample(p[2], 2)})

=============================================================================
