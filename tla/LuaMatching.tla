---------------------------- MODULE LuaMatching ----------------------------
(***************************************************************************)
(* What a pattern matches, from the reference manual that comes with the   *)
(* source (src/lua/doc/manual.html, section 5.4.1), over the patterns'     *)
(* trees.  A pattern is a sequence of items; where an item can match in    *)
(* several ways, the manual says which is preferred.  So an item has a     *)
(* list of outcomes in order of preference, each with the captures made,   *)
(* and a match is the first outcome of the whole sequence.                 *)
(*                                                                         *)
(* A class is <<"char", c>>, <<"any">>, <<"class", l>>, <<"range", a, b>>, *)
(* <<"set", classes>> or <<"not", class>>; an item is <<how often,         *)
(* class>>, a capture <<"()", n, items>>, a position <<"at", n>>, a        *)
(* repeated capture <<"same", n>>, <<"balanced", x, y>> or <<"end">>.      *)
(***************************************************************************)
EXTENDS LuaOpcodes, FiniteSetsExt, SequencesExt, TLC

CONSTANTS
    PatternOf,   \* the tree of each pattern: ok, anchored, items
    Characters   \* of each character: its code, the other case, its classes

CharAt(src, k) == SubSeq(src, k, k)
Cut(src, from, to) == IF from <= to THEN SubSeq(src, from, to) ELSE ""
Begins(src, text, s) == s + Len(text) - 1 <= Len(src) /\ Cut(src, s, s + Len(text) - 1) = text
Least(S) == CHOOSE x \in S : \A y \in S : x <= y

RECURSIVE Represents(_, _)
Represents(class, c) ==
  CASE class[1] = "char" -> c = class[2]
    [] class[1] = "any" -> TRUE
    [] class[1] = "class" -> class[2] \in Characters[c].classes
    [] class[1] = "range" -> Characters[c].code \in Characters[class[2]].code..Characters[class[3]].code
    [] class[1] = "set" -> \E j \in 1..Len(class[2]) : Represents(class[2][j], c)
    [] class[1] = "not" -> ~Represents(class[2], c)

(* How many characters an item takes, of up to k that it could.            *)
Times(how, k) ==
  CASE how = "one" -> (IF k > 0 THEN <<1>> ELSE <<>>)
    [] how = "?" -> (IF k > 0 THEN <<1, 0>> ELSE <<0>>)
    [] how = "*" -> [j \in 1..k + 1 |-> k + 1 - j]
    [] how = "+" -> [j \in 1..k |-> k + 1 - j]
    [] how = "-" -> [j \in 1..k + 1 |-> j - 1]
Repetitions(src, s, class) ==
  LET others == {k \in s..Len(src) : ~Represents(class, CharAt(src, k))} \cup {Len(src) + 1}
  IN Least(others) - s

(* Where the text balanced in x and y that starts at s ends.               *)
Closing(src, s, x, y) ==
  LET count(c, e) == Cardinality({k \in s..e : CharAt(src, k) = c})
      ends == {e \in s..Len(src) : count(x, e) = count(y, e)}
  IN IF CharAt(src, s) # x \/ ends = {} THEN <<>> ELSE <<Least(ends) + 1>>

RECURSIVE Outcomes(_, _, _, _)
OfItem(item, src, s, caps) ==
  LET to(e, c) == <<[to |-> e, caps |-> c]>>
      times == Times(item[1], Repetitions(src, s, item[2]))
      inner == Outcomes(item[3], src, s, caps)
      close == Closing(src, s, item[2], item[3])
      text == caps[item[2]][2]
  IN CASE item[1] = "()" ->
            [j \in 1..Len(inner) |->
               [inner[j] EXCEPT !.caps = (item[2] :> Str(Cut(src, s, inner[j].to - 1))) @@ @]]
       [] item[1] = "at" -> to(s, (item[2] :> Num(s)) @@ caps)
       [] item[1] = "same" -> IF Begins(src, text, s) THEN to(s + Len(text), caps) ELSE <<>>
       [] item[1] = "balanced" -> IF s > Len(src) \/ close = <<>> THEN <<>> ELSE to(close[1], caps)
       [] item[1] = "end" -> IF s = Len(src) + 1 THEN to(s, caps) ELSE <<>>
       [] OTHER -> [j \in 1..Len(times) |-> [to |-> s + times[j], caps |-> caps]]
Outcomes(items, src, s, caps) ==
  IF items = <<>> THEN <<[to |-> s, caps |-> caps]>>
  ELSE LET first == OfItem(items[1], src, s, caps)
       IN FlattenSeq([j \in 1..Len(first) |-> Outcomes(Tail(items), src, first[j].to, first[j].caps)])

(* The first match from s or later, if there is one, as [from, to, caps].  *)
FirstMatch(src, pattern, s) ==
  LET at(k) == Outcomes(pattern.items, src, k, <<>>)
      where == {k \in s..(IF pattern.anchored THEN s ELSE Len(src) + 1) : at(k) # <<>>}
  IN IF where = {} THEN <<>>
     ELSE LET r == at(Least(where))[1]
          IN <<[from |-> Least(where), to |-> r.to,
                caps |-> [n \in 1..Cardinality(DOMAIN r.caps) |-> r.caps[n]]]>>

(* One match after the other; after an empty one, at least a character on. *)
RECURSIVE MatchesFrom(_, _, _)
MatchesFrom(src, pattern, s) ==
  LET r == FirstMatch(src, pattern, s)
      next == IF r[1].to = r[1].from THEN r[1].to + 1 ELSE r[1].to
  IN IF s > Len(src) + 1 \/ r = <<>> THEN <<>>
     ELSE IF pattern.anchored THEN r ELSE r \o MatchesFrom(src, pattern, next)

Whole(src, r) == Str(Cut(src, r.from, r.to - 1))
Captured(src, r) == IF r.caps = <<>> THEN <<Whole(src, r)>> ELSE r.caps
=============================================================================
