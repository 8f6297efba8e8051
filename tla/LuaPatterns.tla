---------------------------- MODULE LuaPatterns ----------------------------
(***************************************************************************)
(* Pattern matching of the embedded Lua (src/lua/src/lstrlib.c): a         *)
(* recursive matcher that walks the pattern's characters, tries the rest   *)
(* of the pattern at each item, and undoes captures when that failed.      *)
(*                                                                         *)
(* A position is an index into the subject or the pattern, from 1; the     *)
(* character behind the end is "", which is the code's '\0' (no string has *)
(* one within).  ms is the MatchState: src, pat, capture (its length is    *)
(* level) and err, the first luaL_error.  A matcher returns ms and s, the  *)
(* end of the match or NULL.                                               *)
(***************************************************************************)
EXTENDS LuaOpcodes, FiniteSetsExt

CONSTANT MaxCaptures   \* LUA_MAXCAPTURES

NULL == 0
L_ESC == "%"
CAP_UNFINISHED == -1
CAP_POSITION == -2

char(str, k) == IF k \in 1..Len(str) THEN SubSeq(str, k, k) ELSE ""
CharsOf(str) == {char(str, k) : k \in 1..Len(str)}
Substring(str, from, to) == IF from <= to THEN SubSeq(str, from, to) ELSE ""

(* The characters of strings, and ctype.h in the C locale.  The grave      *)
(* accent, which TLA+ cannot write, is "\f" here.                          *)
Lower == "abcdefghijklmnopqrstuvwxyz"
Upper == "ABCDEFGHIJKLMNOPQRSTUVWXYZ"
Printed == " !\"#$%&'()*+,-./0123456789:;<=>?@" \o Upper \o "[\\]^_\f" \o Lower \o "{|}~"
Code == [c \in CharsOf(Printed) \cup {"", "\t", "\n"} |->
           IF c = "" THEN 0 ELSE IF c = "\t" THEN 9 ELSE IF c = "\n" THEN 10
           ELSE 31 + CHOOSE k \in 1..Len(Printed) : char(Printed, k) = c]
Digits == CharsOf("0123456789")
Alphas == CharsOf(Lower \o Upper)
Classes ==
  [a |-> Alphas, c |-> {"", "\t", "\n"}, d |-> Digits, l |-> CharsOf(Lower),
   p |-> CharsOf(Printed) \ (Alphas \cup Digits \cup {" "}), s |-> {" ", "\t", "\n"},
   u |-> CharsOf(Upper), w |-> Alphas \cup Digits, x |-> Digits \cup CharsOf("abcdefABCDEF"),
   z |-> {""}]
isdigit(c) == c \in Digits
tolower(c) == IF c \in Classes.u THEN char(Lower, Code[c] - 64) ELSE c
toupper(c) == IF c \in Classes.l THEN char(Upper, Code[c] - 96) ELSE c

-----------------------------------------------------------------------------
(* Single characters. *)

match_class(c, cl) ==
  IF tolower(cl) \notin DOMAIN Classes THEN cl = c
  ELSE (c \in Classes[tolower(cl)]) = (cl \in Classes.l)

(* The end of a class in the pattern: NULL if it has none.                 *)
RECURSIVE SetEnd(_, _)
SetEnd(pat, p) ==
  LET next == IF char(pat, p) = L_ESC /\ char(pat, p + 1) # "" THEN p + 2 ELSE p + 1
  IN IF char(pat, p) = "" THEN NULL
     ELSE IF char(pat, next) = "]" THEN next + 1 ELSE SetEnd(pat, next)
classend(pat, p) ==
  CASE char(pat, p) = L_ESC -> IF char(pat, p + 1) = "" THEN NULL ELSE p + 2
    [] char(pat, p) = "[" -> SetEnd(pat, IF char(pat, p + 1) = "^" THEN p + 2 ELSE p + 1)
    [] OTHER -> p + 1

RECURSIVE InSet(_, _, _, _)
InSet(c, pat, p, ec) ==
  /\ p < ec
  /\ IF char(pat, p) = L_ESC
     THEN match_class(c, char(pat, p + 1)) \/ InSet(c, pat, p + 2, ec)
     ELSE IF char(pat, p + 1) = "-" /\ p + 2 < ec
     THEN Code[c] \in Code[char(pat, p)]..Code[char(pat, p + 2)] \/ InSet(c, pat, p + 3, ec)
     ELSE char(pat, p) = c \/ InSet(c, pat, p + 1, ec)
matchbracketclass(c, pat, p, ec) ==
  IF char(pat, p + 1) = "^" THEN ~InSet(c, pat, p + 2, ec) ELSE InSet(c, pat, p + 1, ec)

singlematch(c, pat, p, ep) ==
  CASE char(pat, p) = "." -> TRUE
    [] char(pat, p) = L_ESC -> match_class(c, char(pat, p + 1))
    [] char(pat, p) = "[" -> matchbracketclass(c, pat, p, ep - 1)
    [] OTHER -> char(pat, p) = c

-----------------------------------------------------------------------------
(* Items and captures.  Or: what to try when a match failed.               *)

Ends(ms, s) == [ms |-> ms, s |-> s]
Fails(ms) == Ends(ms, NULL)
Wrong(ms) == Fails([ms EXCEPT !.err = TRUE])
Or(r, Other(_)) == IF r.s # NULL \/ r.ms.err THEN r ELSE Other(r.ms)
AtEnd(ms, s) == s = Len(ms.src) + 1

RECURSIVE match(_, _, _)

RECURSIVE Balanced(_, _, _, _)
Balanced(ms, s, p, cont) ==
  LET c == char(ms.src, s)
  IN IF c = "" THEN NULL
     ELSE IF c = char(ms.pat, p + 1) THEN (IF cont = 1 THEN s + 1 ELSE Balanced(ms, s + 1, p, cont - 1))
     ELSE Balanced(ms, s + 1, p, IF c = char(ms.pat, p) THEN cont + 1 ELSE cont)
matchbalance(ms, s, p) ==
  IF char(ms.pat, p) = "" \/ char(ms.pat, p + 1) = "" THEN Wrong(ms)
  ELSE IF char(ms.src, s) # char(ms.pat, p) THEN Fails(ms) ELSE Ends(ms, Balanced(ms, s + 1, p, 1))

RECURSIVE Shorter(_, _, _, _)
Shorter(ms, s, i, ep) ==
  IF i < 0 THEN Fails(ms) ELSE Or(match(ms, s + i, ep + 1), LAMBDA x : Shorter(x, s, i - 1, ep))
max_expand(ms, s, p, ep) ==
  LET single(k) == singlematch(char(ms.src, k), ms.pat, p, ep)
  IN Shorter(ms, s, Max({i \in 0..Len(ms.src) + 1 - s : \A k \in s..s + i - 1 : single(k)}), ep)

RECURSIVE min_expand(_, _, _, _)
min_expand(ms, s, p, ep) ==
  Or(match(ms, s, ep + 1), LAMBDA x :
     IF AtEnd(x, s) \/ ~singlematch(char(x.src, s), x.pat, p, ep) THEN Fails(x)
     ELSE min_expand(x, s + 1, p, ep))

start_capture(ms, s, p, what) ==
  IF Len(ms.capture) >= MaxCaptures THEN Wrong(ms)
  ELSE Or(match([ms EXCEPT !.capture = Append(@, [init |-> s, len |-> what])], s, p),
          LAMBDA x : Fails([x EXCEPT !.capture = SubSeq(@, 1, Len(@) - 1)]))

Unfinished(ms) == {l \in 1..Len(ms.capture) : ms.capture[l].len = CAP_UNFINISHED}
capture_to_close(ms) == Max(Unfinished(ms))
end_capture(ms, s, p) ==
  LET l == capture_to_close(ms)
  IN IF Unfinished(ms) = {} THEN Wrong(ms)
     ELSE Or(match([ms EXCEPT !.capture[l].len = s - ms.capture[l].init], s, p),
             LAMBDA x : Fails([x EXCEPT !.capture[l].len = CAP_UNFINISHED]))

(* The same text again; a position is longer than any subject.             *)
check_capture(ms, c) == Code[c] - Code["0"] \in (1..Len(ms.capture)) \ Unfinished(ms)
match_capture(ms, s, c) ==
  LET cap == ms.capture[Code[c] - Code["0"]]
      again == SubSeq(ms.src, cap.init, cap.init + cap.len - 1)
  IN IF ~check_capture(ms, c) THEN Wrong(ms)
     ELSE IF cap.len = CAP_POSITION \/ Len(ms.src) + 1 - s < cap.len THEN Fails(ms)
     ELSE IF SubSeq(ms.src, s, s + cap.len - 1) = again THEN Ends(ms, s + cap.len) ELSE Fails(ms)

Frontier(ms, s, p, ep) ==
  IF char(ms.pat, p) # "[" \/ ep = NULL THEN Wrong(ms)
  ELSE IF ~matchbracketclass(char(ms.src, s - 1), ms.pat, p, ep - 1)
          /\ matchbracketclass(char(ms.src, s), ms.pat, p, ep - 1)
  THEN Ends(ms, s) ELSE Fails(ms)

(* An item whose class ends before ep.                                     *)
Repeated(ms, s, p, ep) ==
  LET m == ~AtEnd(ms, s) /\ singlematch(char(ms.src, s), ms.pat, p, ep)
      rest(x) == match(x, s, ep + 1)
  IN CASE char(ms.pat, ep) = "?" -> (IF m THEN Or(match(ms, s + 1, ep + 1), rest) ELSE rest(ms))
       [] char(ms.pat, ep) = "*" -> max_expand(ms, s, p, ep)
       [] char(ms.pat, ep) = "+" -> (IF m THEN max_expand(ms, s + 1, p, ep) ELSE Fails(ms))
       [] char(ms.pat, ep) = "-" -> min_expand(ms, s, p, ep)
       [] OTHER -> IF m THEN match(ms, s + 1, ep) ELSE Fails(ms)

match(ms, s, p) ==
  LET c == char(ms.pat, p)
      d == char(ms.pat, p + 1)
      then(r, next) == IF r.s = NULL THEN r ELSE match(r.ms, r.s, next)
      item(ep) == IF ep = NULL THEN Wrong(ms) ELSE Repeated(ms, s, p, ep)
  IN CASE c = "(" /\ d = ")" -> start_capture(ms, s, p + 2, CAP_POSITION)
       [] c = "(" /\ d # ")" -> start_capture(ms, s, p + 1, CAP_UNFINISHED)
       [] c = ")" -> end_capture(ms, s, p + 1)
       [] c = L_ESC /\ d = "b" -> then(matchbalance(ms, s, p + 2), p + 4)
       [] c = L_ESC /\ d = "f" -> then(Frontier(ms, s, p + 2, classend(ms.pat, p + 2)), classend(ms.pat, p + 2))
       [] c = L_ESC /\ isdigit(d) -> then(match_capture(ms, s, d), p + 2)
       [] c = "" -> Ends(ms, s)
       [] c = "$" /\ d = "" -> IF AtEnd(ms, s) THEN Ends(ms, s) ELSE Fails(ms)
       [] OTHER -> item(classend(ms.pat, p))

(* A match from s, with no captures yet; the first one from s or later.    *)
anchor(pat) == char(pat, 1) = "^"
MatchFrom(src, pat, s, p) == match([src |-> src, pat |-> pat, capture |-> <<>>, err |-> FALSE], s, p)
RECURSIVE Search(_, _, _, _, _)
Search(src, pat, s, p, anchored) ==
  LET r == MatchFrom(src, pat, s, p)
  IN IF r.s # NULL \/ r.ms.err \/ anchored \/ s > Len(src) THEN [r |-> r, from |-> s]
     ELSE Search(src, pat, s + 1, p, anchored)

(* push_onecapture, of capture i from 0, and push_captures: NULL asks for  *)
(* no whole match; an error if one is not there or not finished.           *)
BadCapture(ms, i) == (i >= Len(ms.capture) /\ i # 0) \/ i + 1 \in Unfinished(ms)
push_onecapture(ms, i, s, e) ==
  IF i >= Len(ms.capture) THEN Str(Substring(ms.src, s, e - 1))
  ELSE LET cap == ms.capture[i + 1]
       IN IF cap.len = CAP_POSITION THEN Num(cap.init)
          ELSE Str(Substring(ms.src, cap.init, cap.init + cap.len - 1))
push_captures(ms, s, e) ==
  LET nlevels == IF ms.capture = <<>> /\ s # NULL THEN 1 ELSE Len(ms.capture)
  IN [j \in 1..nlevels |-> push_onecapture(ms, j - 1, s, e)]
=============================================================================
