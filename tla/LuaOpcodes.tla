---------------------------- MODULE LuaOpcodes ----------------------------
(***************************************************************************)
(* The virtual-machine instructions of the Lua 5.1.1 that cereja embeds    *)
(* (src/lua/src/lopcodes.h, lopcodes.c) and the Lua values they work on    *)
(* (lobject.h).  An instruction is a record instead of a 32-bit word: its  *)
(* fields are set and read under the macros' names, and what the words     *)
(* cannot tell apart (Bx is B and C together, sBx is Bx less its excess)   *)
(* is one field, b.                                                        *)
(***************************************************************************)
EXTENDS Integers, Sequences

CONSTANTS
    MaxIndexRK,     \* MAXINDEXRK: the last constant an RK operand can name
    FieldsPerFlush  \* LFIELDS_PER_FLUSH: list items per OP_SETLIST

ASSUME OperandLimits == MaxIndexRK \in Nat /\ FieldsPerFlush \in Nat \ {0}

(* The bit that marks an operand as a constant, and its three macros.      *)
BITRK == 256
ISK(x) == x >= BITRK
INDEXK(x) == x - BITRK
RKASK(x) == x + BITRK

MAXARG_A == 255
MAXARG_C == 511
NO_REG == MAXARG_A

CREATE_ABC(o, a, b, c) == [op |-> o, a |-> a, b |-> b, c |-> c]

Row(t, a, b, c, m) == [t |-> t, a |-> a, b |-> b, c |-> c, mode |-> m]

(* luaP_opmodes: is the instruction a test, does it set register A, what   *)
(* are its operands B and C (N unused, U used, R register or jump, K       *)
(* constant or register), and its format.                                  *)
luaP_opmodes ==
  [ MOVE     |-> Row(FALSE, TRUE,  "R", "N", "ABC"),
    LOADK    |-> Row(FALSE, TRUE,  "K", "N", "ABx"),
    LOADBOOL |-> Row(FALSE, TRUE,  "U", "U", "ABC"),
    LOADNIL  |-> Row(FALSE, TRUE,  "R", "N", "ABC"),
    GETUPVAL |-> Row(FALSE, TRUE,  "U", "N", "ABC"),
    GETGLOBAL |-> Row(FALSE, TRUE, "K", "N", "ABx"),
    GETTABLE |-> Row(FALSE, TRUE,  "R", "K", "ABC"),
    SETGLOBAL |-> Row(FALSE, FALSE, "K", "N", "ABx"),
    SETUPVAL |-> Row(FALSE, FALSE, "U", "N", "ABC"),
    SETTABLE |-> Row(FALSE, FALSE, "K", "K", "ABC"),
    NEWTABLE |-> Row(FALSE, TRUE,  "U", "U", "ABC"),
    SELF     |-> Row(FALSE, TRUE,  "R", "K", "ABC"),
    ADD      |-> Row(FALSE, TRUE,  "K", "K", "ABC"),
    SUB      |-> Row(FALSE, TRUE,  "K", "K", "ABC"),
    MUL      |-> Row(FALSE, TRUE,  "K", "K", "ABC"),
    DIV      |-> Row(FALSE, TRUE,  "K", "K", "ABC"),
    MOD      |-> Row(FALSE, TRUE,  "K", "K", "ABC"),
    POW      |-> Row(FALSE, TRUE,  "K", "K", "ABC"),
    UNM      |-> Row(FALSE, TRUE,  "R", "N", "ABC"),
    NOT      |-> Row(FALSE, TRUE,  "R", "N", "ABC"),
    LEN      |-> Row(FALSE, TRUE,  "R", "N", "ABC"),
    CONCAT   |-> Row(FALSE, TRUE,  "R", "R", "ABC"),
    JMP      |-> Row(FALSE, FALSE, "R", "N", "AsBx"),
    EQ       |-> Row(TRUE,  FALSE, "K", "K", "ABC"),
    LT       |-> Row(TRUE,  FALSE, "K", "K", "ABC"),
    LE       |-> Row(TRUE,  FALSE, "K", "K", "ABC"),
    TEST     |-> Row(TRUE,  TRUE,  "R", "U", "ABC"),
    TESTSET  |-> Row(TRUE,  TRUE,  "R", "U", "ABC"),
    CALL     |-> Row(FALSE, TRUE,  "U", "U", "ABC"),
    TAILCALL |-> Row(FALSE, TRUE,  "U", "U", "ABC"),
    RETURN   |-> Row(FALSE, FALSE, "U", "N", "ABC"),
    FORLOOP  |-> Row(FALSE, TRUE,  "R", "N", "AsBx"),
    FORPREP  |-> Row(FALSE, TRUE,  "R", "N", "AsBx"),
    TFORLOOP |-> Row(TRUE,  FALSE, "N", "U", "ABC"),
    SETLIST  |-> Row(FALSE, FALSE, "U", "U", "ABC"),
    CLOSE    |-> Row(FALSE, FALSE, "N", "N", "ABC"),
    CLOSURE  |-> Row(FALSE, TRUE,  "U", "N", "ABx"),
    VARARG   |-> Row(FALSE, TRUE,  "U", "N", "ABC") ]

getOpMode(o) == luaP_opmodes[o].mode
getBMode(o) == luaP_opmodes[o].b
getCMode(o) == luaP_opmodes[o].c
testAMode(o) == luaP_opmodes[o].a
testTMode(o) == luaP_opmodes[o].t

-----------------------------------------------------------------------------
(* Lua values, each tagged with its type; tables, functions and threads    *)
(* are references <<type, number>> into the machine's heap.  Numbers are   *)
(* integers: no property here depends on fractions.                        *)
Nil == <<"nil">>
Bool(b) == <<"boolean", b>>
Num(n) == <<"number", n>>
Str(s) == <<"string", s>>

ttype(v) == v[1]
IsNum(v) == ttype(v) = "number"

(* The sizes of a constructor as a "floating-point byte", rounded up.      *)
RECURSIVE Float(_, _)
Float(x, e) == IF x >= 16 THEN Float((x + 1) \div 2, e + 1)
               ELSE IF x < 8 THEN x ELSE 8 * (e + 1) + (x - 8)
luaO_int2fb(x) == Float(x, 0)
luaO_fb2int(x) == IF x < 8 THEN x ELSE ((x % 8) + 8) * 2^(x \div 8 - 1)

(* A call's B operand or a return's that means "up to the top". *)
LUA_MULTRET == -1

(* The values that count as false. *)
l_isfalse(v) == v \in {Nil, Bool(FALSE)}

Pow(x, y) == IF y < 0 THEN 0 ELSE x ^ y

(* The arithmetic of the constant folder (lcode.c) and of the machine's    *)
(* Arith (lvm.c), over integers; dividing by zero is not in it, the folder *)
(* and the programs leave it out.                                          *)
NumArith(o, x, y) ==
  CASE o = "ADD" -> x + y
    [] o = "SUB" -> x - y
    [] o = "MUL" -> x * y
    [] o = "DIV" -> (IF y > 0 THEN x \div y ELSE (-x) \div (-y))
    [] o = "MOD" -> (IF y > 0 THEN x % y ELSE -((-x) % (-y)))
    [] o = "POW" -> Pow(x, y)
    [] o = "UNM" -> -x
=============================================================================
