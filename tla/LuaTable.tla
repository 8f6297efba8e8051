------------------------------ MODULE LuaTable ------------------------------
(***************************************************************************)
(* The tables of the embedded Lua (src/lua/src/ltable.c): an array part    *)
(* and a hash part, which is a chained scatter table with Brent's          *)
(* variation.  A table is a record:                                        *)
(*   array     the values of the keys 1, 2, ...                            *)
(*   node      the nodes [key, val, next] of the hash part, next the       *)
(*             position of the next node of a chain or 0; <<>> is the      *)
(*             dummynode that empty hash parts share                       *)
(*   lastfree  no node after this one is free                              *)
(*   meta      the metatable, and flags: events it is known not to have    *)
(* A slot, which the code has a pointer to, is k for array[k], -p for      *)
(* node[p] and 0 for none (luaO_nilobject).  An entry with the value nil   *)
(* is no entry, but its key stays until the node is used again.            *)
(***************************************************************************)
EXTENDS LuaOpcodes, FiniteSetsExt, SequencesExt

CONSTANT Hash(_)   \* of strings: their hash, of numbers: the sum of their words,
                   \* of tables, functions and threads: their addresses

FreeNode == [key |-> Nil, val |-> Nil, next |-> 0]
NilArray(n) == [k \in 1..n |-> Nil]
ceillog2(n) == CHOOSE e \in 0..n : 2^e >= n /\ \A d \in 0..e - 1 : 2^d < n

mainposition(t, key) ==
  LET size == Len(t.node)
      hashpow2(n) == n % size
      hashmod(n) == n % (IF size = 1 THEN 1 ELSE size - 1)
  IN 1 + CASE ttype(key) = "boolean" -> hashpow2(IF key[2] THEN 1 ELSE 0)
           [] ttype(key) = "string" -> hashpow2(Hash(key))
           [] OTHER -> hashmod(Hash(key))

RECURSIVE InChain(_, _, _)
InChain(node, p, key) ==
  IF p = 0 THEN 0 ELSE IF node[p].key = key THEN p ELSE InChain(node, node[p].next, key)

InArray(t, key) == IsNum(key) /\ key[2] \in 1..Len(t.array)
SlotOf(t, key) ==
  IF InArray(t, key) THEN key[2]
  ELSE IF t.node = <<>> \/ key = Nil THEN 0 ELSE -InChain(t.node, mainposition(t, key), key)
ValueAt(t, at) == IF at > 0 THEN t.array[at] ELSE IF at < 0 THEN t.node[-at].val ELSE Nil
PutAt(t, at, v) == IF at > 0 THEN [t EXCEPT !.array[at] = v] ELSE [t EXCEPT !.node[-at].val = v]

luaH_get(t, key) == ValueAt(t, SlotOf(t, key))

(* The slot of a key, made if there is none, in the table t as it is then. *)
(* Only luaH_set forgets which events the table is known not to have.      *)
RECURSIVE newkey(_, _)
SlotOrNew(t, key, at) == IF at = 0 THEN newkey(t, key) ELSE [t |-> t, at |-> at]
luaH_setnum(t, key) == SlotOrNew(t, key, SlotOf(t, key))
luaH_setstr(t, key) == luaH_setnum(t, key)
luaH_set(t, key) == luaH_setnum([t EXCEPT !.flags = {}], key)
Stored(set, v) == PutAt(set.t, set.at, v)
RECURSIVE Inserted(_, _)
Inserted(t, entries) ==
  IF entries = <<>> THEN t
  ELSE Inserted(Stored(luaH_setnum(t, entries[1][1]), entries[1][2]), Tail(entries))

-----------------------------------------------------------------------------
(* New sizes. *)

numusearray(t) == {k \in 1..Len(t.array) : t.array[k] # Nil}
numusehash(t) == {p \in 1..Len(t.node) : t.node[p].val # Nil}
countint(keys) == {k[2] : k \in {x \in keys : IsNum(x) /\ x[2] > 0}}

(* The largest power of two such that more than half of 1..n are in use;   *)
(* only ns are tried whose upper half is in use.                           *)
computesizes(ints) ==
  LET upto(n) == Cardinality({k \in ints : k <= n})
  IN Max({0} \cup {n \in {2^e : e \in 0..Cardinality(ints)} :
                     n < 2 * Cardinality(ints) /\ 2 * upto(n) > n /\ upto(n) > upto(n \div 2)})

setarrayvector(array, size) ==
  IF size <= Len(array) THEN SubSeq(array, 1, size) ELSE array \o NilArray(size - Len(array))
setnodevector(size) == IF size = 0 THEN <<>> ELSE [p \in 1..2^ceillog2(size) |-> FreeNode]

(* What the new array part does not hold goes to the hash part, then the   *)
(* nodes are inserted again, last first.                                   *)
resize(t, nasize, nhsize) ==
  LET node == setnodevector(nhsize)
      sized == [t EXCEPT !.array = setarrayvector(@, nasize), !.node = node, !.lastfree = Len(node)]
      items == [k \in 1..Len(t.array) |-> <<Num(k), t.array[k]>>]
      vanishing == SubSeq(items, nasize + 1, Len(t.array))
      hashed == Reverse([p \in 1..Len(t.node) |-> <<t.node[p].key, t.node[p].val>>])
      used(entries) == SelectSeq(entries, LAMBDA e : e[2] # Nil)
      WithHashed(s, entries) ==
        Inserted(IF entries = <<>> THEN s ELSE [s EXCEPT !.flags = {}], entries)
  IN WithHashed(Inserted(sized, used(vanishing)), used(hashed))
luaH_resizearray(t, nasize) == resize(t, nasize, Len(t.node))

rehash(t, extra) ==
  LET ints == numusearray(t) \cup countint({t.node[p].key : p \in numusehash(t)} \cup {extra})
      total == Cardinality(numusearray(t)) + Cardinality(numusehash(t)) + 1
      n == computesizes(ints)
  IN resize(t, n, total - Cardinality({k \in ints : k <= n}))

luaH_new(narray, nhash) ==
  [array |-> NilArray(narray), node |-> setnodevector(nhash), meta |-> Nil,
   lastfree |-> Len(setnodevector(nhash)),
   flags |-> {"__index", "__newindex", "__gc", "__mode", "__eq"}]

-----------------------------------------------------------------------------
(* A new key.  The node of its main position is taken if it has no value;  *)
(* else a free node is: for the node that is in the way, if that is not in *)
(* its own main position, or for the new key.                              *)

getfreepos(t) == {p \in 1..t.lastfree : t.node[p].key = Nil}

MoveColliding(t, mp, n, key) ==
  LET previous == CHOOSE p \in 1..Len(t.node) : t.node[p].next = mp
  IN [t EXCEPT !.node = [@ EXCEPT ![previous].next = n, ![n] = t.node[mp],
                                  ![mp] = [FreeNode EXCEPT !.key = key]],
               !.lastfree = n - 1]
AddToChain(t, mp, n, key) ==
  [t EXCEPT !.node = [@ EXCEPT ![mp].next = n, ![n] = [t.node[mp] EXCEPT !.key = key, !.val = Nil]],
            !.lastfree = n - 1]

newkey(t, key) ==
  LET mp == mainposition(t, key)
      n == Max(getfreepos(t))
  IN IF t.node # <<>> /\ t.node[mp].val = Nil
     THEN [t |-> [t EXCEPT !.node[mp].key = key], at |-> -mp]
     ELSE IF getfreepos(t) = {} THEN luaH_set(rehash(t, key), key)
     ELSE IF mainposition(t, t.node[mp].key) # mp
     THEN [t |-> MoveColliding(t, mp, n, key), at |-> -mp]
     ELSE [t |-> AddToChain(t, mp, n, key), at |-> -n]

-----------------------------------------------------------------------------
(* Traversal: the array part, then the nodes.  -1: the key is in neither.  *)

IndexOfSlot(t, at) == IF at = 0 THEN -1 ELSE IF at > 0 THEN at ELSE Len(t.array) - at
findindex(t, key) == IF key = Nil THEN 0 ELSE IndexOfSlot(t, SlotOf(t, key))
luaH_next(t, index) ==
  LET Entry(j) == IF j <= Len(t.array) THEN <<Num(j), t.array[j]>>
                  ELSE <<t.node[j - Len(t.array)].key, t.node[j - Len(t.array)].val>>
      later == {j \in index + 1..Len(t.array) + Len(t.node) : Entry(j)[2] # Nil}
  IN IF later = {} THEN <<Nil>> ELSE Entry(Min(later))

(* A border: an n with a value whose successor has none (0 if 1 has none). *)
RECURSIVE Between(_, _, _)
Between(t, i, j) ==
  LET middle == (i + j) \div 2
  IN IF j - i <= 1 THEN i
     ELSE IF luaH_get(t, Num(middle)) = Nil THEN Between(t, i, middle) ELSE Between(t, middle, j)
RECURSIVE unbound_search(_, _, _)
unbound_search(t, i, j) ==
  IF luaH_get(t, Num(j)) = Nil THEN Between(t, i, j) ELSE unbound_search(t, j, 2 * j)
luaH_getn(t) ==
  LET j == Len(t.array)
  IN IF j > 0 /\ t.array[j] = Nil THEN Between(t, 0, j)
     ELSE IF t.node = <<>> THEN j ELSE unbound_search(t, j, j + 1)

-----------------------------------------------------------------------------
(* The main invariant of these tables (ltable.c): an element that is not   *)
(* in its main position was kept from it by one that is in its own; so     *)
(* each key is found from its main position.  Keys of the array part are   *)
(* nowhere else.                                                           *)
ChainsAreSound(t) ==
  \A p \in 1..Len(t.node) :
    LET key == t.node[p].key
        mp == mainposition(t, key)
    IN key # Nil => /\ ~InArray(t, key)
                    /\ InChain(t.node, mp, key) = p
                    /\ t.node[mp].key # Nil /\ mainposition(t, t.node[mp].key) = mp
(* What the flags say of a metatable is so.                                *)
FlagsAreTrue(t) == \A event \in t.flags : luaH_get(t, Str(event)) = Nil
=============================================================================
