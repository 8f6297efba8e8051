-------------------------- MODULE WindowProperties --------------------------
(* The properties that ui.window keeps for windows (lib/ui/window.lua:223-289) *)
(* in a list that it searches by handle, removing entries of windows that are  *)
(* gone on its way.                                                            *)
EXTENDS Integers, Sequences, FiniteSetsExt

CONSTANTS Hwnd, Key, nil, unknown

VARIABLES
  alive,        \* handles of windows that exist
  hwnd_table,   \* the list
  given         \* history: the value that a window was given last for a key,
                \* unknown if a window that had its handle before was given one

Nothing == [k \in Key |-> nil]

TableTypeOK ==
  /\ alive \subseteq Hwnd
  /\ \A i \in DOMAIN hwnd_table : /\ hwnd_table[i].hwnd \in Hwnd
                                 /\ DOMAIN hwnd_table[i].properties = Key
  /\ \A h \in Hwnd : DOMAIN given[h] = Key

\* Mutant: behind an entry it has removed the search leaves one out.
FoundSkipping(hwnd) ==
  Min({Len(hwnd_table) + 1} \cup
      {i \in DOMAIN hwnd_table : /\ hwnd_table[i].hwnd = hwnd
                                 /\ hwnd \in alive
                                 /\ i > 1 => hwnd_table[i - 1].hwnd \in alive})

\* search_properties: where it finds the handle, behind the end if it does not.
Found(hwnd) ==
  Min({Len(hwnd_table) + 1} \cup
      {i \in DOMAIN hwnd_table : hwnd_table[i].hwnd = hwnd /\ hwnd \in alive})

Knows(hwnd) == Found(hwnd) \in DOMAIN hwnd_table
Properties(hwnd) == IF Knows(hwnd) THEN hwnd_table[Found(hwnd)].properties ELSE Nothing

\* The list with new properties of a window.
With(hwnd, properties) ==
  LET entry == [hwnd |-> hwnd, properties |-> properties]
  IN  IF Knows(hwnd) THEN [hwnd_table EXCEPT ![Found(hwnd)] = entry]
                     ELSE Append(hwnd_table, entry)

\* The search leaves of a list, as far as it looks, no window that is gone, and
\* the rest in order.
Searched(hwnd, list) ==
  \E n \in 0..Len(list) : \E from \in [1..n -> DOMAIN list] :
    /\ \A j, k \in 1..n : j < k => from[j] < from[k]
    /\ {from[k] : k \in 1..n} = {i \in DOMAIN list : i < Found(hwnd) => list[i].hwnd \in alive}
    /\ hwnd_table' = [k \in 1..n |-> list[from[k]]]

-----------------------------------------------------------------------------
GivenNow(hwnd, key, value) ==
  given' = IF hwnd \in alive THEN [given EXCEPT ![hwnd][key] = value] ELSE given

get_property(hwnd, key) == Properties(hwnd)[key]
Get(hwnd) == Searched(hwnd, hwnd_table) /\ UNCHANGED given

set_property(hwnd, key, new_value) ==
  /\ IF hwnd \in alive
     THEN Searched(hwnd, With(hwnd, [Properties(hwnd) EXCEPT ![key] = new_value]))
     ELSE UNCHANGED hwnd_table
  /\ GivenNow(hwnd, key, new_value)

remove_property(hwnd, key) ==
  /\ Searched(hwnd, IF Knows(hwnd) THEN With(hwnd, [Properties(hwnd) EXCEPT ![key] = nil])
                    ELSE hwnd_table)
  /\ GivenNow(hwnd, key, nil)

-----------------------------------------------------------------------------
\* A window has the properties that it was given, whatever else is searched for and
\* removed on the way (window.lua:236-288, manual.xml:761-766); one that has the
\* handle of another may inherit those of that one (window.lua:233).
PropertiesKept ==
  \A h \in alive, k \in Key : given[h][k] # unknown => get_property(h, k) = given[h][k]

=============================================================================
