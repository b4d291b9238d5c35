-------------------------------- MODULE NameMap --------------------------------
(***************************************************************************)
(* CPlusPlusThings/practical_exercises/map_insert_look.cpp: a map from     *)
(* names to values whose keys are pointers, so that it is ordered by the   *)
(* addresses of the names. main erases one entry by a string literal, and  *)
(* then the first that has the key or the value the user types.            *)
(***************************************************************************)
EXTENDS Sequences, SequencesExt, Processes

VARIABLES entries,          \* the names in the map, in its order
          iter,             \* how many entries the loop is past
          drop_key,         \* whose key the user types, or "nobody"
          drop_value,       \* whose value the user types, or "nobody"
          before            \* history: the names when the loop began

mapVars == <<entries, iter, drop_key, drop_value, before>>

Entry == {"img", "system", "ip", "addr"}
Mapper == <<"map", 0>>

(* The names of one array are in its order, the literal before or after.   *)
MapStart == [ p \in {Mapper} |-> "find" ]
MapInit ==
  /\ entries \in {<<"img", "system", "ip", "addr">>, <<"addr", "img", "system", "ip">>}
  /\ iter = 0
  /\ drop_key \in Entry \union {"nobody"}
  /\ drop_value \in Entry \union {"nobody"}
  /\ before = entries

(* find compares addresses: whether it finds "addr" depends on whether the *)
(* compiler has made one object of the two literals.                       *)
EraseAddr == /\ Step(Mapper, "find", "erase")
             /\ \/ UNCHANGED entries
                \/ \E k \in DOMAIN entries : /\ entries[k] = "addr"
                                             /\ entries' = RemoveAt(entries, k)
             /\ before' = entries'
             /\ UNCHANGED <<iter, drop_key, drop_value>>

(* Mutant: the loop goes on to the next entry.                             *)
GoesOn == "erase"

(* break, once an entry is erased.                                         *)
AfterErase == "ended"

(* One round of the loop.                                                  *)
VisitEntry == \/ /\ iter < Len(entries)
                 /\ entries[iter + 1] \in {drop_key, drop_value}
                 /\ Step(Mapper, "erase", AfterErase)
                 /\ entries' = RemoveAt(entries, iter + 1)
                 /\ UNCHANGED <<iter, drop_key, drop_value, before>>
              \/ /\ iter < Len(entries)
                 /\ entries[iter + 1] \notin {drop_key, drop_value}
                 /\ at[Mapper] = "erase"
                 /\ iter' = iter + 1
                 /\ UNCHANGED <<at, entries, drop_key, drop_value, before>>
              \/ /\ iter = Len(entries)
                 /\ Step(Mapper, "erase", "ended")
                 /\ UNCHANGED mapVars

MapNext == EraseAddr \/ VisitEntry
-----------------------------------------------------------------------------
(* Types of the entries and the loop's position.                           *)
MapTypeOK == /\ \A k \in DOMAIN entries : entries[k] \in Entry
             /\ \A k \in DOMAIN before : before[k] \in Entry
             /\ iter \in 0 .. Len(entries)
             /\ {drop_key, drop_value} \subseteq Entry \union {"nobody"}

(* Where the loop finds what the user asks for.                            *)
Asked == { k \in DOMAIN before : before[k] \in {drop_key, drop_value} }

(* What main leaves of the map. Before the loop no name but "addr" is      *)
(* erased. The loop erases the first of the map's entries that has the key *)
(* or the value the user types, and no other; where none has, it erases    *)
(* nothing (map_insert_look.cpp:41-46, 61-77).                             *)
OneIsErased ==
  at[Mapper] = "ended" =>
    /\ Entry \ {"addr"} \subseteq ToSet(before)
    /\ Asked = {} => entries = before
    /\ Asked # {} => \E k \in Asked : /\ \A l \in Asked : k <= l
                                      /\ entries = RemoveAt(before, k)
=============================================================================
