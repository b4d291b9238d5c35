----------------------------- MODULE ArrayTemplate -----------------------------
(***************************************************************************)
(* CPlusPlusThings/practical_exercises/array_template.cpp: an array of     *)
(* fixed size whose Sort puts the largest element that is left in front,   *)
(* one position after the other. An element is the number its comparison,  *)
(* < or strcmp, goes by.                                                   *)
(***************************************************************************)
EXTENDS Integers, FiniteSets

CONSTANTS MAXSIZE, Element

ASSUME ArrayAssumption == MAXSIZE \in Nat /\ Element \subseteq Int

VARIABLES array,
          sorted,           \* i: positions Sort is done with
          given             \* history: the array before Sort

arrayVars == <<array, sorted, given>>

Index == 0 .. MAXSIZE - 1

ArrayInit == /\ array \in [Index -> Element]
             /\ sorted = 0
             /\ given = array

(* Mutant: the search goes on from what it found first.                    *)
LargestOfTwo(i) ==
  IF i + 1 \in Index /\ array[i] < array[i + 1] THEN i + 1 ELSE i

(* Where the loop over j finds the largest element from i on, for the      *)
(* first time.                                                             *)
Largest(i) == CHOOSE p \in i .. MAXSIZE - 1 :
                /\ \A j \in i .. MAXSIZE - 1 : array[j] <= array[p]
                /\ \A j \in i .. p - 1 : array[j] < array[p]

(* One round of Sort's outer loop.                                         *)
SortPosition == /\ sorted < MAXSIZE
                /\ LET p == Largest(sorted)
                   IN  array' = [array EXCEPT ![sorted] = array[p], ![p] = array[sorted]]
                /\ sorted' = sorted + 1
                /\ UNCHANGED given
-----------------------------------------------------------------------------
(* Types of the array and of Sort's position.                              *)
ArrayTypeOK == /\ array \in [Index -> Element]
               /\ sorted \in 0 .. MAXSIZE
               /\ given \in [Index -> Element]

Occurrences(a, e) == Cardinality({ i \in Index : a[i] = e })

(* The positions Sort is done with hold the largest elements of the array, *)
(* in descending order, and no element is lost or doubled by the exchanges *)
(* (array_template.cpp:35-51, 54-70).                                      *)
SortsDescending ==
  /\ \A i \in 0 .. sorted - 1, j \in Index : i < j => array[j] <= array[i]
  /\ \A e \in Element : Occurrences(array, e) = Occurrences(given, e)
=============================================================================
