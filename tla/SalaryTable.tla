------------------------------ MODULE SalaryTable ------------------------------
(***************************************************************************)
(* CPlusPlusThings/practical_exercises/bracket_overloading.cpp: a table of *)
(* salaries. Its operator[] finds a name's salary or appends the name to   *)
(* the table, without a look at the table's size, for the caller to read   *)
(* or to set. main uses as many names as it has made the table for.        *)
(***************************************************************************)
EXTENDS Integers, Sequences, FiniteSets

CONSTANTS Person,           \* the names main uses
          Salary,           \* the salaries it sets
          TableMax,         \* the entries there is room for: max
          MaxUses           \* bound: uses of operator[]

ASSUME SalaryAssumption == TableMax \in Nat /\ MaxUses \in Nat /\ IsFiniteSet(Person)

VARIABLES employ,           \* the entries in use
          uses,
          set               \* history: the salary each name was last given

salaryVars == <<employ, uses, set>>

SalaryInit == /\ employ = <<>>
              /\ uses = 0
              /\ set = [p \in Person |-> 0]

(* Where the loop finds the name.                                          *)
Found(p) == { k \in 1 .. Len(employ) : employ[k].name = p }

(* operator[]: the table with the name in it, a new one's salary being 0.  *)
(* It is appended behind the table's end, too.                             *)
WithEntry(p) ==
  IF Found(p) # {} THEN employ ELSE Append(employ, [name |-> p, salary |-> 0])

(* The caller reads the salary, or sets that of the first entry found.     *)
Look(p) == employ' = WithEntry(p) /\ UNCHANGED set

Assign(p, salary) ==
  LET entry == IF Found(p) # {} THEN CHOOSE k \in Found(p) : \A l \in Found(p) : k <= l
                                ELSE Len(employ) + 1
  IN  /\ employ' = [WithEntry(p) EXCEPT ![entry].salary = salary]
      /\ set' = [set EXCEPT ![p] = salary]

(* What a program does that has written behind the table is not modelled.  *)
SalaryNext == /\ uses < MaxUses /\ Len(employ) <= TableMax
              /\ uses' = uses + 1
              /\ \E p \in Person : Look(p) \/ \E salary \in Salary : Assign(p, salary)
-----------------------------------------------------------------------------
(* Types of the entries.                                                   *)
SalaryTypeOK ==
  /\ \A k \in DOMAIN employ : employ[k] \in [name : Person, salary : Salary \union {0}]
  /\ uses \in 0 .. MaxUses

(* A name has one entry at most, which shows the salary it was last given, *)
(* in whatever order names are read, set and set again                     *)
(* (bracket_overloading.cpp:28-41).                                        *)
OneEntryEach ==
  \A p \in Person : LET of == { k \in DOMAIN employ : employ[k].name = p }
                    IN  /\ \A k, l \in of : k = l
                        /\ set[p] # 0 => \E k \in of : employ[k].salary = set[p]

(* The table has room for the names that were put in it, which operator[]  *)
(* leaves to its caller (bracket_overloading.cpp:14, 37).                  *)
TableFits == Len(employ) <= TableMax
=============================================================================
