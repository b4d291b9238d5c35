------------------------------ MODULE SharedLock ------------------------------
(***************************************************************************)
(* process/child_inherit_flock.c and process/child_share_flock.c: a parent *)
(* locks a file and forks; the child sleeps with the descriptor it has     *)
(* inherited. In the first program the parent just exits; in the second it *)
(* unlocks, locks again and waits for the child. Any number of runs of     *)
(* either compete for the file.                                            *)
(*                                                                         *)
(* A lock belongs to an open file description, which parent and child of   *)
(* one run share and which goes with the last of them.                     *)
(***************************************************************************)
EXTENDS Processes

CONSTANTS Inheriting,       \* the runs of child_inherit_flock
          Sharing           \* the runs of child_share_flock

VARIABLE locked             \* the runs whose description has the file locked

Run == Inheriting \union Sharing
Parent(r) == <<r, "parent">>
Child(r) == <<r, "child">>

LockStart == [ p \in Run \X {"parent", "child"} |->
                 IF p[2] = "parent" THEN "open" ELSE "unborn" ]
LockInit == locked = {}

(* flock(fd, LOCK_EX) waits until no other description has the lock.       *)
flock(r, from, to) == /\ locked \subseteq {r}
                      /\ locked' = {r}
                      /\ Step(Parent(r), from, to)

(* Mutant: the lock goes with the first process that exits.                *)
LockAfterFirst(r, other) == locked \ {r}

(* The last process to exit closes the description and frees the lock.     *)
LockAfter(r, other) ==
  IF at[other] \in Over \union {"unborn"} THEN locked \ {r} ELSE locked

ParentExits(r, from, how) == /\ Step(Parent(r), from, how)
                             /\ locked' = LockAfter(r, Child(r))

(* open, flock and fork: each one's failure ends the parent.               *)
OpenFile(r) == /\ Step(Parent(r), "open", "lock") \/ Fails(Parent(r), "open")
               /\ UNCHANGED locked

LockFirst(r) == \/ flock(r, "lock", "fork")
                \/ Fails(Parent(r), "lock") /\ UNCHANGED locked

Fork(r) ==
  \/ /\ at[Parent(r)] = "fork"
     /\ at' = [at EXCEPT ![Parent(r)] = "forked", ![Child(r)] = "asleep"]
     /\ UNCHANGED locked
  \/ faulty /\ ParentExits(r, "fork", "failed")

(* The child wakes up and exits.                                           *)
Wake(r) == /\ Step(Child(r), "asleep", "failed")
           /\ locked' = LockAfter(r, Parent(r))

(* child_inherit_flock: the parent returns.                                *)
Inherit(r) == r \in Inheriting /\ ParentExits(r, "forked", "ended")

(* child_share_flock: the parent unlocks the description, the child's too, *)
(* locks it again, in which a failure is ignored, and waits for the child. *)
Share(r) ==
  /\ r \in Sharing
  /\ \/ Step(Parent(r), "forked", "relock") /\ locked' = locked \ {r}
     \/ flock(r, "relock", "wait")
     \/ faulty /\ Step(Parent(r), "relock", "wait") /\ UNCHANGED locked
     \/ at[Child(r)] \in Over /\ ParentExits(r, "wait", "ended")

LockNext == \E r \in Run : \/ OpenFile(r) \/ LockFirst(r) \/ Fork(r)
                           \/ Wake(r) \/ Inherit(r) \/ Share(r)
-----------------------------------------------------------------------------
(* Types of the processes' steps and of the lock.                          *)
LockTypeOK ==
  /\ locked \subseteq Run
  /\ \A r \in Run :
       /\ at[Parent(r)] \in {"open", "lock", "fork", "forked", "relock", "wait"} \union Over
       /\ at[Child(r)] \in {"unborn", "asleep"} \union Over

(* The lock of child_inherit_flock lasts as long as its child sleeps,      *)
(* whenever the parent exits and whoever waits for the file                *)
(* (child_inherit_flock.c:20-32).                                          *)
InheritedLockIsKept ==
  \A r \in Inheriting : at[Child(r)] = "asleep" => locked = {r}

(* A run that has opened the file comes to an end: a parent that unlocks   *)
(* what its child still uses gets the lock again, and whoever waits for    *)
(* the file gets it (child_share_flock.c:32-38, child_inherit_flock.c:13). *)
EveryRunEnds ==
  \A r \in Run : at[Parent(r)] = "lock" ~> /\ at[Parent(r)] \in Over
                                          /\ at[Child(r)] \in Over \union {"unborn"}
                                          /\ r \notin locked
=============================================================================
