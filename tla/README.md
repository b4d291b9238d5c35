# Timers, pools, namespaces and small programs: TLA+ models of everyday_coding

The repository is a collection of small, independent C and C++ programs. Most
of them demonstrate one system call or one language feature in a straight line.
The one that is a system of its own is `ttimer/`: a timer service driven by a
periodic signal, with a memory pool of its own (`tdengine_old.c`), and the
beginning of its successor, with reference counted timers (`timer.c`). Next
to it stands `obtain_container_ip/`, whose programs change their own namespaces
and have to find the way back. Those come first. Of the small programs, the
models cover the ones whose processes depend on each other (`named_pipe/`,
`unix_client_server/`, `process/`, `packet_mmap/`), the experiments with
`SO_REUSEADDR` (`networks/`) and the containers of `CPlusPlusThings/`.

Contents: [the system](#the-system), [hazards](#what-is-hard-to-test),
[modules](#the-modules), [model and code](#model-and-code), [runs](#the-runs),
[fairness](#fairness), [findings](#disagreements-with-the-code),
[proofs](#the-proofs), [mutants](#mutants), [limits](#what-is-not-modelled),
[plan](#plan).

## The system

### The old timer, `ttimer/tdengine_old.c`

| Component | State | Operations |
|---|---|---|
| memory pool | `pool_t`: the blocks, `freeList` (a ring of indices), `first`, `numOfFree`, a mutex | `memPoolInit`, `memPoolMalloc`, `memPoolFree`, `memPoolCleanup` |
| timer controller | `tmr_ctrl_t`: `tmrList` (a sorted list per slot), `periodsFromStart`, `numOfTmrs`, a mutex; `tmr_obj_t`: `timerId`, `cycle`, `index`, `param1` | `tmrReset` (callers), `tmrProcessList` (timer thread) |
| alarm loop and set-up | the array `tmrCtrl`, each entry's `signature`, `ticks`, `maxTicks`; the interval timer and the pending SIGALRM | `tmrModuleInit`, `tmrInit` (main thread), `processAlarmSignal`, `timerLoopFunc` (timer thread) |
| demo | none | `main`, `test`, `timerFunc1`, `timerFunc2` |

How they interact:

- The kernel raises SIGALRM every 5 ms. It is blocked everywhere and taken by
  `sigwait` in the timer thread; an alarm raised while another is pending is lost.
- `timerLoopFunc` counts the alarm in the `ticks` of every controller whose
  `signature` is set, and calls `tmrProcessList` when they make up a period.
- `tmrProcessList` holds the controller's mutex for a whole pass, callbacks
  included, and gives the objects of expired timers back to the pool.
- `tmrReset` takes the same mutex, finds out from the caller's handle whether
  its timer is still armed, takes an object from the pool if it is not, and
  links it into the slot where the wheel will be when it is due.
- The pool has its own mutex, taken inside the controller's.
- `tmrInit` builds a controller with no lock while the timer thread looks at the
  array: the order of its stores is the only protection.

### The new timer, `ttimer/timer.c`

| Component | State | Operations |
|---|---|---|
| timers | `tmr_obj_t`: `refCount` (a byte), `wheel`, `prev`, `next` | `timerAddRef`, `timerDecRef` |
| map | `timerMap`, a lock per bucket | `addTimer`, `findTimer`, `removeTimer` |
| wheels | `wheels`, a mutex per wheel | `addToWheel`, `removeFromWheel` |

The file ends there: nothing calls these functions, or scans the wheels. Which
wheel a timer is in (`timer->wheel`) is read and written outside the mutexes.

### The container lookups, `obtain_container_ip/`

`obtain_container_veth.cpp` finds the host's end of a container's eth0. Its
state is the process's: the two namespaces, the descriptor that leads back, the
number found so far. It asks `ip link` in the container's network namespace,
falls back to `/sys` in the container's mount namespace and then searches the
host's `/sys`. `obtain_container_ip.cpp` runs up to three commands in the
container's network namespace, until one prints an address. In both each system
call can fail. What they share, entering a namespace and restoring the own one,
is written twice in the code and once in the models.

### The small programs

| Program | State | What it does | Hard behaviour |
|---|---|---|---|
| `named_pipe/` | the FIFO, `bytes_send`, `bytes_read` | a server writes blocks, with a pause before each; clients read without waiting | a reader takes "nothing yet" for the end and adds the -1 to its count; SIGPIPE |
| `unix_client_server/` | the socket's name, connections | one echo over a UNIX socket; both sides unlink its name | a name that was left; the name of another server |
| `process/` | the file's lock | a lock inherited, or shared, by a child | one lock per open file description, not per process |
| `packet_mmap/` | the children, their packets | four children in a fanout group | failures of fork and of the set-up; who waits for whom |
| `networks/reuse_addr_option.c` | sockets | six functions that bind two sockets to one port | what an earlier function leaves open meets the next |
| `CPlusPlusThings/practical_exercises/` | an array, a table, a map | sort; look up or insert; erase | exchanges, growth of the table, erasing in a loop |
| `__thread/`, `seccomp/`, `dup_dup2/`, `getdents64/`, `pid_tid/` | none shared | demonstrate one call each | none of their own |
| `macro/`, `array_sizeof/`, `struct_bit_field/` | none | show what the compiler computes | none |
| `tdengine_timer/`, `kernel_list/` | none | empty `main` | none |

The programs of the last three rows are not modelled. No two of the programs
share state; `Programs` composes their models by choosing one at the start.

### What makes each component correct

- *Pool*: no block in two hands, none lost, whatever the order of allocations
  and frees; a thread finds its own data in its block; the ring is a queue.
- *Controller*: a callback runs in the period it was asked for, not before and
  not after. Under that: an armed timer is in one list, the right one; lists
  are sorted; `index` and `cycle` mean when the timer is due; objects are
  accounted for; a handle and its object belong together.
- *Alarm loop*: the timer thread never sees a controller half built; passes are
  not ahead of the ticks `tmrInit` makes of a resolution and fall behind by lost
  alarms only; passes go on.
- *New timer*: lists stay whole and reference counts exact with any interleaving
  of starts and stops; one thread is told it removed a timer; a removed timer is
  freed in the end, and not before its users are done.
- *Container lookups*: the process ends where it started; descriptors are closed;
  the answer is the pair of the container's interface or none, or the first
  address a command printed.
- *Locks*: a child that inherited the lock sleeps with it, whenever its parent
  exits; everyone gets the lock in the end.
- *Pipe*: a count of whole blocks means that the end was seen and nothing is
  left; each block goes to one client, and none is lost while anybody has the
  pipe; a server comes to an end however early its readers leave.
- *Echo*: a client gets its own line; a name is left behind by failures only; a
  server with a client to serve loses its name only to another server or to a
  client that waits for nothing from it; clients end.
- *Fanout*: who returns 0 has no children left; packets that are reported were read.
- *Reuse*: what a function says it has bound is bound, after any other function.
- *Containers*: sorting keeps the elements and orders them; a name has one entry
  with its last value, and the table has room for it; the first of the entries
  the user asks for is erased, and no other.

## What is hard to test

`PROJECT.json` lists the hazards by line. They fall into six groups:

1. Interleavings of callers, timer thread and main thread over state that is
   read outside the lock that protects it (`timer->wheel`, `signature`, a block
   that is cleared after the pool is unlocked).
2. Handles that outlive their timers: objects are used again, and
   `tmrReset` looks at the object, not at whose it is.
3. Long sequences: re-arming, expiring and turning the wheel, after which lists
   must still be sorted and `cycle` still right; `periodsFromStart` wraps after
   2^32 periods, which no test reaches.
4. Narrow integers: the number of turns is kept in a `short`, ticks in an `int`
   that starts from `rand()`, references in a byte.
5. One step of several failing, with a namespace switched or a mutex held.
6. Processes that meet over something the kernel keeps (a FIFO, a lock, the name of a
   socket, a port, a child), in an order, or after a failure, nobody tried.

## The modules

| Module | What it is | Builds on |
|---|---|---|
| `FreeQueue` | abstract: what the pool promises, a first-in first-out queue | |
| `MemPool` | the critical sections of `memPoolMalloc` and `memPoolFree` | |
| `MemPoolThreads` | any number of threads that use a pool; implements `FreeQueue` | `MemPool` |
| `TimerService` | abstract: what the timers promise, requests and a clock | |
| `TimerCtrl` | one controller with its pool; implements `TimerService` | `MemPool` |
| `AlarmLoop` | the alarms, the timer thread's loop and `tmrInit`, for all controllers | |
| `AlarmClock` | `AlarmLoop` with a history of alarms and passes | `AlarmLoop` |
| `WheelTimers` | the new timer: map, references, wheels | |
| `Processes` | what the small programs share: processes, each at a step of its main function, and calls that fail | |
| `SharedLock` | `process/`: flock, fork, and what belongs to an open file description | `Processes` |
| `BlockStream` | abstract: what a pipe is for, blocks from a writer to readers that come and go | |
| `NamedPipe` | `named_pipe/`: server, clients, FIFO; implements `BlockStream` | `Processes` |
| `UnixEcho` | `unix_client_server/`: servers, clients, the socket's name | `Processes` |
| `PacketFanout` | `packet_mmap/`: parent, children, their sockets | `Processes` |
| `AddressReuse` | `networks/reuse_addr_option.c`: six functions and the kernel's rule for addresses | `Processes` |
| `NameMap` | `map_insert_look.cpp` | `Processes` |
| `Namespaces` | what the container lookups share: enter, restore, descriptors | `Processes` |
| `VethLookup`, `ContainerAddress` | `obtain_container_veth`, `obtain_container_ip` with every failure | `Namespaces` |
| `ArrayTemplate`, `SalaryTable` | `array_template.cpp`, `bracket_overloading.cpp` | |
| `Programs` | the composition of the ten small models | all of them |
| `MC...` | instances for TLC | the module they name |
| `DataLemmas`, `MemPoolLemmas` | facts about slots and turns, insertion and removal; about the ring | |
| `MemPoolProofs`, `TimerCtrlProofs`, `AlarmClockProofs`, `WheelTimersProofs` | the theorems about the timers | the module they name |
| `ProgramsProofs` | the theorems about the processes of the small programs | `Programs` |
| `ProgramsDataProofs` | those about their data, and about all types | `ProgramsProofs` |

`TimerCtrl` and `AlarmLoop` are two views of one program. `AlarmLoop` decides
*when* a pass of `tmrProcessList` takes place and takes it to be a step from
`CountTick` to `EndPass`; `TimerCtrl` says *what* the pass does and lets it
happen at any time. What is proved of `TimerCtrl`, where a pass may begin
whenever the mutex is free, therefore holds however the alarms come.

## Model and code

**Atomicity.** A function that changes shared state only under one lock is one
action; one that does not is split at each place where another thread can see
the difference. So:

- `memPoolMalloc` is two actions in `MemPoolThreads`: the block is taken under
  the mutex (`MallocTake`) and cleared after it is released (`MallocClear`).
  In `TimerCtrl` it is part of `tmrReset`, which holds the controller's mutex
  throughout.
- `tmrReset` is one action with three alternatives: the handle's timer is armed
  (`ResetArmed`), is not (`ResetNew`), or is not and the pool is empty
  (`ResetRefused`). The search for the place in the list, the `count`s and the
  links of both neighbours are all in it.
- `tmrProcessList` is `ProcessBegin`, a `ProcessExpired` for each timer that is
  due, and a `ProcessEnd`. No caller can act in between, as the mutex is held;
  the callbacks run there, which is why they are steps of their own.
- `tmrInit` is five actions, in the order of its stores. `timerLoopFunc` is one
  test of `signature`, one count, and one reset of the ticks per controller.
- `addToWheel` and `removeFromWheel` are split at every access to
  `timer->wheel` outside the mutex. Under the mutex they are one action, but
  `removeFromWheel` keeps the mutex from `RemoveLock` to `RemoveUnlink`.
- `VethLookup` has one action per function that can fail on its own.
- In the small programs an action is a system call another process can notice,
  with the code up to the next one; printing, and calls that nobody notices, are
  part of the step before them.

**Failures.** In `VethLookup` and `ContainerAddress` every step has its failure as
an alternative. In the other programs `faulty`, chosen at the start, says whether
system calls can fail for reasons that are none of the program's: `Fails` is
such a failure. A failure that follows from the model's state (the name is
taken, the reader is gone, nobody listens) happens in either case. So the runs
show both what the programs do when everything goes well and what is left of
their promises when it does not.

**The kernel.** What a FIFO, a lock, a socket's name or a bind does is modelled
from how the code uses it and marked external in `PROJECT.json`: `HasWriter`,
`BrokenPipe`, `NameIsFree`, `CanConnect`, `Conflict` and the like.

**Data.** A doubly linked list of the old timer is a sequence (links of the new
one are kept, as two wheels can disagree about them). A block is an index; a
pointer to an object is its block. `memset` to 0 in `memPoolFree` is the reset
of the object's fields in `ProcessExpired`. `tmr_obj_t.param1` stands for the
callback and its argument: whose callback it is. A handle is the variable whose
address the caller passes as `pTmrId`.

The small programs keep of their data what their properties tell apart: a line is
the client that typed it, a block is counted and has `BufSize` bytes, an address
is one of three that overlap or do not, an interface is a name and a number,
what a command prints is nothing, the loopback address, some other line or one of
two addresses. An element of the array is the number its comparison goes by, so that
one model stands for the numbers and the strings.

**Integers.** `periodsFromStart` is an unsigned int (`UIntMod`), `cycle` a short
(`ToShort`), `ticks` an int (`ToInt`), `refCount` a byte (`RefMod`). Their widths
are constants, so that a run can make them small enough to overflow.

**Undefined behaviour.** In `WheelTimers`, the second use of `timer->wheel` in
`removeFromWheel` (line 214) is a read that races with another thread's write;
a build may load it again or keep the value of line 210. `RereadsWheel` says
which. In `AlarmLoop` plain stores are taken to be seen in program order; a
compiler could reorder those of `tmrInit`, and the guarantee would be gone.

**Callers.** The repository has one caller of the old timer and none of the
new one. The callers of the models are the most general ones that keep to these
rules: a thread frees only blocks it owns (or passes an address that is no
block's, which `memPoolFree` checks for); callbacks do not call back into
their own controller, which would wait for its own mutex; delays are not negative;
the new timer's id is given to others after `addToWheel` has returned; a timer that
is added again after its removal is stopped by one thread at a time (`TakeTurns`),
a rule the code does not state and which it needs, as `wheel_rearm` shows. The small
programs may be run any number of times at once where they meet over a file; of
the six functions of `reuse_addr_option.c`, `main` calls two and has the other
calls commented out, and the model calls any two, one after the other.

**History variables.** `elapsed`, `due` and `request` in `TimerCtrl`, and `fits`, the
objects whose last arming the integers could hold (`WidthsHold`: a cycle that is no
larger than a short and no jump of the wheel before the timer is due); `raised`,
`lost`, `passes`, `firstAt` in `AlarmClock`; `removals` in `WheelTimers`;
`stuck` in `Namespaces` (the kinds of namespace whose `setns` back has failed),
`unreadable` in `VethLookup` (how often the early return was taken), `trouble` in
`AddressReuse` (a call of the function failed for another reason than another
socket of the program), `given` in `ArrayTemplate` (the array before the sort),
`set` in `SalaryTable` (what each name was last given), `before` in `NameMap` (the
names when the loop began), `unlinked` in `UnixEcho` (who last removed a server's
name). No guard of a code action reads them, but for the bounds.

## The runs

Distinct states are given to show the size of an instance.

| Run | Checks | What it shows | States |
|---|---|---|---|
| `pool` | `TypeOK` `NoSharedBlock` `NoLostBlock` `OwnDataOnly` `QueueSpec` | Two threads on three blocks, with frees of bad addresses, in every interleaving of takes, clears, writes and frees. | 15 334 |
| `timer_core` | `TypeOK` `HandlesOwnTimers` `Service` `RequestServed` | Three handles compete for two objects, callbacks clear handles: the wheel implements `TimerService` and every request is served or replaced. | 19 688 |
| `timer_stale` | `ListsMatchObjects` `SortedByCycle` `PoolAccounting` `CycleMeasuresRemaining` `FiresByTheWheel` | Callbacks leave handles as they are, and `periodsFromStart` wraps after seven periods, which the two slots do not divide: the structure holds nevertheless, a timer whose delay the counter does not wrap in fires in its period, and one in whose delay it does, a turn from it at most. | 2 583 791 |
| `timer_steal` | `NoMissedDeadline` | **Violated.** A handle that outlives its timer takes over another's. | |
| `timer_short_cycle` | `FiresOnTime` | **Violated.** As many turns as a short cannot hold. | |
| `alarm_clock` | `TypeOK` `NoHalfBuiltController` `TicksAccounted` `WheelNotAhead` `WheelNotBehind` `PassesGoOn` | Set-up races with alarms; the wheel's time against the clock's, for whole and other resolutions; passes go on from any initial `ticks`, `INT_MAX` included. | 178 175 |
| `alarm_reinit` | `NoHalfBuiltController` | **Violated.** A second `tmrInit` while the first controller is processed. | |
| `wheel_timers` | `TypeOK` `ListsAreWhole` `RefCountIsExact` `OneRemover` `RemovedIsFreed` | Three threads start and stop two timers in two wheels; one timer is also added again. | 41 221 |
| `wheel_rearm` | `UnlinksUnderItsMutex` | **Violated.** A timer that is added to another wheel while it is stopped. | |
| `wheel_reread` | `LocksAWheel` | **Violated.** The second load of `timer->wheel`. | |
| `programs` | `TypeOK` `InheritedLockIsKept` `WholeBlocksMeanTheEnd` `EchoIsOwnLine` `NameIsRight` `ChildrenAreAccounted` `MessageIsTrue` `NetnsIsRestored` `DescriptorsAccounted` `AnswerIsPeer` `FirstAddressWins` `ContainersAreRight` `OneIsErased` `PipeIsAStream` `ProcessesEnd` | Each small program, with as many runs of it as it takes for them to meet, with and without failures. | 34 017 |
| `veth_mntns` | `MntnsIsRestored` | **Violated.** The early return in the container's mount namespace. | |

The run `programs` asks one question of each program; they are one run because
they are alike: a few processes, no data to speak of, and an end. A property that
speaks of one program holds of the others by their having nothing to do with its
state, and is only interesting where `program` is its own. `ContainersAreRight`
collects the array and the table, whose room suffices for as many names
(`TableFits`); `OneIsErased` is about the map. `ProcessesEnd` collects the four liveness
properties
`EveryRunEnds`, `ServerEnds`, `ClientsEnd` and `ParentReturns`. `PipeIsAStream` says
that the pipe implements `BlockStream`: the blocks a client has taken are those its
count in bytes stands for (`BlocksRead`), the blocks that are lost are those that
were sent and are neither in the pipe nor taken, and a client is told of the end
when its count is of whole blocks (`ToldTheEnd`).

`NoMissedDeadline` is what `timer_steal` refutes. Where callbacks clear their
handles it follows from `Service`, as the abstract clock waits for the requests of
its period; `timer_core` checks `Service`, and `NoDeadlineIsMissed` proves it.

### Bounds, and why they are enough

- *Pool*: three blocks make the ring go round with blocks of two threads in it;
  `BlockSize` 2 leaves room for addresses inside a block. The bad addresses
  include negative ones and the one just past the end. Nothing is unbounded.
- *Controller*: two slots and delays of 0, 1, 2 and 5 periods: none, less than a
  turn, exactly one, more than one; so two timers of one slot can have the
  same or different cycles, and be armed before and after a turn. Two objects and
  three handles: the pool runs empty and a stale handle finds its object with
  another owner. `Horizon` (6, 11 in `timer_stale`) bounds `elapsed`: it
  lets a timer of the longest delay expire and its object be used again, and in
  `timer_stale` goes past the wrap and a turn further. `Horizon` only guards
  `ProcessBegin`; callers go on after it, so that no run deadlocks.
- *Widths*: `timer_core` has integers that are wide enough. In `timer_stale`
  `UIntMod` 7 leaves 1 when it is divided by the two slots, so that the wheel goes
  from slot 0 to slot 0 at the wrap, as ten slots go from slot 5 to slot 0 at 2^32.
  Timers of every delay are armed before and after it; some fire a turn early and
  some, with the horizon of 11 that this takes, a turn late. A delay and a turn are
  no more than the counter's range (`OneWrapADelay`), which is so in the code, where
  both are ints. `ShortHalf` 3 holds every cycle there and 2 does not in
  `timer_short_cycle`.
- *Alarms*: resolutions below, at and above the period of the alarm, whole numbers
  of ticks and others (1, 5, 7, 10, 12, 15 ms), two entries of `tmrCtrl` of which
  `tmrInit` can only use the first, an `IntMax` that `rand()` reaches and the next
  tick overflows. `Horizon` 16 is
  the number of alarms the history is kept for, five passes of the slowest
  controller; with the next one it is put away (`ClockAlarm`), and the alarms go on. `Inits` bounds calls of `tmrInit`: one, or two for `alarm_reinit`.
  A process that `memPoolCleanup(NULL)` took down stops, and so
  deadlock is not checked.
- *New timer*: two timers so that one is the other's neighbour in a slot; three
  threads so that two stop one timer while a third starts or adds the other.
  `RefMod` 8 is above the five references a timer can have. All timers can
  be freed, and then all threads are idle for ever: deadlock is not checked.
- *Locks*: two runs of either program: both kinds compete with their own and the
  other, and one can wait while another unlocks and locks again.
- *Pipe*: a server of three blocks in a pipe that holds two, so that it waits for
  room; two clients, so that one can take what the other waits for, and one can
  come after the first has gone. `BufSize` 2 is enough to tell a count that is
  one too small from whole blocks; with 1 it is not.
- *Echo*: two servers and two clients: a name can be left, taken over, and
  unlinked by a client of the other server.
- *Fanout*: three children of two packets. `Limit` 2 leaves a read before the last.
- *Reuse*: two of the six functions, any two, on each of the three addresses: main
  calls no more, and what a first one leaves open meets the second.
- *Lookups*: two addresses, so that the first a call prints is told from a later one.
  `MaxCalls` 2: what one call leaves behind (a namespace, a descriptor,
  a number) meets the next. The host's interfaces include one whose number
  is that of the container's own eth0.
- *Array*: five positions with three different elements, in all 243 arrangements,
  so that elements are equal, in order, and in the opposite order.
- *Table*: three names and two salaries in four uses: a name is added, set, and
  found again behind another. `TableMax` 3 is room for all of them. With less, a
  table that has been written behind its end is not used on, as what it then holds
  is undefined.
- *Map*: as in the code; the names are in the order of their addresses, which is
  theirs in their array, with the literal before or after; the user asks for a key
  and a value of any two entries, of one, or of none.
- The inputs of the programs that are not run are fixed (`Unless`), and a program
  stops at its end: deadlock is not checked in `programs`.

## Fairness

- `TimerCtrl!FairSpec`: weak fairness of `tmrProcessList`. The timer thread is
  driven by a signal that keeps coming, and nobody keeps the mutex. In the model
  `tmrReset` is one step and the mutex is free between any two of them, so that
  weak fairness is enough; a real mutex that callers fight for has to be fair
  to the timer thread.
- `AlarmClock!ClockFairSpec`: weak fairness of the interval timer and of the timer
  thread, each of which the system never stops. None of `tmrInit`: the
  main thread may stop anywhere.
- `WheelTimers!FairSpec`: weak fairness of each thread that is inside a call,
  none of its beginning one; and strong fairness of acquiring a wheel's mutex,
  without which a timer that is added again for ever could keep others from it.
- `Programs!FairSpec`: weak fairness of `Next`, that is, as long as some process of
  the program can take a step, one does. That is enough because every program
  takes finitely many steps that change anything: nobody can be passed over
  for ever. It assumes that processes are scheduled, that a sleep ends, that
  the user of a client types a line or ends its input, and that packets arrive.

## Disagreements with the code

Each is a run that TLC has to find violated.

1. `timer_steal` (`tdengine_old.c:237`). The test for "still armed" is that the
   object names itself. Nothing clears a handle when its timer expires, so that
   a handle kept from an earlier timer passes the test with whatever timer the
   object is now, and takes it over; that caller's callback never runs.
2. `timer_short_cycle` (`tdengine_old.c:266`). The number of turns is stored in
   a `short`; 32768 turns become negative, and the timer fires within one.
3. `alarm_reinit` (`tdengine_old.c:190`). Every `tmrInit` builds the same
   controller, the allocation of an id being commented out. A second call
   clears it while the timer thread may be in `tmrProcessList`, which divides by
   `numOfPeriods`.
4. `wheel_reread` (`timer.c:214`). The test that a timer is in a wheel and the
   use of that wheel are two reads; a removal between them makes the thread
   lock the mutex of a wheel that does not exist. The second test, under the
   mutex, comes too late for that.
5. `wheel_rearm` (`timer.c:219`). That second test is whether the timer is in
   *some* wheel. If it has been removed and added to another wheel between the first
   test and the lock, it is unlinked from a list whose mutex is not held. The
   comment before it takes other threads' changes of `timer->wheel` to be dealt with.
6. `veth_mntns` (`obtain_container_veth.cpp:226`). One early return is before
   the restore of the mount namespace.

Met while modelling, and not runs of their own:

- `periodsFromStart` wraps at 2^32, which the ten slots of the controller do not
  divide (`tdengine_old.c:272`): the wheel goes from slot 5 to slot 0 there, and a
  timer armed within its delay of the wrap is early or late by a turn at most.
  `FiresByTheWheel` says so, and that, `timer_short_cycle` apart, no other timer is
  off. A controller of 100 ms periods comes to it after 13 years, one of 5 ms after
  248 days.
- A resolution is rounded down to ticks of 5 ms for the passes, but delays are
  divided by the whole of it (`tdengine_old.c:205`, `:231`): with 7 or 9 ms five seconds
  are over after 3.6 or 2.8. `WheelNotAhead` says that this is all the wheel gains.
- The result of `restore_mntns` is ignored and the search goes on in the container's
  `/sys` (`obtain_container_veth.cpp:230`).
- `memPoolInit` uses the pool it has freed when an allocation fails
  (`tdengine_old.c:338-344`).

In the small programs the models follow the code where its messages say more than
it does; the properties say what is left:

- *Lookups*: what the last command printed is returned although it is no address
  (`obtain_container_ip.cpp:113-123`; `FirstAddressWins` has that case).
- *Pipe*: a read that finds the pipe empty returns -1, which is added to the count
  and ends the loop like the end of the file (`Client.cpp:24-29`);
  `WholeBlocksMeanTheEnd` is what the count can still be relied on for.
- *Echo*: both sides unlink the name; one that is late hides the socket of the
  next server (`unixServer.cpp:59`, `unixClient.cpp:54`). `NameIsRight` says who can:
  another server, or a client that is not waiting for this server's echo, not the
  client it is to serve.
- *Locks*: the parent's second `flock` is not looked at, and it may wait for its
  child without the lock (`child_share_flock.c:35`). That it unlocked took
  the lock from the child too.
- *Fanout*: the parent of a fork that fails leaves the children it has
  (`packet_mmap.c:124`). `ChildrenAreAccounted` admits that case. `setup_socket`
  reports a failure by 1, which is not negative (line 73): the child reads from its
  standard output, and what is typed at a terminal passes for packets. The property
  admits it where the standard output can be read.
- *Table*: it is made for `max` entries, and `operator[]` never looks at `max` again
  (`bracket_overloading.cpp:14`, `:37`): with a name more it writes behind the end.
  `WithEntry` does the same; `ContainersAreRight` says that as many names fit.
- *Reuse*: functions say that both sockets are bound when a bind has failed
  (`reuse_addr_option.c:89-104`, and likewise elsewhere). With the loopback or any
  address `test_udp_diff_addr_same_port` binds overlapping ones, as
  `MessageIsTrue` admits. `test_udp_local_and_any_addr_same_port` says
  that it has bound the local and any address (line 135), and binds the local one
  twice.
- *Map*: an entry that has the key and another that has the value the user types are
  not both erased, only the first (`map_insert_look.cpp:61-77`). The search for
  "addr" compares the addresses of two literals (line 41).

## The proofs

TLC's runs are instances; the theorems below hold for every value of the
constants that satisfies the named assumptions of the modules (which every run
evaluates) and the hypothesis in the last column. They are checked by TLAPS with
SMT, Zenon and, for the temporal steps, LS4.

| Theorem | States | Needs |
|---|---|---|
| `MemPoolProofs!TypeCorrect`, `NoBlockIsShared`, `NoBlockIsLost`, `OwnersSeeOwnData` | the pool's four invariants | |
| `MemPoolProofs!PoolIsQueue` | the ring implements `FreeQueue` | |
| `TimerCtrlProofs!TypeCorrect`, `ListsAreRight`, `ListsAreSorted`, `PoolIsAccounted` | the structure of a controller | |
| `TimerCtrlProofs!CycleIsRight`, `FiresInItsPeriod` | what `cycle` and `index` mean for a timer whose delay the integers hold (`fits`); that it is neither early nor late, whatever else is armed, and a timer that the wrap meets by no more than a turn | |
| `TimerCtrlProofs!AllFireInTheirPeriod` | no timer is early or late | `WheelFits` |
| `TimerCtrlProofs!HandlesOwn`, `ImplementsService`, `NoDeadlineIsMissed` | handles and objects belong together; the wheel implements `TimerService` | `WheelFits`, `ClearsHandle` |
| `AlarmClockProofs!LoopTypeCorrect` | types, whatever the alarms and calls | |
| `AlarmClockProofs!OnlyBuiltControllers`, `EveryTakenAlarmCounts` | no controller is seen half built; every alarm taken is counted | `Inits <= 1` |
| `AlarmClockProofs!WheelKeepsTime`, `WheelKeepsUp` | passes are not ahead of the ticks of their periods and behind by lost alarms only, whatever the resolution | `Inits <= 1` |
| `WheelTimersProofs!TypeCorrect`, `OneIsTold` | types; one thread is told | `Orderly` |
| `WheelTimersProofs!CountIsExact` | the reference count is that of the references | `Orderly`, `CountFits` |
| `WheelTimersProofs!ListsStayWhole` | each wheel's list is linked both ways and has just the wheel's timers | `Orderly`, `CountFits` |
| `ProgramsProofs!NetnsRestored`, `DescriptorsAreAccounted`, `AnswerIsThePeer`, `FirstAddressReturned` | the container lookups, for any number of calls, interfaces and failures | |
| `ProgramsProofs!MntnsRestored` | the lookup of the interface ends in the host's mount namespace | `unreadable = 0`, that is, before its first early return |
| `ProgramsProofs!LockOutlivesParent` | the inherited lock, for any number of runs | |
| `ProgramsProofs!EchoesAreOwnLines`, `NamesAreRight` | the echo and the socket's name, for any number of servers and clients | |
| `ProgramsProofs!NoChildIsForgotten` | parent and children, for any number of children and packets | |
| `ProgramsDataProofs!WholeBlocksAreTheEnd` | the count of a pipe's reader, for any number of readers and blocks | |
| `ProgramsDataProofs!PipeImplementsStream` | the pipe implements `BlockStream`, for any number of readers and blocks | |
| `ProgramsDataProofs!MessagesAreTrue` | what the six functions say, for any number of calls | |
| `ProgramsDataProofs!ContainersStayRight` | sort and table, for any size, elements, names and salaries | |
| `ProgramsDataProofs!FirstAskedIsErased` | the map, for all the user may ask for | |
| `ProgramsDataProofs!TypesAreRight` | types and bounds of every small program | |

The hypotheses are not technical. Each is a limit of the program that a run
shows to be one: `WheelFits` (integers wide enough, and a number of slots that
divides 2^32 unless the wrap is out of reach; `timer_short_cycle` for the first, and
for the second `timer_stale`, in which timers are a turn early or late),
`ClearsHandle` (`timer_steal`), `Inits <= 1` (`alarm_reinit`). `Orderly` is the
calling rule of the new timer (a removed timer is not added again, or its users
take turns; `wheel_rearm`), `CountFits` that threads are fewer than a byte counts.
That only wheels are locked is not proved, as it is not so (`wheel_reread`).
`unreadable = 0` excludes the early return that `veth_mntns` shows.
`ProgramsAssumption`, which `Programs` states, only says that different
processes are different. `PipeAssumption` says that a block has more
than one byte (with one, a count that is one short is that of one block less),
`SalaryAssumption` that the table's room and the bound of its uses are numbers and
that the names are finitely many.

### The arguments

*Pool.* The invariants are inductive together with `FreeListDistinct`, that
the slots in use hold different blocks. `PoolMalloc` and `PoolFree` say what the
two critical sections do to the set of free blocks, and are used again for the
controller. That `memPoolFree` never writes over a slot in use (`FullRing`)
rests on there being a block outside the ring, the one that is freed. For
`PoolIsQueue`, `RingOrder` maps the ring to a sequence; an allocation takes its
head and a free appends.

*Controller.* Four invariants, the last two each on top of the first two:

1. `Structure` (types, distinct free list, lists and objects agree, lists
   sorted, pool accounted) needs nothing. That lists stay sorted when a turn is
   counted off is the one delicate point: `ProcessEnd` only does so when the head
   has a turn left, and then so has every timer of the list, whatever the
   callers did before; so no cycle goes below zero by counting.
2. `Timing` adds that `periodsFromStart` is `elapsed` modulo its width, and, for
   the timers of `fits`, that no jump of the wheel is ahead of them
   (`NoSlotSkipped`) and `CycleMeasuresRemaining`. `DataLemmas` has the
   arithmetic: within a round of the counter without a jump (`InOneRound`, which
   lasts as time goes on: `RoundGoesOn`) a timer is in the wheel's present slot
   exactly when it is a whole number of turns away (`SlotsOfARound`), and only for
   those does a period that goes by take a turn off (`OnePeriodLater`).
   When `ProcessEnd` leaves a period behind, no timer of `fits` is left that was
   due in it: its cycle would be 0, and sortedness would put only timers before it
   that have no turns left either. This is where `SortedByCycle` earns its place.
   Where the integers are wide enough for every delay, all armed timers are in `fits`
   (`EveryDelayFits`, `AllFit`).
3. `Near` is about the timers in whose delay the counter wraps. What `cycle` and
   slot say of the time that is left is compared with the time that is left
   (`NearDue`). Until the wrap they differ by less than a turn, the same all the
   time; as the counter wraps, the difference becomes a multiple of a turn
   (`NearMovesOn`), which can only be one turn or none (`TurnOrNone`), and stays that.
   A timer fires when both are 0. There is no second wrap, for which a timer would
   have to be more than a turn overdue.
4. `HandlesOwnTimers` adds that a handle with a request points to an armed
   object of its own. It is inductive only if an expiring timer's handle
   is cleared: otherwise the handle points to a free block, which is armed for
   another later.

`ImplementsService` maps `ResetArmed` and `ResetNew` to `Reset`,
`ProcessExpired` to `Expire`, `ProcessEnd` to `Advance` and the rest to
stuttering. That `Expire` is enabled is `ExpiresWhenDue`, and that `Advance` is
needs `Structure`, `Timing` and `HandlesOwnTimers`.

*Alarm loop.* `LoopInv` relates the progress of `tmrInit` to what is built, and
says that the timer thread has seen a signature. `KeptInv` adds, while the history is kept, that alarms are
taken before they are counted and that only controllers that are ready make
passes; the account of ticks (`TicksAccounted`) is inductive with these.
`ClockInv` is that, or a history without passes.
`WheelKeepsTime` follows by arithmetic, from a period being its ticks times those
of the alarm (`Scaled`).

*New timer.* `ThreadInv` is about who may touch `timer->wheel` without a mutex. A
thread that adds a timer to a wheel has it to itself (`AddersAreAlone`), because the
timer is unknown to others or its users take turns; so what a thread has read of
`timer->wheel` can only have become "no wheel" since (`ReadWheelLasts`), which is what
the second test, under the mutex, looks for. So whoever passes that test holds the
mutex of the wheel the timer is in, which without the calling rule is not so
(`wheel_rearm`). With it `OneIsTold` follows: who passes takes the timer out for the
first time since it was added.
For `CountIsExact` the references are counted as a finite set, the map's, the
wheel's and the threads'; every step adds or takes one, and there are never
as many as a byte counts.

`ListsStayWhole` does without an induction along the links. What is linked
behind a head is the least set that has the head and with each timer the next one
(`Chain`); that a list is that set is kept by every step, because a set that is
closed under the links after the step gives one that is closed under them before
it, and the other way round: with the new head taken out or put in
(`HeadIsLinked`), or with the timer that is unlinked (`OthersAreLinked`). The
mutex matters here: by `ReadWheelLasts` who unlinks a timer holds the mutex of
the list it is in, so that head and neighbours are those of one list. A
timer that is being added has a wheel and is in no list yet, which is why
`ListInv` speaks of `BeingAdded`.

*Lookups.* `LookupInv` says that while the process is in a namespace of the
container, `cur_fd` leads back, or the kernel has refused to let it back before; and
that it is the one open descriptor but for those of the early return. For the mount
namespace the first half is only true until that return is taken (`MntInv`).
`AnswerInv` adds that the number looked for is the pair's or none an interface has;
`AddressInv` that no command before the last one printed an address.

*Locks.* `LockInv` says whose the lock is between `flock` and `fork`, which is where
the child comes in, and that no child sleeps before. That programs without locks
have no process that sleeps is a fact about all their steps (`NobodyElse`).

*Echo.* `EchoInv`: a server that is about to write has read the line of the client
it serves, or that client has gone; a server that has its client still to serve
(`Serving`) keeps its name until another removes it (`RemovedByOther`), because
that client, once it has sent a line, comes to its unlink by way of the echo only.

*Fanout.* `FanInv`: the children that are unborn are the first n (`UnbornAre`), and n
is 0 once the parent waits. It has waited for as many as there are when the set of
those that are over is as large as the set of all, and so is the same.

*Pipe.* Instead of a sum over the clients, `PipeInv` has a set: `BlocksRead` are the
pairs of a client and the number of a block it has read, and its size is
what they have read together. A block that is taken from the pipe adds one
(`OneMoreBlock`), so what is in the set and what is in the pipe make up what was
sent, until the server is over and no reader that has read from it is left
(`PipeIsDry`). Counts in bytes are compared in whole blocks (`WholeBlocks`). A
client whose count is whole has read 0, not -1, at the end: it found no writer,
and so there is nothing more to come. For `PipeImplementsStream` a read is a `Take`
of the client's next block, which `OneMoreBlock` names, or a `Tell`, or nothing; a
`Take` and a `Write` lose nothing, as the sum says, and before the server writes
there is nothing to lose (`NothingYet`).

*Reuse.* `ReuseInv` says that the sockets earlier functions have left open are not
bound, and that those of the running function have what it opens them with
(`SixFunctions` lists that), one for each step that is done. So a bind can only
fail for the function's own first socket, and two sockets of one function are of
different protocols, on different devices or reuse their address, but for
`test_udp_diff_addr_same_port` (`TestsDiffer`).

*Containers.* That a range of positions has a largest element (`RangesHaveLargest`) is
an induction, done by hand from the library's theorem that `<` is well-founded:
a shortest range without one is not the shortest. An exchange is its own
inverse on positions, so the two arrays have as many positions of each element
(`ExchangesKeepElements`). For the table, `OneEntry` is what a name has in it before
and after `operator[]` grows it; entries of different names are no more than names
(`NamesFit`). For the map, what the loop has visited was not asked for, so that
the entry it erases is the first.

*Types.* `Types` has the programs' processes in the domain of `at`, and that calls
which returned early are fewer than calls while one is running; a step of one
program leaves the others' processes alone (`OthersLeaveAll`). The bounds that are
not assignments' own come from the invariants above: at most as many bytes as blocks
(`PipeTypesAre`), at most as many descriptors as calls (`LookupTypesAre`), at most
as many children waited for as there are (`FanTypesStep`).

### Checked by TLC only

Liveness: `RequestServed`, `PassesGoOn`, `RemovedIsFreed`, `ProcessesEnd`. Temporal
reasoning about fairness and ENABLED is out of the prover's reach. Every
invariant and every refinement that a passing run checks is also proved, and so is
its one action property (`FiresInItsPeriod`).

## Mutants

Beside the definitions that model the code stand mutants of them: the same
operator with an error a programmer could make (a dropped reset, an off-by-one,
a swapped order). No specification uses them; `PROJECT.json` says which
property TLC finds violated when a mutant takes the place of its original.
Every property of a passing run has one.

## What is not modelled

- `memPoolInit` when one of its own allocations fails: it frees the pool and goes
  on using it. `memPoolCleanup`: its only call passes NULL, which `AlarmLoop`
  has as the end of the process (`InitPoolFails`).
- A callback that calls `tmrReset` on its own controller: it would wait for the
  mutex its own thread holds. No step follows, so there is nothing to check;
  it is listed as a hazard.
- Failures of `pthread_mutex_lock` and `unlock`, which the code only reports.
- The position of a timer within a wheel of `timer.c`, as nothing scans the
  wheels yet, and `getNextTimerId`, which nothing calls. The lock of a map bucket
  spins; it is held for a bounded time and is one step.
- The text handling of the lookups (`strtok`, `atoi`, the reading of `/sys`,
  `is_valid_ip`) is reduced to what it can produce: the right number, 0 for a text
  without digits, -1 for failure; an address, a line that is none. The buffers
  `obtain_container_veth` allocates and never frees are not counted.
- `operator[]` of the array: it lets the index `MAXSIZE` pass (`array_template.cpp:26`),
  but keeps no state, and `main` does not use that index.
- What programs print, but for the messages a property is about; the destructor
  and `display` of the table; which child gets which packet.
- The demo of the old timer: it arms three timers and prints.
- The programs of the last rows of the table above. They keep no state, or share
  none: two threads increment a variable each has for itself; a filter is
  installed and a call made; a value is printed.

## Plan

Order: what matters most first, abstract promise before detail, each module
checked before it is proved about.

1. Done: the old timer. `FreeQueue`, `MemPool`, `MemPoolThreads`, then
   `TimerService`, `TimerCtrl`, then `AlarmLoop`, `AlarmClock`, with proofs.
2. Done: `WheelTimers` and its proofs, and the lookups, `VethLookup` and then
   `ContainerAddress` on what they share, `Namespaces`.
3. Done: the programs of several processes, `SharedLock`, `NamedPipe`, `UnixEcho`,
   `PacketFanout`; those of one, `AddressReuse`, `NameMap`, `ArrayTemplate`,
   `SalaryTable`; `Programs`, which composes them, and `ProgramsProofs`.
4. Done: the proofs about the data of the small programs (`ProgramsDataProofs`) and
   about the lists of the new timer.
5. Done: the abstract stream above `NamedPipe`, and that the pipe implements it.
6. Left, where the code grows: a scan of the wheels in `timer.c`, which would
   make `WheelTimers` implement `TimerService` as `TimerCtrl` does.
