# usbx_nxdk: models, checks and proofs

This directory holds the TLA+ project for usbx_nxdk, which runs the USBX host
stack and NetX Duo on the original Xbox with nxdk. The repository's own code is
small: a glue that gives USBX and NetX the ThreadX calls they expect on top of
Windows primitives (`threadx_glue/`), an in-memory Ethernet driver for NetX
(`nx_nvnet_network_driver.c`), and a program that brings the host up (`main.c`).
USBX and NetX Duo themselves are git submodules and are not in the tree. They
appear in the models as callers and environment only, and the map marks what
stands for them as external.

Everything hard in this code is about order: threads that share words without a
lock or under a lock they leave and re-enter, an interrupt routine between any
two of their steps, a table that one caller changes while another walks it, and
calls whose status is computed after the fact.

## Inventory

| Part | State | Operations | Hard behaviour | What makes it correct |
|---|---|---|---|---|
| Event flags groups, `glue.c` 29-106 | flag word, critical section, the getter's locals, the tick counter | create, delete, get, set | getters poll and leave the section between polls; the word is written from a local copy; the status comes from a second look at the clock | no update is lost; a grant is atomic; the status says what happened; waiters make progress |
| Mutexes, 108-152 | named kernel mutex | create, delete, get, put | recursion, owner that exits, creates that fail, objects shared by name | exclusion; the status of a get tells whether the caller owns it |
| Semaphores, 154-199 | named kernel semaphore, a count beside it | create, delete, get, put | timeouts, the ceiling, creates that fail, name space, unlocked `++`/`--` | independent counting semaphores, no handle leaks |
| Thread registry, 201-222, 240-301 | doubly linked list of control blocks, kernel threads | create, identify, delete, exit | no lock; walks over blocks that are inserted and removed; threads that run before they are listed | the list is what was created; a thread finds itself |
| Suspend, resume, info, 303-359 and 392-404 | `tx_thread_state`, `tx_thread_suspending`, the kernel's suspend count | suspend, resume, the same for NetX | state stored after the kernel call, calls of several threads about one, a thread that suspends itself | the state agrees with the kernel; a wake-up is not lost |
| Timers, time, posture, priorities, 224-238, 278-288, 361-389, 411-421 | none of the glue's own | stubs, assertions, direct kernel calls | preemption_change does nothing, although the network driver counts on it | - |
| nvnet driver | table of slots, link flags, multicast entries, the packet of a call | every `NX_LINK_*` command, output, receive | calls of different IP instances overlap; copies fail half way; slots are reused | the table and NetX agree; frames reach exactly whom they are for; each packet is released once |
| Bring-up, interrupt routine, `main.c` | signal per root hub port, enumeration semaphore, change bits | initialise, register, inject, isr | main and the interrupt routine increment the same word; devices that raise no interrupt | no port change and no wake-up is lost; each changed port is scanned |
| Host change callback, headers, `Makefile` | none | prints, constants, limits | - | - |

How they interact: USBX and NetX call the glue from their threads and use
`_tx_thread_current_ptr`, which is a walk of the thread registry. NetX holds a
mutex of the glue around each call of the driver, one per IP instance, so the
driver sees one call at a time of each instance and any overlap of several. The
interrupt routine runs the OHCI handler, which sets port signals and puts the
enumeration semaphore; the enumeration thread of USBX takes it.

## Modules

| Module | Models | Notes |
|---|---|---|
| `TxApi` | the constants of `tx_api.h`, when flags satisfy a request, what a set does to the word | shared by the next two |
| `EventFlags` | abstract: a group whose get, set and failed get are single steps | promise |
| `TxEventFlags` | detailed: `_tx_event_flags_*`, each access to the word, the critical section and the clock a step | implements `EventFlags` |
| `MCTxEventFlags` | the requests of the small instances | |
| `TxEventFlags_proof` | proofs about `TxEventFlags` | |
| `Semaphores` | abstract: independent counting semaphores | promise |
| `TxSemaphore` | detailed: named kernel objects with handles, and the glue's count read and written apart from them | implements `Semaphores` |
| `MCTxSemaphore` | the names of the small instance | |
| `TxSemaphore_proof` | proofs about `TxSemaphore` | |
| `Mutexes` | abstract: independent recursive mutexes with one owner, abandoned when it ends | promise |
| `TxMutex` | detailed: named kernel mutexes with handles, and what each call returns | implements `Mutexes` |
| `TxSuspend` | suspend and resume, each access to the control block and to the kernel's count a step | |
| `TxKernel` | composes `TxMutex` and `TxSuspend`: threads that use mutexes and suspend one another anywhere | implements `Mutexes` |
| `MCTxKernel` | what the threads of the small instance may do | |
| `TxMutex_proof`, `TxSuspend_proof`, `TxKernel_proof` | proofs about the three | |
| `NetxWait` | extends `TxSuspend` with the way NetX makes a thread wait and wakes it | |
| `TxThread` | the registry's list link by link, with `LIST_ENTRY` reads and writes as steps | |
| `TxThread_proof` | proofs about `TxThread` | |
| `NetxApi` | requests, statuses and frame types of the NetX driver interface | |
| `VirtualEthernet` | abstract: an Ethernet segment in memory with memberships and owed copies | promise |
| `NvnetDriver` | detailed: the slot table, the command entry, output and receive | implements `VirtualEthernet` |
| `MCNvnetDriver` | the requests of the small instances | |
| `NvnetDriver_proof` | proofs about `NvnetDriver` | |
| `UsbHost` | `main`, `isr`, and the enumeration thread they talk to | its semaphore is what `Semaphores` promises |
| `UsbHost_proof` | proofs about `UsbHost` | |

In every model the program counters are labels named after the place in the
code, one action stands for the code between two accesses to shared state, and
an action's `UNCHANGED` lists what the code leaves alone. Operators that start
with `Mut` are broken variants of the definition after them. No specification
uses them; they say which mistakes the properties catch.

### How state and actions correspond

* `TxEventFlags`: `current` and `c` are the members of the group, `timeout`,
  `seen` and `satisfied` the locals of a get. `GetCall`, `GetEnter`, `GetRead`,
  `GetClear`, `GetLeave`, `GetTest`, `GetReturn` follow `_tx_event_flags_get`
  line by line; `SetCall` to `SetLeave` follow `_tx_event_flags_set`. The
  deadline of a finite wait is an arbitrary number, because the code leaves its
  local uninitialised (line 51, set only for the two special waits at 55-56).
  `result` is what the last call returned, `NoStatus` while one is in progress. `edge`
  is history and no state of the code: whether the last call was a get during which
  the tick counter stood at its greatest value. No action reads it.
* `TxSemaphore`: `handles` and `count` are the kernel's, per name; `tx_count` is
  the glue's. A get is decided by the kernel first (`GetTaken`, `GetTimesOut`)
  and counted later in two steps (`ReadCount`, `WriteCount`); then the status is
  computed from the kernel's answer (`GetStatus`, `PutStatus`) and stays in `status`
  until the next call. In `Semaphores` it is what the caller was `told`.
  A create may fail: the block is then `broken`, and every call on it fails.
* `TxMutex`: `handles` and `object` are the kernel's, per name: how many handles,
  and the owner, the depth and whether the last owner ended while it owned it.
  The glue's own state is the handle only. `held` counts what each thread was told
  by the statuses, which is all a caller can go by.
* `TxSuspend`: `count` is the kernel's suspend count; a thread takes a step only
  while it is zero. `state` and `suspending` are the words of the control block,
  which the caller writes before (`SuspendCall`) and after (`SuspendState`,
  `SuspendFlag`) the kernel call. `overlapped` and `nested` remember what the
  property needs of the past: whether the last call about a thread began in the
  middle of another one, and whether the thread was suspended on top of a suspend.
* `TxKernel`: a step of a mutex call, or of a call about a thread, by a thread that
  runs. A waiter for a mutex that is suspended gets it only after it is resumed.
* `NetxWait`: `queue` and `netx` are NetX's; the calls in between are the actions of
  `TxSuspend`.
* `TxThread`: `flink` and `blink` are the links, `saved` the neighbours that the
  list macros hold in locals. `id_known` becomes true at some point after the
  thread may already run, since the kernel may store the id late. A create whose
  `CreateThread` fails lists a block without a thread, which no delete takes out.
* `NvnetDriver`: `slot` is `nx_nvnet_driver[]`, with an address as one value
  where the code keeps two words. `call` holds the locals of the driver call of
  each IP instance. The loops over slots and entries take one step per test.
* `UsbHost`: `InjectRead` and `InjectWrite` are the two halves of the `++` in
  line 110 of `main.c`. The interrupt routine is one step, for no thread runs
  while it does. The reset of the signal and the scan are USBX's, in the order
  reset first, scan then.

## Runs

| Run | Question | Instance and why it is enough |
|---|---|---|
| `event_flags` | Do getters and setters that interleave at every access implement the atomic group (`ImplementsAtomicFlags`), is a copy about to be written back still the word (`CopyIsFresh`), is `TX_SUCCESS` true and does a wait for ever end only with its flags, but for the calls that meet the greatest tick (`SuccessMeansSatisfied`, `ForeverGetIsGranted`), does a polling waiter see flags that stay set (`StandingFlagsAreSeen`), and do calls that do not wait return (`NonWaitingCallsReturn`)? | two threads that contend for the section, two flags, gets of different options and waits, sets, and a clock that reaches `ULONG_MAX` and wraps while calls are in progress. A lost update needs two threads; the clear of one flag must leave another alone, hence two flags. Safety is proved for all sizes. |
| `event_flags_taken` (violated) | Does a get that took its flags say so? | the same calls, the clock below the wrap. It does not: see findings |
| `semaphores` | Are blocks of different names independent counting semaphores, and does the status of each call say what became of it (`ImplementsSemaphores`)? Does each object have as many handles as blocks (`HandlesCounted`)? | two threads, two blocks, maximum 1: empty and full are both one step away, and either create may fail. `UlongSize` 3 makes the count wrap. The threads are interchangeable (`SYMMETRY`). Proved for all sizes. |
| `nvnet_one` | Does the driver of one IP instance implement the virtual Ethernet, every command included? | four interfaces for three slots, so that an attach is refused and a copy can fail between two others, two multicast entries, every command and frame type, copies that fail anywhere. Proved for all sizes. |
| `nvnet_two` | Two IP instances. When attach and detach run alone: is every frame delivered to the owner of a slot (`DeliveredToOwners`), does it reach everyone it is for (`ReachesAddressees`), do the table and NetX agree between them (`TableAgrees`), and does output find no slot half attached (`SettledWhenAlone`)? Whatever overlaps: is each packet stripped and released exactly once (`PacketAccounted`)? | three scenarios, chosen at the start: attaches and detaches alone, with three interfaces for two slots so that an attach is refused and slots change owner; changes of address alone too, so that an interface that took the frame's address before the send began must be reached; and everything overlapping. A thread that follows a null pointer stops. Proved for all sizes. |
| `nvnet_output_race` (violated) | Is the slot output uses the one it tested? | see findings |
| `nvnet_link_down` (violated) | Does an interface whose link is not up get no frames? | two interfaces; see findings |
| `threads` | With creates and deletes one at a time, is the list sound (`ListIsOrder`), does every listed thread find itself (`ListedThreadIsFound`) and does its walk end (`IdentifyReturns`)? | three threads and main: one block in front of, at, and behind a walk; any of them may have no thread behind it. A deleted block is created again while a walk stands on a listed one, so that blocks keep being taken out and put back in front of the walk. Safety is proved for all sizes. |
| `threads_assert` (violated) | Can `UX_ASSERT(0)` of identify be reached? | see findings |
| `usb_host` | Is every wake-up met (`SignalIsMet`), every change remembered (`ChangeIsRemembered`) and every changed port scanned (`EveryPortScanned`)? | two ports, a third slot without a port, a semaphore that is full at two. Safety is proved for all sizes. |
| `thread_control` | Threads that get and put mutexes, suspend and resume one another and themselves, and end anywhere: are these recursive mutexes (`ImplementsMutexes`), do the statuses tell who owns them (`HeldMeansOwned`, `OwnedMeansHeld`), and does `tx_thread_state` agree with the kernel after an undisturbed call (`StateAgrees`)? | three threads, two mutexes, depth two, at most two suspends, in three scenarios: the mutexes alone; three threads suspending and resuming one, itself included; and one mutex for three threads of which one suspends itself and is suspended and resumed by another. Two suspends nest, and a third is refused. All but the bounds is proved for all sizes. |
| `netx_wait` (violated) | Does a thread that is woken from a wait in NetX run? | one waits, another wakes it: see findings |

Bounds: `ULONG_MAX` is 2 in the runs of the event flags, so that 0, a deadline and the
greatest tick differ. `LastTick` is where the clock stops; in `event_flags` it is
`ULONG_MAX`, which means that it does not stop but wraps, in `event_flags_taken` it is
one below, because the finding needs no wrap.
`MaxCount` stands for 4096, `NumSlots` and `NumEntries` for the sizes of the
driver's table, `MaxSignal` keeps a port quiet while its signal is that high. `MaxDepth` bounds how
often a thread gets a mutex it owns, and `MaxSuspend` stands for the kernel's 127.
No state constraint is used.

`CHECK_DEADLOCK FALSE` is set in four configurations: `TxSemaphore_names.cfg` and
`TxKernel.cfg`, because threads may wait for ever, be suspended for ever, or end;
`NetxWait.cfg` for the same reason; and `Nvnet_two.cfg`, because a thread that has
faulted never goes on.

### Fairness

* Event flags: weak fairness of the steps of a thread inside a call (Windows
  schedules ready threads of one priority in turn; the glue gives all of them
  the same priority) and strong fairness of entering the critical section, which
  hands the section to its waiters in order. Nothing makes a thread begin a call
  and nothing makes the clock advance.
* Threads: weak fairness of each running thread inside a call.
* Host: weak fairness of main, of the enumeration thread and of the interrupt
  (level sensitive: it stays asserted until it is taken). Nothing makes a device
  come or go.

## Findings

* `event_flags_taken`: `_tx_event_flags_get` computes its status from the clock
  only (line 89). A `TX_NO_WAIT` get has a deadline of now, so a get that found
  its flags and cleared them returns `TX_NO_EVENTS`; the event is lost.
* `nvnet_output_race`: output disables preemption around its walk, but the glue
  does nothing for that, and attach sets `in_use` before the pointers. A send
  can meet a slot with a null IP pointer.
* `nvnet_link_down`: output and the receive path never read `link_up`. The trace of the
  run attaches two interfaces and sends at once: the frame reaches one whose link was
  never enabled, although the comment of `NX_LINK_ENABLE` (driver, 313-315) says that
  this is the command after which packets can be transmitted and received.
  `NX_LINK_DISABLE` clears the same flag and has no more effect.
* `netx_wait`: NetX puts a thread in a queue, and later suspends it with
  `_tx_thread_system_suspend`. In between another thread can take it out and resume
  it; the resume of a running thread does nothing, and the suspend after it is never
  undone. The counter that ThreadX uses to keep others out in between is never read.
* `threads_assert`: a thread with auto start runs before its block is in the
  list; using `_tx_thread_current_ptr` then runs into `UX_ASSERT(0)`.

Met while modelling and visible in the models, without a run of their own: the
deadline of a finite wait is uninitialised (`glue.c` 51); at the greatest value of the
tick counter a wait for ever may end without flags, or with flags and `TX_NO_EVENTS`,
and after the wrap a get that left the loop there without flags answers `TX_SUCCESS`
(87, 89); a get that must not wait, called at that tick, polls on if it is delayed past
the wrap; two instances that
attach at once can take the same slot (driver, 231-240); `GET_STATUS` answers
for interface 0 whatever interface is asked (521); a multicast address joined
twice is delivered twice (467); recycling the control block of a deleted thread
can lead a walk through deleted blocks to a null link (`glue.c` 255); the
semaphore's own count drifts, since timeouts and refused puts change it (177,
197); named objects are shared between blocks of one name (112, 157); a mutex whose owner
ended is handed to the next get with `TX_MUTEX_ERROR` (150), so its new owner does
not know that it has to put it.

## Proofs

`TxEventFlags_proof` holds for every set of threads, flags and requests.

* The inductive invariant `SectionInv` has the types, the fact that a thread is
  between enter and leave exactly when it owns the critical section
  (`SectionOwned`), that a copy about to be written back is the current word
  (`CopyIsFresh`), and that nobody is in a call on a group that does not exist.
  `CopyIsFresh` alone is not inductive: without ownership another thread could
  be about to write. `SectionTheorem` gives it, `TypeTheorem` and `FreshTheorem`
  its parts.
* `RefinementTheorem`: the initial state maps to an initial state and each step
  to an abstract step or a stutter. A get is granted at the step that reads or
  clears the word, a set takes effect at its write, a get is declined when it
  leaves the loop. `SameOperators`, `OnlyOnePhase` and `StutterOfOne` reduce each
  action to what changes for one thread.
* `SuccessTheorem` and `ForeverTheorem` hold of a clock that wraps as of one that does
  not. The one case in which the code breaks the promise, a get in progress at the
  greatest tick (`edge`), is named in the properties and in `DeadlineInv`, the invariant
  they rest on: a deadline that was passed stays passed until that tick.

`UsbHost_proof` holds for every number of ports and slots and every maximum
count.

* `TypeTheorem`: the injection stays inside the array.
* `SignalTheorem` and `ChangeTheorem` rest on `SilentUntilArmed`: no signal is
  set before the controller is registered. Without it the enumeration thread
  could pass over the port of a controller that is not registered yet and leave a
  signal that no token announces.

`TxSemaphore_proof` holds for every set of threads, blocks and names, every maximum
count and every width of the glue's count.

* `SemInv` has the types, the handle count, that a thread outside a call has no
  block, and that the kernel's answer in a call is one its kind can get (`Decided`). The handle count is what makes a delete keep its type (there is a handle to
  close) and a create start from its own initial count (there is none yet).
* `SemaphoreRefinement`, for blocks with names of their own (`NamesDiffer`): a get is
  decided at the kernel's wait, a put at the release, the two accesses to the glue's
  own count stutter, and the status tells the caller which it was.

`TxMutex_proof` holds for every set of threads, blocks and names and every depth.

* `MutexInv` adds to the types that a thread in a get is alive and within the depth
  (`RequestsOpen`), that an object no handle leads to is as good as new
  (`NoStrayOwner`), that only what exists is held (`HeldOpen`), and that only an owner
  that ended leaves a mutex abandoned (`OnlyBequeathed`). Without `NoStrayOwner` a
  block created anew could come with the owner of a deleted one, and neither
  `OwnedMeansHeld` nor the refinement would survive the create.
* `StatusNeverOverpromises`, `StatusNeverHides` and `MutexRefinement` follow; the last
  for blocks with names of their own.

`TxSuspend_proof` holds for every set of threads and every maximum suspend count above
one, under `SuspendAssumption`.

* `SuspendInv` says of the only call about a thread (`OnlyCall`) how far it has brought
  the marks (`Progress`), so that its end leaves them right, and that a thread
  suspended more than once is marked as nested (`NestedCounts`), which is the one case
  where a call that is refused leaves `tx_thread_suspending` set. `OneCallMoves` is the
  step that all parts of a call share: what it leaves alone and has to establish.
* `MarksAgree` and `SuspendType` are the results.

`TxKernel_proof` shows that each step of the composition is a step or a stutter of each
part (`MutexSteps`, `SuspendSteps`), and so carries the results over: `KernelLocks`,
`KernelStatus`, `KernelRefinement`, `KernelTypes` and `KernelMarks`.

`TxThread_proof` holds for every set of threads whose callers are `Careful`: one create
or delete at a time, and the block of a deleted thread used again only while every walk
stands on a listed block, on the anchor or at its end. The run `threads_assert`
shows what happens to others.

* `ListInv` says of each link where it leads while a create or delete is half done.
  `Backward` holds of every `Blink`. `Forward` holds of every `Flink` but the one that
  is `Diverted`: the tail's when it already leads to the new block and the anchor's
  `Blink` does not yet, or the one that already leads past a block on its way out.
  `Inserts` and `Removes` are what the writer's locals know of its block. `ListIsOrder`
  itself speaks of a list that nobody writes, so it says nothing in between.
* `ListTheorem` and `TypeTheorem` follow: no macro writes through a null link.
* `FoundTheorem` needs more than the list: a walk may stand on a block that has been
  removed. `Finds` says that the walk is inside some set of blocks that no link leads
  out of before it comes to the walker's own block, and that has no block listed behind
  that one (`NotBehind`). An insert goes behind every listed block, so neither it nor a
  remove leads out of such a set; a block that is created again loses its link, and then
  the blocks listed up to the walker's own are such a set (`PrefixLeads`).

`NvnetDriver_proof` holds for every set of IP instances, interfaces and requests and every
number of slots and entries. `Apart` is what most of it assumes: attach and detach run
alone, or there is a single IP instance. `CallInv` needs no such condition.

* `CallInv` has the types, that each label of a call goes with the commands that lead
  to it, and what the packet of a send has been through. `TypeTheorem` and
  `PacketTheorem` follow, whatever overlaps.
* `TableInv` says that a slot is whole (in use by an interface with its own IP instance, or as
  free as at the start), but for the slot an attach or detach has written in part
  (`WholeSlots`); that an interface has one slot (`OneSlotEach`) and NetX knows of it
  (`ValidHeld`); and how far each attach, lookup and output has come. A half-written
  slot is nobody else's concern by `Exclusive`: commands that are to run alone do.
  `TableTheorem` and `SettledTheorem` follow. For one IP instance `OneInstanceSettled` needs
  nothing of the callers.
* `DeliveredTheorem` rests on `OwnersInv`: each copy given so far went to another
  interface than the sender, with its own IP instance and the right queue of NetX.
* `ReachesTheorem` rests on `WalkInv`: for an address that does not change under the walk, every
  slot behind the walk whose owner is meant by address has its one copy (`Reached`), no slot
  ahead of it has any, and the slot whose groups are compared (`Comparing`) is not meant
  by address. The property speaks of the end of the walk only, so it is not inductive.
* `EthernetRefinement`: the driver of one IP instance (`OneInstance`) implements
  `VirtualEthernet`. `SegmentInv` adds how far the loops of a command have searched
  (`Searched`) and, for a send, that the copies given are those wanted by the slots
  behind the walk, with those of the entries passed in the slot it is at (`Counted`).
  Then one lemma per kind of action: what searches is not seen (`SearchUnseen`), each
  answer is a step of its own, and a copy is delivered to somebody it is owed to.
  The other hypothesis, `GroupsNamed`, says that nobody joins or leaves the zero address.
  That is the mark of a free entry: the code accepts such a join any number of times and takes
  no entry for it, so the refinement is false of the code without it. NetX makes the address of a
  group, which starts with 01-00-5E or 33-33. The constants of `nvnet_one` meet both.
  The abstract variable `room` counts the free entries, so that a join can be refused
  without summing over groups.

Assumptions of the proofs are the named `ASSUME`s of the modules and the conditions
named above, nothing else. Every invariant and every refinement that a passing run
checks is proved. Only model-checked are the liveness properties (`StandingFlagsAreSeen`,
`NonWaitingCallsReturn`, `IdentifyReturns`, `EveryPortScanned`), because fairness is out of the
prover's reach, and what the violated runs show.

## Assumptions

* Callers create an object before they use it and delete it when nobody uses it
  (USBX and NetX do). In `TxSemaphore` an object's block is deleted between
  calls only, in `TxEventFlags` and `TxMutex` the same. An owner may delete a mutex
  it owns.
* In the first two scenarios of `nvnet_two` attach and detach do not overlap other calls
  (`AttachesAlone`), and in the second changes of address do not either. With a single
  IP instance NetX's mutex makes that true.
* Nobody joins or leaves the multicast address zero (`GroupsNamed`).
* Blocks have names of their own where a property says so (`OwnNames`, `NamesDiffer`).
* Each access to a word, each kernel call, and what NetX does between `TX_DISABLE` and
  `TX_RESTORE` is one step.
* In `threads` creates and deletes are one at a time, and the block of a deleted thread
  is used again only while every walk stands on a listed block, on the anchor or at its
  end (`Careful`). The glue does not enforce it.
* The OHCI controller raises no interrupt before `ux_host_stack_hcd_register`
  has reset and enabled it. `main` connects the interrupt well before.
* The kernel may refuse to create a mutex, a semaphore or a thread, and USBX the
  registration of the controller; the initialisation of USBX succeeds.
  `NX_DIRECT_ISR_CALL`, VLAN support and the debug output of the driver are not
  compiled in.
* `NX_LINK` requests name an interface of the IP instance that makes them.

## Not modelled

* USBX and NetX Duo themselves: submodules that are not in the tree. What of them the
  models need is marked external.
* Waits of NetX with a time limit, which `tx_thread_timer` would end: nothing counts it
  down. Interrupts under `TX_DISABLE`: what it protects is NetX's state.
* The kernel's reference that `_tx_thread_create` takes and never drops, and objects
  deleted while somebody uses them.
* `irq_process` and `dpc` (`main.c` 36-52): the routine returns before it queues
  the DPC, so nothing ever sets the event the thread waits on.
* `host_change_function`: it only prints. Timers: they only assert. Sleep,
  relinquish, priorities, posture: direct kernel calls or constants.
* Memory pools, thread stacks and their limits, `tx_thread_id` and the other
  magic numbers: no behaviour depends on them here.
* What the frame contents are: the driver copies them. An address, a group and a
  frame type are model values.

## Plan

Order: the event flags first, because every transfer of the stack waits on one
of the glue's primitives and this is the only one the glue builds itself; then
the network driver, the largest part; then the registry, the semaphores and the
bring-up; then the mutexes, suspending, and the two composed. These exist, and so do
the proofs named above. What is left:

1. A composition of `NvnetDriver` with `TxMutex`: the one-call-per-instance rule
   derived from NetX's mutex instead of assumed.
2. An abstract specification of the registry (a set of blocks, and a walk that finds the
   caller's own) that `TxThread` implements for careful callers, checked and proved.
3. Proofs about `NetxWait`, which so far has only the run that refutes its property: what
   NetX's own words of a waiting thread and the kernel's count do agree on.

The runs stay a dozen: a new module takes its run from combining those of one
component where one instance can answer both questions.
