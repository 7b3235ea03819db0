# A TLA+ model of the SIMpad software

The Siemens SIMpad is a web tablet with an SA-1110 processor. This repository
holds the software that makes Linux run on it: a Linux 2.4 tree with the SIMpad's
own drivers (`src/simpad-kernel/linux`), `serload`, the program on a PC that
downloads an image into the tablet, and two small programs for the desktop, a
control panel and a touchscreen calibration. This directory specifies the parts
that carry its own logic, checks them with TLC on small instances, and proves
the central results with TLAPS for every value of the constants.

`PROJECT.json` is the index: which definition models which lines, which run
checks which property, which hazard of the code a property is for.

## The system

| Component | State | Operations | What is hard, and what makes it right |
|---|---|---|---|
| serload (`src/serload`) | image, block count, running checksum, baud rate of the port | parse, open, load; connect (handshake, baud rate); send a block until it is confirmed; wait for burning | two programs at two ends of a line that corrupts bytes, no timeouts, unreliable `write()`. Both ends must agree on block number, baud rate and end |
| CS3 latch (`mach-sa1100/simpad.c`) | write-only latch, its shadow in memory | `set_cs3`, `set_cs3_bit`, `clear_cs3_bit`, `/proc/cs3`, power-off | read-modify-write without a lock against the timer interrupt. No update may be lost, shadow and latch must agree |
| LED events (`leds-simpad.c`) | `led_state`, `hw_led_state` | start, stop, timer, idle | runs in the timer interrupt and writes the CS3 latch |
| PCMCIA socket (`sa1100_simpad.c`, `sa1100_generic.c`) | `cs_state`, `irq_disabled`, depth of the card's interrupt | init, set_socket, suspend, resume, shutdown | voltage changes in two calls; nested `disable_irq()`; remembered state. Never two supplies, the interrupt on when asked for |
| MCP (`mcp-core.c`, `mcp-sa1100.c`) | use count, enable bit | enable, disable, register access with a timeout | counted by thread, processes and interrupt; the enable bit is lost in sleep |
| UCB1x00 core (`ucb1x00-core.c`) | ADC semaphore, interrupt enables, hooked handlers | ADC enable, read, disable; hook, enable, disable, dispatch; resume | one ADC for touchscreen and battery; registers are lost in sleep |
| Touchscreen (`ucb1x00-ts.c`) | `use_count`, `rtask`, `restart`, semaphore, completion; thread `ktsd` | open, close, the sampling loop, interrupt, suspend, resume | a thread, its interrupt, several users, kill and sleep at any point. No panic, no lost wake-up, a close that ends |
| Event ring (`ucb1x00-ts.c`) | `evt_head`, `evt_tail`, `events` | add, read, poll, clear | no lock; `copy_to_user()` may sleep. A bounded queue that nobody sleeps on while it holds something |
| Battery (`ucb1x00-simpad.c`) | none of its own | ADC readings, conversion into per cent and minutes | shares the ADC |
| Switches (`switches-*.c`) | list of events, remembered positions, `switches_users` | two interrupt handlers; open, release, read, poll; reinitialisation after sleep | one handler interrupts the other inside `list_add_tail()`; test-then-sleep in the reader; `copy_to_user()` sleeps or fails under the lock; allocation fails in the interrupt. What is read of a switch must lead to where it stands |
| SA-1100 socket services (`sa1100_generic.c`) | `k_state`, `cs_state`, the task on keventd's queue | poll timer, card detect interrupt, task, `get_status`, `set_socket`, suspend; windows and timing | two readers of the same sample, each of which makes it old for the other. No change of the card may go unnoticed |
| Card Services, socket events (`cs.c`, used through `ds.c`) | the bits of `s->state`, `s->socket` | `parse_events`, setup, reset, unreset, shutdown; the six requests of `ds_ioctl()`; power management | keventd, processes and power management share the bits without a lock and sleep in the middle of every operation. Nothing pending and no power may be left behind |
| APM (`apm.c`, `simpad_pm.c`) | users (a list that is written and never read) | open, read, ioctl, release | nothing produces events in this kernel; what remains is the call of `pm_suspend()` |
| TDA8007 (`tda8007.c`) | receive buffer, card state | open, read, write, ioctl | register sequences of one chip |
| MQ200 (`mq200fb.c`), audio (`ucb1x00-audio.c`) | hardware registers | mode setting, DMA | pure I/O over vendored code |
| Control panel (`src/controlpanel`) | values shown, clock | tabs, buttons | writes back a stale value of `/proc/cs3` |
| xcalibrate (`src/xcalibrate`) | five touched points | compute the calibration | fixed-point arithmetic |

How they interact: the LED, the socket, the UART's power management, the MQ200's
backlight and the users of `/proc/cs3` share the latch by calling the three
functions of `simpad.c`. The touchscreen, the battery code and the switches sit
on the UCB1x00 core, which sits on the MCP; the core calls the touchscreen's
handler from its interrupt and at resume. Readers meet the thread `ktsd` only
through the event ring. Card Services calls the socket services to sample and to
configure the socket, and is called back by their task on keventd when a sample
differs; the ioctls of `ds.c` and power management enter Card Services from above.
The switches at the codec are served by the core's interrupt, the power switch by
one of its own, and both feed one list. serload talks to the bootloader over the serial line.

All kernel models rest on two facts of this kernel: it runs on one processor,
and a process in the kernel gives the processor up only where it sleeps. An
interrupt can come between any two instructions with interrupts enabled.

## Modules

| Module | What it is |
|---|---|
| `SerialDownload` | serload step by step, the bootloader as serload expects it, a line that flips bits |
| `ImageTransfer` | what a download promises: the abstract specification of `SerialDownload` |
| `Cs3Latch` | the latch, its shadow and all its users at the grain of loads and stores |
| `TouchScreen` | open, close, `ktsd`, interrupt, suspend, wake-up, resume, kill, on top of the UCB1x00 core and the MCP, with a second user of the ADC |
| `TouchEvents` | the event ring between `ktsd` and the readers |
| `Switches` | the switches' device, its list of events and the two handlers that feed it |
| `SocketServices` | the PCMCIA socket: card detect pin, timer, interrupt and task of the socket services, composed with the event handling of Card Services, the ioctls and power management |
| `EventQueue` | a bounded queue: the abstract specification of `TouchEvents` |
| `SerialDownloadProofs`, `Cs3LatchProofs`, `TouchScreenProofs`, `TouchEventsProofs`, `SwitchesProofs`, `SocketServicesProofs` | theorems and proofs about the module they are named after |
| `ChecksumProofs` | what the checksum of `SerialDownload` is worth, and the refinement of `ImageTransfer`; extends `SerialDownloadProofs` |
| `SocketAloneProofs` | what `SocketServices` promises as long as calls do not cross; extends `SocketServicesProofs` |
| `MC*` | instances for TLC |

A definition that begins with the comment "Mutant:" is a plausible mistake in the
definition that follows it. Substituting it for that definition makes the
property named in `PROJECT.json` fail, which shows that the property depends on
that piece of code. No specification uses one.

### SerialDownload

`pc` is the place in `main()` and in the function it has called; every system
call that the other end can notice (a `write()`, a one-byte `read()`, a change of
the baud rate) is an action. `Write` has the four results of `write()` on the
non-blocking port: everything written, a part of it, -1, 0. The code takes 0, and
only 0, for a failure, and so does the model. `Return` shows that `main()` does
not look at what `sendBlock()` returns. A byte is the set of its 1-bits; the
checksum `(check << 1) ^ byte` in an `unsigned char` is an exclusive-or of sets
cut off at eight bits.

External: the bootloader (`Boot...`), modelled from what serload sends and waits
for, and the line. The line keeps bytes in order; a `LineError` flips one bit of
a block or of its checksum, at most once in each attempt and at most `MaxNoise`
times. Replies, marks and the handshake are not corrupted: the protocol protects
none of them. The bootloader begins to speak when the host's port is open (the
user is asked to press RESET at that point). `failed` is a history: has a
`write()` taken less than it was given? serload does not notice, and need not end
then; that is the premise of `Completes`.

Left out: the progress display, and hang-up of the line (`POLLHUP`, for which
`waitForReply()` spins).

### Cs3Latch

A handler that runs in process context sets `todo` to the list of calls it makes.
`Proceed` carries them out: load the shadow into `reg`, store `reg` in the shadow,
store it in the latch. `TimerInterrupt` runs `simpad_leds_event()` to its end
between any two of these. Suspend, resume and power-off run with interrupts
disabled and are one step. `want` is a history variable: the value that cs3 would
have if every call had been atomic.

`Bits` are the bits that the code uses. The constants are the values that users
write into `/proc/cs3` and the voltages that Card Services asks for (33 and 50
are tenths of a volt; 12 stands for one the driver does not know). `behind` is a
history: the socket's supply was changed by a write to `/proc/cs3`, or a voltage
that the socket refuses turned it off. Then `cs_state` is not what the socket has,
and `PowerStatusTrue` does not claim it.

### TouchScreen

One action per stretch between two places where a process may sleep: waiting for
`ts->sem`, for the ADC semaphore, for a conversion, for a completion, or in one of
the three sleeps of `ktsd`. `arm` is the one place in the middle of a stretch:
the thread has seen that the pen is up and is about to enable the interrupt and to
sleep, so that an interrupt may come before or after `set_task_state()`. The several conversions that are made under
one hold of the semaphore are one.

The chip is modelled as far as the drivers rely on it: the interrupt-enable and
status bits of the pen, the mode in `TS_CR`, the state of the conversion. In sleep
these are lost, and so is the MCP's enable bit, while `mcp->use_count` is kept: a
register access that finds the enable bit off (`Reached`) times out. A read that
times out returns -ETIME, in which the bit "data valid" is set; that is why
`AdcReady` accepts it. `sample` and `reported` follow the quality of what is
measured that way, and `reported` also when it was reported.

Coming back from sleep takes two steps. `Wake` is the return of `pm_do_suspend()`: the
processor runs again. `Resume` is the turn of the codec in `pm_send_all(PM_RESUME)`, where
`ucb1x00_ts_pm()` and then `ucb1x00_pm()` are called with no sleep between them. The
devices that registered last are called first (`pm_register()` adds at the head of the
list). Card Services is one of them and sleeps if there is a card, so every process and
interrupt may run while `power` is "resuming": the codec has lost its registers, and
`ts->restart` is not set yet. One process at a time is in `sysctl_pm_do_suspend()`:
`Suspend` waits for `Resume`.

The processor is interrupted by a rising edge of the codec's line. `Interrupt` is
enabled while the status bit is set, which is the same for the one source the
module has: the handler clears the bit, and the line falls. Other sources of the codec may
hold the line high; they are left out. So is the audio driver, which also counts in
`mcp->use_count`: `ClockBalanced` speaks of the users that are modelled.

The battery reader stands for all the functions of `ucb1x00-simpad.c`, which
differ in the channel only. `Kill` is a SIGKILL by root, to which `ktsd` is open.

### TouchEvents

The ring with `NrEvents` slots, of which one is kept free. `usage` is fixed at
the start of a behaviour: who reads, and whether the buffers may be paged out or
invalid. A reader is held up where it sleeps and, with `usage.faults`, in
`copy_to_user()`, that is between looking at an event and removing it; the copy may
then fail, too. `result` is the
number of events that the latest `read()` claims to have returned, `got` the number
that it has really copied. `ThreadExit` is the end of a session: the last user has
closed the device. The exit of a `ktsd` that was killed while readers are
in `read()` is not modelled here (`TouchScreen` has the kill).

### Switches

The power switch's handler runs with interrupts disabled and is one step
(`SaEvent`). The codec's handler runs with interrupts enabled. It is taken apart at
the stores of `__list_add()`, because `spin_lock()` keeps nobody out on one
processor: `UcbServe` (everything up to the load of `queue.prev`), `UcbStore`,
`UcbStoreNew`, `UcbLink`. A process runs only while no handler does. A handler can
overtake it at `"window"`, between its look at the list and its place on the wait queue
in `interruptible_sleep_on()`.

`switches_read()` takes the first event with interrupts disabled, and `ReadTake` is one
step. But `copy_to_user()` is called under the lock, and `verify_area()` looks at the address
only. If the page is not there, the fault goes to the pager, which may sleep:
`ReadFault` leaves the reader at `"copy"` with the event in its local variable `ev`, handlers
and other processes run, and `ReadCopied` goes on with `list_del()` and `kfree()`, with
interrupts disabled again. The result of the copy is ignored: `Finish`, the end of both,
frees the event whether it was delivered or not. `unread` remembers the switches whose last
event was freed undelivered, and `shared` that a reader came to the event that another
one was copying. Then both delete and free it, the second one with the pointers it finds in
the freed memory or in the descriptor that has got that memory since. That much is
modelled; what a second `kfree()` does to the allocator, and what other parts of the kernel
do with the memory, is not, and no property claims anything after it.

`Wake` and `Resume` are as in `TouchScreen`. While the system is resuming the power
switch's edges are seen, those of the codec's switches only if the touchscreen enables its
own interrupt meanwhile, which puts all of `irq_fal_enbl` into the register. `Watched` is
the set of the switches whose edges are sure to be seen.

`next` and `prev` are the pointers themselves, so that the model shows what a broken
list looks like, and `Walk` reads it as the code does. Histories: `known` is what
the events read so far tell of each switch; `lost` the switches whose latest
change made no event (device closed, `kmalloc()` failed); `stale` those that moved
unseen, at boot or in sleep; `raced` the readers that missed a wake-up; `nested`
tells that one `list_add_tail()` has interrupted another where it does harm; `unread` and
`shared` are described above. In every one of these cases the code loses something, and
the properties say that nothing else is lost.

### SocketServices

The kernel is not preemptive. A thread in Card Services is alone from one
`cs_sleep()` to the next, and an action is such a stretch: `pc[t]` names the sleep
(`"shutdown"`, `"setup"`, `"settle"`, `"unreset"`, `"asleep"` for the suspended
machine), `loc[t]` holds the locals that survive it. The operators of the first
part (`SetupSocket`, `AfterShutdown`, `BeginShutdown`, `ParseEvents`) are the
functions of `cs.c` up to the next sleep. They take the state bits as the caller
leaves them, and `Wake` is what follows a sleep. `Task` is a turn of the loop in
`sa1100_pcmcia_task_handler()`. `"again"` is the place between two turns: keventd
does not sleep there, so no process runs (`Scheduled`), but the pin may change.

Abstracted: the card does not move between two samples of one stretch (they are
microseconds apart); Vcc is on or off; READY and the comparison of
`verify_cis_cache()` are nondeterministic; a client that refuses a request is a
request that is not made. The driver is built in, and never removed. Between
`handle_pm_event(PM_SUSPEND)` and `PM_RESUME` the model lets other threads run: the
callbacks of other devices sleep, too.

Histories: `missed` (a `get_status()` put a change into `k_state` that
`parse_events()` was never told of), `ejected`, `announced` (have the clients been
sent CARD_INSERTION), `unready` (a card that did not become ready, or that was
reset while suspended), `crossed` (a thread entered while another was inside).
`NothingPending` and `HotOnlyWithCard` hold without any of them.

## Runs

| Run | Instance | Checks |
|---|---|---|
| `serial_download` | blocks of 9 bytes, files of 0 and 13, writes that are full, short or return -1, two bit errors, fair | `BlocksInStep`, `CheckIsFresh`, `TailIntact`, `SuccessMeansComplete`, `BaudAgreement`, `Completes`, `ImplementsTransfer` |
| `serial_whole_blocks` | a file of exactly two blocks, fair | `Completes`: **violated** |
| `serial_ignored_failure` | files of 0, 3 and 20 bytes, writes that return 0 | `SuccessMeansComplete`: **violated** |
| `cs3_latch` | two values of `/proc/cs3`, voltages 0, 3.3 V, 5 V and an unknown one | `LatchFollowsShadow`, `NoLostUpdate`, `NeverBothSupplies`, `CardIrqOn`, `PowerStatusTrue` |
| `touchscreen` | two users, two suspends, one kill, fair | `ClockBalanced`, `AdcExclusive`, `SessionsWhole`, `GarbageOnlyBeforeCallbacks`, `PenDetectableUnlessSlept`, `CloseFinishes`, `TouchNoticed` |
| `touchscreen_sleep` | two users, one suspend | `PenDetectable`: **violated** |
| `touch_events` | one reader with paged-out or invalid buffers, or two with resident ones; four slots, four events, fair | `NotStranded`, `PenOffSeenUnlessLost`, `ReaderDrains`, `ImplementsQueue` |
| `touch_events_fault` | one reader, invalid buffers | `ReadReturnsCopied`: **violated** |
| `switches` | a switch at the codec, the power switch, two descriptors, two readers, two moves, one sleep, two copies that sleep, fair | `ListIntactUnlessDisturbed`, `StrandedOnlyByRace`, `Alternates`, `DrainedKnows`, `PollReturns` |
| `switches_list` | three descriptors, one reader, two moves | `ListIntact`: **violated** |
| `sockets` | keventd and two processes, two looks for READY, fair | `NothingPending`, `HotOnlyWithCard`, `PresenceKnown`, `ClientsServed`, `EventMatchesCauseUnlessCold`, `DetectsUnlessMissed` |
| `sockets_missed` | keventd and one process, fair | `Detects`: **violated** |

One run of every component also checks its `TypeOK`.

### What they show

*serload.* Over a line that corrupts blocks, host and bootloader never disagree by
more than the block whose confirmation is on its way, and success is reported
only for a complete image. `sendBlock()` does not reset `check` when it sends a
block again; the result is right all the same (`CheckIsFresh`), because a block is
longer than the eight bytes the checksum remembers. For the same reason the
checksum protects the last bytes of a block only, and `TailIntact` says exactly
which bits. `ImplementsTransfer` shows that short writes and -1, which serload does
not notice, make it wait for ever but never deliver a wrong block.

*CS3.* The timer interrupt changes the LED's bit only, and so an interrupted
update can damage the LED's bit only. Both supplies of the socket are never on
together (for values of `/proc/cs3` that do not ask for it: root may write
anything). The depth of the card's interrupt is right over any sequence of
configurations, and what Card Services is told of the supply is true.

*Touchscreen.* The use count of the codec's clock is balanced whatever is
interrupted; a session is whole (`SessionsWhole`: an open never meets the thread of
an earlier one, nothing of it outlives the last close, and an open device has a
thread unless root killed it); closing ends
wherever the thread is, also across a suspend and after a kill. What is measured
while the codec cannot be reached is thrown away, thanks to `ts->restart`, from the moment
`ucb1x00_ts_pm()` has set it. In the gap before that, while the callback of another
device sleeps, the thread does report such a sample as a touch
(`GarbageOnlyBeforeCallbacks` allows that and no more). A touch between enabling the
interrupt and going to sleep is not lost.

*Ring.* With one reader, paged-out buffers do no harm: the ring is a queue. With
two readers the same holds as long as buffers are resident. (Two readers with
paged-out buffers copy the same event and then remove two.)

*Switches.* What is read of a switch alternates between pressed and released and
ends at where the driver saw it last, over closing, sleep, bouncing contacts and
failing allocations, except after a change that the driver could not keep or an event
that was freed although its copy had failed. A reader that sleeps in `copy_to_user()` finds
its event still the first one, and the list whole, as long as no second reader comes to
the list meanwhile. The
order of `ucb1x00_irq()`, which clears the status before the pins are read, loses
no edge. `poll()` is on the wait queue before it looks and cannot be stranded;
`read()` can, by the gap in `interruptible_sleep_on()` and by nothing else.

*Socket.* Threads that cross in Card Services do reach odd states (the histories
name them), but no pending bit outlives them, so that the socket never becomes deaf,
and the card is never left hot. When calls do not cross, Card Services and its
clients know what is in the socket, and the event that ends a reset is the one for
its cause, except for a reset of a suspended card, for which `pcmcia_reset_card()`
does not test.

### Where the code and its documents disagree

* `serial_whole_blocks`: ETX, which makes the bootloader burn the image, is sent
  only with an incomplete block. A file whose size is a multiple of 512 has none,
  and serload waits for ever.
* `serial_ignored_failure`: `main()` drops the result of `sendBlock()`. If a
  `write()` returns 0, a block is missing and success is reported.
* `touchscreen_sleep`: `ts->restart` is looked at only if the pen is down. After a
  sleep during a measurement the pen-up branch waits for an interrupt that the
  codec, no longer in interrupt mode, does not raise.
* `touch_events_fault`: a `read()` whose first copy fails returns the number of
  bytes that were *not* copied.
* `switches_list`: `switches_event()` uses `spin_lock()` and is called by two interrupt
  handlers, one of which runs with interrupts enabled. `spinlocks.txt` says when that
  is allowed, and this is not the case: an event is cut out of the list for good.
* `sockets_missed`: `get_status()` overwrites the sample with which the task
  compares. A card that is first seen by it is never reported, by the interrupt or
  by the timer that is there because interrupts are unreliable.

Seen while modelling, with no run of their own: the LED does not flash on timer
events, because its output depends on `led_state` only (`leds-simpad.c:99`; the
model's `LedCall` shows it); a pen-off sample that finds the ring full is dropped
(which is why `PenOffSeenUnlessLost` has its premise); `connectToSimpad()` takes a
`write()` that returned -1 for a success; the shadow of cs3 differs from the latch in
the LED's bit after a timer interrupt between the two stores (which is why
`LatchFollowsShadow` leaves that bit out; the `local_irq_save` that would prevent it
is commented out in the callers).

### Bounds, and why they are enough

* `BlockSize = 9`: one byte more than the checksum remembers, so that there is a
  byte that it has forgotten. A file of 13 bytes has a full block and a padded
  one; 20 bytes have two full blocks, 3 bytes none, 18 no remainder, and an empty
  file is refused.
* `MaxNoise = 2`: a block that is sent three times, or an error in each of the two
  blocks. The theorems cover the other values.
* `MCProcValues`: one value with everything off and one with a supply on.
* Two users: first and not-first opener, last and not-last closer, and one that
  opens while the other closes. A third adds no new role.
* `MaxSuspends = 2`: a sleep that hits the recovery from a sleep. `MaxKills = 1`: a
  second kill of the same thread changes nothing.
* `NrEvents = 4` holds three; four events overflow it, and wrap its indices.
  `MaxCount = 2`: a read that returns a part of what it asked for.
* Two descriptors: the third change in a row meets a `kmalloc()` that fails (which
  the model also allows at any other time). Two moves, from every initial position: a
  press and a release of one switch, or one handler's event inside the other's. Two
  readers share the one open device: one may take the event for which the other was
  woken. `MaxFaults = 2`: both may be asleep in the copy of one event, or one twice. With
  a third move the safety properties hold as well (2.6 million states, with one sleeping
  copy), but the run takes too long with liveness; the theorems cover all values.
* Two processes and keventd: two threads inside Card Services while a third enters.
  `UnresetLimit = 2`: a look that is repeated, and one that is the last. The theorems
  cover the other values.

Deadlock is checked for the touchscreen, the ring and the socket. serload stops
when it ends, and may wait for ever where it has no timeout; the kernel stops after
power-off; a reader of the switches may be left asleep when the last move is made.
There `CHECK_DEADLOCK` is off.

### Fairness

* `SerialDownload`: weak fairness of the host and of the bootloader (the process is
  scheduled, the user presses RESET, burning ends). None for the line.
* `TouchScreen`: weak fairness of every runnable process, of the interrupt, of the
  conversion, of wake-up and of resume; strong fairness of those who wait for the ADC
  semaphore, because `__down()` queues its waiters and each hold of it is short.
  None for opening, closing, the pen, the start of a battery reading, suspend and
  kill.
* `TouchEvents`: weak fairness of a reader that is in `read()`. None for new reads,
  for signals and for the thread.
* `Switches`: weak fairness of the codec's handler, of wake-up and resume, and of a
  reader that is on its way to sleep or in `poll()`. None for the switches, for opening,
  reading, signals and the end of a copy that sleeps.
* `SocketServices`: weak fairness of the timer (it arms itself again), of keventd, of
  every thread whose sleep has ended, and of resume. None for the card, the ioctls
  and suspend.

## Proofs

Every invariant and every action property that the passing runs check is a theorem, and
so are both refinements. The theorems hold for every value of the constants that the
named assumptions of the modules allow; where one needs more, its statement says so
(`ASSUME`), and the premise holds in the run that checks the same property:

| Premise | Theorems | Why |
|---|---|---|
| `NoZeroWrite`: no `write()` returns 0 | about the conversation of `SerialDownload` | `main()` ignores the failure; `serial_ignored_failure` is the counterexample |
| `LongBlock`: `BlockSize >= 8` | `ChecksumProofs` | the code's blocks have 512 bytes; a shorter one would let the seed show in the checksum |
| `OneInProc`: no value of `/proc/cs3` asks for both supplies | `OneSupplyAtATime` | the latch stores what root writes |
| `OneCopies`: if buffers may be paged out, one process reads | `TouchEventsProofs` | two copies that both sleep pull two events after copying one |

Induction over data is done by hand where it is needed (`ChecksumProofs`,
`SwitchesProofs`): the set of the numbers for which a claim fails has a least element
(`LeastNumber`, from the library's theorem that `<` is well-founded on `Nat`), and the
step before it leads to a contradiction. The same lemma shows that the recursive
functions of `Checksum` and `Walk` exist and what they compute.

### Cs3LatchProofs

For every set of `/proc/cs3` values and every set of voltages: `TypeCorrect`,
`LatchFollowsShadowAlways`, `NoUpdateIsLost`, `CardIrqIsOn`, `PowerStatusIsTrue`, and, if no
value of `/proc/cs3` asks for both supplies (`OneInProc`), `OneSupplyAtATime`.

The properties speak of moments when no call is under way, so they are not
inductive. The inductive invariant `Inv` adds what is true inside a call
(`Coherent`): once the shadow is loaded, `reg` is what the current call makes of
`want`, the LED's bit aside; while the shadow is not stored yet, latch and shadow
still agree; once it is, the shadow agrees with `reg`, and the latch, which gets
`reg` next, may hold anything. The timer interrupt changes the LED's bit in all of them,
hence preserves agreement in the others. For the card's interrupt the invariant
(`IrqBalanced`) is that the depth is at most 1, is 0 unless `irq_disabled` is set,
and that `irq_disabled` is not set after a configuration that asked for it.

The other two are about what a handler has still to do, so their invariants
speak of `todo`. For the supplies (`SupplyInv`): a call that switches one on comes right
after a call that switches the other one off, or it is the next one and the other is
off already; with `Coherent` this covers the latch at every load and store. For the
remembered Vcc (`StatusInv`): the last call in `todo` that writes EN0 and the last one
that writes `cs_state` agree, where what the variables hold counts if there is none
(`Ends`). When `todo` is empty that is the property. A socket that is not
initialised remembers no supply, because it is only shut down when it has none.

### SerialDownloadProofs

`TypeCorrect` holds for every block size, every set of images, every bound on the
noise and every behaviour of `write()`. `BlocksStayInStep`, `SuccessIsComplete` and
`BaudsAgree` have the premise `NoZeroWrite`: with a `write()` that returns 0 the second is
false, as `serial_ignored_failure` shows. Short writes and errors are covered.

The invariant `Conversation` is a disjunction over the phases of the protocol
(`Setup`, `Greeting`, `Negotiation`, `Resync`, `Sending`, `Accepted`, `Between`,
`Ending`, `Aborted`). Each says where both ends are, what is on the line in both
directions and how the two counts of blocks are related. A step of either end
leads from a phase to itself or to the next one, and each property is read off
the phases. Corruption of a block stays within `Sending`, because it changes
neither the number of bytes on the line nor the mark. A write that is cut short or
fails leaves fewer bytes on the line than the phase would have; the bootloader waits for the
others, so the phase never ends (which is why `Completes` has its premise).

### ChecksumProofs

`CheckAlwaysFresh` (whatever `write()` returns), `TailAlwaysIntact` and
`DownloadImplementsTransfer`, for every block size from 8 on, every image and any number of
line errors.

About the checksum alone: after i bytes its lowest i bits do not depend on the seed
(`SeedFades`), so that after eight bytes nothing of it is left (`SeedForgotten`); and a bit
flipped in one byte shows, one bit further up with each byte that follows, until it is
shifted out (`FlipMovesUp`), so that it shows in the result if it is among the bits that
`Held` names (`FlipShows`). About the protocol, `DataInv`: the block on the line, the block
that the bootloader holds and the checksum on the line are as they were sent, but for one
bit in one of the three if a line error struck the attempt. Hence a block that is
accepted has the same checksum as the one that was sent, and by `FlipShows` differs at
most in a bit that the checksum does not hold.

For the refinement `CleanInv` adds that without line errors the blocks are the very ones of
the image. With `TailIntact` the blocks received, up to the bits that nothing protects, are
then always the first blocks of the image (`ReceivedIs`): an accepted block is a
`Deliver`, `Finish` a `Succeed`, every other exit an `Abort`, and the rest stutters.

### TouchScreenProofs

For any finite set of users, none of which is named like another holder of a semaphore
(`UsersDistinct`), and any number of sleeps and kills: `TypeCorrect`,
`ClockAlwaysBalanced`, `AdcAlwaysExclusive`, `SessionsAlwaysWhole`,
`GarbageAlwaysBeforeCallbacks` and `PenAlwaysDetectable`.

The invariant `IInv` has a part for each resource. The ADC belongs to whoever is
converting (`AdcInv`). `ts->sem` belongs to the one opener or closer that is inside
(`SemInv`), and the use count is the number of those who have the device open
(`CountInv`). `PhaseInv` says what the holder of the semaphore may rely on at each of
its sleeps: while an opener converts there is no thread; while it waits, the thread either
has not completed `done` yet, or was killed; a closer that waits has not
been answered while there is a thread. `TaskInv` ties `rtask` and the signal to the thread.
Between sessions these give `SessionsWhole`. A conversion that a sleep has spoilt ends
while the system is still resuming, or finds `restart` set (`SampleInv`), and a thread that waits has its
interrupt enabled (`PenInv`).

### TouchEventsProofs

For a ring of any size and any set of readers, under `OneCopies`: `TypeCorrect`,
`NeverStranded`, `PenOffAlwaysSeen` and `RingImplementsQueue`.

The invariant: a reader that is copying copies the event at the tail, which stays there,
and is the only one (`CopyInv`); what a read still wants and what it got fit into its
buffer (`BufferInv`); the events lost and those in the ring were all made (`LostInv`); the
newest event in the ring, or the last one read if there is none, says whether the pen is
down (`LastInv`). The refinement needs the arithmetic of the ring: what `head` and
`tail` delimit is a sequence, to which filling the slot at the head appends and from which
moving the tail takes the first element, wherever the indices wrap.

### SwitchesProofs

For any switches, readers and descriptors: `TypeCorrect`, `StrandedAlwaysByRace`,
`ListAlwaysIntact`, `AlwaysAlternates` and `DrainedAlwaysKnows`.

The properties walk along the pointers of the list; the invariant `ListInv` is about a
sequence `w` of descriptors, distinct and all those in use, of which the pointers are the
links in both directions (`Linked`), as long as the list is `Undisturbed`: no
`list_add_tail()` inside another one, no two readers at one event. Between two stores of the codec's handler the list is
not whole; then `w` is what it will be after the last one (`NextDone`, `PrevDone`). A read
removes the first element of `w`, a handler appends one, and the power switch's handler
does so at once unless it finds the codec's between its stores, which is what `nested`
records. A reader asleep in `copy_to_user()` is the only one there, and the list is not
empty meanwhile (`CopyInv`); its event is still the first of `w` (`EvInv`), because handlers
append and a second reader would have set `shared`. So the end of the copy takes away the
first element, too. `Walk` computes `w` (by the induction above), and so `Queue` is the sequence of its
events. `Telling` says of `w` what `Alternates` says of the queue; it survives a copy that
failed, because such a switch is then in `unread`, and what its next event in `w` says does not
depend on what was known before. `StatesInv` ties what the
driver remembers to the pins: they agree, but for switches whose edge is latched or being
served, or that moved unseen.

### SocketServicesProofs

For any number of processes and any limit on the looks for READY: `TypeCorrect`
(which includes that no thread looks once too often), `NothingPendingCorrect` and
`HotOnlyWithCardCorrect`.

Both properties speak of the moment when all threads are done, and are not inductive.
The invariant `PendingOwned` says of each bit who will take it away: SHUTDOWN_PENDING
has a thread in the sleep of `do_shutdown()` (`ShutdownOwned`), SETUP_PENDING one on
its way to the reset of a new card or in it (`SetupOwned`), RESET_PENDING one in a
reset, unless a shutdown is pending (`ResetOwned`), and the power of a suspended card
one that wakes it up (`WakingOnly`). The difficulty is that a thread may find the bit
that it set taken away, or taken for its own, by another one: `unreset_socket()` ends
a reset as a setup if SETUP_PENDING is set. So the invariant also says when a setup is
already in its reset (`SetupResets`) and when there must be two threads in one
(`ResetTwice`). At rest nobody owns anything, and both properties follow.

### SocketAloneProofs

For any number of processes: `PresenceAlwaysKnown`, `ClientsAlwaysServed` and the action
property `EventAlwaysMatchesCause`.

These hold only as long as no two calls cross, and `AloneInv` says what that buys: one
thread at most is inside Card Services, and at each of its sleeps it finds the bits of
`s->state` and the power (`Phase`), the last sample of the socket (`Seen`) and what the clients
know (`Served`) as it left them; when nobody is inside, the bits, the sample, the power and the
clients agree (`Quiet`). It is inductive only together with `PendingOwned`: whoever
enters must find no bit of an earlier call pending, also when that one had been crossed.

### Only model-checked

Liveness under fairness is out of the prover's reach: `Completes`, `CloseFinishes`,
`TouchNoticed`, `ReaderDrains`, `PollReturns` and `DetectsUnlessMissed` are checked on the
instances above. So are the counterexamples.

## Not modelled

* The memory and I/O windows of the socket, the timing of its bus (MECR) and the
  `cpufreq` notifier: they compute and store register values. Tuples, resources and
  the configuration of a card in Card Services: vendored code that the SIMpad part
  does not touch.
* The battery's arithmetic: clamped functions of one reading (its use of the ADC is in
  `TouchScreen`). The calibration of `xcalibrate`: one fit by one process.
* APM: nothing in this kernel queues an event for the users of `/dev/apm_bios`.
  Suspend and resume themselves are actions of `Cs3Latch`, `TouchScreen`, `Switches` and
  `SocketServices`.
* The control panel: widgets and shell commands. What it does to the system, a write
  of any value to `/proc/cs3`, is `ProcWrite` of `Cs3Latch`.
* TDA8007, MQ200 (but for its backlight) and audio program hardware registers; there is
  no state to reason about that is not the chip's.
* What a second `kfree()` of one event does to the allocator, and to other parts of the kernel
  that have been given its memory (`Switches`, after `shared`).
* The rest of the Linux tree is vendored: semaphores, wait queues, completions, lists
  and interrupts appear as the steps that they make possible. The USE_INPUT variant of
  the touchscreen driver is not built for this machine.
* `mcp_enable()` re-enables interrupts with `spin_unlock_irq()`; the handlers of
  `TouchScreen` are atomic, and do not show what that may allow. A codec whose
  `ucb1x00_configure()` fails at boot is not modelled.

## Plan

1. Theorems for what the violations leave over: how far a list that was cut short by a
   nested handler can be wrong, and what two readers with paged-out buffers still get.
2. Possible modules: the battery's arithmetic and the bus timing as functions against a
   reference; a kill of `ktsd` among readers in `TouchEvents`; the lock of the MCP.
