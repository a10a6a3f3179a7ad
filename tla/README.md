# osaka in TLA+

osaka is an asynchronous runtime with simulated time: a fork of tokio's
`current_thread` scheduler and of its `sync` primitives whose timers follow a
virtual clock that the program moves from event to event. This directory
models the parts of it in which orderings matter, checks them with TLC on small
instances, and proves the central results for every instance with TLAPS.
Paths below are relative to `src/osaka/src` unless they begin with `src/`.

## The system

| Component | State | Operations | Where it is hard |
|---|---|---|---|
| Task cell (`runtime/task/`) | one atomic word (flags, reference count), the stage (future or output), the join waker, the place in `OwnedTasks` | poll, complete, cancel, shutdown; wake by value or by reference; join, abort, drop of the `JoinHandle` | executor, waker threads, the join thread and the runtime's drop interleave at single atomics; two plain cells are guarded by bits only |
| Scheduler (`runtime/spawner.rs`) | the `Core` (local queue, tick) in an atomic cell; `Shared` (remote queue behind a mutex, `woken`) | `spawn`, `schedule`, `poll_until_deadlock`, `block_on`, drop | two queues and a flag are looked at one after the other while other threads write them; batches and ticks |
| Runtime context (`runtime/{mod,handle,context,enter}.rs`) | thread-locals: handle, entered flag, borrowed `TimeDriver` | enter, `with_time`, nesting | runtimes driven inside runtimes, panics in between |
| Simulated time (`time/`) | the global `SIMTIME_NOW`; per runtime a heap of sleepers and the wake-up emitted last | `Sleep` made, polled, reset, dropped; `take_timestep`, `next_wakeup` | `next_wakeup` names a time once; entries outlive their `Sleep`; the clock may jump |
| Interval, Timeout (`time/driver/`) | a `Sleep`, a period and a behavior; a `Sleep` and a future | tick, reset, change of behavior; poll | missed ticks; value and deadline at once |
| Batch semaphore (`sync/batch_semaphore.rs`) | permits and closed bit, a list of waiters, each with what it misses and its waker | acquire (poll, cancel), try_acquire, release, forget, close | partial assignment, cancellation, wakers that change |
| Semaphore, Mutex, RwLock, OnceCell (`sync/`) | the batch semaphore, a value | guards, mapped and owned; initializers | downgrades and mapped guards return the right number of permits; an initializer that fails |
| Notify | state word with a call count, list of waiters | notified, enable, notify_one, notify_waiters | stored permit against waiter, forwarding when a chosen waiter is dropped |
| Oneshot | four flags, value, two waker cells | send, recv, try_recv, close, poll_closed, drops | waker cells replaced while the other side completes |
| AtomicWaker, Mpsc (`sync/mpsc/`) | block list, semaphore or counter, receiver's waker, count of senders | send, reserve, recv, try_recv, close, drops | register-and-look-again, last sender gone, close with messages in flight, blocks recycled under slow senders |
| Watch, Barrier | version, value, count of receivers, two Notify; a count and a Watch | send, modify, changed, borrow, closed, subscribe; wait | version against notification; cancelled `wait` |
| Broadcast | ring of slots with positions and remaining readers | send, recv, try_recv, subscribe, drops | lagging readers, slot reuse |
| Thread parker (`park/`) | three-valued state, mutex, condition variable | park, park_timeout, unpark | lost wake-up |
| Older executor (`runtime/{executor,reactor,task_queue,waker_util}.rs`, `net/`) | queue, channel of woken tasks, wakers of each source, the operating system's poller | block_on, run, spawn, wake, accept | a source is reported once only |
| Macros, LocalSet, inject queue | | | outside: see the end |

How they interact. A task's waker runs `schedule`, which puts its `Notified`
into the local queue when the calling thread holds the `Core` and into the
remote one otherwise. The loop pops a `Notified` and runs the harness, which
polls the future inside the cell. A future that sleeps registers its waker with
the `TimeDriver` that `with_time` has lent to the thread; the program moves the
clock, `take_timestep` calls the wakers that are due, `poll_until_deadlock`
runs what they scheduled, and `next_wakeup` tells the program where to move the
clock next. Futures of `sync/` keep wakers in lists of their own. The locks,
OnceCell and the bounded channel stand on the batch semaphore, Watch and
`Sender::closed` on Notify, Barrier on Watch, and the mpsc channels on the list
of blocks.

## Modules

    TaskContract  <--implements--  Task                TaskProofs
         ^
         +--------relies on------  Scheduler           SchedulerProofs
                                   TimeDriver          TimeDriverProofs
                                      ^
                                      +-- rely on      Interval, Timeout
    Nesting, Interval, Timeout, Park, Executor         RuntimeProofs

    SemaphoreContract  <--implements--  BatchSemaphore           SemaphoreProofs
         ^
         +--------relies on-----------  Locks, OnceCell, Bounded   (of all five)

    NotifyContract  <--implements-----  Notify
         ^
         +--------relies on-----------  Watch          SyncProofs
                                          ^            (of these four
                                          +-- relies on  Barrier   and of Broadcast)

    Unbounded  UnboundedProofs      Oneshot, Blocks   ChannelsProofs

`MC*.tla` and `MC*.cfg` are the instances for TLC. Four of them put several
components into one run: `MCTask` has Task, Watch and Barrier; `MCSemaphore`
BatchSemaphore, Locks, OnceCell and Bounded; `MCChannels` Oneshot and Blocks;
`MCRuntime` Scheduler, Nesting, Park, Interval, Timeout and Executor. A variable
`part`, chosen at the start, says which of them moves, and the variables of the
others keep their initial values; fairness is stated for each part as in its own
module. `MCWatch` and `MCBroadcast` only put a prefix before names, so that
modules can stand side by side. Each module has *variants with a mistake*, next
to the action that they vary: the form it would take with a plausible bug in the
code, one for each property, so that every property is known to notice
something.

### Task

One task cell and everything that touches it. Each action is one atomic
read-modify-write of `State::val`, or one access to the stage or the trailer's
waker between two of them; four kinds of threads interleave. `bits` and `refs`
together are the one word, changed together in one action where the code has
one compare-exchange. `spc`, `epc` and `jpc` are the places of the spawner, the
executor and the owner of the `JoinHandle`; wakers are alike and counted
(`wakers`, and those inside a wake). `phase` is the runtime: open,
`OwnedTasks` closed, remote queue taken. `memory` records `Harness::dealloc`.

* `Bind`, `ScheduleNew`, `ReturnHandle`: `Spawner::spawn` and
  `OwnedTasks::bind`, which shuts the task down itself when the list is closed.
* `PopNotified` ... `TransitionToTerminal`: `Harness::poll`, `complete`,
  `cancel_task`; `CloseOwned` ... `TakeRemoteQueue`: `BasicScheduler::drop`.
* `JoinPoll` ... `TakeOutput`: `can_read_output` and `set_join_waker`, with the
  store of the plain cell and the update of the bit as separate steps.
* `Abort`, `DropJoinHandleFast`, `UnsetJoinInterested` ...: `remote_abort` and
  the two ways to drop a `JoinHandle`.
* `CloneWaker` ... `SubmitByRef`: the waker's vtable.

The scheduler behind it is only as precise as a task can tell: `ScheduleOn`
may reach either queue while the runtime is open, because the calling thread
may or may not hold the Core. A panic of the future, or of its destructor, is
an output ("panic"). Two alternatives exist for the sake of the code's own
checks and never fire: `TransitionToRunning` and `TransitionToShutdown` on a
task that is not idle; the proofs show why (`Unpanicking`, `NotifiedAtMostOnce`).

### TaskContract

What Task promises, as one variable with six values and six kinds of steps.
Task implements it (`Contract`, checked and proved); Scheduler, which keeps a
status for each task in place of a state word, is checked to stay inside it
(`ContractsKept`).

### Scheduler

`at` is the point of the loop, or `"cell"` when the Core is in its atomic cell.
A look at a queue is an action of its own (`LookFirst`, `LookSecond`), as is
the poll of the future that `block_on` drives (`StartOver` resets `woken`,
`MainPolled` ends the poll), so that outside wakes fall between any two of
them. `TaskPolled` ends a task's poll and puts it back when it was woken
meanwhile. `due` and `late` are history variables, for the properties.
`tick` is kept modulo 5: the code reads its wrapping `u32` only through `% 5`,
and the wrap merely makes one interval a single tick long.

Left out: a second thread that calls `block_on` while the first has the Core
(`spawner.rs:117-138`). `Runtime::block_on` runs in `with_time`, the second
thread finds the driver taken and panics ("Not time driver found"), so the
waiting arm cannot be reached through the public interface.

### Nesting

What one thread remembers of the runtimes it is in. `stack` is the calls, the
innermost last, each with the runtime, whether it took that runtime's own
driver, and the driver it found in the thread-local (`saved`); `slot` and
`core` are the runtimes' own cells; `guards` the `EnterGuard`s with what they
restore. `Short` is `spawn`, `take_timestep` and `next_wakeup`, `Poll` and
`BlockOn` the two loops; `Return` and `Unwind` end a call normally and by a
panic, `Refused` is a loop inside a loop, which panics at once. `unwound` and
`shuffled` record that a panic went through a call that had something in its
hands, and that an older guard was dropped before a younger one: the
properties except exactly these. After `unwound` no new call begins (a bound of
the model), those under way end or unwind.

### TimeDriver

The driver's heap is a set of entries (one for each id, as `wake_sleeper`
ensures), `emitted` its memory of the last wake-up. Tasks make, poll, reset,
drop and hand over Sleeps in any order while they run; `Interval` and `timeout`
do nothing else with theirs. The event loop is that of
`src/osaka/bin/time-sleep.rs`, with foreign events (`messages`) that move the
clock to times no Sleep asked for. Nothing of what a task may do is left out: a
Sleep is reset to any time, as an Interval that catches up does with times gone
by, it is handed to another task while it is registered, and the clock is set
forward in a task, as `src/osaka/bin/time-interval.rs:43-46` does. Three of
these break the driver, and two history variables say where: `stale` has the
Sleeps whose last poll found the entry of another task, `warped` is raised by a
reset of a *registered* Sleep to now or earlier, and by a clock that is set over
an entry or an event. The properties except exactly these; what is lost there
is finding 4 and the first of the *Known divergences*.

### Interval, Timeout

Over what TimeDriver promises of a Sleep (ready from its deadline on, and its
task woken then). `Interval` has `PollTick` with the three ways to answer a
missed tick, `Reset` and `SetBehavior` at any time; `start`, `ticks`, `missed`
and `last` are history, against which the arithmetic of `next_timeout` is
checked. `Timeout` polls the value first, then the Sleep, and registers it when
neither is ready; the future inside need not wake its task.

### BatchSemaphore, SemaphoreContract

The semaphore with the futures that wait for it. `AddPermits` is
`add_permits_locked` whole: the split of the released permits among the waiters
from the front, the wakers that are called, and what is left going to the word.
`PollPending` takes what the word has, joins the list, and stores or replaces
the waker; `Cancel` is `Acquire::drop` with its return of assigned permits. One
thread: the list sits in a `RefCell` (the `unsafe impl Sync` is the caller's
burden), so each operation is one step. `Queues` has the one operation on the
list that sequences lack, `LinkedList::remove`.

SemaphoreContract is what its users may rely on: a pool, a queue whose head is
served as soon as the pool holds all it asked for (`Deal`), and an end for
everybody once it is closed. BatchSemaphore implements it (`Contract`): the
permits that it has assigned to a waiter in part count as still in the pool,
which is right because nobody else can get at them without the waiter at the
head leaving.

### Locks, OnceCell, Bounded

Over SemaphoreContract: each action is one of its actions and what the caller
does around it. `Locks` is Mutex, RwLock or Semaphore by `kind`; every way to
get a guard (`try_`, waiting, owned), to change it (`map`, `downgrade`,
`forget`) and to drop it is an action, with the permits it returns and the
references it keeps. `OnceCell` has initializers that are ready at once, wait,
fail, panic (the same to the cell as a failure) or are cancelled, and `Take`
(`take`, `into_inner`). `Bounded` is the bounded channel: reservations that
wait, become a `Permit` or an `OwnedPermit`, send, give up or are cancelled; the
receiver's `recv` with its end; which of these wake the receiver is the point
of it. `untold` is history: who gave back the last permit of a closed channel and
woke nobody, an OwnedPermit's `release` or the `Acquire` of a reserve that had
been served (`ReserveFails`, `CancelReserve`).

### Notify, NotifyContract

`Notify` at its atomics and its lock: the word (`state`, a tag beside the count
of `notify_waiters` calls), the list, and for each future the node and the
place in its call. A step on a word that was loaded before is an action of its
own (`PollLoad`, `PollExchange`, `OneLoad`, `OneExchange` ...); what a thread does
with the lock while the tag is WAITING is one action, for nothing else can
then move. `DropWaiting` forwards the notification of a chosen future.
NotifyContract has one permit, a queue and an epoch; Notify implements it.

### Watch, Barrier

`Watch` uses two instances of NotifyContract, for `changed` and for `closed`.
The lock that `borrow` holds keeps writers out (`Reading`); a version is written
with its value. Several threads send through one `Sender`, receivers subscribe,
are cloned and dropped, waits are cancelled, and the channel is reopened after
its last receiver went. `Barrier` joins a generation under its lock (`Arrive`),
then waits on the watch channel for it; `counted` is history.

### Broadcast

The ring behind its locks. A value is the position that it was sent at, so a
slot shows whose turn it is. A sender claims its position under the tail's lock
and waits there for the slot's readers (`ClaimPosition`, `WriteSlot`); a
receiver looks at its slot (`Look`), and when it does not fit locks the tail
and looks again (`Slow`), which is where it registers or finds that it lagged;
a guard is a place of its own until the value is cloned and released. `rem` is
kept modulo `MaxRem` + 1, the width of the `usize`, so that one release too many
shows. A receiver in its drop is not counted any more and still looks at its
slots (`DropReceiver`, `Drain`, `Gone`); the close may come in between
(`CloseChannel`, `WriteSlot`). When its marker then goes into a slot that the
dropping receiver has yet to look at, the history variable `met` is raised, and the
properties promise less of that slot (finding 3). Receivers may call `recv` again
after `Closed`, and resubscribe then; what they are told there is promised by
nobody, and no property speaks of it.

### Unbounded, Blocks

`Unbounded` is the unbounded channel with its senders, each on a thread, and
its receiver. Each action is one atomic of the counter, the list, `tx_count`,
the AtomicWaker or the Notify, or one use of the AtomicWaker's plain cell; `pc`
is the place of each thread in its call. A message is the slot that it has
claimed: `ready` holds the slots that are written, `index` is where the
receiver reads.

* `IncNumMessages`, `ClaimSlot`, `WriteSlot`, then the wake: `send`.
  `DropTx`, `ClaimLastSlot`, `TxClose`, then the wake: the last drop.
* `SetWaking`, `TakeWaker`, `ClearWaking`, `EndWake`: `AtomicWaker::wake`, by a
  sender or by the receiver itself in `try_recv`.
  `Register` ... `SwapWaiting`: `register_by_ref`.
* `Listen`, `LookClosed`, `PollNotified`: `Tx::closed` over `Notify`.
* `Poll`, `PopValue`, `PopNothing`, `EndPoll` ...: `recv` with its two looks;
  `TryRecv`, `TryPop`: `try_recv`. The `todo!` at its end unwinds and drops the
  receiver (`"todo"`, then `DropRx`).
* `Close`, `CloseSemaphore`, `NotifyWaiters`: `Rx::close`. Its early return for
  a receiver that is closed leaves only the closure (`chan.rs:204-212`), so a
  second close does what the first did.

`Blocks` is the list under both channels, where a slot is found, grown and
recycled without a lock: `blk` is the memory, by address; a sender walks from
`block_tail` to the block of its slot (`LoadTail`, `LoadNext`), appends one at
the end of the chain (`Grow`, `TryPush`, `Append`), moves the tail when all
slots before it are written (`LookFinal`, `SwapTail`, `Observe`, `TxRelease`)
and writes; the receiver pops, and offers the blocks it has left behind to the
end of the chain at most `Attempts` times before it frees them
(`ReclaimBlock`, `PlaceBlock`, `PlaceAfter`, `FreeBlock`). Addresses that were
freed are given out again.

### Oneshot

Every operation on the flags and every use of one of the three plain cells is
an action. `poll_closed` and `poll_recv` install a waker by the same steps with
the flags exchanged (`PollLoad`, `WillWake`, `Unset`, `SetAgain`, `DropTask`,
`SetTask`, `SetFlag`), so they are modelled once, for either side; `sent`, `got`
and `held` say what became of the value and of the shared memory.

### Park, Executor

`Park` is the parker at its atomics, mutex and condition variable, inside the
loop of `CachedParkThread::block_on` that polls a future between two parks.
`Executor` is the older thread-local executor with its reactor: `channel` is
what wakers have sent, `readable` the wakers of each source, `interest` the
sources that the poller will report, once each. Its tasks accept connections;
`PollPending` and `PollReady` are `Accept::poll` with its registration.

## Runs

| Run | Instance | Shows |
|---|---|---|
| `task` | 2 join wakers, at most 2 task wakers; watch: 2 receivers, 1 writer, 2 versions, 1 emptying; barrier of 3, 3 tasks, 3 generations | memory, queues, cells, cancellation and wake-ups are right under every interleaving; the contract is implemented; wakes lead to polls, cancellations to completion. A marked version was shown; `changed` and `closed` end; a generation opens with N arrivals and lets all through |
| `time` | 2 tasks, 2 Sleeps, times 0..2, a foreign event at 0 or none | no sleeper overdue or forgotten; every Sleep that is waited for fires, is polled again or is dropped; but for `stale` and `warped` |
| `time_moved` (violation) | the same | a Sleep that another task polls keeps the waker of the first |
| `scheduler_yield` (violation) | 2 tasks | a full batch in `block_on` loses the Core |
| `semaphore` | 3 clients; batch semaphore: 2 wakers, requests 0..2, 2 to 3 permits; locks: 1, 2 or 4 readers, a Semaphore of up to 2; bounded channel: 2 slots, 3 messages | permits conserved, contract implemented, everyone served; guards exclude one another and give back their permits; a cell is written once; the buffer keeps its capacity and the receiver is woken, but for `untold` |
| `bounded_closed` (violation) | 3 senders, 2 slots, 3 messages | `OwnedPermit::release` does not wake a receiver whose end has come |
| `unbounded` | 2 senders, 2 messages, 2 wakers, 1 close and the drop | counter exact, waker cell exclusive, no wake-up lost, `None` final, `closed()` heard, messages delivered |
| `channels` | blocks of 1 slot: 2 senders, 3 values, 4 addresses, 2 attempts; oneshot: 2 tasks | no block used after it was taken back, `pop` true and in order, every value received; oneshot cells exclusive, both ends of one mind, nobody waits for an end that has come |
| `notify` | 2 futures, 2 tasks, 1 notifier, 1 `notify_waiters` | no assertion fails; the contract is implemented; a future that was told completes |
| `broadcast` | 2 senders, 2 receivers, 2 slots, 3 positions | every value seen in turn or announced as missed, slots released with the last reader, waiting receivers woken; the slot of a close that met a drop excepted (`met`) |
| `broadcast_close` (violation) | 1 sender, 2 receivers, 1 slot, 2 positions | a receiver's drop takes the look of another at the last value, which recv then reports as `Closed` |
| `runtime` | scheduler: 3 tasks, batch 10, interval 5; 2 runtimes, 3 calls deep, 1 guard; 2 unparkers with 2 wakes; periods 2 and 7, starts 0 and 3, slack 5, times to 16; deadlines 0, 2, 4; 2 tasks on 2 sources | no task lost or doubled, deadlocks real, no starvation, wake-ups of the `block_on` future answered; drivers, Cores and Handles come back; no unpark lost; ticks on their grid; timeouts end, values win; connections are accepted |

Many properties are conjunctions of named parts, each part about one hazard:
`CellSound` (Task) of `SingleNotified`, `NoLostWakeup`, `ExclusiveAccess`,
`NoPanic`, `OutputDroppedInTime`, `ShutdownCompletes`; `SleepsCovered` of
`WaiterRegistered`, `AgendaCoversSleeps`, `NoOverdueSleep`; `LoopSound`,
`ChannelSound`, `SemaphoreSound`, `LocksSound`, `SlotsSound`, `EndsSound` and
`ThreadSound` likewise, in their modules. In `runtime`, `NothingForgotten` is what
holds in every state of the parker (`ParkedExact`, `UnparkKept`), the Interval
(`TicksOnGrid`) and the executor (`AcceptRegistered`), `TimersTrue` what the steps
of the two timers may do, `AllServed` what must come in the end (`UnparkNotLost`,
`TimeoutEnds`, `AcceptServed`).

Why these bounds are enough.

* *task*: two wakers let one consume its reference while the other submits or
  is dropped; two join wakers give every way to replace one; the reference
  count is otherwise the sum of a few flags, and the proofs cover the rest.
* *time*: an entry that overtakes another, or is reset behind it, needs two
  Sleeps, and one instant each before, at and after the clock; a Sleep changes
  hands between two tasks. The foreign event gives the tasks a second turn before
  any wake-up, in which a Sleep may be made for a time before the one that was
  announced. Foreign events at 1 were checked too, without those at 0; for any
  times of theirs there is the proof of `SleepsCovered`.
* *semaphore*: a waiter that is half served has one in front of it and one
  behind. Of a lock the three clients are two readers and a writer, with a lock
  that lets in more readers than there are, exactly as many, or fewer. The
  bounded channel has more senders than slots, so that a reservation waits.
* *unbounded*: two senders fill their slots out of order, and one can hold the
  waker's cell while the other's wake is swallowed; two wakers tell a stale
  registration from the last one.
* *channels*: with one slot to a block, three values and the close make a chain
  that is longer than what two senders hold, and the first block comes back to
  its end while a sender still walks. Two attempts show one that succeeds late
  and one that gives up. The code's three do not differ from two in kind, and
  the proofs have blocks of any size and any number of attempts.
* *notify*: one future is chosen and dropped while the other waits to inherit;
  one call of `notify_waiters` is before, during or after a creation. The calls
  of `notify_one` are not bounded, since the permit saturates.
* *Watch* (in *task*): a receiver that looks, and one that is cloned or dropped
  meanwhile; a second version that overtakes the first. `MaxEmpty` bounds only how
  often a sender subscribes anew after its last receiver went. Barrier: three
  generations overlap two tasks that are still in the first.
* *broadcast*: three values and the close overrun two slots twice. With one
  slot the value of a live receiver is lost to a drop that meets the close after 13
  steps (*broadcast_close*).
* *runtime*: of the scheduler's three tasks one runs and one is in each queue;
  batch and interval are the code's own numbers. Three calls deep is a runtime
  inside another inside itself; two unparkers, one of which is between its
  exchange and its signal; 7 is longer than the slack and 2 shorter, which the
  code tells apart; a task waits on a source while another is served on the
  second.

`CHECK_DEADLOCK FALSE` where the system may stop: all events handled (time), both
ends of a channel gone (unbounded, channels), the runtime dropped and the ends of
the other bounded parts (runtime, scheduler_yield). The other runs check for
deadlock; their modules say in an action or a disjunct of its own (`Stopped`,
`Finished`, `Idle`, `Done`, the freed cell in `MCTask`) when it is right to stop.

### Fairness

Threads keep running inside a call, locks that others also take are granted in
the end (strong fairness), and a task whose waker was called polls again, which
is what Scheduler and Task promise. Nobody has to begin a call. In particular:

* *Task*: the scheduler pops what is queued while it is open, and a poll
  returns. Nobody has to wake, join, abort, drop or close.
* *Scheduler*: the loop goes on, and the owner calls `poll_until_deadlock`
  again and again, as the programs in `src/osaka/bin` do; strong fairness,
  because `block_on` may be called in between.
* *TimeDriver*, *Timeout*: the event loop goes on, and polls return.
* *BatchSemaphore*, *Locks*, *OnceCell*, *Bounded*: besides the polls, a permit
  or guard that was granted is given back one day, and an initializer ends.
  Nobody could be served without.
* *Unbounded*, *Bounded*, *Blocks*: the receiver's task polls when it was woken
  and after every value. In *Blocks* senders are dropped at last.
* *Park*: the condition variable wakes for a signal; spurious wake-ups are
  possible, never required. For its mutex weak fairness is enough, since the
  unparkers call only so often.
* *Executor*: the poller reports a source one day that it was asked for and
  that is ready.

## Findings

1. `runtime/spawner.rs:561`: `block_on` panics and loses the Core after ten
   task runs in one batch (run `scheduler_yield`).
2. `sync/mpsc/bounded.rs:1153`: `OwnedPermit::release` returns its permit to
   the semaphore and wakes nobody; a `recv` that waits on a closed channel for
   exactly this permit waits for ever. `Permit::drop` and `OwnedPermit::drop`
   do wake it (run `bounded_closed`). There is a second way to the same end,
   `Acquire::drop` (`sync/batch_semaphore.rs:375-393`): a reserve that was served
   but not polled before the close gives its permit back when it is polled, and
   fails, or is dropped. With two slots: two messages are sent, a third reserve
   waits, two `recv` serve it, the receiver closes, its next `recv` is pending, and
   the reserve is dropped. `ReceiverWoken` is the promise with these two exempt;
   `untold` names which of them it was.
3. `sync/broadcast.rs:1039`: a receiver is not counted any more when its drop
   reads what it has not seen. If the last sender goes meanwhile, the drop can
   find the marker of the close in the slot of a value that it missed. It takes
   that for "slow but no values have been missed" (`missed == 0`, 862-866) and
   gives back a look for which the slot has not counted it: the value is emptied
   while a receiver that is alive is owed it, `recv` finds nothing in its guard
   and reports `Closed`, and `rem` wraps at the next look (run
   `broadcast_close`, 13 steps with one slot). A receiver that lags then is sent on
   to the same emptied slot. The history variable `met` marks it: `SlotsSound` then
   exempts the guards on a slot with the marker, and `LagIsHonest` where a lagging
   receiver goes on; all else they say still holds.
4. `time/driver/mod.rs:49`: a registered `Sleep` or `Interval` that another task
   polls keeps the waker of the first, against the doc of `poll_tick` (run
   `time_moved`). `SleepsCovered` and `EverySleepFires` exempt such a Sleep
   (`stale`) until its next poll.

### Known divergences

These were met with TLC or while reading and have no run of their own. Where
one would break a property, the model has a history variable that the property
names.

* `time/driver/mod.rs:60` and `:96`: a registered `Sleep` reset to now or
  earlier. `reset_sleeper` moves the entry and nothing else. If the new deadline
  is the time that `next_wakeup` announced last and that has come, `next_wakeup`
  keeps silent (line 96) and `take_timestep` has been there already: the Sleep
  never fires, and hides all later ones (two Sleeps for 1 and 2, and at 1 a
  reset of the second to 1: the loop of `bin/` ends while it is waited for). If
  it is earlier than now, the heap's head is overdue and `take_timestep`, which
  compares with `==` (113), pops nothing until `next_wakeup` names that time and
  the loop sets the clock back. A clock that a task sets over an entry or an
  event does the same. The properties of `time` except what follows (`warped`).
* `sync/batch_semaphore.rs:140`: the documented limit on permits is compared
  with each addition, not with the sum.
* `sync/mpsc/chan.rs:305`: `try_recv` reaches a `todo!` when another thread is
  between the two halves of a send or of the last drop. In Unbounded the panic
  drops the receiver.
* `sync/barrier.rs:103`: a `wait` that is cancelled stays counted, so a
  generation can open with fewer tasks than N present. `OpensFull` counts
  arrivals, as the code does.
* `sync/rwlock/mod.rs`: `with_max_readers(0)` makes a lock that nobody can read
  and every writer gets at once; `MaxReadersAssumption` excludes it.
* `runtime/spawner.rs:64`: `with_time` does not unwind. The `expect` on a
  deadlock in `Runtime::block_on` (`runtime/mod.rs:103`), a loop inside a loop,
  or any panic of a closure leaves the TimeDriver in the thread's context and
  its own cell empty, and a panic in a loop loses the Core (`unwound`).
* A runtime driven inside another inside itself uses the *other's* driver for
  the innermost call, since its own is taken; each gets its own back
  (`DriverNotStolen`).
* `runtime/mod.rs:93`: `poll_until_deadlock` does not enter the Handle as
  `block_on` does, so `osaka::spawn` in a task finds the runtime that was
  entered, if any.
* `sync/watch.rs:768`: `closed` returns when it sees no receiver at one of its
  two looks; if one has subscribed again by the time of the first look after a
  notification, it goes on waiting, as its comment says.
* `runtime/executor.rs`: `run` returns when no task waits for a source, even
  with tasks in the channel; a task that was sent twice is polled after its
  end and panics; in the model these are `Finish` and `PollAgain`.
* `Semaphore::const_new` masks where its comment says it clamps
  (`batch_semaphore.rs:42-44`); `SimTime::duration_since` panics where its doc
  says "or zero duration" (`time/mod.rs:82-87`); the comment at
  `spawner.rs:449-453` takes for granted that both queues are empty when a
  deadlock is found, which outside wakes make untrue (the exception that
  `DeadlockIsReal` states).

## Proofs

All theorems are proved from the named assumptions on the constants
(`TaskAssumption`, `SchedulerAssumption`, `UnboundedAssumption`,
`RuntimeAssumption`, `TimeDriverAssumption`, `EmptyAssumption`,
`BlocksAssumption`, `ActorsAssumption`, `MaxCallsAssumption`, `WatchAssumption`,
`BarrierAssumption`, `RingAssumption`), which TLC evaluates on the runs of their
modules, or from the hypotheses that the theorem states, and nothing else: for
every number of wakers, join wakers, tasks, senders, receivers, writers,
unparkers, sources, runtimes, futures, permits, slots, blocks and messages,
every depth of calls, every batch, interval and period. The assumptions and
hypotheses that say more than what kind a constant is:

* `OpensWithAll`: by `BarrierAssumption` the barrier is for at least one
  (`Barrier::new` raises 0 to 1).
* `SlotsAreSound` and `LagsAreHonest`: `RingAssumption` says that the
  receivers are no more than `rem` can count (`new_receiver` panics at a quarter
  of that, broadcast.rs:654), and takes any number of slots: for a power of two,
  which is what the code rounds up to, its `&` is `%`.
* The five theorems about semaphores: finitely many clients, natural numbers for
  what counts permits and slots, a `None` and a receiver that are not among the
  clients. `BatchConstants` also says that the permits in circulation fit above
  the CLOSED bit of the word (`MaxPermits < PermitRange`); `new` asserts a
  quarter of that (batch_semaphore.rs:28).

*TaskProofs.* Three invariants that build on each other.
`RefInv` (types, `RefCountExact`, `RunningExec`: the RUNNING bit is a lock that
the executor holds at exactly four places, `Newborn`: who exists before the
spawner is done): the reference count is not inductive alone, because
`wake_by_val` gives up a reference unseen when RUNNING is set, and that the
executor has one then is `RunningExec`. `NotifyInv` (`SingleNotified`,
`NoLostWakeup`) needs RefInv for the same reason. `JoinInv` ties the two join
bits to the places of both threads: `Ownership` (list and phase), `Completion`
(the snapshot is what the bits were), `Interest`, `JoinWaker` (the bit says
whose the waker cell is), `JoinNotLost`, `Output` (who has the output).
For each of them: it holds initially; each of the actions keeps it, one step
per action and one leaf per conjunct; the properties follow. `CellIsSound`
collects them into the property that the run checks.

*ImplementsContract.* With RefInv and NotifyInv every step is one step of
TaskContract or leaves the status alone.

*SchedulerProofs.* `LoopInv` says what the loop knows at each point: there is
room in the batch (`BatchRoom`), the first queue is still empty at the second
look unless an outside wake came (`FirstStaysEmpty`), a round without progress
began with the flag down (`IdleRound`). `WakeKept` and `DeadlockIsReal` follow.
`QueueExact` counts the places of a task, which no step can be shown to keep
directly; `QueueInv` says instead of each place whose it is: who is in a queue is
scheduled (`Filed`), nobody is there twice (`Once`), who is scheduled has a place
(`NoneLost`), and one task is polled at a time (`OnePolled`). `Joining` and
`Leaving` carry it over a push and a pop. At the end `QueueFits` bounds the
queues by the number of tasks (no repetition is an injection), and
`PlacesCounted` counts. `ContractsAreKept`: every step makes one of the six steps
of TaskContract with the status of each task, or none. It needs `QueueInv`: what
is popped was scheduled (`Filed`), and no task is in the middle of a poll when
a poll ends for another one or the runtime is dropped (`OnePolled`).

*RuntimeProofs.* Nesting: a call puts back `saved`, so what it saved must be
what the calls below had left: `DriversLinked` says it for every call in the
stack at once, with `LeftBelow(d, n)`: `d` is the driver of the innermost owner
below `n`, or None without one. The guards form the same kind of chain
(`GuardsLinked`), and a `block_on` has one that nobody else drops
(`LoopsGuarded`), for `Return` must find it. `CorePlacedBack` and `OneLoop` are
inductive with these; `LinksSuffice` draws the property's form, which names the
innermost owner, from the chain. `SequenceTheorems` and two lemmas on pushing
and removing carry the stacks.

Park: `ParkInv` places the mutex. From its exchange to its sleep, and over the
look after it, the parker has it; so an unparker that found PARKED, and takes
the lock before it signals, gets it only when the parker sleeps. Until then the
unparker itself is what `UnparkKept` asks for.

Interval: `IntervalInv` is the grid with the kinds, and that no tick is ahead of
the time. The next deadline that each behavior chooses (`NextDeadline`) rests
on two lemmas on the remainder (`Remainder`, `Multiples`), where alone `%` and
products meet.

Executor: `ExecutorInv` says of every pending Accept that its task is in the
queue, or is among the wakers of its source and the poller is asked for the
source. A report moves the wakers of all its sources at once, by `SetToSeq` and
`FlattenSeq`; that nobody is left out is `Ordered` and `Flattened`, the second by
induction over a set of naturals. `TimersAreTrue` uses
`NextDeadline` again; what Timeout promises needs no invariant.

*ChannelsProofs.* Oneshot: the flag of a side says what is in its cell but for
the steps in which the side itself has lowered it (`Cell`); who is about to wake
the other side has raised the flag that keeps that side from its cell
(`WakeSafe`); the order of VALUE_SENT and CLOSED decides what each place may
still conclude (`Word`, `Fate`), from which both ends have one mind about the
value. One lemma for each step.

Blocks: `BlocksHeld` and `PopIsTrue` follow from `BlocksInv`. The list is one
chain from `freeHead` on, each block `BLOCK_CAP` slots after the one before
(`Chain`), and a block outside it is clean and has one thread that may touch it
(`Outside`). A slot below the tail position is a sender's until it is written
(`Slots`); a block is marked as closed only when nobody is under way any more
(`Closing`). What a sender has in hand is in the chain, at or before its slot
(`Walk`). That the receiver may take a block back rests on `Passed`: whoever
could still reach it has claimed a slot below the position that was observed
after the tail had moved on, and all those are read. It holds because the tail
moves only past a block in which every slot is written (`FinalIsPast`), so a
sender that loads the tail later starts behind it (`TailInv`). The chain grows at
three places and shrinks at two, by the same lemmas (`ListGrows`,
`OutsideGrows`, `ChainShrinks`).

*SyncProofs.* Notify first, whose word is changed by some with the lock and by
some without. `Held` tells from the places of the threads who has the lock,
`Listed` that the list has exactly the nodes that wait and were not told, and
`Tagged` that the word says WAITING when the list is not empty and nobody has the
lock, and that under the lock it is what was loaded but for a change between
EMPTY and NOTIFIED, the only one that needs no lock. No assertion fails by these
(`NotifyNeverPanics`). `NotifyImplementsContract` maps each step to one of the
contract or to a stutter; the phase of a future is read off its state, its node
and the call count it was created with. `Told` adds the waker: who was
told and waits has been woken, or a thread is about to (`ToldTaskIsWoken`).

Watch: what is behind the lock is the version in the word
(`VersionIsValue`), which only the write lock makes true at the moment a Ref is
made or marked.

For Barrier, `Count` ties `arrived` to the generation that the lock names,
past generations to N, later ones to 0; who is through belongs to one that has
opened (`Through`).

Broadcast: positions below `Front` are written, and the tail's holder has
claimed `Front` itself. The ring has the last `Cap` of them, the marker of the
close at the end (`Ring`). `Standing` says where a receiver may be, and that who
reads a slot reads the value in it; `Counting`, that a slot's `rem` is the number
of receivers that were there when its value was sent and have not looked, and
that it has the value while there are any. A subscription, a look, a drop and a
new value each change one such set by one receiver or make it afresh, so the
cardinality lemmas of `FiniteSetTheorems` are enough, and nothing wraps because
receivers are at most `MaxRem`. The close writes its marker over a slot and leaves
the value below it there; of that slot `Counting` says only that `rem` covers
those who owe the value a look.
Where the close fell into the drop of a receiver that owed that value a look
(`Spoilt`), it says nothing of `rem`, and only that the value is the old one or
gone; a guard on that slot is what the two theorems except.

*UnboundedProofs.* `LockInv` says what the bits of `AtomicWaker::state` mean:
REGISTERING that the receiver is inside, WAKING alone that one waker is. A
thread that enters has seen no bit at all, so it enters an empty room, and
`CellExclusive` follows. `CloseInv` says what a sender in `closed()` knows: past
its look at the semaphore it has seen no call of `notify_waiters`, because the
semaphore is closed before the first; so it does not fall asleep after one.
`ChannelIsSound` takes four more. `HandleInv`: `tx_count` counts the handles,
and the last one to go is alone while it closes the list. `SlotInv`: each slot
that was claimed is ready or has one writer, and the counter is what is on its
way to the receiver. `EndInv`: a list that is found closed was read to its end
(`ClosedIsEmpty`), by those two. `WakeInv`: the waker that the receiver needs
(`Due`) is in the cell or held by a sender that will call it, and when there is
something to read, somebody has it or is on the way to the cell; which is
inductive only because it speaks of the receiver's whole poll, and not, as the
property does, of the time after it.

*TimeDriverProofs.* `WaiterRegistered` is inductive with `EntryInv` (an entry
is that of a Sleep as it is now), but that the loop has an event for the earliest
entry is not: `next_wakeup` does not repeat a time it has announced. `AgendaInv`
says that a time which was announced and has not come is still an event, and
that whenever the loop looks for the next event each entry has one no later.
`HeapAhead` says when an entry may be due. One lemma for each call of a task and
each step of the loop.

*SemaphoreProofs.* Sums and queues first. A sum over a set is a fold, about which
the provers know nothing; its laws (`SumAdds`, `SumExcept`, `SumOfPart`,
`SumPlus`) come from the recursion of the fold by induction over a set of
naturals or a set of sets, which is stated with sets (`Induction`,
`SetInduction`) and not with predicates. `Asked` is what the first k of a queue
want, and `Given` what they have after it.

`SemInv` is the invariant of the contract: who is in the queue holds nothing,
who is out of it holds all, and the oldest is short of permits. It is proved once
for every action of the contract, and what a deal preserves is the sum of all
permits. The three parts that stand on the contract add what a permit means to
them. `CellInv`: an empty OnceCell has one permit, a written one none.
`ChannelInv`: a bounded channel has a permit for each slot without a message.
`LockInv`: a guard says how many permits it has, and a lock that somebody owns is
kept alive (`ArcInv`). The other part of the run is bound by `OnePart`.

`BatchInv` is the invariant of the semaphore itself: each future's place in the
list follows from its stage, the word is empty while somebody waits, and word and
assignments sum up to what circulates. `BatchDealt` says what `add_permits_locked`
does in terms of a function `g` of what each future is given (`Gives`), and
hides the loop: the word does not overflow, because what is given and what
goes back sum up to what came.

`SemaphoreImplementsContract` maps every step to one of the contract. It needs
`OrderInv` beside `BatchInv`: only the oldest waiter is served in part. Then the
permits of that one count as the pool's (`PoolOf`), the demands of the
contract's queue are those of the real one plus that part, from the first client
on (`DealMaps`), and a future that leaves (`LeavesMaps`) gives the pool what it
had whether it was served, oldest, or further back (`PoolWithout`). A future that
was never polled leaves the contract as it is.

Every safety property of a passing run, invariant or action property, and each of
the three refinements, is thereby a theorem. Only model-checked is liveness: one
to three properties of each run, since temporal reasoning under fairness is out of
the prover's reach (and the four properties that runs find violated). No theorem
connects the copies of a contract inside Locks, OnceCell, Bounded, Watch and
Scheduler with the module that implements it: they are modelled over what the
contract offers, and the refinement theorem says that the code offers it.

## Plan

Done in this order: Task, TimeDriver, Scheduler, BatchSemaphore, TaskContract,
Unbounded; Notify with its contract, Oneshot, Broadcast, Watch, Barrier;
SemaphoreContract with Locks, OnceCell and Bounded; Blocks; Nesting, Park,
Interval, Timeout, Executor; and the proofs, of the queues and words first, of
Notify, Broadcast and the small parts last. Next:

1. Broadcast: what a second `recv` after `Closed` should return; the code moves
   on over the slot of the marker.
2. `net/client.rs`: readiness for reading and writing of one stream at once.

## Not modelled

* `LocalSet`, blocking tasks, task locals: `LocalSet` cannot spawn
  (`task/local.rs:657` is `unimplemented!`) and `spawn_blocking` is `todo!`; the
  rest of these files keeps no state that two parties share. `yield_now` is a
  wake during a poll, which Task and Scheduler have.
* `runtime/task/inject.rs` is not compiled.
* `net/`: of the older system only the listener is modelled. Reads and writes
  of streams register with the reactor in the same way; their data are in the
  operating system.
* Macros expand to calls that are modelled; `util/` holds helpers without state
  of their own, but for the list of waiters, which the models have as a sequence.
* A second thread in `block_on` (see Scheduler), and wakers that panic.
* Memory orderings weaker than sequential consistency. The atomics of the
  task's state word, of Oneshot's flags and of Park's state are single
  locations, for which interleaving is exact; where several are used
  (Unbounded, Blocks, Notify, Watch), they are taken in the order the program
  names them.
