# A verification of linux-kernel-samples

TLA+ models of the kernel modules of this repository, checked with TLC on small
instances and, where it says so, proved with TLAPS for every instance. The
modules are small programs; what is hard in them is what the repository wants
to show: code that runs at once in task, softirq and hardirq context on several
CPUs, on top of kernel services that merge, drop, defer and wait.

## The system

Each sample is a kernel module of its own: `insmod` runs its init function,
`rmmod` its exit function, and in between the kernel calls it back. No sample
talks to another one; what they share is the kernel, and, when they are built,
one key pair.

| component | state | operations | how it interacts | what makes it correct |
|-----------|-------|------------|------------------|-----------------------|
| `interrupts/concurrency/interrupt_competition` | line, tasklet, `gs_counter_lock`, three counters, one raise counter per CPU | init with four failures, exit, raiser threads, top half, bottom half | raiser threads of all online CPUs raise one line; the handler schedules a tasklet; both count under one lock; CPUs come and go | no increment lost, no deadlock, every hardirq reported, nothing left running after unload |
| `interrupts/hardirq/{hardirq,irq_none}` | domain, virq, requested line | init, exit, top half | one raise from init | released in reverse order on every path, nothing used after its release |
| `interrupts/deferred/{tasklet,bh_workqueue,workqueue_sample,threaded_irq}` | the same, and the tasklet or workqueue | init, exit, top half, bottom half | the top half defers to the bottom half | the same, and the bottom half drained before its code goes |
| `interrupts/danger/sleep_in_{hardirq,softirq}_danger` | the same, and the debugfs directory, the `danger_enabled` knob | init, exit, `trigger_write`, top half, bottom half | users raise the line at any time | the same, and no raise of a line being freed; the illegal sleep only when armed |
| `interrupts/hardirq/disable_irq` | the line, its disable depth, a run counter | init (five raises while disabled, `enable_irq`), exit, handler | the raises merge, `enable_irq` resends | five raises, one run; a failed raise leaves nothing to be delivered |
| `interrupts/deferred/timer_softirq` | timer, tick counter | init, callback that re-arms, exit | timer softirq against `timer_shutdown_sync`; shares the softirq contexts with other modules | it ticks for ever, and not after unload |
| `interrupts/deferred/net_rx_softirq` | two atomic counters, the hook | hook on any CPU, init, exit | hooks on several CPUs, unregistering | one packet in 16 sampled, none in flight after unload |
| `smp/percpu/percpu_parallel` | a counter and a thread per CPU | init, exit, thread step | hotplug parks and unparks threads | every CPU prints consecutive numbers, none after unload |
| `data_structure/list` | a `list_head` of users | build, look up, update, delete, free all | sequential | the list stays well linked and is the sequence of its users, each freed once |
| `data_structure/container_of` | a nested struct | pointers from members to the struct | sequential | every computed pointer is the struct |
| build: `Makefile`, `scripts/kmod.mk`, `sign-module.sh`, `compdb.py` | `.build-<mod>/` per sample, `MOK.priv`/`MOK.der`, `compile_commands.json` | preflight, build, sign, collect | `make -j` runs the samples' builds at once | every module signed with the key on disk, through failed and interrupted builds |

The hard behaviours: preemption of a context by a higher one on the same CPU and
true concurrency between CPUs; raises that merge or drop; schedules of a queued
tasklet that coalesce; a latched interrupt that is resent; a callback that arms
its own timer while the module waits for it; an asynchronous interrupt that
lands during `rmmod` or while a failed init unwinds; CPU hotplug; users of
debugfs; every init call failing; parallel first builds, and interrupted ones.
`PROJECT.json` lists them as hazards, each at the line where it bites and with
the properties that would catch it.

## The modules

`IrqSim.tla` and `Smpboot.tla` are external components: the simulated line and
the per-CPU hotplug threads, modelled from what the samples rely on (below).
They have state and steps but no specification of their own; a module that
composes them instantiates them by name and conjoins their steps with its own.

`InterruptCompetition.tla` is `interrupt_competition.c`.

| model | code |
|-------|------|
| `pc`, `held` | the insmod/rmmod task: one value of `pc` per call of init and exit, `held` is what it has acquired; the `err_` labels are the same release steps as the exit function |
| `online`, `thread`, `raised`, `gs_raise_count` | the raiser of each CPU; `raised` is the point between the raise (line 90) and its count (line 91) |
| `pending`, `work`, `irq` | the line: pending bit, the CPU the `irq_work` is queued on, the hardirq context of each CPU |
| `hardPc`, `hardN`, `hardVal` | the top half on each CPU and its locals: lock and load, store and unlock, schedule |
| `softPc`, `softSeq`, `softVal`, `sched` | the bottom half and `TASKLET_STATE_SCHED` |
| `lock` | `gs_counter_lock`, held by a CPU and a context; interrupts are off where the bottom half holds it |
| `softRuns`, `picked` | history variables for the properties: what the bottom halves counted and last reported |

A critical section is two steps, so that a lost update is possible unless the
lock excludes it. A hardirq may come between any two steps of the softirq and of
the thread on its CPU, a softirq between any two of the thread.

`SamplePrograms.tla` holds the init and exit functions of the eight samples with
one simulated line, as data: what each call acquires, where its failure jumps
to, what the labels and the exit function release, and what the top half defers
to. `SimIrqSample.tla` interprets such a program: `InitCall`, `InitFails`,
`Rmmod`, and a release in two steps (`ReleaseBegins` takes the resource out of
use, `ReleaseReturns` is the end of the wait), against `EnterTopHalf`, `TopHalf`,
`BottomHalfBegins`, `BottomHalfEnds` and the debugfs users (`OpenTrigger`,
`trigger_write`, `CloseTrigger`, `EnterKnob`, `LeaveKnob`). That the first call
of a bottom half's allocation fails, and what a handler logs, changes no state
and is left out.

`SleepDanger.tla` extends `SimIrqSample` with what the two danger samples do
inside the handler or the tasklet: a user writes `danger_enabled` (`WriteKnob`)
at any time, the code reads it when it runs (`ReadKnob`) and either returns or
sleeps until `Wake`. Every step of `SimIrqSample` is conjoined with `Alongside`,
which says when the dangerous code is entered and lets it return only from the
mock or from the sleep. `armed` is a history variable.

`DisableIrq.tla` is `disable_irq.c` on `IrqSim`: `disabled` is the disable depth,
`latched` is `IRQS_PENDING`, `resend` the kernel tasklet that delivers what
`enable_irq()` finds latched, `made` the loop counter. One value of `pc` per call
of init and exit; `FreeIrq` to `RemoveSim` are shared by the `err_` labels and
the exit function.

`PercpuParallel.tla` is `percpu_parallel.c` on `Smpboot`. `step` and `val` are
where each thread is between `this_cpu_read`, `this_cpu_inc` and the print, `val`
its local variable; `shown` is the last number it has printed. `NumberLog.tla` is
what the sample promises, without threads and hotplug: CPUs that print
consecutive numbers while the log is open. `PercpuParallel` implements it under
the mapping of `pc` to its phase (`PrintsInOrder`).

`SoftirqContext.tla` is what each CPU serves in softirq context; on it stand
`TimerSoftirq.tla` (`timer_softirq.c`) and `NetRxSoftirq.tla`
(`net_rx_softirq.c`), each with its own loader task and its callback in steps,
and counters as `UnsignedLong.tla`, which wrap. `SoftirqSamples.tla` composes
the two: two modules loaded at once, whose callbacks delay each other on a CPU
and run at once on two. `gap` is a history variable: how many packets have been
numbered since the last one sampled.

`UserList.tla` is `list.c` with its pointers: `next` and `prev` of each address,
`allocated` and `user` for the heap, `pos` and `tmp` for the cursor of a loop
and its saved successor. One action is one iteration of a loop; `Script` lists
the operations of init. A cart is the lengths of its food names, which is what
`print_shopping_cart` depends on; `item` and `len` are its loop counter and the
length of the line (`PrintUser`, `PrintItem`, `CartPrinted`), and `wanted`, a
history variable, the length the line would have without the end of the buffer.
`UserSeq.tla` is the same without memory: a sequence that is appended to,
changed or shortened at any index, and emptied from its front; which user a name
picks is in `UserList` and `LoadedUsers`. `UserList` implements it under the
mapping of the ring of pointers to the sequence of its users
(`ImplementsSequence`).

`SignModule.tla` is one `make` after another: the jobs of the samples, each with
the tests of `sign-module.sh`, openssl writing the two files one after the other,
sign-file reading them. openssl may fail at any point, which `set -e` makes the
failure of the script (`OpensslFails`), and the whole `make` may be interrupted at
any point (`Interrupt`); both leave the files as they are, and the next `make`
(`MakeAgain`) finds them so. A file is absent, `partial` (empty or cut short), or
half of a pair; two halves need not be of the same pair. The compilation is a
single step, since each sample has a directory of its own for it. `SIGN=1`, the
default, and a `make` without `-k` are assumed.

`TypeOK` of `UserList` is more than types: a user has a cart init may have drawn
for it or exactly milk and ham, which an update that leaves the old items breaks.

`MC*.tla` and the `.cfg` files are the instances for TLC. The operators marked
"Fault:" are plausible mistakes in the definition that follows them; nothing
uses them, and replacing the definition by one of them breaks a property, which
`PROJECT.json` records under "mutants".

## What the runs check

| run | instance | properties |
|-----|----------|------------|
| `competition_smp` | 3 CPUs that stay online, 1 raise each, CPUs symmetric | `CounterGapFree` |
| `competition_hotplug` | 2 CPUs, one pluggable, 2 raises each | the types, all safety properties, `HardirqPickedUp`, `EveryCpuRaises`, `UnloadCompletes` |
| `samples` | all 8 programs, 2 CPUs, 2 debugfs users | the types, `BuiltOnHeld`, `NoUseAfterRelease`, `NothingLeaks`, `RaiseOnLiveLine` |
| `samples_live` | all 8 programs, 2 CPUs, 1 debugfs user | `LoadingServesIrq`, `UnloadCompletes` |
| `danger` | both danger samples, 2 CPUs, 1 debugfs user | `SleepsOnlyArmed`, `SleeperIsWaitedFor`, `DisarmingEndsSleeps` |
| `disable_irq` | 2 CPUs, 5 raises | `MergedIntoOne`, `OnlyResent`, `LatchedIsDelivered`, `LoaderEnds` |
| `percpu` | 3 CPUs, two of them pluggable, 3 numbers each | `StepsOnOwnCpu`, `PrintsInOrder` (refinement), `OnlineCpuPrints` |
| `softirq` | both samples on 2 CPUs, counters of 0 to 7, one packet in 4 | `OneTimer`, `NoHookAfterUnload`, `OneInSampleEvery`, `KeepsTicking`, `UnloadsComplete` |
| `list` | 5 users at any of 5 addresses, carts empty, with one and with ten of the longest name | `TypeOK`, `WellLinked`, `NoDanglingCursor`, `LoadedUsers`, `CartsPrintedInFull`, `ImplementsSequence` (refinement) |
| `sign` | 3 samples, any contents of the two files at first; `make` and, with both files there, `make -j3`, again and again | `SignedByKeyOnDisk` |
| `sign_first_parallel` | 2 samples, `make -j2`, no pair | `SignedByKeyOnDisk`, violated |
| `sign_again` | 2 samples, `make` again and again, no pair at first | `NextMakeSigns`, violated |

The bounds. Two CPUs have every pair of contexts (on one CPU and on two); three
add a raise that arrives while one CPU is in the handler and another holds the
lock. `RAISES_PER_CPU` is 10 in the code; two raises of two CPUs already give
merged and dropped raises, coalesced schedules, and a hardirq during the bottom
half of an earlier one. Every init call fails in some behaviour. One user of a
debugfs file is enough for each wait, two let one close the file the other still
has open. Three samples put one script before and one after the script that
generates the pair. `Pairs` has more members than the files and the scripts can
hold at once, so that openssl always finds a fresh one; pairs are
interchangeable, hence the symmetry of `sign`. `DISABLED_RAISE_COUNT` is 5, as
in the code. `PRINT_BOUND` ends the numbers of a CPU after three, which are
enough for an offline period between any two; the proofs hold for any bound.
`ULONG_MAX` is 7 and `SAMPLE_EVERY` 4 (16 in the code), so that the counter
wraps after two samples; as in the code, the period divides the range, which
`SampleAssumption` states. The five addresses are what five users need, and
freed ones are not allocated again by the code; they are interchangeable, hence
the symmetry. The three carts have every case of the separator and the longest
line, 118 characters for 127. No other bound is used: the other counters are
bounded by the program, and `trigger` and `danger_enabled` may be written for
ever. Deadlock is checked in every run; an unloaded module takes a step that
changes nothing, and `make` can be run again.

`sign_first_parallel` is a real defect. README.md of the repository says that
"`make -j` builds samples in parallel", each in a directory of its own, and that
the key is "generated on the first build". The key pair is in none of those
directories: `sign-module.sh:15` tests for the two files and lines 22-24 let
openssl write them in place. In a fresh clone two scripts may both find nothing
and generate a pair each, or one may find a file another is still writing. The
shortest counterexample has sign-file read an incomplete certificate, so that
the build fails; longer ones end with a key and a certificate that do not
match, or with modules signed by a key whose certificate has been overwritten,
which the `MOK.der` the user enrolls does not verify. The same property holds
with one job at a time, or once both files exist: what is signed is signed with
the pair on disk, and a `make` that fails was interrupted, or openssl failed in
it, or it found two files that are no pair (`BrokenPair`).

That last cause is the second defect, `sign_again`. Interrupting `make`, or a
failure of openssl (a full disk), between the creation of the certificate and
the end of its writing leaves a complete key and an empty certificate; over an
older certificate it leaves a new key beside it. `sign-module.sh:15` tests only
whether the two files exist, so every later `make`, one job at a time and
undisturbed, hands them to sign-file and fails, although a re-run of `make` is
all that README.md:162 asks for and openssl is there; `make clean` does not
remove the files either. They have to be deleted by hand. A key without a
certificate, or a certificate without a key, is repaired: both are generated.

## Fairness

Runs without a liveness property assume none. `FairSpec` of `InterruptCompetition` has weak
fairness of the loader task (it is a task that waits for nothing but what its
calls wait for), of every CPU's thread (a kthread that is not parked and has
work), of its hardirq context (a CPU takes its interrupts) and of its softirq
context (softirqs run on return from interrupts, or in ksoftirqd). Nobody has to
unload a module, plug a CPU or use a debugfs file: `Rmmod`, `CpuOffline`,
`CpuOnline`, `OpenTrigger`, `CloseTrigger`, `EnterKnob` and `trigger_write` have
no fairness. An access to `danger_enabled` ends (`LeaveKnob`): it copies a byte.
A module reference held by a user who never closes `trigger` keeps `rmmod` from
starting, not from ending, so closing needs none. `UnloadCompletes` is
nevertheless true while users still write `trigger`, since the reference they
hold excludes it.

The other modules follow the same lines: loader tasks, threads that are not
parked, hardirq and softirq contexts go on; `Rmmod` and hotplug need not happen,
packets need not arrive. In `SleepDanger` the dangerous code goes on and its
sleep is timed. `DisarmingEndsSleeps` assumes in its formula that the knob stays
off from some point on. In `SoftirqSamples` the expiry of the timer
(`TimerFires`) has strong fairness: its CPU may be serving packets whenever one
looks, which weak fairness would accept for ever (TLC then shows the timer
starving), but the softirq loop serves `TIMER_SOFTIRQ` before `NET_RX_SOFTIRQ` in
each of its rounds, so an expired timer that finds its CPU free again and again
is served. `list` and the safety parts need none.

## What is taken from the kernel

The kernel is not in the repository. The models assume of it:

- irq_sim keeps one pending bit per line and one `irq_work` per domain; queueing
  a queued `irq_work` does nothing; it consumes the bit and delivers.
- The generic IRQ layer drops a delivery while the handler is in progress on
  another CPU, or when the line has no handler.
- `free_irq` unlinks the handler, then waits for a running one and for the IRQ
  thread; `irq_domain_remove_sim` waits for the `irq_work`; `tasklet_kill` and
  `destroy_workqueue` wait for what is queued; `debugfs_remove` refuses new
  accesses and waits for those inside.
- A tasklet is queued once however often it is scheduled, is taken off its queue
  before it runs, runs on one CPU at a time, and moves to another CPU when its
  own goes down.
- `.owner = THIS_MODULE` makes an open `trigger` hold a module reference, which
  a module being unloaded refuses; debugfs' own bool file holds none.
- smpboot has one thread per online CPU, parks it before the CPU goes down,
  excludes hotplug while it registers and unregisters, and stops what it has
  started when registration fails.
- A raise of a mapped, enabled line does not fail after it has taken effect.
- An interrupt of a disabled line sets `IRQS_PENDING`; `enable_irq` clears it and
  has the interrupt resent by a tasklet of the kernel, since irq_sim cannot
  retrigger; `free_irq` calls off a resend that has not begun and waits for one
  that has; `disable_irq` waits for a running handler.
- The one second of `msleep` between two raises of `disable_irq.c` outlasts the
  `irq_work` of the first. Without it the fifth raise could be delivered after
  `enable_irq`; the code relies on it as well. The second after `enable_irq` is
  not assumed to be long enough.
- Sleeping in interrupt context ends, as in the traces the danger samples quote.
- Softirqs do not nest on a CPU. A timer is serialised with its own callback
  (a timer that is running stays on its base), is not pending while its callback
  is entered, and `timer_shutdown_sync` refuses `mod_timer` and waits.
- `nf_unregister_net_hook` unlinks the hook and waits, in `synchronize_net`, for
  the packets that are in it.
- smpboot parks a thread between two of its calls, never within one.
- `list_add_tail`, `list_del` and the safe loop are those of `list.h`; `kzalloc`
  returns any address that is free, or fails.
- An `irq_work` that runs after `irq_dispose_mapping` finds no mapping for its
  hwirq, and its delivery is dropped without calling a handler.
- `sign-file` reads the key before the certificate and refuses a pair that does
  not match; `openssl req` writes and closes the key before it opens the
  certificate, in place, and leaves what it has written when it fails or is killed. It
never generates the same pair twice.

## What is proved

The runs check small instances; the following hold for every
value of the constants. The proofs are in modules of their own.

`InterruptCompetition_proofs.tla`: for any finite set of CPUs, any pluggable
ones and any number of raises, from `CompetitionAssumption`: `TypeOK`,
`CounterGapFree`, `NoSelfDeadlock`, `NoHardirqUnreported`, `HandlerNeedsRaise`,
`NoCodeAfterUnload` and `RaiseOnLiveLine`. None is inductive alone. The
invariant `IInv` says, part by part: the lock is held exactly by the context
that is between load and store (`LockInv`); contexts nest on a CPU and the
tasklet runs on at most one (`ContextInv`); what a context has loaded under the
lock is still what the counters hold (`LoadInv`), so that its store adds exactly
one (`CountInv`); a stamp that no bottom half has picked up has a top half about
to schedule, a queued tasklet, or one that has not yet read it (`ReportInv`);
and `RaiserInv` and `LoaderInv` tie each point of init and exit to what is held
and to the threads, handlers and tasklets that may still exist there. One lemma
per part and group of actions shows that a step keeps it. `HandlerNeedsRaise`
compares a count with the sum of the per-CPU raise counters, a fold. Its
strengthening `RaisesInv` adds what is between a raise and a top half, the
pending bit and the handlers that have begun. `SumIsCardinality` makes the sum
the number of its units, pairs of a CPU and one of its raises: by induction over
the CPUs summed, in the form of a smallest set of them at which it would fail. A
raise is then one more element of a finite set.

`SimIrqSample_proofs.tla`: `RepositoryWellFormed`, for each of the eight
samples: whichever call of init fails, the labels that are run release exactly
what was acquired before it, in reverse order, and so does the exit function.
The proof computes no list by hand: labels that mirror the acquisitions undo a
prefix of them (`MirrorUnwinds`), and each program is shown to be of that form.
And for every subset of the eight programs, any CPUs and
any debugfs users, the five safety properties of `SimIrqSample`: `TypeOK`,
`BuiltOnHeld`, `NoUseAfterRelease`, `NothingLeaks` and `RaiseOnLiveLine`. Of a
program the proof uses only that it is well formed, so it covers any sample of
that form. `NoUseAfterRelease` is not inductive alone: that the users of a
released resource are gone does not say that those of another are. The
invariant `IInv` adds `LoaderInv`: what is held is exactly the first `Level`
acquisitions, where `Level` is read off the point the insmod/rmmod task is at.
The resource being released is then the last one held (`ReleasedIsTop`), whatever
something held is built on is in use (`InUseBelow`), and a release that returns
takes nothing from the others: by `PrefixTop` what needs the released resource
is no longer held, so whoever used it is gone (`ReleaseReturnsKeepsUse`).

`SleepDanger_proofs.tla`: `DangerIsASample`, the danger samples with knob and
sleep implement `SimIrqSample`'s specification, so that its theorems hold of
them; on top of it `SleepsOnlyArmed` and `SleeperIsWaitedFor`.

`DisableIrq_proofs.tla`: for any CPUs and number of raises `TypeOK`,
`MergedIntoOne` and `OnlyResent`. The invariant says where the one delivery is at
each point of init (`DeliveryInv`), that the line is quiet wherever init is not
sleeping after a raise (`LineInv`), and what is held where (`LoaderInv`).

`PercpuParallel_proofs.tla`: for any CPUs, hotplug and number of prints `TypeOK`,
`StepsOnOwnCpu`, and the refinement `Spec => Log!Spec`. The invariant ties each
counter to what its CPU has printed last: one ahead of it, or two between the
increment and the print (`CountInv`); and each thread to its online CPU and the
loaded module (`ThreadInv`).

`SoftirqSamples_proofs.tla`: for any CPUs, counter range and period that divides
it `OneTimer`, `NoHookAfterUnload` and `OneInSampleEvery`. The timer's part adds
that its callback is on one CPU at most and that a timer shut down stays so; the
hook's that it is linked exactly while it is live; `GapInv` reads the distance to
the last sample off the counter's remainder, which `IncrementRemainder` carries
across the wrap.

`SignModule_proofs.tla`: `SafeBuildsSign`, for any finite set of samples, any
numbers of jobs, any contents of the two files at first and any sequence of
makes, interruptions and failures of openssl: `SignedByKeyOnDisk`, if a `make`
that starts without one of the files has one job at a time
(`FirstJobs \subseteq {1}`). Nothing is assumed of the files themselves. The
invariant says that whoever generates a pair runs alone (`NoRaceInv`) and what
each script knows of the files at each of its points, or knew when it ended
(`BuildInv`): nobody has signed with a pair that is being replaced, and a module
that sign-file refused is explained by what is still on disk.

`UserList_proofs.tla`: for any addresses, any carts of at most ten items and any
positive number of users, from `ListAssumption`: `TypeOK`, `WellLinked`,
`NoDanglingCursor`, `CartsPrintedInFull`, and the refinement
`Spec => ImplementsSequence`; with the five users of the source also
`LoadedUsers`. The invariant `IInv` describes the ring without following it:
there is an order `r` of `n` nodes, with `HEAD` at both ends, that numbers the
allocated addresses one to one, and along which `next` leads forwards and `prev`
backwards (`IsRing`). `RingAppend` and `RingRemove` say which order is there
after `list_add_tail` and `list_del` (`Longer`, `Shorter`), so that each action
has its new `n` and `r`. `NameInv` keeps the names in the order of `r` and says
which are gone by which operation of init: it is why the second deletion of user
1 finds nobody, and why no update is of a freed user. `CursorInv` puts the cursor
at a place of `r` before which nobody is sought, and `LineInv` bounds the line by
twelve characters an item. `ChainIsOrder` ties the invariant to the properties:
the chain that follows `next` from `HEAD`, a recursive function, is `r`; a
smallest place at which they differ is none. The refinement maps `AddUser` to
`Add`, `UpdateFound` to `Change`, `DeleteFound` to `TakeOut` of the same index,
`FreeOne` to `TakeFirst`, `Built`, `AllocFails` and `Rmmod` to the changes of
stage, and every other step to none.

Every invariant, action property and refinement that a passing run checks is thereby
proved, except that `SignedByKeyOnDisk` needs the condition of `SafeBuildsSign`
(without it, it is false) and `LoadedUsers` the number of users of the source.
Only model-checked: the liveness properties, which are out of the prover's
reach. Where a proof needs induction over data (the sum over the CPUs, the chain
of the list) it takes the smallest counterexample from the well-foundedness of
the natural numbers; the induction theorems of the library are not used.

The assumptions are `CompetitionAssumption`, `ProgramsAssumption`,
`DangerAssumption`, `DisableIrqAssumption`, `PercpuAssumption`,
`WidthAssumption`, `SampleAssumption`, `SignAssumption` and `ListAssumption`.
The last asks for at least one user (the source has five), since a user's name
is a number below their number. What is assumed of the kernel is in the actions,
as listed above.

## Not modelled

`container_of.c` is one straight line of pointer arithmetic that the compiler
resolves: a model of it would subtract the offset it has just added. The
preflight of `kmod.mk` is a sequence of shell tests that end in a message, and
`compdb.py` joins the JSON of finished builds: string processing without shared
state. The compiler runs are the kernel's own kbuild. What builds do share, the
key pair, is `SignModule`.

What is logged is left out throughout, except the numbers of `percpu_parallel`
and the carts of `list.c`, which are what those samples are about. The ages in
`list.c` are left out: nothing depends on them. What a kernel does after sleeping
in interrupt context, other than going on, is not modelled. A raise of the
`irq_sim` line by an unregistered CPU, nested `irq_work` and threaded interrupts
forced by the kernel command line are not considered; nor is an `irq_work`
delayed past an `msleep` of one second.

## Plan

1. Done: every sample with state of its own, and the signing of the builds; the
   refinements of `NumberLog`, `UserSeq` and, by `SleepDanger`, of `SimIrqSample`;
   the proof of every safety property that a passing run checks.
2. Left: an abstract sample (loaded, live, unloading, gone, with "nothing runs
   unless loaded") that `SimIrqSample`, `InterruptCompetition` and `DisableIrq`
   implement; the competition's critical sections as a counter incremented in one
   step.
