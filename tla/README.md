# Verification of tcng

tcng is two programs. `tcc` compiles a traffic control configuration written in
the tcng language into `tc` commands, C code or the text of an external
interface. `tcsim` runs such a configuration, together with kernel code, in an
event-driven simulator that is driven by a script. This directory models the
event machinery of tcsim, the `if` compiler of tcc with its u32 and external
targets, and the way of qdiscs, classes and filters through tcc in TLA+,
model-checks them with TLC, and proves the results that matter most with TLAPS.

## Inventory

### tcsim

| Part | State | Operations | Hard behaviour | Correct when |
|---|---|---|---|---|
| time (`jiffies.c`, `cfg.l`) | none; pairs of jiffies and microjiffies | compare, add, convert, scan a literal | carries, truncation, un-normalised values | a script's time is the time it says, and comparison is the order of time |
| timers (`timer.c`) | `now`, `timers` | `add_hires_timer`, `add_timer`, `del_timer`, `mod_timer`, `advance_time` | timer functions change the list that is being walked | timers run in order, none is left behind, the clock never turns back |
| hosts (`host.c`) | `hosts`, routes, `peer`, `host` of devices | `create_host`, `add_route`, `connect_dev` | order of routes and of items | links have two ends, the first match is the most specific route |
| devices (`klink.c`) | `txing`, `scheduled`, queues, packets | `kernel_enqueue`, `kernel_poll`, `deliver`, `incoming` | nested calls: timer, delivery, forwarding, poll | packets are conserved, one completion per transmission, devices work while they have packets |
| commands (`command.c`, `var.c`) | `terminating`, struct every, reference counts | `cmd_run`, `do_every`, `cmd_free`, `set_var` | commands shared by variables and running timers | no command is freed while used, END ends all of them |
| attributes (`attr.c`) | defaults of a packet | `merge_attributes` | merged in the order of parsing | as if each setting were applied in turn |
| subprocesses (`tcsim.c`) | two pipes, two children | `run_tcc` | three processes, bounded pipes, failures | complete output or an error, nobody left waiting |

The script (`cfg.y`) calls all of them. Devices and commands put timers on the
list; timers call back into devices and commands; a delivered packet is looked
up in the routes of a host and goes to another device.

### tcc

The grammar (`tcng.y`, `tcng.l`) builds trees of devices, queuing disciplines,
classes, filters (`qdisc.c`, `filter.c`, `q_*.c`, `f_*.c`, `csp.c`), policers
(`police.c`), parameters (`param.c`), variables (`var.c`) and expressions
(`data.c`, `op.c`, `field.c`). The `if` filter is the compiler proper: all
conditions of a qdisc are combined into one expression (`iflib_comb.c`), freed of
negations (`iflib_not.c`), reduced (`iflib_arith.c`, `iflib_red.c`), brought into
a form with all matches before all actions (`iflib_act.c`) and written by a
target (`if_u32.c`, `if_c.c`, `if_ext.c`), some of them through an action
database (`iflib_actdb.c`) or a bit tree (`iflib_bit.c`, `iflib_newbit.c`,
`iflib_fastbit.c`). tcc has one thread; what is hard is that each pass must keep
the meaning of an expression with shortcuts and side effects (`count`, decisions),
and that the passes keep much in global state: numbers that are given while a tree
is walked, parameter values, a stack of rules, a hash table that is only written
when something needs it.

| Part | State | Operations | Hard behaviour | Correct when |
|---|---|---|---|---|
| optimizer (`iflib_comb/not/red/act.c`) | the expression | 24 passes | shortcuts, side effects, copies | each pass keeps what happens to a packet |
| arithmetic (`iflib_arith.c`, `op.c`, `u128.c`) | the expression | rewrite comparisons to bit matches | boundaries, carries between words, masks | same meaning, only matches left |
| offsets (`iflib_off.c`) | the expression | move offsets and roots out and back in | common offsets, sums, nesting | same meaning, constant offsets in accesses |
| action database (`iflib_actdb.c`) | actions, preferred numbers | register, share, number | two walks, shared tails | one number per action, defined before use |
| bit trees (`iflib_bit/newbit/fastbit.c`) | graph with shared nodes | build, sort, merge, extract rules | changes in place under a walk | rules and rest decide as the filters do; it ends |
| external target (`if_ext.c`, `ext/match.c`) | offset groups, rules | dump, match | barriers, meters | as above, for the program that reads the rules |
| u32 target (`if_u32.c`) | handle, cached table, rule stack, keys, priority | dump of links, matches, policers | repeated rules, meta fields, `continue` | the filters decide and take tokens as the expression does |
| qdiscs (`qdisc.c`, `q_*.c`, `filter.c`, `f_*.c`) | the tree, numbers | parse, check, dump | automatic numbers, root classes, defaults | the kernel takes the commands, all is there |
| class selection paths (`csp.c`) | paths, bits and shifts | register, number, add filters | bit fields of nested qdiscs | the number leads to the class |
| parameters, policers (`param.c`, `police.c`) | global values, next number | get, push, pop, assign | values left over from a sibling | nearest value wins; the policer of an index is the right one |

`PROJECT.json` lists all parts, also those without a model, and the places where
the code is hard to test.

## Modules

| Module | Models | State and actions |
|---|---|---|
| `Jiffies` | `jiffies.c`, `timer_lt`, `timer_le` | operators on struct jiffval; `UJ` is 1000000 in the code |
| `TimerQueue` | `timer.c` | `now`, `timers`, where advance_time is (`pc`, `target`); one action per function, `Fire`/`Return`/`Finish` for the loop of advance_time |
| `EventCalendar` | what the timer list promises | a set of events; the earliest one, first added among equals, runs next |
| `ScriptTime` | `cfg.l` literals, `time` item | extends `TimerQueue`; literals in a base that is a parameter |
| `Routing` | routes of `host.c`, lookup of `klink.c` | operators; an address is the set of its one-bits |
| `Topology` | `host.c`, the device and host items of `cfg.y` | hosts, devices, links, routes |
| `SimNet` | `klink.c`, `command.c`, items of `cfg.y` | composes `TimerQueue` and `Routing`; the call stack of the program is the variable `work`, one action per function; malloc of struct every takes an address of `Addrs` that is not in use |
| `Commands` | `cmd_free`, `do_every`, `var.c` | reference counts of commands, variables and struct every |
| `Attributes` | `attr.c`, attribute rules of `cfg.y` | the lists while a packet item is parsed; the history variable `documented` applies each setting as it is read, by the sentence of `doc/tcsim.inc` |
| `TccPipe` | `run_tcc` of `tcsim.c` | three processes, two pipes, the holders of each end; any call may fail in the processes of `Failing` |
| `IfExpr` | `op.c`, `data.c`, predicates of `iflib_act.c` | conditions as trees over abstract fields, and their meaning |
| `IfPasses` | `iflib_comb.c`, `iflib_not.c`, `iflib_red.c`, `iflib_act.c`, order of `dump_if_u32` | the expression `d` and the passes still to be made; one action per pass |
| `U128` | `shared/u128.c` | four words whose width is a parameter |
| `PktExpr` | `op.c`, `data.c` | expressions over packet bits: folding as in the code, and what an expression does with a packet and the buckets |
| `IfArith`, `IfOffset` | `iflib_arith.c`, `iflib_off.c` | one operator per pass |
| `IfLower` | order of these passes | the expression and how many passes are done |
| `OffsetGroup` | offset groups of `if_ext.c`, their value in `ext/match.c` | a table of groups |
| `DecTree` | rules, actions and their evaluation by `ext/match.c` | decision trees over packet bits and buckets |
| `ActionDb` | `iflib_actdb.c` | registered actions, their numbers and the order of definition |
| `BitTree`, `NewBit`, `FastBit` | `iflib_bit.c`, `iflib_newbit.c`, `iflib_fastbit.c` | build, sort and merge the tree, choose the branch to write |
| `IfExt` | `if_ext.c` | expression, table, actions, tree and rules; one action per phase, one per extracted bundle or path |
| `IfU32` | `if_u32.c`, `tc.c`; u32, fw and tcindex classifiers from their use | the generator state `gen` (handle, cached table, stack, keys, priority, output), one action per attempt and per protocol |
| `TcTree` | `tcng.y`, `qdisc.c`, `filter.c`, `police.c`, `param.c` | the tree `t` of qdiscs, classes, filters, policers; numbering |
| `ClassPaths` | `csp.c` | selection paths to numbers and tcindex filters |
| `QdiscCheck` | check functions of `q_*.c`, `f_*.c` | tree to tree |
| `QdiscDump` | dump functions, `device.c`, `tc.c`; the kernel from its use | parser steps, check and dump of both qdiscs, the commands `out` |
| `*Proofs` | | theorems about the module of that name; `TimerQueueProofs` has the refinement of `EventCalendar` too |
| `MC*` | | instances for TLC |

Names follow the source where TLA+ allows it. Operators named `Slip...` are
wrong variants of the definition that follows them; they are not used by any
specification, and serve to show that the properties notice the mistake.

Where the code changes shared structures in place (expressions, bit trees), the
models use values: a node that the code shares is the same value wherever it
occurs, and reference counts of nodes have no counterpart. Two places compare
pointers, make_dag (`iflib_fastbit.c:249`, both branches are one node) and fix_edge
(`:432`, a successor is the other branch); `FastBit` compares the trees there, so it
takes the short way also where the code copies equal nodes, and a node that the code
changes in place for one parent never changes for another. What is said of these
trees is said of what they decide.

External to the repository and modelled from its use: the queuing discipline of
a device in tcsim (kernel code; a FIFO with a limit, which frees what it refuses,
and for ingress a free choice to drop); fork, pipe and wait of the operating
system; how u32, fw and tcindex filters with policers classify (`classify` of
`IfU32`); which tc commands the kernel takes (`Accepts` of `QdiscDump`).

## Runs

| Run | Shows |
|---|---|
| `timers` | Three timers, added, deleted and modified by the script and by each other in every order, with the clock moved by every literal of up to three decimals: order, clock monotone, advance_time complete, `TimerQueue` implements `EventCalendar`, and the clock goes where the literal says. |
| `items` | Scripts of six items over two hosts and three devices: symmetric links, no route hidden by another, most specific match. Settings before and behind two data values are merged as documented, except for the value of an attribute set behind both. Four commands, two variables, two struct every: exact counts, nothing dangling, END frees all. |
| `sim` | tcsim from run_tcc to END. First run_tcc, with input and output larger than a pipe, where anything may fail in each of the three processes: complete output or none, no process left unless a call of tcsim itself has failed, and it ends, with one exception. Then two rated devices along a route, a stopped device that is polled, a rated one that is polled while it transmits, one without host, `every` inside `every`, an ingress qdisc, short packets, `send` without a device: packets conserved, one completion per transmission, work-conserving devices, END drains and returns, no timer added while it is pending. |
| `end_idle` | Violated, see below. |
| `if_passes` | 1913 conditions: matches with negations, alone and with `(conform && count) \|\| drop` behind them, matches and meters in any order, and two classes. After each of the 24 passes the expression decides the same for every packet and every state of the bucket; the result has the canonical form. |
| `if_metered` | Violated, see below. |
| `lower` | About 900 expressions with `* / % + - & \| ^ << >>`, all comparisons, wide constants and computed offsets, with the switches "prefix" and "ne": each of the twelve passes keeps the outcome for every packet; only matches and constant offsets are left. |
| `ext` | About 1200 sets of filters through if_ext.c, directly or by each of the three bit tree algorithms: rules and the tree that is left decide and count as the filters do, actions have numbers of their own, no algorithm meets a shape it aborts on, each extraction makes the tree smaller. |
| `u32` | Conditions with all meters that the u32 target has maps for, linked tables, meta fields, several protocols, default class and `continue`: the filters decide about each packet and take from each bucket as the expression does; tables exist before they are used and are made once; priorities separate classifiers; the rule stack is empty at the end. |
| `u32_again` | Violated, see below. |
| `tree` | Families of configurations of all qdiscs with given and automatic numbers, nested and shared qdiscs, root classes, inherited parameters, class selection paths, prios inside of prios, filters and policers: the kernel takes each command, each element is written once, each class has the nearest value of each parameter, and each path number leads to its class and to no other path's. |
| `prio_bands` | Violated, see below. |

**Bounds.** Four microjiffies per jiffy have every carry and prefix, and with three
timers there are two neighbours for each insertion. `MaxAdds`, `MaxItems`, `MaxClock`
cap what a behaviour adds; in `sim` `MaxAdds` is larger than any behaviour
needs, and there are more `Addrs` than struct every objects at a time, so that
neither blocks a step. Two address bits give default, middle and host
routes. The pipe of four with an input of nine fills and drains twice; the commands of `sim`
are run behind one length of the output of tcc, on which they do not depend. A
condition of three leaves has each operator on each side of each other; four
fields include one of a single bit, whose test is inverted in place. In `lower`
words have three bits and bytes two, so that a field is within a word, at its
border, or two words long, and all constants around powers of two occur. `ext`
and `u32` take every packet of the bits that the fields cover. In `tree` the
families combine, for each qdisc, the places where a number or a parameter can be
given; numbers go up to a small `MaxId`. With three `PathBits` some of the class
selection paths fit, and others are counted.

**Fairness.** tcsim has one thread, which does not stop inside a function:
`SimSpec` has weak fairness of `Internal`, everything between two script items,
and none of the items themselves. In `TccPipe` the operating system schedules
each process, so each has weak fairness; tcc reads on or exits, and nothing has to fail.
That the loop of smart_dump ends is stated without fairness, as a measure
(`Shrinks`). `CHECK_DEADLOCK` is off since scripts end, tcsim exits on errors and
compilations are finite.

**What `Preserved` leaves out.** The targets evaluate all matches before all
policing. An expression that counts a packet and then fails a test cannot be kept
under that order, although evaluation is left to right in `doc/tcng.inc`: the
comment of `bubble_and` (`iflib_act.c:132-137`) says that its transformation is
wrong with side effects, and the code refuses only some of these; `Preserved`
speaks of the packets with which this does not happen (`Clean`). It also says
nothing when tcc exits with an error.

**What `MeaningKept` leaves out.** Packets for which a subexpression of the source
leaves its integers (`exact`), and the sources listed under "arithmetic" below.

## Disagreements

Shown by runs:

* `end_idle`: END "waits for all timers to complete and all queues to empty"
  (`doc/tcsim.inc`), but advance_time polls devices only behind a timer. A packet
  that a `poll` has moved to an idle rated device is not sent if no timer is
  pending. `PolledEndDrains` states when the promise is kept.
* `if_metered`: "The metering primitives can be used like any Boolean expression"
  (`doc/tcng.inc`), but `class if (f == 1 || g != 1) && conform p` becomes an
  expression that selects the class for `f != 1`, `g == 1` whenever `p` conforms.
* `u32_again`: rules that have to be repeated for a second filter of a meter take
  new handles for their tables, but not from the handle that was set aside for the
  next table; a link then leads to a table that is never made.
* `prio_bands`: `"bands" is automatically raised if necessary` (`tests/bands:1`), but
  prio_check asks for `prm_bands.present` (`q_prio.c:80`) after the checks of the inner
  qdiscs have filled this global with their parameters. If the last of them is a
  prio with `bands`, an outer prio with a class 4 is written without, and the
  kernel refuses what is attached to `N:4`. In `tree` the outer prio has `bands` itself,
  does not need more than three, or has other parameters read behind those of the
  inner prio.

Met while modelling, without a run of their own. Where a property does not name
them as an exception, the inputs of the runs avoid them, since the code does not
keep the property there.

tcsim:

* `time 3000000uj` is not normalised by the prefix rule of `cfg.l`, so it sorts
  before `1j`; the same value in seconds is right.
* `poll` of a rated device that is transmitting delivers the packet at once and
  leaves its timer pending (`klink.c:280`). When the timer fires, `deliver` finds
  no packet (NULL) or cuts the next transmission short; `doc/tcsim.inc:479` says
  that `poll` has no effect if no packets are available. The run `sim` has such polls;
  `stolen` records them, and `OneCompletion` and `NoCrash` hold until the first one.
* If tcc fails with more than a pipe full of input left, run_tcc waits forever: the
  writer holds the read end of its own pipe. `EndsUnlessCut` states that this is
  the only way not to end.
* If a call of tcsim itself fails in run_tcc (pipe, fork, close, read, realloc), it
  exits and leaves its children running (`tcsim.c:119-122`, `142-159`). They need not end:
  each of them has the read end of the pipe that it writes to. `NoOrphans` is about
  the other ways out. On the exits for a failed writer (`tcsim.c:165-166`), which come
  before `waitpid` of tcc, tcc is gone, because the read loop ends only when
  neither child has the pipe open.
* Attributes behind several data values: the first of equal priority wins, not the
  last. `AsDocumented` says so for the value and excepts nothing for the priority.
* END looks for stalled devices before it runs the timers that may stall one
  (`cfg.y:143`).

Optimizer, arithmetic and offsets:

* A `||` chain with an alternative that is the beginning of an earlier one loses
  the side effects of the latter (`(conform p && count p) || conform p`), and in
  the other order, `f || (f && g)`, tcc exits with a type error, although
  `iflib_red.c` has a comment "a || ab -> a".
* A negated alternative before policing can leave `||` below `&&` in the result.
* Factors, divisors and moduli are passed as `uint8_t` (`iflib_arith.c:107`).
  `X + C1 < C2` with `C1 > C2` wraps; `C1 - X < C2` keeps its direction; `0 * X`
  divides by zero; masks are lost from `X > C` in rel_access.
* `u128_cmp` compares the least significant word first (`shared/u128.c:217`), and
  rel_to_eq uses u128_minus where it means a subtraction, so that comparisons of
  IPv6 values with several words in use go wrong.
* With "ne", `X > max` fails an assertion; with "prefix" some constants do.
* Accesses that share one part of a sum lose another with it in pull_offset.

Bit trees and external target:

* remove_duplicates runs before bubble_static, so a bit can be tested twice on a
  path; dump_all_paths_to then writes the first test only. Bits of the same number
  in two offset groups replace each other in a rule.
* reduce_dag asserts that the two branches of a node differ; `newbit` also fails
  on `count` above `conform`. `fastbit` has no meters and writes no rules.
* repeated_actions takes `conform p` below `conform p` as decided although there
  is a `count p` between the two.

u32 target:

* A `match && continue` that writes nothing, followed by another `continue`, pops a
  rule that was never pushed (assertion at `if_u32.c:347`).
* The second filter of a meter inside a linked table is written into a new table
  that is linked at the end of the root table, behind later alternatives.
* fw and tcindex filters of consecutive alternatives get the same priority; the
  mask of an nfmark test is ignored; of nested shifts only the innermost counts;
  an offset field of four bytes reads its upper half.

Qdiscs:

* A policer that is numbered explicitly after the first `if` may get the index of
  an automatic one (`police.c:59`).
* An explicit htb class 0 with a qdisc is written as parent `N:0`, which the
  kernel refuses; qdisc number 0xffff of egress is that of ingress; a gred class
  that is numbered automatically may exceed the number of DPs; prio accepts one
  band, and a priomap that names a class of another qdisc.
* The root class of htb compares `ceil` with the `rate` of the last class checked
  (`q_htb.c:81`); get_indices does not end for classes from 2^31 on,
  and neither does dsmark_check for `indices 0` (`q_dsmark.c:50`).
* Class selection paths that are counted, because their bits do not fit, say nothing
  of the DP, so a gred class behind them is not selected; `tree` has gred only where
  the bits suffice.
* A dsmark class that merge_shared has taken away but that a fw, route or tcindex
  element still selects is written as `N:ffffffff` (`tc.c`), which the kernel refuses.

## Proofs

All constants are arbitrary within the named assumptions of the modules, which
TLC evaluates in the runs. Every invariant and every action property of tcsim
that a passing run checks is proved. Each inductive invariant was checked with
TLC on the instance of its run before it was proved.

* `TimerQueueProofs`: `IInv` is inductive. Order alone is not: insertion needs
  the numbers of the calls to break ties and the clock to keep the list ahead of
  it, removal by identity needs that a timer is linked once, and running a timer
  needs that the clock has not passed the target. Lemmas say what inserting at
  and removing from a position of a list do. From `IInv` follow order and no
  overdue timer (`ListCorrect`), `ClockNeverTurnsBack` and `AdvanceIsComplete`.
  `CalendarImplemented` is the refinement of `EventCalendar`: the set of events is
  the range of the list. Step by step: inserting into the list adds one event,
  removing by identity takes away the events of that timer, and, since the list
  is sorted and the numbers of calls differ, its head is the earliest event and
  the first added among equals.
* `ScriptTimeProofs`: the results about the list hold in scripts whose items move
  the clock (`ScriptKeepsList`, `ScriptClock`, `ScriptSeesCalendar`), and these
  items move it where they say (`TimesAsWritten`), for any base, number of digits
  and jiffies per second. `AtojExact` says what scanning the decimals yields:
  the weights divide each other without remainder (`WeightExact`), so the sum of
  the weighted decimals is the digits read as one integer, scaled. It is less
  than a jiffy (`UjiffiesBelowUnit`), so that the quotients and remainders of
  si_prefix are those of the whole number (`SiPrefixScales`), conversion to jiffies
  loses nothing (`StojExact`), and jv_add carries once at most (`JvAddExact`).
  The powers, weights and sums are recursive functions; induction over the digits
  is stated for a set of indices instead of a predicate (`SetInduction`), since the
  provers cannot instantiate the theorems of the library that take an operator.
* `TopologyProofs`: `TopoInv` is inductive; `MatchesClash` connects the test of
  add_route with the lookup. `LinksSymmetric`; `LongestPrefixMatch` under prefix
  masks; `NoRouteIsDead` for any masks: for each route and each one before it there
  is an address that the later one matches and the earlier one does not. It speaks of
  pairs; that several routes together hide another is not excluded.
* `TccPipeProofs`: `PipeInv` is inductive; it accounts for who holds which end of
  which pipe and for each unit of output, and knows that an end of file behind a writer
  with status 0 comes after all of the input. `OutputComplete`; `ChildrenGone`, for all
  ways out of run_tcc but the failure of a call of its own.
  Of liveness, what needs no fairness: `NoDeadlock`, that run_tcc is over, or the
  guard of one of the steps with fairness holds (`CanGoOn`), or the writer is cut off
  as under "Disagreements", and `AlwaysLess`, that each step lowers `StepsLeft`, the
  bytes still to be written and read and the way each process has to go. TLC has
  checked that `CanGoOn` is what ENABLED says of these steps.
* `AttributesProofs`: merging is associative (`MergeAssociative`) and merging
  nothing changes nothing (`MergeNothing`). `AttrInv` is inductive: what has been
  merged and what the parser still has on its stack amount together to what has
  been read (`ListPending`, `PriorityPending`, `StackPending`). For priorities the order
  of merging does not matter: a setting of normal priority is left if there is one
  (`MergeDflt`). For values behind data it needs that at most one of the lists is about
  an attribute, which comes from `BehindOne`, that the attribute is set behind one
  data value only, and from `StackWritten`, that a list only sets what was written
  behind its data value. `SentAsDocumented` is the case in which nothing is pending:
  all priorities, and the values of the attributes with `BehindOne`.
* `CommandsProofs`: `CmdInv` is inductive. Exact counts alone are not: a command
  that is about to run is not counted for and lives on the reference of the call
  behind it (`RunsAreBacked`), and a struct every has one owner, the stack of
  calls or its timer (`EverysAreHeld`), or else freeing it twice would be counted
  right. Owners form a finite set that each step changes by one element at most.
  `CountsExact`, `NothingDangles`, `EndFreesAll`.
* `SimNetProofs`: `SimInv` is inductive. Its parts: `IInv` of the timer list;
  `NetOK`, types and packet conservation, where each packet has exactly one place
  and the generation numbers of new ones are fresh; `StackOK`, the shapes that
  the stack of calls has while the script, the loop of advance_time or a timer
  function runs; `EverysHeld`, that a struct every is on the stack once or has
  its timer pending, never both; `PollsFollow`, that behind anything that may put
  a packet on a device or free its wire there is a poll of each device. From it
  `PacketsConserved`, `NoIdleDevice`, and `TimersUsedProperly`, the obligation
  that add_hires_timer leaves to its callers. Thus every behaviour of the
  simulator is one of the timer list (`SimUsesList`), and calendar, monotone clock and
  complete advance_time hold in the composition (`SimKeepsTime`).
  `TransmissionsEnd` is inductive relative to `SimInv`: a rated device with a packet
  on its wire has its timer pending or dev_do_poll about to run for it, and, until a
  `poll` takes a packet off such a wire (`stolen`), only then; there is never more
  than one. From it `TransmissionEndsOnce`, `CrashesExplained`, and `EndLeavesNothing`: when
  advance_time returns at the largest time, all timers have run, so no wire is busy,
  and what waits would have been polled. All of this is for any script.
* `U128Proofs`: for words of any width, `u128_add`, `u128_sub`, `u128_minus` and
  their variants for a single word yield the number modulo 2^128 that they should
  (`AddExact`, `SubExact`, `MinusExact`, `Add32Exact`, `Sub32Exact`), and the tests
  and conversions agree with the number (`TestsExact`). The point is the carry: the
  code tests for overflow twice per word, and the lemmas `AddWord`, `SubWord` and
  `NotWord` say that the two tests see exactly one overflow; `Carried` adds up the
  words. `u128_cmp` is not among them, see "arithmetic".

Hypotheses of theorems beyond the assumptions of the modules:

* `Times = Jiffval` (`SimUsesList`, `SimKeepsTime`, `ScriptSeesCalendar`): the callers of the timer
  list may pass any time. TLC needs a finite set there; `timers` has one.
* `[]TimersInRange` (`EndLeavesNothing`): no timer lies beyond `EndTime`, which in
  the code has all bits set. Jiffies are unbounded in the model, so this is said
  and not derived; it holds on the instance of `sim`.

Assumptions that are there for the provers: `Base \in Nat \ {0, 1}` in `U128`,
which follows from `W \in Nat \ {0}`, but the provers have no rules for powers.

Only model-checked:

* liveness, `EndReturns` and `EndsUnlessCut`, which needs fairness and ENABLED;
* the passes and targets of tcc and its qdiscs (`IfPasses`, `IfLower`, `IfExt`,
  `IfU32`, `QdiscDump`). The expressions, decision trees and qdisc trees are
  recursive, and so are the definitions on them (RECURSIVE operators), which is
  outside the reach of the provers;
* the shifts and bitwise operations of `U128`, which are about powers of two.

## Plan

Next, in this order:

1. Proofs: `Shrinks` and the rule stack of `IfU32`, if their state machines can
   be separated from the recursive operators.
2. `f_rsvp.c` and the default classes of the qdiscs for the `if` targets.
3. Variables and structures of tcc (`var.c`), and the records of `tccext.c`.

## Not modelled

* Text: `if_c.c` and `tcm_*.c` (C code of kernel modules), `ext_*.c` and `echo.c`
  (the external interface as text), `tccext.c` (its parser), `sprintf*.c`,
  `addr.c`, `location.c`, `error.c`, options and debugging output.
* `usvc.c`, `module.c`, `trace.c` and the scripts of tcsim: glue that makes kernel
  and iproute2 sources link into the simulator.
* `f_rsvp.c` and the `*_default_class` functions of qdiscs (planned).
* The rounding of doubles in times and rates, and running out of memory.
* Tests, examples, scripts and toys: reference for the models, not part of them.
