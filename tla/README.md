# Verification of OrCS

OrCS is a trace-driven simulator of out-of-order processors with caches, a
DRAM controller and two near-data accelerators (VIMA and HIVE).  One thread
clocks every component in a fixed order, so nothing runs in parallel with
anything; what is hard is that components hold pointers into each other's
buffers across many cycles, count each other's resources, and wake each other
up.  A mistake there does not crash: it loses a request, starves a simulated
instruction, or lets a command through that the simulated hardware forbids.

This directory holds TLA+ models of those components, the TLC instances that
check them, and TLAPS proofs.  `PROJECT.json` maps every definition to the
lines of source it stands for, and lists runs, faulty variants, findings and
hazards.

    tlc -config MCPipeline.cfg MCPipeline      # a run
    tlapm CacheManagerProofs.tla               # the proofs of a module

## 1. Inventory

A processor clock does, in this order (`processor.cpp:3498`): VIMA clock, HIVE
clock, cache manager clock, commit, execute, dispatch, rename, decode, fetch.
The main loop (`simulator.cpp:245`) clocks the memory controller, then every
processor, until none of processors, memory controller and cache manager is
busy.

| Component | State | Operations | Talks to |
|---|---|---|---|
| circular buffer (`utils/circular_buffer.hpp`) | slots, begin and end cursors, size | `push_back`, `push_front`, `pop_front`, `pop_back`, `pop_push`, `front`, `back`, `[]` | holds the fetch and decode buffers; the cache manager keeps pointers to its slots |
| processor pipeline (`processor/`) | register alias table, reorder buffer, reservation station, functional units, four memory order buffers (MOBs), counters of executed operations, candidates to send | `rename`, `dispatch`, `execute`, `mob_*`, `clean_mob_*`, `commit` | disambiguator, cache manager (requests, answers through client pointers) |
| memory disambiguation | tables of the youngest load and store per bucket | `make_memory_dependences`, `solve_memory_dependences` | writes the MOB lines of the pipeline |
| front end (in `processor/`) | fetch and decode buffers, counters of instructions, stall, trace flag | `fetch`, `decode` | branch predictor, cache manager, rename |
| cache manager (`cache/cache_manager.cpp`) | table of outstanding requests, MSHR counter of each cache | `available`, `searchData`, `process`, `clock`, `finishRequest` | processors, caches, memory controller, VIMA and HIVE controllers |
| caches (`cache/cache.cpp`) | sets of tagged lines, dirty bits, LRU, directory pointers | `read`, `write`, `returnLine`, `installLine`, `writeBack` | cache manager; levels above and below |
| memory controller, channels (`main_memory/`) | list of requests; per bank two queues, last row, last command, ready flag; drain flag; timing tables | `requestDRAM`, `clock`, `addRequest`, `findNext` | cache manager |
| VIMA controller | instruction buffer, vector cache, sub-requests | `addRequest`, `clock`, `instruction_ready`, `check_completion` | cache manager in, memory controller out |
| HIVE controller | instruction buffer, register bank, lock | `addRequest`, `clock` | cache manager in, memory controller out |
| prefetcher | table of strides | `prefecht`, whose body is commented out: dead code | nothing |
| branch predictor | branch target buffer; history and weights of the piecewise predictor | `solveBranch` (`searchLine`, `installLine`, `branchPrediction`) | fetch |
| trace reader, configuration, utilities | files | parsing | input only |
| simulation loop (`simulator.cpp`, `orcs_engine.cpp`) | global cycle | clocks everything, decides when to stop | all |
| trace generator | a separate Pin tool, with Intel's PinPoints scripts | - | writes the traces |
| style checker | Google's `cpplint` | - | - |

What is hard in each, and what makes it correct:

- *Circular buffer.*  Five operations move three cursors with wraps, and the
  cache manager holds slot pointers while others push and pop.  Correct: a
  bounded double ended queue; a pointer to a live slot stays valid.
- *Pipeline.*  Register dependencies are counters, incremented at rename
  through an alias table and decremented by three later stages through lists of
  pointers into a ring whose lines are reused; MOB lines leave their own rings
  by count.  Correct: operands are ready when a uop is dispatched, every wait
  has a waker, the rings agree, every uop commits.
- *Front end.*  Room is reserved by one count of the uops of an instruction and
  filled by another; a branch is resolved when the next instruction is fetched;
  the cache answers through pointers into the fetch buffer.  Correct: instructions
  are decoded in order, each within its room; nothing is fetched past a
  mispredicted branch; every instruction is decoded.
- *Branch target buffer.*  One loop finds an entry, another installs it, and the
  last index is remembered for a third.  Correct: one entry for a branch, the one
  that is consulted.
- *Disambiguation.*  Only the youngest operation of each bucket is remembered;
  pointers to freed lines must not remain.  Correct: an operation does not reach
  the cache before an older one of its bucket.
- *Cache manager.*  A request takes a counter of each level on its way down,
  gives them back in a loop of another function, can be merged into another
  one, is retried while resources are full, and is deleted while controllers may
  know it.  Correct: counters equal holders, each waiting client is registered
  once, nothing dangles, nothing is forgotten, everybody is answered.
- *Memory controller.*  The choice of a request is made when a bank is prepared,
  again when the bus is granted, and again to close the row, and making it switches
  between reads and writes; a list is erased from while it is walked; timing constraints are kept in tables of last commands.  Correct:
  every request is in one place, served once, on its own open row; activations
  keep their distances.
- *Caches.*  Each line keeps pointers to the copies of its address in the other
  levels; installations, hits, write-backs and evictions set, follow and clear
  them in different combinations.  Correct: one copy of a line in a cache, a
  write-back finds the levels below, nobody else's private caches are touched, a
  store is not lost.
- *VIMA, HIVE.*  Sub-requests are answered in any order and their packages are used
  again; a vector or register serves one instruction after another; HIVE's buffer
  is erased from while it is walked.  Correct: packages are used again only when
  they are back, an instruction is executed with its operands, LOCK and UNLOCK
  alternate, every instruction completes.

The hazards, each at its line and with the properties that cover it, are in
`PROJECT.json`.

## 2. Modules

| Module | Models | State and actions against the code |
|---|---|---|
| `Deque` | abstract: a bounded double ended queue of packages | - |
| `CircularBuffer` | `utils/circular_buffer.hpp` | `data`, `beg_index`, `end_index`, `size` are the members; one action per operation, with its wrap, its cleaning of the slot and its result |
| `CacheManager` | `cache_manager.cpp`, and of the processor, VIMA, HIVE and memory controllers what they exchange with it | `requests` is the table, `package` the fields of a package, `count` the MSHR counters, `i` the index the walk in `clock()` has reached: one `clock` step is one table entry, and requests cannot be submitted inside a walk, as in the code |
| `DRAMService` | abstract: a request is submitted, queued, served on its own open row, answered | - |
| `MemoryChannel`, `MemoryController` | `memory_channel.cpp`, `memory_controller.cpp` | queues, row commands, transmission and row policy per bank; the clock is a sequence of steps (`phase`): the two halves of the clock of each channel, then one entry of the list after the other |
| `MemorySystem` (EXTENDS `CacheManager`, instantiates `MemoryController`) | the hand-over of packages between the two, and the order in which the main loop clocks them | the set `dram` of `CacheManager` is the part of the list `working` that it sent: `requestDRAM` joins the step that sends a package, the answer is the step that takes it off the list; the installation that precedes `finishRequest` may add a write-back of the last level (`writeBack`, `cache.cpp:241-253`), a package of its own that nobody waits for; neither walks while the other is half way |
| `RowTiming` | `get_minimum_latency(ROW_ACCESS)` | time of the last activation, precharge and row cycle of each bank, in cycles |
| `Disambiguation` | `disambiguation_hashed.cpp` | its two operations as operators on the MOB and the tables |
| `Pipeline` (EXTENDS `Disambiguation`) | `processor.cpp` from rename to commit | `rob`, `robStart`, `robUsed`, alias table, stations, `mob`, `mob_start`, `mob_used`, counters and candidates are the members; one action is one pass of a stage's loop |
| `CacheLines` | `cache.cpp`, `linha.hpp`, and lookup, return and installation of lines in `cache_manager.cpp` | `lines` are the sets of all caches, with tags, dirty bits and the pointers between levels; `requests` how far each request is; one step is one lookup in one level (`hit`, `miss`) or the installation that ends a request (`install`); `writeBack` has the three cases of the code |
| `FrontEnd` | `fetch` and `decode` of `processor.cpp`, `branch_predictor.cpp` | the two buffers, `fetchCounter`, `decodeCounter`, `stall`, `previousBranch`, the target buffer; one step is one clock of both stages with all their slots, or an answer of the cache, or rename taking a uop |
| `Vima` | `vima_controller.cpp`, `vima_vector.cpp` | `vima_buffer`, `vima_cache`, the vectors of the operands; one step is one clock: every vector, then the head of the buffer |
| `Hive` | `hive_controller.cpp` | `hive_instructions`, registers, sub-requests and the lock; one step is one clock: the registers, then the whole walk of the buffer |
| `NearData` (EXTENDS `Vima`, `Hive`) | which of the two controllers `processor_t::clock` clocks | one of them is active |
| `CircularBufferProofs`, `CacheManagerProofs` (with `MemorySystem`), `MemoryControllerProofs`, `CacheLinesProofs`, `FrontEndProofs`, `NearDataProofs`, `PipelineProofs`, `PipelineOrderProofs` (EXTENDS `PipelineProofs`) | - | the theorems |
| `MC*` | - | instances: constants for TLC |

Shared abstractions.  Latencies are free: where the code compares `readyAt`
with the cycle, the model has a flag that may become true at any time
(`CacheManager`, `MemoryController`), or any due item may be taken next
(`Pipeline`), except in `RowTiming`, which is about time and has a clock.
Statistics, prints and debug code are left out.  `CacheManager` leaves the contents
of caches free, so that a lookup may hit or miss; `CacheLines` models them and
leaves out MSHR entries and clients.  In the same way `CacheManager` takes any
time to answer a VIMA or HIVE request and `Vima` and `Hive` model what it does in
that time (also in `MemorySystem`), `CacheManager` alone leaves the memory controller
free, which `MemorySystem` replaces by `MemoryController`, and `FrontEnd` and `Pipeline` meet in rename, which takes
uops at any time in the one and takes any uop in the other.  LRU is a choice of
any entry of a full set.  A uop, a line, an address is a member of a
small set.

Points where a model departs from the letter of the code, with the reason:

- The answer of the VIMA controller is one step (`CacheManager!Answer`).  In the
  code `check_completion` sets the request to WAIT, due after at least one cycle,
  while it is still in `vima_buffer`; the next VIMA clock comes before the cache
  manager's, so the request has left the buffer when `finishRequest` deletes it.
  This needs a VIMA latency of at least 1; configurations have 3 or more.
- The test of the data bus (`memory_channel.cpp:391-392`) is not a guard of its own in
  `column`.  A bank is made ready only when its column command is due (343, 355), which
  `get_minimum_latency` computes from the same terms (495-497, 502-504), and the test
  follows in the same call of `clock()`: a bank that is ready there passes it.
- `Hive!hive_addRequest` waits for room.  The code marks the request as sent and drops it
  when the buffer is full (`hive_controller.cpp:356-369`), which `CacheManager` models;
  the module `Hive` is a machine whose processors have no more places for HIVE
  operations (`MOB_HIVE`, 36 each) than the buffer has (128), up to three of them, where an
  instruction that can be sent has room.  It takes instructions in the order of the
  trace, while the processor may offer any executed one that is not held back.
- In `MemorySystem` the number of write-backs under way is bounded by `WriteBack`; a
  victim may be clean at any time, and is when all of them are in use.
- One channel suffices for most memory runs: channels share nothing but the list
  (the code asserts that there is more than one channel, `memory_controller.cpp:229`).
- `memory_order_buffer_*_end` is `start + used` in every reachable state and is
  therefore not a variable.  `remove_back_mob_*` are never called.
- Three levels and disjoint code and data are assumed by `CacheLines`
  (`HierarchyAssumption`): an instruction fetch is not merged with a load of the same
  line.  That the first and second levels are
  private, as in every shipped configuration, is a hypothesis of one theorem only
  (`Private`): with a shared second level `writeBack` would follow a pointer that
  nothing set.
- `Vima` has the fully associative vector cache of every shipped configuration.
- `VIMA_EXCEPT` (a cut in `dispatch`) is 0 in every configuration and not modelled.

## 3. Runs

| Run | Instance | Shows |
|---|---|---|
| `circular_buffer` | capacity 3, 2 packages (every fill and wrap position) | cursors agree, occupied slots are exactly the live ones, implements `Deque`, a slot somebody points to is not moved or overwritten |
| `cache_manager` | 2 processors, private first level with 2 entries, shared second level with 1, 2 lines, 3 requests, 2 clients, VIMA buffer 1, HIVE buffer 2 | MSHR counters equal holders and stay in their bounds; each client registered once; no controller holds a deleted package; at most one mergeable request per line; nothing is forgotten |
| `memory_system` | 1 processor, 1 client, 2 requests and a write-back of the last level, 2 lines on a row of one bank whose queues have one place, the shipped policies | a package the memory controller works on is still the one it was given; once submission stops both lists become empty, of the write-backs too, and nobody waits |
| `cache_lines` | 2 processors, two private levels of one line, a shared level of two, 3 lines (one of code), 2 requests at once | one copy of a line in a cache; a write-back finds the pointers it follows; a step of one processor leaves the private caches of the other alone |
| `cache_store` | 1 processor, one line per level, 2 lines, stores only | *violated*: a store is lost |
| `memory_drain` | 1 channel, 2 banks, queues of 2, 3 requests, open rows, a row beyond the row register, `DRAIN_WHEN_FULL` | implements `DRAMService`; FETCH and queues agree; answered exactly when gone from the list |
| `memory_live` | the shipped policies, 2 banks, 2 requests | every request is answered once submission stops |
| `memory_shipped` | the shipped policies, 2 channels of one bank each, 3 requests | implements `DRAMService`: what a bank is prepared for is what it transmits, although asking switches between reads and writes |
| `row_timing_shipped` | 5 banks, FAW > 4 RRD | *violated*: five activations in the window |
| `front_end` | traces of 5 instructions, fetch buffer 2, decode buffer 4, target buffer of 2 sets with 2 ways, three branches in one set | what `decode` asserts; one entry for a branch; nothing beyond a mispredicted branch; every instruction decoded |
| `pipeline` | ROB 3, reservation station 2, load buffer 3, store buffer 2, tables of 2 buckets, traces of 4 uops | operands ready, alias table, wakers, rings, counters, memory order, kept candidate; every uop commits |
| `near_data` | 3 VIMA instructions over 3 vectors of 2 sub-requests and a buffer of 2, or HIVE traces with two lock sections over 2 registers of 2 sub-requests | counted sub-requests are back; operands held; loaded before use; what LOCK and UNLOCK assert; an unlocked register file is idle; every instruction completes |

Most runs end within 30 seconds; `cache_lines` (515 746 states) takes about 140,
`memory_system` (230 850 states, with liveness) and `pipeline` (with liveness) about 90,
and `near_data` (106 339 states, with liveness) 60.  `tlapm` needs about a quarter of an hour for `PipelineProofs` from nothing,
five minutes for `PipelineOrderProofs`, and less for the others.

Why the bounds are enough to be of interest.  Every ring wraps (buffers of 2 or 3
places and traces longer than that).  Every limited resource (MSHR entries, bank
queues, VIMA buffer, MOB, reservation station) is smaller than the number of
requests that compete for it.  Two processors with private and shared levels, two
lines and two clients give merging across processors.  Three requests to a bank
whose queue has two places, and two and a write-back to one with one place, give the
refused, retried request.  Row 2 is beyond a
row register of modulus 2.  Five banks are needed for five activations.  Three
reorder buffer lines allow a chain, a fork and a join through the alias table;
four uops reuse a line.  Private caches of one line make every second request evict,
and a last level of two lines for three addresses evicts what the levels above
still hold.  Three branches for two ways of the target buffer evict one another;
a computation with two loads and a store fills the decode buffer.  With three vectors
a third instruction finds vectors that are dirty, clean and free; two lock sections
use every register again.  What stays out of reach for the instances is said in
section 6.

Bounds: `MAX_UOPS`, `TRACE`, `VIMA_TRACE` and `HiveTraces` (traces of the pipeline,
the front end and the two controllers), `MAX_REQUESTS` (requests outstanding in
`CacheLines`), `LastCycle` (`RowTiming`).  No other counter grows.

Deadlock is checked, except where the system stops: `RowTiming`, whose clock ends at
`LastCycle`, and `NearData` and `FrontEnd`, whose traces end.

`TypeOK` of `CircularBuffer`, `MemoryController`, `CacheLines`, `FrontEnd` and
`Pipeline`, all of which are proved, is not listed in the runs, which spend their
properties on what could go wrong; it holds in the same instances.

### Fairness

`simulator.cpp:245` clocks every component for ever until nobody is busy, so a
component that can make a step makes it: weak fairness of `clock` (and of
`Elapse`, which lets time pass), of each pipeline stage, which treats some uop that is due, and of the
answers.  In `Pipeline` the cache manager may refuse an offered request
any number of times but not for ever (strong fairness of `mob_send` and
`mob_write`): `CacheManager` shows that its resources come back.  Nothing says
that processors stop submitting; while they do, reads may overtake a write for
ever, so `EveryRequestAnswered` and `SimulationEnds` are about behaviours
in which submission stops, as it does when the trace ends.  In `MemorySystem` a clock
of the manager is possible only between two clocks of the controller and the other
way round, so both are strongly fair, which is what the main loop's taking turns
amounts to; so are the passing of time, the answers of the near-data controllers, and
each command of a bank, which is not too early for ever.  The near-data
controllers are clocked for ever (`processor.cpp:3508`), whether or not the
processor has stages to run, and the memory controller answers each sub-request;
`addRequest` of VIMA is not fair, since nothing is promised of an instruction that
was not sent.  In `FrontEnd` the clock, rename and each answer of the cache are
fair.

### Faulty variants

Each checked property has a variant of a modelled definition, named after it with
a capitalised suffix (`Forget_Never`, `Counted_Once`, ...), that a plausible
mistake in the code would produce and that makes TLC find the property violated.

## 4. Findings

1. *Write-back of the last level* (`cache.cpp:243`, run `cache_store`).  The request
   that carries a dirty victim to the DRAM is given `memory_address`, the address
   of the line that is being installed, and not the victim's.  The store is lost
   for the DRAM, and the other line is written there instead.
2. *Four-activation window* (`memory_channel.cpp:480`, run `row_timing_shipped`).
   The chained `&&` assignments that should keep the four newest activations stop
   at the first local that is zero.  The window holds only if
   `TIMING_FAW <= 4 * TIMING_RRD` (checked on the same instance with such values);
   shipped configurations have 20 and 16.

Met while modelling, and not in a run of their own.

Memory and pipeline:

- The shift of the store table is computed with `<<=` on zero
  (`disambiguation_hashed.cpp:54`): loads are hashed by block, stores by byte, and a
  load does not wait for an older store to a byte that it reads, unless the low bits
  of the two addresses agree.
- With `INSTRUCTION_LEVELS = 2` (no configuration has it) `MSHRBounds` is violated:
  `process()` searches a data cache for instructions above the first level and
  `finishRequest()` gives the entry back to the instruction cache
  (`cache_manager.cpp:367`, asserted otherwise at 384).  The theorems about
  counters assume one instruction level.
- With uops that write two registers, `ROB_SIZE = 4` and three readers of both,
  `OperandsReady` is violated: the list of dependents has one place per reorder
  buffer line, a dependent takes one per register, and what does not fit is
  dropped (`processor.cpp:1713`).  The shipped buffer of 168 lines needs more than
  84 such readers at once.  Full arrays are the only way (`OperandsUnlessFullHold`),
  and the theorem `Operands` counts what it takes to fill one.
- In the same way a memory operation takes a place in the array of the youngest load
  and store of its buckets, and an array has as many places as the reorder buffer
  lines: with `ROB_SIZE = 2`, a store and a load of three lines that share the store's
  bucket, the third is not held back and `MemoryOrder` is violated.  Shipped reorder
  buffers (168, 224 lines) have more lines than the memory order buffers places (136,
  164), and then it cannot happen: `MemoryOrdered`.
- The walk of the memory controller erases and still advances
  (`memory_controller.cpp:222`): the entry behind an answered one is skipped for a
  cycle, and under `FIRST_COME_FIRST_SERVE` with short queues a younger request
  can be served first.  No shipped configuration uses that policy.
- `PRECHARGE` is issued without asking `get_minimum_latency`
  (`memory_channel.cpp:368`).
- `DRAIN_WHEN_FULL` never serves the last writes (the source says it does not
  work, `memory_channel.cpp:212`), so liveness is checked for the other policy.
- Of several loads of one instruction each writes the auxiliary register 258, and
  the computation waits for the youngest of them only (`processor.cpp:1131-1138`
  says it maintains "the right dependencies between the uops and opcodes").
- The answer of the cache overwrites `readyAt` of an instruction
  (`memory_package.cpp:162`), so what `FETCH_LATENCY` added is lost.
- The piecewise predictor's `train()` shifts its two history arrays upwards in
  place, so that they become copies of their first element; its weights are eight
  bits wide and wrap.  `TWO_BIT` leaves the pointer to the predictor NULL.
- A HIVE request that finds its buffer full is lost (`hive_controller.cpp:356`
  marks it as sent first); `NoneForgotten` holds because the buffer has room for
  every client (128 against 36 per processor: up to 3 processors).

Caches:

- A store that is merged into an outstanding load of its line
  (`cache_manager.cpp:313`) is not written when the line is installed: with loads,
  `StoresKept` is violated by this too.
- When the last level evicts a line, it cleans what the pointers of that line name
  above, and these may be the lines that the same installation has just put there.
  The address is then in no upper level, although `cache_manager.cpp:260` says
  "Install an address in every cache using pointers".
- `write()` has a case for a line that is not found (it takes the least recently
  used one); no checked instance reaches it.

HIVE, sequences of instructions that the traces of `near_data` leave out:

- An ALU instruction with operands neither marks its destination as busy nor makes
  it ready (`hive_controller.cpp:231`): a STORE of a register that only it wrote
  waits for ever, and a STORE behind an ALU instruction on the same register may be
  sent before it executes.
- A LOAD into a register that is ready waits for an UNLOCK, which waits for the
  LOAD.
- An ALU instruction without operands makes its register ready when it is
  dispatched and again when it completes; a STORE sent between the two counts as
  complete before its sub-requests are back, and an UNLOCK then frees a register
  that is in the memory controller.
- The walk skips the instruction behind a head that leaves; it is treated on the
  next clock.

VIMA:

- When the first operand misses and its victim is the vector that holds the second
  one, the second operand hits that same vector and is never fetched.  This is why
  `OperandsHeld` is about instructions whose operands got two vectors.
- `taken` of a vector that is only written is never cleared; once all are taken
  every miss takes the first vector.
- An instruction does not wait for the write-back of the victim it will write to:
  `write_to_cache` may mark the vector as ready and dirty while the sub-requests of
  the old contents are out, and a later write-back counts them as its own.
- With `VIMA_CACHE_ASSOCIATIVITY > 1` line 149 of `vima_controller.cpp` reads
  `cache[i][i].taken`.

## 5. Theorems

Proved with TLAPS for every value of the constants that the named assumptions
allow.

`CircularBufferProofs`: the inductive invariant `Inv` is `TypeOK`, `CursorsAgree`
(the end is `size` slots after the begin) and `OccupiedExactlyLive`.  None of the
last two is inductive without the type; the occupied slots need the cursors, since
what `pop_back` cleans is found through `end_index` and what `front` returns
through `beg_index`.  Theorems: `CursorsAlwaysAgree`, `NoPackageLost`, and
`RingIsDeque`, that the ring implements `Deque` under the mapping `Contents` (the
live slots in order): each operation maps to the operation of the deque, using
that following and preceding slots are inverse and that distinct positions have
distinct slots; and `PointersValid` (`PointersStayValid`): no operation writes a slot
that is live, since the end cursor names one only when the ring is full
(`EndIsFree`), except to remove or move its package.

`CacheManagerProofs`: `TypeCorrect` for every configuration.  `EntriesConserved`
(each counter is the number of outstanding requests that hold an entry of the
cache) and `CounterAssertionsHold` (the code's two assertions on the counters
cannot fail) for one instruction level.  The counters alone are not inductive:
`Accounting` adds that a request holds entries only of levels below the one it
looks up next, and that a package outside the table holds none.  The argument is
about sets of holders: looking up adds the request to one set it was not in,
finishing removes it from exactly the sets it is in (`HoldersChange`), everything
else leaves all sets alone.

Its table, for every configuration, two instruction levels included:
`NoPackageDangles` (`HeldPackagesAlive`), `NoWakeUpLost` (`ClientsRegistered`) and
`OneRequestPerLine` (`MergedByLine`).  The inductive invariant `TableInv` adds to
these that the table has no duplicates and holds exactly the packages that are not
free (`Table`), and that each controller holds packages of its own kind which are
sent and not answered (`HeldByKind`).  Without the last, a step of the walk could
delete a package some controller has; without the first, erasing one entry would
not remove its request from the table (`EraseEntry`).  `NoRequestForgotten`
(`NoneForgotten`) needs a hypothesis, `HiveHasRoom`: the HIVE buffer has a place for
every client, without which `addRequest` drops a request that is marked as sent
(section 4; 128 places and 36 clients per processor, so it holds up to 3 processors).
Its invariant adds that a near-data instruction has a client (`NearDataAwaited`), so
that different ones have different clients and there are never more of them than
places (`BufferNotFull`).

`MemoryControllerProofs`, for any channels, banks, requests, rows, lengths of the queues and
policies: `OnceInList` (`AnsweredExactlyWhenGone`), `NothingLostInQueues`
(`FetchingExactlyQueued`) and `TypeCorrect`.  The inductive invariant `ControllerInv` has these as conjuncts, because
none of them is kept alone: a request leaves its queue in a step that finds it through
the bank, and what the bank finds is in a queue only if the queue matches the states of
packages.  That the walk stays inside the list, from which entries are erased under it,
is part of the type.  Two more theorems, also for every policy: `ReadyRowIsOpen`, that a
bank which is ready has a request to transmit, whose row is open, and `RefinesService`, that
the controller implements `DRAMService`.  Their invariant adds `ReadyInv`: only the bank
that the first half of a clock has just treated is ready, nothing has been queued since,
and asking `findNext()` once more, in the mode the first answer left, gives the same
request.

`CacheLinesProofs`, for any processors, lines, sizes of the caches and ways of sharing them:
`LineIsInACacheOnce` (`OneCopyPerCache`), `OthersKeepTheirCaches` (`PrivateCachesKept`),
`TypeCorrect`, and `PointersBelowAreSet` (`WriteBackFindsLevelsBelow`) under `Private`.
The first is not inductive: an installation may double a line unless the levels that
its request has searched are still without it (`SearchedOK`), for which no other
request for the line can exist (`RequestsOK`).  For the last, a pointer to a level below
must survive the evictions of all levels above and beside it.  The argument is that
an eviction changes every other line to a `Milder` one, which loses pointers to levels
above at most, or becomes empty; a `Milder` change preserves everything but what the
installation itself sets.

`FrontEndProofs`, for any widths, buffers, target buffer and trace:
`DecodeAssertionsHold` (`DecodeAsserted`), `OneEntryPerBranch` (`BranchHasOneEntry`),
`TargetIsLast` (`NothingBeyondTarget`) and `TypeCorrect`.  The invariant `FrontEndInv`
says that the buffered instructions are numbered without a gap from the next one
decoded to the next one fetched, that an entry of the target buffer is in the set of
its address, once, and where in the buffer the branch is that waits for its target.  A
clock treats several instructions, so each proof is about one slot and is carried along
the chain of the slots of a clock (`FetchChainExists`, `FetchedKeeps`).

`CacheManagerProofs`, about the composition `MemorySystem`: `PackagesHandedOverIntact` (`HandedOverIntact`), for any numbers
of processors, caches, requests, channels, banks and places, and
`SystemRefinesManager`: the composition implements `CacheManager`, whose theorems
therefore hold above the real controller.  The invariant is that of the manager, that
the controller's list has no duplicates (`ListInv`), and that the two agree on what is
in it (`Agreement`).  The point of the proof is that one step of the controller takes
at most one request off its list, which the manager then sees answered, and that a
request keeps its operation and line while it is in the table (`RequestStays`).  The
write-backs of the last level are in the list as well, any number of them: `Agreement` is
about the packages of the manager among what is there.

`NearDataProofs`, about the VIMA controller, for any sizes of its buffer, its cache
and a vector, and any trace: `SentAgainOnlyWhenBack` (`CountedAreBack`) and
`ExecutedWithOperands` (`OperandsHeld`); `VimaTypeCorrect` on the way.  The first
follows from a property of single vectors that every step of a clock keeps
(`SoundVector`).  That counting stops at the first sub-request that is not back
needs the least-number principle (`LeastNumber`), for the CHOOSE of `Counted` to
denote anything.  The second is not inductive: an instruction whose operand hits a
vector that is being fetched for another address would lose it.  `OneAtATime` says
why that cannot happen: an instruction leaves only when the vectors it reads are
ready and the one it writes has been made ready, so between two instructions
nothing is being done to any vector (`Settled`), and during one the vectors of its
operands are on their way to them (`Aimed`), which a clock preserves.

About the HIVE controller, for any sizes and any trace of `WellFormedTraces`:
`ExecutedWithRegisters` (`LoadedBeforeUse`), `LocksAlternate` (`LockAsserted`),
`IdleWhenUnlocked` (`UnlockedIsIdle`), and with the VIMA part `NearDataTypeCorrect`
(`TypeOK`).  A well-formed trace has its instructions between a LOCK and the next UNLOCK, loads a
register once in a section, and neither loads nor stores one that an ALU instruction
sets without operands in the same section; for others the theorems are false, in the ways
section 4 lists.  The traces of the run are well-formed, which TLC evaluates
(`MCTracesAreWellFormed`).  The invariant `StateOK` says of the instructions in the
buffer and those to come together (`Pending`): only the head and instructions of its section
have begun (`SectionOK`), a register that a LOAD of the section is still to load is free
(`LoadsOK`), and a register that is busy has the instruction that moves it in the buffer
(`RegistersOK`), so that nothing is in the memory controller when an UNLOCK is the head.
A LOAD that the walk skipped is the head (`SkippedIsHead`): this is what makes skipping
harmless, and it is true because the walk starts at the head, which is why the proof
follows the walk position by position (`Walking`).  One instruction treated keeps it
(`ProcessWalks`, with a lemma for each state an instruction may be in), a position of the
walk keeps it (`WalkKeeps`), and so does the walk (`HiveChainKeeps`).

`PipelineProofs`, for any sizes of the reorder buffer, the reservation station, the memory
order buffers and the tables, any uops that `UopAssumption` allows and any length of the
trace: `MobRing` (`MobFollowsRob`), `Alias` (`AliasIsYoungestWriter`), `Wakers`
(`EveryWaitHasAWaker`), `ExecutedCount` (`ExecutedCountsUnprocessed`) and `KeptCandidate`
(`KeptCandidateSendable`).  No one of these is inductive, and neither are all together.
The inductive invariant `IInv` has, besides types:

- `RobInv`: a line is busy when it is less than `robUsed` behind `robStart`, and its
  number says how far, so that age is a number and not a walk of the ring;
- `PlaceInv`, `OwnerInv`, `OrderInv`: a place of a memory order buffer is in use when it is
  less than `mob_used` behind the start, and then it is kept by a live uop of its kind;
  what a uop keeps is contiguous, ends at its `Rank`, and is its own; of two uops of a
  kind the older one's places come first.  So the front of the buffer is the head's own
  when `commit` removes as many lines as the head has operations, and when `mob_write`
  removes one;
- `StageInv`, `EntryInv`, `DoneInv`: a uop is in the reservation station once, or in a
  functional unit, or neither; an operation is executed, sent, answered and processed in
  that order; a load is done when none of its operations is open;
- `CountInv`, `CandidateInv`: the counters of executed operations, and the operation a
  stage keeps, which for stores is the front;
- `LineWaitInv`, `PlaceWaitInv`: the arrays of dependents and the counters of
  dependencies agree (`Agree`), for lines and for places; only who is pending has
  dependents;
- `TableInv`, `AliasInv`: the two tables of the disambiguator name operations that are
  not done, and the alias table names a pending uop that writes the register, the last
  one to do so; a register without a name has no pending last writer.

The wake-up of all dependents and rename, which reads several registers and orders
several places, change many counters at once.  The lemmas about `Agree` are about one
pointer more or all pointers of one array less, as changes of the set `PointersTo`;
`ReadRegisters` and `Ordered` are then followed one register and one place at a time.
A line that is freed keeps its array in the code; that it is empty when the line is
used again is part of `LineWaitInv` and `PlaceWaitInv`, not of the cleaning.

`PipelineOrderProofs`, on top of that invariant: `PipelineTypes` (`TypeOK`: no
counter becomes negative), and the two properties that are about the order of the program.

- Operands.  `FeedInv`: a pending producer has in its array every younger uop that reads a
  register it produces, or the array is full; `OperandsUnlessFullHold` follows without
  any hypothesis.  `Operands` (`OperandsReady`) says when an array can be full, whatever
  registers the uops read and write: as long as fewer reads of younger uops than the
  reorder buffer has lines (`ReadsOf`) are of registers that one uop writes, operands are
  ready.  Its invariant is `TakenInv`: each place of an array is taken by a read of its
  own, of a younger uop and of a register its owner writes, so that the length of the array is at
  most the number of these reads.  Uops that read and write one register each satisfy the
  condition in any machine, since fewer uops than lines are younger; section 4 has a
  behaviour of uops that do not.
- Memory.  `GuardInv`: an operation that is in conflict with an older one which is not done
  is in the array of that one, or of one between the two which is itself not done
  (`AllGuarded`), unless that array is full; and the table names, for each bucket, an
  operation no older than any that is not done (`AllTabled`).  That the youngest of a
  bucket is enough is the step from the second to the first when a new operation
  comes.  An operation that is done was sent, so it waited for nothing (`EntryInv`), so no
  older one of its kind and bucket is open: letting its dependents go leaves nobody
  unguarded.  `MemoryOrderUnlessFullHold` follows without
  hypothesis.  `MemoryOrdered` (`MemoryOrder`) has the hypothesis `PlacesFit`, that the
  memory order buffers have no more places together than the reorder buffer has
  lines, which every shipped configuration satisfies and without which it is false
  (section 4).  The run has more places than lines and uops that do not fill an array:
  it checks what the theorem does not.

Folds.  `fetch`, `decode`, `hive_clock`, `ReadRegisters`, `Ordered` and the like are recursive
functions, over the slots of a clock or over the operands of a uop.  The induction theorems of the library cannot be used, so that the function
they define exists, and that it keeps what one slot keeps, is proved by the least
number at which it would fail (`LeastNumber`).

Only model-checked: liveness (`EveryUopCommits`, `EveryRequestAnswered`, `SimulationEnds`,
`EveryInstructionDecoded`, `EveryInstructionCompletes`), since temporal properties under
fairness and `ENABLED` are outside what the prover handles; and `RowTiming`, whose run shows a violation.  What a recursive definition
computes for every input, beyond an invariant of its steps, cannot be proved either.
Every invariant, action property and refinement that a passing run checks is a theorem, some
under the hypotheses named above.

## 6. Not modelled

- Prefetcher: dead code, as the inventory says.
- The weights of the piecewise predictor, and the two-bit predictor, which is never
  allocated: a prediction in `FrontEnd` may be right or wrong.
- The sub-requests of the VIMA and HIVE controllers in the list of the memory controller:
  `Vima` and `Hive` have the memory controller answer them at any time and in any order,
  and `MemorySystem`, whose list holds requests of the cache manager and write-backs of the
  last level, does not have them.
- The contents of the caches in `MemorySystem`: any request that the DRAM answered may
  displace a dirty line of the last level.
- Column-command timing: a bank's data may be ready after any number of cycles.
- `utils/set_associative.hpp` is included but nothing uses its class.
- Trace reader, configuration, statistics, printing: input and output.
- Trace generator: a Pin tool, a program of its own.
- The Python files of the repository, which are most of its lines in that language:
  Intel's PinPoints scripts and Google's `cpplint` with its tests are copies of other
  projects, drive other programs and share no state with the simulator; OrCS itself
  is about 13 000 lines of C++, which is what the modules are translated from.

Limits of the instances: two instruction levels, uops with two destination
registers, and more operands than a MOB has places (`processor.cpp:726` would stall
rename for ever; `UopAssumption` excludes it) are not in a passing run.  Sets of more
than one line appear in the last cache level only.

## 7. Plan

Order: what many other parts rest on first, then what holds most state.

1. Done: `CircularBuffer`, `CacheManager`, `MemoryChannel`/`MemoryController`,
   `RowTiming`, `Disambiguation`/`Pipeline`, `CacheLines`, `FrontEnd`, `Vima`, `Hive`,
   and the composition `MemorySystem`.
2. Compositions left: `FrontEnd` as the source of uops of `Pipeline`; `Vima` and `Hive`
   below `CacheManager`.
3. Done: the theorems about every invariant that a run checks, last those of `Pipeline`:
   first the rings, counters and arrays (`PipelineProofs`), on them the order of
   operands and of memory operations (`PipelineOrderProofs`).

Runs stay one per question: a new component gets one safety run and shares
instances where it can.
