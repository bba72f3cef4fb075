# Models of the Learning gem5 code

This repository is the source of a gem5 documentation site. Most of it is text,
but the site also carries programs: the cache-coherence protocol, the memory
objects and the configuration scripts that the Learning gem5 book builds step by
step. This directory models those programs in TLA+, checks the models with TLC
and proves theorems about them with TLAPS. Paths below are relative to
`src/_pages/static/scripts/` unless they start with `src/`.

## Inventory

| part | code | state | operations | interacts through |
|---|---|---|---|---|
| MSI L1 controller | `part3/MSI_protocol/MSI-cache.sm` | cache entry (state, data), TBE (outstanding acks) | one transition per (state, event): hits, misses, replacements, forwards, responses | request, forward and response networks; sequencer callbacks |
| MSI directory | `part3/MSI_protocol/MSI-dir.sm` | state, sharer set, owner set | GetS, GetM, PutS, PutM, data from an owner, answers of memory | the same networks; a memory queue in each direction |
| MSI messages, system | `MSI-msg.sm`, `part3/configs/msi_caches.py` | message types, ordered buffers | none of their own | - |
| SimpleMemobj | `part2/memoryobject/simple_memobj.{hh,cc}` | `blocked`; per port `needRetry`, `blockedPacket` | the timing calls of two CPU-side ports and one memory-side port | gem5 timing protocol: send, refuse, retry |
| SimpleCache | `part2/simplecache/simple_cache.{hh,cc}` | the same, and `cacheStore`, `originalPacket`, `waitingPortId` | the same, the access event, insertion, functional accesses | the same |
| HelloObject, GoodbyeObject | `part2/helloobject/`, `part2/events/`, `part2/parameters/` | fires left; message, buffer, bytes used | scheduled events, the copy, the exit | the event queue; `sayGoodbye` |
| Ruby configurations | `part3/configs/` | controllers, sequencers, buffers, routers, links | `setup()`, `connectControllers()` | the network that the protocol's messages take |
| system configurations | `part1/`, `part2/*/*.py`, `part4/` | objects, ports, address ranges, MP table, memory map | the statements of a script, then the simulation | ports; the kernel reads the tables |
| launch scripts | `src/assets/files/gem5art-launch-scripts/` | artifacts, runs | register, create a run, hand it on | gem5art's database, Celery, the file system |
| site tools | `src/fix_permalink.py`, `docker/build_all` | none | rewrite files, build images | - |

What is hard:

- *MSI*: messages of different controllers and networks overtake each other, so
  an acknowledgement may come before the message that says how many to expect,
  an eviction crosses an invalidation or a forwarded request, an upgrade loses
  to another store, and each controller must have a transition for all of it.
  Correct means: one writer or many readers, every load returns the last store,
  the directory knows of every copy, acknowledgements add up, nothing stalls
  for ever and no assertion fails.
- *SimpleMemobj, SimpleCache*: every send can be refused and must be repeated
  after a retry, in both directions at once, and the peers may call back within
  the call. Correct means: one request at a time, no packet lost or doubled, no
  refusal forgotten, no panic, and for the cache that it behaves as a memory.
- *Hello, Goodbye*: two events in the queue share a message and a buffer, and
  ticks are computed with a float. Correct means: the buffer is filled in order
  and never overflows, the goodbye comes when the parameters say, and the
  simulation ends.
- *Configurations*: straight-line code, but what is connected, numbered and
  claimed in a dozen places has to fit together: a port is connected once, the
  ranges of three bridges route every address to one device, the tables describe
  the machine, counters of different classes agree, and the network built gives
  the protocol the order it relies on.
- *Launch scripts*: the script, the workers and whoever builds the files run at
  the same time, and the script can be killed and started again. Correct means:
  a run records what it used, no two simulators share a directory, none is left
  out, all end.

`PROJECT.json` lists every hazard at its line with the properties that cover it.

## Modules

| module | what it is |
|---|---|
| `MSI` | the protocol for one block: L1 controllers, directory, networks, memory, sequencers |
| `AtomicBlock` | what MSI promises: a block on which loads and stores act at one moment |
| `MC_MSI` | instances of `MSI` for TLC |
| `MSI_proofs` | types of `MSI`, what the directory keeps of owners and sharers; the inductive invariant of the protocol's control, and its transitions as the invariant sees them |
| `MSI_safety_proofs` | every transition keeps that invariant; the safety properties of `MSI`, the invariant of its data, and the refinement of `AtomicBlock` |
| `SimpleMemobj` | the memory object and its peers |
| `SimpleMemobj_proofs` | theorems about `SimpleMemobj` |
| `SimpleCache` | the cache, its peers and the memory |
| `BlockingMemory` | what SimpleCache promises: a memory that serves one packet at a time |
| `MC_SimpleCache` | instances of `SimpleCache` for TLC |
| `SimpleCache_proofs` | theorems about `SimpleCache`, its refinement of `BlockingMemory` among them |
| `HelloGoodbye` | the events, the copy and the exit of Part 2's first objects |
| `HelloGoodbye_proofs` | powers of 2 and floats, and its inductive invariant |
| `RubyNetwork` | the Ruby systems of Part 3: their construction, and messages through what was built |
| `RubyNetwork_proofs` | theorems about `RubyNetwork`, its refinement of `PairChannels` among them |
| `PairChannels` | what a Ruby network promises the protocol: ordered channels between pairs |
| `Platform` | the systems of Parts 1, 2 and 4: their construction, the x86 tables, requests through what was built |
| `Platform_proofs` | what a script builds and in which order, for any number of CPUs, and the theorems about the systems, the tables and the requests |
| `Experiments` | the gem5art launch scripts with their workers |
| `Experiments_proofs` | what the loops of the scripts list, and the theorems about the runs |

### MSI

SLICC runs a transition atomically, so an action is one transition with the
in_port code that triggers it (several transitions with the same actions share
one). A `stall` leaves its message in place: it is a false guard. `cstate`,
`cdata`, `tbes` and `acks` are the cache entry and TBE, `dstate`, `sharers`,
`owner` the directory entry. `request`, `forward` and `response` are virtual
networks 0, 1 and 2: `msi_caches.py` makes every buffer ordered, so there is a
FIFO per pair of controllers and no order between pairs. `toMem` and `fromMem`
are the directory's queues; memory itself is external, and a FIFO because all
its requests are for one block. A failed assertion, an `error` or an event that
has no transition is `Abort`, which names the cause in `panic` and ends the run.
The directory's single request buffer is modelled as one FIFO per cache, of
which any head may be served; in the code a stalled head also holds back what
is behind it from other caches. The model has every behaviour of the code and
some more, which is sound for safety; the fairness below takes the merged
order into account.

`latest` is a ghost: the block as the last completed store left it. `CopyAt` is
what `functionalRead` returns of a controller: the block of the TBE if there is
one, else of the entry, or memory's. The TBE's block is `Blank`, because no
transition performs `copyDataFromCacheToTBE`.

### SimpleMemobj and SimpleCache

A port call runs to completion inside one event, so an action is one call of a
peer (`recvTimingReq`, `recvTimingResp`, `recvReqRetry`, `recvRespRetry`) or the
scheduled `accessEvent`, with everything the object does in answer. Where the
object calls a peer, the peer's answer is a choice: accept or refuse. A peer
may also call back *inside* such a call. The objects change their own state
before they call out and read it again after, so a call from inside has the
effect of the same call right after the action, and the model takes it there;
the one difference, the state in which a later port of the same loop is sent
its retry, does not change what follows, because a retry that comes too early is
refused and remembered again.

The peers (`held`, `mayResend`, `outstanding`, `inMemory`, `mem`, `replies`) are
external: they keep the timing protocol's rules, which are that a refused packet
waits for a retry and that a retry answers a refusal. The memory acts on a packet
when it accepts it and answers later.

A packet of SimpleCache is for one word or the whole block: the two cases that
`accessTiming` distinguishes. `latest`, `serving` and `answer` are ghosts for
the refinement.

A functional write is one action. Its guard lets it come only between requests
unless `FunctionalAnytime` is TRUE: during a request the code loses such writes,
and with TRUE `ActsAsMemory` and `NothingLost` fail.

### HelloGoodbye

An action is one event served. `scheduled` is the event queue as far as these
objects use it, a tick per event; `exits` holds the exit events, which gem5
serves last within a tick. `schedule()` of an event that is scheduled already,
or for a tick in the past, is a failed assertion: `status = "aborted"`.
`bandwidth` is a `float` in the code, so `curTick() + bandwidth * bytes_copied`
is rounded to 24 bits, as is the product before the sum; `Float` does that with
`MantissaBits`. A byte of the
buffer is the message it belongs to and its place there. A message is made of
the name of its HelloObject: only its length matters.

### RubyNetwork and Platform

The first part of each is construction: an action is one object created or one
port connected, in the order of the source. The scripts run once, so the states
of this part are few; what counts is that later parts use what it left. The
second part sends messages or requests through the system built. Buffers,
routers, links, buses and bridges are gem5's and external; they do what the
scripts rely on, no more: a link and an ordered buffer keep order, a bus hands
a request to the peer that claims its address or else to its default, a bridge
hands on what is in its ranges.

`RubyNetwork!KeepsPromise` is the refinement of `PairChannels`: for MSI every
virtual network of every pair is ordered, which is what `MSI` assumes of its
FIFOs, so the two modules compose. For MI_example the buffers that the
directory sends from are not ordered, and nothing is promised of them.

`Platform` builds the seven systems of `part1/`, `part2/` and `part4/`. Addresses
count kB. The bases of the 64-bit space are beyond TLC's integers and enter
as constants, of which the assumptions fix only the order. `x86_mp.py` is the
firmware for several CPUs that no script uses yet (`system.py` says that it is
for changing to several); script `system_mp` is `MySystem` with it.

### Experiments

`Start` is the registration of all artifacts, `Launch` one turn of the innermost
loop, `Launched` the end of the loops. `CallFails` is the call of
`launch_microbenchmark.py`, which gives `createSERun` two of its four strings and so
creates no run (`pc = "failed"`). `Microbench` is what `os.listdir` finds in `microbench/`,
any finite set; `SetToSeq` puts it in an order that nothing depends on. `queue` is the broker's queue, or the list
given to `pool.map`; `jobs` is what each process does, and the four stages of
a run (begin, check of the artifacts, spawn, end) are gem5art's, from what its
pages in this repository say. Two of its choices are left open by the pages and
chosen by the configuration: whether the run is stored when it begins or when it
ends, and where the server was started. A file has version 0 (missing), 1 or 2.

## Runs

| run | bounds | what it shows |
|---|---|---|
| `msi_control` | 3 caches, data abstracted to one value, symmetric caches | `SingleWriter`, `AcksAddUp`, `CopiesAreTracked`, `DirEntryOK`; `OnlyPutSAborts`: of all assertions and missing transitions only those of a PutS are reachable |
| `msi_data` | 2 caches, 2 words of 2 values | `ReadableIsCurrent`, `DataIsUpToDate`, and `AtomicMemory`: MSI implements `AtomicBlock` |
| `msi_progress` | 2 caches, one value | `Served` under fairness |
| `memobj` | 2 ports, 2 packets each | one request below, nothing lost, refusals remembered; what was accepted is answered |
| `cache_control` | 2 ports, 2 blocks, room for 1, 2 words of one value | `OneRequestInService`, `OnlyMissPanics`, `NoRetryForgotten`; never more blocks than fit (`TypeOK`) |
| `cache_data` | 1 port, 2 blocks, room for 1, 2 words of 2 values | `NothingLost`, and `ActsAsMemory`: SimpleCache implements `BlockingMemory` |
| `cache_progress` | 2 ports, whole-block packets | accepted requests are answered, refused ones retried |
| `platform` | every script, x86 and arm, 1 to 3 CPUs, `opts` with and without the caches' options | every statement finds its objects and ports and no port stays open (`TypeOK`); `ReachesOwner`, `OnlyIOHoleLoops`; `MPTableOK`, `MemoryMapOK` |
| `ruby_network` | both configurations, 1 and 2 CPUs, every ISA, 2 messages under way | `NumbersAgree`; `KeepsPromise`: the network built implements `PairChannels`; `AllArrive` |
| `experiments` | 4 scripts, 2 entries of each outer list and 1 of each inner, 2 workers, 2 starts, 1 file missing at first, 1 built again | `UsesWhatItRecords`, `OwnDirectory`, `NoneLeftOut`, `AllJobsEnd` |
| `hello` | 1 or 2 HelloObjects, latencies 2 and 17, 0, 1 and 4 firings, messages of 1 and 3 bytes, buffers of 0 to 6 bytes, a mantissa of 4 bits | `GoodbyeInTime`, `SimulationEnds` |

Why these bounds: three caches are the fewest with a requestor, an owner and a
sharer that is neither, and give an invalidation two targets; a store to one of
two words of a block shows a lost merge; a cache with room for one of two blocks
evicts on every miss to the other. Data values do not steer the control in any
of the programs, so the runs about control fix them to one value. One port is
enough for the data of SimpleCache because it serves one packet at a time. The
network queues need no bound: the protocol itself bounds them. `CHECK_DEADLOCK` is off
because the programs really stop: after a panic, or when they are done.

For the new modules: two CPUs are the fewest for which a counter per class, a
page per local APIC and an id after the last processor can be wrong; two messages
of one pair can overtake each other, and more add nothing because a channel is
looked at by pairs. Two workers and two starts are the fewest that share a
directory; all entries of a list are treated alike, so two of them stand for the
rest, but for the memory systems of `launch_boot_tests.py`, of which all three
are used. A mantissa of 4 bits makes every case of rounding happen within a few
firings, as 24 bits do after 16.7 million ticks.

### Disagreements between code and documentation

`memobj_lost_retry` ends in a counterexample: SimpleMemobj can forget a retry.
SimpleCache, whose `recvRespRetry` calls `trySendRetry`, cannot (`cache_progress`).

Others are visible in the passing runs, whose properties name them as the one
exception:

- MSI (`OnlyPutSAborts`): a PutS overtaken by an invalidation finds another cache
  as the only sharer, and the assertion in `request_in` fails; PutSLast has no
  transition in SS_m, though a comment says that requests for a block waiting
  on memory stall. The directory reaches S, "at least one cache has the blk",
  with no sharer when the sharers leave in S_D; and the description of SS_m,
  "Moving to I", is that of MI_m.
- MSI (`ReadableIsCurrent`): `part3_02_cache-declarations.md:237-239` says of the
  blocks that a functional read accesses, those with a permission to read, that
  "they should all have the same data". In SM_AD and SM_A (`Upgrading`) a cache may
  be read and has a TBE, and `functionalRead` takes the TBE's block, which was never
  filled: without this exception TLC finds an upgrading sharer whose block is blank
  beside another's that is current. Loads are not concerned: `loadHit` takes the
  entry's block.
- SimpleMemobj takes a request from a port whose response is still stored and
  panics on the next response (`panic = "cpu port"`).
- SimpleCache (`OnlyMissPanics`): a miss after a refused writeback panics. A
  functional write overlooks the response on its way into the cache, a
  functional read the writeback stored in the memory port (the second case of
  `Newest`). `recvRespRetry` sends a retry also while the cache serves another
  port.
- GoodbyeObject (`GoodbyeInTime`): two HelloObjects on one GoodbyeObject fail an
  assertion of the event queue if the first message is still being copied; late
  in a simulation the float schedules an event in the past. The last byte of
  the buffer, kept for a terminator, is never written.
- Part 4 (`OnlyIOHoleLoops`): the bridge passes the range "For I/0" down to the
  I/O bus, and the I/O cache, which is given both of `mem_ranges`, claims it and
  passes it up again. The comments of `x86_mp.py` on the ranges differ from the
  values (an upper bound of `0xFFFF0000` that is included, "16kB" for 64kB, "two
  pages" for one).
- Launch scripts (`TypeOK`): `launch_microbenchmark.py:120` gives `createSERun` neither
  the name nor the outdir that `main_3_run.md:21-35` lists among the required
  arguments and that `launch_micro_tests.py:77` gives. An Artifact arrives as
  `run_script` and the names of the CPU and memory as Artifacts, so the script
  creates no run.
- Launch scripts: `launch_spec2006_experiments.py` gives the server no directory,
  though gem5art's page says that it is the other argument (`NoneLeftOut`);
  `launch_boot_tests.py` registers the MOESI_CMP_directory gem5 under
  `build/X86_MOESI_CMP_directory` and runs `build/MOESI_CMP_directory`, and the
  microbenchmarks are no artifacts of the runs that simulate them
  (`UsesWhatItRecords`). `launch_spec2017_experiments.py` does not compile (line
  33), and `launch_microbench_test.py` makes the same call as
  `launch_microbenchmark.py` (142) and uses a name that it does not import (148).
- `two_level_opts.py:75` looks for `binary` in the parser, not in what it has
  parsed, so that the argument is never used.

## Fairness

Every run about progress says what must happen, and nothing more. In MSI each
controller handles a message at the head of a buffer if it has a transition for
it (weak fairness per port: the event queue wakes a controller as long as its
buffers are not empty), memory answers, and for the directory's requests strong
fairness: the buffer merges the caches in arrival order, so that a request that
stalls is the next one after the stall. The processors are under no obligation
to issue anything, and replacements need not happen. In the memory objects the
`accessEvent` happens because it is scheduled; the timing protocol obliges a peer
to answer a packet it took, to call retry after it refused and not to refuse the
same packet for ever, and to resend after a retry. No peer has to make a new
request. In RubyNetwork the script runs on and whatever holds a message is woken
to hand it on. In HelloGoodbye the event queue serves events as long as there
are any. In Experiments the script runs on unless it is killed, the server or the
pool keeps its processes busy, a run that has begun is carried on to the spawn,
and a timeout happens if the simulation has not ended: nothing obliges the
simulation to end, the script to be started, or a file to stay as it is.

## Proofs

All constants are arbitrary, within the named assumptions.

- `MSI_proofs!TypeCorrect`: `Spec => []TypeOK`. `TypeOK` is a conjunction of
  parts (caches, directory, memory, each network), and the proof follows them:
  an action is shown to keep the parts it touches, the frame lemma does the
  rest.
- `MSI_proofs!DirEntryCorrect`: `Spec => []DirEntryOK`. `DirEntryOK` only
  speaks of the states M and I and is not inductive: the way into M and I leads
  through M_m, MI_m and the others, so the invariant states for every directory
  state how many owners and sharers it has.
- `MSI_safety_proofs!ControlCorrect`: `Spec => []ControlInv`, for every finite set of
  caches. The properties of the protocol compare what controllers keep with what
  is in flight, so the invariant speaks of the queues, seen as what they
  contain: `Asked` (the request of a cache), `Pending` (forwarded to it),
  `Arriving` (responses per pair), `MemOp` and `MemFor`. Its parts:
  - `QueueInv`: no queue holds two messages but the forward queue, and that an
    invalidation, a forwarded request and a put ack at most, in this order.
  - `RequestInv`, `PromiseInv`, `ReaderInv`: a request is asked, or one answer to it
    is promised (by memory, by the owner it was forwarded to, or by data on its
    way), never two; the cache waits in the state that fits.
  - `OwnerInv`, `BlockInv`, `OwnerDataInv`: the block to write to is one token. The
    owner has it, or was promised it, or has a request that takes it away.
  - `SharersInv`, `CopyInv`, `InvalidationInv`: a sharer has a copy or waits for
    one, and a copy belongs to a sharer or its invalidation is on the way to it.
  - `ArrivingInv`, `MemoryInv`, `AcksInv`: acks go to the cache that collects them and
    are as many as it counts on, whether they or the data come first.

  No part is inductive without the others: that an invalidation finds a copy
  needs `CopyInv`, which needs that a writer's data comes once, which needs
  `PromiseInv`, which needs that memory serves the one the directory waits for.
- `MSI_safety_proofs`: from `ControlInv` follow `SingleWriter`, `AcksAddUp`,
  `CopiesAreTracked` and `OnlyPutSAborts`; the last says that of all missing transitions
  and assertions only those of the directory's PutS handling can be reached, by
  any number of caches. The data needs `DataInv` in addition: every copy that can
  be used or sent on, every Data response, every PutM that the directory will
  still use, and memory whenever it counts, are equal to `latest`. A store
  changes `latest`, so it must be that nothing else counts at that moment: `SoleCopy` (a
  cache in M has the only copy, and no data is in flight) follows from
  `ControlInv`. Then `ReadableIsCurrent`, `DataIsUpToDate` and the refinement:
  each transition that ends in a callback is the load or store of `AtomicBlock`,
  every other step a request or a stutter (`CachesAreAtomic`).
- `SimpleMemobj_proofs`: `TypeOK`, `BlockedIffBelow`, `MemPortNeverPanics`,
  `RefusalsRemembered` and `NothingLost`, all from one inductive invariant,
  `Inv`. None of them is inductive alone. `TypeOK` needs `RetryInv` (a peer holds
  a refused packet exactly while its port owes it a retry or has sent one),
  since a peer that was sent a retry sends the packet it holds;
  `BlockedIffBelow` gives that `handleRequest` finds the memory port empty;
  `NothingLost` needs `PlacesInv`: a refused request and a stored response
  belong to their own port and are disjoint from each other and from what is
  below. Both parts about packets hold only until a panic, because the panic
  in `CPUSidePort::sendPacket` drops the response. The only assumption is that
  `nullptr` is not a packet.
- `SimpleCache_proofs`: all safety properties of the component, and `ActsAsMemory`,
  its refinement of `BlockingMemory`. The control invariant `Inv` adds three parts
  to `TypeOK`. `ServeInv`: the cache is idle and everything is clear, or it serves
  one request whose packet is in exactly one of three places (`AtCache`, `AtPort`,
  `AtMemory`); in the last two the packet *stands for* the request: the same
  packet if it is for a whole block, else a read of the block with the
  request kept in `originalPacket`; and the block is not in the cache, so the
  assertion of `insert` holds. `RetryInv` is that of SimpleMemobj with the reason why
  a retry will come; `PanicInv` that a panic of the memory port finds a writeback
  there. `DataInv` says where the last write of every block is: what `Newest` finds,
  or a write that memory has performed and whose answer is on its way; a read on
  its way back carries the block as it is. The refinement follows step by step: accepting a request
  is the abstract memory's take, a hit or the response of a miss its read or
  write, everything else (evictions, refused packets, retries) a stutter. The two
  theorems about data assume `~FunctionalAnytime`: with functional writes in the
  middle of a request both are false, as TLC shows, because the code loses such
  writes (see the hazards).
- `RubyNetwork_proofs!NumbersAgreeCorrect`: `Spec => []NumbersAgree`, for any
  number of CPUs. `NumbersAgree` speaks of the finished system only; the
  invariant says for every phase of `setup()` which lists are complete, that the
  entries of each have the numbers of their places, and what the counters of
  `versionCount` are while the controllers are made.
- `RubyNetwork_proofs!TypeCorrect` and `KeepsPromiseCorrect`: `TypeOK` and the
  refinement of `PairChannels`, for any number of CPUs and messages. `BoardInv`
  follows `connectControllers()` to its end, a router for each controller and a link
  for each ordered pair, so that the way of a message is from sender to
  destination and nowhere else. Order is not inductive in one place: that a
  buffer is read in order needs that the link hands on in order, behind what the
  buffer holds, and that the sender's buffer comes behind both. `NetInv` therefore
  has six parts, `OutOrder`, `LinkOrder`, `InOrder` and one between any two of the three
  places. Where a buffer keeps no order they still say that no two numbers are
  equal, so no message arrives twice. A step moves one message, and `NetStep` is
  the one lemma about it: two other messages keep their order, so it is enough to
  compare the one that is put somewhere with what is before and behind it. That
  ordered buffers stand wherever `OrderedPairs` promises order is read off the
  classes (`OrderedSends`). For the refinement `Travelling` is read as the numbers
  in flight per source, destination and virtual network (`TravellingIs`): `Enqueue`
  adds one per destination, `Route` and `Deliver` change none, `Receive` takes the
  least. The assumptions are those of the module: a positive number of CPUs,
  and a natural number of messages.

- `HelloGoodbye_proofs`: `TypeOK` and `GoodbyeInTime`, for every value of the
  parameters and any width of the float. `TypeOK` is about the order of the bytes,
  and is inductive with one thing more: while the buffer is not full it ends with a
  whole message, so that the next copy rightly begins with a first byte (`BufferInv`).
  `GoodbyeInTime` speaks of the end; `OneSpeaks` says at every tick before it that
  the copy scheduled, or the exit, is due when the bytes copied so far have passed,
  or that no float holds that tick and the one scheduled is not below
  2^`MantissaBits` either. `Firing` counts: a tick is the latency times the firings
  up to it, and no HelloObject fires after it spoke. What `Pow2` computes is proved by
  induction (`Induct`, from the well-foundedness of `<`: stated of a set, since an
  induction theorem about a predicate cannot be used here), and from that what
  rounding does: `FloatExact`, `FloatLarge`.

- `Platform_proofs`: `TypeOK`, `MPTableOK`, `MemoryMapOK`, `ReachesOwner` and
  `OnlyIOHoleLoops`, for every script, any positive number of CPUs, any memory of
  more than 1 MB and less than 3 GB, and any 64-bit bases in the order the source
  gives them (`BasesAssumption`: the local APICs end below the I/O space, the
  interrupt pages below the PCI space). The proof has three parts. The first says what
  is built: `Script(s, objects, wires, tables)` is proved of each piece of a script
  and of pieces put together, and for `ForEachCPU` by the induction of
  `HelloGoodbye_proofs` on the number of CPUs; `Executed` says that the state is what the
  statements up to `pc` leave, unless one has failed; so a script that is done has
  exactly the wires of `WiresOf` (`Built`). The second part follows a request on
  these wires. `ReachesOwner` alone is not inductive: what a bus does with a request
  depends on where it comes from. `Routed` says, for each place, which buses a
  request there has passed and which addresses it can have: on the I/O bus, for
  instance, it either came down the bridge, with an address of the bridge's, or from
  the disk or the I/O APIC, with an address of the memory or of the interrupts. Each
  bus hands it to exactly one peer (`MembusHop`, `IobusHop`), because the ranges
  claimed there do not meet (`Apart`). The third part is about the order of the
  statements, which `Script` leaves open and `TypeOK` depends on. `Sound(s, M, O, K)`:
  when the objects of `M` exist, `s` makes those of `O`, each statement finds the
  objects it names made, and the ports that can be connected once are among `K` and
  connected once. Sound scripts that connect different ports can be put together
  (`SoundJoined`), for each CPU by induction (`SoundEach`), so every program is sound
  (`ProgramSound`) and every connection it makes succeeds (`BindGoes`). At its end the
  objects are those of `ObjectsOf`, and every port that simulation needs is the end of
  a wire (`BoardLinked`, `PlainLinked`). `TypeOK` is inductive together with
  `Executed` and `Routed`: that a request is at an object that exists follows from
  where it can be (`HereMade`).

- `Experiments_proofs`: `TypeOK`, `UsesWhatItRecords`, `OwnDirectory` and
  `NoneLeftOut`, for every number of workers, starts and rebuilt files, lists of any
  length (`ListAssumption` asks for natural numbers only) and any finite directory of
  microbenchmarks that are not the script's other artifacts (`MicrobenchAssumption`).
  A job is a start and a place in the list of runs, so what the properties say of
  jobs depends on what the nested loops list. `Lists(s, A)` says that `s` has every
  element of `A` once; `FlattenLists` shows it of a loop whose bodies list disjoint
  sets, by induction over the folds of `FlattenSeq`, and `LoopLists` of nested loops.
  `BenchList` is the same of `os.listdir`.
  From the lists: `OutdirTells` (two places with one output directory are one
  place) and `HashTells` (so
  are two with one run in the database; for `launch_boot_tests.py` this needs
  the kernel, which is an artifact and no parameter, and that artifacts of one
  start are told apart by their path). The inductive invariant of the behaviour:
  - `TypeInv`: types, with what a start registered and why a script is in error.
  - `QueueInv`: the queue is in the order of the loops and ends before `Frontier`,
    the job that is made next. `Taken` is what has left it.
  - `TakenInv`: what a process works on is taken, by no other process, and a run in
    the database is that of a job that was taken. So if a job finds itself in
    the database, an earlier job has stored it, and by `HashTells` one of an
    earlier start.
  - `StoreInv`: if runs are stored when they begin, no two that are active are one
    run, since the second would have been found in the database.
  - `VersionInv`: what was registered is not newer than the file. With versions that
    only grow, a difference found by the check remains one, which is what makes
    the second half of `NoneLeftOut` inductive.
  - `SeenInv`: what was read at the check is recorded, but for the two exceptions
    of `UsesWhatItRecords`. `CallInv`: only one script makes a call that fails.

Model-checked only are the liveness properties under fairness, which the prover
cannot reach: `Served`, `AcceptedIsAnswered`, `RefusedIsRetried`, `SimulationEnds`,
`AllJobsEnd` and `AllArrive`. The theorems about `RubyNetwork` say that nothing is
lost or overtaken, not that it moves.

## Not modelled

- Several blocks: the choice of a victim, requests of one processor to several
  blocks. The protocol keeps no state between blocks but the cache's capacity.
- `forwardEviction` and LL/SC, functional writes through Ruby, statistics and
  latencies. `sys_port_proxy`, the port through which the simulator loads the program
  into a Ruby system, with functional accesses only.
- `ruby_test.py` and `test_caches.py`: the construction of `msi_caches.py` with
  gem5's random tester in the place of the CPUs. The MI_example protocol, gem5art
  and Celery are not in this repository.
- `launch_npb_tests.py` and `launch_parsec_tests.py`, which hand their runs on as
  `launch_micro_tests.py` does.
- The NMRU patch: it changes classes of an older gem5 that do the work and are
  not in this repository.
- Workloads, disk images, kernel parameters, clocks and sizes: they change
  nothing in what is connected.

## Plan

1. MSI for one block, `AtomicBlock`, type and directory theorems. *Done.*
2. SimpleMemobj, SimpleCache, `BlockingMemory`, theorems about SimpleMemobj. *Done.*
3. `HelloGoodbye`, `RubyNetwork` with `PairChannels` and the theorem about its
   numbers, `Platform`, `Experiments`. *Done.*
4. Composition: SimpleCache behind SimpleMemobj-style peers (two caches in a row),
   and MSI with two blocks in one set (victims, stalled mandatory queue).
5. MSI variants: unordered networks (which order the protocol really needs) and
   the build without assertions (gem5.fast).
6. Proofs: the safety properties and the refinement of SimpleCache, then those of
   MSI for every set of caches, then `RubyNetwork` and `HelloGoodbye`,
   `Platform`, and `Experiments`. *Done.*
