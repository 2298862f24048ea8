# A verification project for HCCT

HCCT builds *hot calling context trees*: a profiler sees a stream of "enter
function" / "leave function" events and keeps, in little memory, the calling
contexts (stacks of active calls) that make up most of the stream. The
repository holds the online profiler for programs compiled with gcc
(`src/testing/profiler`), the analysis of the trees it dumps
(`src/testing/analysis`), the earlier offline tools of a thesis
(`src/thesis`: a trace analyzer, a gcc profiler, a Pin tracer), and an
independent library of dynamic shortest-path algorithms (`src/dsp`).

This directory models the core of it in TLA+, checks the models with TLC on
small instances, and proves theorems about them with TLAPS for all instances.
`PROJECT.json` lists runs, theorems, hazards, findings, and the source lines
behind every definition.

    tlc -workers 2 -config LssUpdateMin.cfg LssHcct     # a run
    tlapm --threads 4 LssHcct_proofs.tla                 # the proofs of a module

## Inventory

### The online profiler (`src/testing/profiler`)

The profiled program is compiled with `-finstrument-functions` and linked
against one of six libraries: one of {exhaustive, bursting, time} x one of
{full tree `cct.c`, hot tree `lss-hcct.c`}.

| part | state | operations | interacts through |
|---|---|---|---|
| front end `frequency.c` | program name | `trace_begin`/`trace_end` (constructor, destructor), `__cyg_profile_func_enter/exit`, `__wrap_pthread_create/exit` | calls `hcct_init/enter/exit/dump` of the tree of the running thread |
| bursting front end `frequency_bursting.c` | `burst_on` (global), per thread shadow stack, `_TLS_aligned`, event counter | the same, plus `timerThread` | timer thread writes `burst_on`, every event of every thread reads it; calls `hcct_align` after a pause |
| time front end `time.c` | `global_tics`, per thread `_TLS_thread_tics`, shadow stack | the same, plus the timer | timer writes `global_tics`; `hcct_align(increment)` at the first event after a tic |
| full tree `cct.c` | per thread tree, node stack, stack index | `hcct_init/enter/exit/align/dump` | `pool_alloc`; dump file |
| hot tree `lss-hcct.c` | tree, node stack, lazy priority queue (`_TLS_queue`, `_TLS_min`, `_TLS_min_idx`, `_TLS_second_min_idx`) | the same, with eviction and `prune` | `pool_alloc`, `pool_free`; dump file |
| full tree over pthread keys `cct_pthread.c` | a key, per thread record | creation of the key, the record and its destructor | two mutex-free flags |
| block pool `pool.c/.h` | chain of pages, free list threaded through the free blocks | `pool_init/alloc/free/cleanup` | the trees write into the blocks |

*Hard behaviours.* Nodes are evicted, pruned, reused and entered again while
pointers to nodes lie on the stack of active calls and in the queue; the timer
hides any combination of calls and returns from the tree; events arrive outside
the trace; threads and the process end in any order, and the kernel reuses
thread ids, which name the dump files.

*What makes it correct.* The stack always holds live nodes of the active
contexts; the queue holds exactly the monitored nodes; a context has one node;
what is pruned is cold and leads nowhere; counters obey the bounds of Space
Saving; a frequent context is not lost; an aligned stack is the stack of active
calls whatever the timer did; no block is handed out twice or lost; a dumped
tree stays.

### The trace analyzer (`src/thesis/trace_analyzer`)

`driver.c` reads a recorded trace in parts and calls `rtn_enter`, `rtn_exit` and
`tick` of one of five algorithms, each in a program of its own: `cct.c` (full
tree), `lss-hcct.c` (lazy Space Saving), `bss-hcct.c` (Space Saving with buckets
of equal counters), `lc-hcct.c` (Lossy Counting) and `empty.c`. `burst.c` stands
between driver and algorithm and simulates sampling over the trace (sampling
points, burst lengths, a shadow stack, adaptive re-enabling). `metrics.c`
compares the tree with the full tree, which it builds beside it.
*State:* trees as above, and the list of monitored nodes with their `counter`
and `delta`, the current `bucket` and `index` (Lossy Counting); doubly linked
buckets (BSS); position in the trace and clocks (driver, bursts).
*Hard behaviours:* pruning at the end of a bucket while contexts are active,
nodes that lose and regain their place in the list, increments that cross a
bucket, bucket lists relinked during an eviction; events cut by the end of a
buffer, traces cut off by the end of a process, a position in the tree that is
stale from one burst to the next.
*Correct:* counters within the error bounds of their algorithm, tree spanned by
the monitored nodes, every hot context in the output, no event lost.

### Analysis of dumped trees (`src/testing/analysis`)

`tree.c` rebuilds a tree from its dump (preorder with parent ids), prunes it to
the hot contexts and merges; `compare.c`, `compare_metrics.c` compare two trees;
`comb.c` and `solve.c` enumerate combinations; `symbols.c` resolves addresses.
*Hard behaviours:* a file that a killed process has left unfinished; two trees
whose nodes can be matched in many ways, which are tried in turn.
Sequential; *correct:* the rebuilt tree is the dumped one; pruning keeps what is
hot and what leads to it; the metrics are what their names say.

### Earlier and external parts

`src/thesis/gcc_profiler` is the predecessor of the online profiler, with a
tracer that writes a trace file; it repeats the algorithms above.

### The Pin tracer (`src/thesis/pin_tracer`)

`STool_PIN.cpp` instruments calls, returns and jumps out of PLT stubs of a binary
and keeps a shadow stack of activations per thread. Since it does not see
`longjmp`, it rolls the stack back by comparing stack pointers (`AdjustStack`).
Memory accesses are collected by Pin in a buffer, which is handed to the analysis
before an exit is reported, and when it is full.
`rectrace.cpp` passes enters and exits to `TraceWriter.cpp`, which fills one of
two buffers while an internal thread of Pin dumps the other one to the trace
file; a timer thread counts ticks, which are recorded before the next event.
*Hard behaviours:* any order of calls, returns and jumps over frames; traced
thread, dump thread and timer interleave, the process may be killed at any time.
*Correct:* no active call is popped, a return ends its own call; the file is the
stream that was recorded, or a beginning of it; no call waits for ever.

### Dynamic shortest paths (`src/dsp`)

| part | state | operations |
|---|---|---|
| `LDSP.c`: all pairs, by potentially uniform paths | arena of paths linked to their parts and extensions, a shortest path per pair, a schedule of edges | `LDSP_New`, `LDSP_UpdateEdge` (delete, insert, smoothing), `LDSP_GetDist`, `LDSP_GetLWit/RWit` |
| `LSP.c`: all pairs, static, by uniform paths | matrix of pairs, heap, lists | `LSP_New`, `LSP_GetDist` |
| `CDAPSP_DE.c` over `CDSSSP.c`, `CSSSP.c`: all pairs, by a tree per source | graph and weights, and per source a tree, distances, marks; one queue and two lists for all | `CDAPSP_DE_New`, `UpdateEdge`, `DeleteEdge`, `InsertEdge`, `GetDistance` |
| `CDAPSP.c`, `CDAPSP_D.c` over `CDSSSP_D.c`: King's algorithm | trees of bounded depth into and out of each vertex | the same |

They rest on the containers of the Leonardo library (`ll`): heap with positions
stored in the elements, hash table, queue, array, graph; the library also has blocks
of bytes, stores of them, a stack that spills to a file (`LDiskStack.c`) and archives
of blocks in a file, with holes, compaction and a rename (`LArchiveFile.c`). `LDStar.c` is D* on a
grid. `main.c` makes graphs and sequences of updates, runs the algorithms on them
and compares their results.
*Hard behaviours:* what one update leaves behind (paths that were shortest once
and are kept, marks of vertices that were cut off, freed slots that are used
again) is the ground of the next one; ties between paths; infinite weights in
32-bit sums; a loop that updates until nothing is due. *Correct:* distances and
trees are the shortest ones after every update, all parts of the structure agree,
every call returns; the containers are the sets, maps and sequences they stand
for, and what was put into an archive is there when it was closed and is opened again; all algorithms of an experiment are given the same problem.

## Modules

| module | models | abstract from |
|---|---|---|
| `CallingContexts` | calling contexts as sequences of calls: prefix, caller, "leads to" | |
| `SpaceSaving` | the Space Saving summary: abstract specification | trees, queue, buckets, blocks |
| `LssHcct` | `lss-hcct.c` under `frequency.c`: one thread | which free block is handed out, sibling order |
| `BurstCct` | `cct.c` under `frequency_bursting.c`: one thread and the timer | blocks (a node *is* its context) |
| `TimeProfiler` | `cct.c` under `time.c`: several threads and the timer | blocks |
| `Allocator` | an allocator: abstract specification | everything but who holds what |
| `Pool` | `pool.c/.h` | contents of held blocks |
| `ProfiledProcess` | threads, wrappers and dump files | the trees |
| `LcHcct` | `lc-hcct.c` of the trace analyzer | blocks, sibling order |
| `BssHcct` | `bss-hcct.c` of the trace analyzer | blocks of nodes, sibling order |
| `TraceBurst` | `burst.c` over `cct.c` of the trace analyzer | blocks, `rand()` |
| `LazyHcct` | `lss-hcct.c` of the trace analyzer | blocks, sibling order |
| `TraceMetrics` | `metrics.c` and `cctPrune`: operators on trees | ratios, logarithms |
| `TraceFormat` | the bytes of a trace | addresses: the number of an event stands for them |
| `TraceWriter` | `TraceWriter.cpp` under `rectrace.cpp`: one thread, its dumps, the timer | contents of operands |
| `TraceDriver` | `driver.c` | times, messages |
| `ShadowStack` | `STool_PIN.cpp`: one thread | what is instrumented how |
| `PthreadKeys` | `cct_pthread.c`: threads, their keys, destructors | the shape of the trees |
| `DumpedTrees` | dump files, and `tree.c` and `metrics.c` of the analysis: operators | symbols, headers of files |
| `TreeComparison` | `analysis.c`, `compare.c`, `compare_metrics.c`, `comb.c` | doubles (scores are exact) |
| `ShortestPaths` | the definition of distance: reference | |
| `LDSP` | `LDSP.c` | slots of the arena, order of lists, layout of heaps, the average behind the smoothing rate |
| `LSP` | `LSP.c` | order of lists, layout of the heap |
| `CDAPSP_DE` | `CDAPSP_DE.c`, `CDSSSP.c` with a shared graph, `CSSSP.c` | order of edges and of lists, layout of the heap |
| `CDAPSP` | `CDAPSP.c`, `CDAPSP_D.c`, `CDSSSP_D.c` | the steps of repairing one tree |
| `LDStar` | `LDStar.c` | layout of the heap, order of edges, statistics |
| `Experiments` | `main.c` of `src/dsp` | what the algorithms compute, menus |
| `LArray`, `LHeap`, `LQueue`, `LHash` | the containers of the same names | items in bytes, memory |
| `LGraph` | `LGraph.c`, `LNodeInfo.c`, `LEdgeInfo.c`, `LEdgeMap.c` | the table inside an edge map |
| `LBlocks` | `LXPBlock.c`, `LDataStore.c`, `LDiskStack.c` | bytes of a number, byte order |
| `LArchiveFile` | `LArchiveFile.c` | bytes of a word |
| `LGraphGen` | `LGraphGen.c` | random numbers, text of files |
| `MC*` | instances for TLC | |
| `CallingContexts_proofs` | lemmas on calling contexts and on sums | |
| `LssHcct_proofs` | theorems on `LssHcct` | |
| `TraceTrees_proofs` | theorems on `LcHcct`, `BssHcct`, `LazyHcct` and `TraceBurst`, which run `trace_trees` checks | |
| `Profiler_proofs` | theorems on `Pool`, `ProfiledProcess`, `BurstCct`, `TimeProfiler` and `PthreadKeys`, which run `profiler` checks | |
| `PinTool_proofs` | theorems on `TraceWriter`, `ShadowStack`, and `TraceDriver` behind the writer | |
| `Containers_proofs` | theorems on `LHeap`, `LQueue`, `LBlocks` and `LArchiveFile` | |

*Composition.* `BurstCct`, `TimeProfiler`, `LcHcct`, `BssHcct`, `TraceBurst`,
`LazyHcct`, `LssHcct` share `CallingContexts`. `LazyHcct` is measured by
`TraceMetrics`, `TreeComparison` works on the files of `DumpedTrees`; `LGraphGen`
makes the graphs of `LGraph`, which like `LHash`, `LQueue` and `LBlocks` rests on `LArray`; an archive writes the
blocks of `LBlocks`. `LssHcct` and `BssHcct` instantiate
`SpaceSaving`, `Pool` instantiates `Allocator`, each with a refinement mapping.
`MCPinTool` puts `TraceWriter` and `TraceDriver` in sequence: the driver reads
the very file that the writer has left, whole or cut off. `LDSP`, `LSP`,
`CDAPSP_DE` and `CDAPSP` share `ShortestPaths`. `MCProfiler`, `MCTraceTrees`,
`MCShortestPaths` and `MCContainers` hold parts that do not run together
(libraries a process is linked with, tools, programs of the analyzer, algorithms,
containers): a variable
chosen in `Init` says which one runs, the others stay in their initial states.

**`LssHcct`.** The variables are the thread-local variables and the fields of
the nodes, under their own names; a node is a block (`Blocks`) so that a block
that is freed and reused for another context can be told from one that stays.
`HcctInit`, `HcctExit`, `HcctDump` are the functions; `hcct_enter` is one action
per path through it: `EnterHot` (the node exists and is monitored),
`EnterAdmit` (the queue is not full), `EnterEvict` (a victim gives its slot, and
its node is pruned), `EnterUninitialised` (the stack is empty: `hcct_init` is
called from inside). The recursion of `prune` is the least set that is closed
under its rule (`Pruned`). The search for the next minimum is there in both
forms of the source: `InlineUpdateMin` (default build) and `UpdateMin`
(`update_min()`, selected by INLINE_UPD_MIN == 0). The latter cannot be built
in `testing/profiler` as written (a variable of it is not declared); the same
function is built in `thesis/trace_analyzer/src/lss-hcct.c`. History variables
(`aux_`) hold what the profiler cannot know: the real stack of calls, the true
frequencies, the context of a block.

**`BurstCct`.** `Toggle` is the timer thread. `Enter` is
`__cyg_profile_func_enter` on its three paths: no burst, burst and aligned,
burst and not aligned (`hcct_align`). A handler reads `burst_on` once, so that a
switch in the middle of a handler is one before or after it.
`EnterAlignWithoutTree` is the path on which `hcct_align` finds a null pointer,
after which nothing is modelled (`aux_phase = "crashed"`).

**`TimeProfiler`.** `Tick` is the timer; `Enter` and `Exit` are the two handlers,
which first charge the tics since the last event of the thread to its active
context (`Account`, `Charged`: `hcct_align` with an increment, which creates the
missing nodes on the way). `Start` and `Dump` are the thread wrappers: a thread
begins with `_TLS_thread_tics` 0, so that its first event is charged all tics of
the process. An event without active calls charges the frame at the bottom of
the shadow stack, whatever call has left it there.

**`Pool`.** A block is a pair <<page, position>>; `link` is the first word of a
free block. `AddPage` follows the code's carving of a new page: the first block
is handed out, the others are linked up to the last, which ends the list.
`malloc` may fail (then `pool_alloc` returns NULL and nothing changes).
`PoolFree` requires a held block, as all callers do: a double free is not a
behaviour of the callers that are modelled. The link of a held block is
`NullBlock`: its holder has overwritten it.

**`ProfiledProcess`.** `Create`, `Return`, `PthreadExit`, `TraceEnd` are the
wrappers and the destructor; `LastThreadEnds`, `ThreadEnds`, `ProcessEnds` are
what libpthread and the kernel do around them (external). `Dump` is the O_EXCL
creation of `<program>-<tid>.tree`.

**`LcHcct`.** A node is its context, since a context never has two. `RtnEnter`
is `rtn_enter` and `rtn_enter_wc`, whose bodies differ only in the increment:
`bursting`, chosen once, is the build. `lc_prune` at the end of a bucket is part
of the same action. The lists hold the nodes in the order of the source, because
`lc_prune` spares the current node only at the front. A node on the stack that
has been freed ends the modelled behaviour (guard `top \in Nodes`): what happens
then is undefined. `WriteOutput` is `finalPrune` for exhaustive traces.

**`BssHcct`.** The links are modelled: `bss_next`, `bss_prev` of nodes, `next`,
`prev` of buckets. `RtnEnter` composes the steps of `rtn_enter` in its order, each
a function of the record of tree and lists: the node is found or created
(`WithNode`), becomes monitored (`Monitor`: `Admit` while there are counters,
then `Replace`, which may prune the victim), is taken from its bucket
(`Detach`), put into the next one (`Advance`: an existing bucket or a new one),
and an empty bucket is removed (`Vacate`).

**`TraceBurst`.** `rtn_enter_burst` is one action per path: `EnterOutsideBurst`,
`EnterInBurst`, and where a burst is requested `EnterUniform` (not ADAPTIVE) or
`EnterKnown`, `EnterNew` (ADAPTIVE: the callers are entered first, then a known
context is entered if `rand()` says so, and else the burst is discarded). The
tree never loses a node, so that `counter` over contexts is the tree.

**`LazyHcct`.** `Enter` is `rtn_enter` and `rtn_enter_wc`, in the cases
`EnterMonitored`, `EnterAdmit` and `EnterEvict`, which give the slot of `FindMin` to
the new node and prune the victim with its cold ancestors. `FindMin` gives every
outcome of the scan: from `minIdx` up to the next counter not above the second
minimum known (`Stop`), with the `sentinel` behind the queue, and then from the
start. The two builds are those of `LcHcct`. At the end of an exhaustive trace
`WriteOutput` computes the `report` of `metrics.c` on the tree (pruned by
`finalPrune`) and on the exact one of COMPARE_TO_CCT (pruned by `cctPrune`); the
operators of `TraceMetrics` are the recursive functions of the code, in their
order, since pruning one tree changes what later lines count. The root of the
exact tree is allocated without a counter (`cct.c:111`): any (`RootCounters`).

**`TraceWriter`.** A call of the writer is split where others may step in: `Record`
(the first part of `TraceWriter_RtnEnter` and `_RtnExit`, with `checkTimer`)
leaves the pieces to be written in `pending`, and each `myWrite` is a step,
`Write` or, when the piece does not fit, `SwapAndWrite`, which waits for the last
dump. The dump thread (`DumpStart`, `DumpWrite`, `DumpEnd`) reads `index` after it
was started. `Kill` ends the process at any time; any beginning of what was
handed to stdio survives, since stdio writes when it likes.

**`TraceDriver`.** `Read` returns any number of bytes up to the size asked for.
`Deliver` is one round of the loop in `analyze_buffer`, `Carry` the move of a cut
event to the front of the buffer. A byte carries its event and its position in
it, so that "the driver takes an operand for a type byte" is a state.

**`ShadowStack`.** `frames` is the real stack of the program, with the stack
pointers at its calls; `Call`, `StubJump`, `Return` are what `I_Trace` instruments,
`Longjmp` what it does not see. With `fixed` each frame makes all its calls at
one stack pointer, as code compiled by gcc does: then activations that
`longjmp` has left are gone at the next call or return
(`LongjmpIsRolledBack`). Without, an activation may outlive its call until the
frame below it returns; no active call is popped either way. An access is the number
of frames when it was made; `HandOver` is what the variants with the suffix Buf do
before an exit, `BufferOverflow` what Pin calls when its buffer is full
(`AccessesAreHandedOver`: once, in order, and none of a call after its exit).
`LibrariesPush` is an assumption: a routine that is reached through a stub has
pushed something before it calls (a saved register, an aligned frame). If one
does not, its activation, a word below that of the stub, is at the very stack
pointer of its calls, and `AdjustStack` pops it although nothing has jumped:
with `LibrariesPush = FALSE` TLC refutes `ActiveCallsAreReported`, and the theorem
needs the assumption, too.

**`PthreadKeys`.** The steps lie where another thread may step in: `KeyEnter` tests
`tlsKey_active`, `CreateKey` and `ActivateKey` are the two calls behind it,
`InitTls` makes the record, `EnterRecord` the event. Two threads that both see no
key make two. A thread ends (`EndThread`), and `Destroy` runs the destructor of any
key whose value is not NULL, the program's own among them, whose destructor calls
instrumented functions (`OthersKeys`). `CreateThread` is the wrapper;
`KeyTraceBegin` and `KeyTraceEnd` are constructor and destructor of the library. A
second dump of a thread finds the file and aborts the process, as in
`ProfiledProcess`.

**`DumpedTrees`.** A tree has numbers for nodes, lists of children in their order,
a counter and a symbol per node. `Dump` is the preorder that `hcct_dump` writes;
`loadTree` folds the lines of a file with the stack of `tree.c` and fails where
the code does; `Damaged` are the files with a line lost, two swapped, or the end
missing, from any byte on: `CutEnd` is what `strtoul` makes of the last line where it was
cut, a number without its last digits, 0, or, in front of a blank, what the line before has
left in the buffer (`Leftovers`, any numbers). A cut inside another line leaves a file without a last
line, which is refused wherever it ends. The code compares the number of nodes only, so
that a file cut inside its very last number is loaded, with the same nodes but fewer enter
events and so other thresholds (see the findings); `DumpsAreAnalysed` has this exception. `pruneTreeAboveCounter` goes in postorder, as the code does.

**`TreeComparison`.** `Analyse` is `analysis.c` on one file, damaged or not.
`LoadTrees` is `compare.c` up to `matchTrees`; `MatchChildren` is one round of its
queue: `MatchedChildren` tries all ways to match when both nodes have few children
(`ExactPairs`, over the enumeration of `comb.c`: combinations, and the permutations
of each) and is greedy otherwise (`GreedyPairs`). `Report` has the counts of
`compare_metrics.c`. A root without children makes `comb.c:42` read `ar[-1]`: then
the phase is "undefined" and nothing is claimed.

**`LDSP`.** A path is the sequence of its vertices, its parts l and r are the
sequence without its last and its first vertex, and `arena` maps the live paths
to their fields: weight, tag, whether it is or was a shortest path (`mZ`), and the
four lists of extensions. `UnSmoothedUpdate` is the code up to the propagation
loop: `Through` follows the lists as `_Delete` does, `Without` unlinks as
`_DelPUP` does (only from the parts that stay), `Improved` and `Inserted` are phase
1, and the queue `mH` is phase 2. `Propagate` is one round of the loop. `Load`
makes the updates of `LDSP_New` (a cycle of weight 0, the edges outside it, the
true weights of the cycle). `UpdateEdge`, `Schedule`, `Smooth` or `SkipSmoothing`,
`Reschedule` and `Return` are `LDSP_UpdateEdge`; `caller` says where it is.

**`LSP`.** `Init` is `LSP_New` up to the call of `_Compute`, `Compute` one round
of its loop. Sums are 32-bit sums: modulo `Infinity` + 1.

**`CDAPSP_DE`.** An update works on the trees one after the other (`at`), and on
each in the steps of `CDSSSP.c`: `MarkSubTreeNodes` or `NotATreeEdge`, then
`SetupPQueue` (one vertex below the edge per step: a vertex that has found a
parent may become one for those behind it), then `ModifySPTree` (one vertex per
step), which also is the loop of `CSSSP_UI4` for a new tree.

**`CDAPSP`.** `UpdateEdge` splits an update into the calls that the code makes;
`Increase`, `IncreaseTrees`, `IncreasePairs` and `Decrease` are theirs: the trees
into and out of each vertex change, then the lists of witnesses of each pair;
`Stitch` computes the distances beyond mDValue through the blockers.

**`LDStar`.** `ProcessState` takes a state of least key and is `Expand`ed over its
neighbours, which a fixed graph visits in any order; `Successors` is the choice of
a raised state. `Plan`, `Replan` and `Move` are rounds of the loops of
`LDStar_MoveAgent` and `LDStar_SetEdge`. Two things go wrong in this code.
A state that was never reached has distance 0, and a raised state (line 595) may
take it for its successor: its plan then leads to a state without back pointer,
which in turn points back, so that the agent walks in a circle, although the
comments promise the shortest path (on the 3 x 3 grid of the run, when the edges of the
goal become dear; see the findings). `aux_astray` remembers this, and `PlanIsShortest`
says nothing afterwards. And `mProcessedNodes` has a place for each state, but a
replanning may process a state more than once: on a 2 x 2 grid one change of cost
suffices. What happens then is undefined, and not modelled.

**`Experiments`.** A session is commands of the user; making a sequence and
running an algorithm are loops, a turn each (`MakeUpdate`, `Replayed`; `Update`),
which an exception may end (`MakingFails`, `RunFails`). `Kings`, `ByDifference`,
`ToldAfter` are how six algorithms are told of a weight: by value, as a deletion
and an insertion, or by difference.

**`LHeap`, `LHash`, `LQueue`, `LGraph`, `LGraphGen`.** The arrays of the code, one
action per function. Slots of the heap, holes, entries and lists of the table, front
and rear of the circular array, the links and indices of the graph are variables,
so that the set, map or sequence they stand for is what has to be shown.
`LGraphGen` makes graphs in the turns of its loops, with any random number.
`HashCalls` and `GraphCalls` name the calls that callers make, since some end in defects that the findings tell:
without "replace and shrink" an item is not replaced where its removal shrinks the
table, without "removeAll" a table is cleared only where its items lie in the entries that
are cleared; the other calls of the graph are loops, parallel edges, undirected loops and the deletion of the
only node. `aux_lost` remembers that the edge map may have lost an edge: one of parallel edges, which share
an entry, was deleted, or a node with edges got another number, under which the map
does not have them (finding 4). `MapFollows` is about the map until then. What a write behind
the end of the table overwrites is not modelled.

**`LBlocks`.** A cell is a byte of data or a number, which is written in one byte order
and read in the same. `Written`, `Sought` and `ReadFrom` are the calls of LXPBlock;
`StoreNext` puts blocks into a data store, saves it into a block and makes it again
from there, as a caller that closes and opens it does (an empty block throws, and
enters neither). `DiskNext` pushes and pops through the memory buffer, which is
flushed to the file (`Flushed`) when a push does not fit.

**`LArchiveFile`.** The file is the sequence of its words, so that a block written one
word too far damages the next one. `OpenOld`, `ScanBlock`, `Scanned` are
`LArchiveFile_Open`, which fails where the file is too short (`ScanFails`); `AddBlock` takes the
first hole that is large enough (`FetchHole`) or the end. `LFile` writes through stdio, so that
`stream` has what is on disk and what is in the buffer of the process since the last
`fseek`: header and data of the block that was added last, or the link past the one that was
removed last. `GetXPBlock` seeks, and `Close` writes all. `Close` goes on to `_Compact` when more
than a fifth of the file is holes, also when the archive was opened to be read: it is
scanned again, copied block by block (`CopyBlock`), removed (`RemoveFile`) and the copy renamed
(`RenameFile`). `Exit(n)` ends the process between any two of these, when n words of the
buffer are written: all where it calls `exit`, any number where it is killed. After `AddBlock` the
link to the new block may then be in the file without the block, or with a part of its header. The blocks in
front of that place of the list are what is sure to be left (`aux_end`), if the file can be opened at all:
a link behind the end of the file makes `LArchiveFile_Open` throw, so that no block can be
read through the library, and in a hole that is used again the words of a removed block are taken for
a header, behind which `Open` may find blocks that are none. Such an archive is only read in
the model, up to `MaxArchiveBlocks` blocks and one. `ExitUnnamed` ends the process between
`RemoveFile` and `RenameFile`: a file that no caller knows then has all blocks. `aux_blocks` is what callers have put into the archive, and
`aux_layout` the map that the closed file had, which `ArchiveKeepsBlocks` compares
with the file.

## Runs

All runs finish well within five minutes. `CHECK_DEADLOCK FALSE` is set where
the traced program may stop.

| run | question | bounds |
|---|---|---|
| `lss_space_saving` | With `update_min()`: is no frequent context lost (`HotMonitored`), does the queue implement `SpaceSaving`, whose counters err by the least one at most (`ImplementsSpaceSaving`)? Events before `trace_begin` and after `trace_end` included. | 2 calls, 3 slots, depth 4, 7 enters |
| `lss_inlined` | With the default search: are tree, stack, queue sound (`StackMirrorsCalls`, `QueueHoldsMonitored`, `NoColdLeaf`, `TreeOfContexts`)? | 3 calls, 3 slots, depth 3, 8 enters |
| `lss_inlined_hot` | Does the default search keep frequent contexts? **No** (finding). | 4 calls, 18 enters |
| `profiler` | Bursts, under every switching of the timer: `AlignedStackMirrorsCalls`, `TreeIsSampled` (no gaps, no counter above the truth). Time, under every interleaving of timer and threads: `TimeIsAccounted` (each tic once, to the active context). Pool: `FreeOrHeld`, `PagesBounded`, and is it an `Allocator`? Process: does every ended thread leave its tree (`EndedThreadsHaveTrees`)? Keys: with one key, `KeyedTreesAreDumped`. Dumped trees: `DumpsAreAnalysed` (rebuilt as dumped, damage found, nodes matched one to one and with the best sum, statistics that agree). | bursts: 2 calls, depth 4, 5 enters, any number of switches and returns; time: 2 threads, 3 tics, 3 events, depth 2; pool: 2 pages of 3 blocks, every order of calls; process: 4 threads, 3 ids; keys: 2 threads, 2 calls each; dumps: see below |
| `process_dump_fails` | Do all dumps succeed? **No** (finding). | 3 threads, 2 ids |
| `trace_trees` | Lossy Counting: `LossyCounting`, `OutputIsHot` (hot contexts are in the output, its leaves are nearly hot), `TreeIsSpanned` (every leaf is in the list, and the loop of `lc_prune`, in the order of the list, removes what the model says). Buckets and lazy queue: `MonitoredHoldTree` (lists or slots hold exactly the monitored nodes, which hold the tree; counters keep their bounds); do the buckets implement `SpaceSaving` (`ImplementsSpaceSaving`)? The numbers logged: `MetricsAgree`. Bursts: `BurstsAreSamples` (the position follows the calls, bursts are short, counters are those of a sample). | 2 calls, depth 3; Lossy Counting: buckets of 3, increments 1 and 4, weight 7; buckets: 3 counters, 8 enters; lazy queue: 3 slots, weight 6; bursts: sampling rates and durations 4/2, 2/2, 2/1, 4 enters, 5 ticks |
| `pin_tool` | The file: `NothingLost`, `RecordedIsDelivered` (no panic, nothing skipped), and does each call of the writer return (`CallsReturn`)? The shadow stack: `CallsAreReported` (no active call is popped, a return ends its own call, `longjmp` is rolled back, accesses are handed over before their exit). | words of 2 bytes, header of 2 words, buffers of 5 bytes on either side, 3 events, 2 ticks, reads of any length; stack of 5 words, 1 routine and a stub, 2 accesses, of which the buffer holds 1 |
| `lc_hcct_stack` | Is no node of an active call freed? **No** (finding). | |
| `shortest_paths` | Are distances, witnesses and the next step right after every sequence of updates (`ShortestPathsFound`: LDSP, CDAPSP, D*), and does each structure hold what the next update relies on (`StructuresAreKept`: all five algorithms)? Are all algorithms run on the same problem (`ExperimentsAreComparable`)? Does every call return (`CallsEnd`; not asked of CDAPSP, which has no loops here)? | 4 vertices; LDSP: 5 edges, or none, then 2 updates of any pair to 1, 2 or infinity, step 1, ratio 2; LSP: all graphs of 6 edges with weights 0, 1, 2; CDAPSP_DE: 5 edges, directed and undirected, 3 calls; CDAPSP: 6 edges, 3 updates; D*: 2 x 2 with all costs 1 and 5, 3 x 3 with costs 1, 2 changes; sessions: 3 commands |
| `containers` | Heap, queue, stack on disk: is every call one of a priority queue, a queue, a stack (`QueuesKeepOrder`), and does a slot of the heap name its item until it is given up (`SlotsAccountedFor`)? Table, data store, block: are items found that were put in, and no others, by the calls outside the findings (`ItemsAreFound`)? Graph, without and with loops and parallel edges: do lists, numbers, degrees and data agree through deletions of edges and nodes, and the edge map until one of parallel edges is deleted or a node with edges gets another number; generators: is a graph what was asked for, and the same after it was saved and loaded, copied, reversed (`GraphsHold`)? Archive: does it keep its blocks, and when the process is killed those in front of its last call (`ArchiveKeepsBlocks`)? | heap: 4 items, keys 1, 2; table: 5 keys, 3 lengths; queue: 8 items at most; graph: 3 nodes, 3 edges, 2 nodes deleted, without loops and parallel edges, and 2 nodes, 3 edges, 3 nodes deleted, with them; generators: 11 tasks; blocks, store, stack: writes of 0 to 3 cells, 6 cells in all, first size 3, seeks by -2 and 3, buffer of 2; archive: blocks of 0, 1 and 3 words, 3 at a time, file of 15 words, any part of the buffer written |
| `graph_edge_map` | Does the edge map find the edges of the graph, and no others (`MapFindsEdges`), after deletions? **No** (finding). | 3 nodes, 3 edges |
| `hash_replace` | Does a table hold its items when one is replaced and the table shrinks? **No** (finding). | 5 keys, 3 lengths |

`TypesOK` of the composed runs is the conjunction of the type invariants of their
parts; that of `LssHcct` is proved instead. Properties of one kind share a name
and a place in a run: each is a conjunction over the parts, with the comment that
belongs to each conjunct in the module of the part.

*Why the bounds are enough.* Space Saving needs more contexts than slots (30
against 3 in `lss_space_saving`), and chains of cold ancestors for the recursion
of `prune`, which depth 3 gives; with 7 events slots are taken over several
times, and a pruned context comes back. In `profiler` all subsets of 5 calls are
hidden by the timer, with returns in between, down to the root; 3 tics reach
each of two threads before, between and after its events. A page of 3
blocks has a first, an inner and a last block; with 2 pages the list mixes
blocks of both. 3 ids for 4 threads make the kernel reuse one. Weight 7 with
buckets of 3 ends two buckets, between which a node can be dropped, kept as an
ancestor and monitored again; increment 4 skips the rest of a bucket. 3 counters
with the root in one of them are given away by the second new context; with 8
events buckets are created, shared, emptied and removed at either end. 5 ticks
pass three sampling points with rate 2, with and without a pause before the
next one. An enter event is 3 or 4 bytes and a buffer 5: pieces of each kind
meet a full buffer, both buffers are used in turn several times, and a read
ends at each position of an event. Five words of stack hold two nested calls
through stubs, or four others, and jumps over them; two accesses fill a buffer of one
and make it overflow. Four vertices have paths with two inner vertices, whose maximal
parts overlap: the smallest case in which a path is made from two paths that
were made themselves. The graph of `LDSP` has two ways of equal weight between
two pairs, edges on and off the cycle, and pairs without an edge; two updates of
any pair, with the dummy updates they bring about, meet paths that were shortest
before the first one. Three calls of `CDAPSP_DE` are enough to cut a part of a
tree off, mark it a second time, and bring it back. Infinity is a number above
all sums of other weights, and for `LSP` the modulus less one, as in the code.
Weights of `CDAPSP` are even and its limit odd (see the findings), none is
deleted. The 2 x 2 grids of D* show every order of plans with a detour, the 3 x 3
grid has states that no plan reached; all costs are set before the agent moves, and
it is not used after it came back to its start, where the code plans anew over an open
list that is not empty. Sessions make a graph first and a sequence in their first
two commands; test sets have one weight, clusters at most one edge between them,
ranges a minimum not above the maximum; the verbose mode is left out.
Two threads are enough to race for the key, and two calls of each for a tree that is
started again by a destructor. Three slots in the lazy queue let the scan stop
below, at and behind the slot it started from; weight 6 is enough for two rounds of
it (a victim that is not of least count, which the code may take when no counter
lies below the second minimum, needs some 18 events). Dumped trees: all with one or
two calls and counters 1 and 2, of two images with three symbols, and some wide ones
with three children, which have 6 permutations; phi is 1/2, and the threshold
between exact and greedy matching the largest degree or one less (9 or 12 in the
code). Damaged files are given to `analysis.c` only; both tools read trees of
exhaustive profilers only. Numbers in a file have base 2 instead of 10, so that the
small counts of the run have several digits to be cut, and the line before a cut leaves 1 or 9 behind:
a number of nodes that is right or one that is wrong, and as many events as no tree has. The heap doubles from 2 and fills its holes
out of order; the table grows and shrinks, with other collisions at each length; the queue
doubles twice with its front anywhere; three nodes and edges leave a first, an inner
and a last one in each list. Six cells overrun the first size of a block, twice the
buffer of the stack, and hold a saved store of two blocks. A file of 15 words has room for a
hole that is just large enough, too large, or too small by the header, and for an
archive that is compacted, one of whose blocks is empty.

*Fairness.* `CallsReturn` and `CallsEnd` need it. `CallsEnd`: a call of a
sequential library, once made, executes its next step (weak fairness of `Run`);
nothing makes the program call. `CallsReturn`: the traced thread, once in a call of the
writer, runs, and so does a dump thread that was started (operating system and
Pin schedule both; nothing is assumed about the program between calls, the
timer, or the end of the process). A session also needs `WF(KeepUpdate)`: random
numbers do not name loops of the graph for ever. All other properties are safety properties:
the operations are sequential handlers that always terminate, and the system
makes no promise about when a program calls, returns or ends. No symmetry is
used in the runs that check them.

*Bounds in guards.* `MaxEvents`, `MaxWeight`, `MaxTicks`, `MaxTics` and their kin bound traces; `StackMaxDepth` is
STACK_MAX_DEPTH: the code does not check it, and a deeper program writes behind
the stack, which is undefined in C and not modelled; `MaxPages` bounds the pool
(`malloc` fails after). `Blocks` bounds live nodes at a number the runs never
exhaust.

## Theorems

| module | theorem | statement, for all values of the constants |
|---|---|---|
| `CallingContexts_proofs` | lemmas only | prefixes, callers, and which contexts lead to which; sums over finite sets |
| `LssHcct_proofs` | `TypeCorrectness`, `StackIsSound`, `QueueIsSound`, `TreeIsSound`, `PruningIsComplete` | `Spec => []P` for `TypeOK`, `StackMirrorsCalls`, `QueueHoldsMonitored`, `TreeOfContexts`, `NoColdLeaf` |
| | `HotContextsAreMonitored` | with `update_min()`, `HotMonitored`: no frequent context is lost |
| | `QueueIsSpaceSaving` | with `update_min()`, the refinement of `SpaceSaving` |
| `Profiler_proofs` | `TypeCorrectness`, `AlignmentIsSound`, `TreeIsSound`, `AlignmentIsSafe` | the properties of bursts in run `profiler`, and that `hcct_align` finds a tree |
| | `PoolTypeCorrectness`, `FreeListIsSound`, `MemoryIsReused`, `PoolIsAllocator` | the invariants of the pool in run `profiler`, and the refinement of `Allocator` |
| | `TreesAreKept` | `EndedThreadsHaveTrees` |
| | `KeyedTreesAreKept` | `KeysTypeOK` and `KeyedTreesAreDumped` |
| | `TimeIsKept` | `TypeOK` of `TimeProfiler` and `TimeIsAccounted` |
| `TraceTrees_proofs` | `TypeCorrectness`, `StreamIsCounted`, `CountersAreAccurate` | `TypeOK`, `StreamLength`, `LossyCounting` |
| | `PruningLeavesNeeded` | until the output is written, the nodes are those that lead to a monitored one, no more and no less |
| | `OutputHasHotContexts` | `OutputIsHot` |
| | `BurstsSampleTheTrace` | `BurstsAreSamples`, with `BurstFollowsCalls` of `TraceBurst` |
| | `StructuresHoldMonitored` | `MonitoredHoldTree`: `TreeIsPruned` of `BssHcct` and `LazyHcct`, `ListsHoldMonitored` of the one, `QueueHoldsMonitored` and `CountersAreBounded` of the other |
| | `BucketsAreSpaceSaving` | `ImplementsSpaceSaving`: the refinement of `SpaceSaving` by the buckets |
| | `ProgramsTypeCorrectness` | `TypesOK` of run `trace_trees` |
| `PinTool_proofs` | `WriterTypeCorrectness`, `RecordedEventsAreKept` | `TypeOK`, `NothingLost` of `TraceWriter`, for all sizes of words, events and buffers |
| | `ShadowStackReportsCalls` | `CallsAreReported` |
| | `TraceIsDelivered` | `RecordedIsDelivered`: writer, file and driver in sequence |
| | `ToolTypeCorrectness` | `TypesOK` of run `pin_tool` |
| `Containers_proofs` | `DiskStackIsStack` | every step of `DiskNext` is one of a stack (`IsStack`, a part of `QueuesKeepOrder`) |
| | `CircularArrayIsQueue` | every step of `QueueNext` is one of a queue (`IsQueue`, likewise) |
| | `ArchiveHasItsBlocks` | `ArchiveTypeOK` and `ArchiveKeepsBlocks` |
| | `HeapKeepsItsSlots` | `HeapTypeOK`, `SlotsAccountedFor` and `HeapOrdered` |
| | `HeapIsPriorityQueue` | every step of `HeapNext` is one of a priority queue (`IsPriorityQueue`, likewise) |
| | `QueuesHoldTogether` | `QueuesKeepOrder` and `SlotsAccountedFor` of all three side by side |
| | `StoredBlocksAreFound` | `BlockIsWritten` and `StoreKeepsBlocks` (parts of `ItemsAreFound`), and `BlocksTypeOK` |

*Assumptions.* `LssHcct_proofs` and the theorems about `BurstCct` assume
`~EventsOutsideTrace` (with it the stack is wrong, see the findings) and the
former `Epsilon # 1`: with EPSILON=1.0 the root alone fills the queue, but
`hcct_init` leaves `_TLS_queue_full` 0 (`lss-hcct.c:446`), the number of items is
never again equal to `epsilon`, and the queue grows past its allocation.
`HotContextsAreMonitored` and `QueueIsSpaceSaving` assume `~InlineUpdMin` as well: the
default search breaks both (finding 1). `ShadowStackReportsCalls` and `ToolTypeCorrectness` assume
`LibrariesPush` (see `ShadowStack`). These assumptions are hypotheses of the theorems,
and each has states that satisfy it: runs with the same values reach thousands. The
named assumptions on the constants of each module are what `hcct_getenv`, the headers
and the callers guarantee.

The theorems about all four programs of the trace analyzer are about `TraceTrees`, the
specification that run `trace_trees` checks, for every `Counters`, `BurstSettings` and
bound; what is `MCSettings` in the run (three pairs) is any set of pairs that `init_burst`
takes.

*Arguments.* Each proof has one lemma per action.
- `LssHcct`: the invariant is the conjunction of all five properties and
  `Lifecycle`; none is inductive alone. That the stack holds live nodes needs the
  tree (a node below an active one has a child, hence is not pruned) and the
  queue (only monitored nodes are victims). The heart is
  `PrunedProperties`/`PruneKeeps`: the least closed set contains only leaves of
  what is left, never the root or an active node, and after it no cold leaf
  remains. `HotMonitored` follows from an account (`CountersAccount`): the counters of
  all slots add up to no more than the events and one, a monitored context occurs
  no more often than its counter says, another one no more often than any slot does,
  and `_TLS_min` is at most the counter of every slot.
  Instead of a sum over the slots, `SumsTo` says that there is a
  function of partial sums; an event moves it up from the slot that is credited
  (`CreditPreserves`), and that a minimum is at most the average (`SumOfLeast`) is
  shown with the least slot at which a partial sum falls behind. The same
  `VictimIsLeast` makes `EnterEvict` a step of `SpaceSaving`: the refinement mapping
  reads items and counters off the queue (`Summary`), and each path of
  `hcct_enter` is one of its actions (`HotRefines`, `AdmitRefines`, `EvictRefines`).
- `BurstCct`: `AlignedStackMirrorsCalls` needs that the active contexts of an
  aligned stack are counted (`ActiveCallsCounted`), that slot 0 keeps the root
  between `trace_begin` and `trace_end` (`RootAtBottom`), and `ShadowInBounds`.
- `Pool`: the history variable `aux_free` is the list as a sequence; with it
  `FreeOrHeld` is inductive, and `PagesBounded` follows because a page is added
  only when the sequence is empty.
- `ProfiledProcess`: `ThreadsHaveIds`, and a file is written once.
- `LcHcct`: `LossyCounting` is not inductive: a node that is kept only for its
  children may be forgotten at any time, so `ColdIsRare` has to say that its
  counter plus delta is at most the number of full buckets. `PruningLeavesNeeded` is
  inductive with the invariant of `LossyCounting`: a node on the stack may be missing,
  then `RtnEnter` is not enabled. `OutputIsHot` combines both: a hot context has a
  counter and so a node, and passes `finalPrune`, since a context without a monitored
  node is rare; every leaf that is left was kept by it.
- `TraceBurst`: `BurstInv` relates the tick counter to bursts that began in the past. The age of
  a burst is less than the ticks since the last multiple of `burst_duration` that was
  counted (`BurstIsYoung`); there were as many sampling points as the tick counter has
  multiples of `sampling_rate`, at most one walk for each, and a burst that is requested
  and not walked yet has one of its own (`WalksAreRequested`). A counter is at least the
  number of calls which bursts have seen, and exceeds it by one for each walk at most (`Sampled`), because the
  frames of a stack are different contexts (`FramesProperties`).
- `LazyHcct`: `LazyInv`. The slots in use are the first ones of the array, each with a node of its own
  (`QueueHolds`); no counter is below the one in the sentinel (`CountersFit`, which also has the sum of
  the counters), which is 0 until the queue is full. The search ends at a slot of
  the queue, with a new minimum that no counter is below (`FindMinProperties`). The victim's counter is
  taken over, so the sum grows by no more than the increment, and `SumAtLeast` turns that into
  the bound on the least counter. The tree stays spanned because prune frees what led to
  the victim alone, except for the current call and its callers (`VictimIsPruned`).
- `BssHcct`: `BssInv` is about the links. `BucketChain`: the buckets are doubly linked, and their
  counters grow strictly from `bfirst` on. `NodesLinked`: the monitored nodes of a
  bucket are doubly linked, and the one without a previous one is that which the bucket
  points to. A ring of nodes beside the list of a bucket would satisfy all this; what excludes it is
  a *rank* of the nodes that grows along every `next`. No variable holds it: it is quantified in
  the invariant, and the lemma about a change of links (`LinkFirst`, `Unlink`) gives the new one. With it the walk along
  a list meets every node of the bucket within `numc` steps (`WalkMeetsAll`), which is what
  `ListsHoldMonitored` needs. An event is followed through its parts: `Monitor` (`Admit` or `Replace` for a
  node that is not monitored), `Detach`, `Advance` into a new bucket or the next one, `Vacate`
  where the old one is empty. Between them a bucket may be empty and the node
  that moves is in no list, so that `ListsHold` is an invariant of events only; `NowMonitored`,
  `Detached`, `Advanced` and `Incremented` say what holds in between. The refinement mapping reads the
  counters off the buckets (`BssCount`): the first bucket has the least (`FirstIsLeast`), so its
  first node is a victim that `SpaceSaving` allows; and as long as there is room
  the dummy root is in it with 0 (`RootIsFirst`), so that a new context starts from 0.
- `TraceWriter`: `NothingLost` is nearly inductive: with the type invariant, which has
  the parity of the buffers, and `Accounted`, the counts of events, it is (`WriterInv`).
- `TraceDriver`: `DriverInv` is about the file that the writer left behind, which `WriterInv`
  says is a beginning of what was recorded. What was delivered are the first events
  (`EventsInOrder`), and the part of the buffer that was not analyzed is the part of the
  file behind them, up to where was read. `NextEvent` then finds a type byte there,
  whose length is that of the next recorded event (`EventHasLength`), so that a whole event is
  delivered and a cut one is shorter. Between two reads the buffer has less than an event,
  and so always room: `read` returns 0 only at the end of the file.
- `ShadowStack`: `StackInv` is an order: the stack pointers of the activations fall
  strictly (`Decreasing`), and the frames of the program nest (`FramesNested`), so that
  `AdjustStack`, which pops from the top while a stack pointer is not above another,
  stops at an active call, and takes what was left behind (`LeftBehind`). What was handed
  over and what waits in the buffer are the accesses that were made, in order.
- `LDiskStack`, `LQueue`: the sequence that the arrays stand for is defined from them
  (file then memory; around the end of the circular array), and each function
  is followed to the step on the sequence. For `LQueue` the type invariant, with front
  and rear in agreement with the number of items, is inductive and all that is needed.
- `LHeap`: `HeapInv` says, beside the types, that `mIdx` is the inverse of `mHeap`
  on the slots in use, that the other slots are in `mHoles`, once each, and that no
  entry is smaller than its parent's. `Way` is a recursive function; `WayDef` shows
  that its equation has a solution, and by induction `ChainProperties` that the positions
  on the way of one position are ordered. A move (`Shifted`, `Told`) is a permutation of
  the positions with an inverse (`MovesAreInverse`), so that slots and positions stay
  inverse to each other (`MovedHeap`). The order is then a matter of one position and
  its parent and children: `RiseOrder` and `SinkOrder` compare what comes to lie there,
  by where the position is, above, on or off the way. `Risen` and `Sunk` are the
  greatest of finite sets that are not empty (`RisenIs`, `SunkIs`). `RootIsSmallest` is
  another induction: a least position with an entry below the root's would have a parent
  with one.
- `TimeProfiler`: the property adds up counters with `MapThenSumSet`, whose definition is
  a recursive function on sets. `SumFunctionExists` and `SumFunctionIsUnique` show, by
  induction on the number of elements, that there is one function that adds up one
  element after the other, and `SumProperties` that the order does not matter; `SumsOfModel`
  says that the model's sums are this one (`SumOf`). The invariant `Accounts` is about one
  thread and its contexts: its counters add up to the tics it was charged
  for; no context counts more than its time, and the active one is behind by no
  more than the tic that waits; of the contexts of one call, the counters in excess of
  their own time are those of tics taken in the handlers. An event charges
  the path at once (`ChargedAccounts`), a tic leaves the counters alone
  (`TickAccounts`), and the threads do not touch each other's (`OtherThreadsKeep`). It needs
  that the calls of a program are finitely many.
- `PthreadKeys`: `KeyInv`. No thread makes two keys, since one that is about to make a
  key looked at the flag before any thread had set it (`KeysAreFew`: keys made and keys
  about to be made are no more than threads); a tree is the value of one key
  (`TreesHaveOneKey`), so that a destructor leaves no value that was freed. As long as
  there is one key, each thread is `Sound`: its tree has the calls it made but the one that is
  under way, its file has them after the dump, and all its other trees were freed.
- `LXPBlock`, `LDataStore`: `BlocksInv` says of the store that its map grows from entry to
  entry up to the length of the data (`MapFits`) and that what a caller was told lies
  between two of them (`ToldTrue`); and of the block that it was written up to its
  end (`BlockHolds`) and, unless callers use it themselves, that it holds the store as it was
  when its map had some number of entries (`SavedAs`). Since blocks are only added, such a
  part of the store stays what it is (`GrownFrom`), so that a store made again from the
  block is a beginning of the one that was saved, in which the indices mean the same
  (`ToldInPart`).
- `LArchiveFile`: `ArchiveInv` has a part for each phase. `OnDisk` is the heart: blocks lie in
  the order of the map, without overlap, each behind its header, whose link is the offset
  of the next one. With it a scan (`Reading`, `ReadAll`) makes the map again, and
  adding, removing and copying blocks (`Copying`, `CopiedAll`) write only into holes,
  links, and behind the end. `Buffered` says that the buffer belongs behind the blocks in front of
  its place, and not into one of them (`AddCut`, `CutKeeps`): whatever part of it is written, they stay `Kept`, that is
  linked and where the map had them, also when the archive is opened again to be read.

*Only model-checked:* `TreeIsSpanned` (that the list of `LcHcct` holds the monitored
nodes once is about `SelectSeq`, a recursive definition; what the tree holds is
`PruningLeavesNeeded`), `MetricsAgree`, everything about
`TraceMetrics`, `DumpedTrees`, `TreeComparison`, the shortest paths, `Experiments`, the table, graphs
and generators (of `ItemsAreFound` the parts `HoldsItsItems` and `CountsAreRight`), and all that involves events outside the trace. `CallsReturn` and `CallsEnd` are
liveness properties, which TLAPS does not prove here. The induction theorems of the
library take an operator as a parameter, which none of the provers can instantiate; the
proofs here go around it by sets of numbers without a least element (`NatHasLeast`,
`NatInductionBySets`), and show of a recursive function first that its equation
has a solution (`WayDef`, `SumFunctionExists`). This is out of proportion for the recursive functions of
`TraceMetrics`, `DumpedTrees` and the table, which are folds over trees and lists.

## Findings

Five runs end in a violation of what a comment or README of the repository
says; `PROJECT.json` quotes the lines.
1. `lss_inlined_hot`: the default search evicts slot 0 when all counters have
   passed the cached second minimum; frequent contexts can be lost.
2. `process_dump_fails`: a second dump under one thread id ends the process.
3. `lc_hcct_stack`: `lc_prune` can free the node of the call just entered.
4. `graph_edge_map`: the edge map keeps edges under numbers of nodes that change when a
   node is deleted; it loses edges and finds some that are not there. (One of two parallel edges
   that is deleted takes the entry of both.)
5. `hash_replace`: `LHash_InsertItem` chooses the entry before the removal of the old item
   shrinks the table; the item is then not found, or written behind the end of the table.

The modules show more of these, one change of a cfg away from a passing run:
- `cct.c:173`: an event after `trace_end` that starts a burst makes `hcct_align` follow a null
  pointer, though a comment (line 372) says such events may occur (`NoNullDereference` of `BurstCct`
  with `EventsOutsideTrace = TRUE`).
- `tree.c:248`: a dump that was cut inside its last number is loaded without an error, with fewer
  enter events, so that the thresholds are lower and more nodes are hot (the last conjunct of
  `DumpIsRebuilt` without its condition).
- `CDSSSP.c:211`: `CDAPSP_DE_DeleteEdge` deletes the edge neither from the graph nor from the
  distances, though its documentation says so (`DeletedEdgesUnused`).
- `LHash.c:340`: `LHash_RemoveAllItems`, which "Removes all items in the table" (line 328), clears the first
  `mItemsCount` entries only, and leaves an item that lies behind them (`HoldsItsItems` with
  "removeAll" in `HashCalls`).
- `LGraph.c:573`: an undirected loop adds 1 to the degree of its node when it is made and takes 2 off it
  when it is deleted: 4294967295 in 32 bits (`GraphIsLinked` with "undirected loop" in `GraphCalls`).
- `LGraph.c:166`: the deletion of the only node returns before the arrays are told, which keep its data,
  and leaves its edges in the count of edges (`DataFollow` with "delete only node").
- `LDStar.c:595`: a state takes one that was never reached, whose distance reads 0, for its successor;
  on the 3 x 3 grid the agent then walks in a circle (`PlanIsShortest` without `aux_astray`).

An event outside the trace makes `hcct_enter` call `hcct_init` after it has
advanced the stack index (`lss-hcct.c:203`): the stack stays one too low, and
the return drives the UINT16 index to 65535, although a comment (line 615) says
that such events are handled. The tree itself comes out right, which
`lss_space_saving` checks with such events; `lss_inlined` is about the stack, and has
none.

Met while modelling, outside what a run shows:
- Threads that still run when the process exits lose their trees (`frequency.c:60`,
  and the destructor of the key never runs for them).
- `lss-hcct.c:195` does not compare the stack index with STACK_MAX_DEPTH;
  `lss-hcct.c:446`: a queue of one slot is never marked full.
- `cct_pthread.c`: line 168 frees the string that `getenv` returned; two keys, made by a
  race (185), let the destructor of one clear the value of the other (171), after
  which `hcct_exit` starts a tree with its stack index below 0 (232); an event in a
  later destructor starts a second tree, whose dump ends the process (165, 134).
- `lc-hcct.c:172`, `lss-hcct.c:225` of the analyzer (`finalPrune`) and `cct.c:253`
  (`cctPrune`) read `next_sibling` after the node may have been freed.
- `metrics.c:454` divides by the number of uncovered contexts, which may be 0;
  lines 155 and 250 compare counters by a difference that may overflow; line 105
  multiplies them by tau.
- `tree.c:225` reads `tree_stack[-1]` for a file whose first node has no parent,
  its stack has no limit, and the node_id of the root is never set; the test for
  "already sorted" (about line 558) leaves an increasing list as it is;
  `compare.c:317` finds the queue overflown after it was written behind its end.
- `LSP.c:201`: an edge of weight LType_MAX_UI4 is added up in 32 bits and wraps
  (4 vertices, weights 1 and infinity).
- `CDSSSP_D.c:237`: a distance of exactly mDValue is lost by the tree, and the lists of
  pairs keep it: later it is too short. `CDAPSP.c:121`: an update to infinity goes
  on into a second increase. `CDAPSP_D.c:400` sets infinity without a look at other
  witnesses.
- `LQueue_New` gives its array the address of `mData` in a local object, which is copied
  afterwards (`LQueue.c:53`): the array would tell a move of its data to a dead stack
  frame. The run `containers` assumes that `realloc` does not move them
  (`ReallocMoves = {FALSE}`).
- `LDStar.c:656`: see `LDStar` above. An agent that comes back to its start
  is taken for one that has not moved; costs of 0, with which `LDStar_New` begins,
  hide the increase of an edge between states of equal distance.

## Not modelled

- What C leaves undefined: stacks deeper than STACK_MAX_DEPTH, counters beyond
  2^32, the execution after a use of a freed node or a null pointer.
- `write_output` of burst traces (its threshold is computed from another count),
  `ctxt_lookup` of `lc-hcct.c`, `pool_dump`, the text of dump files, parsing of
  parameters.
- `finalPrune` of `bss-hcct.c` (no build calls it; for a node that is not
  monitored its condition follows a null pointer) and its `burst_start` (ends in
  panic).
- WEIGHT_COMPENSATION in `burst.c` over `cct.c`; COMPARE_TO_CCT over `LcHcct` and
  `BssHcct` (it is modelled over `LazyHcct`, with the same `metrics.c`). A walk of the
  stack adds 1 to `num_rtn_enter`, though a comment (`burst.c:45`) calls it the
  actual number of `rtn_enter`s; the percentage that is printed rests on it.
- Of the Pin tool: DUMP_NAMES, what an analysis does with memory accesses, failing
  allocations, the
  end of a thread, the first call through a stub that is bound lazily (the stub
  then jumps to the linker).
- Of the shortest paths: `CDAPSP_DE_InsertEdge`, which uses an edge that it never
  sets when the graph is shared (`CDSSSP.c:312`); `CDSSSP` with a graph of its own;
  `LDSP_SetConfig`, and settings (a step of 0, a ratio of 1) with which the
  smoothing would never end; `LDSP_New` of a single vertex; deletions under `CDAPSP`.
- Of the analysis: symbols and `addr2line` (`solve.c`, `symbols.c`: pure I/O),
  `pruneTreeAtDepth`, which no tool calls, the error of counters in doubles,
  `getAdjustFactor` for trees of the time profiler (the code says not implemented).
- Of the library: memory, exceptions, debugging and I/O (`LMemory`, `LException` and
  their kin), which carry no logic of the algorithms; a process that is killed inside
  `LArchiveFile_AddBlock` or `LArchiveFile_RemoveBlock` (between two of its writes, or inside one of a
  word), or whose writes reach the disk out of order; adding to, removing from and closing an
  archive that was cut; files that are not archives; sorting.
- The components listed as `not_modelled` in `PROJECT.json`: argument parsing, log
  files, symbols, memory, and the older profiler.

## Plan

The modules were written in the order of what matters most: the trees of the profiler
and of the analyzer, their front ends, the pool, threads and dump files, the path
of a trace from the program to the algorithms, the shortest paths with their
containers and experiments, and the analysis of dumped trees. Left are the
tracer of `gcc_profiler`, which repeats the above, and theorems.

Theorems to prove next: `ExtractedOnce` of
`LSP` and the lists of `LDSP`; the table of `LHash`.
