# Flash Train: specifications, model checks and proofs

Flash Train is a C++ library that selects and runs GPU kernels for small graphs
of operations. A host describes a graph (a *Pattern*), prepares it (*Ops*), fills in
the tensors of one call (*Args*), asks for a *Plan*, and executes one of the
Plan's *Primitives*; `ftrainGemm` does all of it in one call. This directory holds
TLA+ modules of that machinery, the TLC configurations that check them on small
instances, and TLAPS proofs of their main safety properties. Paths below are
relative to the repository.

## 1. Inventory

| Component | State | Operations | What is hard about it | What makes it correct |
|---|---|---|---|---|
| Selection cache, `src/cache.cpp` | shards, each a map under a `shared_mutex`; hit counters | `find`, `publish` (evicts), `getSize` | readers use iterators while others write; races of publishers; eviction by `nth_element`; `size_t` rounding | it is an atomic lossy map in which the first publication stands, and which loses what is used least |
| Selection engine, `engine.hpp`, `engine.cpp` | records, the cache, four latched environment settings | `createPlan`: validate, look up, walk Finders and records, publish, configure | a hit skips every check; settings are no part of the key; a search can die half way | a cached list is what a search would find, for the caller's own request |
| Environment settings, `env.h`, `cache.cpp` | function-local statics | parse and latch at first use | each is read at its own moment | decided once, before anything that depends on it is cached |
| Handle, `handle.cpp` | a function-local static; a map under a `shared_mutex` | register, find, count | first use by several threads; construction may throw; emplace may throw | a write-once map that contains the whole catalog before anyone looks |
| `ftrainGemm`, `api/*.cpp` | a second such static (the entry); thread-local last result | six staged calls and their cleanup | the statics nest; cleanup resets the result of the failure it follows | no leak, one Ops, the caller's own diagnostic, success only for enqueued work |
| Patterns, `pattern.cpp` | none (values) | `buildPattern`: validate, reject cycles, color | peeling counts ports; color counts stand for partitions | accepts exactly sound acyclic graphs; colors depend on the shape alone |
| Matching, `ops_args.cpp` | four maps, two trails, a recursion | pair by color and verify; search with rollback | equal keys do not mean equal shapes; rollback over several levels | a match is an isomorphism and none is missed |
| Gemm problem and kernel, `family/gemm`, `primitive/hygon/gemm` | none (values); device memory | view and problem validation, key, `isApplicable`, launch, grid | products in `uint64_t`; addresses left out of the key; in-place threads | the kernel gets only what it can compute, and computes each output once |
| Plan, Primitive, Resources | the Plan's Primitives | getters, checks and dispatch | a thread's device may change after creation; a Plan is shared; workspaces at the boundary | a device gets only work that applies on it, and a walk takes the best Primitive that fits |
| Pattern C API, Ops, Args, tensor values, `api/*.cpp`, `ops_args.cpp`, `tensor.cpp` | builders; matches; a slot per operand and operation | add, create, set, destroy | values pass a mapping between two numberings; setters fail, repeat and outlive what they came from | the caller reads and computes under its own IDs; `makeProblem` finds every slot set and of its kind |
| Result, Exception, traits, tracing, Python binding, benchmarks, build | | | | section 8 |

How they interact: `ftrainGemm` and the staged C API call the **Handle** to find the
**engine** of a Pattern's key; `Ops` **matches** the user's Pattern with the engine's;
`createPlan` turns the Args into a **problem**, asks the engine's **cache** and
otherwise its Finders and records; the **Plan** runs a Primitive on a stream.
Threads share the Handle, each engine with its cache, the settings and the
`ftrainGemm` entry. Everything else belongs to one thread.

## 2. Plan

Written, in this order (the first is what the others rest on):

1. `SelectionStore` (abstract) and `SelectionCache` (detailed) with its `SelectionHistory`,
   invariants and the refinement proved.
2. `OpsEngine` over the abstract store, invariants proved.
3. `EngineRegistry` (abstract) and `Handle` (detailed), invariants and the
   refinement proved.
4. `GemmApi`, which EXTENDS `Handle`: the composition of the entry's static, the
   Handle's static and the staged calls; invariants proved.
5. `PatternGraph` (operators), `PatternBuild` and `Matcher`; that exactly the acyclic
   builders are accepted, that colors are stable and follow the shape, that a
   match is an isomorphism and that none is missed is proved.
6. `GemmExecution`: one thread from views to kernel; invariants proved.
7. `PatternApi`, `ArgsValues` and `ArgsBinding` (detailed) and `NamedArgs` (abstract): the
   staged API from Pattern to Plan; invariants and the refinement proved.
8. `PlanExecution`: Plans of several Primitives, devices, workspaces; invariants proved.

Every safety property of the runs is stated by a theorem; liveness stays with TLC
(section 6).

## 3. Modules

**SelectionCache.** `entries` is all the shards' maps together; a shard is the part whose keys
hash to it. `readers` and `writer` are the `shared_mutex` of each shard. `find` is
`FindLock, FindLookup, FindCount, FindCopy, FindUnlock`, since the iterator found
in one step is used in later ones; `publish` is `PublishCheck` (empty lists are
refused) then lock, `PublishRoom` (evict), `PublishEmplace`, unlock; `getSize` visits
one shard after the other. `NthElement` is what the standard promises of
`std::nth_element` about any place, and no more; `EvictionBatches` are the first entries
of such an order, with the place and the number the code has. `emplace` and the copy of a list may throw `bad_alloc`. Arithmetic on
`size_t` is modulo `SizeModulus`. **SelectionStore** is the abstract store: a call
takes effect in one instant, entries may vanish, the first publication stands.
**SelectionHistory** adds history variables: how often each stored key was found by finds
that have let go of it (`uses`), which is not the hit counter of the entry; and which keys have been
stored all through a `getSize` (`kept`) or at some time in it (`seen`). No step depends on them.

**OpsEngine.** A request is a device and a problem. `Lookup`, `EnterSource`,
`Offer`, `Judge`, `Exhaust`, `Publish`, `Configure` follow `createPrimitives`,
`selectRecords`, `appendFinderRecords` and `appendIfApplicable`; `Latch` is the first
read of a setting, and may happen at any moment the code would read it (`Ready`
makes a step wait for the settings it uses). `SetEnv` is the host between calls,
`DropEntries` the eviction of the cache, `OutOfMemory` a `bad_alloc` in a search.
The cache appears as the abstract store: `ImplementsSelectionStore` (section 6) is
the justification.

**Handle**, **EngineRegistry.** `Enter`, `Place`, `Complete`, `Abandon` are the C++
rules of a function-local static: one thread builds, the others wait, and after an
exception the next one builds anew. `LockShared`, `LockExclusive`, `Probe`, `Emplace`,
`CannotEmplace`, `Look`, `Return` are the three member functions.

**GemmApi.** `at[t]` is the program point of `ftrainGemm`; a staged call is one step
with any outcome its code may have, except that `ftrainOpsCreate` and
`ftrainPlanCreate` go through the Handle step by step. `last` is the thread-local
result, `kept` the local copy around the cleanup, `held` the objects alive. The host
also calls `ftrainOpsCreate` itself, so the Handle may be built from either side. `work` is
the kernel on the stream: `Execute` may queue it (`Launched`: also where `hipGetLastError()`
then tells of an older error), and `FinishWork` is the device, at any later time.

**PatternApi** is `pattern_api.cpp` and what `ftrainOpsCreate` makes of a Pattern: IDs are
appended unchecked, and `Supported` and `OpsRefusal` are the checks of `buildPattern` and the
Handle's answer, over the operators of `PatternGraph`. **ArgsValues** says what a tensor, a
list or a group is and when its constructor accepts it (`Sound`), and what a compute type is.
**ArgsBinding** adds the caller's Ops (a match), Args (a copy of the match and slots in the
*engine's* numbering) and Plan (the problem `makeProblem` read from the slots). `OpsCreate`
takes any isomorphism, which is what `Matcher` shows of the search; `MapUserOperand` and
`MapUserOp` are the setters' checks in their order. **NamedArgs** is the same API as
`common.h` tells it: values under the *caller's* IDs, and no mapping.

**PlanExecution** has threads with a current device each, Plans that hold the Primitives
applicable on the device they were made for, and work on each device's stream. Any
thread executes any Primitive with any workspace (`ExecuteAt`), or walks the Plan as
`common.h` advises (`StartWalk, Look, Take, GiveUp`): ask for each Primitive's bytes and take
the first that fits. What is accepted is put on the stream, or needs no work, its output being empty.

**PatternGraph** holds graphs as values, the color refinement, and the reference
`IsIsomorphism` and `SameShape`, stated without colors or search. **PatternBuild** is
`buildPattern`; the choice of the next peeled operation is left open, which covers
the code's stack. **Matcher** is the `Ops` constructor: `ColorBoth` runs both
refinements (in the code when each Pattern was built), `Compare` and `Pair` are the
key and the fast path, and `Select, Try, Bind, Undo, Rest, Validate` are
`searchOps` with its recursion as `frames`, one loop iteration or one pair of
ports per step. A color is represented by the first vertex of the same signature.

**GemmExecution** is one thread's calls: `Bind` (StorageView), `Check` (GemmProblem),
`Select` (engine and cache, here the set of cached keys), `Execute` (Plan, launch), and
`Load` and `Store` of every thread of the grid. `ProblemKey` is the vector of numbers the
code pushes, in its order.

`MC*` modules give instances, one `.cfg` per run.

## 4. Runs

| Run | Question and answer |
|---|---|
| `cache_calls` | Two threads, three keys, two shards one of which overflows: does the sharded cache implement the store (`StoreSpec`), do iterators stay valid, limits hold, a size lie between the keys stored all through its call and those stored at some time in it (`SizeWithinCall`), every call return? Yes. |
| `cache_batch` | Two threads and five keys at one shard with a share of four (7 over 2, so rounding shows), evicted two at a time: was no entry that goes found more often than one that stays (`HotEntriesOutlast`), and is eviction only for room? Yes. |
| `engine_calls` | One thread under an environment that changes between its three calls, or two threads with two calls each, a cache that loses entries, searches that die: are cached lists, answers and refusals right for the settings in force and the caller's own request? Yes. |
| `engine_blank_list` | Is an allowlist that is set but blank honoured? No: finding. |
| `handle_calls` | Two threads, built-in and foreign engines, exceptions: does the Handle implement `EngineRegistry`, with one winner per key and the whole catalog visible, and do calls end? Yes. |
| `gemm_calls` | Two threads with two calls each, every staged call free to fail: one Ops, no leak, the diagnostic kept, success only for work that was put on the stream and a failure with work there only that of the launch, no deadlock of the nested statics? Yes. |
| `gemm_last_status` | Does `ftrainGetLastStatus` report the status the call returned? No: finding. |
| `pattern_build` | 4,097 wirings of two operations (out-of-range identifiers included), 625 of three, a chain, the empty builder: accepted exactly if sound and acyclic, an edge always named, colors stable and symmetric? Yes. |
| `matcher_pairs` | All 2,704 pairs of 52 patterns: match is an isomorphism, none missed, maps and trails consistent after every step, no binding fails after its check, the search ends? Yes. |
| `gemm_kernel` | 554 problems, two calls in a row: does a kernel, cached or not, have what it reads, do sizes fit, does the grid compute each output once, in place too? Yes. |
| `args_binding` | Three engines (the built-in one, one a Pattern matches in two ways, one with operands of every kind), Patterns described straight, permuted or wrongly, setters with good and bad values, IDs and kinds: are maps and slots well typed, does `makeProblem` read sound values of the right variants, and does all of it implement `NamedArgs`? Yes. |
| `plan_walks` | Two threads that move between two devices and share a Plan of several Primitives, with workspaces of no, some and enough bytes and a size without memory: does a device get only work that applies on it and fits, and does the walk take the first Primitive that does, refused only over the device or memory that Primitive needs? Yes. |

### Findings

- `engine_blank_list`: `FTRAIN_ENABLED_PRIMITIVES` set to blanks parses to the empty
  set, and an empty set filters nothing. `env.h:21` promises that a set list is never
  left; the comment in `cache.hpp:133` describes what the code does.
- `gemm_last_status`: when building the entry fails, `ftrainGemm` returns the stored
  status, but the thread's last result was cleared by the pattern's destruction, and is
  untouched in later calls. `common.h:155` and `docs/usage.md:109` say otherwise.

More was noticed and has no run of its own:

- `ftrainGemm` destroys its Plan while its work may still be on the stream
  (`gemm_api.cpp:79`), where `common.h:573-575` asks that "the Plan ... must remain valid until
  that work completes". Nothing goes wrong with the built-in Primitive, whose launch copies
  the kernel's arguments.
- `ftrainPatternAddGemm` accepts IDs that are not of the Pattern, or repeat
  (`pattern_api.cpp:97`), and only `ftrainOpsCreate` refuses them. `common.h:241-242`
  says otherwise; `pattern_api_test.cpp:163` agrees with the code.
- An operation that only follows a cycle is named as participating in one
  (`pattern.cpp:229`); the comment at `pattern.cpp:202` has the same slip.
- The cache as a whole can hold more than `max_entries`, as shares are rounded up
  (`cache.cpp:84` against `cache.hpp:58`).
- One failure to build the `ftrainGemm` entry is returned for the rest of the process
  (`gemm_api.cpp:45`).
- The messages of `pattern.cpp` that use `PRIu64` lack the `%` before it, so they print no
  identifier and shift the arguments that follow.

## 5. Bounds, and fairness

**Threads and calls.** Two threads with two calls each (`MaxCalls`) let one call race with another,
and a call follow a race; the locks treat further threads as the second. In
`cache_batch`, whose question is about one shard's contents, that shard is full at
the start, as four publications leave it (`FullInit`): of the two threads' four calls some find, and
others publish and evict, also while a find is under way. `engine_calls` bounds the
product of its two situations with the CONSTRAINT `AloneOrTogether`: either one thread
makes three calls under every environment, or two make two each for problems that share
their keys, under a blocklist that changes. Its properties are invariants, for
which leaving states out is only a bound; threads are interchangeable, hence the symmetry.

**Sizes.** `SizeModulus = 64` and `MaxWord = 31` are widths at which wrap-around
is reached by small values: `gemm_kernel` contains every shape up to one dimension
beyond what a word of bytes holds, so each product check is met on both sides. A
grid of two blocks of two threads covers fewer, as many, and more outputs than
threads.

**Graphs.** Two operations over three operands in every wiring contain every way to be
unsound or cyclic at one and two operations; three operations add what hangs on a
cycle. Colors need many rounds on the chain. Equal keys for unequal shapes
need rings of different lengths that add up: two of two against one of four,
and two and three against one of five. All orders of four are enumerated, so the color
pairing often fails and the search has to roll back. An operation has up to three ports where
the built-in ones have six: the code loops over ports without regard to their number.

**Args.** `args_binding` describes one graph at a time (CONSTRAINT `OneGraph`): a Pattern with
the kinds and operations of one of the three engines, or a part of one; up to seven operands, so
that the built-in graph may have an isolated one. Permutations have no fixed point where a slot
mix-up would hide, and each operand has a value of its own. A group has metadata
that its constructor refuses over a length or a rank (that there are as many views as dimensions, which
it also asks, cannot go wrong through the C API), a list a view that is refused by its own, and one operand has two sound values, so a
setter can replace what an earlier one left. The VIEW `Objects` leaves out how the last call
ended (`status`), on which no later call depends. The properties do not speak of it except as an
answer: `NamedArgs` gives each step the status it must have, which TLC checks for the step itself.

**Plans.** In `plan_walks` a second Plan follows the first, made for another device by a thread
that has moved (`MaxPlans = 2`), and work queues behind work (`MaxQueued = 2`). The
workspaces are on both sides of each requirement and equal to it.

**Fairness.** Liveness assumes weak fairness of each thread's next step
(`cache_calls`, `handle_calls`, `gemm_calls`): a thread that can run is
scheduled in the end. For locks this is enough only because calls are bounded; with
endless readers a `std::shared_mutex` may starve a writer, and nothing here excludes
that. `Matcher` is sequential and is stated to take steps until it is done; this is weak
fairness of `Next`, written without ENABLED because some action is enabled wherever
the search is not done. Failures that may happen (`bad_alloc`, a throwing
construction) are alternatives of fair steps, never required.

`gemm_kernel` does not check for deadlock, as the host stops after its last call. The other
modules let finished systems stutter or always have a call to make.

## 6. Proofs

Proved with TLAPS for every value of the constants that satisfies the named
assumptions (`CacheAssumption`, `EngineAssumption`, `HandleAssumption`,
`GemmAssumption`, `BuildAssumption`, `MatcherAssumption`, `PlanAssumption`,
`FamilyAssumption`, `SettingAssumption`, `NullAssumption`, `ExecutionAssumption`; each run evaluates them for its instance):

- **SelectionCacheProofs**: `TypeCorrect`, `IteratorsValid`, `ShardsBounded`,
  `FirstStands`, `LeastUsedGo`, `EvictionOnlyForRoom`, `SizeIsWithinCall`, `ImplementsSelectionStore`. The invariant `CoreInv` adds to the types who may be in which
  program point under which lock: readers and a writer of a shard exclude each
  other, so an entry found is still there, and a thread past `PublishRoom` has
  room. The limits alone are not inductive: that a shard is below its share is true
  between two steps only because the same writer still holds its lock. The
  implementation of the store is shown step by step: lookup is the instant of a find, emplace that of a publication, eviction a loss, the rest
  stutters. `CallInv` ties the call's arguments to its program point. `EvictionOnlyForRoom` has a
  premise, `MaxEntries + ShardCount <= SizeModulus`: beyond it the rounding up of the share wraps
  around and a shard evicts early (`ShareCovers`). `LeastUsedGo` is about uses, where eviction looks at hits:
  `UsesInv` says that the hits of an entry are its uses and the finds that have counted and not let
  go, and no find is there while a writer has the shard (`WriterAlone`), so that hits and uses then agree.
  `SizeInv` says that a `getSize` has added up no less than the keys of the shards before its
  cursor that have stayed stored, and no more than those seen there (`AddedUp`).
- **OpsEngineProofs**: `TypeCorrect`, `CacheHitsRight`, `AnswersCorrect`,
  `RefusalsCorrect`. `EngineInv` says of every thread that its partial selection is
  right for the settings latched so far, and of the store that each list is. The
  definitions take the policy as a parameter; the latching lemmas show that a
  setting which is still unread cannot have influenced either, so latching it
  keeps everything right. This is the argument the code relies on when it leaves
  the environment out of the cache key.
- **GemmProofs**, the Handle: `HandleTypeCorrect`, `OneWinnerPerKey`, `WholeCatalogSeen`,
  `ImplementsEngineRegistry`.
  `HandleInv` adds what the static promises at each stage (`GlobalInv`), the lock
  (`LockInv`) and what a thread between probe and emplace knows (`AtEmplace`). That a count
  sees the catalog is an injection from its positions to keys, for which `Keys` is finite.
  Of the implementation of the abstract registry: emplace is the instant of a registration and the locked look that of a lookup; the static, the lock and a failed
  construction are hidden. `OnlyCatalog` (until the static is ready the registry holds
  nothing but engines of the catalog) is what makes the completed registry equal to the
  abstract one, which had the catalog from the start.
- **GemmProofs**, `ftrainGemm` on top of it: `TypeCorrect`, `OpsSharedOnce`, `CallsLeakNothing`,
  `DiagnosticsSurvive`, `SuccessIsWork`, from `HandleInv` and one invariant per
  concern: the entry's builder (`EntryInv`), the objects held (`HeldInv`), results
  (`ResultInv`) and work (`WorkInv`).
- **PatternBuildProofs**: `TypeCorrect`, `EdgeAlwaysNamed`, `AcceptsExactlyAcyclic`,
  `ColorsAlwaysStable`, `ColorsFollowSymmetry`.
  `KahnInv` is the invariant of Kahn's algorithm (`Counted`): the in-degree of an operation is
  the number of its inputs whose producer is not peeled (an input has one producer, as
  validation ensures), and a set of operations that wait for each other is never touched.
  When nothing is peelable the rest is such a set, or empty. Of the colors, `ColorInv` says
  that a round tells apart whatever the one before did: as many colors are then the same
  partition, and the next signatures depend on the partition alone (`SettledIsStable`). A
  symmetry carries the ports of an operand to those of its image, so equal colors stay equal
  (`SymmetryStays`).
- **MatcherProofs**: `MatchesAreIsomorphisms`, `DirectionsAlwaysAgree`,
  `OnlyExhaustionMakesItFail`, `NoneAreMissed`, `ShapeIsDecided`. The fast path pairs
  the k-th vertex of a color with the k-th of the same color: with equal keys that is a bijection
  (`PairingIsBijection`), and the verification makes it an isomorphism. For the search,
  `TrailInv` says that the two directions of each map are converses and that its trail lists
  what is bound, once; `FramesInv` that checkpoints rise along the recursion and that each call
  around the innermost bound the operation it selected right behind its own; `TopInv` the same of
  the innermost call, at the points where it holds. `BindKeeps` and `RollbackKeeps` are the two operations on a map
  and its trail. When no operation is left, the maps are injections between as many, hence onto.
  That only exhaustion fails is `WiredInv`: what is bound is wired alike in both patterns, so a
  pair that `bindOp` has left cannot stop fitting, and with all operations bound the open operands
  are isolated and, the colors being equal, as many of each kind on both sides.
  That none is missed is shown for any correspondence of the patterns, which two of one shape have
  (`ShapesCorrespond`): a round of colors follows it (`RoundFollows`), so the keys are equal;
  then the search follows it too, or a call on the stack has yet to try the operation
  the correspondence has for its own and bound before its checkpoints only what that has
  (`WayInv`), so the outermost call never runs out. With the converse, that a match makes two
  patterns of one shape (`CorrespondentsAreAlike`), `Ops` decides the shape (`ShapeIsDecided`).
  `MatcherAssumption` asks of the patterns what `buildPattern` validates; that they are acyclic
  is not used.
- **PlanExecutionProofs**: `DevicesGetWhatSuits`, `WalksFind`. A Plan holds Primitives of its
  own device (`PlanInv`), and `execute` compares that device with the thread's before it launches;
  a walk's Plan is there still, and what it passed needs more than it has (`WalkInv`).
- **GemmExecutionProofs**: `KernelAlwaysReadsMemory`, `SizesAlwaysFit`, `OutputsAlwaysExact`.
  A cached key answers without `isApplicable()`; that this is sound is `KeyTells`: the vector
  names the length of each variable part before it, so equal vectors have equal parts
  (`PortKeyTells`), and the parts hold all that `isApplicable()` reads. The size checks are by
  division, and exact (`ProductFits`). In the grid a thread walks the indices of one rest modulo the
  number of threads (`Spread`), all of its rest behind it are written and none ahead
  (`Written`), and no index wraps because a grid has less than a block more threads than outputs
  (`GridFits`). `ExecutionAssumption` asks that two blocks' threads fit in a word, as 256 in 2^64 do.
- **ArgsBindingProofs**: `ObjectsAreTyped`, `ProblemsAreWellRead`, `CallersSeeTheirIds`. The
  invariant `BindingInv` says of every match kept anywhere that its operation map is an
  isomorphism and its operand map the one the ports induce, and of every slot what a setter
  checked. The crux is that the operand map is a bijection that keeps kinds: at equal
  ports the isomorphism pairs one operand with one, and since the engine's pattern has no
  isolated operand and the caller's as many as it, none is missed. With that a slot is
  some caller's ID's and no other's, so reading the engine's ports in the engine's
  numbering is reading the caller's ports in the caller's (`NamedArgs`).

Only model-checked: liveness (`CallsReturn`, `HandleCallsEnd`, `MatchEnds`), which rests on
fairness and is out of the prover's reach, and the two runs that refute what a comment says.

## 7. Assumptions

- Different tokens have different hashes. For its 128-bit cache keys the code
  accepts the risk (`cache.hpp:24`). A collision of 64-bit colors could make different
  patterns' keys equal; every match is verified all the same.
- The environment is changed between calls only (`setenv` races with `getenv`
  otherwise).
- Function-local statics and `std::shared_mutex` behave as the C++ standard says.
- The built-in engines have distinct keys, and an engine's records distinct names.
- Calls on one Ops, Args or Plan object that change it are ordered by the caller, as
  `common.h:575-576` asks of executions; a Plan is destroyed once its work is done.
- `hipGetLastError` may tell any error, also an older one; the HIP calls that read or set a device
  may fail. Null output arguments of the C API, refused at once, are left out.
- Memory a caller passes does not overlap between ports, except d with c, which
  `problem.hpp:90-94` makes the caller's responsibility; what is at an address is
  as large as the shape says.

## 8. Not modelled

The text of messages and their
formatting; plain getters (names); the mixing functions of the hashes; floating-point arithmetic (an
output is told apart only by the addend it was computed from); tracing (no state);
the Python binding (a translation of one call's arguments), benchmarks, build
files and tests. `PROJECT.json` lists every component with its status.
