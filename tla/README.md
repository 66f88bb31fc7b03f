# TLA+ models of the inode tracer (`src/source/kernel/trace_inode.c`)

The inode tracer gives block-I/O traces file context. For every traced I/O,
`iotrace_trace_inode` walks from the inode up its dentry chain. Each inode it
has not seen before gets an `fs_file_name` event in the per-CPU trace buffer
and is then cached. Each CPU has its own tracer (`struct iotrace_inode_tracer`),
which holds:

- an arena of `CACHE_SIZE` cache entries threaded on one LRU list;
- a hash table over the mapped entries;
- a reference to the FS monitor that all tracers share.

The FS monitor is an fsnotify group. It puts marks on directories the walk
passes through, and on files created or opened beneath them. Its handler,
`_fs_handle_event`, writes create, delete and move events into the trace
buffer of the CPU where the file operation runs.

## 1. Inventory

| Component | Code | State | Operations | Module |
|---|---|---|---|---|
| Identity cache | `cache_entry`, `_set_hot`, `_get_entry`, `_map`, `_remove_entry`, `_lookup`, the arena setup in `iotrace_create_inode_tracer` | LRU position of each entry, the set of hashed entries, each entry's identity and ctime | lookup hit, stale removal, miss then insertion | `InodeCache` (abstract: `LruCache`) |
| Path walk | `iotrace_trace_inode`, `_trace_filename` | walk position (pc, this_inode, the inodes whose emission failed), the cache, the trace buffer's free slots, naming events written, marks | start, hit, stale, miss (marks the parent), emit (succeeds or fails), map and move up | `InodeTracer` |
| Event handler and marks | `_fs_handle_event`, the `iotrace_fs_handle_event` wrappers, `_trace_file_event` | marks, per-CPU buffer slots, CPUs with a leaked `get_cpu`, delete records | create, open, rename, delete as fsnotify delivers them; I/O that runs the walk | `FsEvents` |
| Mark addition | `_fs_add_mark`, `_fs_free_group_priv`, the `fsnotify_put_mark` / `iotrace_fs_free_mark` behaviour it relies on | the mark on each inode, each mark's `refcnt`, the allocated marks, each CPU's place in `_fs_add_mark` and its local `mark` | find (hit or miss), allocate, add (success or `-EEXIST`), the closing `put_mark`, inode eviction, group destruction | `MarkAdd` |
| Tracer and monitor lifecycle | `iotrace_create_inode_tracer`, `_fsm_init`, `_fsm_try_get`, `_fs_monitor_get`, `_fs_monitor_put`, `iotrace_destroy_inode_tracer` | tracer slots, each tracer's `fsm`, live monitors, `refcnt`, group references, `fsnotify_ops` resolved and `inited` | create tracer (compatibility check, symbol lookup, share or allocate, allocation failure), destroy tracer | `MonitorLifecycle` |
| Trace sink | `octf_trace_*` (outside this repository) | free slots | reserve, commit, consumer drains | environment only |
| Free callbacks | `iotrace_fs_free_mark` | memory | free | modelled inside `MarkAdd` as a mark leaving the allocated set |

How the components interact:

- The walk reads and writes only its own CPU's cache.
- The walk calls `_fs_add_mark` on the shared group.
- The handler runs on whatever CPU performs the file operation. It writes to that CPU's trace buffer and adds marks.
- Tracer creation and destruction move references to the shared monitor. They run one after the other, from the thread that sets tracing up and tears it down.

### Hard behaviours this code has

1. **Interleaving with other CPUs.** Another CPU can change an inode's `i_ctime` between the walk's reads of it: at the lookup (570), at the name event (672) and in `_map` (542).
2. **Inode number reuse.** A reused inode number leaves stale entries. They are detected only by a ctime mismatch, and must be unhashed before the new mapping goes in.
3. **Full trace buffer.**
   - A failed emission does not stop the walk (679).
   - At the root, a failed emission is retried, because `dget_parent(root) == root` and the loop condition (693) never becomes false.
   - In the handler, a full buffer leaks the `get_cpu()` (241).
4. **LRU eviction.** Eviction takes the tail blindly (527), so the list order is what protects live entries.
5. **Sequences of create/destroy.** Any order of tracer creations and destructions must keep monitor reference counts right. Allocation failures are retried.
6. **Watch coverage.** Delete records need a mark on the file itself (293). The walk only marks directories.
7. **Racing mark additions.** Two CPUs can run `_fs_add_mark` for one inode at once: both miss in `find_mark` (194), both allocate, and one `add_mark` fails with `-EEXIST` (211). The loser must put its own mark, and a found mark's extra reference must be put, or the mark outlives the group and `kmem_cache_destroy` (175) finds it.

## 2. Modules, runs and bounds

Modules in dependency order:

- `InodeCache`: the arena.
  - Constants: `N` (CACHE_SIZE), `Ids` (identities), `Ctimes`.
  - The LRU list is the position function `pos` (1 = head). `hashed` is the set of mapped entries. `key` and `ctm` are each entry's identity and ctime; 0 means never mapped, because the arena is vzalloc'ed.
  - Bucket order is abstracted away: `UniqueKey` leaves at most one candidate per identity, so the order of the chain cannot change a result.
  - Each mutant operator stands just before the definition it replaces.
- `LruCache`: the abstract cache of spec 4.1. It is a sequence of (identity, ctime) pairs in recency order, with hit, invalidate and insert.
- `InodeCacheLru` (EXTENDS `InodeCache`): the refinement mapping onto `LruCache`.
  - `At(i)` is the entry at place `i` of `lru_list`, the inverse of `pos`.
  - `LruLen` is the number of mapped entries. They are the first `LruLen` places of the list, because of `FreeSuffix`.
  - `LruOrder` lists their (identity, ctime) head first. `LruRefinement` is `Abstract!Spec` with `order <- LruOrder` and `Capacity <- N`.
- `MC_InodeCache` only EXTENDS `InodeCacheLru`; the `cache_lru` run checks `LruRefinement` as a property.
- `InodeTracer` (EXTENDS `InodeCache`): the walk as a program counter with one action per segment of the loop body.
  - Segments: `Start` is `d_find_alias` succeeding; then `WalkHit`, `WalkStale`, `WalkMiss`, `WalkEmit` and `WalkMap`.
  - Environment actions:
    - `Touch`: another CPU changes a ctime.
    - `Reuse`: a leaf inode is freed and its number reused with a new ctime. Its marks go with it.
    - `Drain`: the consumer frees a slot.
  - The ghost `names` holds the committed naming events. The ghost `failed` holds the inodes whose emission failed in the current walk.
- `FsEvents`: the handler and the marks, driven by `Create`, `Open`, `Rename`, `Delete` (unlink followed by eviction) and `Io` (the walk's effect on marks, as in `InodeTracer`).
  - Delivery follows fsnotify: CREATE and MOVED_FROM/TO go to the directory's marks, OPEN goes to the file's and the directory's, DELETE_SELF only to the file's own.
  - `inc` counts the incarnations of an inode number. `gone` records deleted incarnations, with whether a walk had named them and whether the group had seen them.
- `MarkAdd`: `_fs_add_mark` run by several CPUs at once, each a process with a program counter (`Start`, `FindMark`, `AllocMark`, `AddMark`, `Release`), beside inode eviction (`Evict`) and the last `_fs_monitor_put` (`DestroyGroup`).
  - A mark is a number in `1..MaxMarks`, an object of the group's `mark_cache`; `live` is the set allocated and not freed. `PutMark` is `fsnotify_put_mark`: the last reference frees the mark.
  - `add_mark` runs under the group's `mark_mutex`, so it is one atomic step that attaches the mark or fails with `-EEXIST`.
  - `leftover` collects the marks still allocated when `DestroyGroup` destroys the cache. A new group then starts with an empty cache.
- `MonitorLifecycle`: tracer slots and the shared monitor. A monitor is an address in `1..MaxMonitors`, and a freed address can be handed out again.
  - The kernel's compatibility and the availability of its symbols are variables chosen by `Init` and never changed. This way one run covers every combination.

Runs (see `PROJECT.json`):

| Run | Checks | Result |
|---|---|---|
| `cache_lru` | `CacheTypeOK`, `UniqueKey`, `FreeSuffix`, `LruRefinement` (N=3, 4 ids, 2 ctimes) | pass, about 10k states |
| `walk` | `TypeOK`, `UniqueKey`, `WatchCoverage`, `WalkTerminates`, `CurrentKept` (chain 3→2→1, N=2, 1 slot, 3 clock ticks) | pass, about 100k states |
| `walk_cached_was_named` | `CachedWasNamed` | violation (code bug) |
| `walk_ancestor_named` | `AncestorNamed` | violation (spec gap) |
| `walk_no_retry` | `NoRetry` | violation (divergence from spec 7) |
| `fs_events` | `TypeOK`, `SeenDeleteReported` (2 dirs, 2 files, 2 incarnations, 2 CPUs, 1 slot) | pass, about 160k states |
| `fs_delete_reported` | `DeleteReported` | violation (divergence from spec 8) |
| `fs_preempt` | `PreemptBalanced` | violation (code bug) |
| `monitor` | `TypeOK`, `MonitorRefcount`, `SingleMonitor` (4 CPUs, 2 addresses) | pass, 243 states |
| `monitor_absent` | `AbsentIsPermanent` | violation (divergence from spec 4.2/7) |
| `mark_add_race` | `TypeOK`, `MarkRefs`, `NoMarkLeak` (3 CPUs, 2 inodes, 5 cache objects, symmetry on CPUs and inodes) | pass, about 17k states |

Why the bounds are enough:

- **Cache.** Four identities in three entries forces evictions. Two ctimes lets a cached identity turn stale.
- **Walk.**
  - Two entries cannot hold the chain of three inodes, so ancestors are evicted while their children stay cached.
  - One buffer slot is full after a single event, so every emission can fail.
  - Three clock ticks allow a ctime change inside one walk and an inode reuse.
- **Events.**
  - Two directories let a rename leave or enter a watched directory.
  - Two incarnations let a reported delete be confused with the next incarnation's.
  - A one-slot buffer lets a two-event rename overflow it.
  - The last incarnation the bound allows is never deleted. This keeps the run from stopping at an artificial end.
- **Marks.** Three CPUs let two race on one inode while a third finds the winner's mark. Two inodes let eviction and addition interleave on different inodes. Five objects (`MaxMarks >= |Cpus| + |Inodes|`, the `MarkAssumption`) is the most that can be allocated at once, so allocation never blocks for lack of an object.
- **Lifecycle.** Four CPUs let a monitor be shared while others are created and destroyed. Two addresses allow both a second allocation and reuse of an address.

### Fairness

Only the walk run has a liveness property, `WalkTerminates`. It assumes:

- `WF(WalkStep)`: `iotrace_trace_inode` is straight-line code on its CPU that does not wait on anything.
- `WF(Drain)`: the trace consumer keeps reading.

No fairness is assumed for file operations or I/O.

## 3. Findings

1. **ctime read twice (code bug, `CachedWasNamed`).** The naming event uses the ctime read at 672-673, but `_map` reads it again at 542-543. A `chmod` on another CPU in between caches a ctime that no event names.
2. **Root spin (divergence, `NoRetry`).** At the root, `dget_parent` returns the root, so the loop never ends by itself. With a full buffer the walk retries the root's emission until the consumer makes room. Spec 4.3 says the walk terminates at the root, and spec 7 says a full sink drops the event without retrying.
3. **Missing ancestors (spec gap, `AncestorNamed`).** Spec 4.3 says a hit means the ancestor chain is already recorded. That fails in two cases:
   - the parent's emission failed after the child was cached;
   - the parent was renamed after the child was named.

   Either way a cached child's parent record is missing, and hits keep it missing.
4. **`get_cpu` leak (code bug, `PreemptBalanced`).** `_trace_file_event` returns on a full buffer without calling `put_cpu()`.
5. **Unreported deletes (divergence, `DeleteReported`).** Only files carrying their own mark produce delete records. A file opened before its directory was watched, then cached by the walk, is deleted without a record. Spec 8 says such a delete is reported.
6. **Allocation failure retried (divergence, `AbsentIsPermanent`).** After `fsnotify_alloc_group` fails, the next tracer's `_fsm_init` tries again. Spec 4.2 and spec 7 say the monitor stays absent.
7. **Root named (not checked by a run).** Spec 8 expects two naming records for O, P and G, where G is the root. The code writes three: the root is named too, with itself as its parent.

## 4. Proofs

`InodeCache_proofs` (EXTENDS `InodeCache`, `TLAPS`) proves the following for every `N`, `Ids` and `Ctimes` that satisfy the module's assumptions:

- `CacheInvariant`: `CacheSpec => []CacheInv`, where `CacheInv == CacheTypeOK /\ UniqueKey /\ FreeSuffix`.
- `CacheTypeCorrect`, `CacheUniqueKey` and `CacheFreeSuffix`: each run-checked property on its own.

The argument:

- `FreeSuffix` alone is not inductive. Its proof for `Map` needs the type invariant, which says `pos` is a permutation, so that the tail exists and is unique (`TailAtEnd`).
- `UniqueKey` for `Map` needs the miss guard: no hashed entry has the inserted identity.
- The lemmas `ToHeadPerm` and `ToTailPerm` show that moving an entry to the head or to the tail keeps `pos` a permutation of `1..N`.
- `CacheNextInv` has one step per action and, under each, one step per conjunct of the invariant.

Proof style:

- Facts are extracted with Zenon.
- The arithmetic on positions is left to SMT, citing `NAssumption` explicitly.

`MonitorLifecycle_proofs` (EXTENDS `MonitorLifecycle`, `FiniteSetTheorems`, `TLAPS`) proves the following for every finite set `Cpus` (`CpusAssumption`) and every `MaxMonitors \in Nat \ {0}`:

- `MonitorInvariant`: `Spec => []Inv`, where `Inv == TypeOK /\ HeldAlive /\ RefInv /\ AliveUnique`.
- `MonitorRefcountThm`: `Spec => []MonitorRefcount`.
- `SingleMonitorThm`: `Spec => []SingleMonitor`.

The argument:

- `MonitorRefcount` alone is not inductive, because `_fsm_init` allocates only when `Held = {}`. The proof needs `HeldAlive` (every monitor a tracer points to is alive) and `RefInv` (a live monitor has a positive count equal to its holders). Together they give `AliveIsHeld`: a live monitor is in `Held`. So `Held = {}` means no monitor is alive, and the allocation keeps `AliveUnique`.
- Destroying a tracer removes one holder (`DestroyHolders`). The count drops by one (`FS_RemoveElement`). The monitor is freed exactly when `refcnt` was 1, which is when `c` was its only holder.
- Sharing a monitor adds one holder (`CreateHolders`, `FS_AddElement`) and one reference.
- A creation that leaves the tracer without a monitor (incompatible kernel, failed lookup, failed allocation) changes no holder set of any monitor, because `NULL` is not in `Monitors`.
- The holder sets are finite because `Cpus` is (`CpuSetFinite`).

`FsEvents_proofs` (EXTENDS `FsEvents`, `TLAPS`) proves `SeenDeleteReportedThm`: `Spec => []SeenDeleteReported`, for any sets of directories, files and CPUs and any buffer size.

- The property alone is not inductive: a delete writes its record only if the file carries the group's mark. The strengthening `SeenMarked` says every file whose FS_CREATE or FS_OPEN reached the group is marked (`seen \subseteq marks`).
- `HandleMarks`: the handler only adds marks, and adds the child's on create and open. `TraceKeepsDeletes`: `_trace_file_event` either commits the delete record or counts it as dropped, and loses none already there.
- `NextIInv` has one step per action. The delete case splits on whether the incarnation was deleted before or is the one deleted now.

`MarkAdd_proofs` (EXTENDS `MarkAdd`, `FiniteSetTheorems`, `TLAPS`) proves `MarkRefsThm` (`Spec => []MarkRefs`) and `NoMarkLeakThm` (`Spec => []NoMarkLeak`) for any finite `Cpus` and `Inodes` and any `MaxMarks` of `MarkAssumption`.

- The inductive invariant `IInv` adds to the two properties:
  - `LocalMark`: a CPU holds a live mark exactly in the steps between taking and putting a reference;
  - `Fresh`: the mark a CPU is about to add is attached nowhere and held by that CPU only;
  - `AttachedOnce` and `AttachedLive`: no mark is on two inodes, and an attached mark is allocated;
  - `Refs`: `MarkRefs` with the inode list's reference written `AttCount(m)` (0 or 1). `AttCountCard` turns it back into the cardinality of `MarkRefs` using `AttachedOnce`.
- `Fresh` is what makes `AddMark` safe: the successful add raises the count from holders-only to holders plus one, and cannot attach a mark twice.
- `Release` and `Evict` free a mark only when its count was 1. By `Refs` that means nothing else holds it (`FS_EmptySet`), which keeps `LocalMark` and `AttachedLive`.
- `DestroyGroup` runs with every CPU idle, so no mark has holders. By `Refs` every live mark is attached with a count of exactly 1, so nothing is added to `leftover`.

`InodeCacheLru_proofs` (EXTENDS `InodeCacheLru`, `InodeCache_proofs`, `SequenceTheorems`) proves `CacheRefinesLru`: `CacheSpec => LruRefinement`, for every `N`, `Ids` and `Ctimes`. The arena, with its LRU list and hash chains, is the LRU cache of spec 4.1.

- **The inductive invariant.** `RInv == CacheInv /\ PrefixInv`. `PrefixInv` says the mapped entries are exactly the first `k` places of the list, for some `k \in 0..N`.
  - It is what `FreeSuffix` means for the mapping.
  - A hit keeps `k`.
  - A stale removal makes it `k - 1`.
  - An insertion makes it `k + 1`, or keeps `N` when the arena is full.
- **The mapping's `CHOOSE`s.**
  - `LenOfPrefix`: a permutation and a set of entries fix `k`, so `LruLen` is that `k` in both states (`LruLenIs`, `LenPrimed`).
  - `AtOfPos` and `AtPrimed`: `At` inverts `pos`, and `pos'` in the next state.
- **The abstract operators, place by place.** `RemoveAtEl`, `ToFrontEl`, `ConsEl` and `ConsFrontEl` describe `RemoveAt`, `<<s[i]>> \o RemoveAt(s, i)`, `<<x>> \o s` and `<<x>> \o Front(s)` elementwise. `RemoveAtEl` is proved from `SubSeqProperties`, `ConcatProperties` and `SeqEqual`.
- **One lemma per step.**
  - `HitStep`: `_set_hot` of the entry at place `i` is `Hit` at `i`. The places before `i` move one back.
  - `StaleStep`: `_remove_entry` is `Invalidate` at `i`. The places behind `i` move one forward, and the prefix shrinks.
  - `MapStep`: `_map` after a miss is `Insert`. Its guard holds because the miss leaves no mapped entry with the identity. The victim `LruTail` (`MapVictim`) is free, or it is the last mapping when the prefix is the whole arena; then `Front` drops that mapping.
  - `StutterRefines`: a step that changes nothing maps to a stutter.

`InodeTracer_proofs` (EXTENDS `InodeTracer`, `InodeCacheLru_proofs`) proves, for every arena size and inode tree satisfying the module's assumptions:

- `WalkInvariant`: `Spec => []TInv`.
- `WalkTypeCorrect`, `WalkUniqueKey` and `WatchCoverageThm`: the run-checked invariants.
- `WalkRefinesCache`: `Spec => CacheSpec`. The walk drives its cache only through `CacheNext` steps.
- `WalkRefinesLru`: `Spec => LruRefinement`, from the previous theorem and `CacheRefinesLru`.
- `CurrentKeptThm`: the action property `CurrentKept`.

The argument:

- `TInv` adds three conjuncts to `TypeOK`, `CacheInv` and `WatchCoverage`:
  - `HashedKeys`: a mapped entry's key is an inode, never the arena's 0.
  - `MissPending`: between the missed lookup and `_map`, the current inode has no mapping.
  - `MarkPending`: with a monitor, the current inode's parent is marked before its name is emitted.
- `MissPending` is what makes `WalkMap` a cache `Map` after a `LookupMiss` (`WalkCacheStep`).
- `MarkPending` is what keeps `WatchCoverage` when `WalkMap` caches the inode.
- `Reuse` only frees leaves, and no cached inode has a leaf as its parent (`LeafIsNoParent`). So a reuse cannot break `WatchCoverage`.
- `CurrentKeptThm`:
  - A hit or a stale removal rewrites no mapping. A stale removal drops only a mapping whose ctime is no longer the inode's.
  - `WalkMap` overwrites `LruTail`. `LruTail` is mapped only when every entry is (`TailMappedFull`, from `FreeSuffix`).

`FsEvents_proofs` also proves `FsTypeCorrect`: `Spec => []TypeOK`. Its strengthening `PresentInc` says a present file's incarnation is in `1..MaxInc`. Only a present file is deleted, so the delete records and `gone` entries it produces, tagged with that incarnation, stay in `Files \X (1..MaxInc)`.

`MarkAdd_proofs` and `MonitorLifecycle_proofs` also prove `MarkTypeCorrect` and `MonitorTypeCorrect`: `Spec => []TypeOK`, as corollaries of their inductive invariants.

Left to TLC, and why:

- **Liveness** (`WalkTerminates`): TLAPS does not prove properties that depend on fairness (`WF`) or on `ENABLED`. The walk run checks it on the bounded instance.
- **The properties the code violates** (`CachedWasNamed`, `AncestorNamed`, `NoRetry`, `DeleteReported`, `PreemptBalanced`, `AbsentIsPermanent`): there is nothing to prove. TLC's counterexamples are the result.
- **Bucket order and arena contents beyond the mapping**: the refinement speaks only of the mapped entries in LRU order, as `LruCache` does.

Every other invariant and property of a passing run has a theorem above.

## 5. Not modelled

- **dentry reference counting** (`dget_parent`/`dput`) and **`d_find_alias` failure**. These only decide whether a walk starts.
- **`sid` numbering.**
- **Event payloads.** Names and their truncation are absent; only identities and ctimes are kept.
- **Torn reads of the two ctime fields.**
- **Same-tick ctime reuse.** The model's clock always advances, so a reused inode number always gets a new ctime.
- **Concurrent tracer creation or destruction.** The callers are outside `src/` and are taken as serialised.
- **Unchecked allocations** (`kzalloc`, `kmem_cache_create`, `kmem_cache_zalloc`). A failure there is a NULL dereference.
- **The kernel-version wrappers.** They forward their arguments unchanged.

## 6. Plan for the next sittings

1. Compose the walk with the lifecycle: the walk's `HasMonitor` becomes "this CPU's tracer has an `fsm` and `inited`". Then check that a monitor destroyed by a sibling's teardown never leaves a walk marking through a freed group.
2. Run several CPUs' walks in `FsEvents` beside the handler, both writing to one CPU's buffer.
3. Compose `MarkAdd` with `FsEvents`, so that the handler's `AddMark` goes through the racing `_fs_add_mark` of `MarkAdd`.
