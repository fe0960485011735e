# Verification of the eBPF extension hook provider

This directory holds TLA+ models of `src/libs/ebpf_ext/ebpf_ext_hook_provider.c` and of the netevent monitor BPF program, the TLC runs that check them, and TLAPS proofs about them. That file is the part of the repository with real concurrency. It lets eBPF programs (NMR *clients*) attach to a hook point (the NMR *provider*), and it lets hook threads invoke those programs while clients attach and detach.

## 1. Inventory

### Components and their state

| Component | Code | State it keeps |
|---|---|---|
| Rundown guard | `_ebpf_ext_attach_init_rundown`, `_ebpf_ext_attach_wait_for_rundown`, `ebpf_extension_hook_client_enter_rundown` / `_leave_rundown` (lines 9-13, 63-104, 149-162) | an `EX_RUNDOWN_REF` for each client: a reference count, a "wait has begun" bit, and `rundown_occurred` |
| Hook client record | `ebpf_extension_hook_client_t` (21-33) | `LIST_ENTRY link`, the NMR binding handle, `client_data` (the attach parameter), the invoke function, `provider_data`, the detach work item, the rundown guard |
| Hook provider record | `ebpf_extension_hook_provider_t` (41-53) | a spin lock (shared/exclusive), and the circular doubly linked list `attached_clients_list` |
| Attach-parameter matcher | `ebpf_extension_hook_check_attach_parameter` (206-267) | reads the list under the shared lock |
| Attach | `_ebpf_extension_hook_provider_attach_client` (296-383) | allocates and initialises a client, runs the hook's attach callback, and inserts at the tail under the exclusive lock |
| Detach | `_ebpf_extension_hook_provider_detach_client` (394-429) and the work item `_ebpf_extension_detach_client_completion` (119-147) | runs the hook's detach callback, unlinks under the exclusive lock, and queues the work item, returning `STATUS_PENDING`. The work item waits for the rundown, frees the work item and calls `NmrProviderDetachClientComplete` (NMR then frees the record) |
| Invocation helpers | `ebpf_extension_hook_get_attached_client`, `_get_next_attached_client`, `ebpf_extension_hook_invoke_program` (194-203, 514-549) | each takes the shared lock to read one link |
| Registration | `ebpf_extension_hook_provider_register` / `_unregister` (439-512) | NMR registration. Unregistration waits for NMR to detach every client, then frees the provider |
| Accessors | lines 164-192 | single-field getters and setters |
| netevent monitor | `src/tools/netevent_monitor/bpf/netevent_monitor.c`, two versions (lines 30-49 and 74-90) | the two ring buffer maps it writes |
| installer script, vcxproj | | not part of the system's behaviour |

### Interactions

- NMR (the Windows module registrar, the "binding mechanism" of the spec) calls the attach and detach callbacks.
- The hook-specific attach callback (outside `src/`) calls `ebpf_extension_hook_check_attach_parameter` and returns its verdict.
- Hook threads (many, concurrent) walk the list. For each client they find, they enter its rundown, invoke the program and leave the rundown.
- The detach work item runs on the system's delayed work queue. Its completion calls back into NMR.

### What is hard here

- Attach, detach, hook threads and work items all interleave. The only serialisation is the provider's spin lock (one lock region per list read or write) and the rundown reference count.
- The matcher and the insertion are **separate** lock regions (lines 222-263 and 362-364).
- Client pointers escape the lock. `get_*_attached_client` return a pointer after releasing the lock, and `enter_rundown` uses it afterwards.
- `RemoveEntryList` leaves the removed entry's own links in place. A walk that holds a removed client therefore follows stale links.
- Detach is asynchronous. Completion depends on the work queue running the work item, and on every in-flight invocation releasing its reference.

### Properties that make each component correct

- **List:** walking the list from the head gives exactly the attached clients, in insertion order, and the back links agree (spec §8, first property).
- **Matcher:** a wild card holder is alone in the list, and exact parameters are pairwise distinct (spec §4.2, §8).
- **Rundown:** once the detach completed, no program of that client runs. The count never goes negative (spec §4.1, §8).
- **Invocation:** no hook thread touches a freed client record. A walk never goes backwards.
- **Detach:** completion is eventually reported to NMR (spec §6).

## 2. Modules

| Module | Models |
|---|---|
| `HookProvider.tla` | One registered provider, its linked list as `flink`/`blink` functions over the client records and the head, the binding state of each client, the rundown counts, and the hook threads (`ipc`, `icur`). History variables: insertion ranks `stamp`/`nextStamp`, and `uaf` (a freed record was read). |
| `AbstractHookProvider.tla` | What the provider promises, without links, locks or counters. The attached clients are a sequence. An attach is decided against the clients attached when its own check runs, and is then appended. Decisions of different clients may overlap, as they do in the code. A detach removes the client and keeps the others' order. A program may start while its client is attached or unlinked but not draining. Completion waits until no invocation of the client runs. |
| `HookProviderRefinement.tla` | The refinement mapping from `HookProvider` to `AbstractHookProvider`: `ListSeq` (the walk from the head, as a sequence), `cstate` as the phase, and `Running` (the client a thread holds a reference on). |
| `ProviderLifecycle.tla` | Composes `HookProvider` with `ebpf_extension_hook_provider_register` / `_unregister` and with what NMR does between them. It adds `pstate` (unregistered, registered, deregistering, freed). |
| `HookProviderAttachHistory.tla` | `HookProvider` with one history variable, `checkStamp`: the insertion counter at the moment each client's attach callback ran the matcher. It is written only by the callback and read by no guard. |
| `NetEventMonitor.tla` | The two versions of the netevent monitor BPF program, its ring buffers (`ring`, `used`), and the user-mode reader. |
| `MC_HookProvider.tla`, `MC_AttachHistory.tla`, `MC_ProviderLifecycle.tla`, `MC_NetEventMonitor.tla` | Model values and the configurations used by the runs. |
| `HookProviderProofs.tla`, `HookProviderListProofs.tla`, `HookProviderWalkProofs.tla`, `HookProviderAttachProofs.tla`, `HookProviderRefinementProofs.tla` | The inductive invariants and the TLAPS proofs. |

### How the state and actions correspond to the code

| Action | Code |
|---|---|
| `AttachCallback(c)` | attach_client up to and including the hook's callback (lines 296-360). The allocation, the dispatch-table check, the work item allocation, a hook veto, or the matcher returning `EBPF_ACCESS_DENIED` can each reject the attach. Otherwise the client is accepted and waits for insertion. |
| `AttachInsert(c)` | `InsertTailList` under the exclusive lock (lines 361-383) |
| `DetachClient(c)` | detach_client: `RemoveEntryList` under the exclusive lock, then `IoQueueWorkItem` (lines 394-429) |
| `DetachWorkItemStart(c)` | the work item enters `ExWaitForRundownProtectionRelease`. From then on new acquisitions fail |
| `DetachClientComplete(c)` | the wait returns at count 0: `rundown_occurred`, `IoFreeWorkItem`, `NmrProviderDetachClientComplete`. The record is freed |
| `GetNextAttachedClient(i)` | `get_next_attached_client(provider, NULL or current)`: one read of the head's or the held client's `Flink` under the shared lock |
| `EnterRundown(i)` / `LeaveRundown(i)` | `ExAcquireRundownProtection` / the program's return plus `ExReleaseRundownProtection` |
| `RegisterProvider` | register (lines 459-512). It succeeds, or an allocation or `NmrRegisterProvider` failure frees the context through unregister with a NULL handle |
| `UnregisterProvider` / `UnregisterComplete` | unregister: `NmrDeregisterProvider` returns `STATUS_PENDING`; `NmrWaitForProviderDeregisterComplete` returns when no binding is left; `ExFreePool` (lines 439-457) |
| `NmrDetachOnDeregister(c)` | NMR calling the detach callback of each binding during deregistration |
| `NetEventMonitorEntry(e)` / `NetEventMonitorOutput(e)` | version 1: `result = -1`, the guard of line 36, the 10-byte test output of line 40 / the payload output of line 45 and the return. These are two steps, because each `bpf_ringbuf_output` is atomic but another CPU may output in between |
| `NetEventMonitorV2(e)` | version 2 (lines 74-90): the guard and the payload output |
| `Consume(m)` | the user-mode reader takes the oldest record |

The hook thread's loop is not under `src/`, so it follows spec §4.5. It gets the first client, enters, invokes, leaves, and asks for the next one after the client it holds. A single-subscriber hook's `get_attached_client` is the same read as `get_next_attached_client(NULL)`.

After a record is freed, the model keeps its memory unchanged. A stale `Flink` still points where it did, and its rundown still reads "wait active", so acquiring it fails. This is the most benign outcome of the use after free. The `use_after_free` run shows that the access happens. Reuse of the freed memory would make any outcome possible.

`SerializedAttach` says whether NMR runs one attach at a time. The code does not serialise attaches itself. It is TRUE only in `list` and `lifecycle`, whose questions are not about overlapping attaches. `concurrent_attach`, `attach_history` and `refinement` set it to FALSE.

In `ProviderLifecycle`:
- NMR binds clients only while the provider is registered.
- The hook calls unregister only once its own event source has stopped. So no hook thread is in a pass then, and none starts one afterwards.
- Only the `STATUS_PENDING` path of `NmrDeregisterProvider` is taken. The other path (line 451) is the NULL-handle case, in which NMR holds no binding.

In `NetEventMonitor`:
- Pointers are byte offsets into the event's buffer, and 0 is NULL.
- The driver's buffer for an event runs from `data_start` to the later of `data_end` and `data_meta`.
- `bpf_ringbuf_output` and the reader are modelled from their documented behaviour: a record is written if it fits, and otherwise the call fails.

## 3. Runs

| Run | Config | Checks | Bounds |
|---|---|---|---|
| `list` (pass) | `MC_List.cfg` | `ListIsAttachedInOrder`, `AttachExclusive` | 4 bindings: p1, p2, p1, and no data (counts as the wild card). No hook thread. Attaches serialised. |
| `invoke` (pass) | `MC_Invoke.cfg` | `TypeOK`, `NoInvokeAfterDetachComplete`, `WalkFollowsAttachOrder` (action property), `DetachEventuallyCompletes` (liveness) | 3 bindings (p1, p2, wild card) and 2 hook threads |
| `refinement` (pass) | `MC_Refinement.cfg` | `ImplementsAbstract`: `Abs!ASpec` under the mapping, fairness included | like `invoke`, attaches not serialised |
| `attach_history` (pass) | `MC_AttachHistory.cfg` | `ConflictsOnlyFromOverlap` | like `list`, attaches not serialised |
| `lifecycle` (pass) | `MC_Lifecycle.cfg` | `UnregisterCompletes` (liveness) | 3 bindings, 2 hook threads, one registration |
| `concurrent_attach` (violation) | `MC_ConcurrentAttach.cfg` | `AttachExclusive` | like `list`, with attaches not serialised |
| `use_after_free` (violation) | `MC_UseAfterFree.cfg` | `NoUseAfterFree` | like `invoke` |
| `start_after_unlink` (violation) | `MC_StartAfterUnlink.cfg` | `InvocationStartsOnlyWhileListed` (action property) | like `invoke` |
| `test_over_read` (violation) | `MC_TestOverRead.cfg` | `ReadsWithinEvent` | version 1; 4 event sources: a 5-byte payload, a 5-byte payload with 3 bytes of metadata, a NULL start, and a 7-byte payload. Buffers of 16 bytes. |

Why these bounds are enough:
- With four bindings, every matcher conflict occurs (exact vs exact, exact vs wild card, wild card vs non-empty list), and two clients can be listed together (p1 and p2). So insert-at-tail and unlink both act on lists of two entries.
- Two hook threads are enough to have two references on one client at once, and a thread at every point of its walk while another thread enters.
- Three bindings let one client be unlinked between two others, so a thread follows a stale link.
- Four bindings together with two threads is over 12 million states, so the questions are split between the two runs.
- `attach_history` has the four bindings of `list` with attaches overlapping, so the conflicts `concurrent_attach` reaches (p1 beside p1, the wild card beside an exact parameter) all occur in it, and the property is checked on each of them.
- In `test_over_read`, 3 bytes of metadata are fewer than the 10 bytes line 40 copies.

The monitor has no passing run. Each record it writes is copied with exactly the arguments of lines 40 and 45, whatever other CPUs do, so a property about the records would only restate those arguments. A full buffer drops the event, which neither the code nor the spec forbids. Its one real question is the over-read.

`list` and `concurrent_attach` turn off deadlock checking. With no hook thread, the system does stop once every binding has attached-and-detached or been rejected. `lifecycle` turns it off too, because the provider really stops once it has been freed.

**Fairness** (`Fairness` in `HookProvider`):
- Weak fairness for the work item's two steps. The system delayed work queue runs every queued item.
- Weak fairness for `LeaveRundown`. An invoked program returns.
- No fairness for NMR's attaches and detaches, or for hook events. Nothing obliges them to happen.

`LFairness` in `ProviderLifecycle` keeps these. It adds weak fairness for three further steps, each of which NMR is obliged to take by its documented contract:
- the insertion of an attach NMR has started, because deregistration waits for attaches in progress;
- NMR's detach of every binding once deregistration has begun;
- the return of the wait.

The abstract specification's fairness (`BeginDrain`, `Complete`, `EndInvoke`) is implied by the code's, and the `refinement` run checks this.

Every property of a passing run has a mutant, listed in `PROJECT.json`. The mutant is a plausible bug in the mapped code, and TLC finds it violated:
- a release without an acquire;
- a completion that does not wait for the count;
- a walk along `Blink`;
- a missing release;
- `InsertHeadList`;
- a matcher that ignores a listed wild card holder (for `AttachExclusive` and for `ConflictsOnlyFromOverlap`).

### Findings

1. **Check-then-insert is not atomic** (`concurrent_attach`). If NMR attaches two bindings concurrently, both pass `check_attach_parameter` before either is inserted. Two clients with the same exact parameter end up attached. Spec §5 requires the check and the mutation to be one atomic region. Run `attach_history` and the theorem `ConflictsOnlyFromOverlapHolds` show that this window is the only way to a conflict: the later of two conflicting clients always ran its check before the earlier one was inserted.
2. **Use after free on the invocation path** (`use_after_free`). `get_next_attached_client` returns a client pointer after dropping the lock. Between that and `enter_rundown`, the client can be detached. Its rundown wait returns immediately (count 0), and NMR frees the record. The hook thread then calls `ExAcquireRundownProtection` on freed memory. In the same way, `get_next_attached_client(provider, client)` reads `client->link.Flink` of a record that may be freed.
3. **Invocations start after the unlink** (`start_after_unlink`). Detach unlinks the client (line 418) and only queues the work item. The work item later begins the rundown wait (line 100), and until then `enter_rundown` still succeeds. A thread that fetched the client before the unlink therefore starts a new invocation after it. Spec §3 says no new invocation begins once the client is unlinked. The code keeps the weaker promise that the abstract specification states: no invocation begins once draining has started.
4. **Over-read in the test output** (`test_over_read`). Version 1 copies a fixed 10 bytes from `data_end` whenever `data_meta > data_end`, without checking that 10 bytes of metadata exist. In the run, a payload followed by 3 bytes of metadata makes `bpf_ringbuf_output` read 7 bytes past the event's buffer. Version 2 has no such output.

## 4. Proofs

Assumptions: `ConstantsAssumption` for the hook provider. Clients and hook threads are finite sets, the head and NULL are distinct from every client, and the client data are parameters.

**`HookProviderProofs.tla`.** The inductive invariant `IInv` is `TypeOK` plus:
- `RefCountExact`: `ref[c]` equals the number of hook threads inside `c`'s program. This is what keeps `LeaveRundown`'s decrement natural, so `TypeOK` alone is not inductive.
- `HeldInserted`: a pointer a thread holds is to a record that was inserted.
- `LinksInserted`: the links of the head and of inserted records lead only to the head or to inserted records. This is what keeps `HeldInserted` through walks over stale links.
- `FreedDrained`: a completed record has count 0.

The proof has one step per action, and each step has one sub-step per conjunct that the action can disturb. The counting facts come from `FS_AddElement` and `FS_RemoveElement` on the holder sets.

- `TypeCorrect`: `Spec => []TypeOK`.
- `DetachCompleteQuiescent`: `Spec => []NoInvokeAfterDetachComplete`. A thread inside a program is a holder, so the count is non-zero, so the record is not freed.

**`HookProviderListProofs.tla`.** These proofs are about the client list and do not walk it. The inductive invariant `WInv` is `IInv` plus three facts:
- `ListShape`: the Flink and Blink of the head and of every attached client lead to the head or to an attached client, and each is the inverse of the other.
- `StampsForward`: along every Flink of an inserted record, the insertion stamp grows. This covers the stale Flink of a record that `RemoveEntryList` has unlinked.
- `StampsIssued`: every stamp issued so far is below `nextStamp`.

Why `StampsForward` needs the other two:
- `InsertTailList` links the old tail to the new record. `ListShape` says the old tail is `Blink[Head]` and is on the list. `StampsIssued` says the new record's stamp is the largest.
- `RemoveEntryList` makes the predecessor's Flink skip the removed record. The stamps `p < c < n` give `p < n`.
- The removed record's own links are left unchanged, so its stale Flink keeps its order.

The lemmas `InsertWInv`, `RemoveWInv` and `FrameWInv` cover the actions, and `NextWInv` puts them together.
- `WalkForward`: `Spec => WalkFollowsAttachOrder`. A thread moves from `next` to `got` only in `GetNextAttachedClient`, which follows the Flink of a record it holds. `HeldInserted` says that record was inserted, and `StampsForward` orders it.
- `ListWellLinked`: `Spec => []ListShape`.

**`HookProviderWalkProofs.tla`.** These proofs are about what the walk sees. The inductive invariant `RInv` is `WInv` plus three facts:
- `SortedRing`: the Flink of the head and of every attached client is the attached client with the next larger stamp. If there is none, it is the head.
- `StampsDistinct`: no two attached clients share a stamp.
- `StampsPositive`: every attached client has a stamp above 0. The head counts as stamp 0 (`StampOf`).

`SortedRing` is needed because `ListShape` is local: it says each link is well formed, but not that the Flinks form one ring through all attached clients. The ring is kept for these reasons:
- `InsertTailList` puts the new, largest stamp after the old tail.
- `RemoveEntryList` links the predecessor to the removed client's successor. That successor is the next larger stamp after the predecessor, because no stamp lies between them.

What the walk computes is then proved by induction over the number of steps:
- `WalkDef` unfolds the recursive function `Walk` with `NatInductiveDef`.
- `NatLeast` gives a least counterexample through `WFMin` and `NatLessThanWellFounded`.
- `WalkRank`: the k-th node of the walk has exactly k attached clients at or below its stamp.
- `RankInjective`: two attached clients with the same rank are the same client.

Together these give the walk exactly.
- `ListInOrder`: `Spec => []ListIsAttachedInOrder`.

**`HookProviderAttachProofs.tla`.** This module proves, with no assumption on how NMR orders attaches, what exclusivity the code does keep. The inductive invariant `HInv` is `RInv` plus two facts about the history:
- `CheckStampsIssued`: no check is stamped after the inserts made so far.
- `SawEarlier`: a client whose check passed clears every attached client inserted before the check ran. The check walked exactly those clients, by `RInvInOrder`. Later inserts have stamps at least the check's stamp, so they never count, and unlinks only shrink the set.
- `ConflictsOnlyFromOverlapHolds`: `HSpec => []ConflictsOnlyFromOverlap`.

**`HookProviderRefinementProofs.tla`.** This module proves the refinement's safety part.
- `RefinementSafety`: `Spec => Abs!AInit /\ [][Abs!ANext]_Abs!avars`, with attaches unserialised. This is `ImplementsAbstract` without its fairness conjuncts, under the mapping of `HookProviderRefinement`.

`RankFacts` restates the rank facts as a formula without hypotheses, and `RankFactsNext` primes it through PTL. That is how the facts are used of the state after a step.
- `InsertAppends`: after `InsertTailList` the mapped list is `Append(ListSeq, c)`. The new client ranks last, and every other client keeps its rank.
- `RemoveRemovesAt`: after `RemoveEntryList` the mapped list is `RemoveAt(ListSeq, p)`, where p is c's rank. The clients inserted after c move down one rank.
- `NextRefines` has one step per action:
  - the attach callback is `Decide`, because the matcher's `Listed` is the abstract list's members;
  - a completion finds no program running, from `RefCountExact` at count 0;
  - a successful `EnterRundown` is `StartInvoke` of an attached or unlinked client, from `HeldInserted`;
  - walk steps and failed acquisitions are stutters.

The abstract `Unlink` states the removal with `RemoveAt` at the client's position rather than with `SelectSeq`. The provers cannot unfold the builtin `SelectSeq`. On the abstract list, which never holds a client twice, the two are the same. The run `refinement` checks the whole of `ImplementsAbstract` with this form.

What stays with TLC:
- The liveness properties `DetachEventuallyCompletes` and `UnregisterCompletes`, because of fairness and ENABLED.
- The fairness part of `ImplementsAbstract`, for the same reason: `WF` of the abstract `BeginDrain`, `Complete` and `EndInvoke` follows from the code's fairness only through ENABLED.
- `AttachExclusive` itself, which the code keeps only if NMR serialises attaches. It is checked in `list` under that hypothesis, and found violated without it in `concurrent_attach`. What is proved for every ordering is `ConflictsOnlyFromOverlap`.

## 5. Plan

1. **Done (sitting 1):**
   - `HookProvider` with attach, detach, the work item, the rundown and the hook threads;
   - the four runs;
   - proofs of the type invariant and of quiescence at completion.
2. **Done (sitting 2):**
   - `ProviderLifecycle` and its proof;
   - the abstract specification and the refinement run;
   - the start-after-unlink finding;
   - `NetEventMonitor` and its over-read finding.
   - the proofs about the client list (`WalkForward`, `ListWellLinked`).
3. **Done (proof sittings):** the walk (`ListInOrder`) and the safety part of the refinement (`RefinementSafety`).
4. **Done (review):**
   - exclusivity restated for overlapping attaches (`ConflictsOnlyFromOverlap`, its history module and its proof);
   - the abstract provider's one-decision-at-a-time guard dropped, and the refinement proved without `SerializedAttach`;
   - properties that only restated a guard or the arguments of a call removed: the provider-lifecycle invariant, and the monitor's passing properties with their proofs.
5. **Single-subscriber path:** `get_attached_client` as its own action in a hook variant that only invokes the first client.
6. **Unregister with invocations in flight:** relax `UnregisterProvider`'s guard, to ask what happens if a hook calls unregister before its event source has stopped.

## 6. Not modelled

- The accessors (no protocol).
- The installer script and the build files.
- The bytes of attach parameters. They are model values; the matcher compares them byte for byte, so equality is the whole abstraction.
- The contents of `provider_data`, `custom_data` and of the event bytes.
- Logging, and the commented-out `bpf_printk` of the monitor.
