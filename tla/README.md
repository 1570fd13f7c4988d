# Verification of calybris-core

TLA+ models of calybris-core, the TLC configurations that check them on small instances, and
TLAPS proofs of their main properties. `PROJECT.json` maps every definition to the source lines it
models, and lists the components, runs, theorems, hazards and findings.

## The system

calybris-core decides which candidate serves a request, spends a budget on it, and leaves evidence
that somebody else can check.

| Part | State | Operations | What makes it hard |
|---|---|---|---|
| Budget engine (`budget.rs`) | atomic balances and reserved totals, maps of grants, spend, caps and reservations, an id allocator | ensure, top up, reserve, commit, release, set cap, snapshot, restore | many threads, unchecked arithmetic, several locks |
| Owned reservations (`budget.rs`) | values that name a hold | commit, release, drop, `id`, `into_id` | which failure returns the value, who has the id |
| Certificates (`finance.rs`) | the certified baseline | certify, read | freeze and rotation are two steps |
| Log (`wal.rs`, `async_wal.rs`) | a file, a writer's head and poison flag | open, append, sync, validate, replay | errors, crashes, dropped futures, several readers |
| Checkpoints (`persistence.rs`) | snapshot, anchor and manifest files | checkpoint, load, recover | a crash between any two of them |
| Witness and auditor (`witness.rs`, `audit.rs`) | the last head cosigned, the last checkpoint accepted | add checkpoint, advance, weigh evidence of time | racing processes, a log that forks, clocks that lie |
| Agent budget (`agent.py`) | attempts of a run | call, reconcile, release, correct, close | calls that fail half way, overruns |
| Kernel (`kernel.rs`) and what builds on it | none: pure functions | prescribe, explain, counterfactuals, exploration, estimates, adapters | widths, ties, boundaries |
| Trust layer (`merkle.rs`, `checkpoint.rs`, `ots.rs`, `tsa.rs`, `hybrid.rs`, `receipt.rs`, `state.rs` ...) | files and artifacts | sign, cosign, stamp, verify | what a verifier does not look at |
| C interface (`calybris-ffi`) | the C program's variables | build, decide, verify, digest, free | errors that leave an old answer behind |

The agent budget and the owned reservations use the engine. Certificates and checkpoints read its
snapshots. A checkpoint binds a snapshot to the head of the log. The log's entries are the leaves of
the Merkle tree whose head is signed, witnessed and timestamped.

## Modules

Budget and persistence:

- `BudgetEngine`: each operation as the sequence of its atomic accesses, with `pc[t]` naming the
  next one of thread `t`. Operations that take the checkpoint gate exclusively are one step.
  `BudgetLedger` is the abstract specification, a ledger with atomic operations. The end of
  `BudgetEngine` maps its state to it by counting what threads have in hand as already done or not
  yet done, and `MCBudgetEngine` makes the instance.
  `Sums` adds up finite functions without RECURSIVE operators.
- `CasLoop` and `AtomicCounter`: the three compare-and-swap loops, with spurious failures,
  implement one conditional update. This justifies that `BudgetEngine` takes a loop as one step.
- `EngineLocks`: which locks each operation takes and drops, in order.
- `OwnedReservation`: the `Reservation` value, over `BudgetLedger`. Ids that `id` or `into_id` gave
  out may be settled through the engine at any time, while the value is alive too.
- `LedgerCertificates`: `certify_ledger` and `committed_since_last_certificate`, two steps each. The
  baseline `last_certified_committed_total` is here and not in `BudgetEngine`.
- `Wal`: the file as terminated lines and an unterminated tail; an entry is written in two pieces.
  A behaviour has synchronous or async writers, with or without sync on append. The async writer
  writes through a tokio `File`, so an awaited piece is in flight (`flight`) until it lands or fails.
  The next write or flush returns the error; `sync_data` waits and does not. A dropped future or
  writer leaves its piece in flight, and a body may land when its writer is gone (`stray`).
- `CoordinatedCheckpoint`: ledger, log and directory, with the visible and the durable version of
  each file, and the application's admission boundary and replay. A behaviour uses coordinated
  checkpoints or the plain ones of `checkpoint_with_wal` and `recovery_plan`.
- `AgentBudget`: one action per method body under the lock, over the ledger of its run. The
  registry of attempts is a sequence.

Decisions:

- `KernelPolicy`: policies, gates, prices and the answers that are functions of a policy and a
  request. `DecisionKernel`: the walk over the catalog, one candidate per step.
- `Counterfactual`: both searches, one run of the kernel per step.
- `Learning`: the draw of an exploration, the outcome that is recorded and what an estimate makes of
  it.
- `Adapters`: supplier routing, fixed quotes and the comparison of two policies, through the
  bindings.

Evidence:

- `Digests`: a digest is its preimage, a sequence of fields. A field that an encoding leaves out is
  one a verifier cannot see. A signature names its key and its message.
- `Merkle`, `HybridBatches`: roots, proofs, the cached tree, batches of signatures.
- `Notes`: checkpoints, notes and keys as lines of text, read by `checkpoint.rs` and by
  `scripts/verify_bundle.py`. A stored note may have lines changed, and what a witness signed may be
  made into a note under the log's key.
- `TrustFiles`: commands that share a note or a pair of key files, with crashes between calls.
  `create` may run again on a log that has not grown.
- `Timestamps`: the OpenTimestamps tree as stamp and upgrade grow it; RFC 3161 responses that are
  issued, changed and verified.
- `Evidence`: one checkpoint, when it was signed, who says so, and what a revocation makes of it.
- `Witness`: processes of each witness on one state file, witnesses that cosign anything, auditors.
- `Receipts`: bundles, envelopes, receipts, signed policies and certificates, changed after signing.
- `AuditedLog`: the log of decisions, changed at rest and perhaps reopened, and every reader of it.
- `Trajectories`: copies of a state chain and the verifiers of their bundles.
- `CAbi`: the C interface as a C program sees it. `digested` and `verified` remember what the last
  call that wrote to the buffer or to `valid` was about.

`MC*` modules give constants their values. `MCEngineConcurrency`, `MCAnalysis` and `MCTrust` put
independent parts into one run; the variable `part` chooses one in each behaviour. Definitions whose
comment begins "Mutant of" are mutated forms, used only to show that a property can fail.

## Runs

| Run | Instance | Shows |
|---|---|---|
| `engine` | 2 threads, 1 tenant, amounts up to 3 = `i64::MAX`, 3 ids | money is conserved and counted at every step, arithmetic stays in `i64`, snapshots are consistent, caps hold, and every step is one of `BudgetLedger` |
| `engine_concurrency` | 2 threads with 2 operations each, gate with and without writer preference; 2 loops on a counter 0..3; certificates of 2 tenants by 2 callers, with sums past the maximum | every call returns; the loops are atomic; no spend is certified twice |
| `owned_reservations` | 2 tenants, 3 reservations | a live value whose id nobody has names an open hold |
| `wal` | 2 processes, 2 payloads, 4 entries | writers know the head, synced entries stay, damage is refused and never misread |
| `wal_lost_newline_doc` | 1 process, 3 entries | a finding, see below |
| `wal_async_sync_doc` | 1 process, 3 entries | a finding, see below |
| `coordinated_checkpoint` | 2 mutations, 4 allocator positions | a recovered ledger is the effect of its log, a returned checkpoint is never lost |
| `witness` | 1 honest witness with 2 processes, 1 that signs anything, 2 auditors, a forked log | a restart forgets no cosignature; no split view |
| `agent_budget` | 2 calls, 3 attempts, 4 names, budgets 3 and 4 | the report matches the ledger; what no step may do |
| `kernel` | a `u64` of 4 bits, a `u16` of 2, catalogs up to one past the longest | fast paths are exact, one pass finds the best two, all tellings agree |
| `analysis` | three-model catalogs, every word of a 5-bit draw, two suppliers | searches find the boundaries, propensities and estimates are exact, adapters report what was decided |
| `trust` | trees of 6 leaves; notes with 4 signatures or changes; 3 cosigners; 3 witnesses, 1 dishonest; 4 certificates; 3 changes of an artifact; 2 log entries; 3 bundles; 2 handles | each verifier accepts only what really happened, files stay whole, out-parameters tell the truth |

Bounds. Two threads are enough for one to act between any two steps of another. A maximum of 3 lets
sums overflow, be exact and be short. Three ids allow two open reservations and an exhausted
allocator. Six leaves give trees that are not balanced on both sides. Small widths reach the limits
that the real ones have. Leaves, keys, nonces and a caller's states differ in nothing but their
name, so the first that is used is any one of them; the honest witnesses are a symmetry set. A log
of decisions is changed at rest once. Where a theorem exists, the bounds of the run do not limit the
result.

Fairness. Only `EngineLocks` states it: weak fairness of each thread's next step inside a call. A
scheduler that runs every runnable thread gives this. Calls are bounded per thread, because without
a bound readers could keep a writer out of a gate that has no preference.

## What disagrees with the documentation

`wal_lost_newline_doc` is a finding. After a crash that kept an entry's closing brace and lost its
newline, the log opens, the next entry lands on the same line, is acknowledged and synced, and
neither can be read.

`wal_async_sync_doc` is a finding. An async writer with sync on append calls `sync_data` behind its
last write, without a flush. When that write fails in flight, `sync_data` keeps the error for the
next call: the append is acknowledged as synced, and the end of its entry is not in the file.

The other disagreements met while modelling have no run of their own:

- A dropped append future leaves half a line, and the writer is not poisoned. `AcknowledgedOrRefused`
  shows that the log is then refused.
- `Reservation::commit` gives the value back for an overrun and for no other failure. One that is
  refused as an overflow or for its amount consumes the value and leaves the hold open, where
  `budget.rs:1240` says "It is never silently lost".
- `docs/AGENT_BUDGET.md:107-109` says that neither `release` nor `reconcile` moves an unsettled
  overrun. `reconcile` with the same cost settles it when the budget can pay by then.
- A reader of the certified total, or a restore outside exclusive recovery, can see the baseline
  ahead of the total.
- An overrun the budget cannot pay closes an agent's run with its hold open.
- On catalogs longer than `try_new_trusted` admits, the `u16` counts of a decision wrap.
- `evaluate` uses propensities rounded to basis points, where `ope.rs:178` speaks of exact ones.
- The commerce adapter rounds percentages half up, so a value just below a limit that is "always
  rejected" may pass. Its top rejection is the first of the largest, the kernel's the last.
- `checkpoint create` writes its note without `<note>.lock`, so an append that has read the older
  checkpoint may put it back. The comment of `append_cosignature` says that "A note that now holds
  another checkpoint is left as it is". Run again on a log that has not grown, `create` writes the
  same text with the log's line alone, where `trust.rs:453` says "Nobody's cosignature is lost to a
  later writer". `FilesAreWhole` speaks of the cosignatures made since the last `create`.
- A cosignature made with the log's own seed is, without its time, a signature of the log's key on
  the cosignature's message, and `SignedNote::verify` accepts that note. It does not parse as a
  checkpoint: its second line is no size. `NotesAreGenuine` states both.
- The OpenTimestamps writer does not apply the reader's limits on depth and size.
- `verify_bundle.py` checks no sequence numbers of the log, takes keys of any length, fails on blank
  lines that the Rust reader skips and on line separators as U+2028 in metadata, which `serde_json`
  writes as they are and `splitlines` cuts at, and accepts notes with repeated signatures.
- A digest call of the C interface that fails leaves the digest of an earlier call in the buffer.
- `verify_token` tries only the first pinned certificate that fits the signer id.

## Proofs

The theorems hold for every value of the constants that the named assumptions allow. TLC evaluates
these assumptions in the runs.

**Budget engine** (`BudgetEngineSteps`, `BudgetEngineProofs`, with `SumsProofs`). Any number of
threads, any tenants, any amounts.

- `NoMoneyCreatedOrLost` is not inductive alone. A refund stays in range only because the books
  balance. The books balance only if ids are unique, locks have one owner and the locals of each
  thread agree with its `pc`. `IInv` joins these with the cap that a thread has seen, the saved
  snapshot and the allocator fence.
- Types are first proved without the range of the unchecked counters (`WeakTypeOK`), then the books,
  then the range.
- `BudgetEngineSteps` follows one tenant's money through each step of a thread, and shows that the
  step leaves the abstract ledger as it is or is one of its operations.
- The debit of a reservation is the hard case. The ledger tests the cap against its own holds at that
  moment, while the engine has tested its reserved total earlier. The step assumes that the holds are
  counted in the reserved total (`DebitsCounted`). `BudgetEngineProofs` shows this from the sums, and
  `EngineImplementsLedger` follows.

**Log** (`WalProofs`). Any writers, payloads and hash function.

- The first part holds as long as no append was dropped half way and no newline was lost. Its
  invariant says what the tail may be in each stage of a write and of a piece in flight, and that no
  body is left in flight by a writer that is gone. What a sync covers counts as durable only when no
  write before it failed.
- The second part has no such condition. Whatever was dropped or lost, a log that validates while a
  writer has it open holds what that writer acknowledged. Its invariant says where a writer stands in
  a file whose lines are numbered by their place, and nothing of any other file.

**Checkpoints** (`CheckpointProofs`). Any mutations and lengths. `CkptIInv` says what the file that
recovery starts from may hold, in the directory and on the disk: a prefix of the log, never a version
older than one that was returned. A plain snapshot may be ahead of the log only after a power loss.

**Agent budget** (`AgentProofs`). Any calls, amounts and capacities. The invariant relates every
attempt to its hold, its settled amount and the call that executes it. The module also holds the
theorem about owned reservations, over an instance of `OwnedReservation`, so its assumptions are
hypotheses of that theorem. Its property is `ValueNamesOpenHold`; the invariant adds
that the ids of values, and those given out, have been allocated.

**Kernel** (`DecisionKernelProofs`). Every catalog, policy, request and width.

- `IInv` says that the maxima of a policy bound its catalog, and that the two registers hold the best
  two of what the walk has seen.
- `Prices` needs only the maxima. `Selection` adds that the utility of a valid request never exceeds
  its value, so that a positive one is not clamped.
- `Tellings` adds that each counter is the number of candidates seen with its verdict (`TellInv`),
  which for a trusted catalog stays below the limit of a `u16`.

**Other components** (`ComponentProofs`).

- Witnesses: `NoSplitView` assumes that any two quorums share an honest witness and that consistency
  is a prefix order, which stands for a hash without collisions.
- Compare-and-swap loops: every step is an atomic update or a stutter.
- Certificates: no spend is reported twice when restores are exclusive.

Only model-checked:

- `EveryCallReturns`, which is liveness, and `SuggestionIsPossible`, which speaks of ENABLED.
- The properties of the `analysis` and `trust` runs. The searches, trees, notes and chains are
  recursive functions over data, for which the provers have no induction.

## Not modelled

- Cryptography, DER, X.509, floating-point sums, byte limits of single lines.
- The migration of legacy snapshots; `Auditor::compare` and `verify_record`; the witness's
  `MemoryStore` and its request format.
- Builders, typed wrappers, settings, tracing, and the rest of the bindings: they check arguments
  and make one call to something that is modelled.
- Argument parsing, network I/O and reports of the command line; scripts for releases.

A crash in the middle of a plain file write by the command line is not modelled either: `upgrade`
rewrites the `.ots` file in place and would lose it.
