# SLO Fabric: TLA+ models, model checks and proofs

SLO Fabric is a C++ library that keeps service-level objectives in contracts,
takes in evidence, evaluates compliance, and issues *generation-bound*
enforcement intents that must be authorised before anything acts on them. This
directory models the parts of it that carry control and concurrency in TLA+,
checks them with TLC on small instances and proves the central properties with
TLAPS for every value of the constants. `PROJECT.json` lists components, runs,
mutants, the map from definitions to source lines, findings, hazards and
theorems.

## 1. Inventory

Paths are relative to the repository.

| component | state | operations | interacts with |
|---|---|---|---|
| policy and contract registry (`fabric.cpp:457-531`) | `policies`, `contracts` | `set_policy`, `add_contract`, `supersede_contract`, `activate_/suspend_/expire_/retire_contract` | read by evaluation, authorisation, ingestion, save |
| evidence accumulators (`fabric.cpp:49-209`, `555-665`) | per objective: definition and generation, window, availability, cost and recovery accounts, budget, last state, cooldown, recently seen ids; a global ring of ids | `ingest`, `record_recovery_event`, `ingest_violation_event`, `set_objective_budget` | reset by any access at another objective generation |
| evaluation windows (`sample_window.hpp`) | deque of samples, last time and sequence, current bucket | `ingest`, `reset`, `quantile` | one per accumulator |
| error budgets (`budget.hpp`) | total, consumed, window start | `consume`, `consume_count`, `reset_window`, `state`, `classify_burn` | one per accumulator, rolled by evaluation, restored by load |
| evaluation (`fabric.cpp:213-429`, `682-913`) | `evaluation_counter`, history, index by id; last state per objective | `evaluate` | reads registry and accumulators, returns an intent the caller keeps |
| enforcement (`enforcement.hpp`, `fabric.cpp:918-1003`) | `enforcement_counter`, bounded history of receipts, cooldown | `authorize`, `transition`, `complete_enforcement`, `dispatch` | checks an intent against registry and epoch |
| durable state (`fabric.cpp:1008-1070`, `persistence.cpp:343-401`) | a file and temporaries beside it, a counter of their names; the coordinator epoch | `save`, `load`; `save_state`, `save_bytes_atomic`, `load_state` | I/O outside the lock, by several threads |
| persistence encoding (`persistence.cpp:37-341`, `binary.hpp`) | none | an encoder and a decoder per record type | between durable state and its file |
| adapters (`adapter.hpp`) | the reference sink's records, sequence number, fence and failure switch; the fabric's dispatch counter | `dispatch`, the enforcer interfaces, the router | called by `dispatch` without the lock |
| frame transport (`net.cpp`) | a socket; what `send_exact` and `recv_exact` have moved so far | `send_frame`, `recv_frame`, `decode_frame` | coordinator and workers |
| coordinator and workers (`distributed/`) | registered workers, seen boot ids, recovery flags, epoch | one thread per client, a monitor thread, an accept loop; save on Kill and Shutdown; load at the start | a `SloFabric` behind TCP |

Hard behaviours and what makes each component correct:

* *Lock boundaries.* Every public method holds one mutex, so the methods are
  atomic; an intent lives outside the lock between `evaluate` and `authorize`,
  `save` writes and `load` reads outside it. An intent must be authorised only
  by the contract, policy and epoch it was made under; the file must be one
  consistent state.
* *Restart.* `load` restores histories but not counters and derives the epoch
  from the file. Identities must not be confused across restarts.
* *Call sequences.* Lifecycle, transition and completion calls come in any
  order. Lapsed authority must stay lapsed; an aborted enforcement must not
  commit.
* *Cooldown and accumulator reset.* An objective's cooldown must survive
  evidence, new contracts and evaluations of the same objective generation.
* *Evidence order.* Late, duplicate and reordered samples; boundaries of age,
  bucket and capacity; the rank of a percentile.
* *Dispatch.* The sink is called after the lock is released: an intent may reach
  it long after its evaluation. No call may be lost or doubled, and a fence must
  admit the intents of one evaluation only.
* *Bytes.* `send` and `recv` move any part of what they are asked to, connections
  break inside a frame, bytes are damaged. Only frames that were sent may be
  returned, in order, and no reader may wait for ever.
* *Files.* Saves of two threads overlap, processes die between the steps of a save
  and leave temporaries. The file must be one whole state, and damage must be
  noticed.
* *Distribution.* Heartbeat timeouts racing a closed connection, unlocked
  counters, boot fencing, restarts of the coordinator, recovery that must
  eventually be declared.

## 2. Modules

### `Authority`

The authority core of `SloFabric`: registry, evaluation as a source of intents,
authorisation, receipt lifecycle, save, load and crash. One action per public
method, because each holds the mutex throughout; `save` is
`save_snapshot` (under the lock) then `save_write`, `load` is `load_read` then
`load_apply` (under the lock), per calling thread (`pending`).

| state | code |
|---|---|
| `epoch`, `policies`, `contracts` | `Impl::epoch`, `policies` (a policy is its generation, 0 when unknown), `contracts` |
| `accumulators` | generation and `cooldown_until` of each `ObjectiveAccumulator`; generation 0: none |
| `evaluation_counter`, `evaluation_history`, `evaluation_by_id` | the same |
| `enforcement_counter`, `enforcement_history` | the same |
| `issued` | the intents evaluations returned; callers may hold and resubmit any of them, after a restart too |
| `pending`, `file` | save and load calls doing I/O, and the file at `path` |
| `now` | the time argument of the calls: a steady clock (`tick`) |
| `incarnation` and the fields of an intent after `evaluation_gen`, `at` of a receipt | history variables, read by properties only |

Abstractions. An objective of a contract is its generation. The verdict of an
evaluation is an input: `Bindings` names the objectives that may bind and call
for an action, `None` stands for an evaluation that calls for none; the fabric
then applies the cooldown. `ingest` stands for every call that takes in evidence
for one objective by its newest definition (`ingest`, `record_recovery_event`,
`set_objective_budget`); what the evidence says belongs to module `Evidence`, what
remains here is which accumulator it reaches and whether it is reset.
`ingest_violation_event` differs: it visits every contract. `dispatch` is in
module `Enforcement`. A failed call changes nothing and is no step.
`save_write` replaces the file or fails and leaves it, and `load_read` reads all
of it: that the code behaves so is what module `StateFile` shows
(`ImplementsRegister`). A contract without objectives, which `supersede_contract`
accepts, makes `evaluate` index an empty vector; the process then dies, which is
the action `crash`, enabled always.

### `SampleWindow`

`SampleWindow` of `sample_window.hpp` for all five window types: `ingest` with
its outcomes, `reset`, `quantile` and the extremes. `sorted` arranges the samples by
their `place` in ascending order, which is what `std::sort` promises. The rank of a
percentile is `std::ceil` of a product of doubles, which can lie above the integer it
stands for: 0.28 * 25 is 7.000000000000001, so the 28th percentile of 25 samples has
rank 8. The constant `RoundedUp` holds the percentiles and numbers of samples where
that happens; a percentile is in thousandths, so that it can happen only where the
exact product is an integer, and the other ranks are exact. `log` is a history variable, every sample
accepted since the last reset, against which the deque is judged. Window type
and interval are chosen in `Init`, as the constructor's arguments. `NaN` stands
for the values `ingest` refuses. The branch that returns `Late` is modelled but
never taken: a sample of an earlier bucket is older than the last one accepted
and is refused as a rollback first.

### `Evidence`

What the fabric keeps of its evidence: the ring of ids of the process and the
recent ids of each objective (`note_evidence`, `seen`, `remember`), the
availability, cost and recovery accounts, and the error budget, through
`ingest`, `record_recovery_event`, `set_objective_budget`,
`ingest_violation_event`, the rollover in `evaluate`, `save`, `load` and a crash.
`gen[o]` is the generation of the newest definition of an objective, or 0; any
access at another generation empties the accounts and keeps the budget, as
`reset_for_new_gen` does. `noted`, `deliveries`, `restarts` and the fields
`taken`, `charged` and `reported` are history.

Abstractions. An objective is defined by one contract (shared objectives are in
`Authority`), and evidence that goes to a window leaves these accounts alone
(the window is `SampleWindow`). Cost objectives are window budgets; costs per
request or token go to a window. Both availability modes add the same numbers
to one of two pairs of counters, here one pair. Serving units are a product of
doubles rounded towards zero (`whole_units`): a product below the whole number it
stands for loses a unit, and the constant `Short` holds the shares and weights where
that happens (29 % of 100 units are 28). Values, times and sample counts are integers
of any sign and size, because neither the types of the units nor `ingest` check them;
a sample count below one weighs 1, as in the code. `save` and `load` are
atomic: their interleaving is in `Authority`.

### `Evaluation`

The verdict for one contract: `evaluate_freshness`, `compute_measured` as
`sufficient` and `measured`, `classify_zone` and `step_state` with the memory
`last_state`, the exhausted budget that turns Compliant into NearLimit, the sort
that selects the binding objective (`before`, `candidates`), and the action with
enforcement class and cooldown. The contract, with the bounds of what may be
observed of it, is chosen in `Init` from `Scenarios` and does not change. The
evidence of an objective is an amount, a value and the time of the latest record,
set by `observe`; which values a window or an account can have is left to
`SampleWindow` and `Evidence`. Whether an objective is hard (`hard`) is part of its
definition, and nothing in `evaluate` reads it, as in the code. `candidates` is a set: objectives that tie in
every key may come first in either order. Magnitudes are fractions, compared by
cross-multiplication; the margin of five percent is exact. Percentile ranks are
positive, so every percentile of a window that is not empty is defined.
`predict_risk` is left out: its result is listed and read by nothing.

### `Enforcement`

Extends `Authority` by the way of an intent to the runtime: `dispatch` in its two
halves (`dispatch_counted` under the lock, `dispatch_delivered` after it, with
everything else the fabric and the sink do in between), the router (`route`), and
every operation of `ReferenceEnforcementSink` (`sink_dispatch` with its three
refusals, the fence, the failure switch, `clear`). `InterfaceOf` is the router's
table. `Authority` leaves open which action an intent asks for; here it is
chosen when the intent is dispatched. The sink has no lock, so its calls are
atomic, as they are for a host that uses it from one thread at a time. The
record's `fence` and `routed` are history.

### `Transport` and `Channel`

One direction of a connection. `Channel` is what the protocol promises: frames
are handed over whole, once, in order. `Transport` is `net.cpp`: `send_frame`
writes an encoded frame by `send` calls that take any number of cells
(`send_some`), `recv_frame` reads header, payload and checksum by `recv` calls
that return any number (`recv_some`; `awaited` is what the current `recv_exact`
waits for, `recv_step` what the checks between them decide). A cell is a header
field, a payload byte or a checksum. Faults: a send fails inside a frame and the
caller goes on with the next, as the worker's loop does; either process dies; a
byte is damaged. A reader that fails closes its end, as `handle_client` and the
worker do. The checksum is taken to be free of collisions. `Transport` implements
`Channel` with the variables of the same names.

### `StateFile`, `StateRegister` and `Codec`

`StateRegister` is what `save_state` and `load_state` promise: one register, that a
save replaces or leaves alone, a load returns or reports. `StateFile` has the
steps of `save_bytes_atomic` per thread (open a temporary of a fresh name, write
it in pieces, rename), its failures, crashes after which the names start again
beside the temporaries of earlier processes, `load_state`, and damage to the
file. The register's content is the state whose bytes the file holds, or
`Spoilt`. The encoding is a parameter; the instance takes it from `Codec`, where a
record type is the list of its fields with the check its decoder makes of each
(`ObjectiveFields` ...), and encoder and decoder work on those lists. A cell
stands for the bytes of one item of fixed size, so the byte order is left out,
and a fraction of an interval is one of its ends. A decoder is a function of the
cells that are left (`read_record`, `read_list`), so that it can be proved about as
well as run. The cap on the size of a whole file, `kMaxPersistenceBytes`, is left
out; that on a string and that on a list are there. `IsState` says what the types
of `DurableState` allow, `StateFits` which bounds a state has to keep, in terms of
the schemas. `MCStateFile` states the bounds a second time, from the declarations of
the types (`MCLoadable`): the run `state_file` shows that these are what the decoders
enforce, and the theorem below that `StateFits` is.

### `Coordinator`

The deployment of `distributed/`: worker processes (`spawn`, `connect`,
`read_ack`, `worker_round`, killed, hung or cut off), the handler thread of each
connection (`hello_refused`, `hello_accepted` with `send_ack` after the lock is
released, `evidence` with `mark_recovery`, `heartbeat`, `disconnect`), the monitor thread, and the life of the coordinator
process (`shutdown_frame`, `kill_frame`, `crash`, `restart`, `listen_fails`).

| state | code |
|---|---|
| `client`, `args` | where a worker process is, and its command line |
| `inbox`, `handler` | frames under way on its connection, and where its `handle_client` is |
| `g_epoch`, `g_seen_boots`, `g_workers`, `g_down_a`, `g_recovery_auth`, `g_recovery_verified` | the globals; `g_workers` holds the age of the last heartbeat |
| `monitor` | where `monitor_loop` is; it holds `g_mu` except in "sleep" |
| `events` | the recovery phases recorded in the fabric |
| `file` | the epoch in the state file |
| `granted`, `unsaved` | history: whose registration was granted; whether a process ended without saving |

Frames arrive whole and in order, which `Transport` shows. A Hello is malformed if
the name on the worker's command line is longer than `decode_hello` reads
(`TooLong`); it is refused and its connection closed like a stale one. Steps under `g_mu` are
atomic and wait while the monitor holds it; the recovery events and the flags,
which need no lock or take the fabric's own, are steps of their own. The fabric is
its epoch and its recovery phases. Each worker process is started once and has one
connection, so a worker's name serves for all three.

### Proof and model-checking modules

`AuthorityProofs`, `EnforcementProofs`, `SampleWindowProofs`, `EvidenceProofs`,
`EvaluationProofs`, `TransportProofs`, `StateFileProofs` and `CoordinatorProofs` hold
the theorems about the module each is named after; the modules `MC...` hold the
instances. Definitions whose comment starts with "Mutant:" are deliberately wrong
versions of the definition that follows and are not used by the specification.

## 3. Runs

| run | instance | properties |
|---|---|---|
| `authority_disjoint` | two contracts of one service with an objective each, one with a second generation that redefines its objective and expires; two policy generations; times 0..3, cooldown 2, two evaluations, two authorisations | `CooldownHonoured`, `AuthorityMovesForward`, `AuthorizedByOwnContract`, `LapsedStaysLapsed` |
| `authority_restart` | two generations of a contract, two threads (symmetric) that save and load, two restarts (crash or load) | `TypeOK`, `HistoryOrdered`, `EvaluationLookupExact`, `FileCoversReceipts`, `RestoredIsOld` |
| `sample_window` | five window types, intervals 0 and 2, capacity 3, times and sequence numbers 0..4, two values; a tumbling window filled with up to 25 ascending samples, where the ranks of 28 % and 56 % are rounded up; eight percentiles | `ArrivalOrder`, `WindowExact`, `QuantileWithinOneRank` |
| `evidence` | one behaviour is about one of three parts. Accounts: an availability and a cost objective; seven records: availability of which the doubles lose a unit, of 1 basis point, below zero in the other unit and bound to a generation and epoch, above the whole with a negative count, one of a unit that does not fit, charges of three times, one below zero; four deliveries in any order, memories of two ids, a cost window of duration 1 and two charges. Budget: a window of 1, times 0..2, two violation events. Recovery: all five phases in any order. Two generations and one restart in each | `EvidenceCountedOnce`, `AvailabilityNeverOverstated`, `CostNotHidden`, `BudgetNeverOvercounts`, `RecoverySettles` |
| `evaluation` | two contracts. One of three objectives: memory pressure with thresholds, availability with its maximum, which is soft, recovery time; values below, at and above the limits, a budget, authorised intents. One whose evidence ages: a time to live of 1 and a window of 1, one or two samples, times 0..2, evidence dated up to 1 ahead, one restart | `BindingIsWorst`, `ViolationLeftOnRecovery`, `JudgedOnFreshEvidence` |
| `enforcement` | one contract, without a generation and then with its first; two evaluations, one authorisation, every transition; two dispatches, by a thread or the router, of an action that is routed and one that is not, with memory the only interface that is implemented | `DispatchesAccounted`, `FenceAdmitsOneIntent`, `AbortedNeverCommits` |
| `transport` | an empty frame, one whose payload reads like a header and one that is too large; up to three frames through a kernel that holds five cells, two faults, damage that leaves 0, a kind or the magic | `TypeOK`, `DecodersAgree`, `ImplementsChannel`, `FrameArrives`, `ReaderReleased` |
| `state_file` | two threads, two saves per process, two crashes over small states; one damage of any cell, any cut and any extension of a state with every kind of record; four states, one of which the decoders refuse | `TypeOK`, `LoadsBackExactly`, `DecodersStrict`, `ImplementsRegister` |
| `coordinator` | two worker processes with the command lines of `distributed_proof.cpp`: A and B that takes over; two with one boot id; two of the epoch after a restart; one with a name that is too long; two restarts, a timeout of one tick | `TypeOK`, `EntriesHaveHandlers`, `FencedOncePerEpoch`, `RecoveryNeedsFailure`, `HelloAnswered`, `SilenceDeclared`, `RecoveryVerified`, `DeadIsForgotten` |

The type invariants of `SampleWindow`, `Evidence`, `Evaluation` and `Enforcement` are
proved (section 4) and listed by no run.

The runs below end in a counterexample; each states what the documentation
or a comment promises and the code does not do.

| run | property | what happens |
|---|---|---|
| `authority_shared` | `AuthorizedByOwnContract` | two contracts of a service share an objective: `authorize` checks the last of them, so the intent of a suspended contract passes |
| `evaluation_hard_first` | `HardBindsFirst` | a hard and a soft objective are both violated, the soft one further: the sort of `evaluate` never reads whether an objective is hard, so the soft one binds and chooses the action |
| `coordinator_failover` | `FailoverRecorded` | worker A is killed: the system closes its connection, its handler erases the entry, and the monitor, which looks at entries only, never declares it down; B serves for ever and no recovery is recorded |

The third is about the trigger only. In the passing run `coordinator`
`SilenceDeclared` shows that a worker that falls silent with its connection open is declared down, and
`RecoveryVerified` that the rest follows.

*Other disagreements* between the documentation and the code that the models
contain and no run states:

* Two restarts from one file get the same epoch (`fabric.cpp:1042`; README: "old-epoch
  traffic is rejected"); so does the restart of a coordinator that
  ended without saving, which has forgotten its seen boot ids as well. The
  condition `~unsaved` of `FencedOncePerEpoch` says so.
* A second authoritative failure keeps the verification of the first recovery, so
  its duration is negative (`fabric.cpp:629`; README 60-61).
* Every objective that is not compliant is listed as a secondary constraint, soft
  ones included (`fabric.cpp:818`; README 117-118: "all other non-compliant hard
  objectives"). `BindingIsWorst` states what the code does: severity and magnitude
  decide what binds, hard or soft.
* A percentile is not always the nearest-rank one (README 55 and 96: "exact";
  `quantile.hpp:5-8`): where the product of doubles lies above an integer the rank is
  one too high (`sample_window.hpp:180`). `QuantileWithinOneRank` allows the next
  rank exactly there (`RoundedUp`).
* Nothing validates a share (`units.hpp:167`: "integer in [0, 10000]"; `units.hpp:188`:
  "Validated on construction"): a record of 20000 basis points makes the successful
  units exceed the eligible ones, a negative one takes successes away
  (`fabric.cpp:592-602`). `AvailabilityNeverOverstated` compares the account with what
  was stated, whatever that was; it does not say that a ratio is at most 1.
* `authorize` does not read the cooldown and accepts an intent twice
  (`fabric.cpp:918-959`; README: "Cooldown prevents enforcement thrash").
* The evaluation generation of an intent is never compared, so an intent that a
  later evaluation replaced is authorised (`fabric.cpp:918`; README: "A stale or
  superseded intent is rejected").
* Receipts are found by id alone, and ids restart at 1: after a restart a
  transition moves a receipt of the previous epoch (`fabric.cpp:979`).
* A tumbling or fixed-interval bucket has no capacity (`sample_window.hpp:126`;
  README: "a bounded sample store").
* A violation event carries no id: delivered twice, it consumes twice
  (`fabric.cpp:646`; README: "a duplicate event never double-consumes budget").
* The first window of a budget starts at time 0, so a budget set later than its
  window is cleared by the next evaluation (`budget.hpp:138`).
* The budget of an objective redefined since its last access, and one of total
  zero, is not restored by `load` (`fabric.cpp:1052-1054`).
* An evaluation on stale evidence overwrites `last_state` and so erases the
  memory of the hysteresis (`fabric.cpp:780`).
* One stale or missing objective leaves no binding and no secondary constraint,
  whatever the others violate (`fabric.cpp:814`).
* Only the binding objective decides about the action: a worse one of class None
  suppresses the action for a violating mandatory one (`fabric.cpp:857`).
* Cost and availability evidence never ages (`fabric.cpp:215-228`), and a cost
  per request is never judged, because its freshness is that of the empty cost
  account (`fabric.cpp:226`).
* Nothing ever assigns `AtRisk` or `Recovering`: a predicted risk is listed
  beside the states and changes none of them (`fabric.cpp:790`).
* The recovery tracker is not saved: a recovery objective that was violating is
  compliant after a restart, before any evidence (`fabric.cpp:266`).
* `dispatch` asks nothing of an intent, not even that it was authorised
  (`fabric.cpp:966`; README 125-126: "is rejected before it can mutate runtime
  state"); only a sink with a fence does.
* The router answers ok to four actions besides `NoAction` that it passes to nobody
  (`adapter.hpp:206-211`; comment at 172-174: "must map to exactly one interface").
* A contract of generation 0 is registered, evaluated and authorised, and its
  intents are refused by the sink (`adapter.hpp:75`).
* `g_recovery_auth` is set before the failure is recorded, so another thread may
  record Restored and Verified first (`coordinator_main.cpp:133-135`), and two
  handlers may both record a recovery that is said to be recorded once
  (`coordinator_main.cpp:177-182`).
* `g_next_evidence++` is not synchronised (`coordinator_main.cpp:92`, `108`): two
  records may get one id, and the second is dropped as a duplicate.
* `g_down_a` is never reset: the second failure of A is not noticed.
* Evidence on a connection that never said Hello is taken in if its epoch fits
  (`coordinator_main.cpp:171-174`).
* A Kill prints SAVED whatever `save` returned (`coordinator_main.cpp:216-217`), and
  a coordinator that cannot load its state goes on with epoch 1 (line 245).
* `add_contract` accepts objectives that `decode_objective` refuses (no samples in
  a count window, a negative minimum of evidence, an uncertainty above 1): the
  file a save has written cannot be loaded. The state `NoSamples` of the run
  `state_file` is one.
* The decoders accept action 23, one past the last, and any nonzero byte as true;
  `NaN` passes the comparisons that bound a fraction (`persistence.cpp:130`).
* Temporary names are unique in a process, not between two that save to one path
  (`persistence.cpp:349`), no file is verified before it is renamed, although
  `persistence.hpp:82` and the comment at `persistence.cpp:344` say so, and nothing
  is synchronised to the disk.

*Bounds.* Clock, evaluations, authorisations and restarts are capped by
constants; with their values the interesting orders all happen: an intent held
across a supersession, an expiry, a policy change or a restart; a history that
overflows; two restarts from one file; a snapshot written after a newer one; a
window that overflows its capacity, ages out a sample of exactly the interval's
age and changes bucket, and one so long that a rank is rounded up; an id that either memory of evidence has forgotten; a
charge older than the window that arrives behind a newer one; a budget that is
rolled, redefined or reloaded between two events; evidence exactly as old as its
time to live; an intent dispatched before a later evaluation and delivered after
it; a frame split in every place, one that fills the kernel's window, and a torn
frame followed by a sound one; two saves that overlap and a temporary left by a
process that died; a coordinator that is killed, crashed or restarted at any
moment of a registration. A third frame, save or worker adds interleavings of the
same pairs. The theorems remove the bounds for what they cover. The runs of
`Authority`, `Enforcement`, `Evidence`, `Transport` and `Coordinator` allow
deadlock: where every bound is reached, or both ends of a connection are closed,
nothing is left to do.

*Fairness.* The library does nothing by itself, every step is a call of its host;
`Authority`, `Enforcement`, `Evidence`, `Evaluation`, `SampleWindow` and `StateFile`
assume none. `Transport` assumes weak fairness of `send_some`, `recv_some` and
`recv_eof`: `send_exact` and `recv_exact` call again until they are done, the
threads are scheduled and the kernel moves the bytes it holds. When a frame is
sent is left open, and so is every fault. `Coordinator` assumes weak fairness of
each handler thread with the accept loop, each worker process, the monitor
(which wakes every 200 ms) and time. The operator need not start, kill or restart
anything, nothing need fail, and a worker that hangs need not resume.

## 4. Proofs

The theorems hold for every value of the constants that meets the named
assumptions of the component's module, which say of what type a constant is,
that the markers (`None`, `NoFrame`, ...) are not values, and that a product of
doubles misses only whole numbers (`RoundedUp`, `Short`). Bounds are natural
numbers, capacities positive. Theorems that need more say so as a hypothesis.

### Authority core (`AuthorityProofs`)

* `TypeCorrect`: `Spec => []TypeOK`, one lemma per group of actions.
* `HistoryStaysOrdered`: `HistoryOrdered` is not inductive, because `load`
  replaces the history by one taken from the file, and a file by one taken from
  a snapshot. `HistoryInv` therefore says of the running state, of the file and
  of every snapshot under way that its receipts are ordered and none is of an
  epoch later than its own; and of the running state that a receipt of the
  current epoch has an id up to `enforcement_counter`.
* `RestoredStateIsOld` follows from the same invariant, since `load` starts an
  epoch after the saved one; `AbortedStaysAborted` from the order of the history
  and the transition table.
* `LookupIsExact`: `load` keeps the evaluation counter of the process and brings
  back records of another incarnation under the same ids. `LookupInv` adds that
  every intent of this incarnation has a number the counter has reached, so its
  record replaced whatever `load` had put there.
* `LapsedForGood` needs no more than the types: every call keeps an expiration
  that is set.
* `AuthorityNeverMovesBack`, `FileIsConsistent` and `OwnContractAuthorizes` assume
  `ObjectivesDisjoint`, that no two contracts of a service hold one objective; the
  run `authority_shared` shows that it is needed. `FencingInv` states for the
  running state, the file and each snapshot that the registry covers every
  receipt and every intent that its epoch could still authorise, and that receipts
  of a contract have non-decreasing generations.
* `CooldownIsHonoured` assumes `ObjectivesOwned` and one lifetime of the process
  (`MaxIncarnation = 0`, as in the run). An objective must belong to one contract
  id, and a newer generation of the contract must not define an older one of the
  objective, because accumulators are kept by objective id alone and any access at
  another generation resets the cooldown. `CooldownInv` says that the generation
  of an accumulator only grows, so that the cooldown a receipt started is still
  there or belongs to a generation no later evaluation can bind. Across a restart
  the property is false: cooldowns are not saved, and an intent of the earlier
  process that is presented again before any evidence arrived is authorised
  without an accumulator that could hold one.

### Dispatch (`EnforcementProofs`)

`EnforcementIsAuthority` shows that every step of the composition is a step of
`Authority` or leaves it alone, so what is proved of `Authority` holds here:
`AbortedStaysAbortedHere`. `CallsAccounted` rests on `AccountInv`, which adds that the
threads in flight are finitely many, as each of them was counted. `FenceHolds`
rests on `FenceInv`: what is in flight or recorded was issued, and an accepted
record carries the fence it was accepted under; with `LookupIsExact` two intents
of one fence are one evaluation's.

### Evidence and evaluation (`SampleWindowProofs`, `EvidenceProofs`, `EvaluationProofs`)

* `SamplesArriveInOrder`, `WindowHoldsExactly`: `WindowInv` ties the deque to a
  suffix of the log and `last_time`, `last_seq` and `bucket_start` to its last
  sample.
* `QuantileIsWithinOneRank`: that each place of the sorted order is taken by one
  sample (`Sorted`) follows from counting the samples that come before another
  (`FewerUpTo`), and the rank from counting those on either side of it
  (`RankBounds`). It holds for any set `RoundedUp` that contains whole products only,
  so for whatever the rounding of doubles does there; percentiles finer than a
  thousandth are outside it.
* `CountedOnce`, `NeverOverstated`, `NoCostHidden`, `NeverOvercounts`: `EvidenceInv`.
  The ring and each objective's recent ids are the last entries of what was noted,
  and ids that are repeated are further apart than either remembers; successes
  stay within the stated share, for values of any sign and size, and a charge that was
  dropped is too old or crowded out; the budget in memory *and in the file* is
  within what was delivered since its window began, because `load` brings the
  latter back. `RecoveryStaysSettled` is proved from it, action by action.
* `OnlyFreshIsJudged`, `ViolationEndsRecovered`, `WorstBinds` are facts about the one
  action `evaluate`, from the types of the contract and of the observations. For
  `WorstBinds`, `candidates` are the least objectives under the order `before`.

### Bytes and files (`TransportProofs`, `StateFileProofs`)

* `WireImplementsChannel`: `Spec => ImplementsChannel`. `InOrder` says that there are
  places in what is in flight at which the frames that were sent and not yet
  returned begin, one behind the other, each whole or torn, and that a checksum
  lies only where its own frame ends, every other cell being a byte, damaged or not. From it `FrameIsNext`: a frame that passes every check of `recv_frame` is
  the next one sent, however many were torn. `WireInv` requires this only while the
  receiver is open. `OneFrameHeld` and `DecodersAlwaysAgree` follow from the rest of it.
* `FileImplementsRegister`: `Spec /\ []LoadsBackExactly => ImplementsRegister`, for any
  encoding. `FileInv` says that each save under way has a temporary no other save
  writes to (`SavesOwnTheirTemporaries`) and that the file's checksum is that of a
  state that was saved, or matches nothing.
* `StatesLoadBackExactly`, `SavedStatesAreARegister` and `DecodersAreStrict` are about
  the encoding of `Codec`, for states of any size. Their assumption `CodecInUse` says
  that `serialize` and `deserialize` are `serialize_state` and `deserialize_state`, that
  the states saved are states (`IsState`), and that `Loadable` is `StateFits`. The
  argument goes from the cells up. What a recursive function computes is obtained
  from the least number principle of the library (`Least`, `Induction`), applied to
  sets in the place of predicates, and `Recursion` shows that the functions defined
  by recursion exist. Of each decoder two things are proved: it *delimits* what it
  accepts (`...Decodes`: cells behind it change nothing and are left unread, and what
  was read keeps its bounds) and it *reads back* what its encoder wrote, exactly if
  the bounds are kept (`...Reads`). `ItemsDelimit`, `ItemsRead` and `ItemsGiven` carry
  both through decoders one after the other, from fields to records, lists,
  contracts and states. Reading back gives `RoundTrip` and `NothingLonger`; delimiting
  gives `NothingShorter`, since an accepted prefix would leave cells unread with the
  rest behind it; the bounds give `AcceptedFits`. `DecodersAreStrict` also needs that a
  file that is not damaged is whole (`IntactIsSaved`).

### Coordinator (`CoordinatorProofs`)

One invariant, `CoordInv`: a Hello is the first frame of a connection and
unanswered; an entry has a thread and a thread a running coordinator; a thread
about to record a recovery has seen the failure declared; and, as long as no
process ended unsaved, no grant is ahead of the epoch, the grants of the epoch are
remembered while the coordinator runs, and when it does not the file holds its
epoch. From it `CoordinatorTypes`, `EntriesAreLive`, `FencingHolds` and
`RecoveryFollowsFailure`.

### Only model-checked

* The liveness properties `FrameArrives`, `ReaderReleased`, `HelloAnswered`,
  `SilenceDeclared`, `RecoveryVerified` and `DeadIsForgotten`: liveness under fairness
  is out of the prover's reach. Every invariant, action property and refinement
  that the passing runs check is also stated by a theorem.

## 5. Plan

1. (done) `Authority`, `SampleWindow` and their proofs.
2. (done) `Evidence` and `Evaluation`.
3. (done) `Enforcement`, composed with `Authority`.
4. (done) `Transport`, `StateFile` with `Codec`, and their abstract specifications.
5. (done) `Coordinator` with its liveness.
6. (done) Theorems about the safety properties, action properties and refinements
   of all modules, and about the encoding.
7. The composition of `Evaluation` with `Authority`, whose verdict input it
   refines.

## 6. Not modelled

* Arithmetic and conversion of units (`units.hpp`): value types without control;
  models use integers. The rounding of doubles is there where it decides about a
  whole unit or a rank (`Short`, `RoundedUp`), not for shares of 2^38 units and more,
  fractional percentages or percentiles finer than a thousandth. Only the checks of decoded values are in `Codec`.
* `Explanation`, what-would-change, `predict_risk` and the digest of an evaluation:
  computed from the verdict and read by nothing. `QuantileStore` is filled by the
  window and read by nothing.
* The queries (`get_evaluation`, `objective_statuses` ...), which change nothing.
* The coordinator's `EvaluateRequest`, which evaluates and answers on its
  thread (`evaluate` is an action of `Authority`), and the control client of
  `distributed_proof.cpp`, whose frames are the operator's choices.
* A power failure that loses flushed bytes; two processes on one state file.
* The command line tool, benchmarks, examples and the CUDA proof: clients of the
  library.
