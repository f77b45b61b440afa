# RADA: a verification development

RADA watches the PCs of a computer lab. A client on each PC collects metrics
every five seconds and posts them; a Spring server authenticates the client,
stores the metrics and forwards them to a Python ML server, which judges
whether the PC is being misused (mining, denial of service, degraded
hardware); the verdict comes back to the Spring server, which stores an alert.

This directory holds TLA+ models of that system, TLC configurations that check
them on small instances, and proofs that TLAPS checks. `PROJECT.json` ties
every definition to the source lines it models, every property to the run that
checks it and to a faulty variant of the code that breaks it.

## 1. Inventory

| Component | State | Operations | Interacts with | What makes it correct |
|---|---|---|---|---|
| Client local queue, `client_core/sender/local_queue.py` | `_buf` (bounded deque), a JSONL file, three counters | put, pop, drain, load at construction, the byte limit | the loop calls it; the file outlives the process | the file is what a restart needs; a reload keeps the newest; no disk error stops the client |
| Client loop and sender, `runtime/loop.py`, `sender/metrics_sender.py` | the sample in hand, the payload being replayed | collect, replay up to five, send | queue, the server over HTTP | no sample disappears unaccounted for; bounded loss per death; no causeless duplicate; no starvation |
| Client sensing, `client_core/config`, `collector`, `window`, `detector` | settings, the collectors' previous counters, two sliding windows | start, warm-up, sample, threshold, absolute, hardware ratio, box plot | operating system; one thread, nothing caught | deltas add up to the traffic; an alert has a cause in the windows |
| Spring ingest, `ApiKeyAuthFilter`, `LastSeenTracker`, `LastSeenUpdater`, `MetricsService`, `AsyncConfig` | `lastUpdate` cache, `metrics_history`, `last_seen_at`, the executor's threads and queue | authenticate, throttle, save and submit in one transaction, forward, update | client over HTTP, database, executor shared by forwards and updates | an answered sample is stored once; a refused one leaves nothing; forwarding follows storing |
| Spring alerts, `AlertService` | `lastPersistAt`, `anomaly_history`, `ai_judgment_history` | handle: cooldown, two inserts in one transaction | called by the executor's threads | each stored anomaly has its judgment; none suppressed without a mark |
| Spring TTL job, `MetricsTtlJob` | `metrics_history` | prune every night | database | old rows go |
| Provisioning tools, `tools/provision_pcs.py`, `rotate_pc_key.py`, `revoke_pc.py` | `pc_info`, the key file | register, replace a key, revoke one, revoke stale | operator, the server's filter; tools may overlap | a key that was issued is accepted |
| ML minute window, `storage/pc_history_store.py`, `scorer/pattern_categories.py` | minute buffer, aggregates | append, flush, aggregate, judge patterns | every /analyze request, in a thread pool, without locks | the window is in order and complete; a pattern is witnessed by every aggregate it names |
| ML analysis, `api/analyze_router.py`, `scorer/*.py`, `storage/score_history_store.py` | rule scores with a zero streak, traffic streak, time of the last model call | extract, score, average, gate, cap, call | all stores of the PC; clear | an alarm has evidence in its own sample; an analysis fails only for a clear, a reload, a change of the fleet or another first request beside it; calls are rate limited |
| ML category gating, `scorer/category_gating.py` | three anchors | observe, judge | analyze | a sustained verdict was sustained |
| ML retraining, `scheduler/retraining_scheduler.py`, `model_store.py`, `anomaly_predictor.py` | train history, model per PC | maybe_retrain | concurrent requests | the model follows the data |
| ML fleet and retrieval, `retrieval/*.py`, global degradation, peer comparison | latest sample of each PC, per-slot deques of segments | report, search, compare, add, clear | requests of all PCs, clear | bounded, complete, no latest sample or segment of a cleared PC |
| ML policies, `policy/loader.py`, `validation.py`, `admin_router.py` | two files, two caches | get, reload | analyze | a reader sees a whole policy; a reload takes effect |
| ML agent, `agent/*.py` | none of its own | judge, or the rule that replaces a failed call | Claude API | never milder than the answer it explains |
| ML clear, `api/clear_router.py` | all per-PC stores | clear one PC or all | concurrent analyze | the latest sample, the segments and the training history of the PC are gone (it leaves other stores alone, section 6) |

The client has one thread; it is killed and restarted by the operating system.
The Spring server runs request threads and one executor (core 8, max 16, queue
200, rejecting) shared by forwards and `last_seen` updates. The ML server runs
synchronous FastAPI handlers in a thread pool: two requests of one PC interleave
between any two reads and writes of the module-level dictionaries, of which only
the model store has a lock.

## 2. Conventions

* **Steps.** One action is one statement (or one call) of the source that reads
  or writes shared state: a lookup, a later write and a call of another
  component are separate actions, so that another thread, a crash or an answer
  may come in between. Operations that hold a lock for their whole duration are
  one action (`LocalQueue`, `model_store`). CPython may switch threads inside a
  statement, too; this would only add behaviours, and no passing run or theorem
  about overlapping requests (`MlTraining`) should be read as covering it.
* **Data.** Where only the fate of a sample matters, it is a number or a model
  value. Where its values decide (sensing, signals, patterns, policies), it is a
  record, and a run takes one record of each kind that the rules tell apart.
  Reals are scaled to integers: shares in percent, traffic in 1/10000 MB on the
  client (the digits it rounds to) and in 1/1000 MB in the rules, averaged scores
  in tenths, distances in 1/10000. Means and deviations are compared without
  dividing. Statistics over the ten-minute history are part of a sample.
  Formatting, texts and logging are left out.
* **Time** is a clock that ticks at any moment; durations are in ticks.
* **History variables** (marked `history` in the declarations) only record what
  happened, so that properties can relate a state to earlier ones. No guard of
  a modelled action reads one, except the bounds (`MaxX`), which end a
  behaviour and have no counterpart in the code.
* **Faulty variants.** Operators introduced by "A faulty ..." are what a
  plausible bug would turn the next definition into. No specification uses
  them; each shows that a property is able to fail.

## 3. The modules

| Module | Models | Used by |
|---|---|---|
| `LocalQueue` | the client's queue and its file | `ClientDelivery`, `Components` |
| `DurableQueue` | abstract: a bounded queue that survives its process | refinement in `LocalQueue` |
| `SampleFate` | abstract: what the client promises for every sample | refinement in `ClientDelivery` |
| `ClientDelivery` | the client loop and sender on top of the queue | `MCClientDelivery` |
| `ClientSensing` | settings, collectors, windows, detectors | `Components` |
| `MlExecutor` | the Spring server's bounded pool | `SpringIngest` |
| `SpringIngest` | one POST, from the API key filter to the answer, and what the pool does afterwards | `MCSpringIngest` |
| `AlertService` | alerts with their cooldown, by the threads of the pool | checked directly |
| `Upkeep` | key tools, the server's view of keys, the nightly job | `Components` |
| `SignalRules`, `VerdictRules`, `ExplainRules` | the rules over one sample: signals; indicators, discounts, verdict, promotion, cap; risk axes and the replacement judgment | `AnalyzeFlow` |
| `AnalyzeFlow` | one PC's requests through these rules and the stores they share | `MCAnalyzeFlow` |
| `PatternRules` | the sustained patterns over a window of aggregates | `MinuteWindow` |
| `MinuteWindow` | minute buffer and aggregates, by overlapping requests | `Components` |
| `CategoryGating` | anchors of abnormal categories and the verdict they earn | checked directly |
| `MlTraining` | train history, training and clear | checked directly |
| `Fleet` | what is kept about all PCs: latest samples and the segments of a slot | `Components` |
| `PolicyReload` | the two policy files, their caches, readers and reloads | `Components` |
| `Components` | the six parts that share no state, side by side | `MCComponents` |
| `Optional` | `None` | most of them |
| `Filtering` | a sequence filtered as a loop does it | `LocalQueue`, `PatternRules`, `Fleet` |
| `Summing` | a sum as a loop makes it | `ClientSensing`, `PatternRules` |
| `*_proofs` | theorems about the module of that name | |
| `Components_proofs` | theorems about `ClientSensing`, `Upkeep`, `MinuteWindow`, `PolicyReload`, `Fleet` and `Components`, on top of `LocalQueue_proofs` | |

`Components` composes the six parts that share no state: `part` says which of
them a behaviour belongs to, and the others keep their first state. It saves
running six small models one by one (`MCComponents` gives the constants their
values), and nothing is claimed about interaction between the parts.

### LocalQueue (`client_core/sender/local_queue.py`)

`buf` is `_buf`; `disk` is the file, as complete lines and an unterminated
`tail`; `dropped`, `skipped`, `writeFailed` are the counters. `Put`, `Pop`,
`Drain` are the calls, each under the RLock. `put` ends in
`_enforce_max_bytes_locked`, which evicts one payload and rewrites the file at a
time: `EnforceDrop` is one iteration, `EnforceDone` its exit, and `enforcing`
says that the lock is still held. `Boot`, `LoadLine`, `LoadEnd`,
`LoadInterrupted` and `LoadRaises` are the constructor reading the file line by
line. A write may fail (`Fault`, within `MaxFaults`) before or after a part of
the line reached the file; a cut line may end inside a multi-byte character,
and the next append is glued to it (`Torn`, `Joined`).

A line has unit size, so `MaxBytes` counts lines. A file without byte limit is
a `MaxBytes` that is never reached. `fsync=True` changes which writes survive a
power failure, not a kill of the process, and is left out. A cut that loses only
the newline counts as cut inside the text.

### ClientDelivery (`runtime/loop.py`, `sender/metrics_sender.py`)

`pc` is the position in `ClientRuntime.step`: `Collect`; `DrainPop` and one of
`ReplayAccepted`, `ReplayRefused`, `ReplayFails`, the last followed by `Reput`
and the end of the drain; then `SendSettles` or `SendFails` with `Enqueue`. Each
POST may be accepted, accepted with the answer lost, refused for good
(401/403/422) or failed. `Die` kills the process between any two steps or
inside an append; `Restart` is the queue's constructor.

`SampleFate` is the abstract specification: every sample is future, waiting,
stored, given up or vanished; it leaves `waiting` one at a time and for good,
except that a death makes at most `AtRisk` vanish. `KeepsPromise` is the
refinement, with `FateOf` as mapping.

### MlExecutor, SpringIngest (`server-spring`)

`workers`, `running` and `queue` are the `ThreadPoolTaskExecutor` (core, max and
queue capacity as constants, rejecting when saturated). A request goes through
the stages `new` (filter), `look`/`mark`/`touch` (`LastSeenTracker`, then the
submit of the update), `handle` (validation, save), `forward` (the submit inside
the transaction), `commit`, `reply`, `done`. `rows` holds committed metrics only:
between `Save` and `Commit` the row exists in the transaction and in the stage.
`RunTouch` and `RunForward` are the tasks. What the pool's own threads do
(taking a task, ending) is library code, modelled as external.

### AlertService (`service/AlertService.java`)

One thread of the pool handles one answer of the ML server: `HandleIgnored` or
`Handle`, then `LookRecent` (dropped) or `LookDue`, `Mark` (the map is written),
`SaveAnomaly`, `SaveJudgment` (and commit), or `Rollback` from any of the last
steps. `Restart` empties the map and keeps the tables.

### MlTraining (`ml_server`: `update_train_history`, `maybe_retrain`, `train_model`, `DELETE /history`)

One PC and one slot. `known` and `history` are the two levels of
`pc_train_history`: whether the PC has a dictionary, and the deque in it, as the
numbers of its samples; `model` is the sequence of samples the current model was
fitted to, so that `Len(model)` is its `sample_count`. A request looks for the PC
(`Request`), puts an empty dictionary there if it saw none (`MakePc`, even when
another request has made one meanwhile, deque and all), looks for the deque
(`LookDeque`), makes it in the same way (`MakeDeque`), appends (`AppendSample`),
or fails where a clear or another first request took away what it had seen
(`AppendFails`), reads the length (`ReadSize`), compares it with the model's count (`Due`, `NotDue`) and
trains: `StartRead` begins to iterate over the deque, an append meanwhile makes
the iteration raise (`ReadRaises`), otherwise `EndRead`, then `SetModel` or
`FitRaises`. `ClearHistory` and `ClearModel` are two steps of one DELETE.

### CategoryGating (`scorer/category_gating.py`)

`since[k]` is the anchor of "at least k categories": `any_one_since`,
`any_two_since`, `all_three_since`. A request evaluates its categories
(`Evaluate`; input), then `ResetAfterGap`, `Anchor`, `Stamp` and `Judge` follow
`update_sustained_state` and `evaluate` in their order. `EvaluateFails` is the
handler in `analyze_router.py` for any exception on the way. `seen` records
every observation of this life of the server.

### ClientSensing (`client_core/config`, `collector`, `window`, `detector`)

`StartClient` finds the configuration (first file that exists, environment over
file) and checks it; `Warmup` takes the collectors' first counters; `Sense` is
one cycle: every collector makes its part of the sample from a `Reading` (what
psutil, GPUtil, pynvml and Windows say, their errors included), the windows
slide and the four detectors judge. `SensingRaises` is a cycle in which
something raises: nothing catches it and the client ends. `reported`, `traffic`
and `netReset` record what the deltas should add up to.

### Upkeep (`tools/*.py`, `MetricsTtlJob.java`)

A tool's run is split where another tool may come in: `Provision`, `Rotate`
write the key file first and ask before they overwrite one
(`ConfirmOverwrite`), then `ExecuteUpdate` is their one transaction, or its
failure. `RevokeOne` is one update; `RevokeStale` fails before its update,
because the table it selects from does not exist. `Accepted` is the
server's filter: the hash with the server's pepper, and `is_active`.
`StoreMetrics` and `Prune` are the table and the nightly job.

### SignalRules, VerdictRules, ExplainRules, AnalyzeFlow (`api/analyze_router.py`, `scorer`)

The first three are operators only: `ExtractSignals` and what it calls;
`Indicators`, `Adjusted` (with the context discounts), `Weighted` (the average of
the last scores), `AnalyzePattern` (verdict, severity, alerts, promotion),
`MergeGating`, `ApplyNetworkOnlyCap`; the risk axes and `MockJudgment`.

`AnalyzeFlow` is the request. `Receive`, `MakePc`, `MakeSlot` and `KeepSample`
are `update_train_history` and the entry in `all_pc_latest` (`KeepFails`: the
KeyError of a clear or of two first requests). `Extract` counts the traffic
streak. `LookScores`, `MakeScores` and `AppendScore` are the first half of
`append_rule_score`, `Decay`, `CountZero`, `EmptyHistory` and `ResetStreak` its
decay, one step for each access to the two dictionaries; `ScoresGone` is the KeyError at each of its
uses. `Average` (the rest of `analyze_pattern`), `Gate`, then `BeginIteration`
and `EndIteration` or `IterationFails` for `detect_global_hw_degradation`, and
`SkipAgent`, or `CallAgent` and `AgentReturns`. `trained` says which levels of
`pc_train_history` are there, `listed` and `others` what is in `all_pc_latest`;
`ruleScores` is `rule_score_history`, `zeroStreak` `_rule_zero_streak`,
`dosStreak` and `aiLast` the dictionaries of those purposes. The verdict of the
categories is an input here, from the set that a sample of that kind may have.

Three things happen beside the requests. `ForgetPc` and `ForgetScores` are what
`DELETE /history` does to these stores, in its order. `EmptyCache` and `FillCache`
are a reload seen from its readers: without the cache each `get_scoring_policy()`
of a request may find a policy or none (`PolicyFound`), and each caller goes its
own way: `Extract`, `Decay`, the promotion and the cooldown carry on without a
policy, `ScoreFails` (`indicator_calculator.py:162`) and `AverageFails`
(`verdict_classifier.py:211`) end the request. `PolicyReload` is the detailed
model of such a miss. `FleetChanges` is another PC that reports for the first time
or is cleared. `overlapped` records for each request what ran beside it:
`request`, `clear`, `reload`, `fleet`, or `first` (another request replaced the
PC's dictionary).

### PatternRules, MinuteWindow (`scorer/pattern_categories.py`, `storage/pc_history_store.py`)

`minuteBuf` and `aggregates` are the dictionaries' entries of one PC; an
aggregate keeps its samples, and `PatternRules` takes means, maxima and
deviations of them where the code reads stored ones. `AppendSnapshot` freezes a
buffer of an earlier minute and appends; `ReadBuffer` and `StoreAggregate` are
the forced flush of the same request, between which another request may append;
`JudgePatterns` evaluates. `AnalysisFails` is a request that raises before the flush.

### PolicyReload (`policy/loader.py`, `policy/validation.py`, `api/admin_router.py`)

`EditFile` changes a file on disk. A reader finds the cache filled
(`GetPolicy`, `ReturnCache`: two reads of the same variable) or loads the file
(`ReadPolicyFile`, `StoreCache`); `BeginReload` and `EmptyAllowList` empty both
caches before the reload reads both files; `PolicyRaises` is a file that does not
load. Validation and defaults are operators over records of raw values.

### Fleet (`retrieval/retrieval_store.py`, `retrieval_evidence.py`, degradation)

`StoreSlot` is the slot whose segments are modelled; samples of other slots are
among the latest ones, where they do not count as peers (`Peers`), but make no
segment here. A request reports (`ReportLatest`), searches (`Search`), compares
with its peers (`ComparePeers`), takes the slot's deque and appends to it (`TakeDeque`,
`AppendSegment`: the deque may have been replaced meanwhile) and iterates over the
latest samples (`BeginDegradation`, `EndDegradation`: a change of size raises).
A clear drops the latest sample (`ClearLatest`), filters the deque
(`BeginFilter`, `EndFilter`) and puts the copy in its place (`ReplaceDeque`).
`deques` keeps every deque the slot has had, because threads may still hold them.

## 4. The runs

| Run | Shows | States |
|---|---|---|
| `delivery_safety` | at most two samples vanish per death; nothing acknowledged comes back; no duplicate without a lost answer; a living client loses nothing | 3.9 million |
| `delivery_live` | the refinements of `SampleFate` by the client and of `DurableQueue` by its queue, and that a payload the server fails for ever does not hold up the others | 0.3 million |
| `alert_threads` | one judgment per anomaly; no answer is dropped without a recent mark of its own PC and verdict | 1.1 million |
| `ingest` | 202 means committed, anything else means no row; the pool's limits; accepted metrics are forwarded, counted or lost by a restart | 0.6 million |
| `ml_training` | a model is fitted to one state of the window; it knows forgotten samples only if it was being trained during the clear; a request running alone catches up | 4.3 million |
| `category_gating` | the three anchors give what the whole sequence of observations gives; HIGH_RISK is earned | 0.9 million |
| `ml_analyze` | an alarm rests on its own sample; the network alone raises none; a request alone is judged with its own score; an analysis fails only for a clear, a reload, a change of the fleet or another first request beside it; calls of the model rise within a cooldown | 2.9 million |
| `components` | per part: the queue's file is the image of its memory and a reload keeps the newest; deltas add up and hardware alerts need a rise; an issued key is accepted; the window is in order and patterns are witnessed; a reader misses a policy only under a reload, and a reload takes effect; the segments are those of a serial execution, and a clear leaves neither the latest sample nor a segment of its PC; every part keeps its types and bounds | 2.2 million |
| `retraining_stops` | violation: after a full window no training is ever due | |
| `known_miner` | violation: a known miner is answered below MEDIUM | |
| `window_is_minutes` | violation: a pattern of two minutes is found within one | |
| `ttl_never_deletes` | violation: expired metrics stay after the night | |

### Bounds, and why they are enough

* *Client.* Four samples, a queue of three (two in `delivery_live`), a byte
  limit of two lines (three) and two replays per cycle: the queue overflows in
  memory, the byte limit evicts (in `delivery_safety`), a re-put meets a full
  queue, and a cycle ends both by `RETRY_PER_CYCLE` and by failure. Two deaths
  allow a death while the file left by the first is reloaded; one lost answer
  per sample is enough for a duplicate.
* *Pool and ingest.* Core 1, maximum 2 and capacity 1. `BusyInit` starts where a
  third request has been answered and its slow forward still runs; the two
  requests to come may submit an update and a forward each, so that tasks run,
  wait, start the extra thread and are rejected, both kinds of them. `MaxTime` 1
  with `TTL` 1 makes an update due again, for two overlapping requests at once.
* *Alerts.* Two threads, one PC, two verdicts, cooldown 2, time up to 3: a mark
  becomes old, a younger one is overwritten by an older one, a transaction fails
  and the server restarts.
* *Training.* A window of 4, a minimum of 2, an interval of 2 and 7 samples: the
  deque is dropping its oldest samples while a model is trained. Two requests
  are enough for one that trains and one that disturbs it, two clears for a
  clear while the first one's leftover is in place. The real values (720, 60
  and so on) keep the same order: minimum <= window, interval < window.
* *Gating.* Thresholds 1, 2 and 3, cap 4, gap 2, time up to 6 and four
  observations: every verdict, the cap and the gap are reached.
* *Analysis.* Two threads, three arrivals (`MaxArrivals`): three requests, two
  that overlap and one before or after, or two requests and one event beside
  them (`MaxEvents`: a clear, a reload or a change of the fleet). So every cause of
  a failure meets one and two requests. A score history of two and a decay after
  two zeros: the history is full, drops its oldest and is emptied; a cooldown of
  one with a clock of 0..1. Four kinds of samples: a game (score 0), a known
  miner, a loaded GPU with every resource signal, and traffic alone
  (`known_miner` has a quiet one instead). The threads are symmetric:
  no property or action tells them apart. The thresholds are those of
  `scoring_policy.yaml`.
* *Queue alone* (in `components`). Three payloads, a memory of two, a file of
  three lines, two disk errors; the byte limit that is smaller than the memory is
  that of `delivery_safety`.
* *Sensing.* Seven cycles and two starts: the baseline window of six is full and
  slides, the local window of two slides several times; five readings, among
  them a counter reset, a missing GPU and each collector's errors.
* *Upkeep.* Two PCs, one of them registered before, two tools that may overlap,
  one night with a retention of one day.
* *Window.* Two requests, three samples of two kinds (loaded, and quiet with
  values missing; together in a minute they make the mixed patterns), a minute of
  two ticks, two aggregates: a buffer spans the end of a minute, the window
  slides, a flush meets an append.
* *Policies.* Two threads, one edit, two readers' calls and two reloads, seven
  contents of the files: each way in which validation or parsing may end.
* *Fleet.* Four PCs (three peers are the least that are compared), two threads
  for requests and two for clears, three calls altogether (`MaxCalls`): two
  requests meet one clear, or two clears meet one request. Three segments fill
  the deque; it is replaced, and both iterations are disturbed. The threads of a
  kind are symmetric.

Deadlock is checked in the runs of the client, Spring, training and gating
models. `MCAnalyzeFlow` and `MCComponents` switch the check off: there a
behaviour ends when its bounded requests, tools and cycles are used up, or when
the client has died in `ClientSensing`, and waiting for another process does
not occur in them.

### Fairness

* `ClientDelivery`: weak fairness of the loop (every POST has a timeout, so no
  step blocks for ever) and of the restart (the task scheduler starts the client
  again). Strong fairness of a replay's success for each sample outside `Poison`:
  the server is assumed not to fail one and the same payload every time it is
  tried; this is an assumption about the environment, and `Poison` is the set
  for which it is dropped.
* `SpringIngest`: weak fairness of each request's next step and of the pool's
  threads. Every task ends, because the forward has a response timeout and the
  update is one statement. No fairness for clock, restarts or failures.
* No liveness property is stated for the other modules.

## 5. What is proved

TLAPS checks these for every value of the constants that satisfies the named
assumption of the module (`QueueAssumption`, `DeliveryAssumption`,
`IngestAssumption`, `PolicyAssumption` and so on: types, non-empty sizes, and that
`None` is no value of another kind). TLC evaluates each of them in the runs. Of
the inputs they say what the collectors, the files and the database can deliver:
percentages and counters are numbers or missing (`SensingAssumption`), a registered
key belongs to one PC and was made before the tools run (`UpkeepAssumption`),
and the latest samples of the start are not from the future (`FleetAssumption`).

The proofs follow one pattern: a conjunction of named parts that is inductive,
one lemma per part or action, and a last step that combines them.

### The client

* **`QueueMirrored`, `ClientMirrored`.** The queue's file is the image of its
  memory. Not inductive as it stands: inside `put`'s eviction loop and during a
  reload file and memory differ. `QueueInv` adds how.
* **`LoadsKeepNewest`.** A start that reads the whole file has its newest payloads
  in memory, in order. `LoadingInv` states it for the lines read so far; the
  lemmas of filtered sequences say that a filter passes over concatenation and
  commutes with cutting to the last k.
* **`QueueIsDurable`, `DurableUntilError`, `QueueBounded`.** The refinement of
  `DurableQueue`: what is unsent (`Unsent`: the memory of a live process, the newest
  payloads in the file of a dead or starting one) is a bounded sequence that
  `put`, `pop`, `drain` and the byte limit change and that, when there is a file, a
  death, a torn append, a reload or a start does not. For a live process this needs
  `DiskMirrorsBuffer`, the bound of the memory, and that a filter keeps a sequence of
  payloads whole (`AllKept`); for a starting one `LoadingInv`. `QueueIsDurable`
  assumes a working disk; `DurableUntilError` is the same for any disk, up to the
  first error.
* **`ClientImplementsQueue`.** Every step of the client is a step of `QueueSpec`
  or leaves the queue alone, so the queue's theorems carry over.
* **`ClientTypeCorrect`, `NothingLostWhileAlive`.** Pop, replay, re-put, send and
  eviction hand each sample over. `LoopInv` says for each `pc` what the loop holds.
* **`SettledStaysSettled`, `NoOtherDuplicates`, `DeathCostsTwo`.** One invariant,
  `DeliveryInv`, about samples in hand, in memory and in the file, across deaths
  and reloads, for as long as no disk error occurred (the properties say so
  themselves). `Placed`: what the loop holds is not in the queue as well, and the
  queue holds everything once. `Ledger`:
  what waits is unsettled, and what was stored twice has a lost answer.
  `LossBound`: at most two per death. They rest on one lemma that classifies
  every step of the client as leaving the waiting samples alone, adding one,
  settling one for a reason, or a death.
* **`ClientKeepsPromise`.** The refinement of `SampleFate`, step by step, under
  `MaxFaults = 0`, and with it that of `DurableQueue` by the client's queue: the
  promises are for a working disk. A failed write may
  leave a sample on disk that memory dropped, and then the mapping breaks.
* **`DeltasSumToTraffic`.** Network deltas add up to the traffic, for every
  behaviour of the counter. `TrafficInv` adds that the reference is the counter's
  last value, and that there is one as soon as the client is running.
* **`AlertsNeedRises`.** If no earlier sample is `ratio` times lower than the
  busiest recent one, the recent mean cannot exceed `ratio` times the mean of all,
  because the short window is the end of the long one (`EndsWith`, kept by
  `SlideEnds`). In a constant window every order statistic, hence both quartiles,
  equals the constant. Assumed is `SensibleSettings`: the ratio is a whole number
  from 2 on, window sizes are positive, and the short window is not longer than
  the long one. This is true of the code's defaults; the code does not
  check it (see section 6).
* **`SensingTyped`.** `SizesInv` bounds the windows by the sizes of the settings in
  force, which are those of the last start, and `TrafficInv` makes the deltas
  natural numbers. Idle times are a difference modulo `DWORD`, so that a tick
  counter that wraps does not make them negative. It assumes that the settings
  found and the defaults are sensible, as `AlertsNeedRises` does.

### The Spring server and the tools

* **`AlertTyped`, `EveryAnomalyJudged`, `SkipsHaveCause`.** For any number of
  threads. `StageOK` gives what each stage knows of its thread; ids below
  `nextId` are handed out once, which makes the correspondence one to one.
* **`SerialIsSpaced`.** With one thread, alerts are a cooldown apart; with two they
  need not be (section 6), so the race is the only cause.
* **`PoolBounded`, `AnswersAreTrue`, `ForwardsRunOnce`, `IngestTyped`.** For every pool
  size and any number of requests. `AnswerInv` relates stage, status and committed
  rows; `FateInv` says where the forward of a request is from its submission on. It
  needs that each task is submitted once (`Submitted`) and what every operation of the
  pool does to the set of unfinished tasks (`AcceptKeeps` to `RetireKeeps`).
* **`IssuedKeysWork`.** `KeysInv`: a run that another one meets is known to
  meet it, both are; what a run in progress is about has not been issued; and
  the file of a run that is alone holds that run's lines. Hence the last line of
  a PC in it is the key whose hash the server keeps.
* **`UpkeepTyped`.** No two PCs share a hash, for any overlap of tools. `RowsInv`: the
  rows that are kept, and those that a transaction is about to keep, have
  hashes that were made for their PC; `RowsExecute` is the lemma about one tool's
  rows, one line of the file after the other.

### The ML server

* **`TrainingTyped`, `ModelsAreWindows`.** `WindowInv`: the deque is a contiguous run of samples
  that ends with the newest and begins after the last clear, and so is what
  each training holds, except that a clear may have come since. `PushWindow` is
  the lemma about a bounded deque.
* **`StaleModelsRaced`.** `StaleInv`: a training whose samples are older than
  the last clear reads a deque made before it, and after the clear this is known.
* **`AloneRequestsCatchUp`**, an action property. `AloneInv`: unless a deque in
  use was replaced, the deque holds the samples since the last clear, as many as
  fit; and nothing that a request running alone has read is out of date. `PushLength`
  is the lemma about the length of a bounded deque.
* **`SettledModelsStay`**, an action property, and the reason for `retraining_stops`
  for every size: once `SampleCount + RetrainInterval > TrainWindow` and no training
  is under way, no training becomes due (`NothingDue`), so this stays so, and the
  model with it, until a clear. `SettledStays` is proved and listed in no run.
* **`GatingTyped`, `SerialRiskEarned`.** `AnchorsOK`, which holds for overlapping
  requests too, says that each anchor is the time of an observation since which
  its level was always reached. With one request at a time, `CountedOK` adds that
  a counted request finds the anchors of its own level; with two the race
  of section 6 is the only way to an unearned HIGH_RISK.
* **`AnchorsTellTheRun`.** Under `Serial` (one request at a time) the anchor is the
  earliest such observation: nothing is forgotten either.
* **`FlowTyped`.** For any policy that meets `FlowAssumption` (points and limits are
  numbers). That scores are natural numbers is a fact about sums over finite sets
  of signals, proved by way of the smallest set for which it would fail.
* **`AlarmsHaveEvidence`, `NetworkNeverAlarms`, `JudgmentsCover`.** `AnswerInv` says
  for each stage which of the rules the answer has been through, whatever the
  average and the categories said. `AlarmsHaveEvidence` assumes `AlarmPolicy`: the
  promotion gate is on and asks for no less evidence for HIGH_RISK than for
  SUSPICIOUS, as `scoring_policy.yaml` does. The property excepts a known miner, a
  verdict that the categories reached themselves, and a request beside a reload,
  which may have found no policy and so no gate. **`NetworkIsNotMining`** is the
  same as `NetworkNeverAlarms` about the risk axes, a fact about operators.
* **`OwnScoresCount`, `FailuresKnowTheirCauses`.** Both rest on `OverlapInv`: two
  requests under way at once are both marked, and so is each of them beside a
  clear or a reload that is under way. `FailInv`: what a request
  uses next (its levels of the training history, its scores, the size of the table it
  iterates over) is there, unless the request is marked with what took it away.
  `OwnInv`: until its average is taken, the newest score of the history is
  that of the request which nothing disturbs.
* **`CallsRise`.** `CallInv`: while no two requests overlapped and no reload took the
  cooldown away, `aiLast` is the newest call, or that call is not back yet and no
  other is on its way.
* **`WindowKeepsOrder`.** `OrderInv`: the samples that count, one after the other, are
  cut into the pieces of the window and the rest in the buffer; `Pieces` gives
  the cuts. The recursive functions it speaks about are handled by the smallest
  argument at which a claim would fail, because the library's induction
  theorems cannot be instantiated.
* **`PatternsHaveWitnesses`.** A mean that reaches a limit has a value that does. It
  needs positive limits (`PositiveLimits`), since the mean of no value is 0; the
  policy's and the defaults are positive, the code does not check.
* **`MissesNeedReloads`.** A reader gets no policy only if a reload ran during its
  call. `MissInv`: a reader that is about to return the cache finds it filled and
  no reload at work, unless it was interrupted, and what is about to be stored is
  something.
* **`ReloadsTakeEffect`.** Unless a load held its file and had not stored it when a
  reload began, nothing older than the last reload that ended is in force.
  `EditInv`: then whatever is about to be stored is at least as new as the file
  was when a reload last began, and so is the cache of the scoring policy, which
  a reload empties at once; that of the allow list, emptied a step later, is as
  new as the last reload that ended.
* **`StoreStaysIdeal`.** For any number of requests and clears, the deque in use
  holds what a serial execution would hold, unless an append or a clear crossed a
  replacement. `StoreInv` adds that threads hold deques that exist (`HoldsDeque`)
  and that a clear which is about to replace the deque in use holds it without
  its PC (`HoldsCopy`); `ReplacedDeques` and `ChangedDeque` are the lemmas about
  the sequence of deques.
* **`ClearsForget`**, an action property. `ForgetInv`: from the moment a clear has
  dropped the latest sample, and while no request of its PC comes, there is none;
  and a segment of the PC that is in the deque in use is also in the deque that the
  clear is about to filter. The property used to
  say so of every clear; the attempt to prove it showed, and TLC confirmed with two
  clearing threads, that another PC's clear puts back what this one removed. The
  property now excepts a crossed replacement.

* **`PolicyTyped`, `WindowTyped`, `FleetTyped`.** The type invariants say more than
  types. `ReadOK`: what readers, reloads and caches hold came out of the loader,
  whose thresholds are ordered and whose numbers have their floors. `MadeOK`: no
  aggregate is of an empty buffer, also when two requests flush the same one; that
  each begins with a minute is part of `OrderInv`. `LengthsOK`, `ScoresOK`, `TimesOK`: every deque the
  slot has had keeps its bound, whichever one a thread still appends to.
* **`PartsStandAlone`, `PartsTyped`.** A behaviour of `Components` is one of each
  part, so every theorem about a part holds of the composition that the run
  `components` checks, and `PartsTypeOK` is the conjunction of six theorems. Its
  hypotheses on the settings are those of `SensingTyped`; the constants of the
  run meet them.

### Only model-checked

`NoStarvation` and `AcceptedIsForwarded` are liveness under fairness, which TLAPS
does not handle. Every other property of a passing run is stated by a theorem.
No module declares a RECURSIVE operator.

## 6. What was found

Four runs end in a violation of something the repository says:

1. `retraining_stops`: progress is measured by the length of a bounded deque
   (`retraining_scheduler.py:12`).
2. `known_miner`: the comment and a test say that a known miner is HIGH_RISK at
   once; the verdict is that of an average, and never looks at the process
   (`verdict_classifier.py:353`).
3. `window_is_minutes`: every request forces the minute's buffer into an
   aggregate, so "N minutes" are N requests (`analyze_router.py:128`).
4. `ttl_never_deletes`: the job calls its own transactional method past the proxy,
   and every batch raises (`MetricsTtlJob.java:57`).

Observed in the models and not made into runs. Client:

* A damaged queue file: a decoding error outside the loader's `try` stops the
  client at every start (`local_queue.py:127`).
* A client killed between `pop` and `re-put` loses that payload although the
  queue has a file, while `client_core/README.md:84-85` says that unsent payloads
  are recovered; `LossPerCrash` bounds the loss.
* A configuration with thresholds for one slot only lets the client start, and
  ends it when the other slot begins.
* `HW_MEM_DEGRADATION` can never fire with the default ratio of 2: a baseline of
  at least 50% cannot be exceeded twofold. `client_core/config/sample_config.yaml:53` still
  sets the ratio to 1.3, from which the detector's docstring says it was raised:
  a client that starts from the sample file has the former behaviour.

Spring server and tools:

* Check-then-act on the cooldown map: two threads store two alerts in one
  cooldown (`AlertService.java:91`). The mark survives a rollback: the next
  answers are dropped although nothing was stored.
* The forward is submitted inside the transaction: a full pool makes the request
  fail and rolls the metrics back, and the forward may run although the commit
  fails (`MetricsService.java:49`).
* `LastSeenUpdater` is submitted to the bounded pool from the filter: when it
  is full, the request fails there. Two overlapping requests may both update.
* A dry run of `provision_pcs` overwrites the key file. Rotating the key of a
  revoked PC leaves it revoked; registering it again activates it. A PC listed
  twice gets one key that is never accepted. `revoke_pc --stale` selects from a
  table that no migration creates.

ML server:

* Unlocked anchors with a fall-through to a weaker one: HIGH_RISK for a momentary
  observation (`category_gating.py:108`). A third category that has just become
  abnormal lowers a verdict which two had earned, because the duration is then
  that of all three.
* `apply_network_only_cap` lowers a HIGH_RISK of the categories, too: it looks at
  the signals of the moment, they look at the window. Promotion gating lowers the
  verdict and leaves the alerts at HIGH.
* `_last_discount` and `_last_clamped` are attributes of a function, which
  overlapping requests share; they are only reported.
* The score decays after 12 zeros, but a history of five is all zeros before.
* `DELETE /history` leaves the zero streak of the scores, the minute buffers and
  aggregates, the anchors, the traffic streak and the AI cooldown in place.
* The iteration in `detect_global_hw_degradation` is not protected: a PC that
  reports for the first time, or a clear, makes another PC's request fail.
* Two first requests of a PC: the second puts an empty dictionary in the place of
  the first one's, which then fails with a KeyError, or whose sample is lost
  (`pc_history_store.py:77-82`).
* Two clears in one slot: each filters the deque and then puts its copy in place,
  so that the later one restores the segments which the earlier one removed
  (`retrieval_store.py:137`).
* Peers are compared however old their samples are. A segment at distance
  exactly 0 reads as far away (`retrieval_evidence.py:131`).
* `get_scoring_policy` may return `None` or raise during a reload, which ends
  the request at `indicator_calculator.py:162` and `verdict_classifier.py:211`, and
  lets it go on without promotion gate, decay or cooldown elsewhere; a reader that began
  before a reload may store the older policy after it; a reload that fails
  leaves the caches empty until a reader fills them.

## 7. Not modelled, and the plan

Not modelled:

* `ml_server.py` and `client.py`, the superseded single-file programs: nothing of
  the current system imports them, and their rules are those of `ml_server/` and
  `client_core/`, which the models translate.
* `tools/sim_fleet.py`, `collect_data.py`, the evaluation and preview tools:
  random load, recorded data and printed statistics, without state that the
  running system shares.
* Spring's query controllers, entities and wiring: reads and mappings without
  state of their own. Grafana plugins and infrastructure.
* The pgvector store (its behaviour is that of SQL and an extension), the
  prompt, transport and parsing of the Claude service, and model fitting, which
  is numeric library code.
* `append_ml_score` and `predict_anomaly`: the averaged score of the model is an
  input of `SignalRules`. `pc_id.py`: a hash of the MAC address.
* Threads are switched between statements, not inside them. Four places take
  more than one statement as a step of `AnalyzeFlow`: reading and writing the
  traffic streak (`Extract`), looking for a missing slot and making it
  (`MakeSlot`, which makes an empty deque whose content is not part of this
  module), what a clear pops before the scores (`ForgetPc`), and keeping the
  sample (`KeepSample`). Just before them, a clear inside `ensure_pc_history` makes
  it raise a KeyError; this failure, beside a clear like the others, is left out.
* The requests of `AnalyzeFlow` have time stamps that parse. One that does not
  fails before it touches anything (`Unreadable` of `MlTraining`), with nothing
  beside it, and `FailuresHaveCauses` does not speak of it.
* A reload in `AnalyzeFlow` brings the same policy again, and one that fails is a
  `FillCache` that never comes; `PolicyReload` has other policies. The limits and
  discounts used when a rule finds no policy are those of the shipped file. The
  allow list is always there: a miss during a reload, for which
  `get_allowlist`'s callers use the names of `config.py` alone, is not modelled.
* `stat()` raising an OSError when the queue measures its file
  (`local_queue.py:208-209`), which skips an eviction.
* `MlTraining` is about one slot: a first request of the same PC in another slot
  which replaces the PC's dictionary is not modelled.

Planned, in this order:

1. What a request overlapped by others may still rely on: a bound on how far a
   model lags behind when requests overlap.
2. `EndToEnd`: a client, the ingest and the forward composed, with duplicates
   from lost answers carried through to the train history.
3. `predict_anomaly` with its score history, and the agent's runner with its
   timeout.
