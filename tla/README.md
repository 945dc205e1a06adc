# Verification of the ADIP inference gateway

TLA+ models of the gateway (`gateway/`: dynamic batcher, batching policies, service,
routes, lifespan, vLLM adapter) and of its benchmark harness (`bench/`: configuration,
prompts and arrivals, open-loop traffic, GPU sampler, the drivers of three experiments,
analysis), the TLC configurations that check them on small instances, and TLAPS proofs
of what matters most for every instance. Paths below are relative to the repository;
`batcher.py` is `gateway/core/batcher.py`, `final.py` is `bench/final.py`.

To check a run: `tlc -workers 2 -config MCBatcher.cfg MCBatcher.tla` (the table of
runs names module and configuration). To check the proofs:
`tlapm BatcherProofs.tla`, and the same for the other modules whose names end in `Proofs`.

## 1. The system

ADIP puts an HTTP gateway in front of a language model server. Callers POST one
prompt each; the gateway gathers compatible prompts into one backend call. A
benchmark harness drives the gateway with recorded arrival traces, runs a matrix of
experiments against it and analyses the records.

### Components, their state and their operations

| component | source | state | operations |
|---|---|---|---|
| Dynamic batcher | `gateway/core/batcher.py`, `models.py` | ingress `asyncio.Queue`, a dict of deques by `BatchKey`, the batch in flight, the coordinator task, `_started`, `_stopped`, one future per request | `start`, `stop`, `infer`; the task `_run` with `_collect_batch`, `_pop_batch`, `_dispatch` |
| Batch policies | `gateway/core/policies` | none (pure) | `decide` of the fixed and of the adaptive policy |
| Metrics | `gateway/observability/metrics.py` | counters, EWMAs of arrival rate and backend latency | `record_*`, `snapshot` |
| Inference service | `gateway/core/service.py` | none of its own | `infer`: pass-through or batched |
| HTTP API and lifespan | `gateway/api/routes.py`, `gateway/main.py` | application state | startup, `POST /v1/infer`, `GET /health`, shutdown |
| Backends and HTTP client | `gateway/backends`, `gateway/clients/backend_http.py` | an HTTP client, open or closed | `infer_batch`, `infer_one`, `aclose`; ordering the choices of a response |
| Events and logging | `gateway/observability/events.py`, `logging.py` | none | build, redact and write one record |
| Open-loop runner and client | `bench/runner.py`, `client.py`, `storage.py` | a task per scheduled request, the client's connections, the records file | send at the scheduled time, append a record, judge lateness |
| Final matrix | `bench/final.py` | run directories on disk, a gateway process per mode | measure, reuse or refuse a condition, mark overload, publish |
| Pilot and calibration | `bench/pilot.py`, `calibration.py` | files, a gateway process, a sampling task | run each rate, append, rerun |
| GPU monitor | `bench/gpu_monitor.py` | a list of samples, a thread with `nvidia-smi` | sample until told to stop |
| Arrivals and prompts | `bench/arrivals.py`, `prompts.py`, `scenarios.py` | none (pure) | make schedules, make prompts |
| Configuration and settings | `bench/config.py`, `schema.py`, `gateway/config.py` | none (pure) | validate |
| Analysis of the matrix | `bench/analyze_final.py` | the conditions loaded so far, groups of records | rebuild backend calls, accept a matrix, rows, paired effects |
| Summaries, plots, load test | `bench/summarize.py`, `plot*.py`, `load_test.py`, `scripts/` | none | summarise records, draw |
| Legacy helpers | `gateway/core/scheduler.py`, `types.py`, `gateway/backends/triton.py` | none | not used by the gateway |

### How they interact

A route handler calls the service, the service calls `DynamicBatcher.infer` (or the
backend directly, in pass-through mode). `infer` puts a `PendingRequest` on the
ingress queue and awaits its future. The coordinator task moves requests into deques,
asks the policy with a snapshot (queue age, size, deadlines, the metrics' estimates),
calls `backend.infer_batch` and sets the futures. The lifespan starts the coordinator
before serving and, on the way out, stops it and closes the backend. Everything in
the gateway runs on one event loop: tasks share memory, and switch only at an
`await`. The server (uvicorn) runs the handlers as tasks; at a signal it closes its
sockets, waits for the handlers and only then lets the lifespan go on.

A driver (calibration, pilot or final matrix) reads a configuration, makes prompts and a
schedule, starts a gateway process for each setting, runs the traffic of a condition with
the GPU sampler beside it and writes manifest, records and summary into the condition's
directory. The analysis reads those directories and nothing else.

### What is hard here

- **Interleavings.** A caller may be cancelled while its request is on the ingress
  queue, in a deque, in the batch that is being selected or in the call that is
  running; `stop()` may begin at each of these moments. The request object stays
  where it is and only its future says that nobody waits.
- **State read before an await and used after it.** The key that `_collect_batch`
  works for, `self._inflight` during a backend call, the emptiness of
  `self._queues` before `get()`.
- **Timeouts.** `wait_for(get(), wait_s)` races a put.
- **Fairness between keys**, as one key's open batch keeps the others waiting.
- **Failure of one call** among callers that have gone.
- **Boundaries** of window, deadline slack and batch size; of schedules, token ranges and
  the values of a configuration.
- **Shutdown**: server, handlers, coordinator and backend client wait for one another.
- In the harness: failure or death of an invocation at any step and resumption over
  what it left on disk, gateway processes that outlive their owner and answer for
  another one, files appended twice, a sampler that is stopped late or not at all, a
  slow server that must not slow down the traffic.
- In the analysis: records in any order, calls answered in part, conditions missing,
  excluded or there twice.

The hazards are listed one by one, with the properties that cover them, in
`PROJECT.json`.

### What makes each component correct

- Batcher: every accepted request is settled exactly once, with its own output; a
  call carries compatible, live requests, at most `max_batch_size`; first in, first
  out within a key and oldest key first; nothing is left waiting after `stop()`.
- Policies and window: nobody in an open batch is made to wait beyond the window or
  the deadline's slack; a full batch never waits.
- Service, API, lifespan: every request ends in one status, none reaches a closed
  backend client, metrics agree with the statuses.
- vLLM adapter: the choices of a response are matched to the prompts whatever their
  order, or the call fails.
- Open-loop traffic: a task starts late only by the harness's own writing, whatever the
  server does, and its request goes out then as long as there is a connection left; a run is rejected
  for late starts only; one record per request.
- Sampler: it returns in time and each of its calls leaves a trace, but one that raises.
- Drivers and matrix: a finished condition has one record per scheduled request, all of one
  invocation, and is never measured again; the published file is the evidence on disk;
  a condition is measured on the gateway of its mode.
- Inputs: the loader leaves a known list of things to the author of a configuration (lists that are missing or
  repeat themselves, requests beyond the gateway's limits, buckets that no copies of a seed fit);
  an accepted configuration runs through exactly if these are right. Prompts keep to their token ranges;
  schedules are exact.
- Analysis: it accepts exactly whole matrices, and weighs and compares like with like.

## 2. Modules

| module | models | role |
|---|---|---|
| `Batcher` | `batcher.py`, `models.py`, the counters of `metrics.py` | the detailed specification and its properties |
| `ServingContract` | what `DynamicBatcher` promises, without queues | abstract specification |
| `BatcherContract` | the refinement mapping from `Batcher` to it | `ImplementsContract` |
| `BatchPolicies` | `policies/fixed.py`, `adaptive.py`, `base.py` | pure operators |
| `CollectWindow` | `_collect_batch` and `_snapshot` in time, using `BatchPolicies` | detailed specification of one collection |
| `FinalMatrix` | `final.py`, the processes of `pilot.py`, the tasks of `runner.py` | the detailed specification of the matrix and its properties |
| `MatrixContract` | what the matrix promises to the analysis | abstract specification, `ImplementsContract` in `FinalMatrix` |
| `Gateway` | `service.py`, `routes.py`, `main.py`, `backend_http.py`, the counters; composed with `ServingContract` in the batcher's place | one process from startup to exit |
| `VllmChoices` | `backends/vllm.py`, `_order_choices` and `_parse_outputs` | a response that goes wrong step by step, and what the adapter makes of it |
| `Measurement` | `calibration.py`, `pilot.py` | both drivers over several invocations |
| `OpenLoop` | `runner.py`, `client.py`, `storage.py` | one condition's traffic in time |
| `GpuMonitor` | `gpu_monitor.py` | the sampler in time |
| `PromptSet`, `Arrivals` | `prompts.py`; `arrivals.py` | loops of pure functions |
| `ExperimentConfig` | `bench/config.py` against its users | validation |
| `OuterCalls` | `outer_call_metrics` of `analyze_final.py`, and how the records it reads come about | records to backend calls |
| `Analysis` | the rest of `analyze_final.py` up to what it writes | matrix to rows and effects |
| `BatcherProofs`, `BatcherContractProofs`, `CollectWindowProofs`, `GatewayProofs`, `InputsProofs`, `FinalMatrixProofs`, `ExperimentsProofs`, `AnalysisProofs` | | theorems and proofs |
| `MCBatcher`, `MCLiveness`, `MCWindow`, `MCFinalMatrix`, `MCGateway`, `MCExperiments`, `MCAnalysis`, `MCInputs` | | instances for TLC |

`Gateway` uses the batcher's contract and not `Batcher` itself: `Batcher` implements the
contract, so what `Gateway` shows holds of the two together, without their product of states.
`VllmChoices` and `Batcher` meet in the outputs of a call: `VllmChoices` shows that
they are in the order of the prompts, `Batcher` that each request gets the one at its place.
`Measurement` leaves time out, and has the traffic and the sampler of a condition as steps;
`OpenLoop` and `GpuMonitor` have them in time.

Definitions whose names end in `Bug` are seeded faults that no action uses. Each has
the shape of a plausible mistake in the code; put in the place of the definition
after it, it breaks a property, which shows that the property depends on that code.

### Batcher: state and actions

| variable | code |
|---|---|
| `worker` | where `_run` is: the values in `Suspended` are its awaits (`idle`: line 144, `wait`: 178, `backend`: 204; `new`: created, not begun), the values in `Running` are places between awaits; `crashed`, `cancelled`: how the task ended |
| `key` | the argument of `_collect_batch` |
| `ingress`, `keyed`, `pending` | `self._queue`; the keys of `self._queues`; their deques |
| `batch`, `inflight` | the list in `_pop_batch`; `self._inflight` |
| `outcome`, `answer` | each request's future: unsettled, result (made from which request's output), exception, cancelled; or why `infer` raised before making one |
| `enqueuedAt`, `clock` | `metadata.enqueued_at` and the monotonic clock; two readings may be equal |
| `metrics` | completed, failed, rejected, batches |
| `shutdown` | the progress of `stop()`; `_stopped` is `shutdown # "no"`, `_started` is `worker # "none"` |

| actions | code |
|---|---|
| `Start`, `WorkerBegins` | `start`, first step of the task |
| `Refuse`, `Reject`, `Accept`, `Cancel` | `infer` (not accepting, queue full, enqueued), cancellation of its caller |
| `Drain`, `GoIdle`, `IdleWake`, `PickOldest`, `PickFails` | `_run` |
| `Sweep`, `CollectNothing`, `DispatchNow`, `KeepOpen`, `WaitWake`, `WaitTimeout` | `_collect_batch` |
| `PopNext` | `_pop_batch` |
| `SkipEmptyBatch`, `Dispatch`, `BackendReturns`, `BackendFails` | `_dispatch` |
| `Stop`, `WorkerCancelled`, `StopSettles` | `stop` up to its await, the cancellation reaching the coordinator, `stop` after its await |

What of asyncio the model relies on:

- Between two awaits nothing else runs. Callers, cancellations and `stop()` are
  enabled only while the coordinator is suspended or gone (`Yielded`). Loops without
  an await are several steps, one per iteration, which nobody can observe. Settling
  all futures of a call is one step.
- `Queue.get()` never loses an item when it is cancelled, and `wait_for` (Python
  3.12, which `pyproject.toml` requires) either returns the item or leaves it on the
  queue. `WaitTimeoutBug` is what older versions could do.
- `wait_for(get())` does not suspend when the queue holds something
  (`KeepOpen`). The timeout it is given is positive whenever the policy
  waits (`PolicyContract`); a timeout of zero would skip the get.
- A task that `stop()` cancels gets the `CancelledError` at the await at which it is,
  also when what it waits for is ready: after `Stop` the coordinator takes no other
  step than `WorkerCancelled`.
- A caller's cancellation cancels its future at once.

Abstracted: the policy is a free choice that must dispatch a full batch (`BatchPolicies`
and `CollectWindow` have the rest); the texts, token counts, latencies and events
are left out; a request is identified with its prompt, so `answer[r]` says from whose
prompt the response was made. A second `stop()` or `start()` changes nothing and is
a stuttering step. `record_batch` and the EWMAs are a counter and nothing.

### CollectWindow: state and actions

One collection, by one call of `_collect_batch`, from the moment the coordinator
turns to a key (`Begin`) or earlier (requests queue up while it is `away`). Time is
in whole ticks and does not pass while the coordinator runs or when its timer is
due. `Ask` sweeps, takes the snapshot and asks the policy; `Arrive` ends a wait, and so does `PassBy`, a request of
another key or one whose caller has gone, after which the policy is asked again about the same deque;
`TimedOut` ends the collection. The arrival rate, an EWMA, may be anything in `Gaps` at each decision, given
as the time between arrivals; the estimate of the backend's time does not change
while a batch is open, because only a call changes it. Times of the code are floats; the
comparisons and sums of the policies are the same on ticks, and rounding is left out.

### FinalMatrix: state and actions

| variable | code |
|---|---|
| `dirs`, `manifest`, `records`, `summary` | the run directory of each condition, `status` in its `manifest.json`, its `requests.jsonl`, `summary.json` |
| `aggregate`, `summaries` | the file that `run_final` writes at the end, and its list |
| `starting`, `port` | gateway processes before they open port 8000, and the one that has it |
| `pc`, `mode`, `cond`, `own`, `outstanding` | where `run_final` is, its loops (repetitions and rates taken together), the local `gateway`, the tasks of `run_open_loop` |
| `run`, `ending` | number of the invocation, how it ended |

| actions | code |
|---|---|
| `Launch`, `EnterMode`, `ModeDone`, `Unwind`, `CloseFails`, `WriteAggregate` | `run_final`; `_start_gateway`, `_stop_gateway` |
| `HealthOk`, `HealthFails` | `_wait_for_gateway` |
| `Reuse`, `RefuseExisting` | `_load_existing_summary` |
| `CreateDir`, `WriteStarted`, `StartTrace`, `WriteSummary`, `WriteComplete` | `_run_condition` |
| `Record`, `Overload`, `MarkInvalid` | `run_open_loop`, `_mark_invalid_harness` |
| `Fail`, `Kill` | an exception in the try statement; the death of the harness, after which its child processes live on |
| `Bind`, `Exit`, `Archive` | outside the repository: uvicorn opens the port or exits; the operator moves an incomplete directory away, as the error message asks |

Each write to disk is a step: `write_json_atomic` replaces the file in one, `append_jsonl`
appends a whole line and syncs it. Loss of synced data (a power failure that loses a rename) is
left out. A record carries the gateway that its request was sent to; requests that fail
are recorded too, so what they returned does not matter. Warmup requests and GPU
samples only matter by failing, which is `Fail`. One action for the exception
stands for every statement that can raise, as nothing distinguishes them before the finally
clause. That a killed gateway outlives `_stop_gateway` is modelled in `Measurement`, which uses the same function, and
left out here.

### MatrixContract

A condition gets its evidence (its final status and its records) once and for good; the matrix is
published only when every condition has evidence, and tells that evidence. The mapping
takes a condition's evidence from its final manifest and the published matrix from
the entries of the aggregate.

### ServingContract

The promise to callers: futures, one backend call at a time, and the phase of the service
(`unopened`, `open`, `closing`, `closed`, `broken`). A call is made only for unsettled
requests of one key, at most `MaxBatchSize`; its end settles all that are still
unsettled, in one way; a request is turned away for overload only when at least `QueueMaxSize`
others are unsettled or cancelled; closing abandons the call and settles everybody. `broken` is
what the code adds to a wish: a `stop()` that raises and settles nobody.

### Gateway: state and actions

| variable | code |
|---|---|
| `outcome`, `call`, `phase` | the batcher, as `ServingContract` has it |
| `server` | uvicorn and the lifespan: `serving` is the `yield` of `lifespan`, `draining` the wait for handlers, `stopping` the await in `stop()`, `closing` the one in `aclose()` |
| `handler`, `reply` | the await of each request's handler; the status code it ended with |
| `cause` | the exception that ends its backend call |
| `client` | `BackendHttpClient`'s `is_closed` |
| `metrics` | the counters that the service, the batcher and pass-through calls bump |
| `deployment` | `gateway_mode`, and whether the server waits for its handlers |

`ReceiveBatched`, `ReceivePassThrough`, `PassThroughReturns`, `PassThroughFails` and `Resume` are
`InferenceService.infer` with the route around it; `Startup`, `Stop`, `CallAbandoned`, `StopReturns`
and `Exit` the lifespan; `Dispatch`, `CallReturns` and `CallFails` the contract's calls with the counters
that go with them. `Signal`, `Drained` and `Cancel` are the server's. A server that does not drain (it
cancels handlers, or leaves the lifespan under them) is modelled too, as nothing in the code excludes it;
the properties say which of them need the drain. `aclose` counts as done when it begins, because
the client is marked closed before anything is awaited.

### VllmChoices: state and actions

`choices` is the list of choices in a response for `n` prompts, with the text of each named by the prompt it
completes. It starts as the right answer, with indices or without, and the server swaps, drops,
repeats, relabels and garbles (`faults` is the history). `Accepted`, `Ordered` and `Outputs` are the code:
what is refused with an error for the whole batch, and what the batcher gets otherwise.

### Measurement: state and actions

`at` is the pair of loops over windows and rates, `pc` the place in `run_pilot` or `run_calibration`
with its `_run_condition` or `_run_rate`; `pilot` says which of the two drivers runs. `requests`,
`manifest`, `summary` and `aggregate` are the files, `listening` and `own` the gateway process,
`sampler` the sampling task. Every step can raise: `Wait` and `Raise` (the traffic) have an outcome of their own for
it, `Break` is every other statement that does, writes and git, the warm-up, the wait for the sampler
and the interrupt key at any await, also those of the cooldown. `Fail` is the finally clauses and the end of
`asyncio.run`; requests that are still under way then append after their run has failed
(`Record`). `_stop_gateway` raises as well, when the gateway that it killed has not died after five
seconds (`stuck`; it answers nobody, and `Buried` is its end). The driver may be killed, which leaves its gateway
(`Crash`); a second interrupt, which breaks into the finally clauses, is such a kill. Unlike
the matrix both drivers write into directories that are there already.

### OpenLoop and GpuMonitor: state and actions

`OpenLoop` has a task per request (`Wake` after its sleep, `GetConnection`, `TimesOut`, `Record`), the
pool of connections beneath the client, which serves in turn, and `busy`, the time for which an append (which flushes and syncs)
blocks the event loop. `Respond` is the server, which owes nothing. `GpuMonitor` has the task
(`Loop`, `SampleReturns`, `SampleRaises`, `Wake`), the driver's event (`SetStop`) and `nvidia-smi`, which may print
anything, what Python cannot decode included, fail or hang until its timeout. Both count time in whole ticks, which pass
only when the event loop has nothing to do.

### PromptSet, Arrivals, ExperimentConfig

Loops of pure functions, one iteration per action, over a free choice of what is random or read from
a file: lengths of seeds, gaps that `expovariate` may return, edits to the frozen
configuration. Rates are fractions, so that `rate * duration` is exact. A step of `Arrivals` is one index of the
constant schedule (`Tick`) or one draw of a random one (`Draw`), which may return zero. On exact fractions the `1e-12` that
`arrivals.py:13` takes off before the ceiling, which is there for what floats add, changes nothing.

`ExperimentConfig` has the
validation (`Accepted`) beside what each later part of the matrix insists on, taken from the code of those parts:
`GatewayStarts`, `RunStarts`, `PromptsExist` (the loop that repeats a seed until it fits a bucket), `RequestsTaken`
(the limits of `gateway/core/models.py`) and `MatrixRuns` (three loops, each turn with a directory of its own).
`LeftToAuthor` says in terms of the single values what the first does not ask for and the others need. It is
about the fields of the module: the lists of the other two drivers, the model that a backend serves and its limits, files and paths
are left out.

### OuterCalls and Analysis: state and actions

`OuterCalls` begins with the truth (which request was in which call, which calls failed, which
answers were lost), writes the records in any order, and then runs the loop of
`outer_call_metrics` over them line by line, where each request that failed is a call of its own. `Analysis` begins with what lies beneath the input (`disk`, any
of `Disks`: a set of manifests, strays and duplicates among them), reads the manifests in some order
(`ReadManifest`), checks the matrix (`CheckMatrix`) and writes rows and effects (`Write`); a mean is
its sum and its count, and a sum that of a function over the runs or pairs it is taken of.

## 3. Runs

| run | module / cfg | shows |
|---|---|---|
| `batcher_safety` | `MCBatcher` / `MCBatcher.cfg` | the invariants and action properties of `Batcher`, and that it implements `ServingContract` |
| `liveness` | `MCLiveness` / `MCLiveness.cfg` | accepted requests are settled, `stop()` returns; nobody starves under callers that never stop coming |
| `window` | `MCWindow` / `MCWindow.cfg` | with either policy, window and deadlines are honoured and collections end |
| `shutdown` | `MCBatcher` / `MCShutdown.cfg` | a counterexample: the first finding below |
| `gateway` | `MCGateway` / `MCGateway.cfg` | replies and counters agree, no call meets a closed client, shutdown is graceful and ends |
| `matrix` | `MCFinalMatrix` / `MCFinalMatrix.cfg` | evidence and gateways are accounted for, `FinalMatrix` implements `MatrixContract`, an invocation ends |
| `matrix_isolated`, `matrix_same_command` | `MCFinalMatrix` / `MCMatrixIsolated.cfg`, `MCMatrixResume.cfg` | counterexamples: the second and third finding |
| `experiments` | `MCExperiments` / `MCExperiments.cfg` | `Measurement`, `OpenLoop` and `GpuMonitor` |
| `load_falls` | `MCExperiments` / `MCPool.cfg` | a counterexample: the fourth finding |
| `analysis` | `MCAnalysis` / `MCAnalysis.cfg` | `OuterCalls` and `Analysis` |
| `inputs` | `MCInputs` / `MCInputs.cfg` | `VllmChoices`, `PromptSet`, `Arrivals` and `ExperimentConfig` |

The properties and the code behaviour each is about are described where they are
defined, at the end of each module. A property that a run lists is often the conjunction of
a few that belong together (`InTurn`, `EvidenceAccounted`, `SamplerAccounted`, ...); each part has a
comment of its own and, for most, a seeded fault of its own.

**One run for several modules.** `experiments`, `analysis` and `inputs` each check modules that share
no state: a variable `part`, chosen in the initial state, says which of them a behaviour is about,
and the variables of the others stay where they begin. The states are the sum, not the
product, of those of the parts, and what is shown of one does not depend on the others.
`window` in the same way has both policies, `gateway` all four deployments, and `liveness` two kinds of callers
(`endless`).

**Bounds and why they are enough.** `batcher_safety`: three requests of key A, one of key
B, batches of two, ingress queue of two. Three A's fill a batch and leave one behind, the
queue overflows while one call runs, and the B competes for being oldest. `liveness`: two A's and a B that are cancelled and stopped
(symmetry would be unsound there and is not used); and, when `endless`, two callers per key
who come back after each answer; stamps are renumbered by rank, which keeps every
comparison the code makes, so the state space is finite without a bound on the number of
requests. `window`: four requests, one with a deadline the backend's time alone
exceeds, one tighter than the window, one looser, one without; batches of three, window of three
ticks, the coordinator away for at most `Horizon = 4` ticks, longer than a window; an
arrival rate with gaps of nothing, one tick and one window. `gateway`: four requests of two keys in
all four deployments, with batches and a queue of two, so that one can be in a call, one waiting and one
turned away while a shutdown begins. `matrix`: a direct and two gateway modes with one
condition each, two requests per condition, two invocations: evidence of the first is
resumed, refused or met by the second, and an orphan of the first can answer for each mode of
the second. `matrix_isolated` and `matrix_same_command` are about two invocations at most.
`experiments`: two windows and two rates, two requests each, three invocations, of
which one can leave a mess, one fail on it and one complete over it; four requests of which
two are due at once, with a pool of two connections (which fills up) or four (which cannot), an
append as long as two gaps between arrivals; a sampler with time for two or more samples whose
calls may take longer than its interval. `load_falls` has the pool of two, no append that blocks and no late
request allowed. `analysis`: four requests in up to four calls, numbered canonically
(calls and requests are interchangeable); matrices of two modes, two rates and two repetitions, once with
every kind of fault in up to two conditions and a stray manifest, once with every condition terminal and every kind
of metric. `inputs`:
three prompts and four faults; up to six seeds, odd and even, against buckets that are narrow, wide and
out of reach; rates and durations that divide and do not. For the configuration two edits, as no check
relates more than two values (that of colliding directories has all three lists, but a collision is one list that
repeats itself), with the integers -1, 0, 1, 2 and 4, lists of at most two items and at most one bucket. One seed is a token, the other
two, so that a bucket of exactly four tokens, one of them besides, is met by copies of the first and missed
by copies of the second. The gateway's limits are 2 on `max_tokens` and 1 on
`temperature`, with 4 and 2 beyond them.
Symmetry (requests of one key) is used in `batcher_safety` only: its temporal
properties are action properties and a safety refinement.
Deadlock is checked in all runs; `Terminating` is the end of a program in which
every call has ended. In `inputs` it is always enabled: a response or a configuration need
not change any further.

**Fairness.** Weak fairness of the coordinator and of `stop()`'s second half: the event loop
runs every ready task, `wait_for` has a timeout, and the backends bound their calls (a sleep,
or an HTTP client with a timeout). Callers owe nothing: they need not call, cancel or stop.
The endless callers add strong fairness of closing the window. It is justified by
`WindowHonoured` and `OthersWaitOneWindow`: the window of the oldest request is not
extended by arrivals. Cancellations can extend it (each cancelled head moves the window to the next
request), so there are none among the endless callers; that a stream of cancellations could hold up other keys is the
reason. `CollectWindow` assumes weak fairness of the coordinator and of time while it waits.
`Gateway` assumes weak fairness of the lifespan, a task like any other, and, only where the server
drains, of serving: that the coordinator goes on making calls is `AcceptedSettles` of `Batcher`, for a
coordinator that no cancellation has killed, and a server that drains cancels nobody. Signals and requests
owe nothing. `matrix` assumes weak fairness of the harness: its wait for a gateway has a deadline and its
clients a timeout. Gateway processes owe nothing: they need not open the port nor exit. `Measurement`
assumes the same of its drivers; that the traffic and the sampler end, which its steps take for
granted, is what `EverythingEnds` shows of `OpenLoop` and `GpuMonitor`. These assume that the event loop
runs what is ready and that time passes, and nothing of the server, of `nvidia-smi` or of the driver's event. The kernel owes nothing either: a killed gateway
may stay (`Buried` is not fair).

**First finding (`shutdown`).** `README.md:75` says: "Cancellation and shutdown settle queued and
in-flight futures." The code does not always: the coordinator blocks at `batcher.py:144`; a
request is put, which makes the coordinator ready, and its caller is cancelled before it runs;
`_enqueue_pending` skips the request, `self._queues` is empty and `_oldest_key` (line 148) raises
`ValueError`. The task is dead, nobody notices, later requests are accepted and wait forever, and
`stop()` re-raises at line 76 before it settles anything. `CrashStrandsOnlyLater` states what
still holds: this is the only way in which the coordinator dies, and only requests accepted
after the cancelled one are stranded. Checking `self._queues` again before line 148 removes it.

**Second finding (`matrix_isolated`).** `pilot.py:179` says: "Start one isolated gateway process for a
fixed wait setting." `run_final` waits for the gateway (`final.py:72`) before its try statement; the
pilot does so inside (`pilot.py:53`). If the wait times out or is interrupted, nobody stops the process. When
it opens port 8000 after that, the next invocation's own gateways cannot, and its health checks
are answered by the one left behind: every gateway mode is measured on it and marked complete.
The counterexample needs no kill (`MCUnkilledSpec`). `OnlyOrphansMislead` states what still holds: a
wrong gateway is always one that an earlier invocation left, and `NoGatewayLeft` names the ways
to leave one.

**Third finding (`matrix_same_command`).** `docs/REPRODUCIBILITY.md:62` says: "Existing complete conditions
are reused, so an interrupted matrix can be resumed with the same command." This is so between conditions. An
interruption inside one leaves an incomplete directory, and the same command raises `ConfigError`
(`final.py:252`, `260`) until somebody archives the directory. That refusal is what keeps the evidence whole: without it
`WholeEvidence` fails (`FreshBug`).

**Fourth finding (`load_falls`).** `README.md:91` says: "Scheduled arrivals continue independently of service
slowdown, so offered load does not silently fall when latency rises." The tasks start on time, but the arrival is stamped
before the client's pool (`runner.py:44`). The client is made without limits (`client.py:48`), and httpx's default
are 100 connections. A condition of the frozen matrix has up to 216 requests and a timeout of 120 s: when the
server is slow enough to hold 100 of them, the others are sent when one of these is answered, and the drift check, which
compares the stamps, sees nothing. In the counterexample a request that is due at 2 is sent at 3 and the run is `valid`.
`LoadOffered` states what holds: with a connection for each request every one goes out on time, up to
those that may be late.

**Seen while modelling, without a run.** Here the code can be read off a line, and the models say what
holds instead:

- `metrics.py:42` says "Record one accepted request and update its arrival-rate EWMA." The service records a
  request before the batcher has decided on it (`service.py:59`), so requests that are turned away with
  503 are counted and raise the arrival rate that the adaptive policy reads. `CountersMatchReplies` has
  `received` as all requests that came.
- `analyze_final.py:121` says "Return the call-weighted mean prompt count from request-level records." A
  failed record has no batch id and no size (line 82), so each is a call of size one, whatever call it was in.
  `Reconstructs` says so: the groups are the calls that were answered, and one for each failed request.
- `gpu_monitor.py:82` says "Collect one sample, returning explicit error records on failure." `subprocess.run` is called
  with `text=True` and raises `UnicodeDecodeError` when the output is no text; line 93 catches `OSError` and
  `TimeoutExpired` only. A field that is too long raises `csv.Error` at line 45, which is no `ValueError` (line
  107). Either leaves `monitor_gpu` (`SampleRaises`), and with it go the samples of the condition and the condition
  itself. `EveryCallCounts` has no other exception.
- The loader accepts configurations that fail later. A value twice in `final_modes`, `final_rates_rps` or
  `final_repetitions` (`config.py:94`) comes to its own run directory and raises (`final.py:243`) unless
  `resume_existing` is set; `max_tokens` and `temperature` beyond `gateway/core/models.py:17` and `18` are answered with
  422, at which the warm-up raises; a bucket between two multiples of a seed raises
  `PromptGenerationError` (`prompts.py:148`, and `test_bench_arrivals.py:68` expects it); the three lists may be missing.
  No document says otherwise; `LeftToAuthor` is this list, and `AcceptedRuns` says that it is complete.
- `docs/REPRODUCIBILITY.md:75` speaks of excluding runs that fail "the arrival-drift or request-error gates".
  There is no gate on request errors: only drift makes a run `invalid_harness`.
- `final.py:298` says analysis "must exclude" a marked condition "from metrics"; the mechanism figure takes
  `mean or 0.0` (`analyze_final.py:444`) and draws a condition without runs at zero.
- `schema.py:28` says a bucket has a "workload sampling weight". The weights are checked (`config.py:186`) and
  never used: requests take the prompts in turn (`calibration.py:57`).
- `build_prompt_set` counts the bucket's own prompts into the index of the seed (`prompts.py:123`), so that
  seeds are taken two apart; four seeds give four prompts of a bucket two different texts (`SeedsVary`).
- `config.py:467` accepts a bursty low rate of zero, which `bursty_arrivals` refuses, and every driver makes constant
  arrivals whatever `arrival_kind` says. The pilot's manifest records the configured
  `gateway_mode`, and its gateway is always started batched. Two equal rates of one configuration share a run directory.

## 4. Proofs

`BatcherProofs`, for any finite or infinite sets of requests and keys, any
`MaxBatchSize` and `QueueMaxSize` of at least one; the assumptions are the named ones of
`Batcher`. Each theorem rests on an inductive invariant:

- `TypeCorrect`: `TypeOK` is not inductive, as popping indexes `pending[key]` and `key` may be
  `None`; `TypeInv` adds that a key is selected whenever the coordinator collects or pops.
- `NothingLost`: a live request is held. Inductive with `Handover`, which says that a batch under
  construction exists only at `pop`, and a batch in flight only at `backend` or after a
  cancellation; otherwise `Dispatch` could overwrite a list that still holds requests.
- `ReturnedStopSettles`: from `NothingLost`, `Handover` and the fact that no action after
  `stop()` makes a new future.
- `SettledForGood`: a case analysis of each action's effect on one future (`FutureSteps`).
- `CallsAreCompatible`, `CallsAreForLiveRequests`: `BatchInv` says that each deque holds requests of
  its own key and that the list being popped holds live requests of the selected
  key, no more than fit. The former is needed because requests of other keys enter deques while a batch is
  held open.
- `OwnOutputs`: by the position of a request in `inflight`.
- `DictWellFormed`: with `TypeInv`.

`BatcherContractProofs`, under the same assumptions, has three more:

- `NeverTwice`: `HeldOnce` is inductive with `HeldOpen`, which says that what is held has been accepted and was
  settled by its caller or not at all; otherwise `Accept` could add a request that is held already.
- `ServedInTurn`: `OrderInv` says that each container is sorted by `enqueued_at`, that the ingress queue is
  younger than the rest, and that a batch is older than what is left of its deque. `OldestInv` keeps the request
  for which the key was selected: nothing that waits is older, and it stays the first of its batch unless it is
  cancelled, whatever is swept, popped or added meanwhile (`FirstStays`).
- `CrashIsLimited`: `CrashInv` follows the request that woke an idle coordinator. If no deque came of it, it was
  cancelled, and by `OrderInv` nothing that waits is older.

and two for any finite set of requests, as they count them:

- `BatcherImplementsContract`: each kind of step is mapped by a lemma of its own (`CallerStep`, `DispatchStep`,
  `FinishStep`, `StopStep`, `CancelledStep`, `SettleStep`, `StartStep`), from the invariants above and `RunsOnlyOpen`,
  which says that `stop()` begins only while the coordinator is suspended or gone. Overload needs `HeldOnce`: a
  full ingress queue holds that many different requests, all of them in the contract's backlog.
- `CountersAgree`: `MetricsMatchOutcomes` is not inductive: it does not exclude that a cancelled request in a
  failing call has been counted before. `MetricsInv` bounds `failed` by the cancelled requests that have left the
  batcher (`Gone`) instead, who do not come back.

`CollectWindowProofs`, for any finite set of requests, any deadlines, window, batch size and either
policy: `PolicyContract` (the policies alone), and from it the inductive `WindowInv`, whose part
`TimerInv` says that the timer, once set, lies within the window and slack of
everybody who is in the deque, hence of everybody who remains after cancellations. The three window
theorems follow.

`InputsProofs` is about the four small machines of `MCInputs`.

- `EveryTextGivenBack`, for batches of any size and any number of faults in any order. The invariant has four parts. `LabelInv`: a label in range that is still there is the
  right one, because a fault can only make it none, no integer or out of range. `PlaceInv`: unless a
  choice was moved or lost, the first `n` choices are in their places, and repeated ones come after them;
  it is what a response without indices relies on. `OrderIsNoError` itself, which swaps preserve
  (`SwapAccepted`), and `TypeOK`. `OwnText` follows with `LabelsCover`: as many distinct indices
  as there are prompts, all in range, cover every prompt (a finite injection is onto), so the last error of
  `_order_choices` is never raised and its lookup never fails.
- `PromptsAreFit`, for any seeds, buckets and number of prompts. `PromptInv` gives the bucket and the seed of each
  prompt by its number alone: `BucketAt`, `SeedAt`. From it: a bucket has the prompts of a range of numbers
  (`RangeOfBucket`), so it has `PerBucket` of them; two of one bucket, `d` apart, have seeds `2d` apart, which is a multiple of
  the number of seeds only if that is too small or even (`TwiceApart`). A refusal stands where the first fit would
  be the least of a set of numbers of copies, so that set is empty (`NothingFits`); more copies than `high` are longer than `high`.
- `SchedulesAreExact`, for any rates, durations, intervals and gaps. Of the constant schedule: it has the indices tried so far
  that are in time, and those tried in the end are all that could be (`CountBounds`). Of the random ones (`DrawInv`): the clock of
  the interval stands at its last arrival, before the end of the interval; `OwnRate`, an action property, needs just that.
- `AcceptedConfigsRun`, for any integers and lists of any bounded length, after any number of edits: `ConfigTypes` is inductive, and each user
  is a lemma about an accepted configuration. `AcceptedRuns` is an equivalence, so two of the lemmas are: some number of
copies fits a bucket if and only if the bucket has a length above `Extra` which the seed divides (`CopiesOf`), and
two turns of the loops share a directory if and only if one of the lists repeats itself (`Directories`). `NotANumber` must not be an integer,
and seeds have at least one token.

`GatewayProofs`, for any requests, keys and deployments. `ClosedAfterCalls` rests on `Inv`, which says how
lifespan, batcher and client go together (`LifespanInv`), that a call runs only while the batcher is open or
closing (`CallInv`), and that behind a server that drains no handler is in progress once it left the wait
(`DrainInv`). `ShutdownUnnoticed` adds `CallersInv`: there a pending future is always awaited by its handler, so
`stop()` finds none to settle, and every error has a cause in the backend. `RepliesCounted`, for any finite set of
requests: `CountersMatchReplies` speaks of moments without a request in progress and is far from inductive.
`StoryInv` says how future, handler and reply of one request go together at any moment. `CountInv` gives each
counter as the size of a set of requests; only `failed` has a range, as the members of a failing call are counted whether or
not their callers had gone before (`Gone`). Each step moves a counter and its set alike; at rest the sets
of `CountInv` are those of the replies, up to the cancelled.

`FinalMatrixProofs`, for any modes, any number of conditions and invocations, any finite trace, and a harness
that may fail, be killed and be resumed at any step:

- `GatewaysKnown`: `OwnInv` ties `own` to the place in the loop, `AliveInv` says that no gateway is younger than
  the invocation. With `NoGatewayLeft` they are inductive, and a recorded target is the gateway of this mode or an
  orphan (`TargetOwn`).
- `ReportedAsMeasured`: `CurrentInv` follows the condition that is being filled, step by step, and says that it
  is not final meanwhile; `NothingElsewhere` that a directory which is not there holds no records. So a
  condition becomes final whole, and stays as it is (`FinalStays`). `AggregateInv` then says that the list
  of summaries is what is on disk for the conditions up to `Position`; `NextCell` is the arithmetic of the two loops.
- `MatrixImplementsContract`: what is final keeps its evidence (`VerdictStays`), the two loops come to every condition
  once (`EveryCell`), and so the file tells the evidence of each (`AllTold`).

`ExperimentsProofs` has the two drivers, their traffic and their sampler. For any number of windows, rates,
requests and invocations of a driver:

- `MeasuredCleanly`, whichever step raises: `GatewayInv` says that the gateway which answers is the one this window
  started, as long as no driver was killed, and that one which was killed and stays is nobody's and answers nobody; `SamplerInv` where a sampling task may live; `CalibrationInv` that the calibration has no
  gateway.
- `EvidenceWhole`: `MarkInv` says that a manifest names an invocation at least as late as every record of its
  condition, and an earlier one than this for the conditions that lie ahead, so that what this invocation finds in a
  file is older than what it appends. `EndingInv` says that the results in memory are the end of the file, and all
  of its records by this invocation: a record that comes after its run has failed can no longer meet a summary.
  `ListInv` gives the place of each summary in the list; that places do not collide is `OwnPlace`.

For any finite trace, any pool, timeout and longest append:

- `EachRecordedOnce`: the file lists the tasks that are done, each once (`RecordsInv`), and the run is judged
  when all are done (`VerdictInv`); a file is then a bijection with the requests.
- `ArrivalsKept`: `LateOnlyByWriting` is not inductive, as it says nothing of a request that still sleeps.
  `ClockInv` does: while it sleeps neither the clock nor the end of the append that blocks the loop is further from its
  time than one longest append for each line of the file. With a connection for each request nobody waits for one
  (`PoolInv`, by counting who holds one), so a request is sent when it arrives, and those that a valid run has off
  schedule are among the late ones that it counted. A verdict is reached when all tasks are done and their arrivals stay, so
  `RejectedForCause` follows from it; that an append has blocked the loop is `LateOnlyByWriting` once more.

For any duration, interval, timeout and output of `nvidia-smi`: `SamplerKept`, from `TimeInv` (a sample is begun
within the duration, a sleep ends within it), `StopInv` (after the event one call can still come, and from where the
task is now how late) and `EvidenceInv` (each call but the one that runs or has raised has added to the list, by
`SomethingSampled`).

`AnalysisProofs` is about sums. They are folds of the community modules, over a function that is chosen to be one,
so that one exists and is unique comes first (`AdderExists`, `AdderUnique`). The library's induction over finite
sets takes an operator and cannot be used; `SubsetInduction` has a set of sets in its place, and follows from the
well-founded order of the finite subsets. From it: how a sum takes a set apart (`SumAny`), by group (`SumByGroup`) and under
a renaming (`SumRenamed`).

- `WholeOrRefused`, for any finite modes, rates and repetitions and anything that may lie beneath the input: the
  loop is at a set of manifests that are read, pairwise of different conditions and terminal, with `runs` and `excluded`
  as its two parts (`LoadInv`); a failure names what it met.
- `ResultsAreFair`, for the same: in a written report the rows are disjoint parts of the measured runs, and
  `SumByGroup` adds them up. Within a row a repetition has one run (`SourcesWhole`), so the pairs of an effect are as many
  as the repetitions that both modes have, and when these are the same each side of the difference
  is a row, renamed from pairs to runs.
- `CallsAreRebuilt`, for any finite set of requests, any calls and any order of records: `CallsInv` says that the lines
  read have distinct requests, and that each group has the size and duration of every record in it and counts those that were
  read. When all are read the groups are those of the calls with an answer and those of the failed requests
  (`GroupsCounted`: two injections with disjoint images), and the sizes of a group are the members it counts (`SizeIsCount`);
  without a failure the groups are in bijection with the calls.

Every safety property and action property of the passing runs is stated by a theorem. Only model-checked: all liveness
(`AcceptedSettles`, `StopTerminates`, `NoStarvation`, `Closes`, `NobodyWaitsForever`, `InvocationEnds`,
`EverythingEnds`), which is out of the prover's reach, as is `ENABLED`.

## 5. Plan

Done: all modules of section 2, with the proofs of section 4. What could still be proved is half of a liveness
property: that each step of a shutdown or of an invocation brings it nearer to its end (a measure that decreases, an action
property); that there is a next step is about `ENABLED` and stays with TLC.

## 6. Not modelled, and why

- Events and logging: formatting and redaction; no decision of the program depends on them. In batched mode the
  `request_received` event and the response carry different request ids, as service and batcher each make
  one (`service.py:67`); nothing reads them together.
- The EWMAs of `metrics.py`: floats. `CollectWindow` lets the arrival rate be anything at each decision and
  has any fixed estimate of the backend's time. The list of batch sizes (`metrics.py:69`) grows for as long as the
  gateway runs; there is no bound to check.
- Figures, tables, intervals and fits of the analysis; `summarize.py`, the plots and the chart script: floats
  and drawing over finished records.
- The load test: a closed loop that the recorded experiments do not use.
- Paths, names, the model table but for `max_tokens` and `temperature`, argument parsing and git metadata of configurations and manifests, and `schema.py`,
  the shape of the records: data without control.
- The turn in which requests take the prompts, token counts and the payload sent to vLLM.
- The legacy helpers (`scheduler.py`, `types.py`, `triton.py`): not used.
