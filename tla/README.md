# easy-bpmn in TLA+

easy-bpmn runs BPMN processes as sagas on Cloudflare: an HTTP Worker, a D1 database, two kinds of
Durable Object and, in one of its two execution modes, a Cloudflare Workflow per instance.  These modules
model its concurrent core and the gate that decides which processes it runs; TLC checks them on small
instances, and TLAPS proves the results listed below for every value of the constants.  Paths are relative
to the repository; `PROJECT.json` maps each definition to the lines it stands for.

## 1. The system

| component | state it keeps | operations | hard behaviour | what makes it correct |
|---|---|---|---|---|
| message correlation broker (`src/durable-objects/correlation-broker.ts`), one Durable Object per workspace, message name and key | the one subscription, buffered messages, answer per messageId, consumed marker, alarm | register, publish, supersede, expire, alarm | D1 awaits inside `expireDue` let other calls run on its snapshot; one-hour TTLs; repeated calls; failed D1 writes | a message is handed to one wait; no live wait beside a live message; nothing buffered for ever; expiries reach D1 |
| saga (`src/runtime/compensation.ts`, `src/persistence/saga.ts`) | ledger rows with `seq` and status | ledger a step, commit, begin compensating, straggler scan, compensate, fail, settle | late completions, live parallel tokens, retries, crashes | all or nothing; only done work is undone, once, in reverse order per lineage; the reverse pass ends |
| service-task jobs (`src/persistence/jobs.ts`, `src/runtime/forward-task.ts`, `src/durable-objects/job-scheduler.ts`, worker routes of `src/index.ts`) | job rows with lock, attempts, TTL; one alarm per job | activate, complete, fail, reclaim, dead-letter, abandon, reset | leases that run out while the worker answers, alarms racing leases and operators | one outcome per job, applied once; exhausted jobs reach the engine |
| engine (`src/runtime/engine.ts`, `incidents.ts`, `executor.ts`, `src/persistence/drive-lock.ts`, `src/workflows/process-workflow.ts`) | instance status and cursor, history markers, drive lock | drive (re-walk from the start), park, complete, incident, resume | drives race operators and alarms; unconditional status writes; dead drives | no status regression, no repeated effect |
| regions (`src/runtime/regions-runtime.ts`, `frontier.ts`, `src/persistence/tokens.ts`, `gateway-decisions.ts`) | tokens, arrivals, join completions, activation records | fan out, arrive, join, depth-first walk | siblings in flight at joins and cancels | a join fires once, after all required arrivals |
| operator (`handleCancelInstance`, `retryInstanceCore` in `src/index.ts`) | none | cancel, retry | each is several D1 statements | no executed work is forgotten, nothing is repeated |
| message waits and publication (`src/runtime/engine.ts`, `src/index.ts`, `src/persistence/messages.ts`) | subscription and message rows | register, apply, publish, release | two stores (broker and D1) updated one after the other | a correlated message reaches its instance |
| timers (`src/runtime/timers.ts`, `boundary-timer.ts`, `intermediate-timer.ts`, `src/persistence/timers.ts`, `wake.ts`), event gateway (`event-gateway.ts`) | timer rows, the `timer_outcomes` decider, alarms | arm, fire, cancel, sweep, convert | alarm, completion and cancel race for one decider row | exactly one of them wins; no timer is lost |
| call activity (`call-activity.ts`, `child-cascade.ts`, `src/persistence/child-instances.ts`) | parent and child rows, the child-notify alarm | invoke, take up, notify, cascade of cancel, retry and compensation | two instances, two drive locks, lost notifications | the parent takes up each child's end; a tree is undone as a whole, in reverse |
| multi-instance (`multi-instance.ts`, `src/persistence/mi-activations.ts`) | activation row, iteration tokens, jobs or children | pin, iterate, settle, abort, tear down, aggregate | concurrent iterations, settle against completion, deadline | a visit is left once; what is finished stays finished; nothing of it stays open |
| publish gate (`src/bpmn/validator.ts`, `regions.ts`, `scope-tree.ts`, `graph.ts`) | none | accept or refuse a process | the engine relies on what the gate promised, long after | branches stay in their region and meet at their join; nothing hangs |
| expressions, retry policy (`src/runtime/expressions.ts`, `retry-policy.ts`) | none | pure functions | boundaries | agreement with a reference definition |
| instance store, definitions, idempotency (`src/persistence/*`) | rows | guarded and unguarded transitions, publication, idempotency keys | concurrent publication and replays | one version, one answer per key |
| router, contracts, credentials, console (`src/index.ts`, `src/contracts`, `src/runtime/worker-auth.ts`, `src/ui`) | none, or read only | parse, authenticate, list | none | not modelled |

How they interact: the router calls the persistence layer and the engine; the engine calls the broker and
the schedulers; alarms and worker callbacks call back into the engine through a *resume*, which takes the
instance's drive lock and walks the process again from its start, passing over what D1 says was applied.
Everything shared is a D1 row or a Durable Object's storage.  There are no transactions over several
requests to D1: a handler is a sequence of statements and batches with arbitrary interleaving between them.

`PROJECT.json` lists the hazards at their lines, the properties that cover them, and the open ones.

## 2. Modules

| module | models | lines of the code |
|---|---|---|
| `CorrelationBroker` | one broker object with its callers, alarm and clock | all of `correlation-broker.ts` that changes state |
| `Rendezvous` | what a message key promises (abstract) | — |
| `MCCorrelationBroker` | constants for TLC | — |
| `CorrelationBrokerProofs` | theorems about `CorrelationBroker`, and that it implements `Rendezvous` | — |
| `Saga` | one transaction: drives, workers, alarms, cancel and retry over the shared rows | `compensation.ts`, `saga.ts`, `forward-task.ts`, `jobs.ts`, `regions-runtime.ts`, `frontier.ts`, parts of `engine.ts` and `index.ts` |
| `MCSaga` | the process shapes for TLC | — |
| `SagaProofs` | theorems about `Saga`: the ledger, and what a retry finds | — |
| `SagaAtomicityProofs` | theorems about `Saga`: all or nothing, nothing forward after undoing began, what 'compensated' means without regions | — |
| `MessageWait` | one instance, its receive tasks and their boundary timers: drives, publishers, alarms and the broker | `driveReceiveTask`, `registerReceive`, `applyMessage` of `engine.ts`, `handlePublishMessage` of `index.ts`, `boundary-timer.ts`, `timers.ts`, `messages.ts` |
| `MCMessageWait` | the process shapes for TLC | — |
| `MessageWaitProofs` | theorems about `MessageWait`: one outcome; a message applied once | — |
| `TimerRace` | deadlines of service tasks and scopes, intermediate timers and event-based gateways, against workers, messages, cancel and retry | `timers.ts`, `boundary-timer.ts`, `intermediate-timer.ts`, `event-gateway.ts`, parts of `engine.ts`, `forward-task.ts`, `index.ts` |
| `MCTimerRace`, `TimerRaceProofs` | processes for TLC; theorems: one outcome; nothing left open | — |
| `CallActivity` | a tree of instances: calls, ledgers, notifications, cascades | `call-activity.ts`, `child-cascade.ts`, `child-instances.ts`, parts of `compensation.ts`, `engine.ts`, `index.ts` |
| `MCCallActivity`, `CallActivityProofs` | trees for TLC; theorems: order of the walk and of the reverse pass, the ledger, what a cancel may end | — |
| `MultiInstance` | one visit of a multi-instance activity | `multi-instance.ts`, `mi-activations.ts` |
| `MCMultiInstance`, `MultiInstanceProofs` | activities for TLC; theorems: one path, nothing left open, finished once | — |
| `Published` | the rules of the publish gate, and the walk of tokens over a process it accepted | `validator.ts`, `regions.ts`, `graph.ts`, `scope-tree.ts`, the control flow of `engine.ts`, `frontier.ts` and `regions-runtime.ts` |
| `MCPublished`, `PublishedProofs` | families of processes for TLC; theorems: branches are confined, joins count their own, nothing hangs, re-entry is guarded | — |

No module composes all the others: each has the D1 rows its question is about, and what a module takes
for granted another one checks (an atomic broker in `MessageWait` and `TimerRace`: `CorrelationBroker`; a
region whose branches stay inside it in `Saga`: `Published`; the leases of one instance in `CallActivity`:
`Saga`).

### CorrelationBroker

The object is single threaded and its input gate is shut during storage operations, so a block between two
awaits of D1 is one step.  Only `expireDue` awaits D1; a call inside it is a record in `calls` with its
snapshot `due`, the message it is working on and a phase: `marking` (UPDATE sent), `recording` (INSERT
sent), `resuming` (about to run on).  `sent` is a call on its way with the clock its caller read, `answered`
a call whose caller has not read the answer.  `RunBlock` is the code from the head of the loop to the next
D1 await or to the end of the call (`Serve`).  `handed` is a history variable: the waits a message was
answered "correlated" for.  `Fail` is a D1 write or object reset that makes the call throw; the runtime
fires a failed alarm again.

`Rendezvous` abstracts the clocks, the storage layout and the expiry loop.  `CorrelationBroker!A` is the
refinement mapping and `ImplementsRendezvous` the property.  The mapping reads the fate of a message that
was handed over from `handed`, because the code may overwrite the stored answer (see the hazards): the
promise that survives is the rendezvous itself.

### Saga

`status`, `job`, `token`/`pos`, `ledger`/`order` are the D1 columns; `alarm` is the JobScheduler object of
each forward job; `drive` is the drive that holds the lock and where its walk is; `wanted` is a requested
resume; `cancel` and `retry` are the program counters of the two operator handlers.  A step is one D1
statement or batch together with the reads just before it.  A drive re-walks from the start and what was
applied is passed over without a write, so the walk is modelled from the first thing that was not
(`Ahead`).  Each token has a program: tasks up to a split, the branches of the split, tasks behind its
join; the tree of tokens and programs is a constant.

Simplifications, all in the direction of fewer parts of the system and none of a different behaviour of
the part that is left:
- direct execution mode; one transaction at the process root; every task has a compensation handler;
- no loops, timers, messages, call activities, multi-instance bodies or payload limits inside it;
- a read and the batch it guards are one step (`createIncident`, `beginCompensating`, the claim and settle
  of `terminateUnleasableJob`), so a race inside such a pair is not explored;
- drives exclude each other (the lock is always obtained within its budget) and resume requests coalesce;
- one cancel and one retry run at a time (they race each other, the drive, workers and alarms);
- tokens of the straggler scan are taken in any order; `Init` is the moment the first drive has entered the
  transaction; a business error nobody catches is a technical failure.

### MessageWait

A *visit* is an element and an occurrence; all visits share one broker key.

| variables | in the code |
|---|---|
| `row` | `message_subscriptions`, the latest row of each visit |
| `timer`, `outcome` | `timers.status` and the `timer_outcomes` row that decides between message and timer |
| `ext`, `link` | `external_messages.outcome` and `matched_subscription_id` |
| `holder`, `buffer`, `consumed` | the broker object: `sub`, `buffer:`, `consumed` |
| `drive`, `wanted` | the drive that walks the instance and the drives asked for, with the message they deliver |
| `pub` | a run of `handlePublishMessage`: called the broker, recorded, delivered |
| `alarm`, `fire` | the timer's JobScheduler object and its handler (`fireTimer`) |
| `merged`, `exits` | history: where a payload was merged, by which flow a visit was left |

A drive walks from `First`.  At a visit it reads the decider (`ReadTimer`) and the subscription (`ReadSub`),
looks for a linked message in D1 (`LookUp`), registers with the broker (`ReadRegistration` to `SetAlarm`) or
applies a message (`ReadBeforeApply`, then the batch `CommitMessage`, or `ConvertOnFire` when a fire holds the
claim).  A publisher calls the broker (`Publish`), records the answer (`Record`) and resumes the instance
(`Deliver`): in direct mode the resume carries the message, in workflow mode it only wakes the Workflow.  An
alarm reads its guards (`PlanFire`), commits the winning batch (`FireBatch`), tells the broker (`Supersede`) and
wakes the instance (`Wake`).  Faults: a drive, a publisher or an alarm handler dies between two steps; the call
that arms the alarm or supersedes the subscription fails, is logged and forgotten.

Simplifications:
- one instance and one broker key; the broker's calls are atomic and its one-hour TTL never runs out
  (`CorrelationBroker` has the calls, the clock and repeated publications);
- drives exclude each other, and resume requests coalesce per message;
- a guard and the batch it leads to are two steps where another party can come between them (`ReadBeforeApply` and
  `CommitMessage`, `PlanFire` and `FireBatch`, `ReadRegistration` and `CreateRow`), and one step elsewhere;
- a Workflow that dies walks again from the start (its cached steps only repeat what D1 says anyway), and a
  wait that times out only walks again (`process-workflow.ts` turns it into `{ kind: "timeout" }`);
- an incident is not retried, and there is no cancel: both are in `Saga`.

### TimerRace

Hosts are visited in the order of `order`, side by side in a parallel region when there are several.

| variables | in the code |
|---|---|
| `job`, `ended` | the forward job of a task or of the task in a scope; the marker of the scope's inner end event |
| `timer`, `decided` | `timers.status`; `timer_outcomes.outcome`, or for a gateway the branch in `gateway_decisions` |
| `sub`, `ext`, `holder` | subscriptions, messages, and the brokers that hold a subscription |
| `due`, `alarm`, `fire` | deadlines that have passed, the alarms set in the JobScheduler objects, the handlers (`fireTimer`) |
| `drive`, `wanted`, `alive` | the walk, the drives asked for, the Workflow of the instance |
| `op` | a cancel or a retry of the operator |
| `exits` | history: the flows on which drives left a host |

`TaskStep`, `CatchStep`, `ScopeStep`, `InnerStep` and `GateStep` are the walk over one host of each kind; `Look`,
`Register`, `ApplyClaimed` and `ReleaseLosers` the statements inside a gateway.  An alarm rings (`Ring`), plans
(`Plan`), commits (`Commit`), releases (`ReleaseAll`) and wakes (`Wake`); a frozen instance gets the record
alone (`Suppress`).  The operator's calls go statement by statement (`Clear`, `Sweep`, `Close`; `RetryReset`,
`RetryResume`).  Left out: loops (each host is visited once), hosts in a transaction, several tasks in a scope,
refused registrations (each message has a key of its own).

### CallActivity

Every instance of the tree has its row (`status`, `committed`, `pos`), its ledger, its drive and its Workflow
(`alive`); `bound` is `child_instances.status`, `notify` and `ringing` the child-notify alarm of each child.
`Forward` and `Backward` are the drive's walk and its reverse pass, `Cascade` the cancel that goes down the
tree, `Notifications` the telling of the parent, inside the child's drive (`asked`) and by the alarms.  A
cascade reads each list once and works on what it read (`List`, `seen`); the cancel of the root itself reads its
children one element at a time (`Elements`).  What the parent's pass does to a child without the child's lock is
a step for each read: `BeginChild`, `CountOwed`, `ShortCut`.  A retry's reset of a failed compensation job and of
its ledger row is one step (`ReopenUndo`): the instance has ended and nothing reads in between.  Left out: leases
and regions, calls inside multi-instance activities, mappings.

### MultiInstance

`host` is the activity: the body of its iterations, sequential or parallel, with a completion condition, a
boundary timer and an error boundary or without.  `act` is its row with the indexes its aggregate holds, `work`
the job or child of each iteration, `token` its token, `aborted` and `exited` the history markers the code
reads back.  A drive pins the cardinality, goes through the iterations in index order, settles, tears down,
marks and leaves, one statement or batch a step.  Left out are listed in the module's header.

### Published

`Accepted(g)` is the verdict on a process: endpoints, degrees, conditions, boundaries, the re-entry gate of
skipped scopes, the rules on waits behind event-based gateways, and `validateRegions` with the regions found by
dominance and post-dominance.  The actions are the walk: `token` maps each token, named by the forks it
descends from, to where it is and which scopes were skipped under it.  Data are left out, so a condition may
hold or not and any timer may be due.  `Parsed` says what the parser yields: finitely many elements in a tree of
scopes, flows and hosts among them.  The walk starts on processes that are `Accepted` and `Regular`; what
`Regular` sets apart is the gate's gaps, listed in section 5.

## 3. Runs

| run | question | bounds |
|---|---|---|
| `broker_safety` | consistency of buffer, answers and hand-overs; implements `Rendezvous`; nothing stays buffered, expiries reach D1 | 2 waits, 2 messages, 1 call beside the alarm; TTL 1, sends until time 2, clock to 3, one D1 failure |
| `saga_single` | all or nothing, complete undo, reverse pass ends | 2 tasks, the second guarded; 2 attempts per job; 2 operator calls |
| `saga_region` | reverse order, once only, no new work | a task and a two-branch region; 1 attempt; 2 operator calls; 1 crash |
| `wait_chain` | one outcome per visit, a message applied once, correlated messages are not forgotten | a guarded visit and then a plain one, 2 messages, both modes, 1 fault |
| `call_tree` | steps begin in order and are undone in reverse, the ledger is true, a compensated root owes nothing, a cancel ends only the living | a parent with a task before its call, a child of one task that may fail, err uncaught or time out; workflow mode; 2 operator calls, or 1 where the call times out (`CallOrTimer`) |
| `call_notify` | a child's end is taken up | a task before and a task after the call, a child that may err, caught or not; direct mode; 1 operator call, 1 lost notification |
| `timer_race` | one path, nothing left open, deadlines kept | a task, a scope and a gateway of two messages alone with 1 fault each; a cancel and a retry; a scope and a gateway beside a catch in a region, without faults, with a retry or (a catch before the scope) a cancel; both modes |
| `fan_out` | one exit, teardown, finished work stays, the visit ends | all 48 kinds of activity; 0, 3 or 4 iterations under a cap of 3; 1 retry, 1 drive that dies |
| `published` | accepted processes are confined, do not hang, guard re-entry, pair their joins | 21,000 processes in five families, of which 618 pass |
| `saga_stragglers`, `timer_retry`, `fan_out_deadline` | a sentence of the repository against the code | the smallest process that shows it |

Why the bounds are enough for the cases that matter.

- Broker: a call beside the alarm lets another party run inside the D1 await of `expireDue`, in both directions;
  two messages make `expireDue` loop; TTL 1 with sends over three ticks gives calls whose clock is before, at
  and after an expiry, and subscriptions that lapse while messages are live.  One failure is enough for each
  partial write.  The theorems of section 4 hold for any number of calls; three calls were explored by hand.
- Saga: two tasks give a step to undo and one in flight; two attempts make a lease lapse, be parked and be
  exhausted; two operator calls make cancel race retry, and retry follow retry.  The region run adds a lineage
  with a parent and two children.
- Message waits: two visits are the least for a delivery to arrive at the wrong one, and since both flows of
  the first lead to the second, a visit left by its timer is followed by one the late message could reach;
  two messages compete for a visit; one fault opens each gap between two stores once.
- Calls: one call has every pair of parties that meet (two drives, two ledgers, an operator going down the
  tree, a notification); a task before it gives the parent something to undo behind the child.  A third level
  repeats the relation of two levels and is beyond TLC here.  `CallOrTimer` keeps two calls of the operator and a
  fired timer apart, for time; without it (3.2 million states) the same properties hold.
- Deadlines: each kind of host alone has all its races with a fault; the pairs put two claims, two sweeps and
  a region's release side by side.
- Fan-out: three iterations have a first, a middle and a last one; 4 exceeds the cap, 0 is the empty
  collection.
- Published: the families fix the nodes and leave the flows open, each around one promise: three gateways and
  a task linked at will (12,600), a pair of gateways with another pair that may be inside it (6,480), waits and a
  deadline in a branch (288), a transaction in a branch with each kind of boundary (672), and a scope that can be
  skipped beside one an error leaves (1,152).  Conditions and timers are free in each.

Each property comes with a plausible bug (`PROJECT.json` "mutants") that TLC finds it violated by under the
same bounds, so the bounds reach the case the property is about.  Symmetry is not used.

Deadlock is not checked: the clock stops at `MaxTime`, a saga that has settled, or waits for a worker that
never answers, really stops, and so does an instance nobody publishes a message for, and a process that has ended.

Fairness.  `CorrelationBroker`: the runtime runs on a call it accepted and fires a due alarm; time passes;
callers need not call.  `Saga`: a drive, an operator's handler and an alarm run on once started (they are
plain sequential code), workers keep polling, so a created job is leased and a lapsed one reclaimed, but no
worker ever has to answer.  `MessageWait`: a drive that was asked for starts and, like a publisher's or an
alarm's handler, runs on once started, and in workflow mode the wait's time-out comes; nobody has to publish and
no timer has to fall due.  `CorrelatedSettles` speaks of behaviours without faults only: a publisher that dies
after the broker's answer leaves its message behind, and nothing repeats it.  `TimerRace`: drives, handlers and
the operator's calls run on once started, an alarm that is set and due rings (the platform's at-least-once
alarms), deadlines come, a Workflow's wait times out; workers, publishers and the operator need not act.
`CallActivity`: the same, and workers answer.  `MultiInstance`: a drive that was asked for runs on, and jobs and
children end.  The liveness runs of `Saga` have no crashes: in direct mode nothing redelivers a drive that died
(see the hazards).

What the runs show.  A message is handed over once and a broker key implements the one-shot rendezvous; the
saga commits or is undone as a whole, also through a tree of children; the reverse pass follows the lineage
order for one level of regions, never repeats a step and ends; every race around a deadline or an event-based
gateway has one winner, and each walk takes its path; a multi-instance visit without a deadline is left once
and leaves nothing open after an abort; what the publish gate accepts neither leaves its regions nor hangs, in
the families checked.  What they also show, as counterexamples to sentences of the repository: `PROJECT.json`
"findings".

Exceptions inside properties, each needed:
- `CompensatedMeansUndone` and `CompensatesOnlyDone` except jobs that an operator's retry reset:
  `resetJobForRetry` takes a completed forward job that no drive has applied yet, so the retry of an incident
  can run a side effect twice or, with a cancel, leave one behind.
- `DeadlineKept` excepts a lost alarm or dead handler where no Workflow is alive or the host is a scope (no
  walk sets a scope's alarm again), an instance with a cancel (it may meet a drive that goes on and parks), a fire
  that recorded itself for an incident a retry had just ended ("missed"), and a task the finding `timer_retry` is
  about (`Wedged`).
- `NothingLeftOpen` of a multi-instance visit speaks of sub-process and call bodies only after an abort or a
  deadline: an early settle leaves their interior leasable (below).

## 4. Proofs

`CorrelationBrokerProofs` proves, for any sets of waits, messages and calls, any TTL and any bounds, that
`TypeOK`, `BufferedIffKept`, `HandedOnce`, `NoMissedRendezvous`, `AlarmCoversBuffer` always hold and that
every step satisfies `NoResurrection`.  None of them is inductive alone: `NoResurrection` and `HandedOnce`
need `UnhandedOutcome` (only an answer "correlated" or "expired" goes with a hand-over), which an expiry that runs on from
an old snapshot would otherwise break, and `NoMissedRendezvous` is kept by the tick because time only makes
subscriptions and messages lapse.  `IInv` is the conjunction; `ConsumedExcludesSub` is in it because
publishing to a consumed key must not find a subscription.  The proof follows the structure of the module: one lemma
per block of storage operations, then one step per action.  It rests on the assumptions stated with the
constants (`DistinctSlots`, `NoneIsFresh`, `ClockBounds`, `FaultBound`).

It also proves `Refinement`, that `CorrelationBroker` implements `Rendezvous`, for the same constants.
`StorageStep` sorts what a step does to the storage into kinds (`Meets`, `Consumes`, `Answers`, `Expires`,
`Opens`, `Closes`, `Stays`), the lemmas of the blocks show that every step is of one kind, and each kind is one
abstract step or a stutter.  The refinement mapping needs two more facts than `IInv`: a snapshot of
`expireDue` names only messages that were buffered once (`SnapshotsKnown`), and an answer "correlated" comes
with a taker (`CorrelatedHanded`).

`SagaProofs` and `SagaAtomicityProofs` prove, for any set of tasks, any tree of tokens (regions nested to any depth), any
retry limit and any bounds on calls and crashes, that `TypeOK`, `CompensatesOnlyDone` and `AllOrNothing`
always hold and that every step satisfies `CompensatedIsFinal` and `NoForwardAfterUndo`; `RetryHasTarget`
of every behaviour in which no retry call dies half way; `CompensatedMeansUndone` of every behaviour in
which no drive dies half way (operator calls may); and that every step satisfies `ReverseOrder` where regions are
not nested (`Flat`).

- `TypeOK` is not inductive: `retryInstanceCore` writes 'pending' over a row it chose two calls earlier, and
  only `RetryInv` (while a failed compensation is retried the status stays `compensationFailed`, so no drive
  gets past its start) knows that the row is still there.  The same fact gives `CompensatedIsFinal`.
- `LedgerInv` ties each ledger row to its two jobs; `CompensatesOnlyDone` is part of it.
- `RetryHasTarget` needs `TargetInv`: a halted instance has a failed job, or a failed ledger row whose job
  failed, except between a retry's reset and its move of the status (`Reopening`, `Restarting`).  Whoever halts the
  instance has just found failed work, and only a reset un-fails a job.  A retry that dies in between is the exception
  the theorem states (§5).
- `AllOrNothing` needs to know where a walk can be.  `TreeInv` describes the tokens: forked together, open
  only below a token that has not joined, merged together.  From it `NothingEntered`: before the root's split
  and behind its join no token below the root is open (by the assumption that parents lead to the root).
  `WalkInv` keeps the drive on an open token and the root's position on the root's path.  With them a walk that finds
  the cancel end thrown stands on the root (`ThrownAtRoot`), so `UndoInv`: once a compensation exists either the walk can only
  reach the cancel end again, or the drive is in the reverse pass or gone.  `SealInv`: a committed ledger
  has no task left on any path, so nothing is ledgered or undone afterwards.
- `CompensatedMeansUndone` is about processes without regions, where the root's path is the whole program.
  `OneAtATime`: a job that was created and not applied is the first one ahead, so there is at most one.  `Traced`: while
  it may still complete, it is ledgered, or a drive holds it and will sync, or the root token stands on it
  where the scan looks.  Syncing in a terminal state would lose it, so `Halted` (an incident is about that very job,
  and it can no longer complete) and `DriveKnown` (which phases of a drive meet which status) exclude
  every such state but a closed cancel, which nothing reopens.  Then `Settle`, with no live token and nothing
  owed, leaves no completed job behind.  A drive that dies between a job and its sync is the exception (§5).
- `ReverseOrder` holds by the step, from types and the ledger's rows: only `createCompensation` marks a row whose job
  does not exist (`UndoBegins`), and only in its `Turn`.  The turn is the latest of the rows the lineage filter leaves
  (`LatestIsLast`), and the filter leaves either a whole lineage or nothing of it (`FreeLineage`).  The last is
  what `Flat` is for: with deeper trees the chain of parents breaks at a token the scan consumed (§5).
- Each step lemma has one case per action; `EnvironmentMoves` (workers, alarms, a cancel's release),
  `ResetMoves` and `QuietMoves` say once what the many actions do to the jobs and the ledger.

They rest on the assumptions stated with the constants of `Saga`: `TreeOfTokens` (what `fanOutSplit` builds),
`Paths`, `Placed` (a task is on some token's path), `NoneIsFresh`, `BoundsAreNat`, and `GuardedOnRoot`: an error boundary inside a region cannot lead
out of it to the cancel end, which `validateRegions` guarantees by requiring that the join post-dominates the split
(`src/src/bpmn/regions.ts:154-165`).  TLC evaluates them in every saga run; the inductive invariants were checked with
TLC on the instances of `saga_single` and `saga_region`, and on a region with tasks behind its join, before they
were proved.

`MessageWaitProofs` proves, for any process of receive tasks (chains, loops, any flows), any messages, either
mode and any number of faults, that `TypeOK` and `OneOutcome` always hold.  `OneOutcome` speaks of history; what
makes it inductive is what D1 and the parties in progress say.

- `PathsDecided` ties the history to D1: a visit left by its timer is decided 'fired', one left by a message is
  consumed and not decided 'fired', and a payload is merged only where the visit was left by the message.
- `WalkIsCurrent` says which of the drive's reads are still good when it uses them.  A fire can take the claim
  under a walk at any time, so nothing is claimed of `outcome` after `ReadTimer` until the batch reads it again;
  but only drives consume, so a row that was open when the walk read it is not consumed before the walk does it.
- `PlannedStillOpen`: a planned fire with the claim still free finds its row active.  Without it `FireBatch` could
  decide 'fired' for a visit that a message had just consumed; it holds because the batch of `applyMessage`
  consumes the row and takes the claim together.
- `UnguardedUntimed`: a visit without a timer has no claim, so its batch needs none.

They rest on `Flows` (flows lead to places of the process), `Fresh` and `FaultsAreNat`.  The inductive invariant
was checked with TLC on the chain and on the loop of `MCMessageWait` before it was proved.

The second half of the module goes on from there to `AppliedOnce`.  A message can be merged twice only if two parties hold it,
or one of them finds it again after it was merged; three conjuncts of `Once` exclude that.

- `OnePlace`: a message is with its publisher, in the broker's buffer, in the hands of the drive, or merged.  The
  broker gives it away once ("correlated" or from its buffer), and what a drive has in hand was merged nowhere.
- `IdsOfVisits`: a subscription id is of one visit, and a consumed row holds its message.  So the message a lookup
  finds linked to the subscription of an open visit was not merged elsewhere: the link would name that visit.
- `Behind`: a delivery is still owed when its message was found in D1 and merged by another walk.  A walk that
  carries it starts at the start event and follows the flows on which earlier walks left (`Leads`, a path of any
  length); it comes by the visit that took the message, where `ReadSub` drops it, before it reaches an open one.

A visit is left on one flow (`PathsDecided`), so a path once walked stays a path (`LeadsStay`); `LeadsOn` and
`LeadsNext` extend it at its end and shorten it at its start, without an induction over its length.  TLC checked
the invariant on the chain and on a loop of three visits, with paths up to the number of visits.

`TimerRaceProofs` proves, for any hosts in any order, any messages and branches, either mode and any bounds on
calls and faults, that `TypeOK` and `OnePath` always hold.  `OnePath` relates the history of the walks to the
deciders; it is inductive with what the rows say of a host somebody has left (`RaceRecorded`: a task that is
applied and a scope that has ended were decided 'cancelled', no sweep decides a gateway, and a drive that
releases a gateway's losers has its decision) and with the place of the drive (`AtHost`).  `Sound` says once what
a step may do: a decider is written once and never rewritten (`Decides`), and whoever leaves a host leaves it on
the flow its decider names (`Departs`).  Each action has a lemma that it is `Sound`, most through `QuietSound`, and
`RacePreserved` is the argument.  It rests on `Shape` and `Limits`; the disjointness of the outcomes and the
messages in `Shape` is what keeps a branch from being taken for a timer's flow.  The inductive invariant was
checked with TLC on the processes of `timer_race` before it was proved.

The second half of the module goes on from there to `NothingLeftOpen`.  What has to be known besides is spread over
four conjuncts.  `TimersDecided`: a race is decided only after its timer was armed, which is why a decided host's
timer is never armed again; a handler, a sweep and a scope's inner walk know of the timer.  `BranchesDecided`: no
subscription becomes active after its gateway's timer was armed, so what an alarm's handler has read between its
plan and its commit is all that is active, and the losers of either decision are all superseded.  `WorkOver`: a
normal exit was behind an applied job, a fired task's job was abandoned with the claim and a fired scope's by the
walk that drained it.  `Incidents` is what a retry needs: its reset reopens the job of the host the incident is
about, and that host nobody has left, because whoever raised the incident had seen a failed job, or a claim that
was not the timer's.  `Orderly` says once what a step may do to jobs, exits and claims.  All four were checked
with TLC on the processes of `timer_race` first.

`MultiInstanceProofs` proves, for any activities, any cardinalities and cap, and any number of retries and of
drives that die, that `TypeOK`, `OnePath` and `NothingLeftOpen` always hold and that every step satisfies
`FinishedOnce`.  A drive decides from counters and from a row it read at its start, so `VisitInv` has to say what these
are worth.

- `Counts`: when a drive has counted every iteration it has passed, all of them have finished; this is why its
  settle "all" is true.  `Pinned`: beyond the pinned cardinality nothing was ever created.
- `SeenNow`: what the drive has read of the visit is true until the timer fires, since only drives settle besides.
- `Settlement` says what "all", "condition" and an abort mean for the iterations, and that the aggregate holds
  exactly the finished ones; `Departures` ties the flows taken to it.
- `FireSeen`: a deadline that fired is followed by a drive that tears the visit down, or the instance is frozen.
- Each action has a lemma; `FinishedStays` is the monotonicity they share.  `VisitInv` was checked with TLC on the
  activities of `fan_out` before it was proved.

They rest on `Shape`.  The early settle that leaves a sub-process interior open (§5) is outside `NothingLeftOpen`.

`CallActivityProofs` proves, for any tree of calls of any depth, any tasks, both modes and any number of operator
calls and lost notifications, that `TypeOK`, `WalkInOrder`, `LedgerTrue` and `RootOwesNothing` always hold and that
every step satisfies `ReverseThroughTree`, `UndoneOnce` and `CascadeOnlyTheLiving`.

- The module has some fifty actions, and most write little.  The lemmas `ForwardWrites`, `BackwardWrites`,
  `CascadeWrites`, `OperatorWrites`, `WorkerWrites` and `AlarmWrites` say once which rows a group of actions writes and by
  which of them; from these `Moves` says how a single row may move: a forward job (`JobMove`), a call's row and timer
  (`VisitMove`), a compensation job (`CompMove`), a ledger row (`LedgerMove`).  The invariants follow row by row.
- `WalkInOrder` holds because a step begins only where a walk stands (`WalksOn`: the first step that is not passed),
  and what is behind a walk stays behind it: every move of a job or of a call's row keeps `Behind`.
- `LedgerTrue` needs `Retaining`: a pass that retains a call at the token's place has found the call's row, which is why
  a child in the ledger was invoked though the row is written several steps after the read.
- `RootOwesNothing`: the root settles only under its own lock, with its ledger and token read in the same pass, and a
  settled root's ledger and token are written only by steps that move its status (`CompensatedSteps`).  For a
  child the same sentence (`ChildOwesNothing`) is false (§5, Calls).
- `ReverseThroughTree` rests on `NothingOwedAfter`: the step a pass undoes is the last one owed, so nothing after it
  is owed.  That a set of places has a last one (`Greatest`) and a first one (`Least`) comes from the library's
  `WFMin` for the naturals.
- `CascadeOnlyTheLiving` holds though a cascade works on old lists, because the update itself is guarded
  (`Settled`); no invariant is needed but the types.

It rests on `Tree` (a step is in one place of one process, and every child below the root), `Kinds` and `Bounds`.  The
inductive invariant is the conjunction of invariants that `call_tree` checks and of `Retaining`, which was
checked with TLC on the same trees first.

`PublishedProofs` proves, for every set of processes the parser can yield (`Parsed`), that `Confined`,
`ArrivesAtItsJoin`, `NeverStalls` and `ReentryIsGuarded` always hold on those the gate accepts and `Regular` keeps.
- The graph.  `Reached` is recursive and there is no induction to say what it computes; on a finite graph it is the
  least closed set all the same: the least closed sets solve the recursive equation, and of the sets on which a
  second solution would differ the largest is none (`ReachedLeast`).  From that come the tree of scopes (`Around`,
  `CatcherFound`), dominance (`Dominance`: what dominates an element is a chain, and is passed on by every
  edge), and what the rules say of regions: they are told by their splits and by their joins, nested or apart
  (`RegionOrder`), entered at the split (`RegionEntry`) and left at the join (`RegionExit`, `RegionHost`,
  `JoinOut`), with no end between (`NoEndInside`).
- The walk.  `Top` is the element at process level that holds a token.  Every move that neither forks nor merges is
  a `Hop`: within one top element, along a flow, or to a boundary of it.  `WalkInv` is inductive: tokens and
  regions are typed (`Typed`), an owner waits at its split with its branches alive and every other token is a
  branch (`Tree`), and a token is inside a region, past its split, exactly when its name tells of a fork there
  (`InsideAsNamed`).  Only the last, an equivalence, makes a join pair with its split: it is what turns where a
  token is into whose branch it is.  `NeverStalls` follows by taking the owner with the smallest region.
- Re-entry.  `SkipsAhead`: for each scope skipped on a token's way the gate's traversal from that skip, or from
  one of a scope around it, has come to the token's element or to a scope around it, and the catches the engine
  climbs to are edges of that traversal.  Hence `NotAhead`: the token is not at the scope itself.

`WalkInv` and `SkipsAhead` were checked with TLC on the processes of `published` before they were proved.  The
attempt found three gaps of the gate that the families do not contain; they are in section 5, and `Regular`
sets them apart.

Only model-checked: liveness (`BufferDrains`, `ExpiryReachesD1`, `ReverseSettles`, `CorrelatedSettles`, `TakenUp`,
`DeadlineKept`, `Settles`), out of the prover's reach like ENABLED.  Every other property of a passing run is a theorem.

## 5. Deviations

Where the code departs from what its text or a reader would expect, met while modelling.  The three that a
run shows are the findings; these are read off the code or are reachable in a module, and no run's
property claims the contrary.  Paths are under `src/src/`.

Messages.
- A repeated registration is answered without a look at the buffer (`durable-objects/correlation-broker.ts:75-79`; against
  `runtime-contracts.md:123`): a wait whose subscription has lapsed stands beside a live buffered message.
- `supersedeSubscription` looks at the element only (`correlation-broker.ts:131-144`) and can remove the
  subscription of the element's next visit.
- A drive or publisher that dies between the broker's answer and the D1 write loses the message, or passes a visit
  without its payload (`runtime/engine.ts:1459`, `:1536`, `index.ts:753`), against the promises at `engine.ts:1443`
  and `persistence/instances.ts:779`.
- A cancel without regions leaves the broker's subscription behind (`index.ts:479`); `WorkflowExecutor.deliver`
  has no catch.
- A gateway that registers again while its fire supersedes leaves a subscription in the broker
  (`runtime/event-gateway.ts:373-380`).

Saga and operator.
- A cancel counts what is owed before it transitions: a job completed just before is never compensated
  (`index.ts:502-510`), and `transactionCancelled` comes after the transition (`index.ts:540`), so a drive in between
  reads the one without the other.
- A job of a cancelled region that was never leased is failed by its alarm without a drive
  (`runtime/forward-task.ts:436`); the instance may stay compensating.
- `compensation.ts:193`, `persistence/saga.ts:113` and `forward-task.ts:654` say that the ledger rows of a process without
  regions have no token and are never blocked.  The walk passes the root's token to every step
  (`engine.ts:808`), the rows carry it, and a live root token blocks them; the modules have it as the code does.
- The chain of parents for the reverse order is looked up among live tokens only (`persistence/saga.ts:112-120`), which
  breaks below one level of nesting.
- `execution_tokens` are synced after the walk, best effort (`engine.ts:301-305`): when the drive dies between the
  creation of a job and the sync, a cancel finds no live token and settles `compensated` beside a job that
  completed (`compensation.ts:315-330`).  `saga_single` therefore has no crashes.
- A parked drive in workflow mode never syncs `execution_tokens`, so a cancel's straggler scan finds no token at
  a call: a child between its task and its end keeps a committed step (`engine.ts:302`, `compensation.ts:319-322`; against
  `docs/superpowers/specs/2026-07-02-m5-l2-callactivity-design.md:117-129`).

Timers.
- A fire planned before a cancel, committed after it, sets the cancelled instance running
  (`event-gateway.ts:609`, `boundary-timer.ts:255-258`; `timers.ts:72` reads the status before).
- A planned fire un-freezes an incident (`timers.ts:97-99`); a suppressed claim planned from a stale read commits without
  a wake.
- A worker that completes between plan and commit of a fire has done work that is never ledgered.
- The alarm of a scope's timer is never set again, and `settleOverdueTimersForInstance` never runs in workflow
  mode (`workflows/process-workflow.ts:38-50`).

Calls.
- The completion of a guarded call makes no claim on the call's timer (`runtime/call-activity.ts:357-402`).
- The teardown of an alarm deletes the whole storage (`durable-objects/job-scheduler.ts:85`), a child-notify set again
  meanwhile included.
- A cancel lists children before the parent's drive invokes the next one (`index.ts:486-491`), and
  `cancelChildCascade` lists grandchildren while the child's Workflow still walks (`child-cascade.ts:58-65`, against
  its comment at 43-45, "cancelled FIRST"): a grandchild invoked in between lives on when the child is terminated.  TLC
  shows it with `MCCallCascade.cfg` (`DescendantsFirst`).
- `beginChildCompensation` counts the child's steps and then reads its tokens without the child's lock
  (`call-activity.ts:652-657`, against 653-656, "only an empty ledger AND a quiesced cohort settles").  A drive of the
  child that records its task and consumes its token in between has the child settled with a pending step, and
  the parent marks it undone: `MCCallShortcut.cfg` (`ChildOwesNothing`).
- A drive that a retry started in a child applies a result after the parent's pass has settled the child, and writes
  `running` over `compensated` (`persistence/instances.ts:134`; the saga design's table of transitions, 209-219, has no such
  line): `MCCallLate.cfg` (`CompensatedStays`).
- The retry of an uncaught error at a call stalls without an incident; a child cancelled by the call's boundary
  timer gets no ledger row.

Multi-instance.
- A settle by condition that dies before `cancelChildCascade` leaves children running; an early settle of
  sub-process bodies leaves their interior jobs leasable.
- A worker's business error inside a caught sub-process body climbs past the visit, whose `settled_kind` stays
  null.
- `/retry` resets all sibling jobs that are not applied, finished ones included, and overwrites their pinned
  inputs; after an uncaught abort a crash or a retry stalls.
- Completed work that is not applied at a settle or an abort is neither aggregated nor ledgered.
- `resolveForwardJobForToken` resolves the latest job for every iteration's token; the completion condition is not
  evaluated again for iterations that are fast-forwarded.

The publish gate.
- A parallel or inclusive gateway with one flow in and one out is accepted ("pass-through",
  `bpmn/validator.ts:1404`) and `driveLeaf` has no case for it (`runtime/engine.ts:717-731`).
- An exclusive gateway with one outgoing flow and a condition counts as guarded for the re-entry gate
  (`validator.ts:1837-1844`), but `decideGateway` never evaluates it (`engine.ts:1141-1142`, `:1180`).
- A flow into a join from behind it is accepted and its token halts there for ever; so is one over a condition into
  an exclusive merge inside the region, for rule 5 looks at the exits of members and not at who enters
  (`bpmn/regions.ts:202-213`).  A loop around a region with a task on the way back is refused.
- A boundary event in a region whose path reaches no end, say a loop, has no post-dominator and is no member
  (`regions.ts:147-151`, `:174`); rule 5 does not look at the edge from host to boundary, so the token leaves the region.
- Two branches may meet at one exclusive gateway: rule 6 exempts merges, against the element-disjointness claimed at
  `validator.ts:2055` and in `docs/superpowers/specs/2026-06-13-m4-concurrency-design.md:146-181`.
- The re-entry gate misses an error end beside the scope that passes by their common scope when its other
  exits are guarded.  It follows error ends only (`validator.ts:1868-1880`), while a task's business error climbs
  to the same boundaries (`runtime/forward-task.ts:101-110`): a skipped scope beside a task, in a scope whose error
  boundary leads back, is entered again without a condition.
- A business error of a branch caught outside its region abandons siblings whose jobs go on.
- Rule 10 (`validator.ts:2049-2086`) follows `outgoing` only, so waits on boundary paths or inside sub-processes are missed,
  and loops outside regions are not checked for a way out.

`Accepted` is the code's verdict on all of these.  `Regular` (in `Published`) sets apart the processes of the first
four and of the re-entry gate's, and splits and joins inside a transaction or sub-process, whose draining is `Saga`'s; the others are outside
the families of `MCPublished`, or leave its walk.

## 6. Not modelled, and what is left

- The drive lock's steal and its budget (`persistence/drive-lock.ts:34`): drives exclude each other in every
  module.  What two overlapping drives do needs each module with two drives and is beyond the runs' bounds.
- Nested transactions (`committedLocal`) and the drain of scope subtrees in `Saga`; leases as lock tokens, attempt rows
  and poison payloads; several instances on one message key; call trees deeper than two levels (the module has
  any depth, the runs do not); loops under timers.
- BPMN parsing, FEEL, ISO 8601 arithmetic, the router's schemas, credentials, the operator console and the
  idempotency and definition stores: stateless conversions, single statements on a unique index, or read-only
  views.
