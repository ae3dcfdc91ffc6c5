# ChatWaifu-NEXT in TLA+

TLA+ models, TLC runs and TLAPS proofs of the concurrent core of ChatWaifu-NEXT: the
durable delivery of chat replies to messengers, the generations of a conversation, the event
stream that keeps a page in step with the runtime, cloud voice calls, the runs of skills with their
confirmations, and the durable tasks and observations of the background agent.

Paths below are relative to the repository; `RT` stands for
`services/runtime/src/chatwaifu_runtime`.

To check a run: `tlc -config <cfg> <module>.tla`, for example
`tlc -config GenerationVerdict.cfg GenerationLifecycle.tla`.  To check the proofs:
`tlapm ChannelDelivery_proofs.tla`, and likewise for every module whose name ends in
`_proofs`.

## 1. The system

A Python runtime (one asyncio process over one SQLite file) runs a companion character.  Web,
desktop and Android clients reach it over HTTP, WebSocket and WebRTC; QQ (NapCat) and WeChat
(iLink) conversations are channels of the same runtime; models run in separate worker
processes or in a cloud service.

Almost every hard behaviour has one cause: a method reads state, awaits (the database, a
provider, another task, a lock), and goes on, while other tasks, other clients, a cancellation
or a restart have acted.  SQLite transactions are the atomic steps; everything between two of
them interleaves.

| Component | State it keeps | Operations and interaction | What makes it correct | Model |
|---|---|---|---|---|
| Channel delivery repository (`RT/persistence/sqlite_external_channels.py`, `sqlite_channel_proactive.py`) | rows of `channel_deliveries` and `channel_delivery_parts`: status, lease, attempts, receipt | create, claim, acknowledge, defer, cancel (plan, sending delivery, connection), recover leases, reconcile a receipt, settle a proactive intent | order of bubbles, one lease per plan, a verdict that fits the parts and stays, nothing sent after a cancellation | `ChannelDelivery` |
| Delivery scheduler (`RT/external_channels/scheduler.py`) | its pass over the plans | step: reconcile, recover, list, claim, execute, acknowledge or defer | every plan ends, in spite of stale reads | `NapCatDelivery` |
| QQ NapCat adapter (`RT/external_channels/adapters/qq_napcat`) | send journal in the adapter cursor, journal lock, websocket | execute a part behind a persisted fence, import receipts | at most once: QQ has no idempotency key | `NapCatDelivery` (text), `Messenger` |
| WeChat iLink adapter (`RT/external_channels/management.py`, `adapters/weixin_ilink`) | poll cursor, client ids | poll, admit, send with a deterministic client id | at-least-once with provider-side deduplication | planned |
| Channel turns, bursts, groups (`RT/external_channels/service.py`, `burst.py`, `groups.py`, `proactive.py`) | turns, debounce windows, group state, policies | admit a message, merge bursts, start generations, create plans | each admitted message is answered once or has a reason why not | planned |
| Conversation service (`RT/conversation/service.py`, `RT/persistence/sqlite_conversation.py`) | `_active`, `_start_lock`, tasks, `generations` rows | submit, shared submit, proactive, realtime, cancel, request_cancel, reset | one verdict per generation, no output of what was revoked or superseded, no caller waits for ever | `GenerationLifecycle` |
| Event store, hub, replay (`RT/eventing`, `RT/persistence/event_store.py`, `RT/api/routes.py`, `apps/web/src/features/chat/runtimeSocketClient.ts`) | events table, bounded queues, cursors on both sides | append, publish, shed, replay, fill a gap over HTTP | the page sees every durable event once and in order | `EventReplay`, `EventFeed` |
| Playback (`RT/playback`) | segments with duration, transcript, acknowledgement | join the three, commit what was spoken | spoken text is committed once, only if heard | `CloudCall` (the segment of a cloud reply) |
| Runtime skills (`RT/runtime_skills`) | skill runs, permission requests | confirm, expire, execute, cancel | an effect needs its approval and precedes the end, the end is final, no run is stranded, every waiter is told | `SkillRuns` |
| Agent tasks (`RT/agent/tasks.py`) | task rows, a journal of writes, workers, wakes, revocations | create, run, pause, cancel, revise, resume, defer, reconcile, recover, wake | a write is not repeated while its effect may exist, a revoked task stops, an ended one stays ended | `AgentTasks` |
| Harness (`RT/agent/harness.py`, `RT/persistence/sqlite_harness.py`) | observations with leases | observe, claim, cohort, settle, review, recover tasks | no observation is lost, handled twice at once, or revived | `Observations`; its recovery of tasks in `AgentTasks` |
| Cloud realtime (`RT/realtime/cloud`) | mirror of the call, event pump, output task, admission, deadlines, closing task | admit, hand output to the transport, complete, cancel, barge-in, end | a reply is completed when heard, an interrupted one is silent, a closed call leaves nothing behind | `CloudCall`; as a caller in `GenerationLifecycle` |
| Pipecat voice pipeline (`RT/realtime/pipecat`, `stt.py`) | pipeline of local speech | speech to text, barge-in | an interrupted reply is silent | planned |
| Index orchestration (`RT/index_orchestration`) | the active rebuild job | start, restart on a route change, publish | no index of the wrong model is published | planned |
| Avatar SDK, web player (`packages/avatar-sdk`, `apps/web`) | behaviour state, cues, audio queue | play, interrupt, acknowledge | no stale cue or audio after an interruption | planned |
| Desktop sidecar, worker packs (`apps/desktop`, `RT/desktop_sidecar.py`, `RT/worker_packs.py`) | processes, installed packs | start, stop, install | one runtime, no half-installed pack | planned last |
| Memory, knowledge, character kernel, personal assistant, photos, stickers, information inbox, plugins, protocol packages | single-transaction stores, ranking, formatting, generated schemas | - | - | not modelled: no interleaving of interest beyond one transaction, or external I/O |

`PROJECT.json` lists every component with its files and, under `hazards`, what in this code is
hard to test, at the line where it bites, with the properties that cover it.

## 2. Modules

| Module | Is | Uses |
|---|---|---|
| `ChannelDelivery` | plans and parts, one action per repository method | - |
| `ChannelDelivery_proofs` | theorems about it | extends `ChannelDelivery`, `TLAPS` |
| `Messenger` | abstract: what the author of a reply is promised | - |
| `NapCatDelivery` | scheduler, journal, QQ, receipt task, restarts | extends `ChannelDelivery`: its steps are composed with repository actions; implements `Messenger` (`Chat == INSTANCE Messenger WITH ...`) |
| `NapCatDelivery_proofs` | theorems about it, the refinement among them | extends `NapCatDelivery`, `ChannelDelivery_proofs` |
| `EventFeed` | abstract: what the page is promised | - |
| `EventReplay` | publisher, queue, handler, socket, page | implements `EventFeed` (`INSTANCE ... WITH committed <- Last`) |
| `EventReplay_proofs` | theorems about it, the refinement among them | extends `EventReplay`, `TLAPS` |
| `GenerationLifecycle` | the generations of one session | - |
| `GenerationLifecycle_proofs` | theorems about it | extends `GenerationLifecycle`, `TLAPS` |
| `CloudCall` | one cloud voice call: bridge, coordinator, playback, conversation service | - |
| `CloudCall_proofs` | theorems about it | extends `CloudCall`, `TLAPS` |
| `SkillRuns` | one skill run, its request and every task and caller around it | - |
| `SkillRuns_proofs` | theorems about it | extends `SkillRuns`, `TLAPS` |
| `AgentTasks` | one durable task, its journal, worker, owner, wake and recovery | - (sees a skill run through what `SkillRuns` shows of it) |
| `AgentTasks_proofs` | theorems about it | extends `AgentTasks`, `TLAPS` |
| `Observations` | the journal of observations and its workers | - |
| `Observations_proofs` | theorems about it | extends `Observations`, `TLAPS` |
| `MCChannelDelivery`, `MCNapCatDelivery`, `MCObservations` | constant functions for TLC | extend the above |

Operators whose name begins with `Fault` are not part of any specification: each is a plausible
mistake in the definition that follows it, and shows that a property can fail.

### ChannelDelivery

`part[p]` and `plan[d]` are rows, reduced to the columns the control reads.  Each action is one
transaction, named after its method; `Derive` is `_derive_delivery_plan_state_tx`, which every
method calls last and which is therefore part of every action.

Time is relative: a lease holds the ticks that are `left`, a deferral the ticks to `wait`, and
`Tick` ages both.  Callers read the clock before they wait for the database, so that a method may
run with a timestamp up to `ClockLag` ticks old.  `AttemptCap` saturates the attempt counter.

### NapCatDelivery

One scheduler process (`pc`) runs reconcile, recover, list, claim, execute and settle; the
execution is `_execute_part` with a step boundary at every await between two effects: open the
journal, guards, save the fence, the last check before sending, the request, the answer, save
the receipt.  `journal` is the persisted cursor, `wire` the requests QQ has not answered, and
`accepted[p]` counts how often QQ showed a part.  `Interrupt` is a crash or a stop at any point,
`CallUncertain` the timeout, `RequestLost` a broken socket, `OpenRaises` and `LockedRaises` failing
awaits.  `Others` are the remaining callers of the repository.  QQ itself is external
(`ProviderAccepts`, `ProviderRefuses`).

`Messenger` is what all of this is for, without leases, retries, journals or clocks: a bubble appears in the chat once and after
its predecessors are known to be there, the books only name bubbles that appeared, and a verdict fits the books, is given
once and is only ever corrected by the news of a delivery.  Under the mapping `shown` is `accepted`, `booked` the parts whose row is
`delivered`, and `verdict` the status of the plan, `open` while it is `pending` or `sending`.

Files, voice, stickers and group forwarding have their own branches and are not in the model.

### EventReplay

`Emit` persists, `Publish` offers to the subscription: events may be published in another order
than they were committed.  `Offered` is `EventSubscription.offer` with its retention classes, and
may shed.  The handler of `/v1/events` is `ServerRead`, `ServerSendNext`, `ServerResume` (the
replay of pages) and `ServerReceive`; the page is `Connect`, `Consume` (consumeEvent),
`FillGap` (replayGap) and `FinishClose`.  `Break`, `Restart` and `Reload` are the surroundings.

### GenerationLifecycle

| Code | Model |
|---|---|
| `_active[session]` | `active` (generation, completing, revoked) |
| `_start_lock` | `lock` |
| the asyncio task of a generation | `task[g]`, one stage per stretch between awaits |
| `task.cancel()`, `task.cancelling()` | `asked[g]`: "pending" until the CancelledError is raised, "raised" after |
| a call of `cancel` in progress | `call[c]`; "join" and "wait" are its two awaits of the task |
| `generations.state`, `sessions.conversation_state` | `row`, `conversation` |
| `set_session_idle`, computed before the transaction | `idle` |
| `_submit` | `Supersede`, `CommitLocal`, `StartLocal` (errors: `Refuse`, `FailLocal`, `AbandonLocal`, `AbandonCommit`, `AbortedLocal`) |
| `_submit_shared_external` | `Supersede`, `RegisterShared`, `StartOwned` (`FenceOwned`, `FailOwned`) |
| `submit_proactive` | `RegisterProactive`, `StartOwned` (`FenceOwned`, `FailOwned`) |
| `begin_`, `complete_realtime_generation`, `terminate_active_generation` | `BeginRealtime`, `StartRealtime`; `CloseRealtime`, `BeginCompletion`, `CloseRefused`; `Terminate` |
| `_run_generation` | `Start`, `Prepare`, `Speak`, `Stale`, `BeginCompletion`, `Fail`, `Write`, `End`, `Raise`, `Swallow` |
| `cancel`, `request_cancel` | `CancelBegins`, `CancelWrites`, `CancelEnds`; `RequestCancel` |
| `reset` | `ResetBegins`, `ResetDeletes` |

A CancelledError is raised where the task awaits (`Raise`): a task that has not started just ends;
a transaction first ends, one way or the other (`Database.transaction` finishes a statement before
it is cancelled); during terminal cleanup it ends the cleanup.

Assumed: SQLite's transactions commit unless they are cancelled; publishing errors are logged by
the code and change nothing.  Not modelled: other sessions (they share only the lock), `stop` at
shutdown, a crash of the runtime, and cancelled callers other than those of `cancel` and `_submit`.
`Parties` says which generations and callers may meet: one run then holds typed, proactive, shared and
realtime turns without the product of all of them.

### CloudCall

| Code | Model |
|---|---|
| `generations.state`, `ConversationService._active` | `row` ("cancelled" also for failed), `entry` |
| `complete_realtime_generation` up to an await | `Completing`, `BeginCompletion`, `CommitCompletion` (`comp[g]`) |
| `terminate_active_generation` of the service | `Terminate`, then `Settle` (`ending`: who asked for which generation) |
| `cancel` over HTTP | `Interrupt`, `PopEntry` |
| `RealtimeSessionMirror` | `active`, `tomb`, `audio`, `done` |
| `_pump_loop`, `dispatch_event` and the output task it waits for | `pump`: `OutputAudio`, `Register`, `PushFrame`; `ResponseCompleted`, `FinalizeStop`, `FinalizeDuration`, `FinalizeMarker`, `AttachTranscript`, `PumpConfirms`, `PumpCompletesAgain`; `ResponseCancelled`, `PumpCancelled` |
| `playback_segments` | `seg[g]`, the facts known of the segment; `spoke[g]` counts its commits |
| `acknowledge`, `playback_completed` | `Acknowledge`, then `Notify` |
| `_begin_utterance`, `admit_utterance` | `SpeechStarts`, `FlushTurn`, `Interrupted`, `Admit`; `AdmissionCommits`, `AdmissionRegisters`, `AdmissionCancelled` |
| `_missing_ack_timeout_runner` | `AckDeadline` |
| `_end_session`, `_finish_session` | `Teardown`, `StreamFails`, `StreamEnds`, `InterruptFails`; `ClosePump`, `CloseFlush`, `CloseTerminate`, `CloseDone` |

One provider response makes one generation with one segment, so that tools and their continuations are left out.
The resolution of provider identities and the deduplication of events are the precondition of the pump's actions: an event
names a generation of this call.  The page and the provider are external: a page reports the end of a segment only once it knows
its duration (`voiceClient.ts:612`).  A cancelled transaction has either committed, which is its step before the cancellation, or rolls back.

### SkillRuns

The rows of one run and of its permission request (`row`, `request`) survive a crash; the rest is memory.
`pc` says where every actor is: the caller of `invoke`, the execution task with its adapter and the shielded commit of its
outcome, the owners who decide, the expiry timer, the callers that cancel, and `stop`.  Every write is
a compare-and-set that goes through the queue `db`, since `Database.transaction` takes an `asyncio.Lock`, which is
first come first served: asking (`Ask`), the commit and the return (`Got`) are three steps, and what was read before the
first may be stale at the last.  `Tear` takes a caller out of an await that the code protects with
`except BaseException` (the handler runs), `Revise` changes the plugin while a run waits, `Restart` is a crash and `start`, and
waiters follow `wait_for_terminal` with its registration between two reads.  Skills and their adapters are external;
an adapter ends, because it is called under a timeout.

### AgentTasks

| Code | Model |
|---|---|
| the row in `agent_tasks` | `task` (state, whether a wake is set, whether a device must confirm) |
| the journal of steps | `step[w]`, the last attempt of each write |
| what the provider did | `tries[w]` (submissions that had or may have an effect), `applied` |
| `_workers`, `worker.cancel()` | `worker` |
| `_revoked`, `_deferred`, `_wakes` | `revoked`, `deferred`, `timer` |
| `action`, `update_authorization`, `reconcile` | `OwnerActs`, `OwnerSaves`, `OwnerJoins`, `OwnerAudits`; `Reconcile` |
| `_dispatch`, `_run`, `_TaskGateway` | `TakeSlot`, `Run`, `BeginWrite`, `InvokeWrite`, `SubmitWrite`, `WriteEnds`, `Conclude`, `Defer`, `TimesOut`, `StandDown`, `Cancelled`, `Leave` |
| `recover_uncertain`, `complete_delivery`, `start` | `HarnessReads`, `HarnessSettles`, `HarnessQueues`; `HarnessCompletes`; `Restart` |
| `_wake`, `receive`, `_consume_event` | `TimerFires`; `ConsumeReads`, `ConsumeDecides`, `ConsumeQueues` |

A write is identified as the code does, by its skill and arguments; two attempts of one write have different
keys.  The service lock covers a read and its compare-and-set, so a checkpoint is one step, while an
owner's call adds the task to `_revoked` some steps before it saves (`Free`).  Not modelled: tasks that depend on another,
claims of one action by two tasks, `resume` with a schedule in the future, events other than wakes, sources that are
forgotten.

### Observations

`row[o]` is the state of a row of `harness_observations`, one for each revision of a source; `receipts` are the
rows of `harness_processing_receipts`.  `Observe` inserts a revision and supersedes the older ones; `Claim` takes back
rows whose lease is over and takes a row of a free room; `Cohort` adds rows of that room; `Check` is the eligibility
check before the processing, which may settle a row; `Processed` and `SettleNext` end a batch; `Review` is the owner's.
`CheckFails`, `Stop` and `LeaseEnds` are the failures.  A lease that ends under a worker still at work is
counted in `overruns`: `OneWorkerPerRow` and `ReceiptIsFinal` are promised only while there is none, since `settle` does not ask
who holds the lease.

## 3. Runs

| Run | Checks | Instance and why it is enough |
|---|---|---|
| `channel_delivery` | the plan invariants, finality, cancellation, leases | a plan of two required bubbles and an optional sticker, a proactive plan of one bubble, one connection, two leases, lag 1: an expired lease taken over, a deferral, and a cancellation that spans two plans fit together; `AttemptCap` 1 only merges the counts above "attempted" |
| `napcat_delivery` | `AtMostOnce`, `ShownInOrder`, `AcceptedIsAccounted`, refinement of `Messenger`; under fairness `ReceiptsAreBooked`, `EveryPlanEnds` | two bubbles, two leases, two attempts; two interruptions: a crash at any point and another one in the recovery from it |
| `event_replay` | refinement of `EventFeed`, `HolesStemFromResets`; under fairness `EventsReachThePage` | three events, queue of 2, page of 2, one reset, one failure: overflow, gap and second page all occur; finding 1 and the overflow named below it are the two exceptions of `EventsReachThePage` |
| `reset_is_consumed` | expected violation, finding 1 | one reset |
| `generation_lifecycle` | verdicts, revocation, order of output; under fairness `CallsReturn` | typed and proactive turn with an interrupt and a reset, or shared turn and realtime call with an interrupt; one cancelled caller or swallowed cancellation |
| `interrupted_has_verdict` | expected violation, finding 2 | one turn, one interrupt |
| `cloud_call` | what is heard and what is committed, silence after a flush, the closed call; under fairness `DoneLetsGo`, `CloseEnds` | two utterances, so that a barge-in has a reply to interrupt and one to admit; two interruptions over HTTP or failing interrupt calls; every order of receipt, transcript and duration, and every way to end the call at any point |
| `skill_runs` | approval, effect and end of a run; under fairness `EveryRunEnds`, `EveryWaiterWakes` | one of each caller, one plugin update, one torn caller, restarts and a stop at any time: every pair of the racing calls meets |
| `torn_decision` | expected violation, finding 4 | two owner's calls, one of them torn |
| `agent_tasks` | writes, revocations, ended tasks; under fairness `OwnerCallEnds` | one write and every kind of call, with any number of crashes, timeouts and attempts: the journal keeps writes apart, so a second one adds only the order of the two |
| `agent_pause` | expected violation, finding 3 | one write, the owner only revises |
| `observations` | one worker per row, receipts, superseded rows; under fairness `EveryObservationEnds` | two sources of one room, one revised by a historical revision, two workers, two attempts, one setback, one early end of a lease |

Deadlock checking is off where the system may stop by right: all work done and all budgets spent.

Bounds: `AttemptCap`, `LeaseTicks`, `DeferTicks`, `ClockLag` (delivery); `Budget` (interruptions,
failures, cancelled callers); `MaxEvents`, `QueueSize` (128 in the code), `PageLimit` (500 in the
code), `MaxResets` (events); `Deltas` (generations); `MaxGens`, `Budget` (calls); `MaxTorn`, `MaxRevision` (skills); `MaxRevision`,
`MaxAttempts` (5 in the code), `MaxSetbacks`, `MaxOverruns` (observations).  `AgentTasks` has no bound: a submission is counted only
while it may have had an effect.  A smaller queue or page only makes the
interesting case come sooner: neither number is used for anything but the comparison.

Type invariants are left to the proofs where there is one (section 5).  Every property of a passing run has a mutant in `PROJECT.json`: replacing the named definition by
its `Fault` makes TLC refute the property.

### Fairness

Weak fairness only where the code itself goes on: tasks the event loop has to run, the publisher,
a handler, a page that reconnects by timer, transactions, time-outs of requests, and the clock.
Strong fairness is used for acquiring the journal lock: `asyncio.Lock` wakes its waiters in FIFO
order, so a task that waits while others take the lock again and again gets its turn.  No arrival, user
action, failure, interruption, lost message or provider answer is fair.  `CallsReturn` assumes that
a provider's stream and a preparation end (they have timeouts) and that a coordinator ends
the generations it began.  In `SkillRuns` the head of the database queue commits, the event loop runs every
task, the adapter ends and an expiry timer fires; decisions, cancellations, updates and crashes are free.
`EveryRunEnds` assumes that the owner of a run under way is not torn outside the code's `try` blocks (see the
hazards).  In `AgentTasks` a cancelled worker ends, a timer fires and its consumer goes on; a worker that is not
cancelled need never end.  In `CloudCall` every task of the runtime goes on and deadlines fire; the provider, the page and the
speaker need never do anything more.  In `Observations` workers go on and leases end.

## 4. Findings

1. **Bug** (`reset_is_consumed`): a reset deletes events that a lagging page has not read.  The page
   rejects the hole, reconnects with the same cursor and meets the same hole until it is reloaded.
2. **Bug** (`interrupted_has_verdict`): cancelling a task before its first step never reaches
   `_cancelled`; `cancel` answers True and the row stays `running` for ever.
3. **Doc and code** (`agent_pause`): ADR 0078 says an updated authorization pauses until an explicit resume;
   `recover_uncertain`, which read the task before, lifts the revocation and launches a worker, and the paused task runs.
4. **Bug** (`torn_decision`): a decision that is torn away while another one of the same request has been committed takes that approval
   for its own and cancels the run, whose task goes on: its effect happens after the run was reported as cancelled.  A comment
   (`runtime_skills/service.py:751`) says that such an approval was never scheduled.  `NoEffectAfterEnd` makes this exception
   (`Overruled`), which needs two decisions; `skill_runs` has one, and therefore checks it without.

More disagreements have no run of their own; the modelled actions do all of them.

- A plan waits for its optional sticker although ADR 0032 says it is delivered with the required parts.
- When the queue of a page sheds the newest event, the page is behind until another one comes (ADR 0024).
- An interrupt in the preparation of a committed generation finds nothing to cancel and the reply is spoken
  (`docs/architecture/basic-demo.md`).
- A wake whose decider defers arms no new timer, although ADR 0081 says it does: the decision runs inside the old timer's task.
- A comment of the skill executor (`runtime_skills/service.py:1277`) says that cancellation no longer touches a run whose adapter
  has returned; a cancellation that already waits for the database wins, and a performed action is recorded as cancelled.
- An interrupt over HTTP, or a barge-in, while the pump of a call is inside `complete_realtime_generation` makes
  `_ensure_current` raise a CancelledError that `_pump_loop` takes for its own: the call stays open but no event of the
  provider is read any more (ADR 0046 says that an interruption does not cancel the pump).
- An interrupt over HTTP ends the row but does not reach the coordinator, whose provider goes on speaking (ADR 0031, section 4).
- `cancel` pops whatever entry the session has when its transaction ends (`conversation/service.py:1235`): a turn admitted meanwhile
  loses its entry, its completion is ignored and its row stays running.  A call that closes while a completion or a
  cancellation of its pump is under way leaves the row running as well.

## 5. Proofs

`ChannelDelivery_proofs` proves for every set of plans, parts, leases and messages, every lag and
every cap, from the three assumptions in `ChannelDelivery`:

| Theorem | Property |
|---|---|
| `TypeCorrect` | `TypeOK` |
| `TerminalInert` | `TerminalPlanHasNoActivePart` |
| `OneLeasePerPlan` | `OneSendingPart` |
| `InOrder` | `AttemptedInOrder` |
| `HonestVerdict` | `VerdictMatchesParts` |
| `DeliveryIsIrreversible` | `DeliveredIsFinal` |
| `CancellationStopsSending` | `NoSendAfterCancel` |
| `LeaseIsExclusive` | `LeaseNotStolen` |
| `VerdictStands` | `VerdictIsFinal` |
| `ParentMirrorsParts` | `ParentIsDerived`: the row of a plan is never stale, it is what its parts would derive now |
| `PlanNeverStuck` | `NeverStuck`: a plan under way has a part that a claim may take or, once cancelled, one whose lease ends; the safety core of `EveryPlanEnds` |

The inductive invariant `IInv` adds to the checked invariants that a plan exists exactly when its
parts do (`CreatedTogether`: otherwise a creation could overwrite rows), that whatever was sent was
attempted (`SentIsAttempted`: the order of attempts is stated through the counter), and that only sent
parts have a message (`UnsentHasNoMessage`: otherwise a receipt could be lost by a release).  The
argument is in two halves, like the code: every method hands good rows to the derivation
(`RowsStep`, one lemma per method), and deriving good rows keeps `IInv` (`DeriveKeepsIInv`).

`VerdictIsFinal` needs more than `IInv`, since a method derives the verdict anew from the rows each time: a verdict stays
because its parts would give it again.  `VInv` therefore says that every verdict can be derived again from the parts
as they are, with two facts about cancellation.  The settlement of a proactive intent may set the flag after the
verdict, which is harmless because that plan has one part (`CancelledAlone`); and cancelled parts stem from a
request or from a verdict (`CancelledKnown`).  `NeverStuck` follows from `IInv`, `VInv` and the order of the parts: the
active part with the least ordinal has only delivered or passed predecessors, so that it is the one a claim may take.

`NapCatDelivery_proofs` proves for any number of interruptions, failing awaits and late answers, from
the assumptions above and `JournalAssumption`:

| Theorem | Property |
|---|---|
| `AdapterUsesRepository` | `QSpec => Spec`: every theorem of the table above holds of the adapter too |
| `AdapterTypeCorrect` | `QTypeOK` |
| `NeverShownTwice` | `AtMostOnce` |
| `NothingVanishes` | `AcceptedIsAccounted` |
| `ShownAsWritten` | `ShownInOrder` |
| `MessengerIsImplemented` | `ImplementsMessenger`, the refinement of `Messenger` |

A step of the adapter changes the rows by one method of the repository or not at all, so the proof
uses what every method keeps of a part (`Keeps`) and never looks into one again.  The inductive
invariant `QInv` is that of the repository and three groups.  `Held`: who holds the job, the lock and
the receipts to import.  `Fenced`: what is on the wire or at QQ has a journal entry or is booked
(`SentIsFenced`), and what the entry says at each stage of `_execute_part` (`Stages`); at most one copy
follows, since a request leaves only between a fence that was not there before and its answer.
`Booked`: a step claims only after it has imported the receipts of its cursor (`ReceiptsImported`),
which is what makes it safe that an entry is dropped once its part is delivered: without it
`_execute_part` could look for the entry of a part it claimed before the receipt was booked, find
none, and send again.

The refinement builds on both invariants.  A step of the adapter is one method of the repository, the moment QQ shows a
part, or neither.  What a method books is said once (`NothingBooked`, `Booking`): no part, which leaves the verdicts or
concludes open ones, or one part that has a message and was therefore shown.  A part shows behind its fence only, and a
fence is raised only for a part whose predecessors are delivered (`AttemptedInOrder`).

`GenerationLifecycle_proofs` proves, from `GenerationAssumption`, for any number of generations, calls of
`cancel`, resets and deltas:

| Theorem | Property |
|---|---|
| `TypeCorrect` | `TypeOK` |
| `Revoked` | `RevokedNeverCompletes` |
| `FirstVerdict` | `VerdictIsFinal` |
| `Silence` | `RevokedIsSilent` |
| `Forward` | `OutputMovesForward` |

Its invariant has two groups besides the types.  `Control`: a generation is admitted once and under
the start lock (`Unborn`, `Unmet`, `Holder`), its entry in `_active` remembers the revocation (`Fence`)
and, once its completion begins, bars another one (`Barrier`).  `Story`: rows are listed in the order of
their admission (`Listed`, `Newest`) and whoever is in `_active` comes after everybody who has spoken
(`Frontier`), which is what an interrupt that answers before the task has ended relies on.  Each half has
its own step lemma (`ControlStep`, `StoryStep`), each with one step per action.

`Observations_proofs` proves, from `ObservationAssumption`, for any sources, rooms, revisions, workers and bounds:

| Theorem | Property |
|---|---|
| `ObservationsTyped` | `OTypeOK` |
| `RowsAreExclusive` | `OneWorkerPerRow` |
| `ReceiptsAreFinal` | `ReceiptIsFinal` |
| `SupersededIsFinal` | `SupersededStays` |

Neither `OneWorkerPerRow` nor `ReceiptIsFinal` is inductive.  The invariant `OInv` adds that a row that may be tried has an
attempt left (`Triable`) and, while no lease ended early, `Leased`: no row in a worker's hand has an expired
lease (`InHand`, so no sweep takes it back), only running or superseded rows expire (`Lost`), and rows with a receipt
are done or superseded (`Filed`).

`AgentTasks_proofs` proves, from `TaskAssumption`, for any set of writes and any choice of the owner's calls:

| Theorem | Property |
|---|---|
| `AgentTasksTyped` | `TTypeOK` |
| `WritesAreSubmittedOnce` | `WriteAtMostOnce` |
| `RevocationsStopWorkers` | `RevokedIsStopped` |
| `TaskEndsAreFinal` | `TaskEndIsFinal` |

The invariant `TInv` has four groups besides the types.  `Ledger`: what the journal calls harmless was never submitted, or
nothing came of it (`Harmless`), also for what the harness has read and will write down later (`ReadHarmless`), and
the write in a worker's hand is one the harness has not read (`Unread`).  `Unblocked`: a task whose worker is in its
turn is not blocked, so that the harness does not read it.  `Fenced`: a revoked worker has been told to stop or the call
that revokes it is about to (`Told`), and somebody waits for every worker that was told (`Awaited`).
`Undecided`: a call of the owner saves what it has checked.

`CloudCall_proofs` proves, from `CallAssumption`, for any number of utterances, interruptions and failing calls:

| Theorem | Property |
|---|---|
| `CallTyped` | `CTypeOK` |
| `CompletedMeansHeard` | `CompletedWasHeard` |
| `SpokenIsJoined` | `SpokenOnce` |
| `NothingAfterAFlush` | `FlushedStaysSilent` |
| `ClosedCallOwnsNothing` | `ClosedOwnsNothing` |

`CompletedWasHeard` is not inductive: that a completion follows its playback is known where the completion begins, in the
pump or in the request that brought the receipt, and the row changes two transactions later.  `CInv` therefore carries it
through every place it may wait (`HeardFirst`), together with the fact that a generation that has got so far is done or has a
tombstone, so that no audio of it is accepted any more.  `Fresh` says that the generation being admitted is in none of the
mirror's sets and that no completion runs meanwhile, which is what lets the call that closes revoke it (`Owned`).  `Silent`
says which generations may still be in the hands of pump and mirror when the flush comes, `Left` what a closing call has
already given up, `Joined` relates the count of commits to the facts of the segment.

`SkillRuns_proofs` proves, from `SkillAssumption`, for any number of deciders, cancellers, waiters, changes of the
plugin and torn callers:

| Theorem | Property |
|---|---|
| `SkillRunsTyped` | `STypeOK` |
| `ApprovedEffects` | `EffectNeedsApproval` |
| `NoLateEffect` | `NoEffectAfterEnd` |
| `EndsAreFinal` | `EndIsFinal` (no invariant needed: the compare-and-sets alone) |
| `NoWakeupLost` | `NoLostWakeup`: whoever waits for a run that has ended is about to be told; the safety core of `EveryWaiterWakes` |

`NoEffectAfterEnd` is the deep one.  Between the commit that starts a run and its effect the row may end, so the
invariant `SInv` has to say why the task then does not go on (`Ended`): its signal is set, its plan has changed, or the run was
`Overruled`.  That needs, for everybody who may end the run, that its task was told or cannot start any more
(`InvokeFenced`, `CancelFenced`, `StopFenced`).  A canceller that found no task is covered by the order of the database's queue:
either its mark is committed before the start of the run (`Ahead`), or the row is `Doomed` and the start is refused.  `Approval`
says that the run is scheduled once, by the only decision whose approval was committed; `Quiet` that a stop finds no caller.
The proof first says what each way to ask, go on, drop the timer or commit does to the queue (the `Moves` lemmas), and then
keeps each part of the invariant action by action.

`NoLostWakeup` has the invariant `WInv`: when the row has ended and the waiter still sleeps, somebody who committed the
end has it yet to announce (`Telling`), a stop is under way and wakes everybody (`Stopping`), or the timer that would have
announced it was cut off by a decision on a changed plan, the one exception `EveryWaiterWakes` makes too; `TimerWon` says that
a timer with an end to announce has expired the run itself.  A commit
that ends the row leaves its owner telling (`CommitTells`), and every announcement wakes (`NotifyWakes`).

`EventReplay_proofs` proves, from `ReplayAssumption`, for any number of events, resets and failures and any size of the
queue and of a page of the stream:

| Theorem | Property |
|---|---|
| `EventsTyped` | `TypeOK` (the type invariant is left to the proof) |
| `WireHasNoHoles` | `HolesStemFromResets` |
| `FeedIsImplemented` | `ImplementsFeed`, the refinement of `EventFeed` |
| `EveryEventOnce` | `ShownOnce`: the page was given each event between its loaded cursor and its cursor once, and no other |

`Replaying` says that nothing stored is missing before the last event of the page the handler replays, which rests on what
`ReadStream` returns (`PageOfStream`); `CaughtUp` that after the last page of a replay nothing stored precedes the event that led to
it but what was sent; `Chained` that the events under way lead from where the page will be once it has filled its gap (`Reached`) to the
`last_sequence` of the handler, without a stored event between two of them.  Connections that end leave nothing behind
(`Hungup`), and the queue matters for none of it: a shed or overtaken event only makes the handler read the stream again.

Only model-checked: all liveness (`ReceiptsAreBooked`, `EveryPlanEnds`, `EventsReachThePage`, `CallsReturn`, `DoneLetsGo`, `CloseEnds`,
`EveryRunEnds`, `EveryWaiterWakes`, `OwnerCallEnds`, `EveryObservationEnds`: fairness and ENABLED are beyond the prover).  For two of
them, as the tables say, the invariant behind it is proved.

## 6. Plan

Done, in the order of what users see twice or lose: `ChannelDelivery`, `NapCatDelivery`, `EventReplay`,
`GenerationLifecycle`, `SkillRuns`, `AgentTasks`, `Observations`, `CloudCall`.  Next:

1. `WeixinDelivery`: the second executor over `ChannelDelivery` (at least once, deterministic client id, cursor saved
   after its batch), implementing a weaker `Messenger` that may show a part twice under the same client id.
2. `ChannelTurns`: received, preparing, generating, delivering; bursts and supersession; composed with
   `ChannelDelivery` and an abstraction of `GenerationLifecycle`.
3. `IndexRebuild`; the tool bridge and its continuations in `CloudCall`; files in `NapCatDelivery`; dependent tasks in
   `AgentTasks`; the avatar's state machine; the desktop sidecar.

## 7. Not modelled

Memory, knowledge, character kernel, photo memory, stickers, companion, protocol packages and the models' workers: stores whose
operations are single transactions, ranking and formatting, or code whose effects are outside the runtime.  Within modelled
components, what is left out is named in section 2 and in the notes of `PROJECT.json`.  The map
covers a small share of the repository because most of it is such code, and because the models follow control rather than length.
