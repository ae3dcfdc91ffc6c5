------------------------------- MODULE AgentTasks -------------------------------
(***************************************************************************)
(* One durable agent task: its worker, the owner's actions, the wake of a  *)
(* deferred task, the harness that recovers a write of unknown outcome     *)
(* from provider facts, crashes and restarts.  The row of the task and     *)
(* the write-ahead journal of its writes survive a crash; the worker, the  *)
(* timer, _revoked and _deferred do not.                                   *)
(*                                                                         *)
(* The service lock covers a read and its compare-and-set, so a checkpoint *)
(* is one step; an action of the owner marks the task revoked under the    *)
(* lock before its save, which is where others slip in.  A skill run is    *)
(* seen through what SkillRuns promises: it is authorized when it is       *)
(* invoked and again before its adapter starts, and a cancelled one        *)
(* submits nothing afterwards.                                             *)
(***************************************************************************)
EXTENDS Naturals, Functions

CONSTANTS
    Writes,     \* the distinct write operations a worker may want: skill and arguments
    NoWrite,
    OwnerOps    \* what the owner may ask: see OwnerCalls

OwnerCalls == {"pause", "cancel", "revise", "resume", "defer", "reconcile"}

ASSUME TaskAssumption == NoWrite \notin Writes /\ OwnerOps \subseteq OwnerCalls

VARIABLES
    task,       \* the row in agent_tasks: state, wake_at set, waits for the device
    step,       \* what the journal says of the last attempt of each write
    tries,      \* submissions of a write that had, or may yet have, an effect
    applied,    \* the writes whose effect the provider shows
    worker,     \* where the worker task is, on which write, and whether it was cancelled
    revoked, deferred,
    owner,      \* the owner's call in progress and how far it is
    harness,    \* how far the harness is with the task, and the unsettled steps it read
    timer,      \* the entry in _wakes: "none", "armed", or consuming its event
    consumer,   \* how far _consume_event is
    fresh,      \* the row is still at the revision _consume_event read
    event       \* the row of the event of the present wake: "none", "pending", "settled"

outside == <<tries, applied>>
memory  == <<worker, revoked, deferred, owner, harness, timer, consumer>>
rows    == <<task, step, outside, event>>
tvars   == <<rows, memory, fresh>>

Ended    == {"succeeded", "failed", "cancelled"}
Waiting  == {"waiting_event", "waiting_input"}
States   == Ended \cup Waiting \cup {"queued", "running", "waiting_authorization", "paused"}

NoCall    == [op |-> "none", at |-> "none"]
Idle      == [at |-> "idle", of |-> <<>>]
NoWorker  == [at |-> "none", on |-> NoWrite, cancel |-> FALSE]
NewWorker == [at |-> "slot", on |-> NoWrite, cancel |-> FALSE]

TInit ==
    /\ task \in [state : {"queued"}, wake : {FALSE}, device : {FALSE}]
                \cup [state : {"waiting_event"}, wake : {TRUE}, device : {FALSE}]
    /\ step = [w \in Writes |-> "none"] /\ tries = [w \in Writes |-> 0] /\ applied = {}
    /\ worker = IF task.state = "queued" THEN NewWorker ELSE NoWorker
    /\ timer = IF task.wake THEN "armed" ELSE "none"
    /\ revoked = FALSE /\ deferred = FALSE /\ owner = NoCall
    /\ harness = Idle /\ consumer = "idle" /\ fresh = FALSE /\ event = "none"

------------------------------------------------------------------------------
(* Checkpoints, the journal and launching.                                  *)

\* The lock is free: no action of the owner is between its checks and its save.
Free == owner.at # "lock"

\* Fault: a checkpoint moves a task that has ended.
FaultCheckpoint(state) ==
    [task EXCEPT !.state = IF revoked /\ @ = "paused" THEN @ ELSE state]

\* update_checkpoint: a task that has ended, or that a revocation paused, keeps
\* its state.
Checkpoint(state) ==
    [task EXCEPT !.state = IF @ \in Ended \/ (revoked /\ @ = "paused") THEN @ ELSE state]

\* An unsettled write: started, or of unknown outcome.
Uncertain == {w \in Writes : step[w] \in {"started", "unknown", "refused"}}

\* Fault: every write that did not succeed may be tried again.
FaultRetryable(w) == step[w] \in {"none", "noEffect", "rejected"}

\* begin_step accepts a write under its own key, or under a fresh retry key once
\* the attempt before is known to have had no effect.
Retryable(w) == step[w] \in {"none", "noEffect"}

Launched == IF worker.at = "none" THEN NewWorker ELSE worker
Armed(t) == IF t.state = "waiting_event" /\ t.wake /\ timer = "none" THEN "armed" ELSE timer

------------------------------------------------------------------------------
(* The worker: _dispatch, _run and the gateway of its tools.                *)

At(place)   == worker.at = place /\ ~worker.cancel
Go(place)   == worker' = [worker EXCEPT !.at = place]

\* ensure_current in _dispatch: a revoked task is dropped, and so is a deferred one.
TakeSlot ==
    /\ At("slot")
    /\ worker' = IF revoked \/ deferred THEN NoWorker ELSE [worker EXCEPT !.at = "start"]
    /\ UNCHANGED <<task, step, outside, revoked, deferred, owner, harness, timer, consumer, event>>

Run ==
    /\ At("start") /\ Free /\ task' = Checkpoint("running")
    /\ Go(IF task'.state = "running" THEN "think" ELSE "leave")
    /\ UNCHANGED <<step, outside, revoked, deferred, owner, harness, timer, consumer, event>>

\* The model wants a write: the tool call is counted, the journal consulted and
\* the attempt written ahead; nothing unsettled may be in the journal.  The retry has
\* a key of its own, which what the harness read of an earlier attempt cannot touch.
BeginWrite(w) ==
    /\ At("think") /\ ~revoked /\ ~deferred /\ Uncertain = {} /\ Retryable(w)
    /\ step' = [step EXCEPT ![w] = "started"]
    /\ worker' = [worker EXCEPT !.at = "invoke", !.on = w]
    /\ harness' = [harness EXCEPT !.of = Restrict(@, (DOMAIN @) \ {w})]
    /\ UNCHANGED <<task, outside, revoked, deferred, owner, timer, consumer, event>>

\* authorize: the task is not revoked and runs, or waits for this confirmation.
Authorized == ~revoked /\ task.state \in {"running", "waiting_authorization"}

\* skills.invoke: refused before a run exists, admitted, or put before the owner.
InvokeWrite ==
    /\ At("invoke")
    /\ \/ /\ step' = [step EXCEPT ![worker.on] = "noEffect"]
          /\ worker' = [worker EXCEPT !.at = "think", !.on = NoWrite]
          /\ UNCHANGED task
       \/ Authorized /\ Go("run") /\ UNCHANGED <<task, step>>
       \/ Authorized /\ Free /\ Go("run") /\ task' = Checkpoint("waiting_authorization")
          /\ UNCHANGED step
    /\ UNCHANGED <<outside, revoked, deferred, owner, harness, timer, consumer, event>>

\* The run is authorized once more, and its adapter submits the write.
SubmitWrite ==
    /\ At("run") /\ Authorized /\ Go("await")
    /\ tries' = [tries EXCEPT ![worker.on] = @ + 1]
    /\ UNCHANGED <<task, step, applied, revoked, deferred, owner, harness, timer, consumer, event>>

\* The provider applies what was submitted, whether or not anyone still waits.
Apply(w) ==
    /\ tries[w] > 0 /\ w \notin applied /\ applied' = applied \cup {w}
    /\ UNCHANGED <<task, step, tries, memory, event>>

\* wait_for_terminal of the gateway: success, an error code known to mean that
\* nothing was done, a denial that only its message tells apart, or unknown.
Settles(w, outcome) ==
    /\ outcome = "ok" => w \in applied
    /\ outcome \in {"noEffect", "refused"} => w \notin applied
    /\ step' = [step EXCEPT ![w] = outcome]
    /\ tries' = IF outcome \in {"noEffect", "refused"} THEN [tries EXCEPT ![w] = 0] ELSE tries

WriteEnds ==
    /\ \/ At("await") /\ \E o \in {"ok", "noEffect", "refused", "unknown"} : Settles(worker.on, o)
       \/ At("run") /\ step' = [step EXCEPT ![worker.on] = "unknown"] /\ UNCHANGED tries
    /\ Free
    /\ task' = IF task.state = "waiting_authorization" THEN Checkpoint("running") ELSE task
    /\ worker' = [worker EXCEPT !.at = "think", !.on = NoWrite]
    /\ UNCHANGED <<applied, revoked, deferred, owner, harness, timer, consumer, event>>

\* The model defers its own task with a bounded wake.
Defer ==
    /\ At("think") /\ Free /\ ~revoked /\ task.state = "running"
    /\ task' = [Checkpoint("waiting_event") EXCEPT !.wake = TRUE]
    /\ deferred' = TRUE /\ event' = "none" /\ Go("leave")
    /\ UNCHANGED <<step, outside, revoked, owner, harness, timer, consumer>>

\* The turn is over: an unsettled write blocks it, otherwise it is complete,
\* blocked on something, or failed; a turn whose verdict is to replan goes on.
Verdicts == IF Uncertain # {} THEN {"waiting_input"}
            ELSE {"succeeded", "waiting_input", "waiting_authorization", "waiting_event",
                  "paused", "failed"}

Conclude ==
    /\ At("think") /\ Free /\ ~revoked
    /\ \E v \in Verdicts :
          task' = [Checkpoint(v) EXCEPT !.device = @ \/ v = "waiting_event"]
    /\ Go("leave")
    /\ UNCHANGED <<step, outside, revoked, deferred, owner, harness, timer, consumer, event>>

\* The budget of active time ends wherever the turn is.
TimesOut ==
    /\ worker.at \in {"think", "invoke", "run", "await"} /\ ~worker.cancel /\ Free
    /\ task' = Checkpoint("paused") /\ Go("leave")
    /\ UNCHANGED <<step, outside, revoked, deferred, owner, harness, timer, consumer, event>>

\* ensure_current between two steps of the turn.
StandDown ==
    /\ At("think") /\ (revoked \/ deferred)
    /\ worker' = [worker EXCEPT !.at = "leave", !.cancel = revoked]
    /\ UNCHANGED <<task, step, outside, revoked, deferred, owner, harness, timer, consumer, event>>

\* worker.cancel arrives: the skill run is cancelled and joined, the write it
\* was about stays as the journal has it, and a task that ran is queued again.
Cancelled ==
    /\ worker.cancel /\ Free
    /\ task' = IF worker.at # "slot" /\ task.state \in {"running", "waiting_authorization"}
               THEN Checkpoint("queued") ELSE task
    /\ worker' = NoWorker /\ timer' = IF worker.at = "slot" THEN timer ELSE Armed(task')
    /\ UNCHANGED <<step, outside, revoked, deferred, owner, harness, consumer, event>>

\* The finally of _run: the worker goes, a wake is scheduled.
Leave ==
    /\ At("leave") /\ Free /\ worker' = NoWorker /\ timer' = Armed(task)
    /\ UNCHANGED <<task, step, outside, revoked, deferred, owner, harness, consumer, event>>

------------------------------------------------------------------------------
(* The owner: action, update_authorization and reconcile.                   *)

\* start() has not yet returned: it still consumes the pending event itself.
Booting == consumer # "idle" /\ timer # "consuming"

Revokes == {"pause", "cancel", "revise"}

\* The lock is taken, the checks pass, _revoked changes just before the save.
OwnerActs(op) ==
    /\ owner = NoCall /\ ~Booting /\ task.state \notin Ended
    /\ op \in {"resume", "defer"} => Uncertain = {}
    /\ op = "resume" => worker.at = "none"
    /\ revoked' = (op \in Revokes)
    /\ owner' = [op |-> op, at |-> "lock"]
    /\ UNCHANGED <<rows, worker, deferred, harness, timer, consumer>>

After(op) ==
    CASE op = "pause"  -> [task EXCEPT !.state = "paused"]
      [] op = "revise" -> [task EXCEPT !.state = "paused", !.wake = FALSE]
      [] op = "cancel" -> [task EXCEPT !.state = "cancelled", !.wake = FALSE]
      [] op = "resume" -> [task EXCEPT !.state = "queued", !.wake = FALSE]
      [] op = "defer"  -> [task EXCEPT !.state = "waiting_event", !.wake = TRUE]

\* The wake is dropped, together with the event it may be consuming; a deferral
\* arms a new one.  Then what the provider knows is written down.
WakeDropped ==
    /\ timer' = IF task'.state = "waiting_event" /\ owner.op = "defer" THEN "armed" ELSE "none"
    /\ consumer' = IF timer = "consuming" THEN "idle" ELSE consumer
    /\ owner' = IF owner.op \in {"pause", "cancel"} THEN [owner EXCEPT !.at = "audit"] ELSE NoCall

\* Fault: the lock is held until the worker has been joined.
FaultJoins == [owner EXCEPT !.at = IF worker.at = "none" THEN "join" ELSE "lock"]

\* The lock is released before the worker is joined.
Joins == [owner EXCEPT !.at = "join"]

\* The save and the release of the lock, then at once the worker's cancellation
\* or, for resume, its launch; without a worker to join the wake goes at once.
OwnerSaves ==
    /\ owner.at = "lock" /\ task' = After(owner.op)
    /\ event' = IF owner.op = "defer" THEN "none" ELSE event
    /\ deferred' = (deferred /\ owner.op # "resume")
    /\ \/ /\ owner.op # "resume" /\ worker.at # "none"
          /\ worker' = [worker EXCEPT !.cancel = TRUE]
          /\ owner' = Joins /\ UNCHANGED <<timer, consumer>>
       \/ /\ owner.op = "resume" \/ worker.at = "none"
          /\ worker' = IF owner.op = "resume" THEN Launched ELSE worker
          /\ WakeDropped
    /\ UNCHANGED <<step, outside, revoked, harness>>

\* Fault: the call goes on without waiting for the worker it cancelled.
FaultJoined == TRUE

\* The worker that was cancelled is gone.
Joined == ~worker.cancel

OwnerJoins ==
    /\ owner.at = "join" /\ Joined /\ UNCHANGED <<rows, worker, revoked, deferred, harness>>
    /\ WakeDropped

\* The owner reports what became of a write: evidence, never a receipt.
Reconcile(w, outcome) ==
    /\ "reconcile" \in OwnerOps /\ owner = NoCall /\ ~Booting
    /\ worker.at = "none" /\ task.state \notin Ended
    /\ w \in Uncertain /\ step' = [step EXCEPT ![w] = outcome]
    /\ task' = [task EXCEPT !.state = "paused"]
    /\ UNCHANGED <<outside, event, memory>>

------------------------------------------------------------------------------
(* recover_uncertain, complete_delivery and a start after a crash.          *)

Unsettled == [w \in Uncertain |-> step[w]]

\* The provider answers for each step that was read: its preflight refused the
\* write, or it shows the write's effect.  Anything else leaves the step alone.
Proven(of) == \A w \in DOMAIN of : of[w] = "refused" \/ w \in applied

Settled(of) ==
    [w \in Writes |-> IF w \notin DOMAIN of THEN step[w]
                      ELSE IF of[w] = "refused" THEN "noEffect" ELSE "ok"]

\* audit_only: the facts are recorded, the task stays as it is.
Audit == step' = IF Proven(Unsettled) THEN Settled(Unsettled) ELSE step

OwnerAudits ==
    /\ owner.at = "audit" /\ owner' = NoCall /\ Audit
    /\ UNCHANGED <<task, outside, event, worker, revoked, deferred, harness, timer, consumer>>

\* The harness finds the task blocked on an unknown outcome, or waiting for a
\* device that has now confirmed, and reads the provider.
HarnessReads ==
    /\ harness = Idle /\ ~Booting
    /\ \/ /\ task.state = "waiting_input" /\ Uncertain # {}
          /\ harness' = [at |-> "recover", of |-> Unsettled]
       \/ /\ task.state = "waiting_event" /\ task.device
          /\ harness' = [at |-> "deliver", of |-> <<>>]
    /\ UNCHANGED <<rows, worker, revoked, deferred, owner, timer, consumer>>

HarnessGivesUp ==
    /\ harness.at \in {"recover", "deliver"} /\ harness' = Idle
    /\ UNCHANGED <<rows, worker, revoked, deferred, owner, timer, consumer>>

HarnessSettles ==
    /\ harness.at = "recover" /\ Proven(harness.of)
    /\ step' = Settled(harness.of) /\ harness' = [at |-> "queue", of |-> <<>>]
    /\ UNCHANGED <<task, outside, event, worker, revoked, deferred, owner, timer, consumer>>

HarnessQueues ==
    /\ harness.at = "queue" /\ Free
    /\ task' = Checkpoint("queued") /\ revoked' = FALSE /\ worker' = Launched /\ harness' = Idle
    /\ UNCHANGED <<step, outside, event, deferred, owner, timer, consumer>>

HarnessCompletes ==
    /\ harness.at = "deliver" /\ Free /\ harness' = Idle
    /\ task' = [Checkpoint("succeeded") EXCEPT !.device = FALSE]
    /\ UNCHANGED <<step, outside, event, worker, revoked, deferred, owner, timer, consumer>>

\* start(): a task that was running is queued again only when nothing in its
\* journal is unsettled, or when the provider settles it.
Resumes ==
    IF Uncertain = {} \/ step' # step THEN {[task EXCEPT !.state = "queued"]}
    ELSE {[task EXCEPT !.state = "waiting_input"]}

Restart ==
    /\ revoked' = FALSE /\ deferred' = FALSE /\ owner' = NoCall /\ harness' = Idle
    /\ consumer' = IF event = "pending" THEN "read" ELSE "idle"
    /\ \/ /\ task.state \in {"queued", "running", "waiting_authorization"}
          /\ Audit \/ UNCHANGED step
          /\ task' \in Resumes /\ timer' = "none"
          /\ worker' = IF task'.state = "queued" THEN NewWorker ELSE NoWorker
       \/ /\ task.state \notin {"queued", "running", "waiting_authorization"}
          /\ IF task.state = "cancelled" THEN Audit \/ UNCHANGED step ELSE UNCHANGED step
          /\ task' = task /\ worker' = NoWorker
          /\ timer' = IF task.state = "waiting_event" /\ task.wake THEN "armed" ELSE "none"
    /\ UNCHANGED <<outside, event>>

------------------------------------------------------------------------------
(* The wake of a deferred task: _wake, receive and _consume_event.          *)

\* An event that is already in the journal is not inserted again; one whose
\* authorization expired blocks the task.
TimerFires ==
    /\ timer = "armed" /\ ~Booting
    /\ \/ /\ event = "none" /\ event' = "pending"
          /\ timer' = "consuming" /\ consumer' = "read" /\ UNCHANGED task
       \/ event # "none" /\ timer' = "none" /\ UNCHANGED <<task, event, consumer>>
       \/ Free /\ task' = Checkpoint("waiting_authorization") /\ timer' = "none"
          /\ UNCHANGED <<event, consumer>>
    /\ UNCHANGED <<step, outside, worker, revoked, deferred, owner, harness>>

\* The event is settled and its consumer, the timer's task perhaps, is done.
Consumed ==
    /\ consumer' = "idle" /\ timer' = IF timer = "consuming" THEN "none" ELSE timer

ConsumeReads ==
    /\ consumer = "read"
    /\ IF task.state \in Waiting THEN consumer' = "decide" /\ UNCHANGED <<timer, event>>
       ELSE Consumed /\ event' = "settled"
    /\ UNCHANGED <<task, step, outside, worker, revoked, deferred, owner, harness>>

\* The decider answers for the revision it was shown; a row that has changed is
\* left alone.  Waiting and deferring rewrite the wake; _schedule_wake then finds
\* the entry of the timer that runs this very code.
ConsumeDecides ==
    /\ consumer = "decide"
    /\ \/ ~fresh /\ Consumed /\ event' = "settled" /\ UNCHANGED <<task, revoked, deferred>>
       \/ /\ fresh /\ consumer' = "queue" /\ revoked' = FALSE /\ deferred' = FALSE
          /\ UNCHANGED <<task, timer, event>>
       \/ /\ fresh /\ Free /\ task' = [Checkpoint("waiting_event") EXCEPT !.wake = FALSE]
          /\ Consumed /\ event' = "settled" /\ UNCHANGED <<revoked, deferred>>
       \/ /\ fresh /\ Free /\ task' = [Checkpoint("waiting_event") EXCEPT !.wake = TRUE]
          /\ consumer' = "idle" /\ event' = "none" /\ UNCHANGED <<revoked, deferred>>
          /\ timer' = IF timer = "consuming" THEN "none" ELSE "armed"
    /\ UNCHANGED <<step, outside, worker, owner, harness>>

ConsumeQueues ==
    /\ consumer = "queue" /\ Free
    /\ task' = [Checkpoint("queued") EXCEPT !.wake = FALSE] /\ worker' = Launched
    /\ Consumed /\ event' = "settled"
    /\ UNCHANGED <<step, outside, revoked, deferred, owner, harness>>

------------------------------------------------------------------------------
Worker ==
    \/ TakeSlot \/ Run \/ InvokeWrite \/ SubmitWrite \/ WriteEnds \/ Defer \/ Conclude \/ TimesOut
    \/ StandDown \/ Cancelled \/ Leave \/ \E w \in Writes : BeginWrite(w)

Owner ==
    \/ \E op \in OwnerOps \ {"reconcile"} : OwnerActs(op)
    \/ OwnerSaves \/ OwnerJoins \/ OwnerAudits
    \/ \E w \in Writes, o \in {"accepted", "rejected"} : Reconcile(w, o)

Harness  == HarnessReads \/ HarnessGivesUp \/ HarnessSettles \/ HarnessQueues \/ HarnessCompletes
Consumer == ConsumeReads \/ ConsumeDecides \/ ConsumeQueues

\* Any change of the row raises its revision.
Watch == fresh' = (consumer' = "decide" /\ (consumer = "read" \/ (fresh /\ UNCHANGED <<task, owner>>)))

TNext ==
    /\ Worker \/ Owner \/ Harness \/ TimerFires \/ Consumer \/ Restart \/ \E w \in Writes : Apply(w)
    /\ Watch

TSpec == TInit /\ [][TNext]_tvars

\* asyncio runs every task that can go on: the owner's call, a worker that is
\* cancelled or leaving, a timer that is due and the consumer of its event.
TFairness ==
    /\ WF_tvars(OwnerSaves /\ Watch) /\ WF_tvars(OwnerJoins /\ Watch)
    /\ WF_tvars(OwnerAudits /\ Watch) /\ WF_tvars((Cancelled \/ Leave) /\ Watch)
    /\ WF_tvars(TimerFires /\ Watch) /\ WF_tvars(Consumer /\ Watch)

TLiveSpec == TSpec /\ TFairness

------------------------------------------------------------------------------
(* Properties.                                                              *)

\* Every variable stays in its range, and what one keeps of another agrees with it.
TTypeOK ==
    /\ task \in [state : States, wake : BOOLEAN, device : BOOLEAN]
    /\ step \in [Writes -> {"none", "started", "unknown", "refused", "noEffect", "ok",
                            "accepted", "rejected"}]
    /\ tries \in [Writes -> Nat] /\ applied \subseteq Writes
    /\ worker \in [at : {"none", "slot", "start", "think", "invoke", "run", "await", "leave"},
                   on : Writes \cup {NoWrite}, cancel : BOOLEAN]
    /\ revoked \in BOOLEAN /\ deferred \in BOOLEAN /\ fresh \in BOOLEAN
    /\ owner \in [op : {"none", "resume", "defer"} \cup Revokes, at : {"none", "lock", "join", "audit"}]
    /\ harness.at \in {"idle", "recover", "queue", "deliver"}
    /\ DOMAIN harness.of \subseteq Writes
    /\ \A w \in DOMAIN harness.of : harness.of[w] \in {"started", "unknown", "refused"}
    /\ timer \in {"none", "armed", "consuming"}
    /\ consumer \in {"idle", "read", "decide", "queue"}
    /\ event \in {"none", "pending", "settled"}
    /\ worker.at = "none" => worker = NoWorker
    /\ timer = "consuming" => consumer # "idle"
    /\ fresh => consumer = "decide" /\ task.state \in Waiting

\* Whatever crashes, cancellations, timeouts, recoveries and reports of the owner
\* come between, a write is never submitted again while its effect may exist: the
\* journal of _TaskGateway.invoke keeps one attempt per write unless the attempt is
\* known to have done nothing.
WriteAtMostOnce == \A w \in Writes : tries[w] <= 1

\* Once the call that revoked a task has joined its worker, no worker of the task
\* gets past its slot until something lifts the revocation (action, update_authorization).
RevokedIsStopped == revoked /\ owner.at \notin {"lock", "join"} => worker.at \in {"none", "slot"}

\* A task that has ended keeps its state, although workers, wakes, recoveries and
\* device confirmations that read it earlier still write checkpoints.
TaskEndIsFinal == [][(task.state \in Ended) => task'.state = task.state]_tvars

\* Every action of the owner returns: the worker it joins may itself need the
\* service lock for its last checkpoint.
OwnerCallEnds == (owner # NoCall) ~> (owner = NoCall)

\* docs/adr/0078: a paused task needs an explicit resume.
PauseStands ==
    [][(task.state = "paused" /\ task'.state \in {"queued", "running"}) => owner.op = "resume"]_tvars
=============================================================================
