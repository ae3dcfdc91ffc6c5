------------------------------- MODULE SkillRuns -------------------------------
(***************************************************************************)
(* The life of one skill run in RuntimeSkillService: the caller that       *)
(* admits it, the owner who approves it, the task that executes it, the    *)
(* timer and the page that expire its confirmation, callers that cancel    *)
(* it and callers that wait for its end, a shutdown, and a restart.        *)
(*                                                                         *)
(* Every write is a compare-and-set on the row of the run, executed under  *)
(* the asyncio.Lock of the database, whose waiters are served first come   *)
(* first served: db is that queue.  Asking, the commit and the return to   *)
(* the caller are three steps.  A caller may be torn out of an await: a    *)
(* write that waits for the lock is dropped, one that has the lock         *)
(* commits (Database.transaction), and the caller's handler runs.          *)
(***************************************************************************)
EXTENDS Naturals, Sequences, Functions

CONSTANTS
    Deciders,       \* owners' calls of decide_confirmation
    Cancellers,     \* calls of cancel
    Waiters,        \* calls of wait_for_terminal
    MaxRevision,    \* bound on changes of the plugin package or the connection
    MaxTorn         \* bound on callers torn out of an await

Tasks  == {"invoke", "execute", "timer", "stop"}
Actors == Tasks \cup Deciders \cup Cancellers

ASSUME SkillAssumption ==
    /\ Tasks \cap (Deciders \cup Cancellers) = {} /\ Deciders \cap Cancellers = {}
    /\ MaxRevision \in Nat /\ MaxTorn \in Nat

VARIABLES
    skill,      \* what kind of capability this is
    row,        \* state of the row in skill_runs
    request,    \* state of its permission request
    db,         \* who waits for the database lock, first come first served
    pc,         \* where each task and each caller is
    reply,      \* the answer to its last write: "none", "wait", "won" or "lost"
    handle,     \* the execution task a canceller found in _tasks
    sig,        \* task.cancel() was called and has not been raised yet
    ready,      \* _outcome_ready: the adapter returned a valid outcome
    args,       \* _pending_arguments
    revision,   \* of the plugin package or the connection; the plan holds 0
    effects,    \* the revisions under which the adapter was launched
    waiter,     \* the state of every wait_for_terminal
    torn        \* how many callers were torn out of an await

memory == <<db, pc, reply, handle, sig, ready, args, waiter>>
world  == <<skill, revision, effects, torn>>
svars  == <<row, request, memory, world>>

Terminal == {"succeeded", "failed", "cancelled", "expired"}
Open     == {"created", "waiting", "running", "cancelling"}

Skills == [confirm : BOOLEAN, interruptible : BOOLEAN]

SInit ==
    /\ skill \in Skills
    /\ row = "absent" /\ request = "none"
    /\ db = <<>> /\ pc = [a \in Actors |-> "idle"] /\ reply = [a \in Actors |-> "none"]
    /\ handle = [c \in Cancellers |-> FALSE] /\ sig = FALSE /\ ready = FALSE /\ args = FALSE
    /\ revision = 0 /\ effects = {} /\ torn = 0
    /\ waiter = [w \in Waiters |-> "idle"]

------------------------------------------------------------------------------
(* The queue of the database and the compare-and-sets it serves.            *)

\* The execution task exists: it is in _tasks until its done callback ran.
Live == pc["execute"] \notin {"idle", "ended"}

\* New calls are taken until the service is stopped.
Serving == pc["stop"] = "idle"

\* Actor a asks for the write op and waits; a caller that moves on otherwise.
Ask(a, op)  == /\ pc' = [pc EXCEPT ![a] = op] /\ reply' = [reply EXCEPT ![a] = "wait"]
               /\ db' = Append(db, a)
Goto(a, to) == /\ pc' = [pc EXCEPT ![a] = to] /\ reply' = [reply EXCEPT ![a] = "none"]
               /\ UNCHANGED db
Got(a, op, answer) == pc[a] = op /\ reply[a] = answer
Done(a, ops)       == pc[a] \in ops /\ reply[a] \in {"won", "lost"}

\* The head of the queue wants op; the row moves from one of the states, or not.
Cas(op, from, to) ==
    /\ db # <<>> /\ pc[Head(db)] = op /\ db' = Tail(db)
    /\ reply' = [reply EXCEPT ![Head(db)] = IF row \in from THEN "won" ELSE "lost"]
    /\ row' = IF row \in from THEN to ELSE row

\* A transaction that ends the run takes its pending request along.
Closes(from) == request' = IF row \in from /\ request = "pending" THEN "expired" ELSE request

\* Fault: the success of an adapter is written whatever became of the run.
FaultCompleteRun == Cas("complete", Open \cup Terminal, "succeeded") /\ UNCHANGED request

CreateRun       == Cas("create", {"absent"}, "created") /\ UNCHANGED request
CreateRequest   == /\ Cas("request", {"created"}, "waiting")
                   /\ request' = IF row = "created" THEN "pending" ELSE request
CompleteRun     == Cas("complete", {"running"}, "succeeded") /\ UNCHANGED request
FailRun         == /\ Cas("fail", {"created", "waiting", "running"}, "failed")
                   /\ Closes({"created", "waiting", "running"})
CancelRun       == Cas("cancel", Open, "cancelled") /\ Closes(Open)
MarkCancelling  == /\ Cas("mark", {"created", "waiting"} \cup
                          IF skill.interruptible THEN {"running"} ELSE {}, "cancelling")
                   /\ UNCHANGED request

MarkRunning     == Cas("start", {"created"}, "running") /\ UNCHANGED request

\* A decision and an expiry count only while the request is pending.
Pending         == IF request = "pending" THEN {"waiting"} ELSE {}
DecideAllow     == /\ Cas("allow", Pending, "created")
                   /\ request' = IF row \in Pending THEN "allowed" ELSE request
DecideDeny      == /\ Cas("deny", Pending, "waiting")
                   /\ request' = IF row \in Pending THEN "denied" ELSE request
ExpireRequest   == /\ Cas("expire", Pending, "expired")
                   /\ request' = IF request = "pending" THEN "expired" ELSE request

Commit ==
    /\ \/ CreateRun \/ CreateRequest \/ MarkRunning \/ CompleteRun \/ FailRun
       \/ CancelRun \/ MarkCancelling \/ DecideAllow \/ DecideDeny \/ ExpireRequest
    /\ UNCHANGED <<pc, handle, sig, ready, args, waiter, world>>

\* _notify_terminal: everyone who has registered is woken.
Woken  == [w \in Waiters |-> CASE waiter[w] = "registered" -> "signalled"
                               [] waiter[w] = "parked" -> "woken"
                               [] OTHER -> waiter[w]]
Notify(yes) == waiter' = IF yes THEN Woken ELSE waiter

\* The queue once a no longer waits in it.
Without(a) ==
    IF a \notin Range(db) THEN db
    ELSE LET at == CHOOSE i \in DOMAIN db : db[i] = a
         IN  [i \in 1..(Len(db) - 1) |-> IF i < at THEN db[i] ELSE db[i + 1]]

\* _cancel_confirmation_expiry: the timer task is cancelled wherever it is.
NoTimer == [pc EXCEPT !["timer"] = IF @ = "idle" THEN "idle" ELSE "ended"]

\* a drops the timer and then asks for op; or drops it and goes on to `to`.
DropAndAsk(a, op)  == /\ pc' = [NoTimer EXCEPT ![a] = op]
                      /\ reply' = [reply EXCEPT !["timer"] = "none", ![a] = "wait"]
                      /\ db' = Append(Without("timer"), a)
DropAndGoto(a, to) == /\ pc' = [NoTimer EXCEPT ![a] = to]
                      /\ reply' = [reply EXCEPT !["timer"] = "none", ![a] = "none"]
                      /\ db' = Without("timer")

------------------------------------------------------------------------------
(* invoke: the run is created, then scheduled or put before the owner.      *)

Invoke ==
    /\ pc["invoke"] = "idle" /\ Serving /\ Ask("invoke", "create") /\ args' = TRUE
    /\ UNCHANGED <<row, request, handle, sig, ready, waiter, world>>

Admitted ==
    /\ Got("invoke", "create", "won")
    /\ IF skill.confirm
       THEN Ask("invoke", "request")
       ELSE /\ pc' = [pc EXCEPT !["invoke"] = "snapshot", !["execute"] = "read"]
            /\ reply' = [reply EXCEPT !["invoke"] = "none"] /\ UNCHANGED db
    /\ UNCHANGED <<row, request, handle, sig, ready, args, waiter, world>>

Requested ==
    /\ Got("invoke", "request", "won")
    /\ pc' = [pc EXCEPT !["invoke"] = "snapshot", !["timer"] = "armed"]
    /\ reply' = [reply EXCEPT !["invoke"] = "none"]
    /\ UNCHANGED <<row, request, db, handle, sig, ready, args, waiter, world>>

InvokeReturns ==
    /\ pc["invoke"] = "snapshot" /\ Goto("invoke", "done")
    /\ UNCHANGED <<row, request, handle, sig, ready, args, waiter, world>>

\* _compensate_created_run: after an error, or for a caller torn out of invoke.
Compensate ==
    /\ pc["invoke"] = "compensate" \/ Got("invoke", "request", "lost")
    /\ args' = FALSE
    /\ IF Live THEN sig' = TRUE /\ Goto("invoke", "join")
       ELSE UNCHANGED sig /\ Ask("invoke", "fail")
    /\ UNCHANGED <<row, request, handle, ready, waiter, world>>

\* The bounded join of a cancelled execution: it ended, or it ignores the signal.
Joined == ~Live \/ ~sig \/ pc["execute"] \in {"adapter", "complete"}

CompensateFails ==
    /\ pc["invoke"] = "join" /\ Joined /\ Ask("invoke", "fail")
    /\ UNCHANGED <<row, request, handle, sig, ready, args, waiter, world>>

Compensated ==
    /\ Done("invoke", {"fail"})
    /\ Notify(reply["invoke"] = "won") /\ Goto("invoke", "done")
    /\ UNCHANGED <<row, request, handle, sig, ready, args, world>>

------------------------------------------------------------------------------
(* _execute: one task per scheduled run.                                    *)

\* Fault: the plan is checked when execution begins and not again at the launch.
FaultUnchanged == row = "running" \/ revision = 0

\* _resolve_current_plan: the package or the connection is the approved one.
Unchanged == revision = 0

\* The plan, the payload and the authorization of the run are checked; the last
\* may always have been revoked.
ExecuteResolves ==
    /\ pc["execute"] = "read" /\ ~sig
    /\ \/ Unchanged /\ args /\ Ask("execute", "start")
       \/ Ask("execute", "fail")
    /\ UNCHANGED <<row, request, handle, sig, ready, args, waiter, world>>

Started ==
    /\ Got("execute", "start", "won") /\ ~sig /\ Goto("execute", "launch")
    /\ UNCHANGED <<row, request, handle, sig, ready, args, waiter, world>>

\* The last check, under the lease that keeps the package or the connection as
\* it is until the adapter has returned; then the external effect begins.
Launch ==
    /\ pc["execute"] = "launch" /\ ~sig
    /\ IF Unchanged
       THEN Goto("execute", "adapter") /\ effects' = effects \cup {revision}
       ELSE Ask("execute", "fail") /\ UNCHANGED effects
    /\ UNCHANGED <<row, request, handle, sig, ready, args, waiter, skill, revision, torn>>

\* The adapter returns a valid outcome, possibly late: it may ignore a signal.
AdapterReturns ==
    /\ pc["execute"] = "adapter"
    /\ ready' = TRUE /\ sig' = FALSE /\ Ask("execute", "complete")
    /\ UNCHANGED <<row, request, handle, args, waiter, world>>

\* It raises, exceeds its timeout or returns what its schema refuses.
AdapterFails ==
    /\ pc["execute"] = "adapter"
    /\ sig' = FALSE /\ Ask("execute", "fail")
    /\ UNCHANGED <<row, request, handle, ready, args, waiter, world>>

\* The signal arrives in an await.  The commit of an outcome is shielded from
\* it, and what has begun to end the run as cancelled goes on doing so.
SignalArrives ==
    /\ sig /\ pc["execute"] \in {"read", "start", "launch", "adapter", "fail"}
    /\ sig' = FALSE
    /\ pc' = [pc EXCEPT !["execute"] = "cancel"]
    /\ reply' = [reply EXCEPT !["execute"] = "wait"]
    /\ db' = Append(Without("execute"), "execute")
    /\ Notify(pc["execute"] = "fail" /\ row \in Terminal)
    /\ UNCHANGED <<row, request, handle, ready, args, world>>

\* _execution_finished: the task leaves _tasks with everything kept for it.
Ends == /\ Goto("execute", "ended") /\ sig' = FALSE /\ ready' = FALSE /\ args' = FALSE

\* A task cancelled before its first step never enters _execute.
SignalBeforeStart ==
    /\ sig /\ pc["execute"] = "read" /\ Ends
    /\ UNCHANGED <<row, request, handle, waiter, world>>

\* A torn commit of an outcome still remembers and announces it, and then ends
\* the run as cancelled, which a run that succeeded refuses.
OutcomeCommitted ==
    /\ Done("execute", {"complete"})
    /\ Notify(reply["execute"] = "won")
    /\ IF sig THEN Ask("execute", "cancel") /\ sig' = FALSE /\ UNCHANGED <<ready, args>>
              ELSE Ends
    /\ UNCHANGED <<row, request, handle, world>>

\* A run that was not startable any more is left alone; one that ended is announced.
ExecutionEnds ==
    /\ \/ Got("execute", "start", "lost") /\ ~sig /\ UNCHANGED waiter
       \/ /\ Done("execute", IF sig THEN {"cancel"} ELSE {"fail", "cancel"})
          /\ Notify(reply["execute"] = "won")
    /\ Ends
    /\ UNCHANGED <<row, request, handle, world>>

\* The owner updates the plugin or the connection, which waits for its lease.
Revise ==
    /\ revision < MaxRevision /\ pc["execute"] # "adapter" /\ row \in Open /\ revision' = revision + 1
    /\ UNCHANGED <<row, request, memory, skill, effects, torn>>

------------------------------------------------------------------------------
(* The confirmation: the owner's decision, the timer, the page.             *)

\* The plan is resolved again before a decision counts.
Decide(d) ==
    /\ pc[d] = "idle" /\ Serving
    /\ IF Unchanged THEN request = "pending" /\ \E op \in {"allow", "deny"} : Ask(d, op)
                    ELSE request # "none" /\ DropAndAsk(d, "fail")
    /\ UNCHANGED <<row, request, handle, sig, ready, args, waiter, world>>

\* _prune_terminal_arguments, and the end that somebody may not have announced.
Settled == Notify(row \in Terminal) /\ args' = (args /\ (Live \/ row \notin Terminal))

\* A decision on a request that is settled is refused: ValueError.
DecideTooLate(d) ==
    /\ pc[d] = "idle" /\ Serving /\ Unchanged /\ request \notin {"none", "pending"}
    /\ Settled
    /\ UNCHANGED <<row, request, db, pc, reply, handle, sig, ready, world>>

\* A decision after the TTL expires the request instead, and so does the page of
\* pending confirmations.
Sweep(d) ==
    /\ pc[d] = "idle" /\ request = "pending" /\ Serving /\ Ask(d, "expire")
    /\ UNCHANGED <<row, request, handle, sig, ready, args, waiter, world>>

\* Allowed: the run is scheduled.
Allowed(d) ==
    /\ Got(d, "allow", "won")
    /\ pc' = [NoTimer EXCEPT ![d] = "done", !["execute"] = "read"]
    /\ reply' = [reply EXCEPT !["timer"] = "none", ![d] = "none"]
    /\ db' = Without("timer")
    /\ UNCHANGED <<row, request, handle, sig, ready, args, waiter, world>>

Denied(d) ==
    /\ Got(d, "deny", "won") /\ DropAndAsk(d, "fail")
    /\ UNCHANGED <<row, request, handle, sig, ready, args, waiter, world>>

\* The request was settled by somebody else, or expired: ValueError.
DecidedElsewhere(d) ==
    /\ Done(d, {"expire"}) \/ Got(d, "allow", "lost") \/ Got(d, "deny", "lost")
    /\ Settled /\ Goto(d, "done")
    /\ UNCHANGED <<row, request, handle, sig, ready, world>>

\* The decider ended the run itself.
DecisionEnds(d) ==
    /\ Done(d, {"fail", "cancel"})
    /\ Notify(reply[d] = "won") /\ args' = FALSE /\ Goto(d, "done")
    /\ UNCHANGED <<row, request, handle, sig, ready, world>>

\* Fault: what a torn decision committed is nobody's business.
FaultReconcileDecision(d) ==
    /\ pc[d] = "reconcile" /\ Goto(d, "done")
    /\ UNCHANGED <<row, request, handle, sig, ready, args, waiter, world>>

\* _reconcile_interrupted_confirmation: a durable approval whose caller was torn
\* away is cancelled, a durable refusal carried out.
ReconcileDecision(d) ==
    /\ pc[d] = "reconcile"
    /\ CASE request = "allowed" -> DropAndAsk(d, "cancel")
         [] request = "denied"  -> DropAndAsk(d, "fail")
         [] OTHER -> Goto(d, "done")
    /\ UNCHANGED <<row, request, handle, sig, ready, args, waiter, world>>

\* CONFIRMATION_TTL_SECONDS have passed.
TimerFires ==
    /\ pc["timer"] = "armed" /\ Ask("timer", "expire")
    /\ UNCHANGED <<row, request, handle, sig, ready, args, waiter, world>>

TimerEnds ==
    /\ Done("timer", {"expire"})
    /\ Notify(reply["timer"] = "won") /\ args' = FALSE /\ Goto("timer", "ended")
    /\ UNCHANGED <<row, request, handle, sig, ready, world>>

------------------------------------------------------------------------------
(* cancel, a shutdown, a restart, and callers torn out of their calls.      *)

\* Fault: the task of the run is not looked up, and so never cancelled.
FaultCaptured == FALSE

\* What _tasks.get finds just before the run is marked.
Captured == Live

\* An outcome that is already there is waited for; otherwise the run is marked.
Cancel(c) ==
    /\ pc[c] = "idle" /\ Serving /\ row \in Open
    /\ IF ready THEN DropAndGoto(c, "await") /\ UNCHANGED handle
                ELSE DropAndAsk(c, "mark") /\ handle' = [handle EXCEPT ![c] = Captured]
    /\ UNCHANGED <<row, request, sig, ready, args, waiter, world>>

CancelWaited(c) ==
    /\ pc[c] = "await" /\ row \in Terminal /\ Goto(c, "done")
    /\ UNCHANGED <<row, request, handle, sig, ready, args, waiter, world>>

\* The task that was found is cancelled and joined for CANCELLATION_GRACE_SECONDS.
StopTask(c, found) ==
    IF found /\ Live THEN sig' = TRUE /\ Goto(c, "join") ELSE UNCHANGED sig /\ Ask(c, "cancel")

Marked(c) ==
    /\ Got(c, "mark", "won") \/ (Got(c, "mark", "lost") /\ row = "cancelling")
    /\ StopTask(c, handle[c]) /\ handle' = [handle EXCEPT ![c] = FALSE]
    /\ UNCHANGED <<row, request, ready, args, waiter, world>>

\* The run ended meanwhile, or it runs and is not interruptible: ValueError.
NotMarked(c) ==
    /\ Got(c, "mark", "lost") /\ row # "cancelling" /\ Notify(row \in Terminal)
    /\ Goto(c, IF row \in Terminal THEN "done" ELSE "reconcile")
    /\ handle' = [handle EXCEPT ![c] = FALSE]
    /\ UNCHANGED <<row, request, sig, ready, args, world>>

CancelJoined(c) ==
    /\ pc[c] = "join" /\ Joined /\ Ask(c, "cancel")
    /\ UNCHANGED <<row, request, handle, sig, ready, args, waiter, world>>

CancelEnds(c) ==
    /\ Done(c, {"cancel"}) /\ Notify(reply[c] = "won") /\ args' = FALSE /\ Goto(c, "done")
    /\ UNCHANGED <<row, request, handle, sig, ready, world>>

\* _reconcile_interrupted_cancel: what the torn call may have committed converges.
ReconcileCancel(c) ==
    /\ pc[c] = "reconcile" /\ Notify(row \in Terminal)
    /\ \/ /\ row \in Terminal \/ (row = "running" /\ ~ready /\ ~skill.interruptible)
          /\ Goto(c, "done") /\ UNCHANGED <<handle, sig>>
       \/ row = "running" /\ ready /\ Goto(c, "await") /\ UNCHANGED <<handle, sig>>
       \/ row = "cancelling" /\ StopTask(c, TRUE) /\ UNCHANGED handle
       \/ /\ row \in {"created", "waiting"} \/ (row = "running" /\ ~ready /\ skill.interruptible)
          /\ Ask(c, "mark") /\ handle' = [handle EXCEPT ![c] = Captured] /\ UNCHANGED sig
    /\ UNCHANGED <<row, request, ready, args, world>>

\* stop: execution and timer are cancelled and joined for STOP_GRACE_SECONDS.  The
\* server has drained its requests and every component that calls has stopped.
StopBegins ==
    /\ Serving /\ sig' = Live
    /\ \A a \in Actors \ {"execute", "timer"} : pc[a] \in {"idle", "done"}
    /\ DropAndGoto("stop", IF Live \/ pc["timer"] \in {"armed", "expire"} THEN "join" ELSE "clear")
    /\ UNCHANGED <<row, request, handle, ready, args, waiter, world>>

StopJoined ==
    /\ pc["stop"] = "join" /\ Joined /\ Ask("stop", "cancel")
    /\ UNCHANGED <<row, request, handle, sig, ready, args, waiter, world>>

\* Every waiter is cancelled, every payload forgotten.
StopEnds ==
    /\ pc["stop"] = "clear" \/ Done("stop", {"cancel"})
    /\ Goto("stop", "done")
    /\ waiter' = [w \in Waiters |-> "woken"] /\ args' = FALSE /\ ready' = FALSE
    /\ UNCHANGED <<row, request, handle, sig, world>>

\* Where a caller may be torn away: inside the try blocks of invoke,
\* decide_confirmation and cancel, and after their last write committed.
Torn(a, where) ==
    /\ torn < MaxTorn /\ torn' = torn + 1
    /\ pc[a] \in where \/ Done(a, {"fail", "cancel"})
    /\ pc' = [pc EXCEPT ![a] = IF a = "invoke" THEN "compensate" ELSE "reconcile"]
    /\ reply' = [reply EXCEPT ![a] = "none"] /\ db' = Without(a)
    /\ Notify(Done(a, {"fail", "cancel"}))
    /\ UNCHANGED <<row, request, handle, sig, ready, args, skill, revision, effects>>

Tear ==
    \/ Torn("invoke", {"create", "request", "snapshot"})
    \/ \E d \in Deciders   : Torn(d, {"allow", "deny"})
    \/ \E c \in Cancellers : Torn(c, {"mark", "join", "cancel"})

\* The process dies; start() expires what it left open (expire_nonterminal_runs).
Restart ==
    /\ pc["stop"] # "ended"
    /\ row' = IF row \in Open THEN "expired" ELSE row
    /\ request' = IF request = "pending" THEN "expired" ELSE request
    /\ db' = <<>> /\ pc' = [a \in Actors |-> "ended"] /\ reply' = [a \in Actors |-> "none"]
    /\ sig' = FALSE /\ ready' = FALSE /\ args' = FALSE
    /\ waiter' = [w \in Waiters |-> "woken"] /\ handle' = [c \in Cancellers |-> FALSE]
    /\ UNCHANGED world

------------------------------------------------------------------------------
(* wait_for_terminal, which does not rely on the lossy broadcast of events. *)

WaitBegins(w) ==
    /\ waiter[w] = "idle" /\ Serving /\ row \in Open
    /\ waiter' = [waiter EXCEPT ![w] = "read"]
    /\ UNCHANGED <<row, request, db, pc, reply, handle, sig, ready, args, world>>

WaitRegisters(w) ==
    /\ waiter[w] = "read" /\ waiter' = [waiter EXCEPT ![w] = "registered"]
    /\ UNCHANGED <<row, request, db, pc, reply, handle, sig, ready, args, world>>

\* Fault: a waiter trusts what it read before it registered.
FaultWaitRereads(w) ==
    /\ waiter[w] \in {"registered", "signalled"}
    /\ waiter' = [waiter EXCEPT ![w] = IF @ = "signalled" THEN "woken" ELSE "parked"]
    /\ UNCHANGED <<row, request, db, pc, reply, handle, sig, ready, args, world>>

\* Registered first, then read again: one of the two observes the end.
WaitRereads(w) ==
    /\ waiter[w] \in {"registered", "signalled"}
    /\ waiter' = [waiter EXCEPT ![w] =
                     IF @ = "signalled" \/ row \in Terminal THEN "woken" ELSE "parked"]
    /\ UNCHANGED <<row, request, db, pc, reply, handle, sig, ready, args, world>>

------------------------------------------------------------------------------
Invoker   == Admitted \/ Requested \/ InvokeReturns \/ Compensate \/ CompensateFails \/ Compensated
Executor  == \/ ExecuteResolves \/ Started \/ Launch \/ SignalArrives \/ SignalBeforeStart
             \/ OutcomeCommitted \/ ExecutionEnds
Adapter   == AdapterReturns \/ AdapterFails
Owner(d)  == \/ Allowed(d) \/ Denied(d) \/ DecidedElsewhere(d) \/ DecisionEnds(d)
             \/ ReconcileDecision(d)
Expiry    == TimerFires \/ TimerEnds
Canceller(c) == \/ CancelWaited(c) \/ Marked(c) \/ NotMarked(c) \/ CancelJoined(c)
                \/ CancelEnds(c) \/ ReconcileCancel(c)
Stopper   == StopJoined \/ StopEnds
Calls     == \/ Invoke \/ Revise \/ StopBegins \/ Tear \/ Restart
             \/ \E d \in Deciders : Decide(d) \/ DecideTooLate(d) \/ Sweep(d)
             \/ \E c \in Cancellers : Cancel(c)
             \/ \E w \in Waiters : WaitBegins(w)

SNext ==
    \/ Commit \/ Calls \/ Invoker \/ Executor \/ Adapter \/ Expiry \/ Stopper
    \/ \E d \in Deciders : Owner(d)
    \/ \E c \in Cancellers : Canceller(c)
    \/ \E w \in Waiters : WaitRegisters(w) \/ WaitRereads(w)

SSpec == SInit /\ [][SNext]_svars

\* The lock serves its queue, callers go on, the timer fires, adapters are bounded
\* by the timeout of their capability; nobody is obliged to call.
SFairness ==
    /\ WF_svars(Commit) /\ WF_svars(Invoker) /\ WF_svars(Executor) /\ WF_svars(Adapter)
    /\ WF_svars(Expiry) /\ WF_svars(Stopper)
    /\ \A d \in Deciders : WF_svars(Owner(d))
    /\ \A c \in Cancellers : WF_svars(Canceller(c))
    /\ \A w \in Waiters : WF_svars(WaitRegisters(w) \/ WaitRereads(w))

SLiveSpec == SSpec /\ SFairness

------------------------------------------------------------------------------
\* Type correctness; and a caller waits for a write exactly while it is queued,
\* once, for the database lock.
STypeOK ==
    /\ skill \in Skills
    /\ row \in Open \cup Terminal \cup {"absent"}
    /\ request \in {"none", "pending", "allowed", "denied", "expired"}
    /\ db \in Seq(Actors) /\ IsInjective(db)
    /\ pc \in [Actors -> {"idle", "create", "request", "start", "complete", "fail", "cancel",
                          "mark", "allow", "deny", "expire", "snapshot", "compensate", "join",
                          "read", "launch", "adapter", "armed", "clear", "await", "reconcile",
                          "done", "ended"}]
    /\ reply \in [Actors -> {"none", "wait", "won", "lost"}]
    /\ \A a \in Actors : reply[a] = "wait" <=> a \in Range(db)
    /\ handle \in [Cancellers -> BOOLEAN] /\ sig \in BOOLEAN /\ ready \in BOOLEAN
    /\ args \in BOOLEAN /\ revision \in 0..MaxRevision /\ effects \subseteq 0..MaxRevision
    /\ waiter \in [Waiters -> {"idle", "read", "registered", "signalled", "parked", "woken"}]
    /\ torn \in 0..MaxTorn

\* An external effect happens only under the plan that was recorded, and one that
\* needs the owner's confirmation only after the owner allowed this very run:
\* whatever update, decision, expiry and cancellation race for it.
EffectNeedsApproval ==
    effects # {} => effects = {0} /\ (skill.confirm => request = "allowed")

\* One decision had the run scheduled, another one of the same request was torn away
\* and cancelled it (finding 4).
Overruled ==
    row = "cancelled" /\ \E d, e \in Deciders : d # e /\ pc[d] # "idle" /\ pc[e] = "done"

\* A run reported to its caller as ended never begins its effect afterwards.
NoEffectAfterEnd ==
    [][pc["execute"] # "adapter" /\ pc'["execute"] = "adapter" =>
          row \notin Terminal \/ Overruled]_svars

\* The end of a run is final: no late adapter, expiry, decision or restart revives
\* or reclassifies it.
EndIsFinal == [][(row \in Terminal) => row' = row]_svars

\* service.py:751 of a decision that was torn away: "Approval was durable, but its
\* request handler did not survive long enough to schedule execution."
TornApprovalIsUnscheduled ==
    \A d \in Deciders : pc[d] = "cancel" => pc["execute"] = "idle"

\* Every run ends, whoever is torn away inside a protected block.
EveryRunEnds == row \in Open ~> row \in Terminal

\* Whoever waits for the end of a run is told; except that a decision on a changed
\* plan may cut off the timer that just expired the run, before it announces it.
EveryWaiterWakes ==
    \A w \in Waiters :
        waiter[w] \in {"registered", "parked"} ~>
            (waiter[w] = "woken" \/ (row = "expired" /\ revision > 0))
==============================================================================
