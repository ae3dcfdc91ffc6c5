---------------------------- MODULE NapCatDelivery ----------------------------
(***************************************************************************)
(* One QQ connection: ChannelDeliveryScheduler.step drives the plans of    *)
(* ChannelDelivery through NapCatDelivery._execute_part, whose send fence  *)
(* is a journal persisted in the adapter cursor, while the receipt task of *)
(* the QQ management imports what the journal knows.  QQ has no            *)
(* idempotency key: the fence is all that stands between a retry and a     *)
(* second copy of a message.                                               *)
(*                                                                         *)
(* Every await of the code between two effects is a step boundary.  The    *)
(* plans are private replies: their _authorized is constantly true, and    *)
(* disabling the connection cancels its plans, which stands for the        *)
(* enabled and allowed_sender_keys checks.  A timestamp is read right      *)
(* before it is used (lag 0).                                              *)
(***************************************************************************)
EXTENDS ChannelDelivery

CONSTANTS
    MaxAttempts,    \* max_attempts of the scheduler
    Budget,         \* bound on interruptions, failing awaits and overlong sends
    NoPart

ASSUME JournalAssumption ==
    /\ Messages \cap {"none", "unknown", "failed", "retry"} = {}
    /\ MaxAttempts \in 1..AttemptCap
    /\ Budget \in Nat
    /\ NoPart \notin Parts

VARIABLES
    journal,    \* the cursor: what is known of the send of a part ("none": no entry)
    lock,       \* who holds journal_lock
    imports,    \* the receipts reconcile_known_sends has still to import
    pc,         \* where the scheduler task is
    todo,       \* the plans this step has still to look at
    seen,       \* the parts as list_nonterminal_delivery_plans returned them
    job,        \* the claimed part, its lease, its attempt and the outcome of its send
    wire,       \* requests that left for QQ and have no answer yet
    accepted,   \* how often QQ accepted (and showed) a part
    budget      \* what is left of Budget

rows  == <<plan, part>>
book  == <<journal, lock, imports>>
task  == <<pc, todo, seen, job>>
qq    == <<wire, accepted>>
qvars == <<rows, book, task, qq, budget>>

\* Where _execute_part is inside "async with self._journal_lock".
Locked == {"guard", "fence", "send", "call", "await", "record", "reject"}
Pcs    == {"reconcile", "recover", "list", "next", "claimed", "settle"} \cup Locked

Unseen == [p \in Parts |-> Absent]
NoJob  == [part |-> NoPart, lease |-> NoLease, attempt |-> 0, outcome |-> "none"]

QInit ==
    /\ Init
    /\ journal = [p \in Parts |-> "none"] /\ lock = "free" /\ imports = {}
    /\ pc = "reconcile" /\ todo = {} /\ seen = Unseen /\ job = NoJob
    /\ wire = {} /\ accepted = [p \in Parts |-> 0]
    /\ budget = Budget

------------------------------------------------------------------------------
(* reconcile_known_sends: by the receipt task, and first thing in a step.   *)

\* Fault: the step leaves the import of receipts to the receipt task.
FaultMayRecover == TRUE

\* A step goes on to its leases only once it has imported the receipts.
MayRecover == lock = "free" /\ \A p \in Parts : journal[p] = "none"

ReconcileStart(who) ==
    /\ lock = "free"
    /\ who = "step" => pc = "reconcile"
    /\ \E p \in Parts : journal[p] # "none"
    /\ lock' = who
    /\ imports' = {p \in Parts : journal[p] \in Messages}
    /\ UNCHANGED <<rows, journal, task, qq, budget>>

ImportReceipt(p) ==
    /\ p \in imports
    /\ imports' = imports \ {p}
    /\ IF Reconcilable(p, journal[p]) THEN ReconcileReceipt(p, journal[p]) ELSE UNCHANGED rows
    /\ UNCHANGED <<journal, lock, task, qq, budget>>

\* retained_send_journal_keys drops an entry only for a delivered part with a
\* provider identity; conflicts and unknown results stay.
Resolved(p) ==
    /\ journal[p] \in Messages
    /\ part[p].status = "delivered"
    /\ part[p].message = journal[p]

ReconcileEnd ==
    /\ lock \in {"step", "task"}
    /\ imports = {}
    /\ journal' = [p \in Parts |-> IF Resolved(p) THEN "none" ELSE journal[p]]
    /\ lock' = "free"
    /\ pc' = IF lock = "step" THEN "recover" ELSE pc
    /\ UNCHANGED <<rows, imports, todo, seen, job, qq, budget>>

\* An empty cursor: nothing to import.
ReconcileNothing ==
    /\ pc = "reconcile"
    /\ MayRecover
    /\ pc' = "recover"
    /\ UNCHANGED <<rows, book, todo, seen, job, qq, budget>>

------------------------------------------------------------------------------
(* ChannelDeliveryScheduler.step. *)

Recover ==
    /\ pc = "recover"
    /\ \/ RecoverExpiredLeases(0)
       \/ /\ \A p \in Parts : part[p].status = "sending" => part[p].left > 0
          /\ UNCHANGED rows
    /\ pc' = "list"
    /\ UNCHANGED <<book, todo, seen, job, qq, budget>>

ListPlans ==
    /\ pc = "list"
    /\ todo' = {d \in Plans : plan[d].status \in Active}
    /\ seen' = part
    /\ pc' = "next"
    /\ UNCHANGED <<rows, book, job, qq, budget>>

\* What the snapshot says of the first unfinished part p.
Ready(p) ==
    /\ seen[p].status \in Active
    /\ \A q \in PartsOf(PlanOf[p]) :
          /\ Before(q, p) => seen[q].status \notin Active
          /\ ~(seen[q].status = "sending" /\ seen[q].left > 0)
    /\ seen[p].wait = 0

\* uuid4: a lease nobody holds.
Fresh == Leases \ {part[p].lease : p \in {q \in Parts : part[q].status = "sending"}}

ClaimPart(p, l) ==
    /\ pc = "next"
    /\ PlanOf[p] \in todo
    /\ Ready(p)
    /\ l \in Fresh
    /\ ClaimNextDeliveryPart(p, l, 0)
    /\ pc' = "claimed"
    /\ todo' = todo \ {PlanOf[p]}
    /\ job' = [part |-> p, lease |-> l, attempt |-> part'[p].attempt, outcome |-> "none"]
    /\ UNCHANGED <<book, seen, qq, budget>>

\* The snapshot has nothing to send, or the claim returns None.
PassOver(d) ==
    /\ pc = "next"
    /\ d \in todo
    /\ \A p \in PartsOf(d), l \in Fresh : ~(Ready(p) /\ Claimable(p, l, 0))
    /\ todo' = todo \ {d}
    /\ UNCHANGED <<rows, book, pc, seen, job, qq, budget>>

EndStep ==
    /\ pc = "next"
    /\ todo = {}
    /\ pc' = "reconcile"
    /\ seen' = Unseen
    /\ UNCHANGED <<rows, book, todo, job, qq, budget>>

------------------------------------------------------------------------------
(* NapCatDelivery._execute_part. *)

\* It returns (or raises, "retry") and the lock is free again.
Return(outcome) ==
    /\ pc' = "settle"
    /\ job' = [job EXCEPT !.outcome = outcome]
    /\ UNCHANGED <<rows, imports, todo, seen>>

Goto(label) ==
    /\ pc' = label
    /\ UNCHANGED <<rows, imports, todo, seen, job>>

\* Fault: any entry of the journal counts as a receipt.
FaultOpenJournal ==
    LET known == journal[job.part]
    IN  /\ pc = "claimed" /\ lock = "free"
        /\ IF known = "none" THEN Goto("guard") /\ lock' = "executor"
           ELSE \E m \in Messages : Return(IF known = "unknown" THEN m ELSE known)
                                    /\ UNCHANGED lock
        /\ UNCHANGED <<journal, qq, budget>>

\* A known receipt is the answer, an unknown result is never sent again.
OpenJournal ==
    LET known == journal[job.part]
    IN  /\ pc = "claimed" /\ lock = "free"
        /\ IF known = "none" THEN Goto("guard") /\ lock' = "executor"
           ELSE Return(IF known = "unknown" THEN "failed" ELSE known) /\ UNCHANGED lock
        /\ UNCHANGED <<journal, qq, budget>>

\* Outside the try block an exception becomes a RETRYABLE_ERROR.
OpenRaises ==
    /\ pc = "claimed" /\ lock = "free"
    /\ Return("retry")
    /\ UNCHANGED <<journal, lock, qq, budget>>

Cancelled == plan[PlanOf[job.part]].cancelRequested

GuardPasses ==
    /\ pc = "guard" /\ ~Cancelled
    /\ Goto("fence")
    /\ UNCHANGED <<journal, lock, qq, budget>>

\* Cancelled, or the payload is gone or changed, or the journal is full.
GuardRefuses ==
    /\ pc = "guard"
    /\ Return("failed") /\ lock' = "free"
    /\ UNCHANGED <<journal, qq, budget>>

SaveFence ==
    /\ pc = "fence"
    /\ journal' = [journal EXCEPT ![job.part] = "unknown"]
    /\ Goto("send")
    /\ UNCHANGED <<lock, qq, budget>>

\* before_send and the account checks of client.send: on, or NapCatRejected.
BeforeSend ==
    /\ pc = "send"
    /\ \/ ~Cancelled /\ Goto("call")
       \/ Goto("reject")
    /\ UNCHANGED <<journal, lock, qq, budget>>

CallProvider ==
    /\ pc = "call"
    /\ wire' = wire \cup {job.part}
    /\ Goto("await")
    /\ UNCHANGED <<journal, lock, accepted, budget>>

\* Fault: a send with an unknown result is taken off the journal as well.
FaultCallUncertain ==
    /\ pc = "await"
    /\ journal' = [journal EXCEPT ![job.part] = "none"]
    /\ Return("failed") /\ lock' = "free"
    /\ UNCHANGED <<qq, budget>>

\* The RPC times out, the socket closes, or the answer has no stable id.
CallUncertain ==
    /\ pc = "await"
    /\ Return("failed") /\ lock' = "free"
    /\ UNCHANGED <<journal, qq, budget>>

SaveReceipt ==
    /\ pc = "record"
    /\ journal' = [journal EXCEPT ![job.part] = job.outcome]
    /\ Return(job.outcome) /\ lock' = "free"
    /\ UNCHANGED <<qq, budget>>

\* Nothing was sent: the fence is taken down.
DropFence ==
    /\ pc = "reject"
    /\ journal' = [journal EXCEPT ![job.part] = "none"]
    /\ Return("failed") /\ lock' = "free"
    /\ UNCHANGED <<qq, budget>>

\* "except Exception": a save or a check under the lock raises.
LockedRaises ==
    /\ pc \in Locked
    /\ budget > 0 /\ budget' = budget - 1
    /\ Return("failed") /\ lock' = "free"
    /\ UNCHANGED <<journal, qq>>
------------------------------------------------------------------------------
(* The scheduler books the outcome. *)

\* Fault: the attempts are not limited.
FaultAgain == job.outcome = "retry"

Again   == job.outcome = "retry" /\ job.attempt < MaxAttempts
Verdict == IF job.outcome \in Messages THEN "delivered" ELSE "failed"

SettleDefer ==
    /\ pc = "settle" /\ Again
    /\ DeferDeliveryPart(job.part, job.lease, DeferTicks)
    /\ pc' = "next" /\ job' = NoJob
    /\ UNCHANGED <<book, todo, seen, qq, budget>>

SettleAcknowledge ==
    /\ pc = "settle" /\ ~Again
    /\ AcknowledgeDeliveryPart(job.part, job.lease, Verdict,
                               IF Verdict = "delivered" THEN job.outcome ELSE NoMessage,
                               0, Delay[job.part])
    /\ pc' = "next" /\ job' = NoJob
    /\ UNCHANGED <<book, todo, seen, qq, budget>>

\* An ACK of a delivered part is idempotent; every other transition without the
\* lease raises, which ends the step.
SettleRefused ==
    /\ pc = "settle"
    /\ IF Again THEN ~Owns(job.part, job.lease) ELSE ~Acknowledgeable(job.part, job.lease, 0)
    /\ IF ~Again /\ Verdict = "delivered" /\ part[job.part].status = "delivered"
       THEN pc' = "next" /\ UNCHANGED <<todo, seen>>
       ELSE pc' = "reconcile" /\ todo' = {} /\ seen' = Unseen
    /\ job' = NoJob
    /\ UNCHANGED <<rows, book, qq, budget>>

------------------------------------------------------------------------------
(* The surroundings. *)

\* QQ accepts a request; its answer reaches the executor that awaits it, or no one.
ProviderAccepts(p, m) ==
    /\ p \in wire
    /\ \A q \in Parts : m \notin {part[q].message, journal[q]}
    /\ wire' = wire \ {p}
    /\ accepted' = [accepted EXCEPT ![p] = IF @ < 2 THEN @ + 1 ELSE @]
    /\ IF pc = "await" /\ job.part = p
       THEN pc' = "record" /\ job' = [job EXCEPT !.outcome = m]
       ELSE UNCHANGED <<pc, job>>
    /\ UNCHANGED <<rows, book, todo, seen, budget>>

\* QQ refuses a request, or it is lost.
ProviderRefuses(p) ==
    /\ p \in wire
    /\ wire' = wire \ {p}
    /\ pc' = IF pc = "await" /\ job.part = p THEN "reject" ELSE pc
    /\ UNCHANGED <<rows, book, todo, seen, job, accepted, budget>>

RequestLost(p) ==
    /\ p \in wire
    /\ wire' = wire \ {p}
    /\ UNCHANGED <<rows, book, task, accepted, budget>>

\* scheduler.stop on a reconnect, or the process dies and starts again; then the
\* receipt task is gone as well.
Interrupt ==
    /\ budget > 0 /\ budget' = budget - 1
    /\ pc # "reconcile" \/ lock = "step"
    /\ pc' = "reconcile" /\ todo' = {} /\ seen' = Unseen /\ job' = NoJob
    /\ \/ lock' = "free" /\ imports' = {}
       \/ lock = "task" /\ UNCHANGED <<lock, imports>>
    /\ UNCHANGED <<rows, journal, qq>>

\* Other callers of the repository: a new reply, a user who cancels or takes the
\* connection down, the schedulers of other connections.
Others ==
    /\ \/ \E d \in Plans : CreatePlan(d, 0) \/ CancelRemainingDeliveryParts(d)
       \/ \E c \in Connections : CancelConnection(c)
       \/ RecoverExpiredLeases(0)
    /\ UNCHANGED <<book, task, qq, budget>>

\* The lease of the part being executed ends before its outcome is booked.
Lapses ==
    /\ pc \in Locked \cup {"claimed", "settle"}
    /\ Owns(job.part, job.lease)
    /\ part[job.part].left = 1

TimePasses ==
    /\ Tick
    /\ seen' = Aged(seen)
    /\ IF Lapses THEN budget > 0 /\ budget' = budget - 1 ELSE UNCHANGED budget
    /\ UNCHANGED <<book, pc, todo, job, qq>>

ReceiptStep == (\E p \in Parts : ImportReceipt(p)) \/ ReconcileEnd

SchedulerStep ==
    \/ ReconcileNothing \/ Recover \/ ListPlans \/ EndStep
    \/ \E p \in Parts, l \in Leases : ClaimPart(p, l)
    \/ \E d \in Plans : PassOver(d)
    \/ GuardPasses \/ GuardRefuses \/ SaveFence \/ BeforeSend \/ CallProvider
    \/ CallUncertain \/ SaveReceipt \/ DropFence
    \/ SettleDefer \/ SettleAcknowledge \/ SettleRefused

QNext ==
    \/ \E who \in {"step", "task"} : ReconcileStart(who)
    \/ ReceiptStep
    \/ SchedulerStep
    \/ OpenJournal \/ OpenRaises \/ LockedRaises
    \/ \E p \in Parts, m \in Messages : ProviderAccepts(p, m)
    \/ \E p \in Parts : ProviderRefuses(p) \/ RequestLost(p)
    \/ Interrupt \/ Others \/ TimePasses

QSpec == QInit /\ [][QNext]_qvars

\* asyncio runs every task that can run and hands its Lock to the waiters in
\* order, an RPC has a timeout (CallUncertain), and the clock does not stop.
Fairness ==
    /\ WF_qvars(SchedulerStep)
    /\ WF_qvars(ReceiptStep)
    /\ SF_qvars(ReconcileStart("step"))
    /\ SF_qvars(ReconcileStart("task"))
    /\ SF_qvars(OpenJournal \/ OpenRaises)
    /\ WF_qvars(TimePasses)

LiveSpec == QSpec /\ Fairness

------------------------------------------------------------------------------
(* Properties. *)

QTypeOK ==
    /\ TypeOK
    /\ journal \in [Parts -> {"none", "unknown"} \cup Messages]
    /\ lock \in {"free", "step", "task", "executor"}
    /\ imports \subseteq Parts
    /\ pc \in Pcs
    /\ todo \subseteq Plans
    /\ seen \in [Parts -> PartRow]
    /\ job \in [part : Parts \cup {NoPart}, lease : Leases \cup {NoLease},
                attempt : 0..AttemptCap, outcome : {"none", "failed", "retry"} \cup Messages]
    /\ wire \subseteq Parts
    /\ accepted \in [Parts -> 0..2]
    /\ budget \in 0..Budget

\* "A persisted fence prevents restart replay": whatever is interrupted, times
\* out, expires or is answered late, no part is shown twice to the user.
AtMostOnce == \A p \in Parts : accepted[p] <= 1

\* The user reads the bubbles in order and without a hole, and a part is only
\* booked as delivered if QQ has accepted it.
ShownInOrder ==
    /\ \A p, q \in Parts : Before(p, q) /\ accepted[q] > 0 => accepted[p] > 0
    /\ \A p \in Parts : part[p].status = "delivered" => accepted[p] > 0

\* What QQ accepted never vanishes from the books: the part is delivered, or the
\* journal still holds its receipt or the mark that its result is unknown.
AcceptedIsAccounted ==
    \A p \in Parts : accepted[p] > 0 => part[p].status = "delivered" \/ journal[p] # "none"

\* Scheduler, journal and receipt task together are the Messenger: leases, retries and
\* late receipts never show in what the user sees and in what the plan says of it.
Chat == INSTANCE Messenger
    WITH shown   <- accepted,
         booked  <- {p \in Parts : part[p].status = "delivered"},
         verdict <- [d \in Plans |-> IF plan[d].status \in Active THEN "open"
                                     ELSE plan[d].status]

ImplementsMessenger == Chat!ChatSpec

\* A receipt that reached the journal ends up in the part, even if the plan was
\* failed, cancelled or recovered meanwhile.
ReceiptsAreBooked ==
    \A p \in Parts : journal[p] \in Messages ~> part[p].status = "delivered"

\* Every reply gets a verdict: nothing is claimed and given up for ever.
EveryPlanEnds ==
    \A d \in Plans : plan[d].status = "pending" ~> plan[d].status \in Terminal
==============================================================================
