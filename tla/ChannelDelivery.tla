--------------------------- MODULE ChannelDelivery ---------------------------
(***************************************************************************)
(* The durable state machine of a multipart channel delivery: the rows of  *)
(* channel_deliveries (plans) and channel_delivery_parts (parts), and one  *)
(* action per method of SQLiteExternalChannelRepository.  A method runs in *)
(* one SQLite transaction, so an action is one atomic step; everything     *)
(* that calls the methods (schedulers, HTTP adapters, cancellation) may    *)
(* interleave between them in any order.                                   *)
(*                                                                         *)
(* Time is relative.  A lease_expires_at is the ticks left of the lease    *)
(* and a not_before_at the ticks to wait, so that the state space stays    *)
(* finite without a bound on the clock.  A caller reads its clock before   *)
(* it waits for the database, so a method may run with a timestamp up to   *)
(* ClockLag ticks old: a time t lies in its future iff left + lag > 0.     *)
(***************************************************************************)
EXTENDS Integers

CONSTANTS
    Connections,    \* connection_id values
    Plans,          \* delivery_id of every plan
    ConnectionOf,   \* [Plans -> Connections], the connection_id column
    Parts,          \* part_id of every part
    PlanOf,         \* [Parts -> Plans], the delivery_id column
    Ordinal,        \* [Parts -> Nat], the ordinal column
    Required,       \* the parts whose required flag is set
    Delay,          \* [Parts -> Nat], delay_after_ms in ticks
    ProactivePlans, \* the plans that carry an outbound_intent_id
    Leases,         \* lease_id values of the claimants
    Messages,       \* provider_message_id values
    NoLease, NoMessage, \* NULL in either column
    LeaseTicks,     \* the lease_seconds of a claim
    DeferTicks,     \* the longest wait a draft or a deferral asks for
    ClockLag,       \* how old the timestamp of a call may be
    AttemptCap      \* where the attempt counter saturates

VARIABLES
    plan,   \* plan[d]: the row of channel_deliveries
    part    \* part[p]: the row of channel_delivery_parts

vars == <<plan, part>>

PartsOf(d) == {p \in Parts : PlanOf[p] = d}
Before(p, q) == PlanOf[p] = PlanOf[q] /\ Ordinal[p] < Ordinal[q]

ASSUME ShapeAssumption ==
    /\ ConnectionOf \in [Plans -> Connections]
    /\ PlanOf \in [Parts -> Plans]
    /\ Ordinal \in [Parts -> Nat]
    /\ Delay \in [Parts -> Nat]
    /\ \A d \in Plans : PartsOf(d) # {}
    /\ \A p, q \in Parts : PlanOf[p] = PlanOf[q] /\ Ordinal[p] = Ordinal[q] => p = q

\* _validate_delivery_part_drafts: only the last of several parts is optional;
\* create_outbound_text_plan: a proactive plan has a single part.
ASSUME DraftAssumption ==
    /\ ProactivePlans \subseteq Plans
    /\ \A p, q \in Parts : PlanOf[p] = PlanOf[q] /\ PlanOf[p] \in ProactivePlans => p = q
    /\ Required \subseteq Parts
    /\ \A p \in Parts \ Required :
          /\ \E q \in Parts : Before(q, p)
          /\ ~\E q \in Parts : Before(p, q)

ASSUME ValueAssumption ==
    /\ NoLease \notin Leases
    /\ NoMessage \notin Messages
    /\ LeaseTicks \in Nat \ {0}
    /\ DeferTicks \in Nat
    /\ ClockLag \in Nat
    /\ AttemptCap \in Nat \ {0}

Active   == {"pending", "sending"}
Terminal == {"delivered", "failed", "cancelled"}
Statuses == {"absent"} \cup Active \cup Terminal

PartRow == [status : Statuses, attempt : 0..AttemptCap, lease : Leases \cup {NoLease},
            left : Int, wait : Nat, message : Messages \cup {NoMessage}]
PlanRow == [status : Statuses, cancelRequested : BOOLEAN, lease : Leases \cup {NoLease}]

Lag == 0..ClockLag
\* Once this far past, no timestamp a caller may hold is before the expiry.
Floor == -1 - ClockLag

------------------------------------------------------------------------------
(* _derive_delivery_plan_state_tx.  rows is the parts table as the caller   *)
(* has updated it, cancel the plan's cancel_requested_at IS NOT NULL.       *)

\* Fault: a requested cancellation wins over a plan whose parts all went out.
FaultCancelFirst(rows, d, cancel) ==
    LET In(st) == {p \in PartsOf(d) : rows[p].status = st}
    IN  IF In("failed") \cap Required # {} THEN "failed"
        ELSE IF cancel /\ In("sending") = {} THEN "cancelled"
        ELSE IF In("sending") # {} THEN "sending"
        ELSE IF In("pending") # {} THEN "pending"
        ELSE IF Required \cap PartsOf(d) \subseteq In("delivered") THEN "delivered"
        ELSE "failed"

DerivedStatus(rows, d, cancel) ==
    LET In(st)   == {p \in PartsOf(d) : rows[p].status = st}
        Undelivered == PartsOf(d) \ In("delivered")
    IN  IF In("failed") \cap Required # {} THEN "failed"
        ELSE IF cancel /\ In("sending") = {} /\ Undelivered # {} THEN "cancelled"
        ELSE IF In("sending") # {} THEN "sending"
        ELSE IF In("pending") # {} THEN "pending"
        ELSE IF Undelivered \cap Required = {} THEN "delivered"
        ELSE "failed"

\* Row r with its lease columns NULL and a new status.
Released(r, st) ==
    [status |-> st, attempt |-> r.attempt, lease |-> NoLease, left |-> 0,
     wait |-> r.wait, message |-> r.message]

\* "Terminal Parent must not have an Active Child": the cascade of a verdict.
Cascade(rows, D, cancel) ==
    [p \in Parts |->
        IF /\ PlanOf[p] \in D
           /\ DerivedStatus(rows, PlanOf[p], cancel[PlanOf[p]]) \in Terminal
           /\ rows[p].status \in Active
        THEN Released(rows[p], "cancelled")
        ELSE rows[p]]

\* The parent mirrors the lease of its sending child and of no other.
MirroredLease(rows, d, status) ==
    IF status = "sending"
    THEN LET first == CHOOSE p \in PartsOf(d) :
                         /\ rows[p].status = "sending"
                         /\ \A q \in PartsOf(d) : Before(q, p) => rows[q].status # "sending"
         IN  rows[first].lease
    ELSE NoLease

\* Store rows and re-derive the plans in D, whose cancel flags become cancel.
Derive(rows, D, cancel) ==
    /\ part' = Cascade(rows, D, cancel)
    /\ plan' = [d \in Plans |->
                  IF d \notin D THEN plan[d]
                  ELSE LET st == DerivedStatus(rows, d, cancel[d])
                       IN  [status |-> st, cancelRequested |-> cancel[d],
                            lease |-> MirroredLease(rows, d, st)]]

CancelFlags == [d \in Plans |-> plan[d].cancelRequested]

------------------------------------------------------------------------------
\* Before its plan is created.
Absent == [status |-> "absent", attempt |-> 0, lease |-> NoLease, left |-> 0, wait |-> 0,
           message |-> NoMessage]

Init ==
    /\ plan = [d \in Plans |-> [status |-> "absent", cancelRequested |-> FALSE,
                                lease |-> NoLease]]
    /\ part = [p \in Parts |-> Absent]

\* create_delivery_plan, create_task_delivery_plan (whose speech budget may
\* postpone the first part), create_outbound_text_plan.
CreatePlan(d, wait) ==
    /\ plan[d].status = "absent"
    /\ plan' = [plan EXCEPT ![d].status = "pending"]
    /\ part' = [p \in Parts |-> IF PlanOf[p] = d
                                THEN [part[p] EXCEPT !.status = "pending", !.wait = wait]
                                ELSE part[p]]

\* Fault: the claim does not look at cancel_requested_at.
FaultOpen(d) == plan[d].status \in Active

\* A plan from which parts may be claimed.
Open(d) == plan[d].status \in Active /\ ~plan[d].cancelRequested

\* Fault: a part in flight counts as behind us.
FaultPassed(p) == part[p].status \in {"sending", "delivered"}

\* The part a claim may take: the first, in ordinal order, that is not behind us.
Passed(p) ==
    \/ part[p].status = "delivered"
    \/ p \notin Required /\ part[p].status \in {"failed", "cancelled"}

\* Fault: any unfinished part is claimable.
FaultAnyOrder(p) == part[p].status \in Active

IsTarget(p) ==
    /\ part[p].status \in Active
    /\ \A q \in PartsOf(PlanOf[p]) : Before(q, p) => Passed(q)

\* Fault: the lease ends one tick early for the others.
FaultLive(p, lag) == part[p].status = "sending" /\ part[p].left + lag > 1

Live(p, lag) == part[p].status = "sending" /\ part[p].left + lag > 0

Claimable(p, l, lag) ==
    /\ Open(PlanOf[p])
    /\ \A q \in PartsOf(PlanOf[p]) : Live(q, lag) => part[q].lease = l
    /\ IsTarget(p)
    /\ part[p].wait = 0

\* claim_next_delivery_part: also the renewal of a lease by its owner.
ClaimNextDeliveryPart(p, l, lag) ==
    LET renewal == part[p].status = "sending" /\ part[p].lease = l
        attempt == IF renewal \/ part[p].attempt = AttemptCap
                   THEN part[p].attempt ELSE part[p].attempt + 1
    IN  /\ Claimable(p, l, lag)
        /\ Derive([part EXCEPT ![p] =
                      [status |-> "sending", attempt |-> attempt, lease |-> l,
                       left |-> LeaseTicks - lag, wait |-> @.wait, message |-> @.message]],
                  {PlanOf[p]}, CancelFlags)

Owns(p, l) == part[p].status = "sending" /\ part[p].lease = l

\* A lease that ends now still counts for its owner.
Acknowledgeable(p, l, lag) == Owns(p, l) /\ part[p].left + lag >= 0

\* acknowledge_delivery_part while p is being sent.  An ACK of a delivered part
\* changes nothing and every other one is refused.  The wait it puts before the
\* next part runs from the adapter's own acknowledged_at, hence any wait up to
\* the delay.
AcknowledgeDeliveryPart(p, l, verdict, m, lag, wait) ==
    /\ Acknowledgeable(p, l, lag)
    /\ LET message == IF m = NoMessage THEN part[p].message ELSE m
           acked == [part EXCEPT ![p] = [Released(part[p], verdict) EXCEPT !.message = message]]
           spaced == [q \in Parts |->
                        IF /\ verdict = "delivered" /\ Delay[p] > 0
                           /\ PlanOf[q] = PlanOf[p] /\ Ordinal[q] = Ordinal[p] + 1
                           /\ acked[q].status = "pending"
                        THEN [acked[q] EXCEPT !.wait = wait]
                        ELSE acked[q]]
       IN  Derive(spaced, {PlanOf[p]}, CancelFlags)

\* defer_delivery_part: the owner hands the part back for a later attempt.
DeferDeliveryPart(p, l, wait) ==
    /\ Owns(p, l)
    /\ Derive([part EXCEPT ![p] = [Released(part[p], "pending") EXCEPT !.wait = wait]],
              {PlanOf[p]}, CancelFlags)

\* Fault: a plan that already has its verdict is cancelled as well.
FaultCancelTerminal(d) ==
    /\ plan[d].status # "absent"
    /\ Derive([p \in Parts |-> IF PlanOf[p] = d /\ part[p].status = "pending"
                               THEN [part[p] EXCEPT !.status = "cancelled"]
                               ELSE part[p]],
              {d}, [CancelFlags EXCEPT ![d] = TRUE])

\* cancel_remaining_delivery_parts: the unsent tail goes, the part in flight stays.
CancelRemainingDeliveryParts(d) ==
    /\ plan[d].status \in Active
    /\ Derive([p \in Parts |-> IF PlanOf[p] = d /\ part[p].status = "pending"
                               THEN [part[p] EXCEPT !.status = "cancelled"]
                               ELSE part[p]],
              {d}, [CancelFlags EXCEPT ![d] = TRUE])

\* The same with cancel_sending_lease_id: the owner gives up the part it sends.
CancelSendingDelivery(d, l) ==
    LET sending == {p \in PartsOf(d) : part[p].status = "sending"}
    IN  /\ plan[d].status \in Active
        /\ sending # {}
        /\ \A p \in sending : part[p].lease = l
        /\ Derive([p \in Parts |-> IF PlanOf[p] = d /\ part[p].status \in Active
                                   THEN Released(part[p], "cancelled")
                                   ELSE part[p]],
                  {d}, [CancelFlags EXCEPT ![d] = TRUE])

\* Fault: the UPDATE of the parts has no status filter.
FaultCancelEveryPart(c) ==
    LET D == {d \in Plans : ConnectionOf[d] = c /\ plan[d].status \in Active}
    IN  /\ D # {}
        /\ Derive([p \in Parts |-> IF PlanOf[p] \in D
                                   THEN [part[p] EXCEPT !.status = "cancelled"]
                                   ELSE part[p]],
                  D, [d \in Plans |-> d \in D \/ plan[d].cancelRequested])

\* cancel_active_delivery_plans_for_connection: in-flight parts too, their leases
\* left in the rows.
CancelConnection(c) ==
    LET D == {d \in Plans : ConnectionOf[d] = c /\ plan[d].status \in Active}
    IN  /\ D # {}
        /\ Derive([p \in Parts |-> IF PlanOf[p] \in D /\ part[p].status \in Active
                                   THEN [part[p] EXCEPT !.status = "cancelled"]
                                   ELSE part[p]],
                  D, [d \in Plans |-> d \in D \/ plan[d].cancelRequested])

\* _settle_tx(cancel=True) of the proactive intent: a refused claim, a changed
\* policy or a revoked episode cancel the plan, whatever its status.
SettleProactiveIntent(d) ==
    /\ d \in ProactivePlans
    /\ plan[d].status # "absent"
    /\ ~plan[d].cancelRequested
    /\ Derive([p \in Parts |-> IF PlanOf[p] = d /\ part[p].status = "pending"
                               THEN [part[p] EXCEPT !.status = "cancelled"]
                               ELSE part[p]],
              {d}, [CancelFlags EXCEPT ![d] = TRUE])

\* recover_expired_delivery_part_leases, over the plans of every connection.
RecoverExpiredLeases(lag) ==
    LET expired == {p \in Parts : part[p].status = "sending" /\ part[p].left + lag <= 0}
        released(p) == IF plan[PlanOf[p]].cancelRequested THEN "cancelled" ELSE "pending"
    IN  /\ expired # {}
        /\ Derive([p \in Parts |-> IF p \in expired
                                   THEN Released(part[p], released(p))
                                   ELSE part[p]],
                  {PlanOf[p] : p \in expired}, CancelFlags)

\* Fault: only a part in flight may learn of its receipt.
FaultReconcilable(p, m) == part[p].status \in Active /\ part[p].attempt >= 1

\* A receipt the row contradicts, or already has, changes nothing.
Reconcilable(p, m) ==
    /\ part[p].message \in {NoMessage, m}
    /\ ~(part[p].status = "delivered" /\ part[p].message = m)
    /\ part[p].attempt >= 1

\* reconcile_known_delivery_part_receipt: the provider is known to have accepted p.
ReconcileReceipt(p, m) ==
    /\ Reconcilable(p, m)
    /\ Derive([part EXCEPT ![p] = [Released(part[p], "delivered") EXCEPT !.message = m]],
              {PlanOf[p]}, CancelFlags)

\* The rows one tick later.
Aged(rows) ==
    [p \in Parts |->
        [rows[p] EXCEPT !.wait = IF @ > 0 THEN @ - 1 ELSE 0,
                        !.left = IF rows[p].status = "sending" /\ @ > Floor THEN @ - 1 ELSE @]]

\* Time passes for every lease and every wait.
Tick ==
    /\ \E p \in Parts : part[p].wait > 0 \/ (part[p].status = "sending" /\ part[p].left > Floor)
    /\ part' = Aged(part)
    /\ UNCHANGED plan

Next ==
    \/ \E d \in Plans, wait \in 0..DeferTicks : CreatePlan(d, wait)
    \/ \E p \in Parts, l \in Leases, lag \in Lag : ClaimNextDeliveryPart(p, l, lag)
    \/ \E p \in Parts, l \in Leases, verdict \in {"delivered", "failed"},
          m \in Messages \cup {NoMessage}, lag \in Lag :
          \E wait \in 0..Delay[p] : AcknowledgeDeliveryPart(p, l, verdict, m, lag, wait)
    \/ \E p \in Parts, l \in Leases, wait \in 0..DeferTicks : DeferDeliveryPart(p, l, wait)
    \/ \E d \in Plans : CancelRemainingDeliveryParts(d)
    \/ \E d \in Plans, l \in Leases : CancelSendingDelivery(d, l)
    \/ \E c \in Connections : CancelConnection(c)
    \/ \E d \in Plans : SettleProactiveIntent(d)
    \/ \E lag \in Lag : RecoverExpiredLeases(lag)
    \/ \E p \in Parts, m \in Messages : ReconcileReceipt(p, m)
    \/ Tick

Spec == Init /\ [][Next]_vars

------------------------------------------------------------------------------
(* Properties. *)

\* Every row keeps the columns the schema and the models give it.
TypeOK ==
    /\ plan \in [Plans -> PlanRow]
    /\ part \in [Parts -> PartRow]

\* A plan that has reached a verdict owns no part that could still be claimed or
\* acknowledged: whatever verdict the derivation reaches, its cascade settles the
\* pending and sending children in the same transaction.
TerminalPlanHasNoActivePart ==
    \A p \in Parts : plan[PlanOf[p]].status \in Terminal => part[p].status \notin Active

\* At most one lease is active per plan, although leases expire, are stolen,
\* renewed, handed back and recovered by different callers, and the parent row
\* shows exactly the lease of the part that is being sent.
OneSendingPart ==
    \A p, q \in Parts :
        /\ PlanOf[p] = PlanOf[q] /\ part[p].status = "sending"
        => /\ part[q].status = "sending" => p = q
           /\ plan[PlanOf[p]].status = "sending"
           /\ plan[PlanOf[p]].lease = part[p].lease

\* Bubbles go out in order: whatever fails, expires, is cancelled or is learned
\* from a late receipt, a part is only ever attempted once every part before it
\* has been delivered.
AttemptedInOrder ==
    \A p, q \in Parts : Before(p, q) /\ part[q].attempt > 0 => part[p].status = "delivered"

\* The verdict of a plan is one a user could check against its parts, also after
\* late receipts have corrected some of them.
VerdictMatchesParts ==
    \A d \in Plans :
        LET delivered == {p \in PartsOf(d) : part[p].status = "delivered"}
        IN  /\ plan[d].status = "delivered" => PartsOf(d) \cap Required \subseteq delivered
            /\ plan[d].status = "cancelled" => plan[d].cancelRequested /\ delivered # PartsOf(d)
            /\ plan[d].status = "failed" => ~(PartsOf(d) \cap Required \subseteq delivered)

\* "A delivered part is strictly irreversible", and the message identity a
\* provider gave a part is never replaced by another one.
DeliveredIsFinal ==
    [][\A p \in Parts :
          /\ part[p].status = "delivered" => part'[p].status = "delivered"
          /\ part[p].message # NoMessage => part'[p].message = part[p].message]_vars

\* After a cancellation was requested no part starts (again) to be sent.
NoSendAfterCancel ==
    [][\A p \in Parts :
          plan[PlanOf[p]].cancelRequested /\ part'[p].status = "sending"
          => part[p].status = "sending" /\ part'[p].lease = part[p].lease]_vars

\* A lease that is still running is never taken over by another claimant, however
\* old the timestamp that claimant works with.
LeaseNotStolen ==
    [][\A p, q \in Parts :
          /\ PlanOf[p] = PlanOf[q]
          /\ part[p].status = "sending" /\ part[p].left > 0
          /\ part'[q].status = "sending"
          => part'[q].lease = part[p].lease]_vars

\* A verdict is not reopened: only a late receipt, which proves a delivery, may
\* still correct it, and a plan reported delivered stays so.
VerdictIsFinal ==
    [][\A d \in Plans :
          /\ plan[d].status \in Terminal => plan'[d].status \in Terminal
          /\ plan[d].status = "delivered" => plan'[d].status = "delivered"
          /\ plan[d].status \in Terminal /\ plan'[d].status # plan[d].status
             => \E p \in PartsOf(d) : /\ part[p].status # "delivered"
                                      /\ part'[p].status = "delivered"]_vars

==============================================================================
