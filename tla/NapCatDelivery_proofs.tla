------------------------- MODULE NapCatDelivery_proofs -------------------------
(***************************************************************************)
(* The safety of NapCatDelivery for every set of plans, parts, leases and  *)
(* messages and for any number of interruptions.  Its steps touch the rows *)
(* only through methods of the repository, so the theorems about           *)
(* ChannelDelivery hold of it; what remains is how the journal, the job of *)
(* the scheduler and QQ belong together (Fenced).                          *)
(***************************************************************************)
EXTENDS NapCatDelivery, ChannelDelivery_proofs

\* Where the scheduler holds a claimed part.
Executing == pc \in Locked \cup {"claimed", "settle"}

\* The job is a part it has claimed.
JobHeld == Executing => job.part \in Parts /\ job.lease \in Leases

\* _execute_part holds the lock from its guards to its verdict, a step while it imports.
LockOwner ==
    /\ pc \in Locked <=> lock = "executor"
    /\ lock = "step" => pc = "reconcile"

\* Receipts are imported under the lock.
ImportsKnown ==
    /\ imports # {} => lock \in {"step", "task"}
    /\ \A p \in imports : journal[p] \in Messages

\* A request that has no answer was never accepted.
UnansweredIsUnseen == \A p \in wire : accepted[p] = 0

\* What QQ has, or may still get, is fenced or booked.
SentIsFenced ==
    \A p \in Parts :
        p \in wire \/ accepted[p] > 0 => journal[p] # "none" \/ part[p].status = "delivered"

Unsent(p) == p \notin wire /\ accepted[p] = 0

\* What the journal says of the job at each stage of _execute_part.
Stages ==
    /\ pc = "claimed" => /\ journal[job.part] \notin Messages
                         /\ journal[job.part] = "none" => Unsent(job.part)
    /\ pc \in {"guard", "fence"} => journal[job.part] = "none" /\ Unsent(job.part)
    /\ pc \in {"send", "call", "await", "record", "reject"} => journal[job.part] = "unknown"
    /\ pc \in {"send", "call", "reject"} => Unsent(job.part)
    /\ pc = "await" => accepted[job.part] = 0
    /\ pc = "record" => job.outcome \in Messages

\* A step that has imported the receipts knows all of them but its own: no part is
\* claimed whose receipt could be booked and dropped before _execute_part looks at it.
ReceiptsImported ==
    /\ lock = "step" =>
          \A p \in Parts : journal[p] \in Messages => p \in imports \/ part[p].status = "delivered"
    /\ pc # "reconcile" =>
          \A p \in Parts :
              journal[p] \in Messages =>
                  \/ part[p].status = "delivered"
                  \/ pc = "settle" /\ job.part = p /\ job.outcome = journal[p]

\* What the journal knows of has been attempted: its receipt will be accepted.
JournalIsAttempted ==
    /\ \A p \in Parts : journal[p] # "none" => part[p].attempt > 0
    /\ Executing => part[job.part].attempt > 0

\* On this connection a message identity only comes with a delivery.
MessageIsDelivery ==
    \A p \in Parts : part[p].message # NoMessage => part[p].status = "delivered"

\* A receipt is one of QQ.
ReceiptIsGenuine ==
    /\ \A p \in Parts : journal[p] \in Messages \/ part[p].status = "delivered" => accepted[p] > 0
    /\ Executing /\ job.outcome \in Messages => accepted[job.part] > 0

Held   == JobHeld /\ LockOwner /\ ImportsKnown
Fenced == UnansweredIsUnseen /\ SentIsFenced /\ Stages
Booked == ReceiptsImported /\ JournalIsAttempted /\ MessageIsDelivery /\ ReceiptIsGenuine

QInv == IInv /\ QTypeOK /\ Held /\ Fenced /\ AtMostOnce /\ Booked

------------------------------------------------------------------------------
(* The repository as the adapter uses it. *)

\* What every method it calls keeps of a part; only those in S may be delivered.
Keeps(S) ==
    \A p \in Parts :
        /\ part[p].attempt > 0 => part'[p].attempt > 0
        /\ part[p].status = "delivered" => part'[p].status = "delivered"
        /\ part'[p].status = "delivered" => part[p].status = "delivered" \/ p \in S
        /\ part'[p].message = part[p].message \/ part'[p].status = "delivered"

LEMMA DeriveKeeps ==
    ASSUME NEW table, NEW D, NEW cancel, Derive(table, D, cancel), NEW p \in Parts
    PROVE  /\ part'[p].attempt = table[p].attempt
           /\ part'[p].message = table[p].message
           /\ table[p].status = "delivered" <=> part'[p].status = "delivered"
           /\ table[p].status \notin Active => part'[p].status = table[p].status
BY DEF Derive, Cascade, Released, Active

LEMMA ValueFacts ==
    /\ LeaseTicks \in Nat \ {0} /\ DeferTicks \in Nat /\ AttemptCap \in Nat \ {0}
    /\ 0 \in Lag /\ NoMessage \notin Messages /\ NoLease \notin Leases
    /\ \A p \in Parts : Delay[p] \in Nat /\ PlanOf[p] \in Plans
BY ValueAssumption, ShapeAssumption DEF Lag

LEMMA ClaimKeeps ==
    ASSUME IInv, NEW p \in Parts, NEW l \in Leases, ClaimNextDeliveryPart(p, l, 0)
    PROVE  Keeps({}) /\ part[p].status \in Active /\ part'[p].attempt > 0
<1> DEFINE attempt == IF \/ part[p].status = "sending" /\ part[p].lease = l
                         \/ part[p].attempt = AttemptCap
                      THEN part[p].attempt ELSE part[p].attempt + 1
           row == [status |-> "sending", attempt |-> attempt, lease |-> l, left |-> LeaseTicks - 0,
                   wait |-> part[p].wait, message |-> part[p].message]
           new == [part EXCEPT ![p] = row]
<1>1. part[p].status \in Active /\ Derive(new, {PlanOf[p]}, CancelFlags)
    BY DEF ClaimNextDeliveryPart, Claimable, IsTarget
<1>2. attempt > 0
    BY ValueFacts, Typing DEF IInv, SentIsAttempted
<1>3. /\ new[p].attempt > 0 /\ new[p].message = part[p].message /\ new[p].status = "sending"
      /\ \A q \in Parts \ {p} : new[q] = part[q]
    <2> HIDE DEF attempt
    <2> QED BY <1>2, Typing
<1>4. part[p].status # "delivered"
    BY <1>1 DEF Active
<1> HIDE DEF new
<1>5. \A q \in Parts : /\ part'[q].attempt = new[q].attempt
                       /\ part'[q].message = new[q].message
                       /\ new[q].status = "delivered" <=> part'[q].status = "delivered"
    BY <1>1, DeriveKeeps
<1> QED BY <1>1, <1>3, <1>4, <1>5 DEF Keeps

LEMMA AcknowledgeKeeps ==
    ASSUME IInv, NEW p \in Parts, NEW l \in Leases, NEW verdict \in {"delivered", "failed"},
           NEW m \in Messages \cup {NoMessage}, NEW wait \in Nat,
           verdict = "failed" => m = NoMessage,
           AcknowledgeDeliveryPart(p, l, verdict, m, 0, wait)
    PROVE  /\ Keeps(IF verdict = "delivered" THEN {p} ELSE {})
           /\ part'[p].status = verdict
<1> DEFINE message == IF m = NoMessage THEN part[p].message ELSE m
           acked == [part EXCEPT ![p] = [Released(part[p], verdict) EXCEPT !.message = message]]
           spaced == [q \in Parts |->
                        IF /\ verdict = "delivered" /\ Delay[p] > 0
                           /\ PlanOf[q] = PlanOf[p] /\ Ordinal[q] = Ordinal[p] + 1
                           /\ acked[q].status = "pending"
                        THEN [acked[q] EXCEPT !.wait = wait]
                        ELSE acked[q]]
<1>1. part[p].status = "sending" /\ Derive(spaced, {PlanOf[p]}, CancelFlags)
    BY DEF AcknowledgeDeliveryPart, Acknowledgeable, Owns
<1>2. /\ acked[p].status = verdict /\ acked[p].attempt = part[p].attempt
      /\ acked[p].message = message
      /\ \A q \in Parts \ {p} : acked[q] = part[q]
    BY Typing DEF Released
<1> HIDE DEF acked
<1>3. \A q \in Parts : /\ spaced[q].status = acked[q].status /\ spaced[q].attempt = acked[q].attempt
                       /\ spaced[q].message = acked[q].message
    <2> SUFFICES ASSUME NEW q \in Parts
                 PROVE  /\ spaced[q].status = acked[q].status /\ spaced[q].attempt = acked[q].attempt
                        /\ spaced[q].message = acked[q].message
        OBVIOUS
    <2>1. CASE q = p
        BY <1>2, <2>1
    <2>2. CASE q # p
        BY <1>2, <2>2
    <2> QED BY <2>1, <2>2
<1> HIDE DEF spaced
<1>4. \A q \in Parts : /\ part'[q].attempt = spaced[q].attempt
                       /\ part'[q].message = spaced[q].message
                       /\ spaced[q].status \notin Active => part'[q].status = spaced[q].status
                       /\ spaced[q].status = "delivered" <=> part'[q].status = "delivered"
    BY <1>1, DeriveKeeps
<1> QED BY <1>1, <1>2, <1>3, <1>4 DEF Keeps, Active

LEMMA DeferKeeps ==
    ASSUME IInv, NEW p \in Parts, NEW l \in Leases, NEW wait \in Nat, DeferDeliveryPart(p, l, wait)
    PROVE  Keeps({})
<1> DEFINE new == [part EXCEPT ![p] = [Released(part[p], "pending") EXCEPT !.wait = wait]]
<1>1. part[p].status = "sending" /\ Derive(new, {PlanOf[p]}, CancelFlags)
    BY DEF DeferDeliveryPart, Owns
<1>2. /\ new[p].attempt = part[p].attempt /\ new[p].message = part[p].message
      /\ new[p].status = "pending"
      /\ \A q \in Parts \ {p} : new[q] = part[q]
    BY Typing DEF Released
<1> HIDE DEF new
<1>3. \A q \in Parts : /\ part'[q].attempt = new[q].attempt
                       /\ part'[q].message = new[q].message
                       /\ new[q].status \notin Active => part'[q].status = new[q].status
                       /\ new[q].status = "delivered" <=> part'[q].status = "delivered"
    BY <1>1, DeriveKeeps
<1> QED BY <1>1, <1>2, <1>3 DEF Keeps, Active

LEMMA ReconcileKeeps ==
    ASSUME IInv, NEW p \in Parts, NEW m \in Messages, ReconcileReceipt(p, m)
    PROVE  Keeps({p}) /\ part'[p].status = "delivered"
<1> DEFINE new == [part EXCEPT ![p] = [Released(part[p], "delivered") EXCEPT !.message = m]]
<1>1. Derive(new, {PlanOf[p]}, CancelFlags)
    BY DEF ReconcileReceipt
<1>2. /\ new[p].attempt = part[p].attempt /\ new[p].status = "delivered"
      /\ \A q \in Parts \ {p} : new[q] = part[q]
    BY Typing DEF Released
<1> HIDE DEF new
<1>3. \A q \in Parts : /\ part'[q].attempt = new[q].attempt
                       /\ part'[q].message = new[q].message
                       /\ new[q].status \notin Active => part'[q].status = new[q].status
                       /\ new[q].status = "delivered" <=> part'[q].status = "delivered"
    BY <1>1, DeriveKeeps
<1> QED BY <1>1, <1>2, <1>3 DEF Keeps, Active

\* Methods that settle or release active parts.
LEMMA SettlingKeeps ==
    ASSUME NEW table, NEW D, NEW cancel, Derive(table, D, cancel),
           \A p \in Parts : /\ table[p].attempt = part[p].attempt /\ table[p].message = part[p].message
                            /\ part[p].status = "delivered" <=> table[p].status = "delivered"
    PROVE  Keeps({})
<1>1. \A p \in Parts : /\ part'[p].attempt = table[p].attempt
                       /\ part'[p].message = table[p].message
                       /\ table[p].status = "delivered" <=> part'[p].status = "delivered"
    BY DeriveKeeps
<1> QED BY <1>1 DEF Keeps

LEMMA RecoverKeeps ==
    ASSUME IInv, RecoverExpiredLeases(0)
    PROVE  Keeps({})
<1> DEFINE expired == {p \in Parts : part[p].status = "sending" /\ part[p].left + 0 <= 0}
           released(p) == IF plan[PlanOf[p]].cancelRequested THEN "cancelled" ELSE "pending"
           new == [p \in Parts |-> IF p \in expired THEN Released(part[p], released(p)) ELSE part[p]]
<1>1. Derive(new, {PlanOf[p] : p \in expired}, CancelFlags)
    BY DEF RecoverExpiredLeases
<1>2. \A p \in Parts : /\ new[p].attempt = part[p].attempt /\ new[p].message = part[p].message
                       /\ part[p].status = "delivered" <=> new[p].status = "delivered"
    BY DEF Released
<1> HIDE DEF new
<1> QED BY <1>1, <1>2, SettlingKeeps

LEMMA CancelTailKeeps ==
    ASSUME IInv, NEW d \in Plans, CancelRemainingDeliveryParts(d)
    PROVE  Keeps({})
<1> DEFINE new == [p \in Parts |-> IF PlanOf[p] = d /\ part[p].status = "pending"
                                   THEN [part[p] EXCEPT !.status = "cancelled"] ELSE part[p]]
<1>1. Derive(new, {d}, [CancelFlags EXCEPT ![d] = TRUE])
    BY DEF CancelRemainingDeliveryParts
<1>2. \A p \in Parts : /\ new[p].attempt = part[p].attempt /\ new[p].message = part[p].message
                       /\ part[p].status = "delivered" <=> new[p].status = "delivered"
    OBVIOUS
<1> HIDE DEF new
<1> QED BY <1>1, <1>2, SettlingKeeps

LEMMA CancelConnectionKeeps ==
    ASSUME IInv, NEW c \in Connections, CancelConnection(c)
    PROVE  Keeps({})
<1> DEFINE D == {d \in Plans : ConnectionOf[d] = c /\ plan[d].status \in Active}
           new == [p \in Parts |-> IF PlanOf[p] \in D /\ part[p].status \in Active
                                   THEN [part[p] EXCEPT !.status = "cancelled"] ELSE part[p]]
<1>1. Derive(new, D, [d \in Plans |-> d \in D \/ plan[d].cancelRequested])
    BY DEF CancelConnection
<1>2. \A p \in Parts : /\ new[p].attempt = part[p].attempt /\ new[p].message = part[p].message
                       /\ part[p].status = "delivered" <=> new[p].status = "delivered"
    BY DEF Active
<1> HIDE DEF new, D
<1> QED BY <1>1, <1>2, SettlingKeeps

LEMMA CreateKeeps ==
    ASSUME IInv, NEW d \in Plans, CreatePlan(d, 0)
    PROVE  Keeps({})
<1>1. \A p \in Parts : PlanOf[p] = d => part[p].status = "absent"
    BY DEF CreatePlan, IInv, CreatedTogether
<1>2. \A p \in Parts : part'[p] = IF PlanOf[p] = d
                                  THEN [part[p] EXCEPT !.status = "pending", !.wait = 0] ELSE part[p]
    BY DEF CreatePlan
<1> QED BY <1>1, <1>2, Typing DEF Keeps, PartRow

LEMMA AgedRow ==
    ASSUME NEW table \in [Parts -> PartRow]
    PROVE  /\ Aged(table) \in [Parts -> PartRow]
           /\ \A p \in Parts : /\ Aged(table)[p].status = table[p].status
                               /\ Aged(table)[p].attempt = table[p].attempt
                               /\ Aged(table)[p].message = table[p].message
<1>1. ASSUME NEW p \in Parts
      PROVE  /\ Aged(table)[p] \in PartRow
             /\ Aged(table)[p].status = table[p].status
             /\ Aged(table)[p].attempt = table[p].attempt
             /\ Aged(table)[p].message = table[p].message
    <2> DEFINE w == IF table[p].wait > 0 THEN table[p].wait - 1 ELSE 0
               t == IF table[p].status = "sending" /\ table[p].left > Floor
                    THEN table[p].left - 1 ELSE table[p].left
    <2>1. Aged(table)[p] = [table[p] EXCEPT !.wait = w, !.left = t]
        BY DEF Aged
    <2>2. table[p] \in PartRow /\ w \in Nat /\ t \in Int
        BY DEF PartRow
    <2> HIDE DEF w, t
    <2> QED BY <2>1, <2>2 DEF PartRow
<1> QED BY <1>1 DEF Aged

LEMMA TickKeeps ==
    ASSUME IInv, Tick
    PROVE  Keeps({})
BY AgedRow DEF Tick, Keeps, IInv, TypeOK

\* A step of the adapter that is a method of the repository, or none.
RepoStep(S) == [Next]_vars /\ Keeps(S)

LEMMA StutterKeeps == UNCHANGED rows => \A S : RepoStep(S)
BY DEF rows, RepoStep, vars, Keeps

LEMMA ImportIsRepoStep ==
    ASSUME QInv, NEW p \in Parts, ImportReceipt(p)
    PROVE  RepoStep({p}) /\ part'[p].status = "delivered"
<1>1. journal[p] \in Messages
    BY DEF QInv, Held, ImportsKnown, ImportReceipt
<1>2. CASE Reconcilable(p, journal[p])
    <2>1. ReconcileReceipt(p, journal[p])
        BY <1>2 DEF ImportReceipt
    <2> QED BY <1>1, <2>1, ReconcileKeeps DEF QInv, RepoStep, Next
<1>3. CASE ~Reconcilable(p, journal[p])
    <2>1. UNCHANGED rows
        BY <1>3 DEF ImportReceipt
    <2>2. part[p].attempt > 0
        BY <1>1, JournalAssumption DEF QInv, Booked, JournalIsAttempted
    <2>3. part[p].status = "delivered"
        BY <1>3, <2>2, Typing DEF QInv, Booked, MessageIsDelivery, Reconcilable
    <2> QED BY <2>1, <2>3, StutterKeeps DEF rows
<1> QED BY <1>2, <1>3

LEMMA RecoverIsRepoStep ==
    ASSUME QInv, Recover
    PROVE  RepoStep({})
<1>1. CASE RecoverExpiredLeases(0)
    BY <1>1, RecoverKeeps, ValueFacts DEF QInv, RepoStep, Next
<1>2. CASE UNCHANGED rows
    BY <1>2, StutterKeeps
<1> QED BY <1>1, <1>2 DEF Recover

LEMMA ClaimIsRepoStep ==
    ASSUME QInv, NEW p \in Parts, NEW l \in Leases, ClaimPart(p, l)
    PROVE  RepoStep({}) /\ part[p].status \in Active /\ part'[p].attempt > 0
<1>1. ClaimNextDeliveryPart(p, l, 0)
    BY DEF ClaimPart
<1> QED BY <1>1, ClaimKeeps, ValueFacts DEF QInv, RepoStep, Next

LEMMA SettleIsRepoStep ==
    ASSUME QInv, SettleDefer \/ SettleAcknowledge
    PROVE  \/ job.outcome \notin Messages /\ RepoStep({})
           \/ /\ SettleAcknowledge /\ job.outcome \in Messages
              /\ RepoStep({job.part}) /\ part'[job.part].status = "delivered"
<1>1. job.part \in Parts /\ job.lease \in Leases
    BY DEF SettleDefer, SettleAcknowledge, QInv, Held, JobHeld, Executing
<1>2. CASE SettleDefer
    <2>1. DeferDeliveryPart(job.part, job.lease, DeferTicks)
        BY <1>2 DEF SettleDefer
    <2>2. DeferTicks \in Nat /\ DeferTicks \in 0..DeferTicks
        BY ValueFacts
    <2>3. job.outcome \notin Messages
        BY <1>2, JournalAssumption DEF SettleDefer, Again
    <2> QED BY <1>1, <2>1, <2>2, <2>3, DeferKeeps DEF QInv, RepoStep, Next
<1>3. CASE SettleAcknowledge
    <2> DEFINE m == IF Verdict = "delivered" THEN job.outcome ELSE NoMessage
    <2>1. AcknowledgeDeliveryPart(job.part, job.lease, Verdict, m, 0, Delay[job.part])
        BY <1>3 DEF SettleAcknowledge
    <2>2. /\ Verdict \in {"delivered", "failed"} /\ m \in Messages \cup {NoMessage}
          /\ Verdict = "failed" => m = NoMessage
          /\ job.outcome \in Messages => Verdict = "delivered"
        BY DEF Verdict
    <2>3. Delay[job.part] \in Nat /\ Delay[job.part] \in 0..Delay[job.part]
        BY <1>1, ValueFacts
    <2> HIDE DEF m
    <2>4. /\ Keeps(IF Verdict = "delivered" THEN {job.part} ELSE {})
          /\ part'[job.part].status = Verdict
        BY <1>1, <2>1, <2>2, <2>3, AcknowledgeKeeps DEF QInv
    <2>5. Next
        BY <1>1, <2>1, <2>2, <2>3, ValueFacts DEF Next
    <2> QED BY <1>3, <2>2, <2>4, <2>5 DEF RepoStep, Verdict
<1> QED BY <1>2, <1>3

LEMMA OthersIsRepoStep ==
    ASSUME QInv, Others
    PROVE  RepoStep({})
<1>1. ASSUME NEW d \in Plans, CreatePlan(d, 0)
      PROVE  RepoStep({})
    <2>1. 0 \in 0..DeferTicks
        BY ValueFacts
    <2> QED BY <1>1, <2>1, CreateKeeps DEF QInv, RepoStep, Next
<1>2. ASSUME NEW d \in Plans, CancelRemainingDeliveryParts(d)
      PROVE  RepoStep({})
    BY <1>2, CancelTailKeeps DEF QInv, RepoStep, Next
<1>3. ASSUME NEW c \in Connections, CancelConnection(c)
      PROVE  RepoStep({})
    BY <1>3, CancelConnectionKeeps DEF QInv, RepoStep, Next
<1>4. ASSUME RecoverExpiredLeases(0)
      PROVE  RepoStep({})
    BY <1>4, RecoverKeeps, ValueFacts DEF QInv, RepoStep, Next
<1> QED BY <1>1, <1>2, <1>3, <1>4 DEF Others

LEMMA TimeIsRepoStep ==
    ASSUME QInv, TimePasses
    PROVE  RepoStep({})
BY TickKeeps DEF TimePasses, QInv, RepoStep, Next

LEMMA EveryStepIsRepoStep ==
    ASSUME QInv, [QNext]_qvars
    PROVE  [Next]_vars
<1>0. UNCHANGED rows => [Next]_vars
    BY DEF rows, vars
<1>1. ASSUME NEW p \in Parts, ImportReceipt(p)
      PROVE  [Next]_vars
    BY <1>1, ImportIsRepoStep DEF RepoStep
<1>2. ASSUME NEW p \in Parts, NEW l \in Leases, ClaimPart(p, l)
      PROVE  [Next]_vars
    BY <1>2, ClaimIsRepoStep DEF RepoStep
<1>3. ASSUME SchedulerStep, ~Recover, ~SettleDefer, ~SettleAcknowledge,
             \A p \in Parts, l \in Leases : ~ClaimPart(p, l)
      PROVE  UNCHANGED rows
    BY <1>3
    DEF SchedulerStep, ReconcileNothing, ListPlans, EndStep, PassOver, GuardPasses, GuardRefuses,
        SaveFence, BeforeSend, CallProvider, CallUncertain, SaveReceipt, DropFence, SettleRefused,
        Return, Goto
<1>4. CASE SchedulerStep
    BY <1>2, <1>3, <1>4, RecoverIsRepoStep, SettleIsRepoStep, <1>0 DEF RepoStep
<1>5. ASSUME \/ \E who \in {"step", "task"} : ReconcileStart(who)
             \/ ReconcileEnd \/ OpenJournal \/ OpenRaises \/ LockedRaises
             \/ \E p \in Parts, m \in Messages : ProviderAccepts(p, m)
             \/ \E p \in Parts : ProviderRefuses(p) \/ RequestLost(p)
             \/ Interrupt
             \/ UNCHANGED qvars
      PROVE  UNCHANGED rows
    BY <1>5
    DEF ReconcileStart, ReconcileEnd, OpenJournal, OpenRaises, LockedRaises, ProviderAccepts,
        ProviderRefuses, RequestLost, Interrupt, Return, Goto, qvars
<1> QED
    BY <1>1, <1>4, <1>5, OthersIsRepoStep, TimeIsRepoStep, <1>0 DEF QNext, ReceiptStep, RepoStep

------------------------------------------------------------------------------
(* The adapter. *)

Outcomes == {"none", "failed", "retry"} \cup Messages
JobRow == [part : Parts \cup {NoPart}, lease : Leases \cup {NoLease}, attempt : 0..AttemptCap,
           outcome : Outcomes]

LEMMA Names ==
    /\ \A m \in Messages : m \notin {"none", "unknown", "failed", "retry"}
    /\ NoPart \notin Parts /\ NoLease \notin Leases /\ Budget \in Nat
    /\ NoJob \in JobRow /\ NoJob.outcome = "none" /\ Unseen \in [Parts -> PartRow]
BY JournalAssumption, ValueAssumption DEF NoJob, JobRow, Outcomes, Unseen, Absent, PartRow, Statuses

LEMMA Returned ==
    ASSUME QInv, NEW outcome \in Outcomes, Return(outcome)
    PROVE  /\ pc' = "settle" /\ UNCHANGED <<plan, part, imports, todo, seen>>
           /\ job' \in JobRow /\ job'.part = job.part /\ job'.lease = job.lease
           /\ job'.outcome = outcome
<1>1. job \in JobRow
    BY DEF QInv, QTypeOK, JobRow, Outcomes
<1>2. job' = [job EXCEPT !.outcome = outcome]
    BY DEF Return
<1> QED BY <1>1, <1>2 DEF Return, rows, JobRow

\* One step per action; in each the types, then who holds what, then what QQ may
\* have, then what is booked.
LEMMA AdapterStep ==
    ASSUME QInv, [QNext]_qvars
    PROVE  QInv'
<1> USE DEF Locked
<1>1. IInv' /\ TypeOK'
    BY EveryStepIsRepoStep, NextSafe DEF QInv, IInv
<1> DEFINE Goal == (QTypeOK /\ Held /\ Fenced /\ AtMostOnce /\ Booked)'
<1>2. ASSUME NEW who \in {"step", "task"}, ReconcileStart(who)
      PROVE  Goal
    <2>1. QTypeOK'
        BY <1>2, <1>1 DEF ReconcileStart, task, qq, QInv, QTypeOK
    <2>2. Held'
        BY <1>2
        DEF ReconcileStart, task, QInv, Held, JobHeld, LockOwner, ImportsKnown, Executing
    <2>3. Fenced' /\ AtMostOnce'
        BY <1>2
        DEF ReconcileStart, rows, task, qq, QInv, Fenced, UnansweredIsUnseen, SentIsFenced, Stages,
            Unsent, AtMostOnce
    <2>4. Booked'
        BY <1>2
        DEF ReconcileStart, rows, task, qq, QInv, Executing, Booked, ReceiptsImported,
            JournalIsAttempted, MessageIsDelivery, ReceiptIsGenuine
    <2> QED BY <2>1, <2>2, <2>3, <2>4
<1>3. ASSUME ReconcileEnd
      PROVE  Goal
    <2>1. QTypeOK'
        BY <1>3, <1>1 DEF ReconcileEnd, qq, QInv, QTypeOK, Pcs
    <2>2. Held'
        BY <1>3 DEF ReconcileEnd, QInv, Held, JobHeld, LockOwner, ImportsKnown, Executing
    <2>3. Fenced' /\ AtMostOnce'
        BY <1>3
        DEF ReconcileEnd, Resolved, rows, qq, QInv, Held, JobHeld, LockOwner, Executing, Fenced,
            UnansweredIsUnseen, SentIsFenced, Stages, Unsent, AtMostOnce
    <2>4. Booked'
        BY <1>3
        DEF ReconcileEnd, Resolved, rows, qq, QInv, Executing, Booked, ReceiptsImported,
            JournalIsAttempted, MessageIsDelivery, ReceiptIsGenuine
    <2> QED BY <2>1, <2>2, <2>3, <2>4
<1>4. ASSUME ReconcileNothing
      PROVE  Goal
    <2>1. QTypeOK'
        BY <1>4, <1>1 DEF ReconcileNothing, book, qq, QInv, QTypeOK, Pcs
    <2>2. Held'
        BY <1>4
        DEF ReconcileNothing, MayRecover, book, QInv, Held, JobHeld, LockOwner, ImportsKnown,
            Executing
    <2>3. Fenced' /\ AtMostOnce'
        BY <1>4
        DEF ReconcileNothing, rows, book, qq, QInv, Fenced, UnansweredIsUnseen, SentIsFenced,
            Stages, AtMostOnce
    <2>4. Booked'
        BY <1>4
        DEF ReconcileNothing, MayRecover, rows, book, qq, QInv, Executing, Fenced, SentIsFenced,
            Booked, ReceiptsImported, JournalIsAttempted, MessageIsDelivery, ReceiptIsGenuine
    <2> QED BY <2>1, <2>2, <2>3, <2>4
<1>5. ASSUME ListPlans
      PROVE  Goal
    <2>1. QTypeOK'
        BY <1>5, <1>1 DEF ListPlans, TypeOK, book, qq, QInv, QTypeOK, Pcs
    <2>2. Held'
        BY <1>5 DEF ListPlans, book, QInv, Held, JobHeld, LockOwner, ImportsKnown, Executing
    <2>3. Fenced' /\ AtMostOnce'
        BY <1>5
        DEF ListPlans, rows, book, qq, QInv, Fenced, UnansweredIsUnseen, SentIsFenced, Stages,
            AtMostOnce
    <2>4. Booked'
        BY <1>5
        DEF ListPlans, rows, book, qq, QInv, Executing, Booked, ReceiptsImported,
            JournalIsAttempted, MessageIsDelivery, ReceiptIsGenuine
    <2> QED BY <2>1, <2>2, <2>3, <2>4
<1>6. ASSUME EndStep
      PROVE  Goal
    <2>1. QTypeOK'
        BY <1>6, <1>1, Names DEF EndStep, book, qq, QInv, QTypeOK, Pcs
    <2>2. Held'
        BY <1>6 DEF EndStep, book, QInv, Held, JobHeld, LockOwner, ImportsKnown, Executing
    <2>3. Fenced' /\ AtMostOnce'
        BY <1>6
        DEF EndStep, rows, book, qq, QInv, Fenced, UnansweredIsUnseen, SentIsFenced, Stages,
            AtMostOnce
    <2>4. Booked'
        BY <1>6
        DEF EndStep, rows, book, qq, QInv, Executing, Booked, ReceiptsImported, JournalIsAttempted,
            MessageIsDelivery, ReceiptIsGenuine
    <2> QED BY <2>1, <2>2, <2>3, <2>4
<1>7. ASSUME NEW d \in Plans, PassOver(d)
      PROVE  Goal
    <2>1. QTypeOK'
        BY <1>7, <1>1 DEF PassOver, book, qq, QInv, QTypeOK
    <2>2. Held'
        BY <1>7 DEF PassOver, book, QInv, Held, JobHeld, LockOwner, ImportsKnown, Executing
    <2>3. Fenced' /\ AtMostOnce'
        BY <1>7
        DEF PassOver, rows, book, qq, QInv, Fenced, UnansweredIsUnseen, SentIsFenced, Stages,
            AtMostOnce
    <2>4. Booked'
        BY <1>7
        DEF PassOver, rows, book, qq, QInv, Executing, Booked, ReceiptsImported, JournalIsAttempted,
            MessageIsDelivery, ReceiptIsGenuine
    <2> QED BY <2>1, <2>2, <2>3, <2>4
<1>8. ASSUME GuardPasses
      PROVE  Goal
    <2>1. QTypeOK'
        BY <1>8, <1>1 DEF GuardPasses, Goto, qq, QInv, QTypeOK, Pcs
    <2>2. Held'
        BY <1>8 DEF GuardPasses, Goto, QInv, Held, JobHeld, LockOwner, ImportsKnown, Executing
    <2>3. Fenced' /\ AtMostOnce'
        BY <1>8
        DEF GuardPasses, Goto, rows, qq, QInv, Fenced, UnansweredIsUnseen, SentIsFenced, Stages,
            Unsent, AtMostOnce
    <2>4. Booked'
        BY <1>8
        DEF GuardPasses, Goto, rows, qq, QInv, Executing, Booked, ReceiptsImported,
            JournalIsAttempted, MessageIsDelivery, ReceiptIsGenuine
    <2> QED BY <2>1, <2>2, <2>3, <2>4
<1>9. ASSUME GuardRefuses
      PROVE  Goal
    <2>1. Return("failed") /\ "failed" \in Outcomes
        BY <1>9 DEF GuardRefuses, Outcomes
    <2>2. /\ pc' = "settle" /\ UNCHANGED <<plan, part, imports, todo, seen>>
          /\ job' \in JobRow /\ job'.part = job.part /\ job'.lease = job.lease
          /\ job'.outcome = "failed"
        BY <2>1, Returned
    <2>3. QTypeOK'
        BY <1>9, <1>1, <2>2 DEF GuardRefuses, qq, QInv, QTypeOK, JobRow, Pcs
    <2>4. Held'
        BY <1>9, <2>2
        DEF GuardRefuses, QInv, Held, JobHeld, LockOwner, ImportsKnown, Executing
    <2>5. Fenced' /\ AtMostOnce'
        BY <1>9, <2>2
        DEF GuardRefuses, qq, QInv, Fenced, UnansweredIsUnseen, SentIsFenced, Stages, AtMostOnce
    <2>6. Booked'
        BY <1>9, Names, <2>2
        DEF GuardRefuses, qq, QInv, Executing, Booked, ReceiptsImported, JournalIsAttempted,
            MessageIsDelivery, ReceiptIsGenuine
    <2> QED BY <2>3, <2>4, <2>5, <2>6
<1>10. ASSUME SaveFence
       PROVE  Goal
    <2>1. QTypeOK'
        BY <1>10, <1>1 DEF SaveFence, Goto, qq, QInv, QTypeOK, Pcs, Held, JobHeld, Executing
    <2>2. Held'
        BY <1>10 DEF SaveFence, Goto, QInv, Held, JobHeld, LockOwner, ImportsKnown, Executing
    <2>3. Fenced' /\ AtMostOnce'
        BY <1>10
        DEF SaveFence, Goto, rows, qq, QInv, QTypeOK, Held, JobHeld, Executing, Fenced,
            UnansweredIsUnseen, SentIsFenced, Stages, Unsent, AtMostOnce
    <2>4. Booked'
        BY <1>10, Names
        DEF SaveFence, Goto, rows, qq, QInv, Executing, Booked, ReceiptsImported,
            JournalIsAttempted, MessageIsDelivery, ReceiptIsGenuine
    <2> QED BY <2>1, <2>2, <2>3, <2>4
<1>11. ASSUME BeforeSend
       PROVE  Goal
    <2>1. QTypeOK'
        BY <1>11, <1>1 DEF BeforeSend, Goto, qq, QInv, QTypeOK, Pcs
    <2>2. Held'
        BY <1>11 DEF BeforeSend, Goto, QInv, Held, JobHeld, LockOwner, ImportsKnown, Executing
    <2>3. Fenced' /\ AtMostOnce'
        BY <1>11
        DEF BeforeSend, Goto, rows, qq, QInv, Fenced, UnansweredIsUnseen, SentIsFenced, Stages,
            Unsent, AtMostOnce
    <2>4. Booked'
        BY <1>11
        DEF BeforeSend, Goto, rows, qq, QInv, Executing, Booked, ReceiptsImported,
            JournalIsAttempted, MessageIsDelivery, ReceiptIsGenuine
    <2> QED BY <2>1, <2>2, <2>3, <2>4
<1>12. ASSUME CallProvider
       PROVE  Goal
    <2>1. QTypeOK'
        BY <1>12, <1>1 DEF CallProvider, Goto, QInv, QTypeOK, Pcs, Held, JobHeld, Executing
    <2>2. Held'
        BY <1>12
        DEF CallProvider, Goto, QInv, Held, JobHeld, LockOwner, ImportsKnown, Executing
    <2>3. Fenced' /\ AtMostOnce'
        BY <1>12
        DEF CallProvider, Goto, rows, QInv, Fenced, UnansweredIsUnseen, SentIsFenced, Stages,
            Unsent, AtMostOnce
    <2>4. Booked'
        BY <1>12
        DEF CallProvider, Goto, rows, QInv, Executing, Booked, ReceiptsImported, JournalIsAttempted,
            MessageIsDelivery, ReceiptIsGenuine
    <2> QED BY <2>1, <2>2, <2>3, <2>4
<1>13. ASSUME CallUncertain
       PROVE  Goal
    <2>1. Return("failed") /\ "failed" \in Outcomes
        BY <1>13 DEF CallUncertain, Outcomes
    <2>2. /\ pc' = "settle" /\ UNCHANGED <<plan, part, imports, todo, seen>>
          /\ job' \in JobRow /\ job'.part = job.part /\ job'.lease = job.lease
          /\ job'.outcome = "failed"
        BY <2>1, Returned
    <2>3. QTypeOK'
        BY <1>13, <1>1, <2>2 DEF CallUncertain, qq, QInv, QTypeOK, JobRow, Pcs
    <2>4. Held'
        BY <1>13, <2>2
        DEF CallUncertain, QInv, Held, JobHeld, LockOwner, ImportsKnown, Executing
    <2>5. Fenced' /\ AtMostOnce'
        BY <1>13, <2>2
        DEF CallUncertain, qq, QInv, Fenced, UnansweredIsUnseen, SentIsFenced, Stages, AtMostOnce
    <2>6. Booked'
        BY <1>13, Names, <2>2
        DEF CallUncertain, qq, QInv, Executing, Booked, ReceiptsImported, JournalIsAttempted,
            MessageIsDelivery, ReceiptIsGenuine
    <2> QED BY <2>3, <2>4, <2>5, <2>6
<1>14. ASSUME SaveReceipt
       PROVE  Goal
    <2>1. Return(job.outcome) /\ job.outcome \in Outcomes
        BY <1>14 DEF SaveReceipt, Outcomes, QInv, QTypeOK
    <2>2. /\ pc' = "settle" /\ UNCHANGED <<plan, part, imports, todo, seen>>
          /\ job' \in JobRow /\ job'.part = job.part /\ job'.lease = job.lease
          /\ job'.outcome = job.outcome
        BY <2>1, Returned
    <2>3. QTypeOK'
        BY <1>14, <1>1, <2>2
        DEF SaveReceipt, qq, QInv, QTypeOK, JobRow, Pcs, Held, JobHeld, Executing, Fenced, Stages
    <2>4. Held'
        BY <1>14, <2>2
        DEF SaveReceipt, QInv, Held, JobHeld, LockOwner, ImportsKnown, Executing
    <2>5. Fenced' /\ AtMostOnce'
        BY <1>14, Names, <2>2
        DEF SaveReceipt, qq, QInv, Fenced, UnansweredIsUnseen, SentIsFenced, Stages, AtMostOnce
    <2>6. Booked'
        BY <1>14, <2>2
        DEF SaveReceipt, qq, QInv, Executing, Booked, ReceiptsImported, JournalIsAttempted,
            MessageIsDelivery, ReceiptIsGenuine
    <2> QED BY <2>3, <2>4, <2>5, <2>6
<1>15. ASSUME DropFence
       PROVE  Goal
    <2>1. Return("failed") /\ "failed" \in Outcomes
        BY <1>15 DEF DropFence, Outcomes
    <2>2. /\ pc' = "settle" /\ UNCHANGED <<plan, part, imports, todo, seen>>
          /\ job' \in JobRow /\ job'.part = job.part /\ job'.lease = job.lease
          /\ job'.outcome = "failed"
        BY <2>1, Returned
    <2>3. QTypeOK'
        BY <1>15, <1>1, <2>2 DEF DropFence, qq, QInv, QTypeOK, JobRow, Pcs, Held, JobHeld, Executing
    <2>4. Held'
        BY <1>15, <2>2 DEF DropFence, QInv, Held, JobHeld, LockOwner, ImportsKnown, Executing
    <2>5. Fenced' /\ AtMostOnce'
        BY <1>15, <2>2
        DEF DropFence, qq, QInv, Fenced, UnansweredIsUnseen, SentIsFenced, Stages, Unsent,
            AtMostOnce
    <2>6. Booked'
        BY <1>15, Names, <2>2
        DEF DropFence, qq, QInv, Executing, Booked, ReceiptsImported, JournalIsAttempted,
            MessageIsDelivery, ReceiptIsGenuine
    <2> QED BY <2>3, <2>4, <2>5, <2>6
<1>16. ASSUME SettleRefused
       PROVE  Goal
    <2>1. QTypeOK'
        BY <1>16, <1>1, Names DEF SettleRefused, book, qq, QInv, QTypeOK, JobRow, Pcs
    <2>2. Held'
        BY <1>16
        DEF SettleRefused, book, QInv, Held, JobHeld, LockOwner, ImportsKnown, Executing
    <2>3. Fenced' /\ AtMostOnce'
        BY <1>16
        DEF SettleRefused, rows, book, qq, QInv, Fenced, UnansweredIsUnseen, SentIsFenced, Stages,
            AtMostOnce
    <2>4. Booked'
        BY <1>16
        DEF SettleRefused, rows, book, qq, QInv, Executing, Booked, ReceiptsImported,
            JournalIsAttempted, MessageIsDelivery, ReceiptIsGenuine
    <2> QED BY <2>1, <2>2, <2>3, <2>4
<1>17. ASSUME OpenJournal
       PROVE  Goal
    <2>1. CASE journal[job.part] = "none"
        <3>1. /\ pc = "claimed" /\ lock = "free" /\ pc' = "guard" /\ lock' = "executor"
              /\ UNCHANGED <<rows, journal, imports, todo, seen, job, qq, budget>>
            BY <1>17, <2>1 DEF OpenJournal, Goto
        <3>2. QTypeOK'
            BY <1>1, <3>1 DEF qq, QInv, QTypeOK, Pcs
        <3>3. Held'
            BY <3>1 DEF QInv, Held, JobHeld, LockOwner, ImportsKnown, Executing
        <3>4. Fenced' /\ AtMostOnce'
            BY <2>1, <3>1
            DEF rows, qq, QInv, Fenced, UnansweredIsUnseen, SentIsFenced, Stages, Unsent, AtMostOnce
        <3>5. Booked'
            BY <3>1
            DEF rows, qq, QInv, Executing, Booked, ReceiptsImported, JournalIsAttempted,
                MessageIsDelivery, ReceiptIsGenuine
        <3> QED BY <3>2, <3>3, <3>4, <3>5
    <2>2. CASE journal[job.part] # "none"
        <3> DEFINE outcome == IF journal[job.part] = "unknown" THEN "failed" ELSE journal[job.part]
        <3>1. /\ pc = "claimed" /\ lock = "free"
              /\ Return(outcome) /\ UNCHANGED <<journal, lock, qq, budget>>
            BY <1>17, <2>2 DEF OpenJournal
        <3>2. /\ outcome \in Outcomes
              /\ journal[job.part] \in Messages => outcome = journal[job.part]
              /\ outcome \in Messages => journal[job.part] \in Messages
            BY <2>2, <3>1, Names DEF Outcomes, QInv, QTypeOK, Held, JobHeld, Executing
        <3> HIDE DEF outcome
        <3>3. /\ pc' = "settle" /\ UNCHANGED <<plan, part, imports, todo, seen>>
              /\ job' \in JobRow /\ job'.part = job.part /\ job'.lease = job.lease
              /\ job'.outcome = outcome
            BY <3>1, <3>2, Returned
        <3>4. QTypeOK'
            BY <1>1, <3>1, <3>3 DEF qq, QInv, QTypeOK, JobRow, Outcomes, Pcs
        <3>5. Held'
            BY <3>1, <3>3 DEF QInv, Held, JobHeld, LockOwner, ImportsKnown, Executing
        <3>6. Fenced' /\ AtMostOnce'
            BY <3>1, <3>3 DEF qq, QInv, Fenced, UnansweredIsUnseen, SentIsFenced, Stages, AtMostOnce
        <3>7. Booked'
            BY <3>1, <3>2, <3>3
            DEF qq, QInv, Executing, Fenced, Stages, Booked, ReceiptsImported, JournalIsAttempted,
                MessageIsDelivery, ReceiptIsGenuine
        <3> QED BY <3>4, <3>5, <3>6, <3>7
    <2> QED BY <2>1, <2>2
<1>18. ASSUME OpenRaises
       PROVE  Goal
    <2>1. Return("retry") /\ "retry" \in Outcomes
        BY <1>18 DEF OpenRaises, Outcomes
    <2>2. /\ pc' = "settle" /\ UNCHANGED <<plan, part, imports, todo, seen>>
          /\ job' \in JobRow /\ job'.part = job.part /\ job'.lease = job.lease
          /\ job'.outcome = "retry"
        BY <2>1, Returned
    <2>3. QTypeOK'
        BY <1>18, <1>1, <2>2 DEF OpenRaises, qq, QInv, QTypeOK, JobRow, Pcs
    <2>4. Held'
        BY <1>18, <2>2 DEF OpenRaises, QInv, Held, JobHeld, LockOwner, ImportsKnown, Executing
    <2>5. Fenced' /\ AtMostOnce'
        BY <1>18, <2>2
        DEF OpenRaises, qq, QInv, Fenced, UnansweredIsUnseen, SentIsFenced, Stages, AtMostOnce
    <2>6. Booked'
        BY <1>18, Names, <2>2
        DEF OpenRaises, qq, QInv, Executing, Booked, ReceiptsImported, JournalIsAttempted,
            MessageIsDelivery, ReceiptIsGenuine
    <2> QED BY <2>3, <2>4, <2>5, <2>6
<1>19. ASSUME LockedRaises
       PROVE  Goal
    <2>1. Return("failed") /\ "failed" \in Outcomes
        BY <1>19 DEF LockedRaises, Outcomes
    <2>2. /\ pc' = "settle" /\ UNCHANGED <<plan, part, imports, todo, seen>>
          /\ job' \in JobRow /\ job'.part = job.part /\ job'.lease = job.lease
          /\ job'.outcome = "failed"
        BY <2>1, Returned
    <2>3. QTypeOK'
        BY <1>19, <1>1, Names, <2>2 DEF LockedRaises, qq, QInv, QTypeOK, JobRow, Pcs
    <2>4. Held'
        BY <1>19, <2>2
        DEF LockedRaises, QInv, Held, JobHeld, LockOwner, ImportsKnown, Executing
    <2>5. Fenced' /\ AtMostOnce'
        BY <1>19, <2>2
        DEF LockedRaises, qq, QInv, Fenced, UnansweredIsUnseen, SentIsFenced, Stages, AtMostOnce
    <2>6. Booked'
        BY <1>19, Names, <2>2
        DEF LockedRaises, qq, QInv, Executing, Booked, ReceiptsImported, JournalIsAttempted,
            MessageIsDelivery, ReceiptIsGenuine
    <2> QED BY <2>3, <2>4, <2>5, <2>6
<1>20. ASSUME NEW q \in Parts, NEW m \in Messages, ProviderAccepts(q, m)
       PROVE  Goal
    <2>1. QTypeOK'
        BY <1>20, <1>1 DEF ProviderAccepts, book, QInv, QTypeOK, Pcs
    <2>2. Held'
        BY <1>20
        DEF ProviderAccepts, book, QInv, QTypeOK, Held, JobHeld, LockOwner, ImportsKnown, Executing
    <2>3. Fenced' /\ AtMostOnce'
        BY <1>20
        DEF ProviderAccepts, rows, book, QInv, QTypeOK, Fenced, UnansweredIsUnseen, SentIsFenced,
            Stages, Unsent, AtMostOnce
    <2>4. Booked'
        BY <1>20
        DEF ProviderAccepts, rows, book, QInv, QTypeOK, Executing, Booked, ReceiptsImported,
            JournalIsAttempted, MessageIsDelivery, ReceiptIsGenuine
    <2> QED BY <2>1, <2>2, <2>3, <2>4
<1>21. ASSUME NEW q \in Parts, ProviderRefuses(q)
       PROVE  Goal
    <2>1. QTypeOK'
        BY <1>21, <1>1 DEF ProviderRefuses, book, QInv, QTypeOK, Pcs
    <2>2. Held'
        BY <1>21
        DEF ProviderRefuses, book, QInv, Held, JobHeld, LockOwner, ImportsKnown, Executing
    <2>3. Fenced' /\ AtMostOnce'
        BY <1>21
        DEF ProviderRefuses, rows, book, QInv, Fenced, UnansweredIsUnseen, SentIsFenced, Stages,
            Unsent, AtMostOnce
    <2>4. Booked'
        BY <1>21
        DEF ProviderRefuses, rows, book, QInv, Executing, Booked, ReceiptsImported,
            JournalIsAttempted, MessageIsDelivery, ReceiptIsGenuine
    <2> QED BY <2>1, <2>2, <2>3, <2>4
<1>22. ASSUME NEW q \in Parts, RequestLost(q)
       PROVE  Goal
    <2>1. QTypeOK'
        BY <1>22, <1>1 DEF RequestLost, book, task, QInv, QTypeOK
    <2>2. Held'
        BY <1>22
        DEF RequestLost, book, task, QInv, Held, JobHeld, LockOwner, ImportsKnown, Executing
    <2>3. Fenced' /\ AtMostOnce'
        BY <1>22
        DEF RequestLost, rows, book, task, QInv, Fenced, UnansweredIsUnseen, SentIsFenced, Stages,
            Unsent, AtMostOnce
    <2>4. Booked'
        BY <1>22
        DEF RequestLost, rows, book, task, QInv, Executing, Booked, ReceiptsImported,
            JournalIsAttempted, MessageIsDelivery, ReceiptIsGenuine
    <2> QED BY <2>1, <2>2, <2>3, <2>4
<1>23. ASSUME Interrupt
       PROVE  Goal
    <2>1. QTypeOK'
        BY <1>23, <1>1, Names DEF Interrupt, qq, QInv, QTypeOK, JobRow, Pcs
    <2>2. Held'
        BY <1>23 DEF Interrupt, QInv, Held, JobHeld, LockOwner, ImportsKnown, Executing
    <2>3. Fenced' /\ AtMostOnce'
        BY <1>23
        DEF Interrupt, rows, qq, QInv, Fenced, UnansweredIsUnseen, SentIsFenced, Stages, AtMostOnce
    <2>4. Booked'
        BY <1>23
        DEF Interrupt, rows, qq, QInv, Executing, Booked, ReceiptsImported, JournalIsAttempted,
            MessageIsDelivery, ReceiptIsGenuine
    <2> QED BY <2>1, <2>2, <2>3, <2>4
<1>24. ASSUME NEW q \in Parts, ImportReceipt(q)
       PROVE  Goal
    <2>1. Keeps({q}) /\ part'[q].status = "delivered"
        BY <1>24, ImportIsRepoStep DEF RepoStep
    <2>2. QTypeOK'
        BY <1>24, <1>1 DEF ImportReceipt, task, qq, QInv, QTypeOK
    <2>3. Held'
        BY <1>24
        DEF ImportReceipt, task, QInv, Held, JobHeld, LockOwner, ImportsKnown, Executing
    <2>4. Fenced' /\ AtMostOnce'
        BY <1>24, <2>1
        DEF ImportReceipt, task, qq, QInv, Fenced, UnansweredIsUnseen, SentIsFenced, Stages, Unsent,
            AtMostOnce, Keeps
    <2>5. Booked'
        BY <1>24, <2>1
        DEF ImportReceipt, task, qq, QInv, Held, JobHeld, ImportsKnown, Executing, Booked,
            ReceiptsImported, JournalIsAttempted, MessageIsDelivery, ReceiptIsGenuine, Keeps
    <2> QED BY <2>2, <2>3, <2>4, <2>5
<1>25. ASSUME Recover
       PROVE  Goal
    <2>1. Keeps({})
        BY <1>25, RecoverIsRepoStep DEF RepoStep
    <2>2. QTypeOK'
        BY <1>25, <1>1 DEF Recover, book, qq, QInv, QTypeOK, Pcs
    <2>3. Held'
        BY <1>25
        DEF Recover, book, QInv, Held, JobHeld, LockOwner, ImportsKnown, Executing
    <2>4. Fenced' /\ AtMostOnce'
        BY <1>25, <2>1
        DEF Recover, book, qq, QInv, Fenced, UnansweredIsUnseen, SentIsFenced, Stages, AtMostOnce,
            Keeps
    <2>5. Booked'
        BY <1>25, <2>1
        DEF Recover, book, qq, QInv, Executing, Booked, ReceiptsImported, JournalIsAttempted,
            MessageIsDelivery, ReceiptIsGenuine, Keeps
    <2> QED BY <2>2, <2>3, <2>4, <2>5
<1>26. ASSUME NEW q \in Parts, NEW l \in Leases, ClaimPart(q, l)
       PROVE  Goal
    <2>1. Keeps({}) /\ part[q].status \in Active /\ part'[q].attempt > 0
        BY <1>26, ClaimIsRepoStep DEF RepoStep
    <2>2. /\ job' \in JobRow /\ job'.part = q /\ job'.lease = l /\ job'.outcome = "none"
          /\ part[q].status # "delivered"
        <3>1. part'[q].attempt \in 0..AttemptCap
            BY <1>1 DEF TypeOK, PartRow
        <3>2. job' = [part |-> q, lease |-> l, attempt |-> part'[q].attempt, outcome |-> "none"]
            BY <1>26 DEF ClaimPart
        <3> QED BY <2>1, <3>1, <3>2 DEF JobRow, Outcomes, Active
    <2>3. QTypeOK'
        BY <1>26, <1>1, <2>2 DEF ClaimPart, book, qq, QInv, QTypeOK, JobRow, Pcs
    <2>4. Held'
        BY <1>26 DEF ClaimPart, book, QInv, Held, JobHeld, LockOwner, ImportsKnown
    <2>5. Fenced' /\ AtMostOnce'
        BY <1>26, <2>1, <2>2
        DEF ClaimPart, book, qq, QInv, QTypeOK, Fenced, UnansweredIsUnseen, SentIsFenced, Stages,
            Unsent, AtMostOnce, Booked, ReceiptsImported, Keeps
    <2>6. Booked'
        BY <1>26, Names, <2>1
        DEF ClaimPart, book, qq, QInv, Booked, ReceiptsImported, JournalIsAttempted,
            MessageIsDelivery, ReceiptIsGenuine, Keeps
    <2> QED BY <2>3, <2>4, <2>5, <2>6
<1>27. ASSUME SettleDefer
       PROVE  Goal
    <2>1. job.outcome \notin Messages /\ Keeps({})
        BY <1>27, SettleIsRepoStep DEF RepoStep, SettleDefer, SettleAcknowledge
    <2>2. QTypeOK'
        BY <1>27, <1>1, Names DEF SettleDefer, book, qq, QInv, QTypeOK, JobRow, Pcs
    <2>3. Held'
        BY <1>27
        DEF SettleDefer, book, QInv, Held, JobHeld, LockOwner, ImportsKnown, Executing
    <2>4. Fenced' /\ AtMostOnce'
        BY <1>27, <2>1
        DEF SettleDefer, book, qq, QInv, Fenced, UnansweredIsUnseen, SentIsFenced, Stages,
            AtMostOnce, Keeps
    <2>5. Booked'
        BY <1>27, <2>1
        DEF SettleDefer, book, qq, QInv, Executing, Booked, ReceiptsImported, JournalIsAttempted,
            MessageIsDelivery, ReceiptIsGenuine, Keeps
    <2> QED BY <2>2, <2>3, <2>4, <2>5
<1>28. ASSUME SettleAcknowledge
       PROVE  Goal
    <2>1. \/ job.outcome \notin Messages /\ Keeps({})
          \/ /\ job.outcome \in Messages
             /\ Keeps({job.part}) /\ part'[job.part].status = "delivered"
        BY <1>28, SettleIsRepoStep DEF RepoStep
    <2>2. QTypeOK'
        BY <1>28, <1>1, Names DEF SettleAcknowledge, book, qq, QInv, QTypeOK, JobRow, Pcs
    <2>3. Held'
        BY <1>28
        DEF SettleAcknowledge, book, QInv, Held, JobHeld, LockOwner, ImportsKnown, Executing
    <2>4. Fenced' /\ AtMostOnce'
        BY <1>28, <2>1
        DEF SettleAcknowledge, book, qq, QInv, Fenced, UnansweredIsUnseen, SentIsFenced, Stages,
            AtMostOnce, Keeps
    <2>5. Booked'
        BY <1>28, <2>1
        DEF SettleAcknowledge, book, qq, QInv, Executing, Booked, ReceiptsImported,
            JournalIsAttempted, MessageIsDelivery, ReceiptIsGenuine, Keeps
    <2> QED BY <2>2, <2>3, <2>4, <2>5
<1>29. ASSUME Others
       PROVE  Goal
    <2>1. Keeps({})
        BY <1>29, OthersIsRepoStep DEF RepoStep
    <2>2. QTypeOK'
        BY <1>29, <1>1 DEF Others, book, task, qq, QInv, QTypeOK
    <2>3. Held'
        BY <1>29
        DEF Others, book, task, QInv, Held, JobHeld, LockOwner, ImportsKnown, Executing
    <2>4. Fenced' /\ AtMostOnce'
        BY <1>29, <2>1
        DEF Others, book, task, qq, QInv, Fenced, UnansweredIsUnseen, SentIsFenced, Stages, Unsent,
            AtMostOnce, Keeps
    <2>5. Booked'
        BY <1>29, <2>1
        DEF Others, book, task, qq, QInv, Held, JobHeld, Executing, Booked, ReceiptsImported,
            JournalIsAttempted, MessageIsDelivery, ReceiptIsGenuine, Keeps
    <2> QED BY <2>2, <2>3, <2>4, <2>5
<1>30. ASSUME TimePasses
       PROVE  Goal
    <2>1. Keeps({})
        BY <1>30, TimeIsRepoStep DEF RepoStep
    <2>2. seen' \in [Parts -> PartRow] /\ budget' \in 0..Budget
        BY <1>30, AgedRow, Names DEF TimePasses, QInv, QTypeOK
    <2>3. QTypeOK'
        BY <1>30, <1>1, <2>2 DEF TimePasses, book, qq, QInv, QTypeOK
    <2>4. Held'
        BY <1>30
        DEF TimePasses, book, QInv, Held, JobHeld, LockOwner, ImportsKnown, Executing
    <2>5. Fenced' /\ AtMostOnce'
        BY <1>30, <2>1
        DEF TimePasses, book, qq, QInv, Fenced, UnansweredIsUnseen, SentIsFenced, Stages, Unsent,
            AtMostOnce, Keeps
    <2>6. Booked'
        BY <1>30, <2>1
        DEF TimePasses, book, qq, QInv, Held, JobHeld, Executing, Booked, ReceiptsImported,
            JournalIsAttempted, MessageIsDelivery, ReceiptIsGenuine, Keeps
    <2> QED BY <2>3, <2>4, <2>5, <2>6
<1>31. ASSUME UNCHANGED qvars
       PROVE  Goal
    <2>1. QTypeOK'
        BY <1>31, <1>1 DEF qvars, book, task, qq, QInv, QTypeOK
    <2>2. Held'
        BY <1>31 DEF qvars, book, task, QInv, Held, JobHeld, LockOwner, ImportsKnown, Executing
    <2>3. Fenced' /\ AtMostOnce'
        BY <1>31
        DEF qvars, rows, book, task, qq, QInv, Fenced, UnansweredIsUnseen, SentIsFenced, Stages,
            Unsent, AtMostOnce
    <2>4. Booked'
        BY <1>31
        DEF qvars, rows, book, task, qq, QInv, Executing, Booked, ReceiptsImported,
            JournalIsAttempted, MessageIsDelivery, ReceiptIsGenuine
    <2> QED BY <2>1, <2>2, <2>3, <2>4
<1> HIDE DEF Goal
<1>32. ASSUME SchedulerStep
       PROVE  Goal
    BY <1>32, <1>4, <1>5, <1>6, <1>7, <1>8, <1>9, <1>10, <1>11, <1>12, <1>13, <1>14, <1>15, <1>16,
       <1>25, <1>26, <1>27, <1>28
    DEF SchedulerStep
<1>33. Goal
    BY <1>2, <1>3, <1>17, <1>18, <1>19, <1>20, <1>21, <1>22, <1>23, <1>24,
       <1>29, <1>30, <1>31, <1>32
    DEF QNext, ReceiptStep
<1> QED BY <1>1, <1>33 DEF Goal, QInv

LEMMA AdapterInit == QInit => QInv
<1> SUFFICES ASSUME QInit PROVE QInv
    OBVIOUS
<1>1. IInv
    BY InitSafe DEF QInit
<1>2. \A p \in Parts : part[p].status = "absent" /\ part[p].message = NoMessage
    BY DEF QInit, Init, Absent
<1>3. QTypeOK
    BY <1>1, Names DEF QInit, QTypeOK, IInv, JobRow, Pcs
<1>4. Held /\ Fenced /\ AtMostOnce
    BY DEF QInit, Locked, Held, JobHeld, LockOwner, ImportsKnown, Executing, Fenced,
           UnansweredIsUnseen, SentIsFenced, Stages, AtMostOnce
<1>5. Booked
    BY <1>2, Names
    DEF QInit, Locked, Booked, ReceiptsImported, JournalIsAttempted, MessageIsDelivery,
        ReceiptIsGenuine, Executing
<1> QED BY <1>1, <1>3, <1>4, <1>5 DEF QInv

------------------------------------------------------------------------------
(* The theorems. *)

\* The inductive invariant: what the journal, the job and QQ say of each other.
THEOREM AdapterInvariance == QSpec => []QInv
<1>1. QInv /\ [QNext]_qvars => QInv'
    BY AdapterStep
<1> QED BY AdapterInit, <1>1, PTL DEF QSpec

\* The adapter, the scheduler and the other callers use the rows only as the
\* repository allows: every theorem about ChannelDelivery holds of them.
THEOREM AdapterUsesRepository == QSpec => Spec
<1>1. QInit => Init
    BY DEF QInit
<1>2. QInv /\ [QNext]_qvars => [Next]_vars
    BY EveryStepIsRepoStep
<1> QED BY <1>1, <1>2, AdapterInvariance, PTL DEF QSpec, Spec

\* Types of the journal, the task and QQ.
THEOREM AdapterTypeCorrect == QSpec => []QTypeOK
<1>1. QInv => QTypeOK
    BY DEF QInv
<1> QED BY <1>1, AdapterInvariance, PTL

\* However often the task is interrupted, times out or loses its lease, and
\* whenever QQ answers: a part is shown once.
THEOREM NeverShownTwice == QSpec => []AtMostOnce
<1>1. QInv => AtMostOnce
    BY DEF QInv
<1> QED BY <1>1, AdapterInvariance, PTL

\* A part QQ has is delivered or still in the journal.
THEOREM NothingVanishes == QSpec => []AcceptedIsAccounted
<1>1. QInv => AcceptedIsAccounted
    BY DEF QInv, Fenced, SentIsFenced, AcceptedIsAccounted
<1> QED BY <1>1, AdapterInvariance, PTL

\* QQ shows the parts of a reply in order and without a hole, and what is booked
\* as delivered has been shown.
THEOREM ShownAsWritten == QSpec => []ShownInOrder
<1>1. ASSUME QInv PROVE ShownInOrder
    <2>1. \A q \in Parts : accepted[q] > 0 => part[q].attempt > 0
        BY <1>1 DEF QInv, IInv, SentIsAttempted, Fenced, SentIsFenced, Booked, JournalIsAttempted
    <2>2. \A p \in Parts : part[p].status = "delivered" => accepted[p] > 0
        BY <1>1 DEF QInv, Booked, ReceiptIsGenuine
    <2>3. \A p, q \in Parts : Before(p, q) /\ part[q].attempt > 0 => part[p].status = "delivered"
        BY <1>1 DEF QInv, IInv, AttemptedInOrder
    <2> QED BY <2>1, <2>2, <2>3 DEF ShownInOrder
<1> QED BY <1>1, AdapterInvariance, PTL
------------------------------------------------------------------------------
(* The messenger: what the user sees and what the plan says of it. *)

Known == {p \in Parts : part[p].status = "delivered"}
Fate  == [d \in Plans |-> IF plan[d].status \in Active THEN "open" ELSE plan[d].status]

\* A step of the messenger, or none that shows.
ChatStep == [Chat!ChatNext]_(Chat!chat)

\* What the repository says of a plan, the messenger may say of the reply.
FateIsHonest ==
    \A d \in Plans : /\ Fate[d] \in Chat!Verdicts
                     /\ Chat!Ended(Fate[d]) <=> plan[d].status \in Terminal
                     /\ Chat!Honest(d, Fate[d], Known)

LEMMA HonestFate == IInv => FateIsHonest
<1> SUFFICES ASSUME IInv, NEW d \in Plans
             PROVE  /\ Fate[d] \in Chat!Verdicts
                    /\ Chat!Ended(Fate[d]) <=> plan[d].status \in Terminal
                    /\ Chat!Honest(d, Fate[d], Known)
    BY DEF FateIsHonest
<1>1. plan[d].status \in Statuses
    BY DEF IInv, TypeOK, PlanRow
<1>2. /\ Fate[d] \in Chat!Verdicts
      /\ Chat!Ended(Fate[d]) <=> plan[d].status \in Terminal
    BY <1>1 DEF Fate, Statuses, Active, Terminal, Chat!Verdicts, Chat!Ended
<1>3. \A st \in Terminal : Fate[d] = st => plan[d].status = st
    BY DEF Fate, Active, Terminal
<1>4. PartsOf(d) = Chat!PartsOf(d)
    BY DEF PartsOf, Chat!PartsOf
<1>5. {p \in PartsOf(d) : part[p].status = "delivered"} = Known \cap PartsOf(d)
    BY DEF Known, PartsOf
<1>6. /\ plan[d].status = "delivered" => PartsOf(d) \cap Required \subseteq Known
      /\ plan[d].status = "cancelled" => ~(PartsOf(d) \subseteq Known)
      /\ plan[d].status = "failed" => ~(PartsOf(d) \cap Required \subseteq Known)
    BY <1>5 DEF IInv, VerdictMatchesParts
<1> QED BY <1>2, <1>3, <1>4, <1>6 DEF Chat!Honest, Terminal

\* How a method of the repository moves the verdicts.
LEMMA RepoMoves ==
    ASSUME VInv, [Next]_vars
    PROVE  /\ IInv' /\ VerdictKept /\ FateIsHonest'
           /\ \A d \in Plans : plan[d].status \in Statuses /\ plan'[d].status \in Statuses
<1>1. IInv /\ IInv'
    BY NextSafe DEF VInv
<1>2. UNCHANGED vars => VerdictKept
    BY DEF vars, VerdictKept
<1>3. VerdictKept
    BY <1>2, NextVerdicts
<1>4. FateIsHonest'
    BY <1>1, HonestFate, PTL
<1> QED BY <1>1, <1>3, <1>4 DEF IInv, TypeOK, PlanRow

\* A method that makes no part delivered writes a reply or concludes replies.
LEMMA NothingBooked ==
    ASSUME VInv, [Next]_vars, Keeps({}), UNCHANGED accepted
    PROVE  ChatStep
<1>1. IInv /\ VerdictKept /\ FateIsHonest'
    BY RepoMoves DEF VInv
<1>2. Known' = Known
    BY DEF Keeps, Known
<1>3. ASSUME NEW d \in Plans, plan[d].status = "absent",
             plan' = [plan EXCEPT ![d].status = "pending"]
      PROVE  Chat!Write(d)
    <2>1. \A e \in Plans : plan'[e].status = IF e = d THEN "pending" ELSE plan[e].status
        BY <1>1, <1>3 DEF IInv, TypeOK, PlanRow
    <2>2. Fate[d] = "absent" /\ Fate' = [Fate EXCEPT ![d] = "open"]
        BY <1>3, <2>1 DEF Fate, Active
    <2> QED BY <1>2, <2>2 DEF Chat!Write, Known, Fate
<1>4. ASSUME \A d \in Plans : plan'[d].status = "absent" <=> plan[d].status = "absent"
      PROVE  Chat!Conclude
    <2>1. ASSUME NEW d \in Plans, Fate'[d] # Fate[d]
          PROVE  /\ Fate[d] = "open" /\ Chat!Ended(Fate'[d])
                 /\ Chat!Honest(d, Fate'[d], Known)
        <3>1. plan[d].status \in Statuses /\ plan'[d].status \in Statuses
            BY RepoMoves
        <3>2. plan[d].status \in Terminal => plan'[d].status = plan[d].status
            BY <1>1 DEF VerdictKept, Keeps, PartsOf
        <3>3. plan[d].status \in Active /\ plan'[d].status \notin Active
            BY <1>4, <2>1, <3>1, <3>2 DEF Fate, Statuses
        <3>4. Fate[d] = "open" /\ plan'[d].status \in Terminal
            BY <1>4, <3>1, <3>3 DEF Fate, Statuses, Active
        <3> QED BY <1>1, <1>2, <3>4 DEF FateIsHonest
    <2>2. Fate' \in [Plans -> Chat!Verdicts]
        BY <1>1 DEF FateIsHonest, Fate
    <2> QED BY <1>2, <2>1, <2>2 DEF Chat!Conclude, Known, Fate
<1> QED BY <1>1, <1>3, <1>4, NextExists DEF ChatStep, Chat!ChatNext

\* A method that makes part p delivered, which was shown.
LEMMA Booking ==
    ASSUME VInv, [Next]_vars, UNCHANGED accepted,
           NEW p \in Parts, Keeps({p}), part'[p].status = "delivered",
           accepted[p] > 0, part[p].attempt > 0,
           \A d \in Plans : d # PlanOf[p] => plan'[d] = plan[d]
    PROVE  ChatStep
<1> DEFINE d == PlanOf[p]
<1>1. IInv /\ IInv' /\ VerdictKept /\ FateIsHonest' /\ d \in Plans
    BY RepoMoves, Typing DEF VInv
<1>2. CASE part[p].status = "delivered"
    <2>1. Keeps({})
        BY <1>2 DEF Keeps
    <2> QED BY <2>1, NothingBooked
<1>3. CASE part[p].status # "delivered"
    <2>1. p \notin Known /\ Known' = Known \cup {p}
        BY <1>3 DEF Keeps, Known
    <2>2. plan[d].status # "absent" /\ plan'[d].status # "absent"
        <3>1. part[p].status # "absent" /\ part'[p].status # "absent"
            BY <1>1, Typing DEF IInv, CreatedTogether
        <3> QED BY <1>1, <3>1 DEF IInv, CreatedTogether
    <2>3. plan[d].status \in Statuses /\ plan'[d].status \in Statuses
        BY <1>1, RepoMoves
    <2>4. Fate'[d] \in Chat!Verdicts /\ Chat!Honest(d, Fate'[d], Known')
        BY <1>1 DEF FateIsHonest
    <2>5. Chat!Ended(Fate'[d]) \/ (Fate'[d] = "open" /\ Fate[d] = "open")
        <3>1. CASE plan'[d].status \in Terminal
            BY <1>1, <3>1 DEF FateIsHonest
        <3>2. CASE plan'[d].status \in Active
            <4>1. plan[d].status \notin Terminal
                BY <1>1, <3>2 DEF VerdictKept, Active, Terminal
            <4>2. plan[d].status \in Active
                BY <2>2, <2>3, <4>1 DEF Statuses
            <4> QED BY <1>1, <3>2, <4>2 DEF Fate
        <3> QED BY <2>2, <2>3, <3>1, <3>2 DEF Statuses
    <2>6. Fate[d] = "delivered" => Fate'[d] = "delivered"
        <3>1. Fate[d] = "delivered" => plan[d].status = "delivered"
            BY <1>1 DEF Fate
        <3>2. plan'[d].status = "delivered" => Fate'[d] = "delivered"
            BY <1>1 DEF Fate, Active
        <3> QED BY <1>1, <3>1, <3>2 DEF VerdictKept
    <2>7. Fate' = [Fate EXCEPT ![d] = Fate'[d]]
        BY DEF Fate
    <2>8. UNCHANGED accepted /\ accepted[p] > 0
        OBVIOUS
    <2> HIDE DEF d
    <2>9. \E v \in Chat!Verdicts :
             /\ Chat!Ended(v) \/ (v = "open" /\ Fate[d] = "open")
             /\ Fate[d] = "delivered" => v = "delivered"
             /\ Chat!Honest(d, v, Known')
             /\ Fate' = [Fate EXCEPT ![d] = v]
        BY <2>4, <2>5, <2>6, <2>7
    <2>10. Chat!Book(p)
        BY <2>1, <2>8, <2>9 DEF Chat!Book, Known, Fate, d
    <2> QED BY <2>10 DEF ChatStep, Chat!ChatNext
<1> QED BY <1>2, <1>3

\* Steps in which the rows change without a delivery.
LEMMA RepoStepIsChatStep ==
    ASSUME VInv, RepoStep({}), UNCHANGED accepted
    PROVE  ChatStep
BY NothingBooked DEF RepoStep

LEMMA NothingShows ==
    ASSUME UNCHANGED <<rows, accepted>>
    PROVE  ChatStep
BY DEF rows, ChatStep, Chat!chat

\* A receipt or an acknowledgement that names a message derives one plan only.
LEMMA OnlyItsPlan ==
    ASSUME NEW p \in Parts,
           \/ \E m \in Messages : ReconcileReceipt(p, m)
           \/ \E l, verdict, m, lag, wait : AcknowledgeDeliveryPart(p, l, verdict, m, lag, wait)
    PROVE  \A d \in Plans : d # PlanOf[p] => plan'[d] = plan[d]
<1>1. ASSUME NEW table, Derive(table, {PlanOf[p]}, CancelFlags)
      PROVE  \A d \in Plans : d # PlanOf[p] => plan'[d] = plan[d]
    BY <1>1 DEF Derive
<1> QED BY <1>1 DEF ReconcileReceipt, AcknowledgeDeliveryPart

LEMMA ImportIsChatStep ==
    ASSUME QInv, VInv, NEW p \in Parts, ImportReceipt(p)
    PROVE  ChatStep
<1>1. /\ RepoStep({p}) /\ part'[p].status = "delivered"
      /\ journal[p] \in Messages /\ UNCHANGED accepted
    BY ImportIsRepoStep DEF QInv, Held, ImportsKnown, ImportReceipt, qq
<1>2. CASE Reconcilable(p, journal[p])
    <2>1. accepted[p] > 0 /\ part[p].attempt > 0
        BY <1>1, Names DEF QInv, Booked, ReceiptIsGenuine, JournalIsAttempted
    <2>2. \A d \in Plans : d # PlanOf[p] => plan'[d] = plan[d]
        BY <1>1, <1>2, OnlyItsPlan DEF ImportReceipt
    <2> QED BY <1>1, <2>1, <2>2, Booking DEF RepoStep
<1>3. CASE ~Reconcilable(p, journal[p])
    BY <1>1, <1>3, NothingShows DEF ImportReceipt
<1> QED BY <1>2, <1>3

LEMMA SettleIsChatStep ==
    ASSUME QInv, VInv, SettleDefer \/ SettleAcknowledge
    PROVE  ChatStep
<1>1. UNCHANGED accepted
    BY DEF SettleDefer, SettleAcknowledge, qq
<1>2. CASE RepoStep({})
    BY <1>1, <1>2, RepoStepIsChatStep
<1>3. CASE /\ SettleAcknowledge /\ job.outcome \in Messages
           /\ RepoStep({job.part}) /\ part'[job.part].status = "delivered"
    <2>1. Executing
        BY <1>3 DEF SettleAcknowledge, Executing
    <2>2. job.part \in Parts /\ accepted[job.part] > 0 /\ part[job.part].attempt > 0
        BY <1>3, <2>1 DEF QInv, Held, JobHeld, Booked, ReceiptIsGenuine, JournalIsAttempted
    <2>3. \A d \in Plans : d # PlanOf[job.part] => plan'[d] = plan[d]
        BY <1>3, <2>2, OnlyItsPlan DEF SettleAcknowledge
    <2> QED BY <1>1, <1>3, <2>2, <2>3, Booking DEF RepoStep
<1> QED BY <1>2, <1>3, SettleIsRepoStep

LEMMA AcceptIsChatStep ==
    ASSUME QInv, NEW p \in Parts, NEW m \in Messages, ProviderAccepts(p, m)
    PROVE  Chat!Show(p)
<1>1. accepted[p] = 0 /\ p \in wire /\ accepted \in [Parts -> 0..2]
    BY DEF QInv, QTypeOK, Fenced, UnansweredIsUnseen, ProviderAccepts
<1>2. accepted' = [accepted EXCEPT ![p] = 1] /\ UNCHANGED rows
    BY <1>1 DEF ProviderAccepts
<1>3. part[p].attempt > 0
    BY <1>1, Typing DEF QInv, IInv, SentIsAttempted, Fenced, SentIsFenced, Booked, JournalIsAttempted
<1>4. PlanOf[p] \in Plans /\ plan[PlanOf[p]].status # "absent"
    BY <1>3, Typing DEF QInv, IInv, CreatedTogether
<1>5. Fate[PlanOf[p]] # "absent"
    BY <1>4 DEF Fate
<1>6. \A q \in Chat!PartsOf(PlanOf[p]) : Ordinal[q] < Ordinal[p] => q \in Known
    BY <1>3 DEF QInv, IInv, AttemptedInOrder, Before, Chat!PartsOf, Known
<1>7. Known' = Known /\ Fate' = Fate
    BY <1>2 DEF rows, Known, Fate
<1> QED BY <1>1, <1>2, <1>5, <1>6, <1>7 DEF Chat!Show, Known, Fate

LEMMA EveryStepIsChatStep ==
    ASSUME QInv, VInv, [QNext]_qvars
    PROVE  ChatStep
<1>1. ASSUME NEW p \in Parts, NEW l \in Leases, ClaimPart(p, l)
      PROVE  ChatStep
    BY <1>1, ClaimIsRepoStep, RepoStepIsChatStep DEF ClaimPart, qq
<1>2. ASSUME Recover PROVE ChatStep
    BY <1>2, RecoverIsRepoStep, RepoStepIsChatStep DEF Recover, qq
<1>3. ASSUME Others PROVE ChatStep
    BY <1>3, OthersIsRepoStep, RepoStepIsChatStep DEF Others, qq
<1>4. ASSUME TimePasses PROVE ChatStep
    BY <1>4, TimeIsRepoStep, RepoStepIsChatStep DEF TimePasses, qq
<1>5. ASSUME NEW p \in Parts, NEW m \in Messages, ProviderAccepts(p, m)
      PROVE  ChatStep
    BY <1>5, AcceptIsChatStep DEF ChatStep, Chat!ChatNext
<1>6. ASSUME SchedulerStep, ~Recover, ~SettleDefer, ~SettleAcknowledge,
             \A p \in Parts, l \in Leases : ~ClaimPart(p, l)
      PROVE  UNCHANGED <<rows, accepted>>
    BY <1>6
    DEF SchedulerStep, ReconcileNothing, ListPlans, EndStep, PassOver, GuardPasses, GuardRefuses,
        SaveFence, BeforeSend, CallProvider, CallUncertain, SaveReceipt, DropFence, SettleRefused,
        Return, Goto, qq
<1>7. ASSUME SchedulerStep PROVE ChatStep
    BY <1>1, <1>2, <1>6, <1>7, SettleIsChatStep, NothingShows
<1>8. ASSUME \/ \E who \in {"step", "task"} : ReconcileStart(who)
             \/ ReconcileEnd \/ OpenJournal \/ OpenRaises \/ LockedRaises
             \/ \E p \in Parts : ProviderRefuses(p) \/ RequestLost(p)
             \/ Interrupt
             \/ UNCHANGED qvars
      PROVE  ChatStep
    <2>1. UNCHANGED <<rows, accepted>>
        BY <1>8
        DEF ReconcileStart, ReconcileEnd, OpenJournal, OpenRaises, LockedRaises, ProviderRefuses,
            RequestLost, Interrupt, Return, Goto, qvars, qq
    <2> QED BY <2>1, NothingShows
<1> QED BY <1>3, <1>4, <1>5, <1>7, <1>8, ImportIsChatStep DEF QNext, ReceiptStep

\* The scheduler with its leases, the journal with its fences, the receipt task and an
\* unreliable QQ implement the Messenger, with any interruptions and any interleaving.
THEOREM MessengerIsImplemented == QSpec => ImplementsMessenger
<1>1. QInit => Chat!ChatInit
    <2> SUFFICES ASSUME QInit PROVE Chat!ChatInit
        OBVIOUS
    <2>1. /\ \A d \in Plans : plan[d].status = "absent"
          /\ \A p \in Parts : part[p].status = "absent"
        BY DEF QInit, Init, Absent
    <2> QED BY <2>1 DEF QInit, Chat!ChatInit, Active
<1>2. QInv /\ VInv /\ [QNext]_qvars => [Chat!ChatNext]_(Chat!chat)
    BY EveryStepIsChatStep DEF ChatStep
<1> QED
    BY <1>1, <1>2, AdapterInvariance, AdapterUsesRepository, VerdictInvariance, PTL
    DEF QSpec, ImplementsMessenger, Chat!ChatSpec

==============================================================================
