----------------------- MODULE ChannelDelivery_proofs -----------------------
(***************************************************************************)
(* The safety of ChannelDelivery for every set of plans, parts, leases and *)
(* messages.  Every method first rewrites rows of the parts table and then *)
(* derives the plan, so the argument has two halves: the rows a method     *)
(* hands over are good (RowsStep), and deriving good rows keeps IInv.      *)
(***************************************************************************)
EXTENDS ChannelDelivery, TLAPS, WellFoundedInduction

\* Whoever is or was sent has been attempted.
SentIsAttempted ==
    \A p \in Parts : part[p].status \in {"sending", "delivered", "failed"}
                     => part[p].attempt > 0

\* A plan exists exactly when its parts do, and nobody touched a part before.
CreatedTogether ==
    \A p \in Parts : /\ part[p].status = "absent" <=> plan[PlanOf[p]].status = "absent"
                     /\ part[p].status = "absent" => part[p].attempt = 0

\* A provider message is only known of a part that was sent.
UnsentHasNoMessage ==
    \A p \in Parts : part[p].status \in Active \cup {"absent"} => part[p].message = NoMessage

IInv ==
    /\ TypeOK
    /\ UnsentHasNoMessage
    /\ CreatedTogether
    /\ SentIsAttempted
    /\ TerminalPlanHasNoActivePart
    /\ OneSendingPart
    /\ AttemptedInOrder
    /\ VerdictMatchesParts

\* What a method may do to the rows of the plans in D before it derives them.
RowsStep(rows, D) ==
    /\ rows \in [Parts -> PartRow]
    /\ D \subseteq Plans
    /\ \A d \in D : plan[d].status # "absent"
    /\ \A p \in Parts :
          /\ PlanOf[p] \notin D => rows[p] = part[p]
          /\ rows[p].status = "absent" => rows[p] = part[p]
          /\ rows[p].status \in Active => part[p].status \in Active /\ rows[p].message = NoMessage
          /\ rows[p].status \in {"sending", "delivered", "failed"} => rows[p].attempt > 0
          /\ part[p].status = "delivered" => rows[p].status = "delivered"
          /\ part[p].message # NoMessage => rows[p].message = part[p].message
          /\ rows[p].status = "sending" /\ plan[PlanOf[p]].cancelRequested
             => part[p].status = "sending" /\ rows[p].lease = part[p].lease
    /\ \A p, q \in Parts :
          /\ Before(p, q) /\ rows[q].attempt > 0 => rows[p].status = "delivered"
          /\ PlanOf[p] = PlanOf[q] /\ rows[p].status = "sending" /\ rows[q].status = "sending"
             => p = q
          /\ /\ PlanOf[p] = PlanOf[q]
             /\ part[p].status = "sending" /\ part[p].left > 0
             /\ rows[q].status = "sending"
             => rows[q].lease = part[p].lease

\* What a method may not do to a verdict: only a receipt changes a row that is settled,
\* a row is cancelled on request, and only the plan of a proactive intent learns of a
\* request after its verdict.
Settles(rows, D, cancel) ==
    /\ \A p \in Parts :
          /\ part[p].status \in Terminal => rows[p].status \in {part[p].status, "delivered"}
          /\ rows[p].status = "cancelled" => part[p].status = "cancelled" \/ cancel[PlanOf[p]]
    /\ \A d \in D : cancel[d] => \/ plan[d].cancelRequested
                                 \/ plan[d].status \in Active \/ d \in ProactivePlans

------------------------------------------------------------------------------
(* The derivation. *)

LEMMA DerivedStatusType ==
    ASSUME NEW rows, NEW d, NEW cancel
    PROVE  DerivedStatus(rows, d, cancel) \in Active \cup Terminal
BY DEF DerivedStatus, Active, Terminal

LEMMA ReleasedRow ==
    ASSUME NEW r \in PartRow, NEW st \in Statuses
    PROVE  /\ Released(r, st) \in PartRow
           /\ Released(r, st).status = st /\ Released(r, st).lease = NoLease
           /\ Released(r, st).attempt = r.attempt /\ Released(r, st).message = r.message
BY DEF PartRow, Released

\* A cascade settles active parts and changes no other row.
LEMMA CascadeRows ==
    ASSUME NEW rows \in [Parts -> PartRow], NEW D, NEW cancel
    PROVE  LET new == Cascade(rows, D, cancel)
               Ends(p) == /\ PlanOf[p] \in D
                          /\ DerivedStatus(rows, PlanOf[p], cancel[PlanOf[p]]) \in Terminal
           IN  /\ new \in [Parts -> PartRow]
               /\ \A p \in Parts :
                    \/ new[p] = rows[p]
                    \/ /\ rows[p].status \in Active /\ new[p].status = "cancelled"
                       /\ new[p].attempt = rows[p].attempt
                       /\ new[p].message = rows[p].message
                       /\ Ends(p)
               /\ \A p \in Parts : Ends(p) => new[p].status \notin Active
<1> DEFINE new == Cascade(rows, D, cancel)
           Ends(p) == /\ PlanOf[p] \in D
                      /\ DerivedStatus(rows, PlanOf[p], cancel[PlanOf[p]]) \in Terminal
<1>1. \A p \in Parts : new[p] = IF Ends(p) /\ rows[p].status \in Active
                                THEN Released(rows[p], "cancelled") ELSE rows[p]
  BY DEF Cascade
<1>2. \A p \in Parts : rows[p] \in PartRow
  OBVIOUS
<1>3. "cancelled" \in Statuses /\ "cancelled" \notin Active
  BY DEF Statuses, Terminal, Active
<1>4. \A p \in Parts :
         /\ Released(rows[p], "cancelled") \in PartRow
         /\ Released(rows[p], "cancelled").status = "cancelled"
         /\ Released(rows[p], "cancelled").attempt = rows[p].attempt
         /\ Released(rows[p], "cancelled").message = rows[p].message
  BY <1>2, <1>3, ReleasedRow
<1>5. new \in [Parts -> PartRow]
  BY <1>1, <1>2, <1>4 DEF Cascade
<1> HIDE DEF Ends, new
<1>6. /\ \A p \in Parts :
           \/ new[p] = rows[p]
           \/ /\ rows[p].status \in Active /\ new[p].status = "cancelled"
              /\ new[p].attempt = rows[p].attempt
              /\ new[p].message = rows[p].message
              /\ Ends(p)
      /\ \A p \in Parts : Ends(p) => new[p].status \notin Active
  BY <1>1, <1>3, <1>4
<1>7. QED
  BY <1>5, <1>6 DEF Ends, new

\* What one derivation tells about the new rows and the new plans.
LEMMA DeriveFacts ==
    ASSUME IInv, NEW rows, NEW D, RowsStep(rows, D),
           NEW cancel \in [Plans -> BOOLEAN], Derive(rows, D, cancel)
    PROVE  /\ part' \in [Parts -> PartRow]
           /\ \A p \in Parts :
                \/ part'[p] = rows[p]
                \/ /\ rows[p].status \in Active /\ part'[p].status = "cancelled"
                   /\ part'[p].attempt = rows[p].attempt
                   /\ part'[p].message = rows[p].message
                   /\ PlanOf[p] \in D
           /\ \A p \in Parts : PlanOf[p] \notin D => part'[p] = part[p]
           /\ \A p \in Parts : PlanOf[p] \in D /\ plan'[PlanOf[p]].status \in Terminal
                               => part'[p].status \notin Active
           /\ \A p \in Parts : PlanOf[p] \in D /\ plan'[PlanOf[p]].status \notin Terminal
                               => part'[p] = rows[p]
           /\ \A d \in Plans \ D : plan'[d] = plan[d]
           /\ \A d \in D : /\ plan'[d].status = DerivedStatus(rows, d, cancel[d])
                           /\ plan'[d].cancelRequested = cancel[d]
                           /\ plan'[d].lease = MirroredLease(rows, d, plan'[d].status)
           /\ DOMAIN plan' = Plans
           /\ plan' = [d \in Plans |-> plan'[d]]
           /\ \A d \in D : plan'[d] = [status |-> plan'[d].status,
                                       cancelRequested |-> plan'[d].cancelRequested,
                                       lease |-> plan'[d].lease]
<1>1. rows \in [Parts -> PartRow] /\ D \subseteq Plans
      /\ \A p \in Parts : PlanOf[p] \notin D => rows[p] = part[p]
  BY DEF RowsStep
<1>2. /\ \A d \in Plans \ D : plan'[d] = plan[d]
      /\ \A d \in D : /\ plan'[d].status = DerivedStatus(rows, d, cancel[d])
                      /\ plan'[d].cancelRequested = cancel[d]
                      /\ plan'[d].lease = MirroredLease(rows, d, plan'[d].status)
      /\ DOMAIN plan' = Plans
      /\ plan' = [d \in Plans |-> plan'[d]]
      /\ \A d \in D : plan'[d] = [status |-> plan'[d].status,
                                  cancelRequested |-> plan'[d].cancelRequested,
                                  lease |-> plan'[d].lease]
  BY <1>1 DEF Derive
<1>3. part' = Cascade(rows, D, cancel)
  BY DEF Derive
<1>4. PlanOf \in [Parts -> Plans]
  BY ShapeAssumption
<1>5. \A p \in Parts : PlanOf[p] \in D
         => DerivedStatus(rows, PlanOf[p], cancel[PlanOf[p]]) = plan'[PlanOf[p]].status
  BY <1>2, <1>4
<1>6. /\ part' \in [Parts -> PartRow]
      /\ \A p \in Parts :
           \/ part'[p] = rows[p]
           \/ /\ rows[p].status \in Active /\ part'[p].status = "cancelled"
              /\ part'[p].attempt = rows[p].attempt
              /\ part'[p].message = rows[p].message
              /\ PlanOf[p] \in D
              /\ DerivedStatus(rows, PlanOf[p], cancel[PlanOf[p]]) \in Terminal
      /\ \A p \in Parts :
           /\ PlanOf[p] \in D
           /\ DerivedStatus(rows, PlanOf[p], cancel[PlanOf[p]]) \in Terminal
           => part'[p].status \notin Active
  BY <1>1, <1>3, CascadeRows
<1>7. QED
  BY <1>1, <1>2, <1>5, <1>6

\* The parent shows the lease of its only sending part.
LEMMA MirrorFacts ==
    ASSUME NEW rows \in [Parts -> PartRow], NEW d \in Plans, NEW p \in Parts,
           PlanOf[p] = d, rows[p].status = "sending",
           \A q \in Parts : PlanOf[q] = d /\ rows[q].status = "sending" => q = p
    PROVE  MirroredLease(rows, d, "sending") = rows[p].lease
<1>1. \A q \in PartsOf(d) : Before(q, p) => rows[q].status # "sending"
  <2> SUFFICES ASSUME NEW q \in PartsOf(d), Before(q, p), rows[q].status = "sending"
               PROVE  FALSE
    OBVIOUS
  <2>1. q \in Parts /\ PlanOf[q] = d
    BY DEF PartsOf
  <2>2. q = p
    BY <2>1
  <2>3. Ordinal[p] \in Nat
    BY ShapeAssumption
  <2> QED BY <2>2, <2>3 DEF Before
<1>2. p \in PartsOf(d)
  BY DEF PartsOf
<1> DEFINE First(x) == /\ rows[x].status = "sending"
                       /\ \A q \in PartsOf(d) : Before(q, x) => rows[q].status # "sending"
           first == CHOOSE x \in PartsOf(d) : First(x)
<1>3. First(p)
  BY <1>1
<1>4. first \in PartsOf(d) /\ First(first)
  <2> HIDE DEF First
  <2> QED BY <1>2, <1>3
<1>5. first = p
  BY <1>4 DEF PartsOf
<1>6. QED
  BY <1>5 DEF MirroredLease

LEMMA DeriveType ==
    ASSUME IInv, NEW rows, NEW D, RowsStep(rows, D),
           NEW cancel \in [Plans -> BOOLEAN], Derive(rows, D, cancel)
    PROVE  TypeOK'
<1> USE DeriveFacts
<1>1. rows \in [Parts -> PartRow] /\ D \subseteq Plans
  BY DEF RowsStep
<1>2. \A d \in D : plan'[d] \in PlanRow
  <2> SUFFICES ASSUME NEW d \in D PROVE plan'[d] \in PlanRow
    OBVIOUS
  <2>1. plan'[d].status \in Active \cup Terminal
    BY DerivedStatusType
  <2>2. plan'[d].cancelRequested \in BOOLEAN
    BY <1>1
  <2>3. plan'[d].lease \in Leases \cup {NoLease}
    <3>0. plan'[d].lease = MirroredLease(rows, d, plan'[d].status)
      OBVIOUS
    <3>1. CASE plan'[d].status # "sending"
      <4>1. MirroredLease(rows, d, plan'[d].status) = NoLease
        BY <3>1, Zenon DEF MirroredLease
      <4> QED BY <3>0, <4>1
    <3>2. CASE plan'[d].status = "sending"
      <4>1. DerivedStatus(rows, d, cancel[d]) = "sending"
        BY <3>2
      <4>2. PICK p \in PartsOf(d) : rows[p].status = "sending"
        BY <4>1 DEF DerivedStatus
      <4>3. p \in Parts /\ PlanOf[p] = d /\ d \in Plans
        BY <1>1 DEF PartsOf
      <4>4. \A q \in Parts : PlanOf[q] = d /\ rows[q].status = "sending" => q = p
        BY <4>2, <4>3 DEF RowsStep
      <4>5. MirroredLease(rows, d, "sending") = rows[p].lease
        BY <1>1, <4>2, <4>3, <4>4, MirrorFacts
      <4>6. rows[p].lease \in Leases \cup {NoLease}
        BY <1>1, <4>3 DEF PartRow
      <4> QED BY <3>2, <4>5, <4>6
    <3> QED BY <3>1, <3>2
  <2>4. plan'[d] = [status |-> plan'[d].status, cancelRequested |-> plan'[d].cancelRequested,
                    lease |-> plan'[d].lease]
    BY DEF Derive
  <2>5. plan'[d].status \in Statuses
    BY <2>1 DEF Statuses
  <2> HIDE DeriveFacts
  <2> QED BY <2>2, <2>3, <2>4, <2>5 DEF PlanRow
<1>3. \A d \in Plans : plan'[d] \in PlanRow
  BY <1>2 DEF IInv, TypeOK
<1>4. QED
  BY <1>3 DEF TypeOK

\* The heart of the argument: deriving good rows re-establishes the invariant.
LEMMA DeriveKeepsIInv ==
    ASSUME IInv, NEW rows, NEW D, RowsStep(rows, D),
           NEW cancel \in [Plans -> BOOLEAN],
           \A d \in Plans : plan[d].cancelRequested => cancel[d],
           Derive(rows, D, cancel)
    PROVE  IInv'
<1> USE DeriveFacts
<1>0. /\ rows \in [Parts -> PartRow] /\ D \subseteq Plans
      /\ PlanOf \in [Parts -> Plans]
  BY ShapeAssumption DEF RowsStep
<1>1. TypeOK'
  BY DeriveType
<1>2. CreatedTogether'
  <2> SUFFICES ASSUME NEW p \in Parts
               PROVE  /\ part'[p].status = "absent" <=> plan'[PlanOf[p]].status = "absent"
                      /\ part'[p].status = "absent" => part'[p].attempt = 0
    BY DEF CreatedTogether
  <2>1. CASE PlanOf[p] \notin D
    <3>1. part'[p] = part[p] /\ plan'[PlanOf[p]] = plan[PlanOf[p]]
      BY <1>0, <2>1
    <3> QED BY <3>1 DEF IInv, CreatedTogether
  <2>2. CASE PlanOf[p] \in D
    <3>1. plan'[PlanOf[p]].status # "absent"
      BY <2>2, DerivedStatusType DEF Active, Terminal
    <3>2. rows[p].status # "absent"
      BY <2>2 DEF RowsStep, IInv, CreatedTogether
    <3> QED BY <3>1, <3>2
  <2> QED BY <2>1, <2>2
<1>3. SentIsAttempted'
  <2> SUFFICES ASSUME NEW p \in Parts, part'[p].status \in {"sending", "delivered", "failed"}
               PROVE  part'[p].attempt > 0
    BY DEF SentIsAttempted
  <2>1. part'[p] = rows[p]
    OBVIOUS
  <2> QED BY <2>1 DEF RowsStep
<1>4. TerminalPlanHasNoActivePart'
  <2> SUFFICES ASSUME NEW p \in Parts, plan'[PlanOf[p]].status \in Terminal
               PROVE  part'[p].status \notin Active
    BY DEF TerminalPlanHasNoActivePart
  <2>1. CASE PlanOf[p] \notin D
    <3>1. part'[p] = part[p] /\ plan'[PlanOf[p]] = plan[PlanOf[p]]
      BY <1>0, <2>1
    <3> QED BY <3>1 DEF IInv, TerminalPlanHasNoActivePart
  <2>2. CASE PlanOf[p] \in D
    BY <2>2
  <2> QED BY <2>1, <2>2
<1>5. OneSendingPart'
  <2> SUFFICES ASSUME NEW p \in Parts, NEW q \in Parts, PlanOf[p] = PlanOf[q],
                      part'[p].status = "sending"
               PROVE  /\ part'[q].status = "sending" => p = q
                      /\ plan'[PlanOf[p]].status = "sending"
                      /\ plan'[PlanOf[p]].lease = part'[p].lease
    BY DEF OneSendingPart
  <2>1. CASE PlanOf[p] \notin D
    <3>1. /\ part'[p] = part[p] /\ part'[q] = part[q]
          /\ plan'[PlanOf[p]] = plan[PlanOf[p]]
      BY <1>0, <2>1
    <3> QED BY <3>1 DEF IInv, OneSendingPart
  <2>2. CASE PlanOf[p] \in D
    <3>1. part'[p] = rows[p] /\ rows[p].status = "sending"
      OBVIOUS
    <3>2. \A x \in Parts : PlanOf[x] = PlanOf[p] /\ rows[x].status = "sending" => x = p
      BY <3>1 DEF RowsStep
    <3>3. part'[q].status = "sending" => rows[q].status = "sending"
      OBVIOUS
    <3>4. plan'[PlanOf[p]].status \notin Terminal
      BY <2>2, <3>1 DEF Active
    <3>5. p \in PartsOf(PlanOf[p])
      BY DEF PartsOf
    <3>6. plan'[PlanOf[p]].status = "sending"
      <4>1. plan'[PlanOf[p]].status = DerivedStatus(rows, PlanOf[p], cancel[PlanOf[p]])
        BY <2>2
      <4> QED BY <3>1, <3>4, <3>5, <4>1 DEF DerivedStatus, Terminal
    <3>7. MirroredLease(rows, PlanOf[p], "sending") = rows[p].lease
      BY <1>0, <3>1, <3>2, MirrorFacts
    <3> QED BY <2>2, <3>1, <3>2, <3>3, <3>6, <3>7
  <2> QED BY <2>1, <2>2
<1>6. AttemptedInOrder'
  <2> SUFFICES ASSUME NEW p \in Parts, NEW q \in Parts, Before(p, q), part'[q].attempt > 0
               PROVE  part'[p].status = "delivered"
    BY DEF AttemptedInOrder
  <2>1. rows[q].attempt > 0
    OBVIOUS
  <2>2. rows[p].status = "delivered"
    BY <2>1 DEF RowsStep
  <2> QED BY <2>2 DEF Active
<1>7. VerdictMatchesParts'
  <2> SUFFICES ASSUME NEW d \in Plans
               PROVE  LET delivered == {p \in PartsOf(d) : part'[p].status = "delivered"}
                      IN  /\ plan'[d].status = "delivered" => PartsOf(d) \cap Required \subseteq delivered
                          /\ plan'[d].status = "cancelled" => plan'[d].cancelRequested /\ delivered # PartsOf(d)
                          /\ plan'[d].status = "failed" => ~(PartsOf(d) \cap Required \subseteq delivered)
    BY DEF VerdictMatchesParts
  <2>0. \A p \in PartsOf(d) : p \in Parts /\ PlanOf[p] = d
    BY DEF PartsOf
  <2>1. CASE d \notin D
    <3>1. plan'[d] = plan[d] /\ \A p \in PartsOf(d) : part'[p] = part[p]
      BY <2>0, <2>1
    <3> QED BY <3>1 DEF IInv, VerdictMatchesParts
  <2>2. CASE d \in D
    <3>1. \A p \in PartsOf(d) : part'[p].status = "delivered" <=> rows[p].status = "delivered"
      BY <2>0 DEF Active
    <3>2. plan'[d].status = DerivedStatus(rows, d, cancel[d]) /\ plan'[d].cancelRequested = cancel[d]
      BY <2>2
    <3>3. DerivedStatus(rows, d, cancel[d]) = "delivered"
             => \A p \in PartsOf(d) \cap Required : rows[p].status = "delivered"
      BY DEF DerivedStatus
    <3>4. DerivedStatus(rows, d, cancel[d]) = "cancelled"
             => cancel[d] /\ \E p \in PartsOf(d) : rows[p].status # "delivered"
      BY DEF DerivedStatus
    <3>5. DerivedStatus(rows, d, cancel[d]) = "failed"
             => \E p \in PartsOf(d) \cap Required : rows[p].status # "delivered"
      BY DEF DerivedStatus
    <3>6. cancel[d] \in BOOLEAN
      OBVIOUS
    <3> QED BY <3>1, <3>2, <3>3, <3>4, <3>5, <3>6
  <2> QED BY <2>1, <2>2
<1>8. UnsentHasNoMessage'
  <2> SUFFICES ASSUME NEW p \in Parts, part'[p].status \in Active \cup {"absent"}
               PROVE  part'[p].message = NoMessage
    BY DEF UnsentHasNoMessage
  <2>1. part'[p] = rows[p]
    BY DEF Active
  <2>2. rows[p].status = "absent" => rows[p] = part[p]
    BY DEF RowsStep
  <2>3. rows[p].status \in Active => rows[p].message = NoMessage
    BY DEF RowsStep
  <2> QED BY <2>1, <2>2, <2>3 DEF IInv, UnsentHasNoMessage
<1>9. QED
  BY <1>1, <1>2, <1>3, <1>4, <1>5, <1>6, <1>7, <1>8 DEF IInv

\* What the action properties ask of one step.
StepPromise ==
    /\ \A p \in Parts :
          /\ part[p].status = "delivered" => part'[p].status = "delivered"
          /\ part[p].message # NoMessage => part'[p].message = part[p].message
    /\ \A p \in Parts :
          plan[PlanOf[p]].cancelRequested /\ part'[p].status = "sending"
          => part[p].status = "sending" /\ part'[p].lease = part[p].lease
    /\ \A p, q \in Parts :
          /\ PlanOf[p] = PlanOf[q]
          /\ part[p].status = "sending" /\ part[p].left > 0
          /\ part'[q].status = "sending"
          => part'[q].lease = part[p].lease

\* A step that derives the plans in D from good rows.
DeriveStep ==
    \E rows \in [Parts -> PartRow], D \in SUBSET Plans, cancel \in [Plans -> BOOLEAN] :
        /\ RowsStep(rows, D)
        /\ Settles(rows, D, cancel)
        /\ \A d \in Plans : plan[d].cancelRequested => cancel[d]
        /\ Derive(rows, D, cancel)

LEMMA DeriveStepIsSafe ==
    ASSUME IInv, DeriveStep
    PROVE  IInv' /\ StepPromise
<1> PICK rows \in [Parts -> PartRow], D \in SUBSET Plans, cancel \in [Plans -> BOOLEAN] :
        /\ RowsStep(rows, D)
        /\ Settles(rows, D, cancel)
        /\ \A d \in Plans : plan[d].cancelRequested => cancel[d]
        /\ Derive(rows, D, cancel)
  BY DEF DeriveStep
<1>1. IInv'
  BY DeriveKeepsIInv
<1>2. \A p \in Parts :
         \/ part'[p] = rows[p]
         \/ /\ rows[p].status \in Active /\ part'[p].status = "cancelled"
            /\ part'[p].message = rows[p].message
  BY DeriveFacts
<1>3. StepPromise
  <2>1. ASSUME NEW p \in Parts
        PROVE  /\ part[p].status = "delivered" => part'[p].status = "delivered"
               /\ part[p].message # NoMessage => part'[p].message = part[p].message
               /\ plan[PlanOf[p]].cancelRequested /\ part'[p].status = "sending"
                  => part[p].status = "sending" /\ part'[p].lease = part[p].lease
    BY <1>2 DEF RowsStep, Active
  <2>2. ASSUME NEW p \in Parts, NEW q \in Parts, PlanOf[p] = PlanOf[q],
               part[p].status = "sending", part[p].left > 0, part'[q].status = "sending"
        PROVE  part'[q].lease = part[p].lease
    BY <1>2, <2>2 DEF RowsStep
  <2> QED BY <2>1, <2>2 DEF StepPromise
<1>4. QED
  BY <1>1, <1>3

------------------------------------------------------------------------------
(* The rows each method hands over. *)

LEMMA FlagsType ==
    ASSUME IInv
    PROVE  /\ CancelFlags \in [Plans -> BOOLEAN]
           /\ \A d \in Plans : CancelFlags[d] = plan[d].cancelRequested
BY DEF IInv, TypeOK, PlanRow, CancelFlags

\* A method that rewrites the single row p.
LEMMA OneRow ==
    ASSUME IInv, NEW p \in Parts, NEW r \in PartRow,
           part[p].status # "absent", r.status # "absent",
           r.status \in Active => part[p].status \in Active /\ r.message = NoMessage,
           r.status \in {"sending", "delivered", "failed"} => r.attempt > 0,
           part[p].status = "delivered" => r.status = "delivered",
           part[p].message # NoMessage => r.message = part[p].message,
           r.attempt > 0 => \A q \in Parts : Before(q, p) => part[q].status = "delivered",
           r.status = "sending" =>
              /\ plan[PlanOf[p]].cancelRequested
                 => part[p].status = "sending" /\ r.lease = part[p].lease
              /\ \A q \in Parts : PlanOf[q] = PlanOf[p] /\ part[q].status = "sending" =>
                    q = p /\ (part[q].left > 0 => r.lease = part[q].lease)
    PROVE  RowsStep([part EXCEPT ![p] = r], {PlanOf[p]})
<1> DEFINE rows == [part EXCEPT ![p] = r]
<1>1. part \in [Parts -> PartRow] /\ PlanOf[p] \in Plans
  BY ShapeAssumption DEF IInv, TypeOK
<1>2. /\ rows \in [Parts -> PartRow]
      /\ rows[p] = r /\ \A q \in Parts : q # p => rows[q] = part[q]
  BY <1>1
<1>3. plan[PlanOf[p]].status # "absent"
  BY DEF IInv, CreatedTogether
<1> HIDE DEF rows
<1>4. ASSUME NEW x \in Parts
      PROVE  /\ PlanOf[x] \notin {PlanOf[p]} => rows[x] = part[x]
             /\ rows[x].status = "absent" => rows[x] = part[x]
             /\ rows[x].status \in Active => part[x].status \in Active /\ rows[x].message = NoMessage
             /\ rows[x].status \in {"sending", "delivered", "failed"} => rows[x].attempt > 0
             /\ part[x].status = "delivered" => rows[x].status = "delivered"
             /\ part[x].message # NoMessage => rows[x].message = part[x].message
             /\ rows[x].status = "sending" /\ plan[PlanOf[x]].cancelRequested
                => part[x].status = "sending" /\ rows[x].lease = part[x].lease
  <2>1. CASE x = p
    BY <1>2, <2>1
  <2>2. CASE x # p
    BY <1>2, <2>2 DEF IInv, SentIsAttempted, UnsentHasNoMessage
  <2> QED BY <2>1, <2>2
<1>5. ASSUME NEW x \in Parts, NEW y \in Parts
      PROVE  /\ Before(x, y) /\ rows[y].attempt > 0 => rows[x].status = "delivered"
             /\ PlanOf[x] = PlanOf[y] /\ rows[x].status = "sending" /\ rows[y].status = "sending"
                => x = y
             /\ /\ PlanOf[x] = PlanOf[y]
                /\ part[x].status = "sending" /\ part[x].left > 0
                /\ rows[y].status = "sending"
                => rows[y].lease = part[x].lease
  <2>1. Before(x, y) /\ rows[y].attempt > 0 => part[x].status = "delivered"
    BY <1>2 DEF IInv, AttemptedInOrder
  <2>2. PlanOf[x] = PlanOf[y] /\ rows[x].status = "sending" /\ rows[y].status = "sending"
        => x = y
    BY <1>2 DEF IInv, OneSendingPart
  <2>3. /\ PlanOf[x] = PlanOf[y]
        /\ part[x].status = "sending" /\ part[x].left > 0
        /\ rows[y].status = "sending"
        => rows[y].lease = part[x].lease
    BY <1>2 DEF IInv, OneSendingPart
  <2> QED BY <1>4, <2>1, <2>2, <2>3
<1>6. RowsStep(rows, {PlanOf[p]})
  BY <1>1, <1>2, <1>3, <1>4, <1>5 DEF RowsStep
<1>7. QED
  BY <1>6 DEF rows

\* A method that settles or hands back active parts of the plans in D.
LEMMA ManyRows ==
    ASSUME IInv, NEW rows \in [Parts -> PartRow], NEW D \in SUBSET Plans,
           \A d \in D : plan[d].status # "absent",
           \A p \in Parts :
              \/ rows[p] = part[p]
              \/ /\ PlanOf[p] \in D
                 /\ part[p].status \in Active
                 /\ rows[p].status \in {"pending", "cancelled"}
                 /\ rows[p].attempt = part[p].attempt
                 /\ rows[p].message = part[p].message
    PROVE  RowsStep(rows, D)
<1>1. ASSUME NEW x \in Parts
      PROVE  /\ PlanOf[x] \notin D => rows[x] = part[x]
             /\ rows[x].status = "absent" => rows[x] = part[x]
             /\ rows[x].status \in Active => part[x].status \in Active /\ rows[x].message = NoMessage
             /\ rows[x].status \in {"sending", "delivered", "failed"} => rows[x].attempt > 0
             /\ part[x].status = "delivered" => rows[x].status = "delivered"
             /\ part[x].message # NoMessage => rows[x].message = part[x].message
             /\ rows[x].status = "sending" /\ plan[PlanOf[x]].cancelRequested
                => part[x].status = "sending" /\ rows[x].lease = part[x].lease
  BY DEF IInv, SentIsAttempted, UnsentHasNoMessage, Active
<1>2. ASSUME NEW x \in Parts, NEW y \in Parts
      PROVE  /\ Before(x, y) /\ rows[y].attempt > 0 => rows[x].status = "delivered"
             /\ PlanOf[x] = PlanOf[y] /\ rows[x].status = "sending" /\ rows[y].status = "sending"
                => x = y
             /\ /\ PlanOf[x] = PlanOf[y]
                /\ part[x].status = "sending" /\ part[x].left > 0
                /\ rows[y].status = "sending"
                => rows[y].lease = part[x].lease
  <2>1. /\ rows[x].status = "sending" => rows[x] = part[x]
        /\ rows[y].status = "sending" => rows[y] = part[y]
        /\ rows[y].attempt = part[y].attempt
        /\ part[x].status = "delivered" => rows[x].status = "delivered"
    BY <1>1
  <2> QED BY <2>1 DEF IInv, AttemptedInOrder, OneSendingPart
<1>3. QED
  BY <1>1, <1>2 DEF RowsStep

LEMMA Typing ==
    ASSUME IInv
    PROVE  /\ part \in [Parts -> PartRow]
           /\ \A p \in Parts :
                 /\ part[p] \in PartRow /\ PlanOf[p] \in Plans
                 /\ part[p].status \in Statuses
                 /\ part[p].attempt \in 0..AttemptCap
                 /\ part[p].lease \in Leases \cup {NoLease}
                 /\ part[p].left \in Int /\ part[p].wait \in Nat
                 /\ part[p].message \in Messages \cup {NoMessage}
BY ShapeAssumption DEF IInv, TypeOK, PartRow

LEMMA IsDeriveStep ==
    ASSUME IInv, NEW rows \in [Parts -> PartRow], NEW D \in SUBSET Plans, RowsStep(rows, D),
           NEW cancel \in [Plans -> BOOLEAN], Settles(rows, D, cancel),
           \A d \in Plans : plan[d].cancelRequested => cancel[d],
           Derive(rows, D, cancel)
    PROVE  DeriveStep
BY DEF DeriveStep

\* A method that requests nothing: a row is settled by its owner, by a receipt, or by the
\* cancellation that was requested before.
LEMMA OwnSettles ==
    ASSUME IInv, NEW rows, NEW D \in SUBSET Plans,
           \A p \in Parts :
              \/ rows[p].status \in {part[p].status, "delivered"}
              \/ /\ part[p].status \in Active
                 /\ rows[p].status = "cancelled" => plan[PlanOf[p]].cancelRequested
    PROVE  Settles(rows, D, CancelFlags)
<1>1. \A p \in Parts : CancelFlags[PlanOf[p]] = plan[PlanOf[p]].cancelRequested
  BY Typing, FlagsType
<1>2. \A d \in D : CancelFlags[d] = plan[d].cancelRequested
  BY FlagsType
<1> QED
  BY <1>1, <1>2 DEF Settles, Active, Terminal

\* A method that requests the cancellation of the plans whose rows it cancels.
LEMMA RequestSettles ==
    ASSUME NEW rows, NEW D \in SUBSET Plans, NEW cancel,
           \A p \in Parts : \/ rows[p] = part[p]
                            \/ part[p].status \in Active /\ cancel[PlanOf[p]],
           \A d \in D : plan[d].status \in Active \/ d \in ProactivePlans
    PROVE  Settles(rows, D, cancel)
BY DEF Settles, Active, Terminal

LEMMA ClaimIsDeriveStep ==
    ASSUME IInv, NEW p \in Parts, NEW l \in Leases, NEW lag \in Lag,
           ClaimNextDeliveryPart(p, l, lag)
    PROVE  DeriveStep
<1> DEFINE renewal == part[p].status = "sending" /\ part[p].lease = l
           attempt == IF renewal \/ part[p].attempt = AttemptCap
                      THEN part[p].attempt ELSE part[p].attempt + 1
           row == [status |-> "sending", attempt |-> attempt, lease |-> l,
                   left |-> LeaseTicks - lag, wait |-> part[p].wait,
                   message |-> part[p].message]
           rows == [part EXCEPT ![p] = row]
<1>1. /\ ~plan[PlanOf[p]].cancelRequested
      /\ \A q \in PartsOf(PlanOf[p]) : Live(q, lag) => part[q].lease = l
      /\ IsTarget(p)
      /\ Derive(rows, {PlanOf[p]}, CancelFlags)
  BY DEF ClaimNextDeliveryPart, Claimable, Open
<1>2. part[p].status \in Active
  BY <1>1 DEF IsTarget
<1>3. /\ LeaseTicks \in Nat /\ AttemptCap \in Nat /\ AttemptCap > 0
      /\ lag \in Nat
  BY ValueAssumption DEF Lag
<1>4. attempt \in 0..AttemptCap /\ attempt > 0
  <2>1. renewal => part[p].attempt > 0
    BY DEF IInv, SentIsAttempted
  <2> QED BY <1>3, <2>1, Typing
<1>5. row \in PartRow
  <2>1. LeaseTicks - lag \in Int
    BY <1>3
  <2> HIDE DEF attempt
  <2> QED BY <1>4, <2>1, Typing DEF PartRow, Statuses, Active
<1>6. \A q \in Parts : Before(q, p) => part[q].status = "delivered"
  <2> SUFFICES ASSUME NEW q \in Parts, Before(q, p) PROVE part[q].status = "delivered"
    OBVIOUS
  <2>1. Passed(q)
    BY <1>1 DEF IsTarget, PartsOf, Before
  <2>2. q \in Required
    BY DraftAssumption
  <2> QED BY <2>1, <2>2 DEF Passed
<1>7. \A q \in Parts : PlanOf[q] = PlanOf[p] /\ part[q].status = "sending" => q = p
  <2> SUFFICES ASSUME NEW q \in Parts, PlanOf[q] = PlanOf[p], part[q].status = "sending", q # p
               PROVE  FALSE
    OBVIOUS
  <2>1. Before(q, p) \/ Before(p, q)
    BY ShapeAssumption DEF Before
  <2>2. part[q].attempt > 0
    BY DEF IInv, SentIsAttempted
  <2>3. CASE Before(q, p)
    BY <1>6, <2>3
  <2>4. CASE Before(p, q)
    BY <1>2, <2>2, <2>4 DEF IInv, AttemptedInOrder, Active
  <2> QED BY <2>1, <2>3, <2>4
<1>8. part[p].status = "sending" /\ part[p].left > 0 => l = part[p].lease
  <2>1. part[p].status = "sending" /\ part[p].left > 0 => Live(p, lag)
    BY <1>3, Typing DEF Live
  <2> QED BY <1>1, <2>1 DEF PartsOf
<1>9. RowsStep(rows, {PlanOf[p]})
  <2>1. /\ row.status = "sending" /\ row.attempt = attempt
        /\ row.lease = l /\ row.message = part[p].message
    OBVIOUS
  <2> HIDE DEF attempt, row
  <2>2. /\ part[p].status # "absent" /\ part[p].status # "delivered"
        /\ part[p].message = NoMessage
    BY <1>2 DEF Active, IInv, UnsentHasNoMessage
  <2> QED BY <1>1, <1>2, <1>4, <1>5, <1>6, <1>7, <1>8, <2>1, <2>2, OneRow
<1>10. QED
  <2>1. rows \in [Parts -> PartRow] /\ {PlanOf[p]} \in SUBSET Plans
    BY <1>9 DEF RowsStep
  <2>2. /\ part[p].status \in Active /\ rows[p].status # "cancelled"
        /\ \A q \in Parts : q # p => rows[q] = part[q]
    <3> HIDE DEF attempt
    <3> QED BY <1>2, Typing
  <2> HIDE DEF rows
  <2>3. Settles(rows, {PlanOf[p]}, CancelFlags)
    BY <2>1, <2>2, OwnSettles
  <2> QED BY <1>1, <1>9, <2>1, <2>3, FlagsType, IsDeriveStep

\* A row that gives up its lease: the part is settled or goes back to the pool.
LEMMA ReleaseIsRowsStep ==
    ASSUME IInv, NEW p \in Parts, NEW r \in PartRow,
           part[p].status = "sending" \/ part[p].attempt > 0,
           r.status \in {"pending", "delivered", "failed"},
           r.status # "delivered" => part[p].status = "sending",
           r.attempt = part[p].attempt,
           r.status = "pending" => r.message = part[p].message,
           part[p].message # NoMessage => r.message = part[p].message
    PROVE  RowsStep([part EXCEPT ![p] = r], {PlanOf[p]})
<1>1. part[p].attempt > 0
  BY DEF IInv, SentIsAttempted
<1>2. \A q \in Parts : Before(q, p) => part[q].status = "delivered"
  BY <1>1 DEF IInv, AttemptedInOrder
<1>3. part[p].status # "absent"
  BY <1>1 DEF IInv, CreatedTogether
<1>4. part[p].status = "sending" => part[p].message = NoMessage
  BY DEF IInv, UnsentHasNoMessage, Active
<1> QED
  BY <1>1, <1>2, <1>3, <1>4, OneRow DEF Active

\* Spacing the next part changes a wait, which no part of the argument looks at.
LEMMA WaitsAreFree ==
    ASSUME IInv, NEW rows, NEW D, RowsStep(rows, D), NEW new \in [Parts -> PartRow],
           \A p \in Parts :
              \/ new[p] = rows[p]
              \/ /\ PlanOf[p] \in D /\ rows[p].status # "absent"
                 /\ new[p].status = rows[p].status /\ new[p].attempt = rows[p].attempt
                 /\ new[p].lease = rows[p].lease /\ new[p].message = rows[p].message
    PROVE  RowsStep(new, D)
<1>1. \A p \in Parts : /\ new[p].status = rows[p].status /\ new[p].attempt = rows[p].attempt
                       /\ new[p].lease = rows[p].lease /\ new[p].message = rows[p].message
                       /\ PlanOf[p] \notin D => new[p] = rows[p]
                       /\ new[p].status = "absent" => new[p] = rows[p]
  OBVIOUS
<1>2. ASSUME NEW x \in Parts
      PROVE  /\ PlanOf[x] \notin D => new[x] = part[x]
             /\ new[x].status = "absent" => new[x] = part[x]
             /\ new[x].status \in Active => part[x].status \in Active /\ new[x].message = NoMessage
             /\ new[x].status \in {"sending", "delivered", "failed"} => new[x].attempt > 0
             /\ part[x].status = "delivered" => new[x].status = "delivered"
             /\ part[x].message # NoMessage => new[x].message = part[x].message
             /\ new[x].status = "sending" /\ plan[PlanOf[x]].cancelRequested
                => part[x].status = "sending" /\ new[x].lease = part[x].lease
  BY <1>1 DEF RowsStep
<1>3. ASSUME NEW x \in Parts, NEW y \in Parts
      PROVE  /\ Before(x, y) /\ new[y].attempt > 0 => new[x].status = "delivered"
             /\ PlanOf[x] = PlanOf[y] /\ new[x].status = "sending" /\ new[y].status = "sending"
                => x = y
             /\ /\ PlanOf[x] = PlanOf[y]
                /\ part[x].status = "sending" /\ part[x].left > 0
                /\ new[y].status = "sending"
                => new[y].lease = part[x].lease
  BY <1>1 DEF RowsStep
<1>4. QED
  BY <1>2, <1>3 DEF RowsStep

\* A released row that also learns a message or gets a wait.
LEMMA ReleasedFields ==
    ASSUME IInv, NEW p \in Parts, NEW st \in Statuses
    PROVE  /\ \A x \in Messages \cup {NoMessage} :
                 LET r == [Released(part[p], st) EXCEPT !.message = x]
                 IN  /\ r \in PartRow /\ r.status = st /\ r.message = x
                     /\ r.attempt = part[p].attempt
           /\ \A w \in Nat :
                 LET r == [Released(part[p], st) EXCEPT !.wait = w]
                 IN  /\ r \in PartRow /\ r.status = st /\ r.message = part[p].message
                     /\ r.attempt = part[p].attempt
<1> DEFINE c == Released(part[p], st)
<1>1. /\ c \in PartRow /\ c.status = st
      /\ c.attempt = part[p].attempt /\ c.message = part[p].message
  BY ReleasedRow, Typing
<1> HIDE DEF c
<1>2. ASSUME NEW x \in Messages \cup {NoMessage}
      PROVE  LET r == [c EXCEPT !.message = x]
             IN  /\ r \in PartRow /\ r.status = st /\ r.message = x
                 /\ r.attempt = part[p].attempt
  BY <1>1 DEF PartRow
<1>3. ASSUME NEW w \in Nat
      PROVE  LET r == [c EXCEPT !.wait = w]
             IN  /\ r \in PartRow /\ r.status = st /\ r.message = part[p].message
                 /\ r.attempt = part[p].attempt
  BY <1>1 DEF PartRow
<1>4. QED
  BY <1>2, <1>3 DEF c

LEMMA AcknowledgeIsDeriveStep ==
    ASSUME IInv, NEW p \in Parts, NEW l \in Leases, NEW verdict \in {"delivered", "failed"},
           NEW m \in Messages \cup {NoMessage}, NEW lag \in Lag, NEW wait \in 0..Delay[p],
           AcknowledgeDeliveryPart(p, l, verdict, m, lag, wait)
    PROVE  DeriveStep
<1> DEFINE msg == IF m = NoMessage THEN part[p].message ELSE m
           row == [Released(part[p], verdict) EXCEPT !.message = msg]
           acked == [part EXCEPT ![p] = row]
           spaced == [q \in Parts |->
                        IF /\ verdict = "delivered" /\ Delay[p] > 0
                           /\ PlanOf[q] = PlanOf[p] /\ Ordinal[q] = Ordinal[p] + 1
                           /\ acked[q].status = "pending"
                        THEN [acked[q] EXCEPT !.wait = wait]
                        ELSE acked[q]]
<1>1. part[p].status = "sending" /\ Derive(spaced, {PlanOf[p]}, CancelFlags)
  BY DEF AcknowledgeDeliveryPart, Acknowledgeable, Owns
<1>2. /\ row \in PartRow /\ row.status = verdict /\ row.attempt = part[p].attempt
      /\ row.message = msg
  <2>1. verdict \in Statuses
    BY DEF Statuses, Terminal
  <2>2. msg \in Messages \cup {NoMessage}
    BY Typing
  <2> HIDE DEF msg
  <2> QED BY <2>1, <2>2, ReleasedFields
<1>3. part[p].message = NoMessage
  BY <1>1 DEF IInv, UnsentHasNoMessage, Active
<1>4. RowsStep(acked, {PlanOf[p]})
  <2> HIDE DEF row
  <2>1. /\ part[p].status = "sending" /\ row \in PartRow
        /\ row.status \in {"pending", "delivered", "failed"} /\ row.status # "pending"
        /\ row.attempt = part[p].attempt /\ part[p].message = NoMessage
    BY <1>1, <1>2, <1>3
  <2> QED BY <2>1, ReleaseIsRowsStep
<1>5. acked \in [Parts -> PartRow] /\ \A q \in Parts : acked[q] \in PartRow
  BY <1>4 DEF RowsStep
<1> HIDE DEF acked
<1>6. wait \in Nat
  BY ShapeAssumption
<1>7. \A r \in PartRow :
         LET w == [r EXCEPT !.wait = wait]
         IN  /\ w \in PartRow /\ w.status = r.status /\ w.attempt = r.attempt
             /\ w.lease = r.lease /\ w.message = r.message
  BY <1>6 DEF PartRow
<1>8. spaced \in [Parts -> PartRow]
  BY <1>5, <1>7
<1>9. \A q \in Parts :
         \/ spaced[q] = acked[q]
         \/ /\ PlanOf[q] \in {PlanOf[p]} /\ acked[q].status # "absent"
            /\ spaced[q].status = acked[q].status /\ spaced[q].attempt = acked[q].attempt
            /\ spaced[q].lease = acked[q].lease /\ spaced[q].message = acked[q].message
  BY <1>5, <1>7
<1> HIDE DEF spaced
<1>10. RowsStep(spaced, {PlanOf[p]})
  BY <1>4, <1>8, <1>9, WaitsAreFree
<1>11. {PlanOf[p]} \in SUBSET Plans
  BY ShapeAssumption
<1>12. \A q \in Parts : q # p => acked[q] = part[q]
  BY Typing DEF acked
<1>13. acked[p].status = verdict
  BY <1>2, Typing DEF acked
<1>14. Settles(spaced, {PlanOf[p]}, CancelFlags)
  BY <1>1, <1>9, <1>11, <1>12, <1>13, OwnSettles DEF Active
<1>15. QED
  BY <1>1, <1>8, <1>10, <1>11, <1>14, FlagsType, IsDeriveStep

LEMMA DeferIsDeriveStep ==
    ASSUME IInv, NEW p \in Parts, NEW l \in Leases, NEW wait \in 0..DeferTicks,
           DeferDeliveryPart(p, l, wait)
    PROVE  DeriveStep
<1> DEFINE row == [Released(part[p], "pending") EXCEPT !.wait = wait]
           rows == [part EXCEPT ![p] = row]
<1>1. part[p].status = "sending" /\ Derive(rows, {PlanOf[p]}, CancelFlags)
  BY DEF DeferDeliveryPart, Owns
<1>2. wait \in Nat
  BY ValueAssumption
<1>3. /\ row \in PartRow /\ row.status = "pending" /\ row.attempt = part[p].attempt
      /\ row.message = part[p].message
  BY <1>2, ReleasedFields DEF Statuses, Active
<1>4. RowsStep(rows, {PlanOf[p]})
  <2> HIDE DEF row
  <2> QED BY <1>1, <1>3, ReleaseIsRowsStep
<1>5. rows \in [Parts -> PartRow] /\ {PlanOf[p]} \in SUBSET Plans
  BY <1>4 DEF RowsStep
<1>6. rows[p].status = "pending" /\ \A q \in Parts : q # p => rows[q] = part[q]
  <2> HIDE DEF row
  <2> QED BY <1>3, Typing
<1> HIDE DEF rows
<1>7. Settles(rows, {PlanOf[p]}, CancelFlags)
  BY <1>1, <1>5, <1>6, OwnSettles DEF Active
<1>8. QED
  BY <1>1, <1>4, <1>5, <1>7, FlagsType, IsDeriveStep

LEMMA ReconcileIsDeriveStep ==
    ASSUME IInv, NEW p \in Parts, NEW m \in Messages, ReconcileReceipt(p, m)
    PROVE  DeriveStep
<1> DEFINE row == [Released(part[p], "delivered") EXCEPT !.message = m]
           rows == [part EXCEPT ![p] = row]
<1>1. /\ part[p].message \in {NoMessage, m} /\ part[p].attempt >= 1
      /\ Derive(rows, {PlanOf[p]}, CancelFlags)
  BY DEF ReconcileReceipt, Reconcilable
<1>2. part[p].attempt > 0
  BY <1>1, Typing
<1>3. /\ row \in PartRow /\ row.status = "delivered" /\ row.attempt = part[p].attempt
      /\ row.message = m
  BY ReleasedFields DEF Statuses, Terminal
<1>4. RowsStep(rows, {PlanOf[p]})
  <2> HIDE DEF row
  <2> QED BY <1>1, <1>2, <1>3, ReleaseIsRowsStep
<1>5. rows \in [Parts -> PartRow] /\ {PlanOf[p]} \in SUBSET Plans
  BY <1>4 DEF RowsStep
<1>6. rows[p].status = "delivered" /\ \A q \in Parts : q # p => rows[q] = part[q]
  <2> HIDE DEF row
  <2> QED BY <1>3, Typing
<1> HIDE DEF rows
<1>7. Settles(rows, {PlanOf[p]}, CancelFlags)
  BY <1>5, <1>6, OwnSettles
<1>8. QED
  BY <1>1, <1>4, <1>5, <1>7, FlagsType, IsDeriveStep

LEMMA CancelledRow ==
    ASSUME IInv, NEW p \in Parts
    PROVE  LET r == [part[p] EXCEPT !.status = "cancelled"]
           IN  /\ r \in PartRow /\ r.status = "cancelled"
               /\ r.attempt = part[p].attempt /\ r.message = part[p].message
BY Typing DEF PartRow, Statuses, Terminal

LEMMA ReleasedActiveRow ==
    ASSUME IInv, NEW p \in Parts, NEW st \in {"pending", "cancelled"}
    PROVE  /\ Released(part[p], st) \in PartRow /\ Released(part[p], st).status = st
           /\ Released(part[p], st).attempt = part[p].attempt
           /\ Released(part[p], st).message = part[p].message
<1>1. st \in Statuses
  BY DEF Statuses, Active, Terminal
<1> QED BY <1>1, ReleasedRow, Typing

\* The unsent tail of plan d is cancelled: cancel_remaining and _settle_tx.
LEMMA CancelTailIsDeriveStep ==
    ASSUME IInv, NEW d \in Plans, plan[d].status # "absent",
           plan[d].status \in Active \/ d \in ProactivePlans,
           Derive([p \in Parts |-> IF PlanOf[p] = d /\ part[p].status = "pending"
                                   THEN [part[p] EXCEPT !.status = "cancelled"]
                                   ELSE part[p]],
                  {d}, [CancelFlags EXCEPT ![d] = TRUE])
    PROVE  DeriveStep
<1> DEFINE rows == [p \in Parts |-> IF PlanOf[p] = d /\ part[p].status = "pending"
                                    THEN [part[p] EXCEPT !.status = "cancelled"]
                                    ELSE part[p]]
           cancel == [CancelFlags EXCEPT ![d] = TRUE]
<1>1. rows \in [Parts -> PartRow]
  BY CancelledRow, Typing
<1>2. \A p \in Parts :
         \/ rows[p] = part[p]
         \/ /\ PlanOf[p] \in {d} /\ part[p].status \in Active
            /\ rows[p].status \in {"pending", "cancelled"}
            /\ rows[p].attempt = part[p].attempt /\ rows[p].message = part[p].message
  BY CancelledRow DEF Active
<1>3. /\ cancel \in [Plans -> BOOLEAN]
      /\ \A e \in Plans : plan[e].cancelRequested => cancel[e]
  BY FlagsType
<1>4. Derive(rows, {d}, cancel) /\ cancel[d]
  BY FlagsType
<1> HIDE DEF rows, cancel
<1>5. RowsStep(rows, {d})
  BY <1>1, <1>2, ManyRows
<1>6. Settles(rows, {d}, cancel)
  BY <1>2, <1>4, RequestSettles
<1>7. QED
  BY <1>1, <1>3, <1>4, <1>5, <1>6, IsDeriveStep

LEMMA CancelSendingIsDeriveStep ==
    ASSUME IInv, NEW d \in Plans, NEW l \in Leases, CancelSendingDelivery(d, l)
    PROVE  DeriveStep
<1> DEFINE rows == [p \in Parts |-> IF PlanOf[p] = d /\ part[p].status \in Active
                                    THEN Released(part[p], "cancelled")
                                    ELSE part[p]]
           cancel == [CancelFlags EXCEPT ![d] = TRUE]
<1>1. rows \in [Parts -> PartRow]
  BY ReleasedActiveRow, Typing
<1>2. \A p \in Parts :
         \/ rows[p] = part[p]
         \/ /\ PlanOf[p] \in {d} /\ part[p].status \in Active
            /\ rows[p].status \in {"pending", "cancelled"}
            /\ rows[p].attempt = part[p].attempt /\ rows[p].message = part[p].message
  BY ReleasedActiveRow
<1>3. /\ cancel \in [Plans -> BOOLEAN]
      /\ \A e \in Plans : plan[e].cancelRequested => cancel[e]
  BY FlagsType
<1>4. Derive(rows, {d}, cancel) /\ plan[d].status \in Active /\ plan[d].status # "absent"
  BY DEF CancelSendingDelivery, Active
<1>5. cancel[d]
  BY FlagsType
<1> HIDE DEF rows, cancel
<1>6. RowsStep(rows, {d})
  BY <1>1, <1>2, <1>4, ManyRows
<1>7. Settles(rows, {d}, cancel)
  BY <1>2, <1>4, <1>5, RequestSettles
<1>8. QED
  BY <1>1, <1>3, <1>4, <1>6, <1>7, IsDeriveStep

LEMMA CancelConnectionIsDeriveStep ==
    ASSUME IInv, NEW c \in Connections, CancelConnection(c)
    PROVE  DeriveStep
<1> DEFINE D == {d \in Plans : ConnectionOf[d] = c /\ plan[d].status \in Active}
           rows == [p \in Parts |-> IF PlanOf[p] \in D /\ part[p].status \in Active
                                    THEN [part[p] EXCEPT !.status = "cancelled"]
                                    ELSE part[p]]
           cancel == [d \in Plans |-> d \in D \/ plan[d].cancelRequested]
<1>1. rows \in [Parts -> PartRow]
  BY CancelledRow, Typing
<1>2. \A p \in Parts :
         \/ rows[p] = part[p]
         \/ /\ PlanOf[p] \in D /\ part[p].status \in Active
            /\ rows[p].status \in {"pending", "cancelled"}
            /\ rows[p].attempt = part[p].attempt /\ rows[p].message = part[p].message
  BY CancelledRow
<1>3. /\ cancel \in [Plans -> BOOLEAN]
      /\ \A e \in Plans : plan[e].cancelRequested => cancel[e]
  <2>1. \A d \in Plans : plan[d].cancelRequested \in BOOLEAN
    BY DEF IInv, TypeOK, PlanRow
  <2>2. \A d \in Plans : (d \in D \/ plan[d].cancelRequested) \in BOOLEAN
    BY <2>1
  <2> QED BY <2>2
<1>4. Derive(rows, D, cancel)
  BY DEF CancelConnection
<1>5. /\ D \in SUBSET Plans
      /\ \A d \in D : plan[d].status # "absent" /\ plan[d].status \in Active /\ cancel[d]
  BY DEF Active
<1> HIDE DEF rows, cancel, D
<1>6. RowsStep(rows, D)
  BY <1>1, <1>2, <1>5, ManyRows
<1>7. Settles(rows, D, cancel)
  BY <1>2, <1>5, RequestSettles
<1>8. QED
  BY <1>1, <1>3, <1>4, <1>5, <1>6, <1>7, IsDeriveStep

LEMMA RecoverIsDeriveStep ==
    ASSUME IInv, NEW lag \in Lag, RecoverExpiredLeases(lag)
    PROVE  DeriveStep
<1> DEFINE expired == {p \in Parts : part[p].status = "sending" /\ part[p].left + lag <= 0}
           released(p) == IF plan[PlanOf[p]].cancelRequested THEN "cancelled" ELSE "pending"
           rows == [p \in Parts |-> IF p \in expired THEN Released(part[p], released(p))
                                    ELSE part[p]]
           D == {PlanOf[p] : p \in expired}
<1>0. \A p \in Parts : released(p) \in {"pending", "cancelled"}
  OBVIOUS
<1>1. Derive(rows, D, CancelFlags)
  BY DEF RecoverExpiredLeases
<1>2. \A p \in expired : p \in Parts /\ part[p].status = "sending" /\ PlanOf[p] \in D
  OBVIOUS
<1>3. D \in SUBSET Plans /\ \A d \in D : plan[d].status # "absent"
  <2>1. \A p \in expired : PlanOf[p] \in Plans /\ plan[PlanOf[p]].status # "absent"
    BY <1>2, Typing DEF IInv, CreatedTogether
  <2> HIDE DEF expired
  <2> QED BY <2>1
<1> HIDE DEF released, expired, D
<1>4. rows \in [Parts -> PartRow]
  BY <1>0, ReleasedActiveRow, Typing
<1>5. \A p \in Parts :
         \/ rows[p] = part[p]
         \/ /\ PlanOf[p] \in D /\ part[p].status \in Active
            /\ rows[p].status \in {"pending", "cancelled"}
            /\ rows[p].attempt = part[p].attempt /\ rows[p].message = part[p].message
  BY <1>0, <1>2, ReleasedActiveRow DEF Active
<1>6. \A p \in Parts : rows[p] # part[p] => rows[p].status = released(p)
  BY <1>0, <1>2, ReleasedActiveRow
<1> HIDE DEF rows
<1>7. RowsStep(rows, D)
  BY <1>3, <1>4, <1>5, ManyRows
<1>8. Settles(rows, D, CancelFlags)
  BY <1>3, <1>5, <1>6, OwnSettles DEF released
<1>9. QED
  BY <1>1, <1>3, <1>4, <1>7, <1>8, FlagsType, IsDeriveStep

LEMMA CreateIsSafe ==
    ASSUME IInv, NEW d \in Plans, NEW wait \in 0..DeferTicks, CreatePlan(d, wait)
    PROVE  IInv' /\ StepPromise
<1>1. /\ plan[d].status = "absent"
      /\ plan' = [plan EXCEPT ![d].status = "pending"]
      /\ part' = [p \in Parts |-> IF PlanOf[p] = d
                                  THEN [part[p] EXCEPT !.status = "pending", !.wait = wait]
                                  ELSE part[p]]
  BY DEF CreatePlan
<1>2. wait \in Nat
  BY ValueAssumption
<1>3. \A p \in Parts :
         LET r == [part[p] EXCEPT !.status = "pending", !.wait = wait]
         IN  /\ r \in PartRow /\ r.status = "pending" /\ r.attempt = part[p].attempt
             /\ r.message = part[p].message
  BY <1>2, Typing DEF PartRow, Statuses, Active
<1>4. \A e \in Plans : plan[e] \in PlanRow
  BY DEF IInv, TypeOK
<1>5. /\ plan'[d].status = "pending" /\ plan'[d] \in PlanRow
      /\ \A e \in Plans : e # d => plan'[e] = plan[e]
      /\ plan' \in [Plans -> PlanRow]
      /\ plan'[d].cancelRequested = plan[d].cancelRequested
  BY <1>1, <1>4 DEF IInv, TypeOK, PlanRow, Statuses, Active
<1>6. part' \in [Parts -> PartRow]
  BY <1>1, <1>3, Typing
<1>7. ASSUME NEW p \in Parts
      PROVE  /\ PlanOf[p] # d => part'[p] = part[p]
             /\ PlanOf[p] = d => /\ part[p].status = "absent" /\ part'[p].status = "pending"
                                 /\ part[p].attempt = 0 /\ part'[p].attempt = 0
                                 /\ part[p].message = NoMessage /\ part'[p].message = NoMessage
  BY <1>1, <1>3 DEF IInv, CreatedTogether, UnsentHasNoMessage
<1>8. \A p \in Parts : PlanOf[p] \in Plans
  BY ShapeAssumption
<1>9. TypeOK' /\ CreatedTogether' /\ SentIsAttempted' /\ UnsentHasNoMessage'
  BY <1>5, <1>6, <1>7, <1>8
     DEF IInv, TypeOK, CreatedTogether, SentIsAttempted, UnsentHasNoMessage
<1>10. TerminalPlanHasNoActivePart'
  BY <1>5, <1>7, <1>8 DEF IInv, TerminalPlanHasNoActivePart, Terminal
<1>11. OneSendingPart'
  BY <1>5, <1>7, <1>8 DEF IInv, OneSendingPart
<1>12. AttemptedInOrder'
  BY <1>7 DEF IInv, AttemptedInOrder, Before
<1>13. VerdictMatchesParts'
  <2> SUFFICES ASSUME NEW e \in Plans
               PROVE  LET delivered == {p \in PartsOf(e) : part'[p].status = "delivered"}
                      IN  /\ plan'[e].status = "delivered" => PartsOf(e) \cap Required \subseteq delivered
                          /\ plan'[e].status = "cancelled" => plan'[e].cancelRequested /\ delivered # PartsOf(e)
                          /\ plan'[e].status = "failed" => ~(PartsOf(e) \cap Required \subseteq delivered)
    BY DEF VerdictMatchesParts
  <2>1. CASE e = d
    BY <1>5, <2>1
  <2>2. CASE e # d
    <3>1. plan'[e] = plan[e] /\ \A p \in PartsOf(e) : part'[p] = part[p]
      BY <1>5, <1>7, <2>2 DEF PartsOf
    <3> QED BY <3>1 DEF IInv, VerdictMatchesParts
  <2> QED BY <2>1, <2>2
<1>14. StepPromise
  BY <1>7 DEF StepPromise, IInv, OneSendingPart
<1>15. QED
  BY <1>9, <1>10, <1>11, <1>12, <1>13, <1>14 DEF IInv

LEMMA TickIsSafe ==
    ASSUME IInv, Tick
    PROVE  IInv' /\ StepPromise
<1>1. /\ plan' = plan
      /\ part' = [p \in Parts |->
                    [part[p] EXCEPT !.wait = IF @ > 0 THEN @ - 1 ELSE 0,
                                    !.left = IF part[p].status = "sending" /\ @ > Floor
                                             THEN @ - 1 ELSE @]]
  BY DEF Tick, Aged
<1>2. ASSUME NEW p \in Parts
      PROVE  /\ part'[p] \in PartRow
             /\ part'[p].status = part[p].status /\ part'[p].attempt = part[p].attempt
             /\ part'[p].lease = part[p].lease /\ part'[p].message = part[p].message
  <2> DEFINE w == IF part[p].wait > 0 THEN part[p].wait - 1 ELSE 0
             t == IF part[p].status = "sending" /\ part[p].left > Floor
                  THEN part[p].left - 1 ELSE part[p].left
  <2>1. part'[p] = [part[p] EXCEPT !.wait = w, !.left = t]
    BY <1>1
  <2>2. w \in Nat /\ t \in Int
    BY Typing
  <2> HIDE DEF w, t
  <2> QED BY <2>1, <2>2, Typing DEF PartRow
<1>3. part' \in [Parts -> PartRow]
  BY <1>1, <1>2
<1>4. TypeOK' /\ CreatedTogether' /\ SentIsAttempted' /\ UnsentHasNoMessage'
  <2>1. plan' = plan
    BY <1>1
  <2> HIDE <1>1
  <2>2. TypeOK'
    BY <1>3, <2>1 DEF IInv, TypeOK, Tick
  <2>3. CreatedTogether'
    BY <1>2, <2>1 DEF IInv, CreatedTogether
  <2>4. SentIsAttempted'
    BY <1>2 DEF IInv, SentIsAttempted
  <2>5. UnsentHasNoMessage'
    BY <1>2 DEF IInv, UnsentHasNoMessage
  <2> QED
    BY <2>2, <2>3, <2>4, <2>5
<1>5. TerminalPlanHasNoActivePart' /\ OneSendingPart' /\ AttemptedInOrder'
  <2> HIDE <1>1
  <2>1. plan' = plan
    BY <1>1
  <2>2. TerminalPlanHasNoActivePart'
    BY <1>2, <2>1 DEF IInv, TerminalPlanHasNoActivePart
  <2>3. OneSendingPart'
    BY <1>2, <2>1 DEF IInv, OneSendingPart
  <2>4. AttemptedInOrder'
    BY <1>2 DEF IInv, AttemptedInOrder, Before
  <2> QED BY <2>2, <2>3, <2>4
<1>6. VerdictMatchesParts'
  <2>1. \A d \in Plans : \A p \in PartsOf(d) : part'[p].status = part[p].status
    BY <1>2 DEF PartsOf
  <2>2. \A d \in Plans : {p \in PartsOf(d) : part'[p].status = "delivered"}
                         = {p \in PartsOf(d) : part[p].status = "delivered"}
    BY <2>1
  <2> QED BY <1>1, <2>2 DEF IInv, VerdictMatchesParts
<1>7. StepPromise
  BY <1>2 DEF StepPromise, IInv, OneSendingPart
<1>8. QED
  BY <1>4, <1>5, <1>6, <1>7 DEF IInv

------------------------------------------------------------------------------
(* The theorems. *)

LEMMA InitSafe == Init => IInv
<1> SUFFICES ASSUME Init PROVE IInv
  OBVIOUS
<1>1. /\ \A d \in Plans : /\ plan[d].status = "absent" /\ plan[d] \in PlanRow
      /\ \A p \in Parts : /\ part[p].status = "absent" /\ part[p].attempt = 0
                          /\ part[p].message = NoMessage /\ part[p] \in PartRow
      /\ plan \in [Plans -> PlanRow] /\ part \in [Parts -> PartRow]
  BY ValueAssumption DEF Init, Absent, PlanRow, PartRow, Statuses
<1>2. \A p \in Parts : PlanOf[p] \in Plans
  BY ShapeAssumption
<1>3. TypeOK /\ CreatedTogether /\ SentIsAttempted /\ UnsentHasNoMessage
  BY <1>1, <1>2 DEF TypeOK, CreatedTogether, SentIsAttempted, UnsentHasNoMessage
<1>4. TerminalPlanHasNoActivePart /\ OneSendingPart /\ AttemptedInOrder
  BY <1>1, <1>2 DEF TerminalPlanHasNoActivePart, OneSendingPart, AttemptedInOrder, Active
<1>5. VerdictMatchesParts
  BY <1>1 DEF VerdictMatchesParts
<1>6. QED
  BY <1>3, <1>4, <1>5 DEF IInv

\* A step creates a plan, lets time pass, or derives plans from good rows.
LEMMA NextDerives ==
    ASSUME IInv, [Next]_vars
    PROVE  \/ UNCHANGED vars \/ Tick \/ DeriveStep
           \/ \E d \in Plans, wait \in 0..DeferTicks : CreatePlan(d, wait)
<1>1. ASSUME NEW p \in Parts, NEW l \in Leases, NEW lag \in Lag, ClaimNextDeliveryPart(p, l, lag)
      PROVE  DeriveStep
  BY <1>1, ClaimIsDeriveStep
<1>2. ASSUME NEW p \in Parts, NEW l \in Leases, NEW verdict \in {"delivered", "failed"},
             NEW m \in Messages \cup {NoMessage}, NEW lag \in Lag, NEW wait \in 0..Delay[p],
             AcknowledgeDeliveryPart(p, l, verdict, m, lag, wait)
      PROVE  DeriveStep
  BY <1>2, AcknowledgeIsDeriveStep
<1>3. ASSUME NEW p \in Parts, NEW l \in Leases, NEW wait \in 0..DeferTicks,
             DeferDeliveryPart(p, l, wait)
      PROVE  DeriveStep
  BY <1>3, DeferIsDeriveStep
<1>4. ASSUME NEW d \in Plans, CancelRemainingDeliveryParts(d)
      PROVE  DeriveStep
  BY <1>4, CancelTailIsDeriveStep DEF CancelRemainingDeliveryParts, Active
<1>5. ASSUME NEW d \in Plans, NEW l \in Leases, CancelSendingDelivery(d, l)
      PROVE  DeriveStep
  BY <1>5, CancelSendingIsDeriveStep
<1>6. ASSUME NEW c \in Connections, CancelConnection(c)
      PROVE  DeriveStep
  BY <1>6, CancelConnectionIsDeriveStep
<1>7. ASSUME NEW d \in Plans, SettleProactiveIntent(d)
      PROVE  DeriveStep
  BY <1>7, CancelTailIsDeriveStep DEF SettleProactiveIntent
<1>8. ASSUME NEW lag \in Lag, RecoverExpiredLeases(lag)
      PROVE  DeriveStep
  BY <1>8, RecoverIsDeriveStep
<1>9. ASSUME NEW p \in Parts, NEW m \in Messages, ReconcileReceipt(p, m)
      PROVE  DeriveStep
  BY <1>9, ReconcileIsDeriveStep
<1> QED
  BY <1>1, <1>2, <1>3, <1>4, <1>5, <1>6, <1>7, <1>8, <1>9 DEF Next

LEMMA NextSafe ==
    ASSUME IInv, [Next]_vars
    PROVE  IInv' /\ [StepPromise]_vars
<1>1. CASE UNCHANGED vars
  BY <1>1 DEF vars, IInv, TypeOK, CreatedTogether, SentIsAttempted, UnsentHasNoMessage,
     TerminalPlanHasNoActivePart, OneSendingPart, AttemptedInOrder, VerdictMatchesParts
<1>2. ASSUME NEW d \in Plans, NEW wait \in 0..DeferTicks, CreatePlan(d, wait)
      PROVE  IInv' /\ StepPromise
  BY <1>2, CreateIsSafe
<1>3. CASE Tick
  BY <1>3, TickIsSafe
<1>4. CASE DeriveStep
  BY <1>4, DeriveStepIsSafe
<1> QED
  BY <1>1, <1>2, <1>3, <1>4, NextDerives

\* The inductive invariant: the named safety invariants and what they rest on.
THEOREM Invariance == Spec => []IInv
<1>1. IInv /\ [Next]_vars => IInv'
  BY NextSafe
<1>2. QED
  BY InitSafe, <1>1, PTL DEF Spec

\* Types of the two tables.
THEOREM TypeCorrect == Spec => []TypeOK
<1>1. IInv => TypeOK
  BY DEF IInv
<1>2. QED
  BY <1>1, Invariance, PTL

\* A plan with a verdict has nothing left to send.
THEOREM TerminalInert == Spec => []TerminalPlanHasNoActivePart
<1>1. IInv => TerminalPlanHasNoActivePart
  BY DEF IInv
<1>2. QED
  BY <1>1, Invariance, PTL

\* At most one active lease per plan, and the parent mirrors it.
THEOREM OneLeasePerPlan == Spec => []OneSendingPart
<1>1. IInv => OneSendingPart
  BY DEF IInv
<1>2. QED
  BY <1>1, Invariance, PTL

\* No part is attempted before all its predecessors are delivered.
THEOREM InOrder == Spec => []AttemptedInOrder
<1>1. IInv => AttemptedInOrder
  BY DEF IInv
<1>2. QED
  BY <1>1, Invariance, PTL

\* The verdict of every plan agrees with its parts.
THEOREM HonestVerdict == Spec => []VerdictMatchesParts
<1>1. IInv => VerdictMatchesParts
  BY DEF IInv
<1>2. QED
  BY <1>1, Invariance, PTL

\* A delivered part stays delivered and keeps its provider identity.
THEOREM DeliveryIsIrreversible == Spec => DeliveredIsFinal
<1>1. IInv /\ [Next]_vars =>
        [\A p \in Parts :
            /\ part[p].status = "delivered" => part'[p].status = "delivered"
            /\ part[p].message # NoMessage => part'[p].message = part[p].message]_vars
  BY NextSafe DEF StepPromise
<1>2. QED
  BY <1>1, Invariance, PTL DEF Spec, DeliveredIsFinal

\* Nothing starts to be sent once a cancellation was requested.
THEOREM CancellationStopsSending == Spec => NoSendAfterCancel
<1>1. IInv /\ [Next]_vars =>
        [\A p \in Parts :
            plan[PlanOf[p]].cancelRequested /\ part'[p].status = "sending"
            => part[p].status = "sending" /\ part'[p].lease = part[p].lease]_vars
  BY NextSafe DEF StepPromise
<1>2. QED
  BY <1>1, Invariance, PTL DEF Spec, NoSendAfterCancel

\* A running lease excludes every other claimant of the plan.
THEOREM LeaseIsExclusive == Spec => LeaseNotStolen
<1>1. IInv /\ [Next]_vars =>
        [\A p, q \in Parts :
            /\ PlanOf[p] = PlanOf[q]
            /\ part[p].status = "sending" /\ part[p].left > 0
            /\ part'[q].status = "sending"
            => part'[q].lease = part[p].lease]_vars
  BY NextSafe DEF StepPromise
<1>2. QED
  BY <1>1, Invariance, PTL DEF Spec, LeaseNotStolen
------------------------------------------------------------------------------
(* The verdict. *)

\* The parent row is never stale: deriving it once more would change nothing.
ParentIsDerived ==
    \A d \in Plans : plan[d].status # "absent"
                     => plan[d].status = DerivedStatus(part, d, plan[d].cancelRequested)

\* A plan with a single part is cancelled on request only.
CancelledAlone ==
    \A p \in Parts : /\ part[p].status = "cancelled"
                     /\ \A q \in Parts : PlanOf[q] = PlanOf[p] => q = p
                     => plan[PlanOf[p]].cancelRequested

\* Nobody asks for the cancellation of a plan that does not exist.
Unrequested == \A d \in Plans : plan[d].status = "absent" => ~plan[d].cancelRequested

\* A part is cancelled for a request or for the verdict of its plan.
CancelledKnown ==
    \A p \in Parts : part[p].status = "cancelled"
                     => \/ plan[PlanOf[p]].cancelRequested
                        \/ plan[PlanOf[p]].status \in Terminal

Verdicts == ParentIsDerived /\ CancelledAlone /\ CancelledKnown /\ Unrequested

VInv == IInv /\ Verdicts

\* What VerdictIsFinal asks of one step.
VerdictKept ==
    \A d \in Plans :
        /\ plan[d].status \in Terminal => plan'[d].status \in Terminal
        /\ plan[d].status = "delivered" => plan'[d].status = "delivered"
        /\ plan[d].status \in Terminal /\ plan'[d].status # plan[d].status
           => \E p \in PartsOf(d) : part[p].status # "delivered" /\ part'[p].status = "delivered"

\* The derivation in terms of what is and is not there.
LEMMA DerivedCases ==
    ASSUME NEW rows, NEW d, NEW cancel \in BOOLEAN
    PROVE  LET Some(st) == \E p \in PartsOf(d) : rows[p].status = st
               Lost     == \E p \in PartsOf(d) \cap Required : rows[p].status = "failed"
               Missing  == \E p \in PartsOf(d) : rows[p].status # "delivered"
               Needed   == \E p \in PartsOf(d) \cap Required : rows[p].status # "delivered"
           IN  DerivedStatus(rows, d, cancel) =
                   IF Lost THEN "failed"
                   ELSE IF cancel /\ ~Some("sending") /\ Missing THEN "cancelled"
                   ELSE IF Some("sending") THEN "sending"
                   ELSE IF Some("pending") THEN "pending"
                   ELSE IF ~Needed THEN "delivered" ELSE "failed"
<1> DEFINE In(st) == {p \in PartsOf(d) : rows[p].status = st}
<1>1. (In("failed") \cap Required # {})
         <=> \E p \in PartsOf(d) \cap Required : rows[p].status = "failed"
  OBVIOUS
<1>2. \A st : In(st) = {} <=> ~\E p \in PartsOf(d) : rows[p].status = st
  OBVIOUS
<1>3. (PartsOf(d) \ In("delivered") # {}) <=> \E p \in PartsOf(d) : rows[p].status # "delivered"
  OBVIOUS
<1>4. ((PartsOf(d) \ In("delivered")) \cap Required = {})
         <=> ~\E p \in PartsOf(d) \cap Required : rows[p].status # "delivered"
  OBVIOUS
<1>5. DerivedStatus(rows, d, cancel) =
         IF In("failed") \cap Required # {} THEN "failed"
         ELSE IF cancel /\ In("sending") = {} /\ PartsOf(d) \ In("delivered") # {} THEN "cancelled"
         ELSE IF In("sending") # {} THEN "sending"
         ELSE IF In("pending") # {} THEN "pending"
         ELSE IF (PartsOf(d) \ In("delivered")) \cap Required = {} THEN "delivered" ELSE "failed"
  BY DEF DerivedStatus
<1> HIDE DEF In
<1> QED
  BY <1>1, <1>2, <1>3, <1>4, <1>5

\* Only the statuses of its own parts count.
LEMMA DerivedDepends ==
    ASSUME NEW rows, NEW new, NEW d, NEW cancel \in BOOLEAN,
           \A p \in PartsOf(d) : new[p].status = rows[p].status
    PROVE  DerivedStatus(new, d, cancel) = DerivedStatus(rows, d, cancel)
<1>1. \A st : {p \in PartsOf(d) : new[p].status = st} = {p \in PartsOf(d) : rows[p].status = st}
  OBVIOUS
<1> QED
  BY <1>1 DEF DerivedStatus

\* The cascade of a verdict leaves the verdict as it is.
LEMMA CascadeIsDerived ==
    ASSUME NEW rows, NEW new, NEW d, NEW cancel \in BOOLEAN,
           DerivedStatus(rows, d, cancel) \in Terminal,
           \A p \in PartsOf(d) : IF rows[p].status \in Active THEN new[p].status = "cancelled"
                                 ELSE new[p].status = rows[p].status
    PROVE  DerivedStatus(new, d, cancel) = DerivedStatus(rows, d, cancel)
<1>1. /\ \A p \in PartsOf(d) : new[p].status = "delivered" <=> rows[p].status = "delivered"
      /\ \A p \in PartsOf(d) : new[p].status = "failed" <=> rows[p].status = "failed"
      /\ \A p \in PartsOf(d) : new[p].status \notin Active
  BY DEF Active
<1>2. CASE \E p \in PartsOf(d) \cap Required : rows[p].status = "failed"
  BY <1>1, <1>2, DerivedCases
<1>3. CASE ~\E p \in PartsOf(d) \cap Required : rows[p].status = "failed"
  BY <1>1, <1>3, DerivedCases DEF Active, Terminal
<1> QED
  BY <1>2, <1>3

LEMMA SinglePart ==
    ASSUME NEW d \in ProactivePlans
    PROVE  \E p \in Parts : /\ PlanOf[p] = d /\ p \in Required /\ PartsOf(d) = {p}
                            /\ \A q \in Parts : PlanOf[q] = d => q = p
<1>1. d \in Plans
  BY DraftAssumption
<1>2. PICK p \in PartsOf(d) : TRUE
  BY <1>1, ShapeAssumption
<1>3. p \in Parts /\ PlanOf[p] = d
  BY DEF PartsOf
<1>4. \A q \in Parts : PlanOf[q] = d => q = p
  BY <1>3, DraftAssumption
<1>5. PartsOf(d) = {p}
  BY <1>3, <1>4 DEF PartsOf
<1>6. p \in Required
  <2> SUFFICES ASSUME p \notin Required PROVE FALSE
    OBVIOUS
  <2>1. PICK q \in Parts : Before(q, p)
    BY <1>3, DraftAssumption
  <2>2. q = p /\ Ordinal[p] \in Nat
    BY <1>3, <1>4, <2>1, ShapeAssumption DEF Before
  <2> QED
    BY <2>1, <2>2 DEF Before
<1> QED
  BY <1>3, <1>4, <1>5, <1>6

LEMMA DeriveKeepsVerdict ==
    ASSUME VInv, DeriveStep
    PROVE  Verdicts' /\ VerdictKept
<1>0. IInv /\ ParentIsDerived /\ CancelledAlone /\ CancelledKnown /\ Unrequested
  BY DEF VInv, Verdicts
<1> PICK rows \in [Parts -> PartRow], D \in SUBSET Plans, cancel \in [Plans -> BOOLEAN] :
        /\ RowsStep(rows, D)
        /\ Settles(rows, D, cancel)
        /\ \A d \in Plans : plan[d].cancelRequested => cancel[d]
        /\ Derive(rows, D, cancel)
  BY DEF DeriveStep
<1>1. /\ \A p \in Parts :
           \/ part'[p] = rows[p]
           \/ rows[p].status \in Active /\ part'[p].status = "cancelled" /\ PlanOf[p] \in D
      /\ \A p \in Parts : PlanOf[p] \notin D => part'[p] = part[p]
      /\ \A p \in Parts : PlanOf[p] \in D /\ plan'[PlanOf[p]].status \in Terminal
                          => part'[p].status \notin Active
      /\ \A p \in Parts : PlanOf[p] \in D /\ plan'[PlanOf[p]].status \notin Terminal
                          => part'[p] = rows[p]
      /\ \A d \in Plans \ D : plan'[d] = plan[d]
      /\ \A d \in D : /\ plan'[d].status = DerivedStatus(rows, d, cancel[d])
                      /\ plan'[d].cancelRequested = cancel[d]
  BY <1>0, DeriveFacts
<1>2. \A p \in Parts : PlanOf[p] \in Plans
  BY ShapeAssumption
<1>3. \A d \in Plans : plan[d].cancelRequested \in BOOLEAN /\ cancel[d] \in BOOLEAN
  BY <1>0 DEF IInv, TypeOK, PlanRow
<1>4. \A d \in Plans : \A p \in PartsOf(d) : p \in Parts /\ PlanOf[p] = d
  BY DEF PartsOf
<1>5. ASSUME NEW d \in Plans \ D, plan'[d].status # "absent"
      PROVE  plan'[d].status = DerivedStatus(part', d, plan'[d].cancelRequested)
  <2>1. DerivedStatus(part', d, plan[d].cancelRequested)
           = DerivedStatus(part, d, plan[d].cancelRequested)
    BY <1>1, <1>3, <1>4, DerivedDepends
  <2> QED
    BY <1>0, <1>1, <1>5, <2>1 DEF ParentIsDerived
<1>6. ASSUME NEW d \in D
      PROVE  plan'[d].status = DerivedStatus(part', d, plan'[d].cancelRequested)
  <2>1. CASE plan'[d].status \in Terminal
    <3>1. \A p \in PartsOf(d) : IF rows[p].status \in Active THEN part'[p].status = "cancelled"
                                ELSE part'[p].status = rows[p].status
      BY <1>1, <1>4, <2>1
    <3> QED
      BY <1>1, <1>3, <2>1, <3>1, CascadeIsDerived
  <2>2. CASE plan'[d].status \notin Terminal
    <3>1. \A p \in PartsOf(d) : part'[p].status = rows[p].status
      BY <1>1, <1>4, <2>2
    <3> QED
      BY <1>1, <1>3, <3>1, DerivedDepends
  <2> QED
    BY <2>1, <2>2
<1>7. ParentIsDerived'
  BY <1>5, <1>6 DEF ParentIsDerived
<1>8. CancelledAlone'
  <2> SUFFICES ASSUME NEW p \in Parts, part'[p].status = "cancelled",
                      \A q \in Parts : PlanOf[q] = PlanOf[p] => q = p
               PROVE  plan'[PlanOf[p]].cancelRequested
    BY DEF CancelledAlone
  <2>1. CASE PlanOf[p] \notin D
    <3>1. part'[p] = part[p] /\ plan'[PlanOf[p]] = plan[PlanOf[p]]
      BY <1>1, <1>2, <2>1
    <3> QED
      BY <1>0, <3>1 DEF CancelledAlone
  <2>2. CASE PlanOf[p] \in D /\ rows[p].status = "cancelled"
    <3>1. cancel[PlanOf[p]]
      BY <1>0, <1>2, <2>2 DEF Settles, CancelledAlone
    <3> QED
      BY <1>1, <2>2, <3>1
  <2>3. CASE PlanOf[p] \in D /\ rows[p].status # "cancelled"
    \* The cascade cancels the part for a verdict that its own, active, part cannot give
    \* without a request.
    <3>1. /\ rows[p].status \in Active /\ plan'[PlanOf[p]].status \in Terminal
          /\ PartsOf(PlanOf[p]) = {p}
      <4>1. PartsOf(PlanOf[p]) = {p}
        BY DEF PartsOf
      <4> QED
        BY <1>1, <2>3, <4>1
    <3>2. DerivedStatus(rows, PlanOf[p], cancel[PlanOf[p]]) \in Terminal
      BY <1>1, <2>3, <3>1
    <3>3. cancel[PlanOf[p]]
      BY <1>2, <1>3, <3>1, <3>2, DerivedCases DEF Active, Terminal
    <3> QED
      BY <1>1, <2>3, <3>3
  <2> QED
    BY <2>1, <2>2, <2>3
<1>9. VerdictKept
  <2> SUFFICES ASSUME NEW d \in Plans, plan[d].status \in Terminal
               PROVE  /\ plan'[d].status \in Terminal
                      /\ plan[d].status = "delivered" => plan'[d].status = "delivered"
                      /\ \/ plan'[d].status = plan[d].status
                         \/ \E p \in PartsOf(d) : /\ part[p].status # "delivered"
                                                  /\ part'[p].status = "delivered"
    BY DEF VerdictKept, Terminal
  <2>1. CASE d \notin D
    BY <1>1, <2>1
  <2>2. CASE d \in D
    <3>1. \A p \in PartsOf(d) : part[p].status \in Terminal
      BY <1>0, <1>4, Typing DEF IInv, TerminalPlanHasNoActivePart, CreatedTogether, Statuses,
         Active, Terminal
    <3>2. \A p \in PartsOf(d) : rows[p].status \in {part[p].status, "delivered"}
      BY <1>4, <3>1 DEF Settles
    <3>3. \A p \in PartsOf(d) : rows[p].status \notin Active /\ part'[p] = rows[p]
      BY <1>1, <1>4, <3>1, <3>2 DEF Active, Terminal
    <3>4. plan'[d].status = DerivedStatus(rows, d, cancel[d])
      BY <1>1, <2>2
    <3>5. plan'[d].status \in Terminal
      BY <1>3, <3>3, <3>4, DerivedCases DEF Active, Terminal
    <3>6. plan[d].status = DerivedStatus(part, d, plan[d].cancelRequested)
      BY <1>0 DEF ParentIsDerived, Terminal
    <3>7. CASE cancel[d] = plan[d].cancelRequested
      <4>1. ASSUME \A p \in PartsOf(d) : rows[p].status = part[p].status
            PROVE  plan'[d].status = plan[d].status
        BY <1>3, <3>4, <3>6, <3>7, <4>1, DerivedDepends
      <4>2. ASSUME plan[d].status = "delivered"
            PROVE  plan'[d].status = "delivered"
        <5>0. DerivedStatus(part, d, cancel[d]) = "delivered" /\ cancel[d] \in BOOLEAN
          BY <1>3, <3>6, <3>7, <4>2
        <5>1. /\ \A p \in PartsOf(d) \cap Required : part[p].status = "delivered"
              /\ cancel[d] => \A p \in PartsOf(d) : part[p].status = "delivered"
          BY <5>0, DerivedCases
        <5>2. /\ \A p \in PartsOf(d) \cap Required : rows[p].status = "delivered"
              /\ cancel[d] => \A p \in PartsOf(d) : rows[p].status = "delivered"
          BY <3>2, <5>1
        <5> QED
          BY <1>3, <3>3, <3>4, <5>2, DerivedCases DEF Active
      <4> QED
        BY <3>2, <3>3, <3>5, <4>1, <4>2
    <3>8. CASE cancel[d] /\ ~plan[d].cancelRequested
      <4>1. d \in ProactivePlans
        BY <2>2, <3>8 DEF Settles, Active, Terminal
      <4>2. PICK p \in Parts : /\ PlanOf[p] = d /\ p \in Required /\ PartsOf(d) = {p}
                               /\ \A q \in Parts : PlanOf[q] = d => q = p
        BY <4>1, SinglePart
      <4>3. part[p].status \in {"delivered", "failed"}
        BY <1>0, <3>1, <3>8, <4>2 DEF CancelledAlone, Terminal
      <4>4. plan[d].status = part[p].status
        BY <1>3, <3>6, <3>8, <4>2, <4>3, DerivedCases
      <4>5. plan'[d].status = rows[p].status
        BY <1>3, <3>2, <3>4, <4>2, <4>3, DerivedCases
      <4> QED
        BY <3>2, <3>3, <3>5, <4>2, <4>3, <4>4, <4>5
    <3> QED
      BY <1>3, <3>7, <3>8
  <2> QED
    BY <2>1, <2>2
<1>10. Unrequested'
  <2>1. \A d \in D : plan'[d].status # "absent"
    BY <1>1, DerivedStatusType DEF Active, Terminal
  <2> QED
    BY <1>0, <1>1, <2>1 DEF Unrequested
<1>11. CancelledKnown'
  <2> SUFFICES ASSUME NEW p \in Parts, part'[p].status = "cancelled"
               PROVE  \/ plan'[PlanOf[p]].cancelRequested
                      \/ plan'[PlanOf[p]].status \in Terminal
    BY DEF CancelledKnown
  <2>1. CASE PlanOf[p] \notin D
    <3>1. part'[p] = part[p] /\ plan'[PlanOf[p]] = plan[PlanOf[p]]
      BY <1>1, <1>2, <2>1
    <3> QED
      BY <1>0, <3>1 DEF CancelledKnown
  <2>2. CASE PlanOf[p] \in D /\ rows[p].status = "cancelled" /\ ~cancel[PlanOf[p]]
    <3>1. part[p].status = "cancelled" /\ ~plan[PlanOf[p]].cancelRequested
      BY <1>2, <2>2 DEF Settles
    <3>2. plan[PlanOf[p]].status \in Terminal
      BY <1>0, <3>1 DEF CancelledKnown
    <3> QED
      BY <1>2, <1>9, <3>2 DEF VerdictKept
  <2>3. CASE PlanOf[p] \in D /\ cancel[PlanOf[p]]
    BY <1>1, <2>3
  <2>4. CASE PlanOf[p] \in D /\ rows[p].status # "cancelled"
    BY <1>1, <2>4
  <2> QED
    BY <2>1, <2>2, <2>3, <2>4
<1> QED
  BY <1>7, <1>8, <1>9, <1>10, <1>11 DEF Verdicts

LEMMA CreateKeepsVerdict ==
    ASSUME VInv, NEW d \in Plans, NEW wait \in 0..DeferTicks, CreatePlan(d, wait)
    PROVE  Verdicts' /\ VerdictKept
<1>0. IInv /\ ParentIsDerived /\ CancelledAlone /\ CancelledKnown /\ Unrequested
  BY DEF VInv, Verdicts
<1>1. plan[d].status = "absent" /\ plan' = [plan EXCEPT ![d].status = "pending"]
  BY DEF CreatePlan
<1>2. \A p \in Parts : IF PlanOf[p] = d THEN part'[p].status = "pending" ELSE part'[p] = part[p]
  BY <1>0, Typing DEF CreatePlan, PartRow
<1>3. /\ plan'[d].status = "pending" /\ plan'[d].cancelRequested = plan[d].cancelRequested
      /\ \A e \in Plans : e # d => plan'[e] = plan[e]
      /\ \A e \in Plans : plan[e].cancelRequested \in BOOLEAN
  BY <1>0, <1>1 DEF IInv, TypeOK, PlanRow
<1>4. \A p \in Parts : PlanOf[p] \in Plans
  BY ShapeAssumption
<1>5. ~plan[d].cancelRequested
  BY <1>0, <1>1 DEF Unrequested
<1>6. ParentIsDerived'
  <2> SUFFICES ASSUME NEW e \in Plans, plan'[e].status # "absent"
               PROVE  plan'[e].status = DerivedStatus(part', e, plan'[e].cancelRequested)
    BY DEF ParentIsDerived
  <2>1. CASE e = d
    <3>1. PICK p \in PartsOf(d) : TRUE
      BY ShapeAssumption
    <3>2. \A q \in PartsOf(d) : part'[q].status = "pending"
      BY <1>2 DEF PartsOf
    <3> QED
      BY <1>3, <1>5, <2>1, <3>1, <3>2, DerivedCases
  <2>2. CASE e # d
    <3>1. \A p \in PartsOf(e) : part'[p].status = part[p].status
      BY <1>2, <2>2 DEF PartsOf
    <3>2. DerivedStatus(part', e, plan[e].cancelRequested)
             = DerivedStatus(part, e, plan[e].cancelRequested)
      BY <1>3, <3>1, DerivedDepends
    <3> QED
      BY <1>0, <1>3, <2>2, <3>2 DEF ParentIsDerived
  <2> QED
    BY <2>1, <2>2
<1>7. CancelledAlone'
  BY <1>0, <1>2, <1>3, <1>4 DEF CancelledAlone
<1>8. VerdictKept
  BY <1>1, <1>3 DEF VerdictKept, Terminal
<1>9. Unrequested'
  BY <1>0, <1>3 DEF Unrequested
<1>10. CancelledKnown'
  <2> SUFFICES ASSUME NEW p \in Parts, part'[p].status = "cancelled"
               PROVE  \/ plan'[PlanOf[p]].cancelRequested
                      \/ plan'[PlanOf[p]].status \in Terminal
    BY DEF CancelledKnown
  <2>1. PlanOf[p] # d /\ part[p].status = "cancelled"
    BY <1>2
  <2> QED
    BY <1>0, <1>3, <1>4, <2>1 DEF CancelledKnown
<1> QED
  BY <1>6, <1>7, <1>8, <1>9, <1>10 DEF Verdicts

\* Time is in no verdict.
LEMMA TickKeepsVerdict ==
    ASSUME VInv, plan' = plan, \A p \in Parts : part'[p].status = part[p].status
    PROVE  Verdicts' /\ VerdictKept
<1>0. IInv /\ ParentIsDerived /\ CancelledAlone /\ CancelledKnown /\ Unrequested
  BY DEF VInv, Verdicts
<1>1. \A d \in Plans : DerivedStatus(part', d, plan[d].cancelRequested)
                       = DerivedStatus(part, d, plan[d].cancelRequested)
  <2> SUFFICES ASSUME NEW d \in Plans
               PROVE  DerivedStatus(part', d, plan[d].cancelRequested)
                      = DerivedStatus(part, d, plan[d].cancelRequested)
    OBVIOUS
  <2>1. \A p \in PartsOf(d) : part'[p].status = part[p].status
    BY DEF PartsOf
  <2>2. plan[d].cancelRequested \in BOOLEAN
    BY <1>0 DEF IInv, TypeOK, PlanRow
  <2> QED
    BY <2>1, <2>2, DerivedDepends
<1>2. ParentIsDerived'
  BY <1>0, <1>1 DEF ParentIsDerived
<1>3. CancelledAlone' /\ CancelledKnown' /\ Unrequested'
  BY <1>0 DEF CancelledAlone, CancelledKnown, Unrequested
<1> QED
  BY <1>2, <1>3 DEF Verdicts, VerdictKept

LEMMA InitVerdicts == Init => Verdicts
<1> SUFFICES ASSUME Init PROVE Verdicts
  OBVIOUS
<1>1. /\ \A d \in Plans : plan[d].status = "absent" /\ ~plan[d].cancelRequested
      /\ \A p \in Parts : part[p].status = "absent"
  BY DEF Init, Absent
<1> QED
  BY <1>1 DEF Verdicts, ParentIsDerived, CancelledAlone, CancelledKnown, Unrequested

LEMMA NextVerdicts ==
    ASSUME VInv, [Next]_vars
    PROVE  Verdicts' /\ [VerdictKept]_vars
<1>0. IInv
  BY DEF VInv
<1>1. CASE UNCHANGED vars
  BY <1>1, TickKeepsVerdict DEF vars
<1>2. CASE Tick
  <2>1. plan' = plan /\ \A p \in Parts : part'[p].status = part[p].status
    BY <1>0, <1>2, Typing DEF Tick, Aged, PartRow
  <2> QED
    BY <2>1, TickKeepsVerdict
<1>3. ASSUME NEW d \in Plans, NEW wait \in 0..DeferTicks, CreatePlan(d, wait)
      PROVE  Verdicts' /\ VerdictKept
  BY <1>3, CreateKeepsVerdict
<1>4. CASE DeriveStep
  BY <1>4, DeriveKeepsVerdict
<1> QED
  BY <1>0, <1>1, <1>2, <1>3, <1>4, NextDerives

\* No method makes a plan but the one that creates it, and none removes one.
LEMMA NextExists ==
    ASSUME IInv, [Next]_vars
    PROVE  \/ \E d \in Plans : /\ plan[d].status = "absent"
                               /\ plan' = [plan EXCEPT ![d].status = "pending"]
           \/ \A d \in Plans : plan'[d].status = "absent" <=> plan[d].status = "absent"
<1>1. CASE UNCHANGED vars \/ Tick
  BY <1>1 DEF vars, Tick
<1>2. ASSUME NEW d \in Plans, NEW wait \in 0..DeferTicks, CreatePlan(d, wait)
      PROVE  /\ plan[d].status = "absent"
             /\ plan' = [plan EXCEPT ![d].status = "pending"]
  BY <1>2 DEF CreatePlan
<1>3. CASE DeriveStep
  <2> PICK rows \in [Parts -> PartRow], D \in SUBSET Plans, cancel \in [Plans -> BOOLEAN] :
          RowsStep(rows, D) /\ Derive(rows, D, cancel)
    BY <1>3 DEF DeriveStep
  <2>1. \A d \in D : plan[d].status # "absent"
    BY DEF RowsStep
  <2>2. \A d \in Plans : IF d \in D THEN plan'[d].status = DerivedStatus(rows, d, cancel[d])
                         ELSE plan'[d] = plan[d]
    BY DEF Derive
  <2>3. \A d \in D : plan'[d].status # "absent"
    BY <2>2, DerivedStatusType DEF Active, Terminal
  <2> QED
    BY <2>1, <2>2, <2>3
<1> QED
  BY <1>1, <1>2, <1>3, NextDerives

LEMMA VerdictInvariance == Spec => []VInv
<1>1. VInv /\ [Next]_vars => VInv'
  BY NextSafe, NextVerdicts DEF VInv
<1>2. Init => VInv
  BY InitSafe, InitVerdicts DEF VInv
<1> QED
  BY <1>1, <1>2, PTL DEF Spec

\* The status of a plan is always what deriving it from its parts would give: no method
\* that touches a part forgets the plan, and the cascade of a verdict does not change it.
THEOREM ParentMirrorsParts == Spec => []ParentIsDerived
<1>1. VInv => ParentIsDerived
  BY DEF VInv, Verdicts
<1> QED
  BY <1>1, VerdictInvariance, PTL

\* A verdict is not reopened, and only a receipt corrects one.
THEOREM VerdictStands == Spec => VerdictIsFinal
<1>1. VInv /\ [Next]_vars =>
        [\A d \in Plans :
            /\ plan[d].status \in Terminal => plan'[d].status \in Terminal
            /\ plan[d].status = "delivered" => plan'[d].status = "delivered"
            /\ plan[d].status \in Terminal /\ plan'[d].status # plan[d].status
               => \E p \in PartsOf(d) : /\ part[p].status # "delivered"
                                        /\ part'[p].status = "delivered"]_vars
  BY NextVerdicts DEF VerdictKept
<1> QED
  BY <1>1, VerdictInvariance, PTL DEF Spec, VerdictIsFinal

------------------------------------------------------------------------------
(* A plan under way. *)

\* A plan without a verdict has a part somebody can move: one that a claim may take, or,
\* once its cancellation was requested, one that is being sent and whose lease ends.
NeverStuck ==
    \A d \in Plans :
        plan[d].status \in Active
        => \E p \in PartsOf(d) : /\ IsTarget(p)
                                 /\ plan[d].cancelRequested => part[p].status = "sending"

\* Some part of a set comes first.
LEMMA FirstPart ==
    ASSUME NEW S \in SUBSET Parts, S # {}
    PROVE  \E p \in S : \A q \in S : Ordinal[p] <= Ordinal[q]
<1> DEFINE Less == {ss \in Nat \X Nat : ss[1] < ss[2]}
           Ordinals == {Ordinal[q] : q \in S}
<1>1. IsWellFoundedOn(Less, Nat)
  BY NatLessThanWellFounded DEF OpToRel
<1>2. Ordinals \subseteq Nat /\ Ordinals # {}
  BY ShapeAssumption
<1>3. PICK x \in Ordinals : \A y \in Ordinals : ~(<<y, x>> \in Less)
  <2> HIDE DEF Less, Ordinals
  <2> QED
    BY <1>1, <1>2, WFMin
<1>4. PICK p \in S : x = Ordinal[p]
  BY <1>3
<1>5. ASSUME NEW q \in S PROVE Ordinal[p] <= Ordinal[q]
  <2>1. Ordinal[q] \in Nat /\ Ordinal[p] \in Nat
    BY ShapeAssumption
  <2>2. ~(<<Ordinal[q], Ordinal[p]>> \in Less)
    BY <1>3, <1>4
  <2> QED
    BY <2>1, <2>2
<1> QED
  BY <1>5

\* What is being sent is what a claim may take.
LEMMA SendingIsTarget ==
    ASSUME IInv, NEW p \in Parts, part[p].status = "sending"
    PROVE  IsTarget(p)
<1>1. part[p].attempt > 0
  BY DEF IInv, SentIsAttempted
<1>2. \A q \in PartsOf(PlanOf[p]) : Before(q, p) => part[q].status = "delivered"
  BY <1>1 DEF IInv, AttemptedInOrder, PartsOf
<1> QED
  BY <1>2 DEF IsTarget, Passed, Active

LEMMA ActivePlanHasTarget ==
    ASSUME VInv, NEW d \in Plans, plan[d].status \in Active
    PROVE  \E p \in PartsOf(d) : /\ IsTarget(p)
                                 /\ plan[d].cancelRequested => part[p].status = "sending"
<1>0. IInv /\ ParentIsDerived /\ CancelledKnown
  BY DEF VInv, Verdicts
<1>1. \A p \in PartsOf(d) : p \in Parts /\ PlanOf[p] = d
  BY DEF PartsOf
<1>2. plan[d].cancelRequested \in BOOLEAN
  BY <1>0 DEF IInv, TypeOK, PlanRow
<1>3. /\ DerivedStatus(part, d, plan[d].cancelRequested) = plan[d].status
      /\ plan[d].status \in {"pending", "sending"}
  BY <1>0 DEF ParentIsDerived, Active
<1>4. /\ \A p \in PartsOf(d) \cap Required : part[p].status # "failed"
      /\ \/ \E p \in PartsOf(d) : part[p].status = "sending"
         \/ ~plan[d].cancelRequested /\ \E p \in PartsOf(d) : part[p].status = "pending"
  BY <1>2, <1>3, DerivedCases
<1>5. CASE \E p \in PartsOf(d) : part[p].status = "sending"
  BY <1>0, <1>1, <1>5, SendingIsTarget
<1>6. CASE ~plan[d].cancelRequested /\ \E p \in PartsOf(d) : part[p].status = "pending"
  <2> DEFINE Unfinished == {p \in PartsOf(d) : part[p].status \in Active}
  <2>1. Unfinished \in SUBSET Parts /\ Unfinished # {}
    BY <1>1, <1>6 DEF Active
  <2>2. PICK p \in Unfinished : \A q \in Unfinished : Ordinal[p] <= Ordinal[q]
    <3> HIDE DEF Unfinished
    <3> QED
      BY <2>1, FirstPart
  <2>3. p \in Parts /\ PlanOf[p] = d /\ part[p].status \in Active
    BY <1>1
  <2>4. ASSUME NEW q \in PartsOf(d), Before(q, p) PROVE Passed(q)
    <3>1. q \in Parts /\ PlanOf[q] = d
      BY <1>1
    <3>2. ~(Ordinal[p] <= Ordinal[q])
      BY <2>3, <2>4, <3>1, ShapeAssumption DEF Before
    <3>3. part[q].status \notin Active
      BY <2>2, <3>2
    \* Nothing was cancelled in this plan: its parts before the target are settled.
    <3>4. part[q].status \notin {"cancelled", "absent"}
      BY <1>0, <1>3, <1>6, <3>1 DEF CancelledKnown, IInv, CreatedTogether, Terminal
    <3>5. part[q].status \in {"delivered", "failed"}
      BY <1>0, <3>1, <3>3, <3>4, Typing DEF Statuses, Active, Terminal, PartRow
    <3> QED
      BY <1>4, <3>5 DEF Passed
  <2> QED
    BY <1>6, <2>3, <2>4 DEF IsTarget
<1> QED
  BY <1>4, <1>5, <1>6

\* Whatever failed, expired, was cancelled or was learned late, a plan that has no verdict
\* can still get one: the claim has a part to take or a part is in flight.  It is what
\* EveryPlanEnds of NapCatDelivery rests on besides fairness.
THEOREM PlanNeverStuck == Spec => []NeverStuck
<1>1. VInv => NeverStuck
  BY ActivePlanHasTarget DEF NeverStuck
<1> QED
  BY <1>1, VerdictInvariance, PTL

==============================================================================
