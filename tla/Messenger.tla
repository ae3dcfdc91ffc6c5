------------------------------- MODULE Messenger -------------------------------
(***************************************************************************)
(* What the author of a reply may count on, without leases, retries,       *)
(* journals or clocks: its bubbles appear in the chat at most once and in  *)
(* order, each after its predecessor is known to be there; the books only  *)
(* name bubbles that appeared; and every verdict is true of the books, is  *)
(* given once, and is only ever corrected by the news of a delivery.       *)
(***************************************************************************)
EXTENDS Integers

CONSTANTS Plans, Parts, PlanOf, Ordinal, Required

VARIABLES
    shown,      \* shown[p]: how often the part appeared in the chat
    booked,     \* the parts that are known to have been delivered
    verdict     \* verdict[d]: what became of the reply

chat == <<shown, booked, verdict>>

PartsOf(d) == {p \in Parts : PlanOf[p] = d}
Verdicts   == {"absent", "open", "delivered", "failed", "cancelled"}
Ended(v)   == v \in {"delivered", "failed", "cancelled"}

\* Verdict v says nothing false of a reply of which the parts in known were delivered.
Honest(d, v, known) ==
    /\ v = "delivered" => PartsOf(d) \cap Required \subseteq known
    /\ v = "failed"    => ~(PartsOf(d) \cap Required \subseteq known)
    /\ v = "cancelled" => ~(PartsOf(d) \subseteq known)

ChatInit ==
    /\ shown = [p \in Parts |-> 0]
    /\ booked = {}
    /\ verdict = [d \in Plans |-> "absent"]

Write(d) ==
    /\ verdict[d] = "absent"
    /\ verdict' = [verdict EXCEPT ![d] = "open"]
    /\ UNCHANGED <<shown, booked>>

\* A part appears, perhaps after the verdict: what left cannot be called back.
Show(p) ==
    /\ shown[p] = 0
    /\ verdict[PlanOf[p]] # "absent"
    /\ \A q \in PartsOf(PlanOf[p]) : Ordinal[q] < Ordinal[p] => q \in booked
    /\ shown' = [shown EXCEPT ![p] = 1]
    /\ UNCHANGED <<booked, verdict>>

\* A delivery becomes known; it may end the reply or correct how it ended.
Book(p) ==
    LET d == PlanOf[p]
    IN  /\ shown[p] > 0
        /\ p \notin booked
        /\ booked' = booked \cup {p}
        /\ \E v \in Verdicts :
              /\ Ended(v) \/ (v = "open" /\ verdict[d] = "open")
              /\ verdict[d] = "delivered" => v = "delivered"
              /\ Honest(d, v, booked')
              /\ verdict' = [verdict EXCEPT ![d] = v]
        /\ UNCHANGED shown

\* Open replies are given up, or come to an end without an optional part.
Conclude ==
    /\ verdict' \in [Plans -> Verdicts]
    /\ \A d \in Plans : verdict'[d] # verdict[d] =>
          /\ verdict[d] = "open"
          /\ Ended(verdict'[d])
          /\ Honest(d, verdict'[d], booked)
    /\ UNCHANGED <<shown, booked>>

ChatNext ==
    \/ \E d \in Plans : Write(d)
    \/ \E p \in Parts : Show(p) \/ Book(p)
    \/ Conclude

ChatSpec == ChatInit /\ [][ChatNext]_chat
==============================================================================
