---------------------------- MODULE SkillRuns_proofs ----------------------------
(***************************************************************************)
(* The safety of SkillRuns for any number of owners' calls, cancellations  *)
(* and waiters.  The inductive invariant SInv says who waits in the queue  *)
(* of the database (Queue, Asking), who may still call (Quiet), what       *)
(* became of the request and of the run it schedules (Settling, Approval), *)
(* how the row follows the execution (Follows), that whoever ends the run  *)
(* has told its task or comes before its start (InvokeFenced,              *)
(* CancelFenced, StopFenced), and what an end leaves to the task (Ended).  *)
(* On top of it, WInv says who has an end still to announce while somebody *)
(* waits for it.                                                           *)
(***************************************************************************)
EXTENDS SkillRuns, TLAPS, SequenceTheorems

Writes == {"create", "request", "start", "complete", "fail", "cancel", "mark", "allow",
           "deny", "expire"}
Places == Writes \cup {"idle", "snapshot", "compensate", "join", "read", "launch", "adapter",
                       "armed", "clear", "await", "reconcile", "done", "ended"}

\* a waits before b in the queue s.
Ahead(s, a, b) == \E i, j \in DOMAIN s : i < j /\ s[i] = a /\ s[j] = b

\* Whoever waits for an answer is in the queue, once.
Queue ==
    /\ db \in Seq(Actors) /\ IsInjective(db)
    /\ pc \in [Actors -> Places] /\ reply \in [Actors -> {"none", "wait", "won", "lost"}]
    /\ \A a \in Actors : reply[a] = "wait" <=> a \in Range(db)

Plain ==
    /\ skill \in Skills /\ row \in Open \cup Terminal \cup {"absent"}
    /\ request \in {"none", "pending", "allowed", "denied", "expired"}
    /\ handle \in [Cancellers -> BOOLEAN] /\ sig \in BOOLEAN /\ ready \in BOOLEAN
    /\ args \in BOOLEAN /\ revision \in 0..MaxRevision /\ effects \subseteq 0..MaxRevision
    /\ waiter \in [Waiters -> {"idle", "read", "registered", "signalled", "parked", "woken"}]
    /\ torn \in 0..MaxTorn

\* Everybody is at one of its own awaits, with an answer exactly in a write.
Asking ==
    /\ \A a \in Actors : reply[a] = "none" <=> pc[a] \notin Writes
    /\ pc["invoke"] \in {"idle", "create", "request", "snapshot", "compensate", "join", "fail",
                         "done", "ended"}
    /\ pc["execute"] \in {"idle", "read", "start", "launch", "adapter", "complete", "fail",
                          "cancel", "ended"}
    /\ pc["timer"] \in {"idle", "armed", "expire", "ended"}
    /\ pc["invoke"] \in {"idle", "create", "request"} => pc["timer"] = "idle"
    /\ pc["stop"] \in {"idle", "join", "clear", "cancel", "done", "ended"}
    /\ \A d \in Deciders : pc[d] \in {"idle", "allow", "deny", "expire", "fail", "cancel",
                                      "reconcile", "done", "ended"}
    /\ \A c \in Cancellers : pc[c] \in {"idle", "mark", "await", "join", "cancel", "reconcile",
                                        "done", "ended"}

\* A stop finds the callers gone, and nobody outlives the process.
Quiet ==
    /\ ~Serving =>
          \A a \in {"invoke"} \cup Deciders \cup Cancellers : pc[a] \in {"idle", "done", "ended"}
    /\ pc["stop"] = "ended" => \A a \in Actors : pc[a] = "ended"

\* The request is settled once, and what followed from its settlement is known.
Settling ==
    /\ (request # "none" \/ pc["invoke"] = "request") => skill.confirm
    /\ pc["invoke"] \in {"idle", "create"} => request = "none" /\ pc["execute"] = "idle"
    /\ Got("invoke", "request", "wait") => request = "none"
    /\ \A d \in Deciders : /\ Got(d, "deny", "won") => request = "denied"
                           /\ pc[d] = "cancel" => request = "allowed"
                           /\ pc[d] = "fail" => revision # 0 \/ request = "denied"

\* The run is scheduled once: without a confirmation by its admission, with one by the
\* decision whose approval was committed.
Approval ==
    /\ (skill.confirm /\ request # "allowed" /\ pc["stop"] # "ended") => pc["execute"] = "idle"
    /\ \A d \in Deciders : Got(d, "allow", "won") =>
          /\ request = "allowed" /\ pc["execute"] = "idle"
          /\ \A e \in Deciders : Got(e, "allow", "won") => e = d
    /\ skill.confirm /\ Live => \E e \in Deciders : pc[e] = "done"

\* The start of the run is still to be committed, or it was and the effect is next.
Asks      == Got("execute", "start", "wait")
PreStart  == pc["execute"] \in {"idle", "read"} \/ Asks
Begun     == pc["execute"] = "launch" \/ Got("execute", "start", "won")
Stoppable == pc["execute"] \in {"read", "start", "launch"}
Doomed    == {"cancelling"} \cup Terminal

\* The row follows the task up to its effect.
Follows ==
    /\ PreStart => row # "running"
    /\ Begun => row \notin {"absent", "created", "waiting"}
    /\ row = "absent" => \A c \in Cancellers : pc[c] \in {"idle", "ended"}

\* The signal of the task is set, or it is past what a signal prevents.
Told == pc["execute"] # "idle" /\ (Stoppable => sig)

\* Who compensates for an admission ends the run before it starts, or has told the task.
InvokeFenced ==
    /\ pc["invoke"] = "join" => Told
    /\ Got("invoke", "fail", "wait") =>
          sig \/ (~Begun /\ (Asks => Ahead(db, "invoke", "execute")))

\* So has who cancels; a run that is marked does not start any more.
FencedBy(c) ==
    /\ pc[c] = "mark" /\ reply[c] = "won" => row \in Doomed
    /\ pc[c] = "mark" /\ ~handle[c] =>
          /\ ~Begun
          /\ PreStart /\ reply[c] # "wait" => row \in Doomed
          /\ Asks /\ reply[c] = "wait" => Ahead(db, c, "execute")
    /\ pc[c] \in {"join", "cancel"} => row \in Doomed
    /\ pc[c] = "join" => Told
    /\ pc[c] = "cancel" /\ Begun => sig

CancelFenced == \A c \in Cancellers : FencedBy(c)

\* And who stops the service.
StopFenced == ~Serving /\ Stoppable => sig

\* An effect that would come after the end is called off.
Ended == Begun /\ row \in Terminal => sig \/ revision # 0 \/ Overruled

SInv == /\ Queue /\ Plain /\ Asking /\ Quiet /\ Settling /\ Approval
        /\ Follows /\ InvokeFenced /\ CancelFenced /\ StopFenced /\ Ended

------------------------------------------------------------------------------
(* The queue of the database. *)

LEMMA Names ==
  /\ "invoke" \in Actors /\ "execute" \in Actors /\ "timer" \in Actors /\ "stop" \in Actors
  /\ \A d \in Deciders : /\ d \in Actors /\ d \notin {"invoke", "execute", "timer", "stop"}
                         /\ d \notin Cancellers
  /\ \A c \in Cancellers : c \in Actors /\ c \notin {"invoke", "execute", "timer", "stop"}
  /\ \A a \in Actors : \/ a \in {"invoke", "execute", "timer", "stop"}
                       \/ a \in Deciders \/ a \in Cancellers
  BY SkillAssumption DEF Actors, Tasks

LEMMA AppendQueue ==
  ASSUME NEW S, NEW s \in Seq(S), IsInjective(s), NEW e \in S, e \notin Range(s)
  PROVE  /\ Append(s, e) \in Seq(S) /\ IsInjective(Append(s, e))
         /\ Range(Append(s, e)) = Range(s) \cup {e}
         /\ \A b \in Range(s) : Ahead(Append(s, e), b, e)
         /\ \A b, c : Ahead(s, b, c) => Ahead(Append(s, e), b, c)
<1> DEFINE t == Append(s, e)
           n == Len(s)
<1>1. /\ t \in Seq(S) /\ n \in Nat /\ DOMAIN s = 1..n /\ DOMAIN t = 1..(n + 1)
      /\ t[n + 1] = e /\ \A i \in 1..n : t[i] = s[i]
  OBVIOUS
<1> HIDE DEF t, n
<1>2. IsInjective(t)
  BY <1>1 DEF IsInjective, Range
<1>3. Range(t) = Range(s) \cup {e}
  <2>1. \A x \in Range(t) : x \in Range(s) \cup {e}
    BY <1>1 DEF Range
  <2>2. \A x \in Range(s) \cup {e} : x \in Range(t)
    BY <1>1 DEF Range
  <2> QED
    BY <2>1, <2>2
<1>4. \A b \in Range(s) : Ahead(t, b, e)
  BY <1>1 DEF Range, Ahead
<1>5. \A b, c : Ahead(s, b, c) => Ahead(t, b, c)
  BY <1>1 DEF Ahead
<1> QED
  BY <1>1, <1>2, <1>3, <1>4, <1>5 DEF t

LEMMA TailQueue ==
  ASSUME NEW S, NEW s \in Seq(S), IsInjective(s), s # <<>>
  PROVE  /\ Tail(s) \in Seq(S) /\ IsInjective(Tail(s)) /\ Head(s) \in S
         /\ Range(Tail(s)) = Range(s) \ {Head(s)} /\ Head(s) \in Range(s)
         /\ \A b : ~Ahead(s, b, Head(s))
         /\ \A b, c : b # Head(s) /\ Ahead(s, b, c) => Ahead(Tail(s), b, c)
<1> DEFINE t == Tail(s)
           h == Head(s)
           n == Len(s)
<1>1. /\ t \in Seq(S) /\ n \in Nat \ {0} /\ DOMAIN s = 1..n /\ DOMAIN t = 1..(n - 1)
      /\ h = s[1] /\ h \in S /\ \A i \in 1..(n - 1) : t[i] = s[i + 1]
  BY HeadTailProperties, LenProperties, EmptySeq
<1> HIDE DEF t, h, n
<1>2. IsInjective(t)
  <2>1. ASSUME NEW i \in 1..(n - 1), NEW j \in 1..(n - 1), t[i] = t[j] PROVE i = j
    <3>1. i + 1 \in 1..n /\ j + 1 \in 1..n /\ s[i + 1] = s[j + 1]
      BY <1>1, <2>1
    <3>2. i + 1 = j + 1
      BY <1>1, <3>1 DEF IsInjective
    <3> QED
      BY <3>2
  <2> QED
    BY <1>1, <2>1 DEF IsInjective
<1>3. Range(t) = Range(s) \ {h} /\ h \in Range(s)
  <2>1. \A x \in Range(t) : x \in Range(s) /\ x # h
    BY <1>1 DEF Range, IsInjective
  <2>2. ASSUME NEW i \in 1..n, s[i] # h PROVE s[i] \in Range(t)
    <3>1. i - 1 \in 1..(n - 1) /\ t[i - 1] = s[i]
      BY <1>1, <2>2
    <3> QED
      BY <1>1, <3>1 DEF Range
  <2>3. h \in Range(s)
    BY <1>1 DEF Range
  <2>4. \A x \in Range(s) \ {h} : x \in Range(t)
    BY <1>1, <2>2 DEF Range
  <2> QED
    BY <2>1, <2>3, <2>4
<1>4. \A b : ~Ahead(s, b, h)
  BY <1>1 DEF IsInjective, Ahead
<1>5. ASSUME NEW b, NEW c, b # h, Ahead(s, b, c) PROVE Ahead(t, b, c)
  <2>1. PICK i \in 1..n, j \in 1..n : i < j /\ s[i] = b /\ s[j] = c
    BY <1>1, <1>5 DEF Ahead
  <2>2. /\ i - 1 \in 1..(n - 1) /\ j - 1 \in 1..(n - 1) /\ i - 1 < j - 1
        /\ t[i - 1] = b /\ t[j - 1] = c
    BY <1>1, <1>5, <2>1
  <2> QED
    BY <1>1, <2>2 DEF Ahead
<1> QED
  BY <1>1, <1>2, <1>3, <1>4, <1>5 DEF t, h

LEMMA WithoutQueue ==
  ASSUME db \in Seq(Actors), IsInjective(db), NEW a
  PROVE  /\ Without(a) \in Seq(Actors) /\ IsInjective(Without(a))
         /\ Range(Without(a)) = Range(db) \ {a}
         /\ \A b, c : b # a /\ c # a /\ Ahead(db, b, c) => Ahead(Without(a), b, c)
<1>1. CASE a \notin Range(db)
  BY <1>1 DEF Without
<1>2. CASE a \in Range(db)
  <2> DEFINE k == CHOOSE i \in DOMAIN db : db[i] = a
             n == Len(db)
             t == Without(a)
  <2>1. /\ n \in Nat /\ DOMAIN db = 1..n /\ db \in [1..n -> Actors]
        /\ k \in 1..n /\ db[k] = a
    BY <1>2 DEF Range
  <2>2. t = [i \in 1..(n - 1) |-> IF i < k THEN db[i] ELSE db[i + 1]]
    BY <1>2 DEF Without
  <2> HIDE DEF k, n, t
  <2>3. t \in Seq(Actors) /\ DOMAIN t = 1..(n - 1)
    <3>1. t \in [1..(n - 1) -> Actors]
      BY <2>1, <2>2
    <3> QED
      BY <2>1, <3>1, SeqDef
  <2>4. \A i \in 1..(n - 1) : t[i] = IF i < k THEN db[i] ELSE db[i + 1]
    BY <2>2
  <2>5. IsInjective(t)
    BY <2>1, <2>3, <2>4 DEF IsInjective
  <2>6. ASSUME NEW i \in 1..n, i # k
        PROVE  \E j \in 1..(n - 1) : t[j] = db[i] /\ j = IF i < k THEN i ELSE i - 1
    <3>1. CASE i < k
      BY <2>1, <2>4, <2>6, <3>1
    <3>2. CASE i > k
      <4>1. i - 1 \in 1..(n - 1) /\ ~(i - 1 < k) /\ (i - 1) + 1 = i /\ ~(i < k)
        BY <2>1, <3>2
      <4>2. t[i - 1] = db[i]
        BY <2>4, <4>1
      <4> QED
        BY <4>1, <4>2
    <3> QED
      BY <2>1, <2>6, <3>1, <3>2
  <2>7. Range(t) = Range(db) \ {a}
    <3>1. \A x \in Range(t) : x \in Range(db) \ {a}
      BY <2>1, <2>3, <2>4 DEF Range, IsInjective
    <3>2. \A x \in Range(db) \ {a} : x \in Range(t)
      BY <2>1, <2>3, <2>6 DEF Range
    <3> QED
      BY <3>1, <3>2
  <2>8. ASSUME NEW b, NEW c, b # a, c # a, Ahead(db, b, c) PROVE Ahead(t, b, c)
    <3>1. PICK i \in 1..n, j \in 1..n : i < j /\ db[i] = b /\ db[j] = c
      BY <2>1, <2>8 DEF Ahead
    <3>2. PICK x \in 1..(n - 1) : t[x] = b /\ x = IF i < k THEN i ELSE i - 1
      BY <2>1, <2>6, <2>8, <3>1
    <3>3. PICK y \in 1..(n - 1) : t[y] = c /\ y = IF j < k THEN j ELSE j - 1
      BY <2>1, <2>6, <2>8, <3>1
    <3>4. x < y
      BY <2>1, <2>8, <3>1, <3>2, <3>3
    <3> QED
      BY <2>3, <3>2, <3>3, <3>4 DEF Ahead
  <2> QED
    BY <2>3, <2>5, <2>7, <2>8 DEF t
<1> QED
  BY <1>1, <1>2

------------------------------------------------------------------------------
(* How callers move: everybody but the movers stays, and keeps its turn. *)

Kept(A) ==
    /\ \A b \in Actors \ A : pc'[b] = pc[b] /\ reply'[b] = reply[b]
    /\ \A b, c \in Actors \ A : Ahead(db, b, c) => Ahead(db', b, c)

LEMMA AskMoves ==
  ASSUME Queue, NEW a \in Actors, reply[a] # "wait", NEW op \in Places, Ask(a, op)
  PROVE  /\ Queue' /\ Kept({a}) /\ pc'[a] = op /\ reply'[a] = "wait"
         /\ \A b \in Actors : reply[b] = "wait" => Ahead(db', b, a)
<1>1. a \notin Range(db) /\ db' = Append(db, a)
  BY DEF Queue, Ask
<1>2. /\ db' \in Seq(Actors) /\ IsInjective(db') /\ Range(db') = Range(db) \cup {a}
      /\ \A b \in Range(db) : Ahead(db', b, a)
      /\ \A b, c : Ahead(db, b, c) => Ahead(db', b, c)
  BY <1>1, AppendQueue DEF Queue
<1> QED
  BY <1>2 DEF Queue, Ask, Kept

LEMMA GotoMoves ==
  ASSUME Queue, NEW a \in Actors, reply[a] # "wait", NEW to \in Places, Goto(a, to)
  PROVE  Queue' /\ Kept({a}) /\ pc'[a] = to /\ reply'[a] = "none"
  BY DEF Queue, Goto, Kept

\* What a commit leaves alone.
Stays == UNCHANGED <<pc, handle, sig, ready, args, waiter, world>>

LEMMA CasMoves ==
  ASSUME Queue, NEW op, NEW from, NEW to, Cas(op, from, to), pc' = pc
  PROVE  \E h \in Actors :
            /\ Queue' /\ Kept({h}) /\ pc[h] = op /\ reply[h] = "wait"
            /\ reply'[h] = IF row \in from THEN "won" ELSE "lost"
            /\ row' = IF row \in from THEN to ELSE row
            /\ \A b : ~Ahead(db, b, h)
<1> DEFINE h == Head(db)
<1>1. db \in Seq(Actors) /\ IsInjective(db) /\ db # <<>> /\ db' = Tail(db)
  BY DEF Queue, Cas
<1>2. /\ db' \in Seq(Actors) /\ IsInjective(db') /\ Range(db') = Range(db) \ {h}
      /\ h \in Actors /\ h \in Range(db)
      /\ \A b : ~Ahead(db, b, h)
      /\ \A b, c : b # h /\ Ahead(db, b, c) => Ahead(db', b, c)
  BY <1>1, TailQueue
<1>3. /\ pc[h] = op /\ reply[h] = "wait"
      /\ reply' = [reply EXCEPT ![h] = IF row \in from THEN "won" ELSE "lost"]
  BY <1>2 DEF Queue, Cas
<1> HIDE DEF h
<1>4. Queue' /\ reply'[h] = IF row \in from THEN "won" ELSE "lost"
  BY <1>2, <1>3 DEF Queue
<1>5. Kept({h})
  BY <1>2, <1>3 DEF Queue, Kept
<1> QED
  BY <1>2, <1>3, <1>4, <1>5 DEF Cas

\* The timer is dropped, wherever it is.
NoTimerNow ==
    /\ pc'["timer"] = IF pc["timer"] = "idle" THEN "idle" ELSE "ended"
    /\ reply'["timer"] = "none"

LEMMA DropAndAskMoves ==
  ASSUME Queue, NEW a \in Actors, a # "timer", reply[a] # "wait", NEW op \in Places,
         DropAndAsk(a, op)
  PROVE  Queue' /\ Kept({a, "timer"}) /\ NoTimerNow /\ pc'[a] = op /\ reply'[a] = "wait"
<1>1. /\ Without("timer") \in Seq(Actors) /\ IsInjective(Without("timer"))
      /\ Range(Without("timer")) = Range(db) \ {"timer"}
      /\ \A b, c : b # "timer" /\ c # "timer" /\ Ahead(db, b, c) =>
            Ahead(Without("timer"), b, c)
  BY WithoutQueue DEF Queue
<1>2. a \notin Range(Without("timer")) /\ db' = Append(Without("timer"), a)
  BY <1>1 DEF Queue, DropAndAsk
<1>3. /\ db' \in Seq(Actors) /\ IsInjective(db')
      /\ Range(db') = (Range(db) \ {"timer"}) \cup {a}
      /\ \A b, c : Ahead(Without("timer"), b, c) => Ahead(db', b, c)
  BY <1>1, <1>2, AppendQueue
<1>4. "timer" \in Actors
  BY Names
<1>5. /\ pc' = [NoTimer EXCEPT ![a] = op]
      /\ reply' = [reply EXCEPT !["timer"] = "none", ![a] = "wait"]
  BY DEF DropAndAsk
<1>6. NoTimer \in [Actors -> Places]
  BY <1>4 DEF Queue, NoTimer, Places
<1>7. /\ \A b \in Actors \ {a, "timer"} : pc'[b] = pc[b] /\ reply'[b] = reply[b]
      /\ NoTimerNow /\ pc'[a] = op /\ reply'[a] = "wait"
  BY <1>4, <1>5 DEF Queue, NoTimer, NoTimerNow
<1>8. /\ pc' \in [Actors -> Places] /\ reply' \in [Actors -> {"none", "wait", "won", "lost"}]
  BY <1>4, <1>5, <1>6 DEF Queue
<1>9. \A b \in Actors : reply'[b] = "wait" <=> b \in Range(db')
  BY <1>3, <1>7 DEF Queue, NoTimerNow
<1> QED
  BY <1>1, <1>3, <1>7, <1>8, <1>9 DEF Queue, Kept

LEMMA DropAndGotoMoves ==
  ASSUME Queue, NEW a \in Actors, a # "timer", reply[a] # "wait", NEW to \in Places,
         DropAndGoto(a, to)
  PROVE  Queue' /\ Kept({a, "timer"}) /\ NoTimerNow /\ pc'[a] = to /\ reply'[a] = "none"
<1>1. /\ db' \in Seq(Actors) /\ IsInjective(db') /\ Range(db') = Range(db) \ {"timer"}
      /\ \A b, c : b # "timer" /\ c # "timer" /\ Ahead(db, b, c) => Ahead(db', b, c)
  BY WithoutQueue DEF Queue, DropAndGoto
<1>2. "timer" \in Actors
  BY Names
<1>3. /\ pc' = [NoTimer EXCEPT ![a] = to]
      /\ reply' = [reply EXCEPT !["timer"] = "none", ![a] = "none"]
  BY DEF DropAndGoto
<1>4. NoTimer \in [Actors -> Places]
  BY <1>2 DEF Queue, NoTimer, Places
<1>5. /\ \A b \in Actors \ {a, "timer"} : pc'[b] = pc[b] /\ reply'[b] = reply[b]
      /\ NoTimerNow /\ pc'[a] = to /\ reply'[a] = "none"
  BY <1>2, <1>3 DEF Queue, NoTimer, NoTimerNow
<1>6. /\ pc' \in [Actors -> Places] /\ reply' \in [Actors -> {"none", "wait", "won", "lost"}]
  BY <1>2, <1>3, <1>4 DEF Queue
<1>7. \A b \in Actors : reply'[b] = "wait" <=> b \in Range(db')
  BY <1>1, <1>5 DEF Queue, NoTimerNow
<1> QED
  BY <1>1, <1>5, <1>6, <1>7 DEF Queue, Kept

LEMMA TornMoves ==
  ASSUME Queue, NEW a \in Actors, NEW where, Torn(a, where)
  PROVE  /\ Queue' /\ Kept({a}) /\ reply'[a] = "none"
         /\ pc'[a] = IF a = "invoke" THEN "compensate" ELSE "reconcile"
         /\ pc[a] \in where \/ Done(a, {"fail", "cancel"})
         /\ UNCHANGED <<row, request, handle, sig, skill, revision, effects>>
<1>1. /\ db' \in Seq(Actors) /\ IsInjective(db') /\ Range(db') = Range(db) \ {a}
      /\ \A b, c : b # a /\ c # a /\ Ahead(db, b, c) => Ahead(db', b, c)
  BY WithoutQueue DEF Queue, Torn
<1> QED
  BY <1>1 DEF Queue, Torn, Kept, Places

LEMMA SignalMoves ==
  ASSUME Queue, SignalArrives
  PROVE  /\ Queue' /\ Kept({"execute"}) /\ pc'["execute"] = "cancel"
         /\ reply'["execute"] = "wait" /\ ~sig'
         /\ pc["execute"] \in {"read", "start", "launch", "adapter", "fail"}
         /\ UNCHANGED <<row, request, handle, skill, revision, effects>>
<1>1. "execute" \in Actors
  BY Names
<1>2. /\ Without("execute") \in Seq(Actors) /\ IsInjective(Without("execute"))
      /\ Range(Without("execute")) = Range(db) \ {"execute"}
      /\ \A b, c : b # "execute" /\ c # "execute" /\ Ahead(db, b, c) =>
            Ahead(Without("execute"), b, c)
  BY WithoutQueue DEF Queue
<1>3. /\ db' \in Seq(Actors) /\ IsInjective(db') /\ Range(db') = Range(db) \cup {"execute"}
      /\ \A b, c : Ahead(Without("execute"), b, c) => Ahead(db', b, c)
  BY <1>1, <1>2, AppendQueue DEF SignalArrives
<1>4. /\ pc' = [pc EXCEPT !["execute"] = "cancel"]
      /\ reply' = [reply EXCEPT !["execute"] = "wait"]
  BY DEF SignalArrives
<1>5. \A b \in Actors : reply'[b] = "wait" <=> b \in Range(db')
  BY <1>1, <1>3, <1>4 DEF Queue
<1>6. /\ pc' \in [Actors -> Places] /\ reply' \in [Actors -> {"none", "wait", "won", "lost"}]
  BY <1>1, <1>4 DEF Queue, Places, Writes
<1>7. Kept({"execute"})
  BY <1>2, <1>3, <1>4 DEF Queue, Kept
<1> QED
  BY <1>1, <1>3, <1>4, <1>5, <1>6, <1>7 DEF Queue, SignalArrives, world

LEMMA AllowedMoves ==
  ASSUME Queue, NEW d \in Deciders, Allowed(d)
  PROVE  /\ Queue' /\ Kept({d, "execute", "timer"}) /\ NoTimerNow
         /\ pc'[d] = "done" /\ reply'[d] = "none"
         /\ pc'["execute"] = "read" /\ reply'["execute"] = reply["execute"]
         /\ Got(d, "allow", "won")
         /\ UNCHANGED <<row, request, handle, sig, skill, revision, effects>>
<1>1. /\ db' \in Seq(Actors) /\ IsInjective(db') /\ Range(db') = Range(db) \ {"timer"}
      /\ \A b, c : b # "timer" /\ c # "timer" /\ Ahead(db, b, c) => Ahead(db', b, c)
  BY WithoutQueue DEF Queue, Allowed
<1>2. /\ {"timer", "execute", d} \subseteq Actors
      /\ d # "timer" /\ d # "execute"
  BY Names
<1>3. /\ pc' = [NoTimer EXCEPT ![d] = "done", !["execute"] = "read"]
      /\ reply' = [reply EXCEPT !["timer"] = "none", ![d] = "none"] /\ reply[d] = "won"
  BY DEF Allowed, Got
<1>4. NoTimer \in [Actors -> Places]
  BY <1>2 DEF Queue, NoTimer, Places
<1>5. /\ \A b \in Actors \ {d, "execute", "timer"} : pc'[b] = pc[b] /\ reply'[b] = reply[b]
      /\ NoTimerNow /\ pc'[d] = "done" /\ reply'[d] = "none"
      /\ pc'["execute"] = "read" /\ reply'["execute"] = reply["execute"]
  BY <1>2, <1>3 DEF Queue, NoTimer, NoTimerNow
<1>6. /\ pc' \in [Actors -> Places] /\ reply' \in [Actors -> {"none", "wait", "won", "lost"}]
  BY <1>2, <1>3, <1>4 DEF Queue, Places
<1>7. \A b \in Actors : reply'[b] = "wait" <=> b \in Range(db')
  BY <1>1, <1>2, <1>3, <1>5 DEF Queue, NoTimerNow
<1> QED
  BY <1>1, <1>5, <1>6, <1>7 DEF Queue, Kept, Allowed, world

LEMMA AdmittedMoves ==
  ASSUME Queue, Admitted
  PROVE  /\ Queue' /\ Kept({"invoke", "execute"}) /\ reply'["execute"] = reply["execute"]
         /\ Got("invoke", "create", "won")
         /\ skill.confirm => /\ pc'["invoke"] = "request" /\ reply'["invoke"] = "wait"
                             /\ pc'["execute"] = pc["execute"]
         /\ ~skill.confirm => /\ pc'["invoke"] = "snapshot" /\ reply'["invoke"] = "none"
                              /\ pc'["execute"] = "read"
         /\ UNCHANGED <<row, request, handle, sig, skill, revision, effects>>
<1>1. /\ Got("invoke", "create", "won")
      /\ UNCHANGED <<row, request, handle, sig, skill, revision, effects>>
  BY DEF Admitted, world
<1>2. CASE skill.confirm
  BY <1>1, <1>2, Names, AskMoves DEF Admitted, Got, Kept, Places, Writes
<1>3. CASE ~skill.confirm
  <2>1. /\ pc' = [pc EXCEPT !["invoke"] = "snapshot", !["execute"] = "read"]
        /\ reply' = [reply EXCEPT !["invoke"] = "none"] /\ db' = db
    BY <1>3 DEF Admitted
  <2> QED
    BY <1>1, <1>3, <2>1, Names DEF Queue, Got, Kept, Places
<1> QED
  BY <1>2, <1>3

LEMMA RequestedMoves ==
  ASSUME Queue, Requested
  PROVE  /\ Queue' /\ Kept({"invoke", "timer"}) /\ reply'["timer"] = reply["timer"]
         /\ pc'["invoke"] = "snapshot" /\ reply'["invoke"] = "none" /\ pc'["timer"] = "armed"
         /\ Got("invoke", "request", "won")
         /\ UNCHANGED <<row, request, handle, sig, skill, revision, effects>>
<1>1. /\ pc' = [pc EXCEPT !["invoke"] = "snapshot", !["timer"] = "armed"]
      /\ reply' = [reply EXCEPT !["invoke"] = "none"] /\ db' = db
      /\ Got("invoke", "request", "won")
      /\ UNCHANGED <<row, request, handle, sig, skill, revision, effects>>
  BY DEF Requested, world
<1> QED
  BY <1>1, Names DEF Queue, Got, Kept, Places

LEMMA RestartMoves ==
  ASSUME Queue, Restart
  PROVE  /\ Queue' /\ \A a \in Actors : pc'[a] = "ended" /\ reply'[a] = "none"
         /\ row' = IF row \in Open THEN "expired" ELSE row
         /\ request' = IF request = "pending" THEN "expired" ELSE request
         /\ UNCHANGED <<skill, revision, effects>>
<1>1. /\ db' = <<>> /\ db' \in Seq(Actors) /\ Range(db') = {} /\ IsInjective(db')
      /\ UNCHANGED <<skill, revision, effects>>
  BY DEF Restart, Range, IsInjective, world
<1>2. pc' = [a \in Actors |-> "ended"] /\ reply' = [a \in Actors |-> "none"]
  BY DEF Restart
<1> QED
  BY <1>1, <1>2 DEF Queue, Places, Restart

------------------------------------------------------------------------------
(* Every step keeps each part of the invariant. *)

LEMMA AskingStep == ASSUME SInv, SNext PROVE Queue' /\ Asking'
<1>0. Queue /\ Asking /\ Settling /\ Approval
  BY DEF SInv
<1>q. ASSUME UNCHANGED <<pc, reply, db>> PROVE Queue' /\ Asking'
  BY <1>0, <1>q DEF Queue, Asking
<1>1. ASSUME \/ Revise
      PROVE  Queue' /\ Asking'
  BY <1>1, <1>q DEF Revise, memory
<1>2. ASSUME NEW d \in Deciders,
             \/ DecideTooLate(d)
      PROVE  Queue' /\ Asking'
  BY <1>2, <1>q DEF DecideTooLate, world
<1>3. ASSUME NEW w \in Waiters,
             \/ WaitBegins(w) \/ WaitRegisters(w) \/ WaitRereads(w)
      PROVE  Queue' /\ Asking'
  BY <1>3, <1>q DEF WaitBegins, WaitRegisters, WaitRereads, world
<1>4. ASSUME CreateRun, Stays PROVE Queue' /\ Asking'
  BY <1>0, <1>4, Names, CasMoves DEF CreateRun, Stays, world, Asking, Writes, Places, Kept,
      NoTimerNow, Got, Done
<1>5. ASSUME CreateRequest, Stays PROVE Queue' /\ Asking'
  BY <1>0, <1>5, Names, CasMoves DEF CreateRequest, Stays, world, Asking, Writes, Places, Kept,
      NoTimerNow, Got, Done
<1>6. ASSUME MarkRunning, Stays PROVE Queue' /\ Asking'
  BY <1>0, <1>6, Names, CasMoves DEF MarkRunning, Stays, world, Asking, Writes, Places, Kept,
      NoTimerNow, Got, Done
<1>7. ASSUME CompleteRun, Stays PROVE Queue' /\ Asking'
  BY <1>0, <1>7, Names, CasMoves DEF CompleteRun, Stays, world, Asking, Writes, Places, Kept,
      NoTimerNow, Got, Done
<1>8. ASSUME FailRun, Stays PROVE Queue' /\ Asking'
  BY <1>0, <1>8, Names, CasMoves DEF FailRun, Closes, Stays, world, Asking, Writes, Places,
      Kept, NoTimerNow, Got, Done
<1>9. ASSUME CancelRun, Stays PROVE Queue' /\ Asking'
  BY <1>0, <1>9, Names, CasMoves DEF CancelRun, Closes, Stays, world, Asking, Writes, Places,
      Kept, NoTimerNow, Got, Done
<1>10. ASSUME MarkCancelling, Stays PROVE Queue' /\ Asking'
  BY <1>0, <1>10, Names, CasMoves DEF MarkCancelling, Stays, world, Asking, Writes, Places,
      Kept, NoTimerNow, Got, Done
<1>11. ASSUME DecideAllow, Stays PROVE Queue' /\ Asking'
  BY <1>0, <1>11, Names, CasMoves DEF DecideAllow, Pending, Stays, world, Asking, Writes,
      Places, Kept, NoTimerNow, Got, Done
<1>12. ASSUME DecideDeny, Stays PROVE Queue' /\ Asking'
  BY <1>0, <1>12, Names, CasMoves DEF DecideDeny, Pending, Stays, world, Asking, Writes,
      Places, Kept, NoTimerNow, Got, Done
<1>13. ASSUME ExpireRequest, Stays PROVE Queue' /\ Asking'
  BY <1>0, <1>13, Names, CasMoves DEF ExpireRequest, Pending, Stays, world, Asking, Writes,
      Places, Kept, NoTimerNow, Got, Done
<1>14. ASSUME Invoke PROVE Queue' /\ Asking'
  BY <1>0, <1>14, Names, AskMoves DEF Invoke, world, Asking, Writes, Places, Kept, NoTimerNow,
      Got, Done
<1>15. ASSUME StopBegins PROVE Queue' /\ Asking'
  BY <1>0, <1>15, Names, DropAndGotoMoves DEF StopBegins, world, Asking, Writes, Places, Kept,
      NoTimerNow, Got, Done
<1>16. ASSUME Torn("invoke", {"create", "request", "snapshot"}) PROVE Queue' /\ Asking'
  BY <1>0, <1>16, Names, TornMoves DEF Asking, Writes, Places, Kept, NoTimerNow, Got, Done
<1>17. ASSUME NEW d \in Deciders, Torn(d, {"allow", "deny"}) PROVE Queue' /\ Asking'
  BY <1>0, <1>17, Names, TornMoves DEF Asking, Writes, Places, Kept, NoTimerNow, Got, Done
<1>18. ASSUME NEW c \in Cancellers, Torn(c, {"mark", "join", "cancel"}) PROVE Queue' /\ Asking'
  BY <1>0, <1>18, Names, TornMoves DEF Asking, Writes, Places, Kept, NoTimerNow, Got, Done
<1>19. ASSUME Restart PROVE Queue' /\ Asking'
  BY <1>0, <1>19, Names, RestartMoves DEF Asking, Writes, Places, Kept, NoTimerNow, Got, Done
<1>20. ASSUME NEW d \in Deciders, Decide(d) PROVE Queue' /\ Asking'
  BY <1>0, <1>20, Names, AskMoves, DropAndAskMoves DEF Decide, world, Asking, Writes, Places,
      Kept, NoTimerNow, Got, Done
<1>21. ASSUME NEW d \in Deciders, Sweep(d) PROVE Queue' /\ Asking'
  BY <1>0, <1>21, Names, AskMoves DEF Sweep, world, Asking, Writes, Places, Kept, NoTimerNow,
      Got, Done
<1>22. ASSUME NEW c \in Cancellers, Cancel(c) PROVE Queue' /\ Asking'
  BY <1>0, <1>22, Names, DropAndAskMoves, DropAndGotoMoves DEF Cancel, world, Asking, Writes,
      Places, Kept, NoTimerNow, Got, Done
<1>23. ASSUME Admitted PROVE Queue' /\ Asking'
  BY <1>0, <1>23, Names, AdmittedMoves DEF Asking, Writes, Places, Kept, NoTimerNow, Got, Done,
      Settling
<1>24. ASSUME Requested PROVE Queue' /\ Asking'
  BY <1>0, <1>24, Names, RequestedMoves DEF Asking, Writes, Places, Kept, NoTimerNow, Got, Done
<1>25. ASSUME InvokeReturns PROVE Queue' /\ Asking'
  BY <1>0, <1>25, Names, GotoMoves DEF InvokeReturns, world, Asking, Writes, Places, Kept,
      NoTimerNow, Got, Done
<1>26. ASSUME Compensate PROVE Queue' /\ Asking'
  BY <1>0, <1>26, Names, AskMoves, GotoMoves DEF Compensate, Got, world, Asking, Writes,
      Places, Kept, NoTimerNow, Done
<1>27. ASSUME CompensateFails PROVE Queue' /\ Asking'
  BY <1>0, <1>27, Names, AskMoves DEF CompensateFails, world, Asking, Writes, Places, Kept,
      NoTimerNow, Got, Done
<1>28. ASSUME Compensated PROVE Queue' /\ Asking'
  BY <1>0, <1>28, Names, GotoMoves DEF Compensated, Done, world, Asking, Writes, Places, Kept,
      NoTimerNow, Got
<1>29. ASSUME ExecuteResolves PROVE Queue' /\ Asking'
  BY <1>0, <1>29, Names, AskMoves DEF ExecuteResolves, world, Asking, Writes, Places, Kept,
      NoTimerNow, Got, Done
<1>30. ASSUME Started PROVE Queue' /\ Asking'
  BY <1>0, <1>30, Names, GotoMoves DEF Started, Got, world, Asking, Writes, Places, Kept,
      NoTimerNow, Done
<1>31. ASSUME Launch PROVE Queue' /\ Asking'
  BY <1>0, <1>31, Names, AskMoves, GotoMoves DEF Launch, Asking, Writes, Places, Kept,
      NoTimerNow, Got, Done
<1>32. ASSUME SignalArrives PROVE Queue' /\ Asking'
  BY <1>0, <1>32, Names, SignalMoves DEF Asking, Writes, Places, Kept, NoTimerNow, Got, Done
<1>33. ASSUME SignalBeforeStart PROVE Queue' /\ Asking'
  BY <1>0, <1>33, Names, GotoMoves DEF SignalBeforeStart, Ends, world, Asking, Writes, Places,
      Kept, NoTimerNow, Got, Done
<1>34. ASSUME OutcomeCommitted PROVE Queue' /\ Asking'
  BY <1>0, <1>34, Names, AskMoves, GotoMoves DEF OutcomeCommitted, Done, Ends, world, Asking,
      Writes, Places, Kept, NoTimerNow, Got
<1>35. ASSUME ExecutionEnds PROVE Queue' /\ Asking'
  BY <1>0, <1>35, Names, GotoMoves DEF ExecutionEnds, Got, Done, Ends, world, Asking, Writes,
      Places, Kept, NoTimerNow
<1>36. ASSUME AdapterReturns PROVE Queue' /\ Asking'
  BY <1>0, <1>36, Names, AskMoves DEF AdapterReturns, world, Asking, Writes, Places, Kept,
      NoTimerNow, Got, Done
<1>37. ASSUME AdapterFails PROVE Queue' /\ Asking'
  BY <1>0, <1>37, Names, AskMoves DEF AdapterFails, world, Asking, Writes, Places, Kept,
      NoTimerNow, Got, Done
<1>38. ASSUME TimerFires PROVE Queue' /\ Asking'
  BY <1>0, <1>38, Names, AskMoves DEF TimerFires, world, Asking, Writes, Places, Kept,
      NoTimerNow, Got, Done
<1>39. ASSUME TimerEnds PROVE Queue' /\ Asking'
  BY <1>0, <1>39, Names, GotoMoves DEF TimerEnds, Done, world, Asking, Writes, Places, Kept,
      NoTimerNow, Got
<1>40. ASSUME StopJoined PROVE Queue' /\ Asking'
  BY <1>0, <1>40, Names, AskMoves DEF StopJoined, world, Asking, Writes, Places, Kept,
      NoTimerNow, Got, Done
<1>41. ASSUME StopEnds PROVE Queue' /\ Asking'
  BY <1>0, <1>41, Names, GotoMoves DEF StopEnds, Done, world, Asking, Writes, Places, Kept,
      NoTimerNow, Got
<1>42. ASSUME NEW d \in Deciders, Allowed(d) PROVE Queue' /\ Asking'
  BY <1>0, <1>42, Names, AllowedMoves DEF Asking, Writes, Places, Kept, NoTimerNow, Got, Done,
      Approval
<1>43. ASSUME NEW d \in Deciders, Denied(d) PROVE Queue' /\ Asking'
  BY <1>0, <1>43, Names, DropAndAskMoves DEF Denied, Got, world, Asking, Writes, Places, Kept,
      NoTimerNow, Done
<1>44. ASSUME NEW d \in Deciders, DecidedElsewhere(d) PROVE Queue' /\ Asking'
  BY <1>0, <1>44, Names, GotoMoves DEF DecidedElsewhere, Got, Done, world, Asking, Writes,
      Places, Kept, NoTimerNow
<1>45. ASSUME NEW d \in Deciders, DecisionEnds(d) PROVE Queue' /\ Asking'
  BY <1>0, <1>45, Names, GotoMoves DEF DecisionEnds, Done, world, Asking, Writes, Places, Kept,
      NoTimerNow, Got
<1>46. ASSUME NEW d \in Deciders, ReconcileDecision(d) PROVE Queue' /\ Asking'
  BY <1>0, <1>46, Names, DropAndAskMoves, GotoMoves DEF ReconcileDecision, world, Asking,
      Writes, Places, Kept, NoTimerNow, Got, Done
<1>47. ASSUME NEW c \in Cancellers, CancelWaited(c) PROVE Queue' /\ Asking'
  BY <1>0, <1>47, Names, GotoMoves DEF CancelWaited, world, Asking, Writes, Places, Kept,
      NoTimerNow, Got, Done
<1>48. ASSUME NEW c \in Cancellers, Marked(c) PROVE Queue' /\ Asking'
  BY <1>0, <1>48, Names, AskMoves, GotoMoves DEF Marked, Got, StopTask, world, Asking, Writes,
      Places, Kept, NoTimerNow, Done
<1>49. ASSUME NEW c \in Cancellers, NotMarked(c) PROVE Queue' /\ Asking'
  BY <1>0, <1>49, Names, GotoMoves DEF NotMarked, Got, world, Asking, Writes, Places, Kept,
      NoTimerNow, Done
<1>50. ASSUME NEW c \in Cancellers, CancelJoined(c) PROVE Queue' /\ Asking'
  BY <1>0, <1>50, Names, AskMoves DEF CancelJoined, world, Asking, Writes, Places, Kept,
      NoTimerNow, Got, Done
<1>51. ASSUME NEW c \in Cancellers, CancelEnds(c) PROVE Queue' /\ Asking'
  BY <1>0, <1>51, Names, GotoMoves DEF CancelEnds, Done, world, Asking, Writes, Places, Kept,
      NoTimerNow, Got
<1>52. ASSUME NEW c \in Cancellers, ReconcileCancel(c) PROVE Queue' /\ Asking'
  BY <1>0, <1>52, Names, AskMoves, GotoMoves DEF ReconcileCancel, StopTask, world, Asking,
      Writes, Places, Kept, NoTimerNow, Got, Done
<1> QED
  BY <1>1, <1>2, <1>3, <1>4, <1>5, <1>6, <1>7, <1>8, <1>9, <1>10, <1>11, <1>12, <1>13, <1>14,
      <1>15, <1>16, <1>17, <1>18, <1>19, <1>20, <1>21, <1>22, <1>23, <1>24, <1>25, <1>26,
      <1>27, <1>28, <1>29, <1>30, <1>31, <1>32, <1>33, <1>34, <1>35, <1>36, <1>37, <1>38,
      <1>39, <1>40, <1>41, <1>42, <1>43, <1>44, <1>45, <1>46, <1>47, <1>48, <1>49, <1>50,
      <1>51, <1>52 DEF SNext, Commit, Calls, Tear, Invoker, Executor, Adapter, Expiry, Stopper,
      Owner, Canceller, Stays

LEMMA NotifyTyped ==
  ASSUME Plain, NEW yes, Notify(yes)
  PROVE  waiter' \in [Waiters -> {"idle", "read", "registered", "signalled", "parked", "woken"}]
  BY DEF Plain, Notify, Woken

LEMMA LiveTyped == Live \in BOOLEAN
  BY DEF Live

LEMMA PlainStep == ASSUME SInv, SNext PROVE Plain'
<1>0. Plain
  BY DEF SInv
<1>q. ASSUME UNCHANGED <<row, request, handle, sig, ready, args, revision, effects, waiter,
                         torn, skill>>
      PROVE  Plain'
  BY <1>0, <1>q DEF Plain, Open, Terminal
<1>1. ASSUME \/ Admitted \/ Requested \/ InvokeReturns \/ CompensateFails \/ ExecuteResolves
             \/ Started \/ TimerFires \/ StopJoined
      PROVE  Plain'
  BY <1>1, <1>q DEF Admitted, Requested, InvokeReturns, CompensateFails, ExecuteResolves,
      Started, TimerFires, StopJoined, world
<1>2. ASSUME NEW d \in Deciders,
             \/ Decide(d) \/ Sweep(d) \/ Allowed(d) \/ Denied(d) \/ ReconcileDecision(d)
      PROVE  Plain'
  BY <1>2, <1>q DEF Decide, Sweep, Allowed, Denied, ReconcileDecision, world
<1>3. ASSUME NEW c \in Cancellers,
             \/ CancelWaited(c) \/ CancelJoined(c)
      PROVE  Plain'
  BY <1>3, <1>q DEF CancelWaited, CancelJoined, world
<1>4. ASSUME CreateRun, Stays PROVE Plain'
  BY <1>0, <1>4 DEF CreateRun, Cas, Stays, world, Plain, Open, Terminal
<1>5. ASSUME CreateRequest, Stays PROVE Plain'
  BY <1>0, <1>5 DEF CreateRequest, Cas, Stays, world, Plain, Open, Terminal
<1>6. ASSUME MarkRunning, Stays PROVE Plain'
  BY <1>0, <1>6 DEF MarkRunning, Cas, Stays, world, Plain, Open, Terminal
<1>7. ASSUME CompleteRun, Stays PROVE Plain'
  BY <1>0, <1>7 DEF CompleteRun, Cas, Stays, world, Plain, Open, Terminal
<1>8. ASSUME FailRun, Stays PROVE Plain'
  BY <1>0, <1>8 DEF FailRun, Cas, Closes, Stays, world, Plain, Open, Terminal
<1>9. ASSUME CancelRun, Stays PROVE Plain'
  BY <1>0, <1>9 DEF CancelRun, Cas, Closes, Stays, world, Plain, Open, Terminal
<1>10. ASSUME MarkCancelling, Stays PROVE Plain'
  BY <1>0, <1>10 DEF MarkCancelling, Cas, Stays, world, Plain, Open, Terminal
<1>11. ASSUME DecideAllow, Stays PROVE Plain'
  BY <1>0, <1>11 DEF DecideAllow, Cas, Pending, Stays, world, Plain, Open, Terminal
<1>12. ASSUME DecideDeny, Stays PROVE Plain'
  BY <1>0, <1>12 DEF DecideDeny, Cas, Pending, Stays, world, Plain, Open, Terminal
<1>13. ASSUME ExpireRequest, Stays PROVE Plain'
  BY <1>0, <1>13 DEF ExpireRequest, Cas, Pending, Stays, world, Plain, Open, Terminal
<1>14. ASSUME Invoke PROVE Plain'
  BY <1>0, <1>14, NotifyTyped, LiveTyped, SkillAssumption DEF Invoke, world, Plain, Open,
      Terminal, Captured
<1>15. ASSUME Revise PROVE Plain'
  BY <1>0, <1>15, NotifyTyped, LiveTyped, SkillAssumption DEF Revise, memory, Plain, Open,
      Terminal, Captured
<1>16. ASSUME StopBegins PROVE Plain'
  BY <1>0, <1>16, NotifyTyped, LiveTyped, SkillAssumption DEF StopBegins, world, Plain, Open,
      Terminal, Captured
<1>17. ASSUME Torn("invoke", {"create", "request", "snapshot"}) PROVE Plain'
  BY <1>0, <1>17, NotifyTyped, LiveTyped, SkillAssumption DEF Torn, Plain, Open, Terminal,
      Captured
<1>18. ASSUME NEW d \in Deciders, Torn(d, {"allow", "deny"}) PROVE Plain'
  BY <1>0, <1>18, NotifyTyped, LiveTyped, SkillAssumption DEF Torn, Plain, Open, Terminal,
      Captured
<1>19. ASSUME NEW c \in Cancellers, Torn(c, {"mark", "join", "cancel"}) PROVE Plain'
  BY <1>0, <1>19, NotifyTyped, LiveTyped, SkillAssumption DEF Torn, Plain, Open, Terminal,
      Captured
<1>20. ASSUME Restart PROVE Plain'
  BY <1>0, <1>20, NotifyTyped, LiveTyped, SkillAssumption DEF Restart, world, Plain, Open,
      Terminal, Captured
<1>21. ASSUME NEW d \in Deciders, DecideTooLate(d) PROVE Plain'
  BY <1>0, <1>21, NotifyTyped, LiveTyped, SkillAssumption DEF DecideTooLate, Settled, Unchanged,
      world, Plain, Open, Terminal, Captured
<1>22. ASSUME NEW c \in Cancellers, Cancel(c) PROVE Plain'
  BY <1>0, <1>22, NotifyTyped, LiveTyped, SkillAssumption DEF Cancel, Captured, world, Plain,
      Open, Terminal
<1>23. ASSUME NEW w \in Waiters, WaitBegins(w) PROVE Plain'
  BY <1>0, <1>23, NotifyTyped, LiveTyped, SkillAssumption DEF WaitBegins, world, Plain, Open,
      Terminal, Captured
<1>24. ASSUME Compensate PROVE Plain'
  BY <1>0, <1>24, NotifyTyped, LiveTyped, SkillAssumption DEF Compensate, world, Plain, Open,
      Terminal, Captured
<1>25. ASSUME Compensated PROVE Plain'
  BY <1>0, <1>25, NotifyTyped, LiveTyped, SkillAssumption DEF Compensated, world, Plain, Open,
      Terminal, Captured
<1>26. ASSUME Launch PROVE Plain'
  BY <1>0, <1>26, NotifyTyped, LiveTyped, SkillAssumption DEF Launch, Unchanged, Plain, Open,
      Terminal, Captured
<1>27. ASSUME SignalArrives PROVE Plain'
  BY <1>0, <1>27, NotifyTyped, LiveTyped, SkillAssumption DEF SignalArrives, world, Plain, Open,
      Terminal, Captured
<1>28. ASSUME SignalBeforeStart PROVE Plain'
  BY <1>0, <1>28, NotifyTyped, LiveTyped, SkillAssumption DEF SignalBeforeStart, Ends, world,
      Plain, Open, Terminal, Captured
<1>29. ASSUME OutcomeCommitted PROVE Plain'
  BY <1>0, <1>29, NotifyTyped, LiveTyped, SkillAssumption DEF OutcomeCommitted, Ends, world,
      Plain, Open, Terminal, Captured
<1>30. ASSUME ExecutionEnds PROVE Plain'
  BY <1>0, <1>30, NotifyTyped, LiveTyped, SkillAssumption DEF ExecutionEnds, Ends, world, Plain,
      Open, Terminal, Captured
<1>31. ASSUME AdapterReturns PROVE Plain'
  BY <1>0, <1>31, NotifyTyped, LiveTyped, SkillAssumption DEF AdapterReturns, world, Plain,
      Open, Terminal, Captured
<1>32. ASSUME AdapterFails PROVE Plain'
  BY <1>0, <1>32, NotifyTyped, LiveTyped, SkillAssumption DEF AdapterFails, world, Plain, Open,
      Terminal, Captured
<1>33. ASSUME TimerEnds PROVE Plain'
  BY <1>0, <1>33, NotifyTyped, LiveTyped, SkillAssumption DEF TimerEnds, world, Plain, Open,
      Terminal, Captured
<1>34. ASSUME StopEnds PROVE Plain'
  BY <1>0, <1>34, NotifyTyped, LiveTyped, SkillAssumption DEF StopEnds, world, Plain, Open,
      Terminal, Captured
<1>35. ASSUME NEW d \in Deciders, DecidedElsewhere(d) PROVE Plain'
  BY <1>0, <1>35, NotifyTyped, LiveTyped, SkillAssumption DEF DecidedElsewhere, Settled, world,
      Plain, Open, Terminal, Captured
<1>36. ASSUME NEW d \in Deciders, DecisionEnds(d) PROVE Plain'
  BY <1>0, <1>36, NotifyTyped, LiveTyped, SkillAssumption DEF DecisionEnds, world, Plain, Open,
      Terminal, Captured
<1>37. ASSUME NEW c \in Cancellers, Marked(c) PROVE Plain'
  BY <1>0, <1>37, NotifyTyped, LiveTyped, SkillAssumption DEF Marked, StopTask, world, Plain,
      Open, Terminal, Captured
<1>38. ASSUME NEW c \in Cancellers, NotMarked(c) PROVE Plain'
  BY <1>0, <1>38, NotifyTyped, LiveTyped, SkillAssumption DEF NotMarked, world, Plain, Open,
      Terminal, Captured
<1>39. ASSUME NEW c \in Cancellers, CancelEnds(c) PROVE Plain'
  BY <1>0, <1>39, NotifyTyped, LiveTyped, SkillAssumption DEF CancelEnds, world, Plain, Open,
      Terminal, Captured
<1>40. ASSUME NEW c \in Cancellers, ReconcileCancel(c) PROVE Plain'
  BY <1>0, <1>40, NotifyTyped, LiveTyped, SkillAssumption DEF ReconcileCancel, StopTask,
      Captured, world, Plain, Open, Terminal
<1>41. ASSUME NEW w \in Waiters, WaitRegisters(w) PROVE Plain'
  BY <1>0, <1>41, NotifyTyped, LiveTyped, SkillAssumption DEF WaitRegisters, world, Plain, Open,
      Terminal, Captured
<1>42. ASSUME NEW w \in Waiters, WaitRereads(w) PROVE Plain'
  BY <1>0, <1>42, NotifyTyped, LiveTyped, SkillAssumption DEF WaitRereads, world, Plain, Open,
      Terminal, Captured
<1> QED
  BY <1>1, <1>2, <1>3, <1>4, <1>5, <1>6, <1>7, <1>8, <1>9, <1>10, <1>11, <1>12, <1>13, <1>14,
      <1>15, <1>16, <1>17, <1>18, <1>19, <1>20, <1>21, <1>22, <1>23, <1>24, <1>25, <1>26,
      <1>27, <1>28, <1>29, <1>30, <1>31, <1>32, <1>33, <1>34, <1>35, <1>36, <1>37, <1>38,
      <1>39, <1>40, <1>41, <1>42 DEF SNext, Commit, Calls, Tear, Invoker, Executor, Adapter,
      Expiry, Stopper, Owner, Canceller, Stays

LEMMA QuietStep == ASSUME SInv, SNext PROVE Quiet'
<1>0. Queue /\ Asking /\ Quiet
  BY DEF SInv
<1>q. ASSUME UNCHANGED <<pc>> PROVE Quiet'
  BY <1>0, <1>q DEF Quiet, Serving
<1>1. ASSUME Stays,
             \/ CreateRun \/ CreateRequest \/ MarkRunning \/ CompleteRun \/ FailRun \/ CancelRun
             \/ MarkCancelling \/ DecideAllow \/ DecideDeny \/ ExpireRequest
      PROVE  Quiet'
  BY <1>1, <1>q DEF Stays, world
<1>2. ASSUME \/ Revise
      PROVE  Quiet'
  BY <1>2, <1>q DEF Revise, memory
<1>3. ASSUME NEW d \in Deciders,
             \/ DecideTooLate(d)
      PROVE  Quiet'
  BY <1>3, <1>q DEF DecideTooLate, world
<1>4. ASSUME NEW w \in Waiters,
             \/ WaitBegins(w) \/ WaitRegisters(w) \/ WaitRereads(w)
      PROVE  Quiet'
  BY <1>4, <1>q DEF WaitBegins, WaitRegisters, WaitRereads, world
<1>5. ASSUME Invoke PROVE Quiet'
  BY <1>0, <1>5, Names, AskMoves DEF Invoke, Serving, world, Quiet, Asking, Writes, Places,
      Kept, NoTimerNow, Got, Done
<1>6. ASSUME StopBegins PROVE Quiet'
  BY <1>0, <1>6, Names, DropAndGotoMoves DEF StopBegins, Serving, world, Quiet, Asking, Writes,
      Places, Kept, NoTimerNow, Got, Done
<1>7. ASSUME Torn("invoke", {"create", "request", "snapshot"}) PROVE Quiet'
  BY <1>0, <1>7, Names, TornMoves DEF Quiet, Serving, Asking, Writes, Places, Kept, NoTimerNow,
      Got, Done
<1>8. ASSUME NEW d \in Deciders, Torn(d, {"allow", "deny"}) PROVE Quiet'
  BY <1>0, <1>8, Names, TornMoves DEF Quiet, Serving, Asking, Writes, Places, Kept, NoTimerNow,
      Got, Done
<1>9. ASSUME NEW c \in Cancellers, Torn(c, {"mark", "join", "cancel"}) PROVE Quiet'
  BY <1>0, <1>9, Names, TornMoves DEF Quiet, Serving, Asking, Writes, Places, Kept, NoTimerNow,
      Got, Done
<1>10. ASSUME Restart PROVE Quiet'
  BY <1>0, <1>10, Names, RestartMoves DEF Quiet, Serving, Asking, Writes, Places, Kept,
      NoTimerNow, Got, Done
<1>11. ASSUME NEW d \in Deciders, Decide(d) PROVE Quiet'
  BY <1>0, <1>11, Names, AskMoves, DropAndAskMoves DEF Decide, Serving, world, Quiet, Asking,
      Writes, Places, Kept, NoTimerNow, Got, Done
<1>12. ASSUME NEW d \in Deciders, Sweep(d) PROVE Quiet'
  BY <1>0, <1>12, Names, AskMoves DEF Sweep, Serving, world, Quiet, Asking, Writes, Places,
      Kept, NoTimerNow, Got, Done
<1>13. ASSUME NEW c \in Cancellers, Cancel(c) PROVE Quiet'
  BY <1>0, <1>13, Names, DropAndAskMoves, DropAndGotoMoves DEF Cancel, Serving, world, Quiet,
      Asking, Writes, Places, Kept, NoTimerNow, Got, Done
<1>14. ASSUME Admitted PROVE Quiet'
  BY <1>0, <1>14, Names, AdmittedMoves DEF Quiet, Serving, Asking, Writes, Places, Kept,
      NoTimerNow, Got, Done
<1>15. ASSUME Requested PROVE Quiet'
  BY <1>0, <1>15, Names, RequestedMoves DEF Quiet, Serving, Asking, Writes, Places, Kept,
      NoTimerNow, Got, Done
<1>16. ASSUME InvokeReturns PROVE Quiet'
  BY <1>0, <1>16, Names, GotoMoves DEF InvokeReturns, world, Quiet, Serving, Asking, Writes,
      Places, Kept, NoTimerNow, Got, Done
<1>17. ASSUME Compensate PROVE Quiet'
  BY <1>0, <1>17, Names, AskMoves, GotoMoves DEF Compensate, Got, world, Quiet, Serving,
      Asking, Writes, Places, Kept, NoTimerNow, Done
<1>18. ASSUME CompensateFails PROVE Quiet'
  BY <1>0, <1>18, Names, AskMoves DEF CompensateFails, world, Quiet, Serving, Asking, Writes,
      Places, Kept, NoTimerNow, Got, Done
<1>19. ASSUME Compensated PROVE Quiet'
  BY <1>0, <1>19, Names, GotoMoves DEF Compensated, Done, world, Quiet, Serving, Asking,
      Writes, Places, Kept, NoTimerNow, Got
<1>20. ASSUME ExecuteResolves PROVE Quiet'
  BY <1>0, <1>20, Names, AskMoves DEF ExecuteResolves, world, Quiet, Serving, Asking, Writes,
      Places, Kept, NoTimerNow, Got, Done
<1>21. ASSUME Started PROVE Quiet'
  BY <1>0, <1>21, Names, GotoMoves DEF Started, Got, world, Quiet, Serving, Asking, Writes,
      Places, Kept, NoTimerNow, Done
<1>22. ASSUME Launch PROVE Quiet'
  BY <1>0, <1>22, Names, AskMoves, GotoMoves DEF Launch, Quiet, Serving, Asking, Writes,
      Places, Kept, NoTimerNow, Got, Done
<1>23. ASSUME SignalArrives PROVE Quiet'
  BY <1>0, <1>23, Names, SignalMoves DEF Quiet, Serving, Asking, Writes, Places, Kept,
      NoTimerNow, Got, Done
<1>24. ASSUME SignalBeforeStart PROVE Quiet'
  BY <1>0, <1>24, Names, GotoMoves DEF SignalBeforeStart, Ends, world, Quiet, Serving, Asking,
      Writes, Places, Kept, NoTimerNow, Got, Done
<1>25. ASSUME OutcomeCommitted PROVE Quiet'
  BY <1>0, <1>25, Names, AskMoves, GotoMoves DEF OutcomeCommitted, Done, Ends, world, Quiet,
      Serving, Asking, Writes, Places, Kept, NoTimerNow, Got
<1>26. ASSUME ExecutionEnds PROVE Quiet'
  BY <1>0, <1>26, Names, GotoMoves DEF ExecutionEnds, Got, Done, Ends, world, Quiet, Serving,
      Asking, Writes, Places, Kept, NoTimerNow
<1>27. ASSUME AdapterReturns PROVE Quiet'
  BY <1>0, <1>27, Names, AskMoves DEF AdapterReturns, world, Quiet, Serving, Asking, Writes,
      Places, Kept, NoTimerNow, Got, Done
<1>28. ASSUME AdapterFails PROVE Quiet'
  BY <1>0, <1>28, Names, AskMoves DEF AdapterFails, world, Quiet, Serving, Asking, Writes,
      Places, Kept, NoTimerNow, Got, Done
<1>29. ASSUME TimerFires PROVE Quiet'
  BY <1>0, <1>29, Names, AskMoves DEF TimerFires, world, Quiet, Serving, Asking, Writes,
      Places, Kept, NoTimerNow, Got, Done
<1>30. ASSUME TimerEnds PROVE Quiet'
  BY <1>0, <1>30, Names, GotoMoves DEF TimerEnds, Done, world, Quiet, Serving, Asking, Writes,
      Places, Kept, NoTimerNow, Got
<1>31. ASSUME StopJoined PROVE Quiet'
  BY <1>0, <1>31, Names, AskMoves DEF StopJoined, world, Quiet, Serving, Asking, Writes,
      Places, Kept, NoTimerNow, Got, Done
<1>32. ASSUME StopEnds PROVE Quiet'
  BY <1>0, <1>32, Names, GotoMoves DEF StopEnds, Done, world, Quiet, Serving, Asking, Writes,
      Places, Kept, NoTimerNow, Got
<1>33. ASSUME NEW d \in Deciders, Allowed(d) PROVE Quiet'
  BY <1>0, <1>33, Names, AllowedMoves DEF Quiet, Serving, Asking, Writes, Places, Kept,
      NoTimerNow, Got, Done
<1>34. ASSUME NEW d \in Deciders, Denied(d) PROVE Quiet'
  BY <1>0, <1>34, Names, DropAndAskMoves DEF Denied, Got, world, Quiet, Serving, Asking,
      Writes, Places, Kept, NoTimerNow, Done
<1>35. ASSUME NEW d \in Deciders, DecidedElsewhere(d) PROVE Quiet'
  BY <1>0, <1>35, Names, GotoMoves DEF DecidedElsewhere, Got, Done, world, Quiet, Serving,
      Asking, Writes, Places, Kept, NoTimerNow
<1>36. ASSUME NEW d \in Deciders, DecisionEnds(d) PROVE Quiet'
  BY <1>0, <1>36, Names, GotoMoves DEF DecisionEnds, Done, world, Quiet, Serving, Asking,
      Writes, Places, Kept, NoTimerNow, Got
<1>37. ASSUME NEW d \in Deciders, ReconcileDecision(d) PROVE Quiet'
  BY <1>0, <1>37, Names, DropAndAskMoves, GotoMoves DEF ReconcileDecision, world, Quiet,
      Serving, Asking, Writes, Places, Kept, NoTimerNow, Got, Done
<1>38. ASSUME NEW c \in Cancellers, CancelWaited(c) PROVE Quiet'
  BY <1>0, <1>38, Names, GotoMoves DEF CancelWaited, world, Quiet, Serving, Asking, Writes,
      Places, Kept, NoTimerNow, Got, Done
<1>39. ASSUME NEW c \in Cancellers, Marked(c) PROVE Quiet'
  BY <1>0, <1>39, Names, AskMoves, GotoMoves DEF Marked, Got, StopTask, world, Quiet, Serving,
      Asking, Writes, Places, Kept, NoTimerNow, Done
<1>40. ASSUME NEW c \in Cancellers, NotMarked(c) PROVE Quiet'
  BY <1>0, <1>40, Names, GotoMoves DEF NotMarked, Got, world, Quiet, Serving, Asking, Writes,
      Places, Kept, NoTimerNow, Done
<1>41. ASSUME NEW c \in Cancellers, CancelJoined(c) PROVE Quiet'
  BY <1>0, <1>41, Names, AskMoves DEF CancelJoined, world, Quiet, Serving, Asking, Writes,
      Places, Kept, NoTimerNow, Got, Done
<1>42. ASSUME NEW c \in Cancellers, CancelEnds(c) PROVE Quiet'
  BY <1>0, <1>42, Names, GotoMoves DEF CancelEnds, Done, world, Quiet, Serving, Asking, Writes,
      Places, Kept, NoTimerNow, Got
<1>43. ASSUME NEW c \in Cancellers, ReconcileCancel(c) PROVE Quiet'
  BY <1>0, <1>43, Names, AskMoves, GotoMoves DEF ReconcileCancel, StopTask, world, Quiet,
      Serving, Asking, Writes, Places, Kept, NoTimerNow, Got, Done
<1> QED
  BY <1>1, <1>2, <1>3, <1>4, <1>5, <1>6, <1>7, <1>8, <1>9, <1>10, <1>11, <1>12, <1>13, <1>14,
      <1>15, <1>16, <1>17, <1>18, <1>19, <1>20, <1>21, <1>22, <1>23, <1>24, <1>25, <1>26,
      <1>27, <1>28, <1>29, <1>30, <1>31, <1>32, <1>33, <1>34, <1>35, <1>36, <1>37, <1>38,
      <1>39, <1>40, <1>41, <1>42, <1>43 DEF SNext, Commit, Calls, Tear, Invoker, Executor,
      Adapter, Expiry, Stopper, Owner, Canceller, Stays

LEMMA SettlingStep == ASSUME SInv, SNext PROVE Settling'
<1>0. Queue /\ Plain /\ Asking /\ Settling /\ Approval
  BY DEF SInv
<1>q. ASSUME UNCHANGED <<skill, request, pc, reply, revision>> PROVE Settling'
  BY <1>0, <1>q DEF Settling, Got
<1>1. ASSUME NEW d \in Deciders,
             \/ DecideTooLate(d)
      PROVE  Settling'
  BY <1>1, <1>q DEF DecideTooLate, world
<1>2. ASSUME NEW w \in Waiters,
             \/ WaitBegins(w) \/ WaitRegisters(w) \/ WaitRereads(w)
      PROVE  Settling'
  BY <1>2, <1>q DEF WaitBegins, WaitRegisters, WaitRereads, world
<1>3. ASSUME CreateRun, Stays PROVE Settling'
  BY <1>0, <1>3, Names, CasMoves DEF CreateRun, Stays, world, Settling, Asking, Writes, Places,
      Kept, NoTimerNow, Got, Done
<1>4. ASSUME CreateRequest, Stays PROVE Settling'
  BY <1>0, <1>4, Names, CasMoves DEF CreateRequest, Stays, world, Settling, Asking, Writes,
      Places, Kept, NoTimerNow, Got, Done
<1>5. ASSUME MarkRunning, Stays PROVE Settling'
  BY <1>0, <1>5, Names, CasMoves DEF MarkRunning, Stays, world, Settling, Asking, Writes,
      Places, Kept, NoTimerNow, Got, Done
<1>6. ASSUME CompleteRun, Stays PROVE Settling'
  BY <1>0, <1>6, Names, CasMoves DEF CompleteRun, Stays, world, Settling, Asking, Writes,
      Places, Kept, NoTimerNow, Got, Done
<1>7. ASSUME FailRun, Stays PROVE Settling'
  BY <1>0, <1>7, Names, CasMoves DEF FailRun, Closes, Stays, world, Settling, Asking, Writes,
      Places, Kept, NoTimerNow, Got, Done
<1>8. ASSUME CancelRun, Stays PROVE Settling'
  BY <1>0, <1>8, Names, CasMoves DEF CancelRun, Closes, Stays, world, Settling, Asking, Writes,
      Places, Kept, NoTimerNow, Got, Done
<1>9. ASSUME MarkCancelling, Stays PROVE Settling'
  BY <1>0, <1>9, Names, CasMoves DEF MarkCancelling, Stays, world, Settling, Asking, Writes,
      Places, Kept, NoTimerNow, Got, Done
<1>10. ASSUME DecideAllow, Stays PROVE Settling'
  BY <1>0, <1>10, Names, CasMoves DEF DecideAllow, Pending, Stays, world, Settling, Asking,
      Writes, Places, Kept, NoTimerNow, Got, Done
<1>11. ASSUME DecideDeny, Stays PROVE Settling'
  BY <1>0, <1>11, Names, CasMoves DEF DecideDeny, Pending, Stays, world, Settling, Asking,
      Writes, Places, Kept, NoTimerNow, Got, Done
<1>12. ASSUME ExpireRequest, Stays PROVE Settling'
  BY <1>0, <1>12, Names, CasMoves DEF ExpireRequest, Pending, Stays, world, Settling, Asking,
      Writes, Places, Kept, NoTimerNow, Got, Done
<1>13. ASSUME Invoke PROVE Settling'
  BY <1>0, <1>13, Names, AskMoves DEF Invoke, Serving, world, Settling, Asking, Writes, Places,
      Kept, NoTimerNow, Got, Done
<1>14. ASSUME Revise PROVE Settling'
  BY <1>0, <1>14, SkillAssumption DEF Revise, memory, Settling, Plain, Got
<1>15. ASSUME StopBegins PROVE Settling'
  BY <1>0, <1>15, Names, DropAndGotoMoves DEF StopBegins, Serving, world, Settling, Asking,
      Writes, Places, Kept, NoTimerNow, Got, Done
<1>16. ASSUME Torn("invoke", {"create", "request", "snapshot"}) PROVE Settling'
  BY <1>0, <1>16, Names, TornMoves DEF Settling, Asking, Writes, Places, Kept, NoTimerNow, Got,
      Done, Approval
<1>17. ASSUME NEW d \in Deciders, Torn(d, {"allow", "deny"}) PROVE Settling'
  BY <1>0, <1>17, Names, TornMoves DEF Settling, Asking, Writes, Places, Kept, NoTimerNow, Got,
      Done, Approval
<1>18. ASSUME NEW c \in Cancellers, Torn(c, {"mark", "join", "cancel"}) PROVE Settling'
  BY <1>0, <1>18, Names, TornMoves DEF Settling, Asking, Writes, Places, Kept, NoTimerNow, Got,
      Done, Approval
<1>19. ASSUME Restart PROVE Settling'
  BY <1>0, <1>19, Names, RestartMoves DEF Settling, Asking, Writes, Places, Kept, NoTimerNow,
      Got, Done, Approval
<1>20. ASSUME NEW d \in Deciders, Decide(d) PROVE Settling'
  BY <1>0, <1>20, Names, AskMoves, DropAndAskMoves DEF Decide, Serving, Unchanged, world,
      Settling, Asking, Writes, Places, Kept, NoTimerNow, Got, Done
<1>21. ASSUME NEW d \in Deciders, Sweep(d) PROVE Settling'
  BY <1>0, <1>21, Names, AskMoves DEF Sweep, Serving, world, Settling, Asking, Writes, Places,
      Kept, NoTimerNow, Got, Done
<1>22. ASSUME NEW c \in Cancellers, Cancel(c) PROVE Settling'
  BY <1>0, <1>22, Names, DropAndAskMoves, DropAndGotoMoves DEF Cancel, Serving, world,
      Settling, Asking, Writes, Places, Kept, NoTimerNow, Got, Done
<1>23. ASSUME Admitted PROVE Settling'
  BY <1>0, <1>23, Names, AdmittedMoves DEF Settling, Asking, Writes, Places, Kept, NoTimerNow,
      Got, Done, Approval
<1>24. ASSUME Requested PROVE Settling'
  BY <1>0, <1>24, Names, RequestedMoves DEF Settling, Asking, Writes, Places, Kept, NoTimerNow,
      Got, Done, Approval
<1>25. ASSUME InvokeReturns PROVE Settling'
  BY <1>0, <1>25, Names, GotoMoves DEF InvokeReturns, world, Settling, Asking, Writes, Places,
      Kept, NoTimerNow, Got, Done
<1>26. ASSUME Compensate PROVE Settling'
  BY <1>0, <1>26, Names, AskMoves, GotoMoves DEF Compensate, Got, world, Settling, Asking,
      Writes, Places, Kept, NoTimerNow, Done
<1>27. ASSUME CompensateFails PROVE Settling'
  BY <1>0, <1>27, Names, AskMoves DEF CompensateFails, world, Settling, Asking, Writes, Places,
      Kept, NoTimerNow, Got, Done
<1>28. ASSUME Compensated PROVE Settling'
  BY <1>0, <1>28, Names, GotoMoves DEF Compensated, Done, world, Settling, Asking, Writes,
      Places, Kept, NoTimerNow, Got
<1>29. ASSUME ExecuteResolves PROVE Settling'
  BY <1>0, <1>29, Names, AskMoves DEF ExecuteResolves, Unchanged, world, Settling, Asking,
      Writes, Places, Kept, NoTimerNow, Got, Done
<1>30. ASSUME Started PROVE Settling'
  BY <1>0, <1>30, Names, GotoMoves DEF Started, Got, world, Settling, Asking, Writes, Places,
      Kept, NoTimerNow, Done
<1>31. ASSUME Launch PROVE Settling'
  BY <1>0, <1>31, Names, AskMoves, GotoMoves DEF Launch, Unchanged, Settling, Asking, Writes,
      Places, Kept, NoTimerNow, Got, Done
<1>32. ASSUME SignalArrives PROVE Settling'
  BY <1>0, <1>32, Names, SignalMoves DEF Settling, Asking, Writes, Places, Kept, NoTimerNow,
      Got, Done, Approval
<1>33. ASSUME SignalBeforeStart PROVE Settling'
  BY <1>0, <1>33, Names, GotoMoves DEF SignalBeforeStart, Ends, world, Settling, Asking,
      Writes, Places, Kept, NoTimerNow, Got, Done
<1>34. ASSUME OutcomeCommitted PROVE Settling'
  BY <1>0, <1>34, Names, AskMoves, GotoMoves DEF OutcomeCommitted, Done, Ends, world, Settling,
      Asking, Writes, Places, Kept, NoTimerNow, Got
<1>35. ASSUME ExecutionEnds PROVE Settling'
  BY <1>0, <1>35, Names, GotoMoves DEF ExecutionEnds, Got, Done, Ends, world, Settling, Asking,
      Writes, Places, Kept, NoTimerNow
<1>36. ASSUME AdapterReturns PROVE Settling'
  BY <1>0, <1>36, Names, AskMoves DEF AdapterReturns, world, Settling, Asking, Writes, Places,
      Kept, NoTimerNow, Got, Done
<1>37. ASSUME AdapterFails PROVE Settling'
  BY <1>0, <1>37, Names, AskMoves DEF AdapterFails, world, Settling, Asking, Writes, Places,
      Kept, NoTimerNow, Got, Done
<1>38. ASSUME TimerFires PROVE Settling'
  BY <1>0, <1>38, Names, AskMoves DEF TimerFires, world, Settling, Asking, Writes, Places,
      Kept, NoTimerNow, Got, Done
<1>39. ASSUME TimerEnds PROVE Settling'
  BY <1>0, <1>39, Names, GotoMoves DEF TimerEnds, Done, world, Settling, Asking, Writes,
      Places, Kept, NoTimerNow, Got
<1>40. ASSUME StopJoined PROVE Settling'
  BY <1>0, <1>40, Names, AskMoves DEF StopJoined, world, Settling, Asking, Writes, Places,
      Kept, NoTimerNow, Got, Done
<1>41. ASSUME StopEnds PROVE Settling'
  BY <1>0, <1>41, Names, GotoMoves DEF StopEnds, Done, world, Settling, Asking, Writes, Places,
      Kept, NoTimerNow, Got
<1>42. ASSUME NEW d \in Deciders, Allowed(d) PROVE Settling'
  BY <1>0, <1>42, Names, AllowedMoves DEF Settling, Asking, Writes, Places, Kept, NoTimerNow,
      Got, Done, Approval
<1>43. ASSUME NEW d \in Deciders, Denied(d) PROVE Settling'
  BY <1>0, <1>43, Names, DropAndAskMoves DEF Denied, Got, world, Settling, Asking, Writes,
      Places, Kept, NoTimerNow, Done
<1>44. ASSUME NEW d \in Deciders, DecidedElsewhere(d) PROVE Settling'
  BY <1>0, <1>44, Names, GotoMoves DEF DecidedElsewhere, Got, Done, world, Settling, Asking,
      Writes, Places, Kept, NoTimerNow
<1>45. ASSUME NEW d \in Deciders, DecisionEnds(d) PROVE Settling'
  BY <1>0, <1>45, Names, GotoMoves DEF DecisionEnds, Done, world, Settling, Asking, Writes,
      Places, Kept, NoTimerNow, Got
<1>46. ASSUME NEW d \in Deciders, ReconcileDecision(d) PROVE Settling'
  BY <1>0, <1>46, Names, DropAndAskMoves, GotoMoves DEF ReconcileDecision, world, Settling,
      Asking, Writes, Places, Kept, NoTimerNow, Got, Done
<1>47. ASSUME NEW c \in Cancellers, CancelWaited(c) PROVE Settling'
  BY <1>0, <1>47, Names, GotoMoves DEF CancelWaited, world, Settling, Asking, Writes, Places,
      Kept, NoTimerNow, Got, Done
<1>48. ASSUME NEW c \in Cancellers, Marked(c) PROVE Settling'
  BY <1>0, <1>48, Names, AskMoves, GotoMoves DEF Marked, Got, StopTask, world, Settling,
      Asking, Writes, Places, Kept, NoTimerNow, Done
<1>49. ASSUME NEW c \in Cancellers, NotMarked(c) PROVE Settling'
  BY <1>0, <1>49, Names, GotoMoves DEF NotMarked, Got, world, Settling, Asking, Writes, Places,
      Kept, NoTimerNow, Done
<1>50. ASSUME NEW c \in Cancellers, CancelJoined(c) PROVE Settling'
  BY <1>0, <1>50, Names, AskMoves DEF CancelJoined, world, Settling, Asking, Writes, Places,
      Kept, NoTimerNow, Got, Done
<1>51. ASSUME NEW c \in Cancellers, CancelEnds(c) PROVE Settling'
  BY <1>0, <1>51, Names, GotoMoves DEF CancelEnds, Done, world, Settling, Asking, Writes,
      Places, Kept, NoTimerNow, Got
<1>52. ASSUME NEW c \in Cancellers, ReconcileCancel(c) PROVE Settling'
  BY <1>0, <1>52, Names, AskMoves, GotoMoves DEF ReconcileCancel, StopTask, world, Settling,
      Asking, Writes, Places, Kept, NoTimerNow, Got, Done
<1> QED
  BY <1>1, <1>2, <1>3, <1>4, <1>5, <1>6, <1>7, <1>8, <1>9, <1>10, <1>11, <1>12, <1>13, <1>14,
      <1>15, <1>16, <1>17, <1>18, <1>19, <1>20, <1>21, <1>22, <1>23, <1>24, <1>25, <1>26,
      <1>27, <1>28, <1>29, <1>30, <1>31, <1>32, <1>33, <1>34, <1>35, <1>36, <1>37, <1>38,
      <1>39, <1>40, <1>41, <1>42, <1>43, <1>44, <1>45, <1>46, <1>47, <1>48, <1>49, <1>50,
      <1>51, <1>52 DEF SNext, Commit, Calls, Tear, Invoker, Executor, Adapter, Expiry, Stopper,
      Owner, Canceller, Stays

LEMMA ApprovalStep == ASSUME SInv, SNext PROVE Approval'
<1>0. Queue /\ Plain /\ Asking /\ Quiet /\ Settling /\ Approval
  BY DEF SInv
<1>q. ASSUME UNCHANGED <<skill, request, pc, reply>> PROVE Approval'
  BY <1>0, <1>q DEF Approval, Got, Live
<1>1. ASSUME \/ Revise
      PROVE  Approval'
  BY <1>1, <1>q DEF Revise, memory
<1>2. ASSUME NEW d \in Deciders,
             \/ DecideTooLate(d)
      PROVE  Approval'
  BY <1>2, <1>q DEF DecideTooLate, world
<1>3. ASSUME NEW w \in Waiters,
             \/ WaitBegins(w) \/ WaitRegisters(w) \/ WaitRereads(w)
      PROVE  Approval'
  BY <1>3, <1>q DEF WaitBegins, WaitRegisters, WaitRereads, world
<1>4. ASSUME CreateRun, Stays PROVE Approval'
  BY <1>0, <1>4, Names, CasMoves DEF CreateRun, Stays, world, Approval, Settling, Quiet, Live,
      Serving, Asking, Writes, Places, Kept, NoTimerNow, Got, Done
<1>5. ASSUME CreateRequest, Stays PROVE Approval'
  BY <1>0, <1>5, Names, CasMoves DEF CreateRequest, Stays, world, Approval, Settling, Quiet,
      Live, Serving, Asking, Writes, Places, Kept, NoTimerNow, Got, Done
<1>6. ASSUME MarkRunning, Stays PROVE Approval'
  BY <1>0, <1>6, Names, CasMoves DEF MarkRunning, Stays, world, Approval, Settling, Quiet,
      Live, Serving, Asking, Writes, Places, Kept, NoTimerNow, Got, Done
<1>7. ASSUME CompleteRun, Stays PROVE Approval'
  BY <1>0, <1>7, Names, CasMoves DEF CompleteRun, Stays, world, Approval, Settling, Quiet,
      Live, Serving, Asking, Writes, Places, Kept, NoTimerNow, Got, Done
<1>8. ASSUME FailRun, Stays PROVE Approval'
  BY <1>0, <1>8, Names, CasMoves DEF FailRun, Closes, Stays, world, Approval, Settling, Quiet,
      Live, Serving, Asking, Writes, Places, Kept, NoTimerNow, Got, Done
<1>9. ASSUME CancelRun, Stays PROVE Approval'
  BY <1>0, <1>9, Names, CasMoves DEF CancelRun, Closes, Stays, world, Approval, Settling,
      Quiet, Live, Serving, Asking, Writes, Places, Kept, NoTimerNow, Got, Done
<1>10. ASSUME MarkCancelling, Stays PROVE Approval'
  BY <1>0, <1>10, Names, CasMoves DEF MarkCancelling, Stays, world, Approval, Settling, Quiet,
      Live, Serving, Asking, Writes, Places, Kept, NoTimerNow, Got, Done
<1>11. ASSUME DecideAllow, Stays PROVE Approval'
  BY <1>0, <1>11, Names, CasMoves DEF DecideAllow, Pending, Stays, world, Approval, Settling,
      Quiet, Live, Serving, Asking, Writes, Places, Kept, NoTimerNow, Got, Done
<1>12. ASSUME DecideDeny, Stays PROVE Approval'
  BY <1>0, <1>12, Names, CasMoves DEF DecideDeny, Pending, Stays, world, Approval, Settling,
      Quiet, Live, Serving, Asking, Writes, Places, Kept, NoTimerNow, Got, Done
<1>13. ASSUME ExpireRequest, Stays PROVE Approval'
  BY <1>0, <1>13, Names, CasMoves DEF ExpireRequest, Pending, Stays, world, Approval, Settling,
      Quiet, Live, Serving, Asking, Writes, Places, Kept, NoTimerNow, Got, Done
<1>14. ASSUME Invoke PROVE Approval'
  BY <1>0, <1>14, Names, AskMoves DEF Invoke, Serving, world, Approval, Settling, Quiet, Live,
      Asking, Writes, Places, Kept, NoTimerNow, Got, Done
<1>15. ASSUME StopBegins PROVE Approval'
  BY <1>0, <1>15, Names, DropAndGotoMoves DEF StopBegins, Live, Serving, world, Approval,
      Settling, Quiet, Asking, Writes, Places, Kept, NoTimerNow, Got, Done
<1>16. ASSUME Torn("invoke", {"create", "request", "snapshot"}) PROVE Approval'
  BY <1>0, <1>16, Names, TornMoves DEF Approval, Settling, Quiet, Live, Serving, Asking, Writes,
      Places, Kept, NoTimerNow, Got, Done
<1>17. ASSUME NEW d \in Deciders, Torn(d, {"allow", "deny"}) PROVE Approval'
  BY <1>0, <1>17, Names, TornMoves DEF Approval, Settling, Quiet, Live, Serving, Asking, Writes,
      Places, Kept, NoTimerNow, Got, Done
<1>18. ASSUME NEW c \in Cancellers, Torn(c, {"mark", "join", "cancel"}) PROVE Approval'
  BY <1>0, <1>18, Names, TornMoves DEF Approval, Settling, Quiet, Live, Serving, Asking, Writes,
      Places, Kept, NoTimerNow, Got, Done
<1>19. ASSUME Restart PROVE Approval'
  BY <1>0, <1>19, Names, RestartMoves DEF Approval, Settling, Quiet, Live, Serving, Asking,
      Writes, Places, Kept, NoTimerNow, Got, Done
<1>20. ASSUME NEW d \in Deciders, Decide(d) PROVE Approval'
  BY <1>0, <1>20, Names, AskMoves, DropAndAskMoves DEF Decide, Serving, Unchanged, world,
      Approval, Settling, Quiet, Live, Asking, Writes, Places, Kept, NoTimerNow, Got, Done
<1>21. ASSUME NEW d \in Deciders, Sweep(d) PROVE Approval'
  BY <1>0, <1>21, Names, AskMoves DEF Sweep, Serving, world, Approval, Settling, Quiet, Live,
      Asking, Writes, Places, Kept, NoTimerNow, Got, Done
<1>22. ASSUME NEW c \in Cancellers, Cancel(c) PROVE Approval'
  BY <1>0, <1>22, Names, DropAndAskMoves, DropAndGotoMoves DEF Cancel, Serving, world,
      Approval, Settling, Quiet, Live, Asking, Writes, Places, Kept, NoTimerNow, Got, Done
<1>23. ASSUME Admitted PROVE Approval'
  BY <1>0, <1>23, Names, AdmittedMoves DEF Approval, Settling, Quiet, Live, Serving, Asking,
      Writes, Places, Kept, NoTimerNow, Got, Done
<1>24. ASSUME Requested PROVE Approval'
  BY <1>0, <1>24, Names, RequestedMoves DEF Approval, Settling, Quiet, Live, Serving, Asking,
      Writes, Places, Kept, NoTimerNow, Got, Done
<1>25. ASSUME InvokeReturns PROVE Approval'
  BY <1>0, <1>25, Names, GotoMoves DEF InvokeReturns, world, Approval, Settling, Quiet, Live,
      Serving, Asking, Writes, Places, Kept, NoTimerNow, Got, Done
<1>26. ASSUME Compensate PROVE Approval'
  BY <1>0, <1>26, Names, AskMoves, GotoMoves DEF Compensate, Got, Live, world, Approval,
      Settling, Quiet, Serving, Asking, Writes, Places, Kept, NoTimerNow, Done
<1>27. ASSUME CompensateFails PROVE Approval'
  BY <1>0, <1>27, Names, AskMoves DEF CompensateFails, world, Approval, Settling, Quiet, Live,
      Serving, Asking, Writes, Places, Kept, NoTimerNow, Got, Done
<1>28. ASSUME Compensated PROVE Approval'
  BY <1>0, <1>28, Names, GotoMoves DEF Compensated, Done, world, Approval, Settling, Quiet,
      Live, Serving, Asking, Writes, Places, Kept, NoTimerNow, Got
<1>29. ASSUME ExecuteResolves PROVE Approval'
  BY <1>0, <1>29, Names, AskMoves DEF ExecuteResolves, Unchanged, world, Approval, Settling,
      Quiet, Live, Serving, Asking, Writes, Places, Kept, NoTimerNow, Got, Done
<1>30. ASSUME Started PROVE Approval'
  BY <1>0, <1>30, Names, GotoMoves DEF Started, Got, world, Approval, Settling, Quiet, Live,
      Serving, Asking, Writes, Places, Kept, NoTimerNow, Done
<1>31. ASSUME Launch PROVE Approval'
  BY <1>0, <1>31, Names, AskMoves, GotoMoves DEF Launch, Unchanged, Approval, Settling, Quiet,
      Live, Serving, Asking, Writes, Places, Kept, NoTimerNow, Got, Done
<1>32. ASSUME SignalArrives PROVE Approval'
  BY <1>0, <1>32, Names, SignalMoves DEF Approval, Settling, Quiet, Live, Serving, Asking,
      Writes, Places, Kept, NoTimerNow, Got, Done
<1>33. ASSUME SignalBeforeStart PROVE Approval'
  BY <1>0, <1>33, Names, GotoMoves DEF SignalBeforeStart, Ends, world, Approval, Settling,
      Quiet, Live, Serving, Asking, Writes, Places, Kept, NoTimerNow, Got, Done
<1>34. ASSUME OutcomeCommitted PROVE Approval'
  BY <1>0, <1>34, Names, AskMoves, GotoMoves DEF OutcomeCommitted, Done, Ends, world, Approval,
      Settling, Quiet, Live, Serving, Asking, Writes, Places, Kept, NoTimerNow, Got
<1>35. ASSUME ExecutionEnds PROVE Approval'
  BY <1>0, <1>35, Names, GotoMoves DEF ExecutionEnds, Got, Done, Ends, world, Approval,
      Settling, Quiet, Live, Serving, Asking, Writes, Places, Kept, NoTimerNow
<1>36. ASSUME AdapterReturns PROVE Approval'
  BY <1>0, <1>36, Names, AskMoves DEF AdapterReturns, world, Approval, Settling, Quiet, Live,
      Serving, Asking, Writes, Places, Kept, NoTimerNow, Got, Done
<1>37. ASSUME AdapterFails PROVE Approval'
  BY <1>0, <1>37, Names, AskMoves DEF AdapterFails, world, Approval, Settling, Quiet, Live,
      Serving, Asking, Writes, Places, Kept, NoTimerNow, Got, Done
<1>38. ASSUME TimerFires PROVE Approval'
  BY <1>0, <1>38, Names, AskMoves DEF TimerFires, world, Approval, Settling, Quiet, Live,
      Serving, Asking, Writes, Places, Kept, NoTimerNow, Got, Done
<1>39. ASSUME TimerEnds PROVE Approval'
  BY <1>0, <1>39, Names, GotoMoves DEF TimerEnds, Done, world, Approval, Settling, Quiet, Live,
      Serving, Asking, Writes, Places, Kept, NoTimerNow, Got
<1>40. ASSUME StopJoined PROVE Approval'
  BY <1>0, <1>40, Names, AskMoves DEF StopJoined, world, Approval, Settling, Quiet, Live,
      Serving, Asking, Writes, Places, Kept, NoTimerNow, Got, Done
<1>41. ASSUME StopEnds PROVE Approval'
  BY <1>0, <1>41, Names, GotoMoves DEF StopEnds, Done, world, Approval, Settling, Quiet, Live,
      Serving, Asking, Writes, Places, Kept, NoTimerNow, Got
<1>42. ASSUME NEW d \in Deciders, Allowed(d) PROVE Approval'
  BY <1>0, <1>42, Names, AllowedMoves DEF Approval, Settling, Quiet, Live, Serving, Asking,
      Writes, Places, Kept, NoTimerNow, Got, Done
<1>43. ASSUME NEW d \in Deciders, Denied(d) PROVE Approval'
  BY <1>0, <1>43, Names, DropAndAskMoves DEF Denied, Got, world, Approval, Settling, Quiet,
      Live, Serving, Asking, Writes, Places, Kept, NoTimerNow, Done
<1>44. ASSUME NEW d \in Deciders, DecidedElsewhere(d) PROVE Approval'
  BY <1>0, <1>44, Names, GotoMoves DEF DecidedElsewhere, Got, Done, Live, world, Approval,
      Settling, Quiet, Serving, Asking, Writes, Places, Kept, NoTimerNow
<1>45. ASSUME NEW d \in Deciders, DecisionEnds(d) PROVE Approval'
  BY <1>0, <1>45, Names, GotoMoves DEF DecisionEnds, Done, world, Approval, Settling, Quiet,
      Live, Serving, Asking, Writes, Places, Kept, NoTimerNow, Got
<1>46. ASSUME NEW d \in Deciders, ReconcileDecision(d) PROVE Approval'
  BY <1>0, <1>46, Names, DropAndAskMoves, GotoMoves DEF ReconcileDecision, world, Approval,
      Settling, Quiet, Live, Serving, Asking, Writes, Places, Kept, NoTimerNow, Got, Done
<1>47. ASSUME NEW c \in Cancellers, CancelWaited(c) PROVE Approval'
  BY <1>0, <1>47, Names, GotoMoves DEF CancelWaited, world, Approval, Settling, Quiet, Live,
      Serving, Asking, Writes, Places, Kept, NoTimerNow, Got, Done
<1>48. ASSUME NEW c \in Cancellers, Marked(c) PROVE Approval'
  BY <1>0, <1>48, Names, AskMoves, GotoMoves DEF Marked, Got, StopTask, Live, world, Approval,
      Settling, Quiet, Serving, Asking, Writes, Places, Kept, NoTimerNow, Done
<1>49. ASSUME NEW c \in Cancellers, NotMarked(c) PROVE Approval'
  BY <1>0, <1>49, Names, GotoMoves DEF NotMarked, Got, world, Approval, Settling, Quiet, Live,
      Serving, Asking, Writes, Places, Kept, NoTimerNow, Done
<1>50. ASSUME NEW c \in Cancellers, CancelJoined(c) PROVE Approval'
  BY <1>0, <1>50, Names, AskMoves DEF CancelJoined, world, Approval, Settling, Quiet, Live,
      Serving, Asking, Writes, Places, Kept, NoTimerNow, Got, Done
<1>51. ASSUME NEW c \in Cancellers, CancelEnds(c) PROVE Approval'
  BY <1>0, <1>51, Names, GotoMoves DEF CancelEnds, Done, world, Approval, Settling, Quiet,
      Live, Serving, Asking, Writes, Places, Kept, NoTimerNow, Got
<1>52. ASSUME NEW c \in Cancellers, ReconcileCancel(c) PROVE Approval'
  BY <1>0, <1>52, Names, AskMoves, GotoMoves DEF ReconcileCancel, StopTask, Live, world,
      Approval, Settling, Quiet, Serving, Asking, Writes, Places, Kept, NoTimerNow, Got, Done
<1> QED
  BY <1>1, <1>2, <1>3, <1>4, <1>5, <1>6, <1>7, <1>8, <1>9, <1>10, <1>11, <1>12, <1>13, <1>14,
      <1>15, <1>16, <1>17, <1>18, <1>19, <1>20, <1>21, <1>22, <1>23, <1>24, <1>25, <1>26,
      <1>27, <1>28, <1>29, <1>30, <1>31, <1>32, <1>33, <1>34, <1>35, <1>36, <1>37, <1>38,
      <1>39, <1>40, <1>41, <1>42, <1>43, <1>44, <1>45, <1>46, <1>47, <1>48, <1>49, <1>50,
      <1>51, <1>52 DEF SNext, Commit, Calls, Tear, Invoker, Executor, Adapter, Expiry, Stopper,
      Owner, Canceller, Stays

LEMMA FollowsStep == ASSUME SInv, SNext PROVE Follows'
<1>0. Queue /\ Plain /\ Asking /\ Settling /\ Approval /\ Follows
  BY DEF SInv
<1>q. ASSUME UNCHANGED <<row, pc, reply>> PROVE Follows'
  BY <1>0, <1>q DEF Follows, PreStart, Asks, Begun, Got
<1>1. ASSUME \/ Revise
      PROVE  Follows'
  BY <1>1, <1>q DEF Revise, memory
<1>2. ASSUME NEW d \in Deciders,
             \/ DecideTooLate(d)
      PROVE  Follows'
  BY <1>2, <1>q DEF DecideTooLate, world
<1>3. ASSUME NEW w \in Waiters,
             \/ WaitBegins(w) \/ WaitRegisters(w) \/ WaitRereads(w)
      PROVE  Follows'
  BY <1>3, <1>q DEF WaitBegins, WaitRegisters, WaitRereads, world
<1>4. ASSUME CreateRun, Stays PROVE Follows'
  BY <1>0, <1>4, Names, CasMoves DEF CreateRun, Stays, world, Follows, PreStart, Asks, Begun,
      Open, Terminal, Asking, Writes, Places, Kept, NoTimerNow, Got, Done
<1>5. ASSUME CreateRequest, Stays PROVE Follows'
  BY <1>0, <1>5, Names, CasMoves DEF CreateRequest, Stays, world, Follows, PreStart, Asks,
      Begun, Open, Terminal, Asking, Writes, Places, Kept, NoTimerNow, Got, Done
<1>6. ASSUME MarkRunning, Stays PROVE Follows'
  BY <1>0, <1>6, Names, CasMoves DEF MarkRunning, Stays, world, Follows, PreStart, Asks, Begun,
      Open, Terminal, Asking, Writes, Places, Kept, NoTimerNow, Got, Done
<1>7. ASSUME CompleteRun, Stays PROVE Follows'
  BY <1>0, <1>7, Names, CasMoves DEF CompleteRun, Stays, world, Follows, PreStart, Asks, Begun,
      Open, Terminal, Asking, Writes, Places, Kept, NoTimerNow, Got, Done
<1>8. ASSUME FailRun, Stays PROVE Follows'
  BY <1>0, <1>8, Names, CasMoves DEF FailRun, Closes, Stays, world, Follows, PreStart, Asks,
      Begun, Open, Terminal, Asking, Writes, Places, Kept, NoTimerNow, Got, Done
<1>9. ASSUME CancelRun, Stays PROVE Follows'
  BY <1>0, <1>9, Names, CasMoves DEF CancelRun, Closes, Stays, world, Follows, PreStart, Asks,
      Begun, Open, Terminal, Asking, Writes, Places, Kept, NoTimerNow, Got, Done
<1>10. ASSUME MarkCancelling, Stays PROVE Follows'
  BY <1>0, <1>10, Names, CasMoves DEF MarkCancelling, Stays, world, Follows, PreStart, Asks,
      Begun, Open, Terminal, Asking, Writes, Places, Kept, NoTimerNow, Got, Done
<1>11. ASSUME DecideAllow, Stays PROVE Follows'
  BY <1>0, <1>11, Names, CasMoves DEF DecideAllow, Pending, Stays, world, Follows, PreStart,
      Asks, Begun, Open, Terminal, Asking, Writes, Places, Kept, NoTimerNow, Got, Done
<1>12. ASSUME DecideDeny, Stays PROVE Follows'
  BY <1>0, <1>12, Names, CasMoves DEF DecideDeny, Pending, Stays, world, Follows, PreStart,
      Asks, Begun, Open, Terminal, Asking, Writes, Places, Kept, NoTimerNow, Got, Done
<1>13. ASSUME ExpireRequest, Stays PROVE Follows'
  BY <1>0, <1>13, Names, CasMoves DEF ExpireRequest, Pending, Stays, world, Follows, PreStart,
      Asks, Begun, Open, Terminal, Asking, Writes, Places, Kept, NoTimerNow, Got, Done
<1>14. ASSUME Invoke PROVE Follows'
  BY <1>0, <1>14, Names, AskMoves DEF Invoke, Serving, world, Follows, PreStart, Asks, Begun,
      Open, Terminal, Asking, Writes, Places, Kept, NoTimerNow, Got, Done
<1>15. ASSUME StopBegins PROVE Follows'
  BY <1>0, <1>15, Names, DropAndGotoMoves DEF StopBegins, Live, Serving, world, Follows,
      PreStart, Asks, Begun, Open, Terminal, Asking, Writes, Places, Kept, NoTimerNow, Got,
      Done
<1>16. ASSUME Torn("invoke", {"create", "request", "snapshot"}) PROVE Follows'
  BY <1>0, <1>16, Names, TornMoves DEF Follows, PreStart, Asks, Begun, Open, Terminal, Asking,
      Writes, Places, Kept, NoTimerNow, Got, Done, Settling, Approval
<1>17. ASSUME NEW d \in Deciders, Torn(d, {"allow", "deny"}) PROVE Follows'
  BY <1>0, <1>17, Names, TornMoves DEF Follows, PreStart, Asks, Begun, Open, Terminal, Asking,
      Writes, Places, Kept, NoTimerNow, Got, Done, Settling, Approval
<1>18. ASSUME NEW c \in Cancellers, Torn(c, {"mark", "join", "cancel"}) PROVE Follows'
  BY <1>0, <1>18, Names, TornMoves DEF Follows, PreStart, Asks, Begun, Open, Terminal, Asking,
      Writes, Places, Kept, NoTimerNow, Got, Done, Settling, Approval
<1>19. ASSUME Restart PROVE Follows'
  BY <1>0, <1>19, Names, RestartMoves DEF Follows, PreStart, Asks, Begun, Open, Terminal,
      Asking, Writes, Places, Kept, NoTimerNow, Got, Done, Settling, Approval
<1>20. ASSUME NEW d \in Deciders, Decide(d) PROVE Follows'
  BY <1>0, <1>20, Names, AskMoves, DropAndAskMoves DEF Decide, Serving, Unchanged, world,
      Follows, PreStart, Asks, Begun, Open, Terminal, Asking, Writes, Places, Kept, NoTimerNow,
      Got, Done
<1>21. ASSUME NEW d \in Deciders, Sweep(d) PROVE Follows'
  BY <1>0, <1>21, Names, AskMoves DEF Sweep, Serving, world, Follows, PreStart, Asks, Begun,
      Open, Terminal, Asking, Writes, Places, Kept, NoTimerNow, Got, Done
<1>22. ASSUME NEW c \in Cancellers, Cancel(c) PROVE Follows'
  BY <1>0, <1>22, Names, DropAndAskMoves, DropAndGotoMoves DEF Cancel, Serving, world, Follows,
      PreStart, Asks, Begun, Open, Terminal, Asking, Writes, Places, Kept, NoTimerNow, Got,
      Done
<1>23. ASSUME Admitted PROVE Follows'
  BY <1>0, <1>23, Names, AdmittedMoves DEF Follows, PreStart, Asks, Begun, Open, Terminal,
      Asking, Writes, Places, Kept, NoTimerNow, Got, Done, Settling, Approval
<1>24. ASSUME Requested PROVE Follows'
  BY <1>0, <1>24, Names, RequestedMoves DEF Follows, PreStart, Asks, Begun, Open, Terminal,
      Asking, Writes, Places, Kept, NoTimerNow, Got, Done, Settling, Approval
<1>25. ASSUME InvokeReturns PROVE Follows'
  BY <1>0, <1>25, Names, GotoMoves DEF InvokeReturns, world, Follows, PreStart, Asks, Begun,
      Open, Terminal, Asking, Writes, Places, Kept, NoTimerNow, Got, Done
<1>26. ASSUME Compensate PROVE Follows'
  BY <1>0, <1>26, Names, AskMoves, GotoMoves DEF Compensate, Got, Live, world, Follows,
      PreStart, Asks, Begun, Open, Terminal, Asking, Writes, Places, Kept, NoTimerNow, Done
<1>27. ASSUME CompensateFails PROVE Follows'
  BY <1>0, <1>27, Names, AskMoves DEF CompensateFails, world, Follows, PreStart, Asks, Begun,
      Open, Terminal, Asking, Writes, Places, Kept, NoTimerNow, Got, Done
<1>28. ASSUME Compensated PROVE Follows'
  BY <1>0, <1>28, Names, GotoMoves DEF Compensated, Done, world, Follows, PreStart, Asks,
      Begun, Open, Terminal, Asking, Writes, Places, Kept, NoTimerNow, Got
<1>29. ASSUME ExecuteResolves PROVE Follows'
  BY <1>0, <1>29, Names, AskMoves DEF ExecuteResolves, Unchanged, world, Follows, PreStart,
      Asks, Begun, Open, Terminal, Asking, Writes, Places, Kept, NoTimerNow, Got, Done
<1>30. ASSUME Started PROVE Follows'
  BY <1>0, <1>30, Names, GotoMoves DEF Started, Got, world, Follows, PreStart, Asks, Begun,
      Open, Terminal, Asking, Writes, Places, Kept, NoTimerNow, Done
<1>31. ASSUME Launch PROVE Follows'
  BY <1>0, <1>31, Names, AskMoves, GotoMoves DEF Launch, Unchanged, Follows, PreStart, Asks,
      Begun, Open, Terminal, Asking, Writes, Places, Kept, NoTimerNow, Got, Done
<1>32. ASSUME SignalArrives PROVE Follows'
  BY <1>0, <1>32, Names, SignalMoves DEF Follows, PreStart, Asks, Begun, Open, Terminal, Asking,
      Writes, Places, Kept, NoTimerNow, Got, Done, Settling, Approval
<1>33. ASSUME SignalBeforeStart PROVE Follows'
  BY <1>0, <1>33, Names, GotoMoves DEF SignalBeforeStart, Ends, world, Follows, PreStart, Asks,
      Begun, Open, Terminal, Asking, Writes, Places, Kept, NoTimerNow, Got, Done
<1>34. ASSUME OutcomeCommitted PROVE Follows'
  BY <1>0, <1>34, Names, AskMoves, GotoMoves DEF OutcomeCommitted, Done, Ends, world, Follows,
      PreStart, Asks, Begun, Open, Terminal, Asking, Writes, Places, Kept, NoTimerNow, Got
<1>35. ASSUME ExecutionEnds PROVE Follows'
  BY <1>0, <1>35, Names, GotoMoves DEF ExecutionEnds, Got, Done, Ends, world, Follows,
      PreStart, Asks, Begun, Open, Terminal, Asking, Writes, Places, Kept, NoTimerNow
<1>36. ASSUME AdapterReturns PROVE Follows'
  BY <1>0, <1>36, Names, AskMoves DEF AdapterReturns, world, Follows, PreStart, Asks, Begun,
      Open, Terminal, Asking, Writes, Places, Kept, NoTimerNow, Got, Done
<1>37. ASSUME AdapterFails PROVE Follows'
  BY <1>0, <1>37, Names, AskMoves DEF AdapterFails, world, Follows, PreStart, Asks, Begun,
      Open, Terminal, Asking, Writes, Places, Kept, NoTimerNow, Got, Done
<1>38. ASSUME TimerFires PROVE Follows'
  BY <1>0, <1>38, Names, AskMoves DEF TimerFires, world, Follows, PreStart, Asks, Begun, Open,
      Terminal, Asking, Writes, Places, Kept, NoTimerNow, Got, Done
<1>39. ASSUME TimerEnds PROVE Follows'
  BY <1>0, <1>39, Names, GotoMoves DEF TimerEnds, Done, world, Follows, PreStart, Asks, Begun,
      Open, Terminal, Asking, Writes, Places, Kept, NoTimerNow, Got
<1>40. ASSUME StopJoined PROVE Follows'
  BY <1>0, <1>40, Names, AskMoves DEF StopJoined, world, Follows, PreStart, Asks, Begun, Open,
      Terminal, Asking, Writes, Places, Kept, NoTimerNow, Got, Done
<1>41. ASSUME StopEnds PROVE Follows'
  BY <1>0, <1>41, Names, GotoMoves DEF StopEnds, Done, world, Follows, PreStart, Asks, Begun,
      Open, Terminal, Asking, Writes, Places, Kept, NoTimerNow, Got
<1>42. ASSUME NEW d \in Deciders, Allowed(d) PROVE Follows'
  BY <1>0, <1>42, Names, AllowedMoves DEF Follows, PreStart, Asks, Begun, Open, Terminal,
      Asking, Writes, Places, Kept, NoTimerNow, Got, Done, Settling, Approval
<1>43. ASSUME NEW d \in Deciders, Denied(d) PROVE Follows'
  BY <1>0, <1>43, Names, DropAndAskMoves DEF Denied, Got, world, Follows, PreStart, Asks,
      Begun, Open, Terminal, Asking, Writes, Places, Kept, NoTimerNow, Done
<1>44. ASSUME NEW d \in Deciders, DecidedElsewhere(d) PROVE Follows'
  BY <1>0, <1>44, Names, GotoMoves DEF DecidedElsewhere, Got, Done, Live, world, Follows,
      PreStart, Asks, Begun, Open, Terminal, Asking, Writes, Places, Kept, NoTimerNow
<1>45. ASSUME NEW d \in Deciders, DecisionEnds(d) PROVE Follows'
  BY <1>0, <1>45, Names, GotoMoves DEF DecisionEnds, Done, world, Follows, PreStart, Asks,
      Begun, Open, Terminal, Asking, Writes, Places, Kept, NoTimerNow, Got
<1>46. ASSUME NEW d \in Deciders, ReconcileDecision(d) PROVE Follows'
  BY <1>0, <1>46, Names, DropAndAskMoves, GotoMoves DEF ReconcileDecision, world, Follows,
      PreStart, Asks, Begun, Open, Terminal, Asking, Writes, Places, Kept, NoTimerNow, Got,
      Done
<1>47. ASSUME NEW c \in Cancellers, CancelWaited(c) PROVE Follows'
  BY <1>0, <1>47, Names, GotoMoves DEF CancelWaited, world, Follows, PreStart, Asks, Begun,
      Open, Terminal, Asking, Writes, Places, Kept, NoTimerNow, Got, Done
<1>48. ASSUME NEW c \in Cancellers, Marked(c) PROVE Follows'
  BY <1>0, <1>48, Names, AskMoves, GotoMoves DEF Marked, Got, StopTask, Live, world, Follows,
      PreStart, Asks, Begun, Open, Terminal, Asking, Writes, Places, Kept, NoTimerNow, Done
<1>49. ASSUME NEW c \in Cancellers, NotMarked(c) PROVE Follows'
  BY <1>0, <1>49, Names, GotoMoves DEF NotMarked, Got, world, Follows, PreStart, Asks, Begun,
      Open, Terminal, Asking, Writes, Places, Kept, NoTimerNow, Done
<1>50. ASSUME NEW c \in Cancellers, CancelJoined(c) PROVE Follows'
  BY <1>0, <1>50, Names, AskMoves DEF CancelJoined, world, Follows, PreStart, Asks, Begun,
      Open, Terminal, Asking, Writes, Places, Kept, NoTimerNow, Got, Done
<1>51. ASSUME NEW c \in Cancellers, CancelEnds(c) PROVE Follows'
  BY <1>0, <1>51, Names, GotoMoves DEF CancelEnds, Done, world, Follows, PreStart, Asks, Begun,
      Open, Terminal, Asking, Writes, Places, Kept, NoTimerNow, Got
<1>52. ASSUME NEW c \in Cancellers, ReconcileCancel(c) PROVE Follows'
  BY <1>0, <1>52, Names, AskMoves, GotoMoves DEF ReconcileCancel, StopTask, Live, world,
      Follows, PreStart, Asks, Begun, Open, Terminal, Asking, Writes, Places, Kept, NoTimerNow,
      Got, Done
<1> QED
  BY <1>1, <1>2, <1>3, <1>4, <1>5, <1>6, <1>7, <1>8, <1>9, <1>10, <1>11, <1>12, <1>13, <1>14,
      <1>15, <1>16, <1>17, <1>18, <1>19, <1>20, <1>21, <1>22, <1>23, <1>24, <1>25, <1>26,
      <1>27, <1>28, <1>29, <1>30, <1>31, <1>32, <1>33, <1>34, <1>35, <1>36, <1>37, <1>38,
      <1>39, <1>40, <1>41, <1>42, <1>43, <1>44, <1>45, <1>46, <1>47, <1>48, <1>49, <1>50,
      <1>51, <1>52 DEF SNext, Commit, Calls, Tear, Invoker, Executor, Adapter, Expiry, Stopper,
      Owner, Canceller, Stays

LEMMA InvokeFencedStep == ASSUME SInv, SNext PROVE InvokeFenced'
<1>0. Queue /\ Plain /\ Asking /\ Quiet /\ Settling /\ Approval /\ Follows /\ InvokeFenced
  BY DEF SInv
<1>q. ASSUME UNCHANGED <<pc, reply, db, sig>> PROVE InvokeFenced'
  BY <1>0, <1>q DEF InvokeFenced, Told, Stoppable, Begun, Asks, Got
<1>1. ASSUME \/ Revise
      PROVE  InvokeFenced'
  BY <1>1, <1>q DEF Revise, memory
<1>2. ASSUME NEW d \in Deciders,
             \/ DecideTooLate(d)
      PROVE  InvokeFenced'
  BY <1>2, <1>q DEF DecideTooLate, world
<1>3. ASSUME NEW w \in Waiters,
             \/ WaitBegins(w) \/ WaitRegisters(w) \/ WaitRereads(w)
      PROVE  InvokeFenced'
  BY <1>3, <1>q DEF WaitBegins, WaitRegisters, WaitRereads, world
<1>4. ASSUME CreateRun, Stays PROVE InvokeFenced'
  BY <1>0, <1>4, Names, CasMoves DEF CreateRun, Stays, world, InvokeFenced, Told, Stoppable,
      Begun, Asks, Open, Terminal, Live, Asking, Writes, Places, Kept, NoTimerNow, Got, Done
<1>5. ASSUME CreateRequest, Stays PROVE InvokeFenced'
  BY <1>0, <1>5, Names, CasMoves DEF CreateRequest, Stays, world, InvokeFenced, Told,
      Stoppable, Begun, Asks, Open, Terminal, Live, Asking, Writes, Places, Kept, NoTimerNow,
      Got, Done
<1>6. ASSUME MarkRunning, Stays PROVE InvokeFenced'
  <2>1. pc' = pc /\ sig' = sig
    BY <1>6 DEF Stays
  <2>2. PICK h \in Actors : /\ Kept({h}) /\ pc[h] = "start" /\ reply[h] = "wait"
                           /\ \A b : ~Ahead(db, b, h)
    <3>1. Cas("start", {"created"}, "running")
      BY <1>6 DEF MarkRunning
    <3> QED
      BY <1>0, <2>1, <3>1, CasMoves
  <2>3. h = "execute"
    BY <1>0, <2>2, Names DEF Asking
  <2>4. pc'["invoke"] = "join" => Told'
    BY <1>0, <2>1 DEF InvokeFenced, Told, Stoppable
  <2>5. ASSUME Got("invoke", "fail", "wait")' PROVE sig
    <3>1. reply["invoke"] = "wait"
      BY <2>1, <2>2, <2>3, <2>5, Names DEF Kept, Got
    <3> QED
      BY <1>0, <2>1, <2>2, <2>3, <2>5, <3>1 DEF InvokeFenced, Asks, Got
  <2> QED
    BY <2>1, <2>4, <2>5 DEF InvokeFenced
<1>7. ASSUME CompleteRun, Stays PROVE InvokeFenced'
  BY <1>0, <1>7, Names, CasMoves DEF CompleteRun, Stays, world, InvokeFenced, Told, Stoppable,
      Begun, Asks, Open, Terminal, Live, Asking, Writes, Places, Kept, NoTimerNow, Got, Done
<1>8. ASSUME FailRun, Stays PROVE InvokeFenced'
  BY <1>0, <1>8, Names, CasMoves DEF FailRun, Closes, Stays, world, InvokeFenced, Told,
      Stoppable, Begun, Asks, Open, Terminal, Live, Asking, Writes, Places, Kept, NoTimerNow,
      Got, Done
<1>9. ASSUME CancelRun, Stays PROVE InvokeFenced'
  BY <1>0, <1>9, Names, CasMoves DEF CancelRun, Closes, Stays, world, InvokeFenced, Told,
      Stoppable, Begun, Asks, Open, Terminal, Live, Asking, Writes, Places, Kept, NoTimerNow,
      Got, Done
<1>10. ASSUME MarkCancelling, Stays PROVE InvokeFenced'
  BY <1>0, <1>10, Names, CasMoves DEF MarkCancelling, Stays, world, InvokeFenced, Told,
      Stoppable, Begun, Asks, Open, Terminal, Live, Asking, Writes, Places, Kept, NoTimerNow,
      Got, Done
<1>11. ASSUME DecideAllow, Stays PROVE InvokeFenced'
  BY <1>0, <1>11, Names, CasMoves DEF DecideAllow, Pending, Stays, world, InvokeFenced, Told,
      Stoppable, Begun, Asks, Open, Terminal, Live, Asking, Writes, Places, Kept, NoTimerNow,
      Got, Done
<1>12. ASSUME DecideDeny, Stays PROVE InvokeFenced'
  BY <1>0, <1>12, Names, CasMoves DEF DecideDeny, Pending, Stays, world, InvokeFenced, Told,
      Stoppable, Begun, Asks, Open, Terminal, Live, Asking, Writes, Places, Kept, NoTimerNow,
      Got, Done
<1>13. ASSUME ExpireRequest, Stays PROVE InvokeFenced'
  BY <1>0, <1>13, Names, CasMoves DEF ExpireRequest, Pending, Stays, world, InvokeFenced, Told,
      Stoppable, Begun, Asks, Open, Terminal, Live, Asking, Writes, Places, Kept, NoTimerNow,
      Got, Done
<1>14. ASSUME Invoke PROVE InvokeFenced'
  BY <1>0, <1>14, Names, AskMoves DEF Invoke, Serving, world, InvokeFenced, Told, Stoppable,
      Begun, Asks, Open, Terminal, Live, Asking, Writes, Places, Kept, NoTimerNow, Got, Done
<1>15. ASSUME StopBegins PROVE InvokeFenced'
  BY <1>0, <1>15, Names, DropAndGotoMoves DEF StopBegins, Live, Serving, world, InvokeFenced,
      Told, Stoppable, Begun, Asks, Open, Terminal, Asking, Writes, Places, Kept, NoTimerNow,
      Got, Done
<1>16. ASSUME Torn("invoke", {"create", "request", "snapshot"}) PROVE InvokeFenced'
  BY <1>0, <1>16, Names, TornMoves DEF InvokeFenced, Told, Stoppable, Begun, Asks, Open,
      Terminal, Live, Asking, Writes, Places, Kept, NoTimerNow, Got, Done, Settling, Approval
<1>17. ASSUME NEW d \in Deciders, Torn(d, {"allow", "deny"}) PROVE InvokeFenced'
  BY <1>0, <1>17, Names, TornMoves DEF InvokeFenced, Told, Stoppable, Begun, Asks, Open,
      Terminal, Live, Asking, Writes, Places, Kept, NoTimerNow, Got, Done, Settling, Approval
<1>18. ASSUME NEW c \in Cancellers, Torn(c, {"mark", "join", "cancel"}) PROVE InvokeFenced'
  BY <1>0, <1>18, Names, TornMoves DEF InvokeFenced, Told, Stoppable, Begun, Asks, Open,
      Terminal, Live, Asking, Writes, Places, Kept, NoTimerNow, Got, Done, Settling, Approval
<1>19. ASSUME Restart PROVE InvokeFenced'
  BY <1>0, <1>19, Names, RestartMoves DEF InvokeFenced, Told, Stoppable, Begun, Asks, Open,
      Terminal, Live, Asking, Writes, Places, Kept, NoTimerNow, Got, Done, Settling, Approval
<1>20. ASSUME NEW d \in Deciders, Decide(d) PROVE InvokeFenced'
  BY <1>0, <1>20, Names, AskMoves, DropAndAskMoves DEF Decide, Serving, Unchanged, world,
      InvokeFenced, Told, Stoppable, Begun, Asks, Open, Terminal, Live, Asking, Writes, Places,
      Kept, NoTimerNow, Got, Done
<1>21. ASSUME NEW d \in Deciders, Sweep(d) PROVE InvokeFenced'
  BY <1>0, <1>21, Names, AskMoves DEF Sweep, Serving, world, InvokeFenced, Told, Stoppable,
      Begun, Asks, Open, Terminal, Live, Asking, Writes, Places, Kept, NoTimerNow, Got, Done
<1>22. ASSUME NEW c \in Cancellers, Cancel(c) PROVE InvokeFenced'
  BY <1>0, <1>22, Names, DropAndAskMoves, DropAndGotoMoves DEF Cancel, Serving, world,
      InvokeFenced, Told, Stoppable, Begun, Asks, Open, Terminal, Live, Asking, Writes, Places,
      Kept, NoTimerNow, Got, Done
<1>23. ASSUME Admitted PROVE InvokeFenced'
  BY <1>0, <1>23, Names, AdmittedMoves DEF InvokeFenced, Told, Stoppable, Begun, Asks, Open,
      Terminal, Live, Asking, Writes, Places, Kept, NoTimerNow, Got, Done, Settling, Approval
<1>24. ASSUME Requested PROVE InvokeFenced'
  BY <1>0, <1>24, Names, RequestedMoves DEF InvokeFenced, Told, Stoppable, Begun, Asks, Open,
      Terminal, Live, Asking, Writes, Places, Kept, NoTimerNow, Got, Done, Settling, Approval
<1>25. ASSUME InvokeReturns PROVE InvokeFenced'
  BY <1>0, <1>25, Names, GotoMoves DEF InvokeReturns, world, InvokeFenced, Told, Stoppable,
      Begun, Asks, Open, Terminal, Live, Asking, Writes, Places, Kept, NoTimerNow, Got, Done
<1>26. ASSUME Compensate PROVE InvokeFenced'
  BY <1>0, <1>26, Names, AskMoves, GotoMoves DEF Compensate, Got, Live, world, InvokeFenced,
      Told, Stoppable, Begun, Asks, Open, Terminal, Asking, Writes, Places, Kept, NoTimerNow,
      Done
<1>27. ASSUME CompensateFails PROVE InvokeFenced'
  BY <1>0, <1>27, Names, AskMoves DEF CompensateFails, Joined, world, InvokeFenced, Told,
      Stoppable, Begun, Asks, Open, Terminal, Live, Asking, Writes, Places, Kept, NoTimerNow,
      Got, Done
<1>28. ASSUME Compensated PROVE InvokeFenced'
  BY <1>0, <1>28, Names, GotoMoves DEF Compensated, Done, world, InvokeFenced, Told, Stoppable,
      Begun, Asks, Open, Terminal, Live, Asking, Writes, Places, Kept, NoTimerNow, Got
<1>29. ASSUME ExecuteResolves PROVE InvokeFenced'
  BY <1>0, <1>29, Names, AskMoves DEF ExecuteResolves, Unchanged, world, InvokeFenced, Told,
      Stoppable, Begun, Asks, Open, Terminal, Live, Asking, Writes, Places, Kept, NoTimerNow,
      Got, Done
<1>30. ASSUME Started PROVE InvokeFenced'
  BY <1>0, <1>30, Names, GotoMoves DEF Started, Got, world, InvokeFenced, Told, Stoppable,
      Begun, Asks, Open, Terminal, Live, Asking, Writes, Places, Kept, NoTimerNow, Done
<1>31. ASSUME Launch PROVE InvokeFenced'
  BY <1>0, <1>31, Names, AskMoves, GotoMoves DEF Launch, Unchanged, InvokeFenced, Told,
      Stoppable, Begun, Asks, Open, Terminal, Live, Asking, Writes, Places, Kept, NoTimerNow,
      Got, Done
<1>32. ASSUME SignalArrives PROVE InvokeFenced'
  BY <1>0, <1>32, Names, SignalMoves DEF InvokeFenced, Told, Stoppable, Begun, Asks, Open,
      Terminal, Live, Asking, Writes, Places, Kept, NoTimerNow, Got, Done, Settling, Approval
<1>33. ASSUME SignalBeforeStart PROVE InvokeFenced'
  BY <1>0, <1>33, Names, GotoMoves DEF SignalBeforeStart, Ends, world, InvokeFenced, Told,
      Stoppable, Begun, Asks, Open, Terminal, Live, Asking, Writes, Places, Kept, NoTimerNow,
      Got, Done
<1>34. ASSUME OutcomeCommitted PROVE InvokeFenced'
  BY <1>0, <1>34, Names, AskMoves, GotoMoves DEF OutcomeCommitted, Done, Ends, world,
      InvokeFenced, Told, Stoppable, Begun, Asks, Open, Terminal, Live, Asking, Writes, Places,
      Kept, NoTimerNow, Got
<1>35. ASSUME ExecutionEnds PROVE InvokeFenced'
  BY <1>0, <1>35, Names, GotoMoves DEF ExecutionEnds, Got, Done, Ends, world, InvokeFenced,
      Told, Stoppable, Begun, Asks, Open, Terminal, Live, Asking, Writes, Places, Kept,
      NoTimerNow
<1>36. ASSUME AdapterReturns PROVE InvokeFenced'
  BY <1>0, <1>36, Names, AskMoves DEF AdapterReturns, world, InvokeFenced, Told, Stoppable,
      Begun, Asks, Open, Terminal, Live, Asking, Writes, Places, Kept, NoTimerNow, Got, Done
<1>37. ASSUME AdapterFails PROVE InvokeFenced'
  BY <1>0, <1>37, Names, AskMoves DEF AdapterFails, world, InvokeFenced, Told, Stoppable,
      Begun, Asks, Open, Terminal, Live, Asking, Writes, Places, Kept, NoTimerNow, Got, Done
<1>38. ASSUME TimerFires PROVE InvokeFenced'
  BY <1>0, <1>38, Names, AskMoves DEF TimerFires, world, InvokeFenced, Told, Stoppable, Begun,
      Asks, Open, Terminal, Live, Asking, Writes, Places, Kept, NoTimerNow, Got, Done
<1>39. ASSUME TimerEnds PROVE InvokeFenced'
  BY <1>0, <1>39, Names, GotoMoves DEF TimerEnds, Done, world, InvokeFenced, Told, Stoppable,
      Begun, Asks, Open, Terminal, Live, Asking, Writes, Places, Kept, NoTimerNow, Got
<1>40. ASSUME StopJoined PROVE InvokeFenced'
  BY <1>0, <1>40, Names, AskMoves DEF StopJoined, Joined, world, InvokeFenced, Told, Stoppable,
      Begun, Asks, Open, Terminal, Live, Asking, Writes, Places, Kept, NoTimerNow, Got, Done
<1>41. ASSUME StopEnds PROVE InvokeFenced'
  BY <1>0, <1>41, Names, GotoMoves DEF StopEnds, Done, world, InvokeFenced, Told, Stoppable,
      Begun, Asks, Open, Terminal, Live, Asking, Writes, Places, Kept, NoTimerNow, Got
<1>42. ASSUME NEW d \in Deciders, Allowed(d) PROVE InvokeFenced'
  BY <1>0, <1>42, Names, AllowedMoves DEF InvokeFenced, Told, Stoppable, Begun, Asks, Open,
      Terminal, Live, Asking, Writes, Places, Kept, NoTimerNow, Got, Done, Settling, Approval
<1>43. ASSUME NEW d \in Deciders, Denied(d) PROVE InvokeFenced'
  BY <1>0, <1>43, Names, DropAndAskMoves DEF Denied, Got, world, InvokeFenced, Told, Stoppable,
      Begun, Asks, Open, Terminal, Live, Asking, Writes, Places, Kept, NoTimerNow, Done
<1>44. ASSUME NEW d \in Deciders, DecidedElsewhere(d) PROVE InvokeFenced'
  BY <1>0, <1>44, Names, GotoMoves DEF DecidedElsewhere, Got, Done, Live, world, InvokeFenced,
      Told, Stoppable, Begun, Asks, Open, Terminal, Asking, Writes, Places, Kept, NoTimerNow
<1>45. ASSUME NEW d \in Deciders, DecisionEnds(d) PROVE InvokeFenced'
  BY <1>0, <1>45, Names, GotoMoves DEF DecisionEnds, Done, world, InvokeFenced, Told,
      Stoppable, Begun, Asks, Open, Terminal, Live, Asking, Writes, Places, Kept, NoTimerNow,
      Got
<1>46. ASSUME NEW d \in Deciders, ReconcileDecision(d) PROVE InvokeFenced'
  BY <1>0, <1>46, Names, DropAndAskMoves, GotoMoves DEF ReconcileDecision, world, InvokeFenced,
      Told, Stoppable, Begun, Asks, Open, Terminal, Live, Asking, Writes, Places, Kept,
      NoTimerNow, Got, Done
<1>47. ASSUME NEW c \in Cancellers, CancelWaited(c) PROVE InvokeFenced'
  BY <1>0, <1>47, Names, GotoMoves DEF CancelWaited, world, InvokeFenced, Told, Stoppable,
      Begun, Asks, Open, Terminal, Live, Asking, Writes, Places, Kept, NoTimerNow, Got, Done
<1>48. ASSUME NEW c \in Cancellers, Marked(c) PROVE InvokeFenced'
  BY <1>0, <1>48, Names, AskMoves, GotoMoves DEF Marked, Got, StopTask, Live, world,
      InvokeFenced, Told, Stoppable, Begun, Asks, Open, Terminal, Asking, Writes, Places, Kept,
      NoTimerNow, Done
<1>49. ASSUME NEW c \in Cancellers, NotMarked(c) PROVE InvokeFenced'
  BY <1>0, <1>49, Names, GotoMoves DEF NotMarked, Got, world, InvokeFenced, Told, Stoppable,
      Begun, Asks, Open, Terminal, Live, Asking, Writes, Places, Kept, NoTimerNow, Done
<1>50. ASSUME NEW c \in Cancellers, CancelJoined(c) PROVE InvokeFenced'
  BY <1>0, <1>50, Names, AskMoves DEF CancelJoined, Joined, world, InvokeFenced, Told,
      Stoppable, Begun, Asks, Open, Terminal, Live, Asking, Writes, Places, Kept, NoTimerNow,
      Got, Done
<1>51. ASSUME NEW c \in Cancellers, CancelEnds(c) PROVE InvokeFenced'
  BY <1>0, <1>51, Names, GotoMoves DEF CancelEnds, Done, world, InvokeFenced, Told, Stoppable,
      Begun, Asks, Open, Terminal, Live, Asking, Writes, Places, Kept, NoTimerNow, Got
<1>52. ASSUME NEW c \in Cancellers, ReconcileCancel(c) PROVE InvokeFenced'
  BY <1>0, <1>52, Names, AskMoves, GotoMoves DEF ReconcileCancel, StopTask, Live, world,
      InvokeFenced, Told, Stoppable, Begun, Asks, Open, Terminal, Asking, Writes, Places, Kept,
      NoTimerNow, Got, Done
<1> QED
  BY <1>1, <1>2, <1>3, <1>4, <1>5, <1>6, <1>7, <1>8, <1>9, <1>10, <1>11, <1>12, <1>13, <1>14,
      <1>15, <1>16, <1>17, <1>18, <1>19, <1>20, <1>21, <1>22, <1>23, <1>24, <1>25, <1>26,
      <1>27, <1>28, <1>29, <1>30, <1>31, <1>32, <1>33, <1>34, <1>35, <1>36, <1>37, <1>38,
      <1>39, <1>40, <1>41, <1>42, <1>43, <1>44, <1>45, <1>46, <1>47, <1>48, <1>49, <1>50,
      <1>51, <1>52 DEF SNext, Commit, Calls, Tear, Invoker, Executor, Adapter, Expiry, Stopper,
      Owner, Canceller, Stays

LEMMA StopFencedStep == ASSUME SInv, SNext PROVE StopFenced'
<1>0. Queue /\ Plain /\ Asking /\ Quiet /\ Settling /\ Approval /\ StopFenced
  BY DEF SInv
<1>q. ASSUME UNCHANGED <<pc, sig>> PROVE StopFenced'
  BY <1>0, <1>q DEF StopFenced, Stoppable, Serving
<1>1. ASSUME Stays,
             \/ CreateRun \/ CreateRequest \/ MarkRunning \/ CompleteRun \/ FailRun \/ CancelRun
             \/ MarkCancelling \/ DecideAllow \/ DecideDeny \/ ExpireRequest
      PROVE  StopFenced'
  BY <1>1, <1>q DEF Stays, world
<1>2. ASSUME \/ Revise
      PROVE  StopFenced'
  BY <1>2, <1>q DEF Revise, memory
<1>3. ASSUME NEW d \in Deciders,
             \/ DecideTooLate(d)
      PROVE  StopFenced'
  BY <1>3, <1>q DEF DecideTooLate, world
<1>4. ASSUME NEW w \in Waiters,
             \/ WaitBegins(w) \/ WaitRegisters(w) \/ WaitRereads(w)
      PROVE  StopFenced'
  BY <1>4, <1>q DEF WaitBegins, WaitRegisters, WaitRereads, world
<1>5. ASSUME Invoke PROVE StopFenced'
  BY <1>0, <1>5, Names, AskMoves DEF Invoke, Serving, world, StopFenced, Stoppable, Live,
      Quiet, Asking, Writes, Places, Kept, NoTimerNow, Got, Done
<1>6. ASSUME StopBegins PROVE StopFenced'
  <2>1. /\ pc["stop"] = "idle" /\ sig' = Live
        /\ \E to \in {"join", "clear"} : DropAndGoto("stop", to)
    BY <1>6 DEF StopBegins, Serving
  <2>2. reply["stop"] # "wait" /\ {"join", "clear"} \subseteq Places
    BY <1>0, <2>1, Names DEF Asking, Writes, Places
  <2>3. Kept({"stop", "timer"})
    BY <1>0, <2>1, <2>2, Names, DropAndGotoMoves
  <2> QED
    BY <2>1, <2>3, Names DEF Kept, StopFenced, Stoppable, Live
<1>7. ASSUME Torn("invoke", {"create", "request", "snapshot"}) PROVE StopFenced'
  BY <1>0, <1>7, Names, TornMoves DEF StopFenced, Stoppable, Live, Serving, Quiet, Settling,
      Approval, Asking, Writes, Places, Kept, NoTimerNow, Got, Done
<1>8. ASSUME NEW d \in Deciders, Torn(d, {"allow", "deny"}) PROVE StopFenced'
  BY <1>0, <1>8, Names, TornMoves DEF StopFenced, Stoppable, Live, Serving, Quiet, Settling,
      Approval, Asking, Writes, Places, Kept, NoTimerNow, Got, Done
<1>9. ASSUME NEW c \in Cancellers, Torn(c, {"mark", "join", "cancel"}) PROVE StopFenced'
  BY <1>0, <1>9, Names, TornMoves DEF StopFenced, Stoppable, Live, Serving, Quiet, Settling,
      Approval, Asking, Writes, Places, Kept, NoTimerNow, Got, Done
<1>10. ASSUME Restart PROVE StopFenced'
  BY <1>0, <1>10, Names, RestartMoves DEF StopFenced, Stoppable, Live, Serving, Quiet, Settling,
      Approval, Asking, Writes, Places, Kept, NoTimerNow, Got, Done
<1>11. ASSUME NEW d \in Deciders, Decide(d) PROVE StopFenced'
  BY <1>0, <1>11, Names, AskMoves, DropAndAskMoves DEF Decide, Serving, Unchanged, world,
      StopFenced, Stoppable, Live, Quiet, Asking, Writes, Places, Kept, NoTimerNow, Got, Done
<1>12. ASSUME NEW d \in Deciders, Sweep(d) PROVE StopFenced'
  BY <1>0, <1>12, Names, AskMoves DEF Sweep, Serving, world, StopFenced, Stoppable, Live,
      Quiet, Asking, Writes, Places, Kept, NoTimerNow, Got, Done
<1>13. ASSUME NEW c \in Cancellers, Cancel(c) PROVE StopFenced'
  BY <1>0, <1>13, Names, DropAndAskMoves, DropAndGotoMoves DEF Cancel, Serving, world,
      StopFenced, Stoppable, Live, Quiet, Asking, Writes, Places, Kept, NoTimerNow, Got, Done
<1>14. ASSUME Admitted PROVE StopFenced'
  BY <1>0, <1>14, Names, AdmittedMoves DEF StopFenced, Stoppable, Live, Serving, Quiet,
      Settling, Approval, Asking, Writes, Places, Kept, NoTimerNow, Got, Done
<1>15. ASSUME Requested PROVE StopFenced'
  BY <1>0, <1>15, Names, RequestedMoves DEF StopFenced, Stoppable, Live, Serving, Quiet,
      Settling, Approval, Asking, Writes, Places, Kept, NoTimerNow, Got, Done
<1>16. ASSUME InvokeReturns PROVE StopFenced'
  BY <1>0, <1>16, Names, GotoMoves DEF InvokeReturns, world, StopFenced, Stoppable, Live,
      Serving, Quiet, Asking, Writes, Places, Kept, NoTimerNow, Got, Done
<1>17. ASSUME Compensate PROVE StopFenced'
  BY <1>0, <1>17, Names, AskMoves, GotoMoves DEF Compensate, Got, Live, world, StopFenced,
      Stoppable, Serving, Quiet, Asking, Writes, Places, Kept, NoTimerNow, Done
<1>18. ASSUME CompensateFails PROVE StopFenced'
  BY <1>0, <1>18, Names, AskMoves DEF CompensateFails, Joined, world, StopFenced, Stoppable,
      Live, Serving, Quiet, Asking, Writes, Places, Kept, NoTimerNow, Got, Done
<1>19. ASSUME Compensated PROVE StopFenced'
  BY <1>0, <1>19, Names, GotoMoves DEF Compensated, Done, world, StopFenced, Stoppable, Live,
      Serving, Quiet, Asking, Writes, Places, Kept, NoTimerNow, Got
<1>20. ASSUME ExecuteResolves PROVE StopFenced'
  BY <1>0, <1>20, Names, AskMoves DEF ExecuteResolves, Unchanged, world, StopFenced, Stoppable,
      Live, Serving, Quiet, Asking, Writes, Places, Kept, NoTimerNow, Got, Done
<1>21. ASSUME Started PROVE StopFenced'
  BY <1>0, <1>21, Names, GotoMoves DEF Started, Got, world, StopFenced, Stoppable, Live,
      Serving, Quiet, Asking, Writes, Places, Kept, NoTimerNow, Done
<1>22. ASSUME Launch PROVE StopFenced'
  BY <1>0, <1>22, Names, AskMoves, GotoMoves DEF Launch, Unchanged, StopFenced, Stoppable,
      Live, Serving, Quiet, Asking, Writes, Places, Kept, NoTimerNow, Got, Done
<1>23. ASSUME SignalArrives PROVE StopFenced'
  BY <1>0, <1>23, Names, SignalMoves DEF StopFenced, Stoppable, Live, Serving, Quiet, Settling,
      Approval, Asking, Writes, Places, Kept, NoTimerNow, Got, Done
<1>24. ASSUME SignalBeforeStart PROVE StopFenced'
  BY <1>0, <1>24, Names, GotoMoves DEF SignalBeforeStart, Ends, world, StopFenced, Stoppable,
      Live, Serving, Quiet, Asking, Writes, Places, Kept, NoTimerNow, Got, Done
<1>25. ASSUME OutcomeCommitted PROVE StopFenced'
  BY <1>0, <1>25, Names, AskMoves, GotoMoves DEF OutcomeCommitted, Done, Ends, world,
      StopFenced, Stoppable, Live, Serving, Quiet, Asking, Writes, Places, Kept, NoTimerNow,
      Got
<1>26. ASSUME ExecutionEnds PROVE StopFenced'
  BY <1>0, <1>26, Names, GotoMoves DEF ExecutionEnds, Got, Done, Ends, world, StopFenced,
      Stoppable, Live, Serving, Quiet, Asking, Writes, Places, Kept, NoTimerNow
<1>27. ASSUME AdapterReturns PROVE StopFenced'
  BY <1>0, <1>27, Names, AskMoves DEF AdapterReturns, world, StopFenced, Stoppable, Live,
      Serving, Quiet, Asking, Writes, Places, Kept, NoTimerNow, Got, Done
<1>28. ASSUME AdapterFails PROVE StopFenced'
  BY <1>0, <1>28, Names, AskMoves DEF AdapterFails, world, StopFenced, Stoppable, Live,
      Serving, Quiet, Asking, Writes, Places, Kept, NoTimerNow, Got, Done
<1>29. ASSUME TimerFires PROVE StopFenced'
  BY <1>0, <1>29, Names, AskMoves DEF TimerFires, world, StopFenced, Stoppable, Live, Serving,
      Quiet, Asking, Writes, Places, Kept, NoTimerNow, Got, Done
<1>30. ASSUME TimerEnds PROVE StopFenced'
  BY <1>0, <1>30, Names, GotoMoves DEF TimerEnds, Done, world, StopFenced, Stoppable, Live,
      Serving, Quiet, Asking, Writes, Places, Kept, NoTimerNow, Got
<1>31. ASSUME StopJoined PROVE StopFenced'
  BY <1>0, <1>31, Names, AskMoves DEF StopJoined, Joined, world, StopFenced, Stoppable, Live,
      Serving, Quiet, Asking, Writes, Places, Kept, NoTimerNow, Got, Done
<1>32. ASSUME StopEnds PROVE StopFenced'
  BY <1>0, <1>32, Names, GotoMoves DEF StopEnds, Done, world, StopFenced, Stoppable, Live,
      Serving, Quiet, Asking, Writes, Places, Kept, NoTimerNow, Got
<1>33. ASSUME NEW d \in Deciders, Allowed(d) PROVE StopFenced'
  <2>1. pc[d] = "allow" /\ Kept({d, "execute", "timer"})
    BY <1>0, <1>33, AllowedMoves DEF Got
  <2>2. pc["stop"] = "idle"
    BY <1>0, <2>1 DEF Quiet, Serving
  <2>3. pc'["stop"] = pc["stop"]
    BY <2>1, Names DEF Kept
  <2> QED
    BY <2>2, <2>3 DEF StopFenced, Serving
<1>34. ASSUME NEW d \in Deciders, Denied(d) PROVE StopFenced'
  BY <1>0, <1>34, Names, DropAndAskMoves DEF Denied, Got, world, StopFenced, Stoppable, Live,
      Serving, Quiet, Asking, Writes, Places, Kept, NoTimerNow, Done
<1>35. ASSUME NEW d \in Deciders, DecidedElsewhere(d) PROVE StopFenced'
  BY <1>0, <1>35, Names, GotoMoves DEF DecidedElsewhere, Got, Done, Live, world, StopFenced,
      Stoppable, Serving, Quiet, Asking, Writes, Places, Kept, NoTimerNow
<1>36. ASSUME NEW d \in Deciders, DecisionEnds(d) PROVE StopFenced'
  BY <1>0, <1>36, Names, GotoMoves DEF DecisionEnds, Done, world, StopFenced, Stoppable, Live,
      Serving, Quiet, Asking, Writes, Places, Kept, NoTimerNow, Got
<1>37. ASSUME NEW d \in Deciders, ReconcileDecision(d) PROVE StopFenced'
  BY <1>0, <1>37, Names, DropAndAskMoves, GotoMoves DEF ReconcileDecision, world, StopFenced,
      Stoppable, Live, Serving, Quiet, Asking, Writes, Places, Kept, NoTimerNow, Got, Done
<1>38. ASSUME NEW c \in Cancellers, CancelWaited(c) PROVE StopFenced'
  BY <1>0, <1>38, Names, GotoMoves DEF CancelWaited, world, StopFenced, Stoppable, Live,
      Serving, Quiet, Asking, Writes, Places, Kept, NoTimerNow, Got, Done
<1>39. ASSUME NEW c \in Cancellers, Marked(c) PROVE StopFenced'
  BY <1>0, <1>39, Names, AskMoves, GotoMoves DEF Marked, Got, StopTask, Live, world,
      StopFenced, Stoppable, Serving, Quiet, Asking, Writes, Places, Kept, NoTimerNow, Done
<1>40. ASSUME NEW c \in Cancellers, NotMarked(c) PROVE StopFenced'
  BY <1>0, <1>40, Names, GotoMoves DEF NotMarked, Got, world, StopFenced, Stoppable, Live,
      Serving, Quiet, Asking, Writes, Places, Kept, NoTimerNow, Done
<1>41. ASSUME NEW c \in Cancellers, CancelJoined(c) PROVE StopFenced'
  BY <1>0, <1>41, Names, AskMoves DEF CancelJoined, Joined, world, StopFenced, Stoppable, Live,
      Serving, Quiet, Asking, Writes, Places, Kept, NoTimerNow, Got, Done
<1>42. ASSUME NEW c \in Cancellers, CancelEnds(c) PROVE StopFenced'
  BY <1>0, <1>42, Names, GotoMoves DEF CancelEnds, Done, world, StopFenced, Stoppable, Live,
      Serving, Quiet, Asking, Writes, Places, Kept, NoTimerNow, Got
<1>43. ASSUME NEW c \in Cancellers, ReconcileCancel(c) PROVE StopFenced'
  BY <1>0, <1>43, Names, AskMoves, GotoMoves DEF ReconcileCancel, StopTask, Live, world,
      StopFenced, Stoppable, Serving, Quiet, Asking, Writes, Places, Kept, NoTimerNow, Got,
      Done
<1> QED
  BY <1>1, <1>2, <1>3, <1>4, <1>5, <1>6, <1>7, <1>8, <1>9, <1>10, <1>11, <1>12, <1>13, <1>14,
      <1>15, <1>16, <1>17, <1>18, <1>19, <1>20, <1>21, <1>22, <1>23, <1>24, <1>25, <1>26,
      <1>27, <1>28, <1>29, <1>30, <1>31, <1>32, <1>33, <1>34, <1>35, <1>36, <1>37, <1>38,
      <1>39, <1>40, <1>41, <1>42, <1>43 DEF SNext, Commit, Calls, Tear, Invoker, Executor,
      Adapter, Expiry, Stopper, Owner, Canceller, Stays

LEMMA CancelFencedStep == ASSUME SInv, SNext PROVE CancelFenced'
<1>0. Queue /\ Plain /\ Asking /\ Quiet /\ Settling /\ Approval /\ Follows /\ CancelFenced
  BY DEF SInv
<1>q. ASSUME UNCHANGED <<row, pc, reply, db, sig, handle>> PROVE CancelFenced'
  BY <1>0, <1>q DEF CancelFenced, FencedBy, Told, Stoppable, Begun, PreStart, Asks, Got
<1>1. ASSUME \/ Revise
      PROVE  CancelFenced'
  BY <1>1, <1>q DEF Revise, memory
<1>2. ASSUME NEW d \in Deciders,
             \/ DecideTooLate(d)
      PROVE  CancelFenced'
  BY <1>2, <1>q DEF DecideTooLate, world
<1>3. ASSUME NEW w \in Waiters,
             \/ WaitBegins(w) \/ WaitRegisters(w) \/ WaitRereads(w)
      PROVE  CancelFenced'
  BY <1>3, <1>q DEF WaitBegins, WaitRegisters, WaitRereads, world
<1>4. ASSUME CreateRun, Stays PROVE CancelFenced'
  BY <1>0, <1>4, Names, CasMoves DEF CreateRun, Stays, world, CancelFenced, FencedBy, Told,
      Stoppable, Begun, PreStart, Asks, Doomed, Open, Terminal, Live, Follows, Asking, Writes,
      Places, Kept, NoTimerNow, Got, Done
<1>5. ASSUME CreateRequest, Stays PROVE CancelFenced'
  BY <1>0, <1>5, Names, CasMoves DEF CreateRequest, Stays, world, CancelFenced, FencedBy, Told,
      Stoppable, Begun, PreStart, Asks, Doomed, Open, Terminal, Live, Follows, Asking, Writes,
      Places, Kept, NoTimerNow, Got, Done
<1>6. ASSUME MarkRunning, Stays PROVE CancelFenced'
  BY <1>0, <1>6, Names, CasMoves DEF MarkRunning, Stays, world, CancelFenced, FencedBy, Told,
      Stoppable, Begun, PreStart, Asks, Doomed, Open, Terminal, Live, Follows, Asking, Writes,
      Places, Kept, NoTimerNow, Got, Done
<1>7. ASSUME CompleteRun, Stays PROVE CancelFenced'
  BY <1>0, <1>7, Names, CasMoves DEF CompleteRun, Stays, world, CancelFenced, FencedBy, Told,
      Stoppable, Begun, PreStart, Asks, Doomed, Open, Terminal, Live, Follows, Asking, Writes,
      Places, Kept, NoTimerNow, Got, Done
<1>8. ASSUME FailRun, Stays PROVE CancelFenced'
  BY <1>0, <1>8, Names, CasMoves DEF FailRun, Closes, Stays, world, CancelFenced, FencedBy,
      Told, Stoppable, Begun, PreStart, Asks, Doomed, Open, Terminal, Live, Follows, Asking,
      Writes, Places, Kept, NoTimerNow, Got, Done
<1>9. ASSUME CancelRun, Stays PROVE CancelFenced'
  BY <1>0, <1>9, Names, CasMoves DEF CancelRun, Closes, Stays, world, CancelFenced, FencedBy,
      Told, Stoppable, Begun, PreStart, Asks, Doomed, Open, Terminal, Live, Follows, Asking,
      Writes, Places, Kept, NoTimerNow, Got, Done
<1>10. ASSUME MarkCancelling, Stays PROVE CancelFenced'
  <2>1. PICK h \in Actors :
          /\ Kept({h}) /\ pc[h] = "mark" /\ reply[h] = "wait" /\ pc' = pc
          /\ \/ reply'[h] = "won" /\ row' = "cancelling"
             \/ reply'[h] = "lost" /\ row' = row /\ row \notin {"created", "waiting"}
    <3> DEFINE from == {"created", "waiting"} \cup
                           IF skill.interruptible THEN {"running"} ELSE {}
    <3>1. Cas("mark", from, "cancelling") /\ pc' = pc
      BY <1>10 DEF MarkCancelling, Stays
    <3>2. {"created", "waiting"} \subseteq from
      OBVIOUS
    <3> HIDE DEF from
    <3> QED
      BY <1>0, <3>1, <3>2, CasMoves
  <2>2. h \in Cancellers /\ h # "execute" /\ "execute" \in Actors /\ Cancellers \subseteq Actors
    BY <1>0, <2>1, Names DEF Asking
  <2>3. UNCHANGED <<handle, sig, PreStart, Asks, Begun, Told>>
    BY <2>1, <2>2, <1>10 DEF Stays, Kept, PreStart, Asks, Begun, Told, Stoppable, Got
  <2>4. ASSUME NEW c \in Cancellers PROVE FencedBy(c)'
    <3>1. CASE c = h
      BY <1>0, <2>1, <2>2, <2>3, <3>1 DEF CancelFenced, FencedBy, Plain, Follows, Doomed, Open,
          Terminal
    <3>2. CASE c # h
      BY <1>0, <2>1, <2>2, <2>3, <3>2 DEF CancelFenced, FencedBy, Doomed, Kept, Asks, Got
    <3> QED
      BY <3>1, <3>2
  <2> QED
    BY <2>4 DEF CancelFenced
<1>11. ASSUME DecideAllow, Stays PROVE CancelFenced'
  BY <1>0, <1>11, Names, CasMoves DEF DecideAllow, Pending, Stays, world, CancelFenced,
      FencedBy, Told, Stoppable, Begun, PreStart, Asks, Doomed, Open, Terminal, Live, Follows,
      Asking, Writes, Places, Kept, NoTimerNow, Got, Done
<1>12. ASSUME DecideDeny, Stays PROVE CancelFenced'
  BY <1>0, <1>12, Names, CasMoves DEF DecideDeny, Pending, Stays, world, CancelFenced,
      FencedBy, Told, Stoppable, Begun, PreStart, Asks, Doomed, Open, Terminal, Live, Follows,
      Asking, Writes, Places, Kept, NoTimerNow, Got, Done
<1>13. ASSUME ExpireRequest, Stays PROVE CancelFenced'
  BY <1>0, <1>13, Names, CasMoves DEF ExpireRequest, Pending, Stays, world, CancelFenced,
      FencedBy, Told, Stoppable, Begun, PreStart, Asks, Doomed, Open, Terminal, Live, Follows,
      Asking, Writes, Places, Kept, NoTimerNow, Got, Done
<1>14. ASSUME Invoke PROVE CancelFenced'
  BY <1>0, <1>14, Names, AskMoves DEF Invoke, Serving, world, CancelFenced, FencedBy, Told,
      Stoppable, Begun, PreStart, Asks, Doomed, Open, Terminal, Live, Follows, Asking, Writes,
      Places, Kept, NoTimerNow, Got, Done
<1>15. ASSUME StopBegins PROVE CancelFenced'
  BY <1>0, <1>15, Names, DropAndGotoMoves DEF StopBegins, Live, Serving, world, CancelFenced,
      FencedBy, Told, Stoppable, Begun, PreStart, Asks, Doomed, Open, Terminal, Follows,
      Asking, Writes, Places, Kept, NoTimerNow, Got, Done
<1>16. ASSUME Torn("invoke", {"create", "request", "snapshot"}) PROVE CancelFenced'
  BY <1>0, <1>16, Names, TornMoves DEF CancelFenced, FencedBy, Told, Stoppable, Begun, PreStart,
      Asks, Doomed, Open, Terminal, Live, Follows, Asking, Writes, Places, Kept, NoTimerNow,
      Got, Done, Settling, Approval
<1>17. ASSUME NEW d \in Deciders, Torn(d, {"allow", "deny"}) PROVE CancelFenced'
  BY <1>0, <1>17, Names, TornMoves DEF CancelFenced, FencedBy, Told, Stoppable, Begun, PreStart,
      Asks, Doomed, Open, Terminal, Live, Follows, Asking, Writes, Places, Kept, NoTimerNow,
      Got, Done, Settling, Approval
<1>18. ASSUME NEW c \in Cancellers, Torn(c, {"mark", "join", "cancel"}) PROVE CancelFenced'
  BY <1>0, <1>18, Names, TornMoves DEF CancelFenced, FencedBy, Told, Stoppable, Begun, PreStart,
      Asks, Doomed, Open, Terminal, Live, Follows, Asking, Writes, Places, Kept, NoTimerNow,
      Got, Done, Settling, Approval
<1>19. ASSUME Restart PROVE CancelFenced'
  BY <1>0, <1>19, Names, RestartMoves DEF CancelFenced, FencedBy, Told, Stoppable, Begun,
      PreStart, Asks, Doomed, Open, Terminal, Live, Follows, Asking, Writes, Places, Kept,
      NoTimerNow, Got, Done, Settling, Approval
<1>20. ASSUME NEW d \in Deciders, Decide(d) PROVE CancelFenced'
  BY <1>0, <1>20, Names, AskMoves, DropAndAskMoves DEF Decide, Serving, Unchanged, world,
      CancelFenced, FencedBy, Told, Stoppable, Begun, PreStart, Asks, Doomed, Open, Terminal,
      Live, Follows, Asking, Writes, Places, Kept, NoTimerNow, Got, Done
<1>21. ASSUME NEW d \in Deciders, Sweep(d) PROVE CancelFenced'
  BY <1>0, <1>21, Names, AskMoves DEF Sweep, Serving, world, CancelFenced, FencedBy, Told,
      Stoppable, Begun, PreStart, Asks, Doomed, Open, Terminal, Live, Follows, Asking, Writes,
      Places, Kept, NoTimerNow, Got, Done
<1>22. ASSUME NEW c \in Cancellers, Cancel(c) PROVE CancelFenced'
  <2>1. /\ pc[c] = "idle" /\ c # "timer" /\ reply[c] # "wait" /\ UNCHANGED <<row, sig>>
        /\ {"await", "mark"} \subseteq Places /\ c \in Actors
    BY <1>0, <1>22, Names DEF Cancel, Asking, Writes, Places
  <2>2. /\ Kept({c, "timer"})
        /\ \/ pc'[c] = "await" /\ UNCHANGED handle
           \/ /\ pc'[c] = "mark" /\ reply'[c] = "wait"
              /\ handle' = [handle EXCEPT ![c] = Captured]
    BY <1>0, <1>22, <2>1, DropAndAskMoves, DropAndGotoMoves DEF Cancel
  <2>3. UNCHANGED <<PreStart, Asks, Begun, Told>>
    BY <2>1, <2>2, Names DEF Kept, PreStart, Asks, Begun, Told, Stoppable, Got
  <2>4. ASSUME NEW e \in Cancellers PROVE FencedBy(e)'
    <3>1. CASE e = c
      <4>1. ~handle'[c] /\ pc'[c] = "mark" => ~Live
        BY <1>0, <2>2 DEF Plain, Captured
      <4>2. ~Live => ~Begun /\ ~Asks
        BY DEF Live, Begun, Asks, Got
      <4> QED
        BY <2>2, <2>3, <3>1, <4>1, <4>2 DEF FencedBy
    <3>2. CASE e # c
      <4>1. /\ pc'[e] = pc[e] /\ reply'[e] = reply[e] /\ handle'[e] = handle[e]
            /\ Ahead(db, e, "execute") => Ahead(db', e, "execute")
        BY <1>0, <2>2, <3>2, Names DEF Kept, Plain
      <4> QED
        BY <1>0, <2>1, <2>3, <4>1 DEF CancelFenced, FencedBy, Doomed
    <3> QED
      BY <3>1, <3>2
  <2> QED
    BY <2>4 DEF CancelFenced
<1>23. ASSUME Admitted PROVE CancelFenced'
  BY <1>0, <1>23, Names, AdmittedMoves DEF CancelFenced, FencedBy, Told, Stoppable, Begun,
      PreStart, Asks, Doomed, Open, Terminal, Live, Follows, Asking, Writes, Places, Kept,
      NoTimerNow, Got, Done, Settling, Approval
<1>24. ASSUME Requested PROVE CancelFenced'
  BY <1>0, <1>24, Names, RequestedMoves DEF CancelFenced, FencedBy, Told, Stoppable, Begun,
      PreStart, Asks, Doomed, Open, Terminal, Live, Follows, Asking, Writes, Places, Kept,
      NoTimerNow, Got, Done, Settling, Approval
<1>25. ASSUME InvokeReturns PROVE CancelFenced'
  BY <1>0, <1>25, Names, GotoMoves DEF InvokeReturns, world, CancelFenced, FencedBy, Told,
      Stoppable, Begun, PreStart, Asks, Doomed, Open, Terminal, Live, Follows, Asking, Writes,
      Places, Kept, NoTimerNow, Got, Done
<1>26. ASSUME Compensate PROVE CancelFenced'
  BY <1>0, <1>26, Names, AskMoves, GotoMoves DEF Compensate, Got, Live, world, CancelFenced,
      FencedBy, Told, Stoppable, Begun, PreStart, Asks, Doomed, Open, Terminal, Follows,
      Asking, Writes, Places, Kept, NoTimerNow, Done
<1>27. ASSUME CompensateFails PROVE CancelFenced'
  BY <1>0, <1>27, Names, AskMoves DEF CompensateFails, Joined, world, CancelFenced, FencedBy,
      Told, Stoppable, Begun, PreStart, Asks, Doomed, Open, Terminal, Live, Follows, Asking,
      Writes, Places, Kept, NoTimerNow, Got, Done
<1>28. ASSUME Compensated PROVE CancelFenced'
  BY <1>0, <1>28, Names, GotoMoves DEF Compensated, Done, world, CancelFenced, FencedBy, Told,
      Stoppable, Begun, PreStart, Asks, Doomed, Open, Terminal, Live, Follows, Asking, Writes,
      Places, Kept, NoTimerNow, Got
<1>29. ASSUME ExecuteResolves PROVE CancelFenced'
  BY <1>0, <1>29, Names, AskMoves DEF ExecuteResolves, Unchanged, world, CancelFenced,
      FencedBy, Told, Stoppable, Begun, PreStart, Asks, Doomed, Open, Terminal, Live, Follows,
      Asking, Writes, Places, Kept, NoTimerNow, Got, Done
<1>30. ASSUME Started PROVE CancelFenced'
  BY <1>0, <1>30, Names, GotoMoves DEF Started, Got, world, CancelFenced, FencedBy, Told,
      Stoppable, Begun, PreStart, Asks, Doomed, Open, Terminal, Live, Follows, Asking, Writes,
      Places, Kept, NoTimerNow, Done
<1>31. ASSUME Launch PROVE CancelFenced'
  BY <1>0, <1>31, Names, AskMoves, GotoMoves DEF Launch, Unchanged, CancelFenced, FencedBy,
      Told, Stoppable, Begun, PreStart, Asks, Doomed, Open, Terminal, Live, Follows, Asking,
      Writes, Places, Kept, NoTimerNow, Got, Done
<1>32. ASSUME SignalArrives PROVE CancelFenced'
  BY <1>0, <1>32, Names, SignalMoves DEF CancelFenced, FencedBy, Told, Stoppable, Begun,
      PreStart, Asks, Doomed, Open, Terminal, Live, Follows, Asking, Writes, Places, Kept,
      NoTimerNow, Got, Done, Settling, Approval
<1>33. ASSUME SignalBeforeStart PROVE CancelFenced'
  BY <1>0, <1>33, Names, GotoMoves DEF SignalBeforeStart, Ends, world, CancelFenced, FencedBy,
      Told, Stoppable, Begun, PreStart, Asks, Doomed, Open, Terminal, Live, Follows, Asking,
      Writes, Places, Kept, NoTimerNow, Got, Done
<1>34. ASSUME OutcomeCommitted PROVE CancelFenced'
  BY <1>0, <1>34, Names, AskMoves, GotoMoves DEF OutcomeCommitted, Done, Ends, world,
      CancelFenced, FencedBy, Told, Stoppable, Begun, PreStart, Asks, Doomed, Open, Terminal,
      Live, Follows, Asking, Writes, Places, Kept, NoTimerNow, Got
<1>35. ASSUME ExecutionEnds PROVE CancelFenced'
  BY <1>0, <1>35, Names, GotoMoves DEF ExecutionEnds, Got, Done, Ends, world, CancelFenced,
      FencedBy, Told, Stoppable, Begun, PreStart, Asks, Doomed, Open, Terminal, Live, Follows,
      Asking, Writes, Places, Kept, NoTimerNow
<1>36. ASSUME AdapterReturns PROVE CancelFenced'
  BY <1>0, <1>36, Names, AskMoves DEF AdapterReturns, world, CancelFenced, FencedBy, Told,
      Stoppable, Begun, PreStart, Asks, Doomed, Open, Terminal, Live, Follows, Asking, Writes,
      Places, Kept, NoTimerNow, Got, Done
<1>37. ASSUME AdapterFails PROVE CancelFenced'
  BY <1>0, <1>37, Names, AskMoves DEF AdapterFails, world, CancelFenced, FencedBy, Told,
      Stoppable, Begun, PreStart, Asks, Doomed, Open, Terminal, Live, Follows, Asking, Writes,
      Places, Kept, NoTimerNow, Got, Done
<1>38. ASSUME TimerFires PROVE CancelFenced'
  BY <1>0, <1>38, Names, AskMoves DEF TimerFires, world, CancelFenced, FencedBy, Told,
      Stoppable, Begun, PreStart, Asks, Doomed, Open, Terminal, Live, Follows, Asking, Writes,
      Places, Kept, NoTimerNow, Got, Done
<1>39. ASSUME TimerEnds PROVE CancelFenced'
  BY <1>0, <1>39, Names, GotoMoves DEF TimerEnds, Done, world, CancelFenced, FencedBy, Told,
      Stoppable, Begun, PreStart, Asks, Doomed, Open, Terminal, Live, Follows, Asking, Writes,
      Places, Kept, NoTimerNow, Got
<1>40. ASSUME StopJoined PROVE CancelFenced'
  BY <1>0, <1>40, Names, AskMoves DEF StopJoined, Joined, world, CancelFenced, FencedBy, Told,
      Stoppable, Begun, PreStart, Asks, Doomed, Open, Terminal, Live, Follows, Asking, Writes,
      Places, Kept, NoTimerNow, Got, Done
<1>41. ASSUME StopEnds PROVE CancelFenced'
  BY <1>0, <1>41, Names, GotoMoves DEF StopEnds, Done, world, CancelFenced, FencedBy, Told,
      Stoppable, Begun, PreStart, Asks, Doomed, Open, Terminal, Live, Follows, Asking, Writes,
      Places, Kept, NoTimerNow, Got
<1>42. ASSUME NEW d \in Deciders, Allowed(d) PROVE CancelFenced'
  BY <1>0, <1>42, Names, AllowedMoves DEF CancelFenced, FencedBy, Told, Stoppable, Begun,
      PreStart, Asks, Doomed, Open, Terminal, Live, Follows, Asking, Writes, Places, Kept,
      NoTimerNow, Got, Done, Settling, Approval
<1>43. ASSUME NEW d \in Deciders, Denied(d) PROVE CancelFenced'
  BY <1>0, <1>43, Names, DropAndAskMoves DEF Denied, Got, world, CancelFenced, FencedBy, Told,
      Stoppable, Begun, PreStart, Asks, Doomed, Open, Terminal, Live, Follows, Asking, Writes,
      Places, Kept, NoTimerNow, Done
<1>44. ASSUME NEW d \in Deciders, DecidedElsewhere(d) PROVE CancelFenced'
  BY <1>0, <1>44, Names, GotoMoves DEF DecidedElsewhere, Got, Done, Live, world, CancelFenced,
      FencedBy, Told, Stoppable, Begun, PreStart, Asks, Doomed, Open, Terminal, Follows,
      Asking, Writes, Places, Kept, NoTimerNow
<1>45. ASSUME NEW d \in Deciders, DecisionEnds(d) PROVE CancelFenced'
  BY <1>0, <1>45, Names, GotoMoves DEF DecisionEnds, Done, world, CancelFenced, FencedBy, Told,
      Stoppable, Begun, PreStart, Asks, Doomed, Open, Terminal, Live, Follows, Asking, Writes,
      Places, Kept, NoTimerNow, Got
<1>46. ASSUME NEW d \in Deciders, ReconcileDecision(d) PROVE CancelFenced'
  BY <1>0, <1>46, Names, DropAndAskMoves, GotoMoves DEF ReconcileDecision, world, CancelFenced,
      FencedBy, Told, Stoppable, Begun, PreStart, Asks, Doomed, Open, Terminal, Live, Follows,
      Asking, Writes, Places, Kept, NoTimerNow, Got, Done
<1>47. ASSUME NEW c \in Cancellers, CancelWaited(c) PROVE CancelFenced'
  BY <1>0, <1>47, Names, GotoMoves DEF CancelWaited, world, CancelFenced, FencedBy, Told,
      Stoppable, Begun, PreStart, Asks, Doomed, Open, Terminal, Live, Follows, Asking, Writes,
      Places, Kept, NoTimerNow, Got, Done
<1>48. ASSUME NEW c \in Cancellers, Marked(c) PROVE CancelFenced'
  BY <1>0, <1>48, Names, AskMoves, GotoMoves DEF Marked, Got, StopTask, Live, world,
      CancelFenced, FencedBy, Told, Stoppable, Begun, PreStart, Asks, Doomed, Open, Terminal,
      Follows, Asking, Writes, Places, Kept, NoTimerNow, Done
<1>49. ASSUME NEW c \in Cancellers, NotMarked(c) PROVE CancelFenced'
  BY <1>0, <1>49, Names, GotoMoves DEF NotMarked, Got, world, CancelFenced, FencedBy, Told,
      Stoppable, Begun, PreStart, Asks, Doomed, Open, Terminal, Live, Follows, Asking, Writes,
      Places, Kept, NoTimerNow, Done
<1>50. ASSUME NEW c \in Cancellers, CancelJoined(c) PROVE CancelFenced'
  BY <1>0, <1>50, Names, AskMoves DEF CancelJoined, Joined, world, CancelFenced, FencedBy,
      Told, Stoppable, Begun, PreStart, Asks, Doomed, Open, Terminal, Live, Follows, Asking,
      Writes, Places, Kept, NoTimerNow, Got, Done
<1>51. ASSUME NEW c \in Cancellers, CancelEnds(c) PROVE CancelFenced'
  BY <1>0, <1>51, Names, GotoMoves DEF CancelEnds, Done, world, CancelFenced, FencedBy, Told,
      Stoppable, Begun, PreStart, Asks, Doomed, Open, Terminal, Live, Follows, Asking, Writes,
      Places, Kept, NoTimerNow, Got
<1>52. ASSUME NEW c \in Cancellers, ReconcileCancel(c) PROVE CancelFenced'
  <2>1. /\ pc[c] = "reconcile" /\ reply[c] # "wait" /\ UNCHANGED row
        /\ {"done", "await", "join", "cancel", "mark"} \subseteq Places /\ c \in Actors
    BY <1>0, <1>52, Names DEF ReconcileCancel, Asking, Writes, Places
  <2>2. /\ Kept({c})
        /\ \/ pc'[c] \in {"done", "await"} /\ UNCHANGED <<handle, sig>>
           \/ /\ row = "cancelling" /\ UNCHANGED handle
              /\ \/ Live /\ sig' = TRUE /\ pc'[c] = "join"
                 \/ ~Live /\ sig' = sig /\ pc'[c] = "cancel"
           \/ /\ pc'[c] = "mark" /\ reply'[c] = "wait" /\ UNCHANGED sig
              /\ handle' = [handle EXCEPT ![c] = Captured]
    BY <1>0, <1>52, <2>1, AskMoves, GotoMoves DEF ReconcileCancel, StopTask
  <2>3. UNCHANGED <<PreStart, Asks, Begun, Live, Stoppable>> /\ pc'["execute"] = pc["execute"]
    BY <2>1, <2>2, Names DEF Kept, PreStart, Asks, Begun, Live, Stoppable, Got
  <2>4. ~Live => ~Begun /\ ~Asks
    BY DEF Live, Begun, Asks, Got
  <2>5. ASSUME NEW e \in Cancellers PROVE FencedBy(e)'
    <3>1. CASE e = c
      <4>1. ~handle'[c] /\ pc'[c] = "mark" => ~Live
        BY <1>0, <2>2 DEF Plain, Captured
      <4> QED
        BY <2>1, <2>2, <2>3, <2>4, <3>1, <4>1 DEF FencedBy, Doomed, Told, Live
    <3>2. CASE e # c
      <4>1. /\ pc'[e] = pc[e] /\ reply'[e] = reply[e] /\ handle'[e] = handle[e]
            /\ Ahead(db, e, "execute") => Ahead(db', e, "execute")
        BY <1>0, <2>2, <3>2, Names DEF Kept, Plain
      <4>2. sig => sig'
        BY <2>2
      <4> QED
        BY <1>0, <2>1, <2>3, <4>1, <4>2 DEF CancelFenced, FencedBy, Doomed, Told
    <3> QED
      BY <3>1, <3>2
  <2> QED
    BY <2>5 DEF CancelFenced
<1> QED
  BY <1>1, <1>2, <1>3, <1>4, <1>5, <1>6, <1>7, <1>8, <1>9, <1>10, <1>11, <1>12, <1>13, <1>14,
      <1>15, <1>16, <1>17, <1>18, <1>19, <1>20, <1>21, <1>22, <1>23, <1>24, <1>25, <1>26,
      <1>27, <1>28, <1>29, <1>30, <1>31, <1>32, <1>33, <1>34, <1>35, <1>36, <1>37, <1>38,
      <1>39, <1>40, <1>41, <1>42, <1>43, <1>44, <1>45, <1>46, <1>47, <1>48, <1>49, <1>50,
      <1>51, <1>52 DEF SNext, Commit, Calls, Tear, Invoker, Executor, Adapter, Expiry, Stopper,
      Owner, Canceller, Stays

LEMMA EndedStep == ASSUME SInv, SNext PROVE Ended'
<1>0. Queue /\ Plain /\ Asking /\ Quiet /\ Settling /\ Approval /\ Follows /\ InvokeFenced /\
          CancelFenced /\ StopFenced /\ Ended
  BY DEF SInv
<1>q. ASSUME UNCHANGED <<row, pc, reply, sig, revision>> PROVE Ended'
  BY <1>0, <1>q DEF Ended, Begun, Overruled, Got
<1>1. ASSUME NEW d \in Deciders,
             \/ DecideTooLate(d)
      PROVE  Ended'
  BY <1>1, <1>q DEF DecideTooLate, world
<1>2. ASSUME NEW w \in Waiters,
             \/ WaitBegins(w) \/ WaitRegisters(w) \/ WaitRereads(w)
      PROVE  Ended'
  BY <1>2, <1>q DEF WaitBegins, WaitRegisters, WaitRereads, world
<1>3. ASSUME CreateRun, Stays PROVE Ended'
  BY <1>0, <1>3, Names, CasMoves DEF CreateRun, Stays, world, Ended, Begun, Open, Terminal,
      Live, Overruled, Follows, Asking, Writes, Places, Kept, NoTimerNow, Got, Done,
      InvokeFenced, CancelFenced, FencedBy, StopFenced, Told, Stoppable, Asks, Settling,
      Approval, Plain
<1>4. ASSUME CreateRequest, Stays PROVE Ended'
  BY <1>0, <1>4, Names, CasMoves DEF CreateRequest, Stays, world, Ended, Begun, Open, Terminal,
      Live, Overruled, Follows, Asking, Writes, Places, Kept, NoTimerNow, Got, Done,
      InvokeFenced, CancelFenced, FencedBy, StopFenced, Told, Stoppable, Asks, Settling,
      Approval, Plain
<1>5. ASSUME MarkRunning, Stays PROVE Ended'
  BY <1>0, <1>5, Names, CasMoves DEF MarkRunning, Stays, world, Ended, Begun, Open, Terminal,
      Live, Overruled, Follows, Asking, Writes, Places, Kept, NoTimerNow, Got, Done,
      InvokeFenced, CancelFenced, FencedBy, StopFenced, Told, Stoppable, Asks, Settling,
      Approval, Plain
<1>6. ASSUME CompleteRun, Stays PROVE Ended'
  BY <1>0, <1>6, Names, CasMoves DEF CompleteRun, Stays, world, Ended, Begun, Open, Terminal,
      Live, Overruled, Follows, Asking, Writes, Places, Kept, NoTimerNow, Got, Done,
      InvokeFenced, CancelFenced, FencedBy, StopFenced, Told, Stoppable, Asks, Settling,
      Approval, Plain
<1>7. ASSUME FailRun, Stays PROVE Ended'
  <2>1. PICK h \in Actors :
          /\ Kept({h}) /\ pc[h] = "fail" /\ reply[h] = "wait" /\ pc' = pc
          /\ row' \in {row, "failed"} /\ (row \in Terminal => row' = row)
    <3> DEFINE from == {"created", "waiting", "running"}
    <3>1. Cas("fail", from, "failed") /\ pc' = pc /\ \A r \in Terminal : r \notin from
      BY <1>7 DEF FailRun, Stays, Terminal
    <3> HIDE DEF from
    <3>2. PICK h \in Actors : /\ Kept({h}) /\ pc[h] = "fail" /\ reply[h] = "wait"
                             /\ row' = IF row \in from THEN "failed" ELSE row
      BY <1>0, <3>1, CasMoves
    <3> QED
      BY <3>1, <3>2
  <2>2. SUFFICES ASSUME Begun', row' \in Terminal PROVE (sig \/ revision # 0 \/ Overruled)'
    BY DEF Ended
  <2>3. UNCHANGED <<sig, revision>>
    BY <1>7 DEF Stays, world
  <2>4. h # "execute" /\ Begun /\ Live
    BY <1>0, <2>1, <2>2, Names DEF Kept, Begun, Live, Got
  <2>5. CASE row \in Terminal
    BY <1>0, <2>1, <2>3, <2>4, <2>5 DEF Ended, Overruled
  <2>6. CASE h = "invoke"
    BY <1>0, <2>1, <2>3, <2>4, <2>6 DEF InvokeFenced, Got
  <2>7. CASE h \in Deciders
    BY <1>0, <2>1, <2>3, <2>4, <2>7 DEF Settling, Approval, Live, Quiet, Begun, Got
  <2> QED
    BY <1>0, <2>1, <2>2, <2>4, <2>5, <2>6, <2>7, Names DEF Asking
<1>8. ASSUME CancelRun, Stays PROVE Ended'
  <2>1. PICK h \in Actors :
          /\ Kept({h}) /\ pc[h] = "cancel" /\ reply[h] = "wait" /\ pc' = pc
          /\ row' \in {row, "cancelled"} /\ (row \in Terminal => row' = row)
    BY <1>0, <1>8, CasMoves DEF CancelRun, Stays, Terminal, Open
  <2>2. SUFFICES ASSUME Begun', row' \in Terminal PROVE (sig \/ revision # 0 \/ Overruled)'
    BY DEF Ended
  <2>3. UNCHANGED <<sig, revision>>
    BY <1>8 DEF Stays, world
  <2>4. h # "execute" /\ Begun /\ Live
    BY <1>0, <2>1, <2>2, Names DEF Kept, Begun, Live, Got
  <2>5. CASE row \in Terminal
    BY <1>0, <2>1, <2>3, <2>4, <2>5 DEF Ended, Overruled
  <2>6. CASE h = "stop"
    BY <1>0, <2>1, <2>3, <2>4, <2>6 DEF StopFenced, Serving, Stoppable, Begun, Got
  <2>7. CASE h \in Cancellers
    BY <1>0, <2>1, <2>3, <2>4, <2>7 DEF CancelFenced, FencedBy
  <2>8. CASE h \in Deciders /\ row \notin Terminal
    <3>1. skill.confirm
      BY <1>0, <2>1, <2>8 DEF Settling
    <3>2. PICK e \in Deciders : pc[e] = "done"
      BY <1>0, <2>4, <3>1 DEF Approval
    <3>3. row' = "cancelled" /\ h # e /\ pc'[h] # "idle" /\ pc'[e] = "done"
      BY <2>1, <2>2, <2>8, <3>2
    <3> QED
      BY <2>8, <3>2, <3>3 DEF Overruled
  <2> QED
    BY <1>0, <2>1, <2>4, <2>5, <2>6, <2>7, <2>8, Names DEF Asking
<1>9. ASSUME MarkCancelling, Stays PROVE Ended'
  BY <1>0, <1>9, Names, CasMoves DEF MarkCancelling, Stays, world, Ended, Begun, Open,
      Terminal, Live, Overruled, Follows, Asking, Writes, Places, Kept, NoTimerNow, Got, Done,
      InvokeFenced, CancelFenced, FencedBy, StopFenced, Told, Stoppable, Asks, Settling,
      Approval, Plain
<1>10. ASSUME DecideAllow, Stays PROVE Ended'
  BY <1>0, <1>10, Names, CasMoves DEF DecideAllow, Pending, Stays, world, Ended, Begun, Open,
      Terminal, Live, Overruled, Follows, Asking, Writes, Places, Kept, NoTimerNow, Got, Done,
      InvokeFenced, CancelFenced, FencedBy, StopFenced, Told, Stoppable, Asks, Settling,
      Approval, Plain
<1>11. ASSUME DecideDeny, Stays PROVE Ended'
  BY <1>0, <1>11, Names, CasMoves DEF DecideDeny, Pending, Stays, world, Ended, Begun, Open,
      Terminal, Live, Overruled, Follows, Asking, Writes, Places, Kept, NoTimerNow, Got, Done,
      InvokeFenced, CancelFenced, FencedBy, StopFenced, Told, Stoppable, Asks, Settling,
      Approval, Plain
<1>12. ASSUME ExpireRequest, Stays PROVE Ended'
  BY <1>0, <1>12, Names, CasMoves DEF ExpireRequest, Pending, Stays, world, Ended, Begun, Open,
      Terminal, Live, Overruled, Follows, Asking, Writes, Places, Kept, NoTimerNow, Got, Done,
      InvokeFenced, CancelFenced, FencedBy, StopFenced, Told, Stoppable, Asks, Settling,
      Approval, Plain
<1>13. ASSUME Invoke PROVE Ended'
  BY <1>0, <1>13, Names, AskMoves DEF Invoke, Serving, world, Ended, Begun, Open, Terminal,
      Live, Overruled, Follows, Asking, Writes, Places, Kept, NoTimerNow, Got, Done
<1>14. ASSUME Revise PROVE Ended'
  BY <1>0, <1>14, Names DEF Revise, memory, Ended, Begun, Open, Terminal, Live, Overruled,
      Follows, Asking, Writes, Places, Kept, NoTimerNow, Got, Done
<1>15. ASSUME StopBegins PROVE Ended'
  <2>1. /\ pc["stop"] = "idle" /\ sig' = Live
        /\ \E to \in {"join", "clear"} : DropAndGoto("stop", to)
    BY <1>15 DEF StopBegins, Serving
  <2>2. reply["stop"] # "wait" /\ {"join", "clear"} \subseteq Places
    BY <1>0, <2>1, Names DEF Asking, Writes, Places
  <2>3. Kept({"stop", "timer"})
    BY <1>0, <2>1, <2>2, Names, DropAndGotoMoves
  <2> QED
    BY <2>1, <2>3, Names DEF Kept, Ended, Begun, Live, Got
<1>16. ASSUME Torn("invoke", {"create", "request", "snapshot"}) PROVE Ended'
  BY <1>0, <1>16, Names, TornMoves DEF Ended, Begun, Open, Terminal, Live, Overruled, Follows,
      Asking, Writes, Places, Kept, NoTimerNow, Got, Done, Settling, Approval
<1>17. ASSUME NEW d \in Deciders, Torn(d, {"allow", "deny"}) PROVE Ended'
  BY <1>0, <1>17, Names, TornMoves DEF Ended, Begun, Open, Terminal, Live, Overruled, Follows,
      Asking, Writes, Places, Kept, NoTimerNow, Got, Done, Settling, Approval
<1>18. ASSUME NEW c \in Cancellers, Torn(c, {"mark", "join", "cancel"}) PROVE Ended'
  BY <1>0, <1>18, Names, TornMoves DEF Ended, Begun, Open, Terminal, Live, Overruled, Follows,
      Asking, Writes, Places, Kept, NoTimerNow, Got, Done, Settling, Approval
<1>19. ASSUME Restart PROVE Ended'
  BY <1>0, <1>19, Names, RestartMoves DEF Ended, Begun, Open, Terminal, Live, Overruled,
      Follows, Asking, Writes, Places, Kept, NoTimerNow, Got, Done, Settling, Approval
<1>20. ASSUME NEW d \in Deciders, Decide(d) PROVE Ended'
  BY <1>0, <1>20, Names, AskMoves, DropAndAskMoves DEF Decide, Serving, Unchanged, world,
      Ended, Begun, Open, Terminal, Live, Overruled, Follows, Asking, Writes, Places, Kept,
      NoTimerNow, Got, Done
<1>21. ASSUME NEW d \in Deciders, Sweep(d) PROVE Ended'
  BY <1>0, <1>21, Names, AskMoves DEF Sweep, Serving, world, Ended, Begun, Open, Terminal,
      Live, Overruled, Follows, Asking, Writes, Places, Kept, NoTimerNow, Got, Done
<1>22. ASSUME NEW c \in Cancellers, Cancel(c) PROVE Ended'
  BY <1>0, <1>22, Names, DropAndAskMoves, DropAndGotoMoves DEF Cancel, Serving, world, Ended,
      Begun, Open, Terminal, Live, Overruled, Follows, Asking, Writes, Places, Kept,
      NoTimerNow, Got, Done
<1>23. ASSUME Admitted PROVE Ended'
  BY <1>0, <1>23, Names, AdmittedMoves DEF Ended, Begun, Open, Terminal, Live, Overruled,
      Follows, Asking, Writes, Places, Kept, NoTimerNow, Got, Done, Settling, Approval
<1>24. ASSUME Requested PROVE Ended'
  BY <1>0, <1>24, Names, RequestedMoves DEF Ended, Begun, Open, Terminal, Live, Overruled,
      Follows, Asking, Writes, Places, Kept, NoTimerNow, Got, Done, Settling, Approval
<1>25. ASSUME InvokeReturns PROVE Ended'
  BY <1>0, <1>25, Names, GotoMoves DEF InvokeReturns, world, Ended, Begun, Open, Terminal,
      Live, Overruled, Follows, Asking, Writes, Places, Kept, NoTimerNow, Got, Done
<1>26. ASSUME Compensate PROVE Ended'
  BY <1>0, <1>26, Names, AskMoves, GotoMoves DEF Compensate, Got, Live, world, Ended, Begun,
      Open, Terminal, Overruled, Follows, Asking, Writes, Places, Kept, NoTimerNow, Done
<1>27. ASSUME CompensateFails PROVE Ended'
  BY <1>0, <1>27, Names, AskMoves DEF CompensateFails, Joined, world, Ended, Begun, Open,
      Terminal, Live, Overruled, Follows, Asking, Writes, Places, Kept, NoTimerNow, Got, Done
<1>28. ASSUME Compensated PROVE Ended'
  BY <1>0, <1>28, Names, GotoMoves DEF Compensated, Done, world, Ended, Begun, Open, Terminal,
      Live, Overruled, Follows, Asking, Writes, Places, Kept, NoTimerNow, Got
<1>29. ASSUME ExecuteResolves PROVE Ended'
  BY <1>0, <1>29, Names, AskMoves DEF ExecuteResolves, Unchanged, world, Ended, Begun, Open,
      Terminal, Live, Overruled, Follows, Asking, Writes, Places, Kept, NoTimerNow, Got, Done
<1>30. ASSUME Started PROVE Ended'
  BY <1>0, <1>30, Names, GotoMoves DEF Started, Got, world, Ended, Begun, Open, Terminal, Live,
      Overruled, Follows, Asking, Writes, Places, Kept, NoTimerNow, Done
<1>31. ASSUME Launch PROVE Ended'
  BY <1>0, <1>31, Names, AskMoves, GotoMoves DEF Launch, Unchanged, Ended, Begun, Open,
      Terminal, Live, Overruled, Follows, Asking, Writes, Places, Kept, NoTimerNow, Got, Done
<1>32. ASSUME SignalArrives PROVE Ended'
  BY <1>0, <1>32, Names, SignalMoves DEF Ended, Begun, Open, Terminal, Live, Overruled, Follows,
      Asking, Writes, Places, Kept, NoTimerNow, Got, Done, Settling, Approval
<1>33. ASSUME SignalBeforeStart PROVE Ended'
  BY <1>0, <1>33, Names, GotoMoves DEF SignalBeforeStart, Ends, world, Ended, Begun, Open,
      Terminal, Live, Overruled, Follows, Asking, Writes, Places, Kept, NoTimerNow, Got, Done
<1>34. ASSUME OutcomeCommitted PROVE Ended'
  BY <1>0, <1>34, Names, AskMoves, GotoMoves DEF OutcomeCommitted, Done, Ends, world, Ended,
      Begun, Open, Terminal, Live, Overruled, Follows, Asking, Writes, Places, Kept,
      NoTimerNow, Got
<1>35. ASSUME ExecutionEnds PROVE Ended'
  BY <1>0, <1>35, Names, GotoMoves DEF ExecutionEnds, Got, Done, Ends, world, Ended, Begun,
      Open, Terminal, Live, Overruled, Follows, Asking, Writes, Places, Kept, NoTimerNow
<1>36. ASSUME AdapterReturns PROVE Ended'
  BY <1>0, <1>36, Names, AskMoves DEF AdapterReturns, world, Ended, Begun, Open, Terminal,
      Live, Overruled, Follows, Asking, Writes, Places, Kept, NoTimerNow, Got, Done
<1>37. ASSUME AdapterFails PROVE Ended'
  BY <1>0, <1>37, Names, AskMoves DEF AdapterFails, world, Ended, Begun, Open, Terminal, Live,
      Overruled, Follows, Asking, Writes, Places, Kept, NoTimerNow, Got, Done
<1>38. ASSUME TimerFires PROVE Ended'
  BY <1>0, <1>38, Names, AskMoves DEF TimerFires, world, Ended, Begun, Open, Terminal, Live,
      Overruled, Follows, Asking, Writes, Places, Kept, NoTimerNow, Got, Done
<1>39. ASSUME TimerEnds PROVE Ended'
  BY <1>0, <1>39, Names, GotoMoves DEF TimerEnds, Done, world, Ended, Begun, Open, Terminal,
      Live, Overruled, Follows, Asking, Writes, Places, Kept, NoTimerNow, Got
<1>40. ASSUME StopJoined PROVE Ended'
  BY <1>0, <1>40, Names, AskMoves DEF StopJoined, Joined, world, Ended, Begun, Open, Terminal,
      Live, Overruled, Follows, Asking, Writes, Places, Kept, NoTimerNow, Got, Done
<1>41. ASSUME StopEnds PROVE Ended'
  BY <1>0, <1>41, Names, GotoMoves DEF StopEnds, Done, world, Ended, Begun, Open, Terminal,
      Live, Overruled, Follows, Asking, Writes, Places, Kept, NoTimerNow, Got
<1>42. ASSUME NEW d \in Deciders, Allowed(d) PROVE Ended'
  BY <1>0, <1>42, Names, AllowedMoves DEF Ended, Begun, Open, Terminal, Live, Overruled,
      Follows, Asking, Writes, Places, Kept, NoTimerNow, Got, Done, Settling, Approval
<1>43. ASSUME NEW d \in Deciders, Denied(d) PROVE Ended'
  BY <1>0, <1>43, Names, DropAndAskMoves DEF Denied, Got, world, Ended, Begun, Open, Terminal,
      Live, Overruled, Follows, Asking, Writes, Places, Kept, NoTimerNow, Done
<1>44. ASSUME NEW d \in Deciders, DecidedElsewhere(d) PROVE Ended'
  BY <1>0, <1>44, Names, GotoMoves DEF DecidedElsewhere, Got, Done, Live, world, Ended, Begun,
      Open, Terminal, Overruled, Follows, Asking, Writes, Places, Kept, NoTimerNow
<1>45. ASSUME NEW d \in Deciders, DecisionEnds(d) PROVE Ended'
  BY <1>0, <1>45, Names, GotoMoves DEF DecisionEnds, Done, world, Ended, Begun, Open, Terminal,
      Live, Overruled, Follows, Asking, Writes, Places, Kept, NoTimerNow, Got
<1>46. ASSUME NEW d \in Deciders, ReconcileDecision(d) PROVE Ended'
  BY <1>0, <1>46, Names, DropAndAskMoves, GotoMoves DEF ReconcileDecision, world, Ended, Begun,
      Open, Terminal, Live, Overruled, Follows, Asking, Writes, Places, Kept, NoTimerNow, Got,
      Done
<1>47. ASSUME NEW c \in Cancellers, CancelWaited(c) PROVE Ended'
  BY <1>0, <1>47, Names, GotoMoves DEF CancelWaited, world, Ended, Begun, Open, Terminal, Live,
      Overruled, Follows, Asking, Writes, Places, Kept, NoTimerNow, Got, Done
<1>48. ASSUME NEW c \in Cancellers, Marked(c) PROVE Ended'
  BY <1>0, <1>48, Names, AskMoves, GotoMoves DEF Marked, Got, StopTask, Live, world, Ended,
      Begun, Open, Terminal, Overruled, Follows, Asking, Writes, Places, Kept, NoTimerNow, Done
<1>49. ASSUME NEW c \in Cancellers, NotMarked(c) PROVE Ended'
  BY <1>0, <1>49, Names, GotoMoves DEF NotMarked, Got, world, Ended, Begun, Open, Terminal,
      Live, Overruled, Follows, Asking, Writes, Places, Kept, NoTimerNow, Done
<1>50. ASSUME NEW c \in Cancellers, CancelJoined(c) PROVE Ended'
  BY <1>0, <1>50, Names, AskMoves DEF CancelJoined, Joined, world, Ended, Begun, Open,
      Terminal, Live, Overruled, Follows, Asking, Writes, Places, Kept, NoTimerNow, Got, Done
<1>51. ASSUME NEW c \in Cancellers, CancelEnds(c) PROVE Ended'
  BY <1>0, <1>51, Names, GotoMoves DEF CancelEnds, Done, world, Ended, Begun, Open, Terminal,
      Live, Overruled, Follows, Asking, Writes, Places, Kept, NoTimerNow, Got
<1>52. ASSUME NEW c \in Cancellers, ReconcileCancel(c) PROVE Ended'
  BY <1>0, <1>52, Names, AskMoves, GotoMoves DEF ReconcileCancel, StopTask, Live, world, Ended,
      Begun, Open, Terminal, Overruled, Follows, Asking, Writes, Places, Kept, NoTimerNow, Got,
      Done
<1> QED
  BY <1>1, <1>2, <1>3, <1>4, <1>5, <1>6, <1>7, <1>8, <1>9, <1>10, <1>11, <1>12, <1>13, <1>14,
      <1>15, <1>16, <1>17, <1>18, <1>19, <1>20, <1>21, <1>22, <1>23, <1>24, <1>25, <1>26,
      <1>27, <1>28, <1>29, <1>30, <1>31, <1>32, <1>33, <1>34, <1>35, <1>36, <1>37, <1>38,
      <1>39, <1>40, <1>41, <1>42, <1>43, <1>44, <1>45, <1>46, <1>47, <1>48, <1>49, <1>50,
      <1>51, <1>52 DEF SNext, Commit, Calls, Tear, Invoker, Executor, Adapter, Expiry, Stopper,
      Owner, Canceller, Stays

------------------------------------------------------------------------------
(* The invariant, and what it gives. *)

LEMMA PlainIsTyped == STypeOK <=> Queue /\ Plain
  BY DEF STypeOK, Queue, Plain, Places, Writes

LEMMA InvInit == ASSUME SInit PROVE SInv
<1> USE DEF SInit
<1>1. Queue
  BY DEF Queue, Places, Range, IsInjective
<1>2. Plain
  <2>1. /\ handle \in [Cancellers -> BOOLEAN] /\ effects \subseteq 0..MaxRevision
        /\ waiter \in [Waiters -> {"idle", "read", "registered", "signalled", "parked", "woken"}]
    OBVIOUS
  <2>2. revision \in 0..MaxRevision /\ torn \in 0..MaxTorn
    BY SkillAssumption
  <2> QED
    BY <2>1, <2>2 DEF Plain
<1>3. Asking
  BY Names DEF Asking, Writes
<1>4. Quiet /\ StopFenced
  BY Names DEF Quiet, StopFenced, Serving
<1>5. Settling /\ Approval /\ Follows /\ InvokeFenced /\ CancelFenced /\ Ended
  BY Names DEF Settling, Approval, Follows, InvokeFenced, CancelFenced, FencedBy, Ended, Got,
     PreStart, Asks, Begun, Live, Terminal
<1> QED
  BY <1>1, <1>2, <1>3, <1>4, <1>5 DEF SInv

LEMMA InvStep == ASSUME SInv, [SNext]_svars PROVE SInv'
<1>1. CASE SNext
  BY <1>1, AskingStep, PlainStep, QuietStep, SettlingStep, ApprovalStep, FollowsStep,
     InvokeFencedStep, StopFencedStep, CancelFencedStep, EndedStep DEF SInv
<1>2. CASE UNCHANGED svars
  <2> USE <1>2 DEF SInv, svars, memory, world
  <2>1. Queue' /\ Plain' /\ Asking' /\ Quiet'
    BY DEF Queue, Plain, Asking, Quiet, Serving
  <2>2. Settling' /\ Approval' /\ Follows' /\ InvokeFenced'
    BY DEF Settling, Approval, Follows, InvokeFenced, Told, Stoppable, PreStart, Asks, Begun,
       Live, Got
  <2>3. CancelFenced' /\ StopFenced' /\ Ended'
    BY DEF CancelFenced, FencedBy, StopFenced, Ended, Told, Stoppable, PreStart, Asks, Begun,
       Got, Serving, Overruled
  <2> QED
    BY <2>1, <2>2, <2>3
<1> QED
  BY <1>1, <1>2

LEMMA Invariance == SSpec => []SInv
<1>1. SInit => SInv
  BY InvInit
<1>2. SInv /\ [SNext]_svars => SInv'
  BY InvStep
<1> QED
  BY <1>1, <1>2, PTL DEF SSpec

\* Type correctness: and every caller of the database lock that waits is in its queue,
\* exactly once, however many callers there are.
THEOREM SkillRunsTyped == SSpec => []STypeOK
<1>1. SInv => STypeOK
  BY PlainIsTyped DEF SInv
<1> QED
  BY <1>1, Invariance, PTL

LEMMA ApprovalKept == ASSUME SInv, EffectNeedsApproval, SNext PROVE EffectNeedsApproval'
<1>0. Queue /\ Plain /\ Asking /\ Quiet /\ Settling /\ Approval
      /\ EffectNeedsApproval
  BY DEF SInv
<1>q. ASSUME UNCHANGED <<skill, request, effects>> PROVE EffectNeedsApproval'
  BY <1>0, <1>q DEF EffectNeedsApproval
<1>1. ASSUME Stays,
             \/ CreateRun \/ MarkRunning \/ CompleteRun \/ MarkCancelling
      PROVE  EffectNeedsApproval'
  BY <1>1, <1>q DEF CreateRun, MarkRunning, CompleteRun, MarkCancelling, Stays, world
<1>2. ASSUME \/ Invoke \/ Revise \/ StopBegins
             \/ Torn("invoke", {"create", "request", "snapshot"}) \/ Admitted \/ Requested
             \/ InvokeReturns \/ Compensate \/ CompensateFails \/ Compensated \/ ExecuteResolves
             \/ Started \/ SignalArrives \/ SignalBeforeStart \/ OutcomeCommitted \/ ExecutionEnds
             \/ AdapterReturns \/ AdapterFails \/ TimerFires \/ TimerEnds \/ StopJoined
             \/ StopEnds
      PROVE  EffectNeedsApproval'
  BY <1>2, <1>q DEF Invoke, Revise, StopBegins, Torn, Admitted, Requested, InvokeReturns,
      Compensate, CompensateFails, Compensated, ExecuteResolves, Started, SignalArrives,
      SignalBeforeStart, OutcomeCommitted, ExecutionEnds, AdapterReturns, AdapterFails,
      TimerFires, TimerEnds, StopJoined, StopEnds, world, memory
<1>3. ASSUME NEW d \in Deciders,
             \/ Torn(d, {"allow", "deny"}) \/ Decide(d) \/ DecideTooLate(d) \/ Sweep(d)
             \/ Allowed(d) \/ Denied(d) \/ DecidedElsewhere(d) \/ DecisionEnds(d)
             \/ ReconcileDecision(d)
      PROVE  EffectNeedsApproval'
  BY <1>3, <1>q DEF Torn, Decide, DecideTooLate, Sweep, Allowed, Denied, DecidedElsewhere,
      DecisionEnds, ReconcileDecision, world
<1>4. ASSUME NEW c \in Cancellers,
             \/ Torn(c, {"mark", "join", "cancel"}) \/ Cancel(c) \/ CancelWaited(c) \/ Marked(c)
             \/ NotMarked(c) \/ CancelJoined(c) \/ CancelEnds(c) \/ ReconcileCancel(c)
      PROVE  EffectNeedsApproval'
  BY <1>4, <1>q DEF Torn, Cancel, CancelWaited, Marked, NotMarked, CancelJoined, CancelEnds,
      ReconcileCancel, world
<1>5. ASSUME NEW w \in Waiters,
             \/ WaitBegins(w) \/ WaitRegisters(w) \/ WaitRereads(w)
      PROVE  EffectNeedsApproval'
  BY <1>5, <1>q DEF WaitBegins, WaitRegisters, WaitRereads, world
<1>6. ASSUME CreateRequest, Stays PROVE EffectNeedsApproval'
  <2>1. PICK h \in Actors : pc[h] = "request" /\ reply[h] = "wait"
    <3>1. /\ db \in Seq(Actors) /\ IsInjective(db) /\ db # <<>>
          /\ pc[Head(db)] = "request"
      BY <1>0, <1>6 DEF CreateRequest, Cas, Queue
    <3>2. Head(db) \in Actors /\ Head(db) \in Range(db)
      BY <3>1, TailQueue
    <3> QED
      BY <1>0, <3>1, <3>2 DEF Queue
  <2>2. request = "none"
    BY <1>0, <2>1, Names DEF Asking, Settling, Got
  <2> QED
    BY <1>0, <1>6, <2>2 DEF Stays, world, EffectNeedsApproval
<1>7. ASSUME FailRun, Stays PROVE EffectNeedsApproval'
  BY <1>0, <1>7 DEF FailRun, Cas, Closes, Stays, world, EffectNeedsApproval
<1>8. ASSUME CancelRun, Stays PROVE EffectNeedsApproval'
  BY <1>0, <1>8 DEF CancelRun, Cas, Closes, Stays, world, EffectNeedsApproval
<1>9. ASSUME DecideAllow, Stays PROVE EffectNeedsApproval'
  BY <1>0, <1>9 DEF DecideAllow, Cas, Pending, Stays, world, EffectNeedsApproval
<1>10. ASSUME DecideDeny, Stays PROVE EffectNeedsApproval'
  BY <1>0, <1>10 DEF DecideDeny, Cas, Pending, Stays, world, EffectNeedsApproval
<1>11. ASSUME ExpireRequest, Stays PROVE EffectNeedsApproval'
  BY <1>0, <1>11 DEF ExpireRequest, Cas, Pending, Stays, world, EffectNeedsApproval
<1>12. ASSUME Restart PROVE EffectNeedsApproval'
  BY <1>0, <1>12 DEF Restart, world, EffectNeedsApproval
<1>13. ASSUME Launch PROVE EffectNeedsApproval'
  <2>1. /\ pc["execute"] = "launch" /\ effects' \in {effects, effects \cup {revision}}
        /\ (effects' # effects => revision = 0) /\ UNCHANGED <<skill, request>>
    BY <1>13 DEF Launch, Unchanged
  <2>2. pc["stop"] # "ended"
    BY <1>0, <2>1, Names DEF Quiet
  <2>3. skill.confirm => request = "allowed"
    BY <1>0, <2>1, <2>2 DEF Approval
  <2> QED
    BY <1>0, <2>1, <2>3 DEF EffectNeedsApproval
<1> QED
  BY <1>1, <1>2, <1>3, <1>4, <1>5, <1>6, <1>7, <1>8, <1>9, <1>10, <1>11, <1>12, <1>13 DEF
      SNext, Commit, Calls, Tear, Invoker, Executor, Adapter, Expiry, Stopper, Owner,
      Canceller, Stays

\* The execution gets to its adapter by a launch.
OnlyLaunches == pc'["execute"] = "adapter" => pc["execute"] = "adapter" \/ Launch

LEMMA OnlyLaunch == ASSUME SInv, SNext PROVE OnlyLaunches
<1>0. Queue /\ Plain /\ Asking /\ Settling /\ Approval
  BY DEF SInv
<1>q. ASSUME UNCHANGED <<pc>> PROVE OnlyLaunches
  BY <1>0, <1>q DEF OnlyLaunches
<1>1. ASSUME Stays,
             \/ CreateRun \/ CreateRequest \/ MarkRunning \/ CompleteRun \/ FailRun \/ CancelRun
             \/ MarkCancelling \/ DecideAllow \/ DecideDeny \/ ExpireRequest
      PROVE  OnlyLaunches
  BY <1>1, <1>q DEF Stays, world
<1>2. ASSUME \/ Revise
      PROVE  OnlyLaunches
  BY <1>2, <1>q DEF Revise, memory
<1>3. ASSUME NEW d \in Deciders,
             \/ DecideTooLate(d)
      PROVE  OnlyLaunches
  BY <1>3, <1>q DEF DecideTooLate, world
<1>4. ASSUME NEW w \in Waiters,
             \/ WaitBegins(w) \/ WaitRegisters(w) \/ WaitRereads(w)
      PROVE  OnlyLaunches
  BY <1>4, <1>q DEF WaitBegins, WaitRegisters, WaitRereads, world
<1>5. ASSUME Invoke PROVE OnlyLaunches
  BY <1>0, <1>5, Names, AskMoves DEF Invoke, world, Asking, Writes, Places, Kept, NoTimerNow,
      Got, Done, OnlyLaunches
<1>6. ASSUME StopBegins PROVE OnlyLaunches
  BY <1>0, <1>6, Names, DropAndGotoMoves DEF StopBegins, world, Asking, Writes, Places, Kept,
      NoTimerNow, Got, Done, OnlyLaunches
<1>7. ASSUME Torn("invoke", {"create", "request", "snapshot"}) PROVE OnlyLaunches
  BY <1>0, <1>7, Names, TornMoves DEF Asking, Writes, Places, Kept, NoTimerNow, Got, Done,
      Approval, Settling, OnlyLaunches
<1>8. ASSUME NEW d \in Deciders, Torn(d, {"allow", "deny"}) PROVE OnlyLaunches
  BY <1>0, <1>8, Names, TornMoves DEF Asking, Writes, Places, Kept, NoTimerNow, Got, Done,
      Approval, Settling, OnlyLaunches
<1>9. ASSUME NEW c \in Cancellers, Torn(c, {"mark", "join", "cancel"}) PROVE OnlyLaunches
  BY <1>0, <1>9, Names, TornMoves DEF Asking, Writes, Places, Kept, NoTimerNow, Got, Done,
      Approval, Settling, OnlyLaunches
<1>10. ASSUME Restart PROVE OnlyLaunches
  BY <1>0, <1>10, Names, RestartMoves DEF Asking, Writes, Places, Kept, NoTimerNow, Got, Done,
      Approval, Settling, OnlyLaunches
<1>11. ASSUME NEW d \in Deciders, Decide(d) PROVE OnlyLaunches
  BY <1>0, <1>11, Names, AskMoves, DropAndAskMoves DEF Decide, world, Asking, Writes, Places,
      Kept, NoTimerNow, Got, Done, OnlyLaunches
<1>12. ASSUME NEW d \in Deciders, Sweep(d) PROVE OnlyLaunches
  BY <1>0, <1>12, Names, AskMoves DEF Sweep, world, Asking, Writes, Places, Kept, NoTimerNow,
      Got, Done, OnlyLaunches
<1>13. ASSUME NEW c \in Cancellers, Cancel(c) PROVE OnlyLaunches
  BY <1>0, <1>13, Names, DropAndAskMoves, DropAndGotoMoves DEF Cancel, world, Asking, Writes,
      Places, Kept, NoTimerNow, Got, Done, OnlyLaunches
<1>14. ASSUME Admitted PROVE OnlyLaunches
  BY <1>0, <1>14, Names, AdmittedMoves DEF Asking, Writes, Places, Kept, NoTimerNow, Got, Done,
      Approval, Settling, OnlyLaunches
<1>15. ASSUME Requested PROVE OnlyLaunches
  BY <1>0, <1>15, Names, RequestedMoves DEF Asking, Writes, Places, Kept, NoTimerNow, Got, Done,
      Approval, Settling, OnlyLaunches
<1>16. ASSUME InvokeReturns PROVE OnlyLaunches
  BY <1>0, <1>16, Names, GotoMoves DEF InvokeReturns, world, Asking, Writes, Places, Kept,
      NoTimerNow, Got, Done, OnlyLaunches
<1>17. ASSUME Compensate PROVE OnlyLaunches
  BY <1>0, <1>17, Names, AskMoves, GotoMoves DEF Compensate, Got, world, Asking, Writes,
      Places, Kept, NoTimerNow, Done, OnlyLaunches
<1>18. ASSUME CompensateFails PROVE OnlyLaunches
  BY <1>0, <1>18, Names, AskMoves DEF CompensateFails, world, Asking, Writes, Places, Kept,
      NoTimerNow, Got, Done, OnlyLaunches
<1>19. ASSUME Compensated PROVE OnlyLaunches
  BY <1>0, <1>19, Names, GotoMoves DEF Compensated, Done, world, Asking, Writes, Places, Kept,
      NoTimerNow, Got, OnlyLaunches
<1>20. ASSUME ExecuteResolves PROVE OnlyLaunches
  BY <1>0, <1>20, Names, AskMoves DEF ExecuteResolves, world, Asking, Writes, Places, Kept,
      NoTimerNow, Got, Done, OnlyLaunches
<1>21. ASSUME Started PROVE OnlyLaunches
  BY <1>0, <1>21, Names, GotoMoves DEF Started, Got, world, Asking, Writes, Places, Kept,
      NoTimerNow, Done, OnlyLaunches
<1>22. ASSUME Launch PROVE OnlyLaunches
  BY <1>22 DEF OnlyLaunches
<1>23. ASSUME SignalArrives PROVE OnlyLaunches
  BY <1>0, <1>23, Names, SignalMoves DEF Asking, Writes, Places, Kept, NoTimerNow, Got, Done,
      Approval, Settling, OnlyLaunches
<1>24. ASSUME SignalBeforeStart PROVE OnlyLaunches
  BY <1>0, <1>24, Names, GotoMoves DEF SignalBeforeStart, Ends, world, Asking, Writes, Places,
      Kept, NoTimerNow, Got, Done, OnlyLaunches
<1>25. ASSUME OutcomeCommitted PROVE OnlyLaunches
  BY <1>0, <1>25, Names, AskMoves, GotoMoves DEF OutcomeCommitted, Done, Ends, world, Asking,
      Writes, Places, Kept, NoTimerNow, Got, OnlyLaunches
<1>26. ASSUME ExecutionEnds PROVE OnlyLaunches
  BY <1>0, <1>26, Names, GotoMoves DEF ExecutionEnds, Got, Done, Ends, world, Asking, Writes,
      Places, Kept, NoTimerNow, OnlyLaunches
<1>27. ASSUME AdapterReturns PROVE OnlyLaunches
  BY <1>0, <1>27, Names, AskMoves DEF AdapterReturns, world, Asking, Writes, Places, Kept,
      NoTimerNow, Got, Done, OnlyLaunches
<1>28. ASSUME AdapterFails PROVE OnlyLaunches
  BY <1>0, <1>28, Names, AskMoves DEF AdapterFails, world, Asking, Writes, Places, Kept,
      NoTimerNow, Got, Done, OnlyLaunches
<1>29. ASSUME TimerFires PROVE OnlyLaunches
  BY <1>0, <1>29, Names, AskMoves DEF TimerFires, world, Asking, Writes, Places, Kept,
      NoTimerNow, Got, Done, OnlyLaunches
<1>30. ASSUME TimerEnds PROVE OnlyLaunches
  BY <1>0, <1>30, Names, GotoMoves DEF TimerEnds, Done, world, Asking, Writes, Places, Kept,
      NoTimerNow, Got, OnlyLaunches
<1>31. ASSUME StopJoined PROVE OnlyLaunches
  BY <1>0, <1>31, Names, AskMoves DEF StopJoined, world, Asking, Writes, Places, Kept,
      NoTimerNow, Got, Done, OnlyLaunches
<1>32. ASSUME StopEnds PROVE OnlyLaunches
  BY <1>0, <1>32, Names, GotoMoves DEF StopEnds, Done, world, Asking, Writes, Places, Kept,
      NoTimerNow, Got, OnlyLaunches
<1>33. ASSUME NEW d \in Deciders, Allowed(d) PROVE OnlyLaunches
  BY <1>0, <1>33, Names, AllowedMoves DEF Asking, Writes, Places, Kept, NoTimerNow, Got, Done,
      Approval, Settling, OnlyLaunches
<1>34. ASSUME NEW d \in Deciders, Denied(d) PROVE OnlyLaunches
  BY <1>0, <1>34, Names, DropAndAskMoves DEF Denied, Got, world, Asking, Writes, Places, Kept,
      NoTimerNow, Done, OnlyLaunches
<1>35. ASSUME NEW d \in Deciders, DecidedElsewhere(d) PROVE OnlyLaunches
  BY <1>0, <1>35, Names, GotoMoves DEF DecidedElsewhere, Got, Done, world, Asking, Writes,
      Places, Kept, NoTimerNow, OnlyLaunches
<1>36. ASSUME NEW d \in Deciders, DecisionEnds(d) PROVE OnlyLaunches
  BY <1>0, <1>36, Names, GotoMoves DEF DecisionEnds, Done, world, Asking, Writes, Places, Kept,
      NoTimerNow, Got, OnlyLaunches
<1>37. ASSUME NEW d \in Deciders, ReconcileDecision(d) PROVE OnlyLaunches
  BY <1>0, <1>37, Names, DropAndAskMoves, GotoMoves DEF ReconcileDecision, world, Asking,
      Writes, Places, Kept, NoTimerNow, Got, Done, OnlyLaunches
<1>38. ASSUME NEW c \in Cancellers, CancelWaited(c) PROVE OnlyLaunches
  BY <1>0, <1>38, Names, GotoMoves DEF CancelWaited, world, Asking, Writes, Places, Kept,
      NoTimerNow, Got, Done, OnlyLaunches
<1>39. ASSUME NEW c \in Cancellers, Marked(c) PROVE OnlyLaunches
  BY <1>0, <1>39, Names, AskMoves, GotoMoves DEF Marked, Got, StopTask, world, Asking, Writes,
      Places, Kept, NoTimerNow, Done, OnlyLaunches
<1>40. ASSUME NEW c \in Cancellers, NotMarked(c) PROVE OnlyLaunches
  BY <1>0, <1>40, Names, GotoMoves DEF NotMarked, Got, world, Asking, Writes, Places, Kept,
      NoTimerNow, Done, OnlyLaunches
<1>41. ASSUME NEW c \in Cancellers, CancelJoined(c) PROVE OnlyLaunches
  BY <1>0, <1>41, Names, AskMoves DEF CancelJoined, world, Asking, Writes, Places, Kept,
      NoTimerNow, Got, Done, OnlyLaunches
<1>42. ASSUME NEW c \in Cancellers, CancelEnds(c) PROVE OnlyLaunches
  BY <1>0, <1>42, Names, GotoMoves DEF CancelEnds, Done, world, Asking, Writes, Places, Kept,
      NoTimerNow, Got, OnlyLaunches
<1>43. ASSUME NEW c \in Cancellers, ReconcileCancel(c) PROVE OnlyLaunches
  BY <1>0, <1>43, Names, AskMoves, GotoMoves DEF ReconcileCancel, StopTask, world, Asking,
      Writes, Places, Kept, NoTimerNow, Got, Done, OnlyLaunches
<1> QED
  BY <1>1, <1>2, <1>3, <1>4, <1>5, <1>6, <1>7, <1>8, <1>9, <1>10, <1>11, <1>12, <1>13, <1>14,
      <1>15, <1>16, <1>17, <1>18, <1>19, <1>20, <1>21, <1>22, <1>23, <1>24, <1>25, <1>26,
      <1>27, <1>28, <1>29, <1>30, <1>31, <1>32, <1>33, <1>34, <1>35, <1>36, <1>37, <1>38,
      <1>39, <1>40, <1>41, <1>42, <1>43 DEF SNext, Commit, Calls, Tear, Invoker, Executor,
      Adapter, Expiry, Stopper, Owner, Canceller, Stays

EndStays == row \in Terminal => row' = row

LEMMA TerminalStays == ASSUME SNext PROVE EndStays
<1>q. ASSUME UNCHANGED <<row>> PROVE EndStays
  BY <1>q DEF EndStays
<1>1. ASSUME \/ Invoke \/ Revise \/ StopBegins
             \/ Torn("invoke", {"create", "request", "snapshot"}) \/ Admitted \/ Requested
             \/ InvokeReturns \/ Compensate \/ CompensateFails \/ Compensated \/ ExecuteResolves
             \/ Started \/ Launch \/ SignalArrives \/ SignalBeforeStart \/ OutcomeCommitted
             \/ ExecutionEnds \/ AdapterReturns \/ AdapterFails \/ TimerFires \/ TimerEnds
             \/ StopJoined \/ StopEnds
      PROVE  EndStays
  BY <1>1, <1>q DEF Invoke, Revise, StopBegins, Torn, Admitted, Requested, InvokeReturns,
      Compensate, CompensateFails, Compensated, ExecuteResolves, Started, Launch,
      SignalArrives, SignalBeforeStart, OutcomeCommitted, ExecutionEnds, AdapterReturns,
      AdapterFails, TimerFires, TimerEnds, StopJoined, StopEnds, world, memory
<1>2. ASSUME NEW d \in Deciders,
             \/ Torn(d, {"allow", "deny"}) \/ Decide(d) \/ DecideTooLate(d) \/ Sweep(d)
             \/ Allowed(d) \/ Denied(d) \/ DecidedElsewhere(d) \/ DecisionEnds(d)
             \/ ReconcileDecision(d)
      PROVE  EndStays
  BY <1>2, <1>q DEF Torn, Decide, DecideTooLate, Sweep, Allowed, Denied, DecidedElsewhere,
      DecisionEnds, ReconcileDecision, world
<1>3. ASSUME NEW c \in Cancellers,
             \/ Torn(c, {"mark", "join", "cancel"}) \/ Cancel(c) \/ CancelWaited(c) \/ Marked(c)
             \/ NotMarked(c) \/ CancelJoined(c) \/ CancelEnds(c) \/ ReconcileCancel(c)
      PROVE  EndStays
  BY <1>3, <1>q DEF Torn, Cancel, CancelWaited, Marked, NotMarked, CancelJoined, CancelEnds,
      ReconcileCancel, world
<1>4. ASSUME NEW w \in Waiters,
             \/ WaitBegins(w) \/ WaitRegisters(w) \/ WaitRereads(w)
      PROVE  EndStays
  BY <1>4, <1>q DEF WaitBegins, WaitRegisters, WaitRereads, world
<1>5. ASSUME CreateRun, Stays PROVE EndStays
  BY <1>5 DEF CreateRun, Cas, Stays, world, EndStays, Terminal, Open
<1>6. ASSUME CreateRequest, Stays PROVE EndStays
  BY <1>6 DEF CreateRequest, Cas, Stays, world, EndStays, Terminal, Open
<1>7. ASSUME MarkRunning, Stays PROVE EndStays
  BY <1>7 DEF MarkRunning, Cas, Stays, world, EndStays, Terminal, Open
<1>8. ASSUME CompleteRun, Stays PROVE EndStays
  BY <1>8 DEF CompleteRun, Cas, Stays, world, EndStays, Terminal, Open
<1>9. ASSUME FailRun, Stays PROVE EndStays
  BY <1>9 DEF FailRun, Cas, Stays, world, EndStays, Terminal, Open
<1>10. ASSUME CancelRun, Stays PROVE EndStays
  BY <1>10 DEF CancelRun, Cas, Stays, world, EndStays, Terminal, Open
<1>11. ASSUME MarkCancelling, Stays PROVE EndStays
  BY <1>11 DEF MarkCancelling, Cas, Stays, world, EndStays, Terminal, Open
<1>12. ASSUME DecideAllow, Stays PROVE EndStays
  BY <1>12 DEF DecideAllow, Cas, Pending, Stays, world, EndStays, Terminal, Open
<1>13. ASSUME DecideDeny, Stays PROVE EndStays
  BY <1>13 DEF DecideDeny, Cas, Pending, Stays, world, EndStays, Terminal, Open
<1>14. ASSUME ExpireRequest, Stays PROVE EndStays
  BY <1>14 DEF ExpireRequest, Cas, Pending, Stays, world, EndStays, Terminal, Open
<1>15. ASSUME Restart PROVE EndStays
  BY <1>15 DEF Restart, world, EndStays, Terminal, Open
<1> QED
  BY <1>1, <1>2, <1>3, <1>4, <1>5, <1>6, <1>7, <1>8, <1>9, <1>10, <1>11, <1>12, <1>13, <1>14,
      <1>15 DEF SNext, Commit, Calls, Tear, Invoker, Executor, Adapter, Expiry, Stopper, Owner,
      Canceller, Stays

\* An adapter is launched only under the recorded plan, and with the owner's approval of
\* this very run where one is needed: for any number of decisions that race for it.
THEOREM ApprovedEffects == SSpec => []EffectNeedsApproval
<1>1. SInit => EffectNeedsApproval
  BY DEF SInit, EffectNeedsApproval
<1>2. SInv /\ EffectNeedsApproval /\ [SNext]_svars => EffectNeedsApproval'
  <2>1. CASE SNext
    BY <2>1, ApprovalKept
  <2>2. CASE UNCHANGED svars
    BY <2>2 DEF svars, world, EffectNeedsApproval
  <2> QED
    BY <2>1, <2>2
<1> QED
  BY <1>1, <1>2, Invariance, PTL DEF SSpec

\* No run that ended begins its effect afterwards, however many cancellations, decisions,
\* expiries and torn callers meet: except the one a torn decision overruled.
THEOREM NoLateEffect == SSpec => NoEffectAfterEnd
<1>1. ASSUME SInv, [SNext]_svars, pc["execute"] # "adapter", pc'["execute"] = "adapter"
      PROVE  row \notin Terminal \/ Overruled
  <2>1. SNext
    BY <1>1 DEF svars, memory
  <2>2. Launch
    BY <1>1, <2>1, OnlyLaunch DEF OnlyLaunches
  <2>3. pc["execute"] = "launch" /\ ~sig
    BY <2>2 DEF Launch
  <2>4. Unchanged
    <3>1. CASE ~Unchanged
      <4>1. Ask("execute", "fail")
        BY <2>2, <3>1 DEF Launch
      <4>2. Queue /\ reply["execute"] # "wait" /\ "fail" \in Places
        BY <1>1, <2>3, Names DEF SInv, Asking, Writes, Places
      <4>3. pc'["execute"] = "fail"
        BY <4>1, <4>2, Names, AskMoves
      <4> QED
        BY <1>1, <4>3
    <3> QED
      BY <3>1
  <2> QED
    BY <1>1, <2>3, <2>4 DEF SInv, Ended, Begun, Unchanged
<1>2. SInv /\ [SNext]_svars =>
        [pc["execute"] # "adapter" /\ pc'["execute"] = "adapter" =>
            row \notin Terminal \/ Overruled]_svars
  BY <1>1
<1> QED
  BY <1>2, Invariance, PTL DEF SSpec, NoEffectAfterEnd

\* The end of a run is final whatever commits after it.
THEOREM EndsAreFinal == SSpec => EndIsFinal
<1>1. [SNext]_svars => [(row \in Terminal) => row' = row]_svars
  BY TerminalStays DEF EndStays
<1> QED
  BY <1>1, PTL DEF SSpec, EndIsFinal

------------------------------------------------------------------------------
(* No wakeup is lost. *)

\* Its write ended the run and it has not announced the end yet.
Telling(a) == reply[a] = "won" /\ pc[a] \in {"complete", "fail", "cancel", "expire"}

Stopping == pc["stop"] \in {"join", "clear", "cancel"}

\* Whoever sleeps although the run has ended will be woken: somebody has the end still to
\* announce, or a stop is under way that wakes everybody; except that a decision on a
\* changed plan may have cut off the timer that expired the run.
NoLostWakeup ==
    \A w \in Waiters :
        waiter[w] = "parked" /\ row \in Terminal
        => (\E a \in Actors : Telling(a)) \/ Stopping \/ (row = "expired" /\ revision > 0)

\* What the timer has to announce.
TimerWon == Got("timer", "expire", "won") => request = "expired" /\ row = "expired"

WInv == NoLostWakeup /\ TimerWon

\* The movers A took their turn, and nothing was committed.
Turn(A) ==
    /\ Kept(A) /\ UNCHANGED <<row, request, revision>>
    /\ "timer" \in A => reply'["timer"] # "won"

LEMMA SilentTurn ==
  ASSUME WInv, NEW A, Turn(A), "stop" \notin A, waiter' = waiter,
         row \in Terminal => \A a \in A : ~Telling(a)
  PROVE  WInv'
<1>1. \A a \in Actors \ A : Telling(a) => Telling(a)'
  BY DEF Turn, Kept, Telling
<1>2. Stopping => Stopping'
  BY Names DEF Turn, Kept, Stopping
<1>3. NoLostWakeup'
  <2> SUFFICES ASSUME NEW w \in Waiters, waiter[w] = "parked", row \in Terminal
               PROVE  \/ \E a \in Actors : Telling(a)'
                      \/ Stopping' \/ (row = "expired" /\ revision > 0)
    BY DEF NoLostWakeup, Turn
  <2>1. (\E a \in Actors : Telling(a)) \/ Stopping \/ (row = "expired" /\ revision > 0)
    BY DEF WInv, NoLostWakeup
  <2> QED
    BY <1>1, <1>2, <2>1
<1>4. TimerWon'
  BY Names DEF WInv, TimerWon, Got, Turn, Kept
<1> QED
  BY <1>3, <1>4 DEF WInv

LEMMA LoudTurn ==
  ASSUME WInv, NEW A, Turn(A), \A w \in Waiters : waiter'[w] # "parked"
  PROVE  WInv'
<1>1. NoLostWakeup'
  BY DEF NoLostWakeup
<1>2. TimerWon'
  BY Names DEF WInv, TimerWon, Got, Turn, Kept
<1> QED
  BY <1>1, <1>2 DEF WInv

LEMMA NotifyWakes ==
  ASSUME Plain, NEW yes, Notify(yes), yes
  PROVE  \A w \in Waiters : waiter'[w] # "parked"
  BY DEF Plain, Notify, Woken

\* A commit that ends the run leaves its caller to announce it.
LEMMA CommitTells ==
  ASSUME SInv, WInv, NEW op, NEW from, NEW to, Cas(op, from, to), Stays,
         to \in Terminal => op \in {"complete", "fail", "cancel", "expire"},
         row \in Terminal => row \notin from,
         op = "expire" /\ row \in from => request' = "expired" /\ to = "expired",
         request = "expired" => request' = "expired"
  PROVE  WInv'
<1>0. Queue /\ Asking /\ WInv /\ NoLostWakeup /\ TimerWon
  BY DEF SInv, WInv
<1>1. UNCHANGED <<pc, waiter, revision>>
  BY DEF Stays, world
<1>2. PICK h \in Actors :
         /\ Kept({h}) /\ pc[h] = op /\ reply[h] = "wait"
         /\ reply'[h] = IF row \in from THEN "won" ELSE "lost"
         /\ row' = IF row \in from THEN to ELSE row
  BY <1>0, <1>1, CasMoves
<1>3. \A a \in Actors : Telling(a) => Telling(a)'
  BY <1>1, <1>2 DEF Telling, Kept
<1>4. NoLostWakeup'
  <2> SUFFICES ASSUME NEW w \in Waiters, waiter[w] = "parked", row' \in Terminal
               PROVE  \/ \E a \in Actors : Telling(a)'
                      \/ Stopping \/ (row' = "expired" /\ revision > 0)
    BY <1>1 DEF NoLostWakeup, Stopping
  <2>1. CASE row \in from
    <3>1. Telling(h)'
      BY <1>1, <1>2, <2>1 DEF Telling
    <3> QED
      BY <3>1
  <2>2. CASE row \notin from
    <3>1. (\E a \in Actors : Telling(a)) \/ Stopping \/ (row = "expired" /\ revision > 0)
      BY <1>0, <1>2, <2>2 DEF NoLostWakeup
    <3> QED
      BY <1>2, <1>3, <2>2, <3>1
  <2> QED
    BY <2>1, <2>2
<1>5. TimerWon'
  <2> SUFFICES ASSUME pc["timer"] = "expire", reply'["timer"] = "won"
               PROVE  request' = "expired" /\ row' = "expired"
    BY <1>1 DEF TimerWon, Got
  <2>1. CASE h = "timer"
    BY <1>2, <2>1
  <2>2. CASE h # "timer"
    <3>1. reply["timer"] = "won"
      BY <1>2, <2>2, Names DEF Kept
    <3>2. request = "expired" /\ row = "expired"
      BY <1>0, <3>1 DEF TimerWon, Got
    <3> QED
      BY <1>2, <3>2 DEF Terminal
  <2> QED
    BY <2>1, <2>2
<1> QED
  BY <1>4, <1>5 DEF WInv

LEMMA CommitKeepsWaking ==
  ASSUME SInv, WInv, Commit
  PROVE  WInv'
<1>0. Queue /\ Asking /\ Settling /\ Stays
  BY DEF SInv, Commit, Stays
<1>1. CASE CreateRun
  BY <1>0, <1>1, CommitTells DEF CreateRun, Terminal
<1>2. CASE CreateRequest
  <2>1. Cas("request", {"created"}, "waiting") /\ pc' = pc
    BY <1>0, <1>2 DEF CreateRequest, Stays
  <2>2. PICK h \in Actors : pc[h] = "request" /\ reply[h] = "wait"
    <3>1. db \in Seq(Actors) /\ IsInjective(db) /\ db # <<>> /\ pc[Head(db)] = "request"
      BY <1>0, <2>1 DEF Cas, Queue
    <3>2. Head(db) \in Actors /\ Head(db) \in Range(db)
      BY <3>1, TailQueue
    <3> QED
      BY <1>0, <3>1, <3>2 DEF Queue
  <2>3. request # "expired"
    BY <1>0, <2>2, Names DEF Asking, Settling, Got
  <2> QED
    BY <1>0, <1>2, <2>3, CommitTells DEF CreateRequest, Terminal
<1>3. CASE MarkRunning
  BY <1>0, <1>3, CommitTells DEF MarkRunning, Terminal
<1>4. CASE CompleteRun
  BY <1>0, <1>4, CommitTells DEF CompleteRun, Terminal
<1>5. CASE FailRun
  BY <1>0, <1>5, CommitTells DEF FailRun, Closes, Terminal
<1>6. CASE CancelRun
  BY <1>0, <1>6, CommitTells DEF CancelRun, Closes, Terminal, Open
<1>7. CASE MarkCancelling
  <2>1. {"created", "waiting"} \cup (IF skill.interruptible THEN {"running"} ELSE {})
           \subseteq {"created", "waiting", "running"}
    OBVIOUS
  <2> QED
    BY <1>0, <1>7, <2>1, CommitTells DEF MarkCancelling, Terminal
<1>8. CASE DecideAllow
  BY <1>0, <1>8, CommitTells DEF DecideAllow, Pending, Terminal
<1>9. CASE DecideDeny
  BY <1>0, <1>9, CommitTells DEF DecideDeny, Pending, Terminal
<1>10. CASE ExpireRequest
  BY <1>0, <1>10, CommitTells DEF ExpireRequest, Pending, Terminal
<1> QED
  BY <1>1, <1>2, <1>3, <1>4, <1>5, <1>6, <1>7, <1>8, <1>9, <1>10 DEF Commit

LEMMA WakingStep == ASSUME SInv, WInv, SNext PROVE WInv'
<1>0. /\ Queue /\ Plain /\ Asking /\ Quiet /\ Settling /\ Approval
      /\ WInv /\ NoLostWakeup /\ TimerWon
  BY DEF SInv, WInv
<1>1. ASSUME Invoke PROVE WInv'
  <2>1. /\ Turn({"invoke"})
        /\ waiter' = waiter
        /\ \A a \in {"invoke"} : ~Telling(a)
    BY <1>0, <1>1, Names, AskMoves DEF Invoke, world, Turn, Telling, Kept, NoTimerNow, Asking,
        Writes, Places, Got, Done
  <2> QED
    BY <1>0, <2>1, Names, SilentTurn
<1>2. ASSUME InvokeReturns PROVE WInv'
  <2>1. /\ Turn({"invoke"})
        /\ waiter' = waiter
        /\ \A a \in {"invoke"} : ~Telling(a)
    BY <1>0, <1>2, Names, GotoMoves DEF InvokeReturns, world, Turn, Telling, Kept, NoTimerNow,
        Asking, Writes, Places, Got, Done
  <2> QED
    BY <1>0, <2>1, Names, SilentTurn
<1>3. ASSUME Compensate PROVE WInv'
  <2>1. /\ Turn({"invoke"})
        /\ waiter' = waiter
        /\ \A a \in {"invoke"} : ~Telling(a)
    BY <1>0, <1>3, Names, AskMoves, GotoMoves DEF Compensate, world, Turn, Telling, Kept,
        NoTimerNow, Asking, Writes, Places, Got, Done
  <2> QED
    BY <1>0, <2>1, Names, SilentTurn
<1>4. ASSUME CompensateFails PROVE WInv'
  <2>1. /\ Turn({"invoke"})
        /\ waiter' = waiter
        /\ \A a \in {"invoke"} : ~Telling(a)
    BY <1>0, <1>4, Names, AskMoves DEF CompensateFails, world, Turn, Telling, Kept, NoTimerNow,
        Asking, Writes, Places, Got, Done
  <2> QED
    BY <1>0, <2>1, Names, SilentTurn
<1>5. ASSUME Admitted PROVE WInv'
  <2>1. /\ Turn({"invoke", "execute"})
        /\ waiter' = waiter
        /\ \A a \in {"invoke", "execute"} : ~Telling(a)
    BY <1>0, <1>5, Names, AdmittedMoves DEF Admitted, world, Turn, Telling, Kept, NoTimerNow,
        Asking, Writes, Places, Got, Done, Settling
  <2> QED
    BY <1>0, <2>1, Names, SilentTurn
<1>6. ASSUME Requested PROVE WInv'
  <2>1. /\ Turn({"invoke", "timer"})
        /\ waiter' = waiter
        /\ \A a \in {"invoke", "timer"} : ~Telling(a)
    BY <1>0, <1>6, Names, RequestedMoves DEF Requested, world, Turn, Telling, Kept, NoTimerNow,
        Asking, Writes, Places, Got, Done
  <2> QED
    BY <1>0, <2>1, Names, SilentTurn
<1>7. ASSUME ExecuteResolves PROVE WInv'
  <2>1. /\ Turn({"execute"})
        /\ waiter' = waiter
        /\ \A a \in {"execute"} : ~Telling(a)
    BY <1>0, <1>7, Names, AskMoves DEF ExecuteResolves, world, Turn, Telling, Kept, NoTimerNow,
        Asking, Writes, Places, Got, Done
  <2> QED
    BY <1>0, <2>1, Names, SilentTurn
<1>8. ASSUME Started PROVE WInv'
  <2>1. /\ Turn({"execute"})
        /\ waiter' = waiter
        /\ \A a \in {"execute"} : ~Telling(a)
    BY <1>0, <1>8, Names, GotoMoves DEF Started, world, Turn, Telling, Kept, NoTimerNow,
        Asking, Writes, Places, Got, Done
  <2> QED
    BY <1>0, <2>1, Names, SilentTurn
<1>9. ASSUME Launch PROVE WInv'
  <2>1. /\ Turn({"execute"})
        /\ waiter' = waiter
        /\ \A a \in {"execute"} : ~Telling(a)
    BY <1>0, <1>9, Names, AskMoves, GotoMoves DEF Launch, world, Turn, Telling, Kept,
        NoTimerNow, Asking, Writes, Places, Got, Done
  <2> QED
    BY <1>0, <2>1, Names, SilentTurn
<1>10. ASSUME SignalBeforeStart PROVE WInv'
  <2>1. /\ Turn({"execute"})
        /\ waiter' = waiter
        /\ \A a \in {"execute"} : ~Telling(a)
    BY <1>0, <1>10, Names, GotoMoves DEF SignalBeforeStart, Ends, world, Turn, Telling, Kept,
        NoTimerNow, Asking, Writes, Places, Got, Done
  <2> QED
    BY <1>0, <2>1, Names, SilentTurn
<1>11. ASSUME AdapterReturns PROVE WInv'
  <2>1. /\ Turn({"execute"})
        /\ waiter' = waiter
        /\ \A a \in {"execute"} : ~Telling(a)
    BY <1>0, <1>11, Names, AskMoves DEF AdapterReturns, world, Turn, Telling, Kept, NoTimerNow,
        Asking, Writes, Places, Got, Done
  <2> QED
    BY <1>0, <2>1, Names, SilentTurn
<1>12. ASSUME AdapterFails PROVE WInv'
  <2>1. /\ Turn({"execute"})
        /\ waiter' = waiter
        /\ \A a \in {"execute"} : ~Telling(a)
    BY <1>0, <1>12, Names, AskMoves DEF AdapterFails, world, Turn, Telling, Kept, NoTimerNow,
        Asking, Writes, Places, Got, Done
  <2> QED
    BY <1>0, <2>1, Names, SilentTurn
<1>13. ASSUME TimerFires PROVE WInv'
  <2>1. /\ Turn({"timer"})
        /\ waiter' = waiter
        /\ \A a \in {"timer"} : ~Telling(a)
    BY <1>0, <1>13, Names, AskMoves DEF TimerFires, world, Turn, Telling, Kept, NoTimerNow,
        Asking, Writes, Places, Got, Done
  <2> QED
    BY <1>0, <2>1, Names, SilentTurn
<1>14. ASSUME NEW d \in Deciders, Sweep(d) PROVE WInv'
  <2>1. /\ Turn({d})
        /\ waiter' = waiter
        /\ \A a \in {d} : ~Telling(a)
    BY <1>0, <1>14, Names, AskMoves DEF Sweep, world, Turn, Telling, Kept, NoTimerNow, Asking,
        Writes, Places, Got, Done
  <2> QED
    BY <1>0, <2>1, Names, SilentTurn
<1>15. ASSUME NEW c \in Cancellers, CancelWaited(c) PROVE WInv'
  <2>1. /\ Turn({c})
        /\ waiter' = waiter
        /\ \A a \in {c} : ~Telling(a)
    BY <1>0, <1>15, Names, GotoMoves DEF CancelWaited, world, Turn, Telling, Kept, NoTimerNow,
        Asking, Writes, Places, Got, Done
  <2> QED
    BY <1>0, <2>1, Names, SilentTurn
<1>16. ASSUME NEW c \in Cancellers, Marked(c) PROVE WInv'
  <2>1. /\ Turn({c})
        /\ waiter' = waiter
        /\ \A a \in {c} : ~Telling(a)
    BY <1>0, <1>16, Names, AskMoves, GotoMoves DEF Marked, StopTask, world, Turn, Telling, Kept,
        NoTimerNow, Asking, Writes, Places, Got, Done
  <2> QED
    BY <1>0, <2>1, Names, SilentTurn
<1>17. ASSUME NEW c \in Cancellers, CancelJoined(c) PROVE WInv'
  <2>1. /\ Turn({c})
        /\ waiter' = waiter
        /\ \A a \in {c} : ~Telling(a)
    BY <1>0, <1>17, Names, AskMoves DEF CancelJoined, world, Turn, Telling, Kept, NoTimerNow,
        Asking, Writes, Places, Got, Done
  <2> QED
    BY <1>0, <2>1, Names, SilentTurn
<1>18. ASSUME NEW d \in Deciders, Allowed(d) PROVE WInv'
  <2>1. /\ Turn({d, "execute", "timer"})
        /\ waiter' = waiter
        /\ \A a \in {d, "execute", "timer"} : ~Telling(a)
    BY <1>0, <1>18, Names, AllowedMoves DEF Allowed, world, Turn, Telling, Kept, NoTimerNow,
        Asking, Writes, Places, Got, Done, Approval, TimerWon
  <2> QED
    BY <1>0, <2>1, Names, SilentTurn
<1>19. ASSUME NEW d \in Deciders, Denied(d) PROVE WInv'
  <2>1. /\ Turn({d, "timer"})
        /\ waiter' = waiter
        /\ \A a \in {d, "timer"} : ~Telling(a)
    BY <1>0, <1>19, Names, DropAndAskMoves DEF Denied, world, Turn, Telling, Kept, NoTimerNow,
        Asking, Writes, Places, Got, Done, Settling, TimerWon
  <2> QED
    BY <1>0, <2>1, Names, SilentTurn
<1>20. ASSUME Compensated PROVE WInv'
  <2>1. Turn({"invoke"})
    BY <1>0, <1>20, Names, GotoMoves DEF Compensated, world, Turn, Kept, Asking, Writes, Places,
        Got, Done
  <2>2. /\ Notify(reply["invoke"] = "won")
        /\ (row \in Terminal /\ ~(reply["invoke"] = "won") => ~Telling("invoke"))
    BY <1>0, <1>20, Names DEF Compensated, Telling, Asking, Got, Done
  <2>3. CASE reply["invoke"] = "won"
    BY <1>0, <2>1, <2>2, <2>3, NotifyWakes, LoudTurn
  <2>4. CASE ~(reply["invoke"] = "won")
    <3>1. waiter' = waiter
      BY <2>2, <2>4 DEF Notify
    <3> QED
      BY <1>0, <2>1, <2>2, <2>4, <3>1, Names, SilentTurn
  <2> QED
    BY <2>3, <2>4
<1>21. ASSUME OutcomeCommitted PROVE WInv'
  <2>1. Turn({"execute"})
    BY <1>0, <1>21, Names, AskMoves, GotoMoves DEF OutcomeCommitted, Ends, world, Turn, Kept,
        Asking, Writes, Places, Got, Done
  <2>2. /\ Notify(reply["execute"] = "won")
        /\ (row \in Terminal /\ ~(reply["execute"] = "won") => ~Telling("execute"))
    BY <1>0, <1>21, Names DEF OutcomeCommitted, Ends, Telling, Asking, Got, Done
  <2>3. CASE reply["execute"] = "won"
    BY <1>0, <2>1, <2>2, <2>3, NotifyWakes, LoudTurn
  <2>4. CASE ~(reply["execute"] = "won")
    <3>1. waiter' = waiter
      BY <2>2, <2>4 DEF Notify
    <3> QED
      BY <1>0, <2>1, <2>2, <2>4, <3>1, Names, SilentTurn
  <2> QED
    BY <2>3, <2>4
<1>22. ASSUME SignalArrives PROVE WInv'
  <2>1. Turn({"execute"})
    BY <1>0, <1>22, Names, SignalMoves DEF SignalArrives, world, Turn, Kept, Asking, Writes,
        Places, Got, Done
  <2>2. /\ Notify(pc["execute"] = "fail" /\ row \in Terminal)
        /\ (row \in Terminal /\ ~(pc["execute"] = "fail" /\ row \in Terminal) => ~Telling("execute"))
    BY <1>0, <1>22, Names DEF SignalArrives, Telling, Asking, Got, Done
  <2>3. CASE pc["execute"] = "fail" /\ row \in Terminal
    BY <1>0, <2>1, <2>2, <2>3, NotifyWakes, LoudTurn
  <2>4. CASE ~(pc["execute"] = "fail" /\ row \in Terminal)
    <3>1. waiter' = waiter
      BY <2>2, <2>4 DEF Notify
    <3> QED
      BY <1>0, <2>1, <2>2, <2>4, <3>1, Names, SilentTurn
  <2> QED
    BY <2>3, <2>4
<1>23. ASSUME TimerEnds PROVE WInv'
  <2>1. Turn({"timer"})
    BY <1>0, <1>23, Names, GotoMoves DEF TimerEnds, world, Turn, Kept, Asking, Writes, Places,
        Got, Done
  <2>2. /\ Notify(reply["timer"] = "won")
        /\ (row \in Terminal /\ ~(reply["timer"] = "won") => ~Telling("timer"))
    BY <1>0, <1>23, Names DEF TimerEnds, Telling, Asking, Got, Done
  <2>3. CASE reply["timer"] = "won"
    BY <1>0, <2>1, <2>2, <2>3, NotifyWakes, LoudTurn
  <2>4. CASE ~(reply["timer"] = "won")
    <3>1. waiter' = waiter
      BY <2>2, <2>4 DEF Notify
    <3> QED
      BY <1>0, <2>1, <2>2, <2>4, <3>1, Names, SilentTurn
  <2> QED
    BY <2>3, <2>4
<1>24. ASSUME NEW d \in Deciders, DecidedElsewhere(d) PROVE WInv'
  <2>1. Turn({d})
    BY <1>0, <1>24, Names, GotoMoves DEF DecidedElsewhere, Settled, world, Turn, Kept, Asking,
        Writes, Places, Got, Done
  <2>2. /\ Notify(row \in Terminal)
        /\ (row \in Terminal /\ ~(row \in Terminal) => ~Telling(d))
    BY <1>0, <1>24, Names DEF DecidedElsewhere, Settled, Telling, Asking, Got, Done
  <2>3. CASE row \in Terminal
    BY <1>0, <2>1, <2>2, <2>3, NotifyWakes, LoudTurn
  <2>4. CASE ~(row \in Terminal)
    <3>1. waiter' = waiter
      BY <2>2, <2>4 DEF Notify
    <3> QED
      BY <1>0, <2>1, <2>2, <2>4, <3>1, Names, SilentTurn
  <2> QED
    BY <2>3, <2>4
<1>25. ASSUME NEW d \in Deciders, DecisionEnds(d) PROVE WInv'
  <2>1. Turn({d})
    BY <1>0, <1>25, Names, GotoMoves DEF DecisionEnds, world, Turn, Kept, Asking, Writes,
        Places, Got, Done
  <2>2. /\ Notify(reply[d] = "won")
        /\ (row \in Terminal /\ ~(reply[d] = "won") => ~Telling(d))
    BY <1>0, <1>25, Names DEF DecisionEnds, Telling, Asking, Got, Done
  <2>3. CASE reply[d] = "won"
    BY <1>0, <2>1, <2>2, <2>3, NotifyWakes, LoudTurn
  <2>4. CASE ~(reply[d] = "won")
    <3>1. waiter' = waiter
      BY <2>2, <2>4 DEF Notify
    <3> QED
      BY <1>0, <2>1, <2>2, <2>4, <3>1, Names, SilentTurn
  <2> QED
    BY <2>3, <2>4
<1>26. ASSUME NEW c \in Cancellers, NotMarked(c) PROVE WInv'
  <2>1. Turn({c})
    BY <1>0, <1>26, Names, GotoMoves DEF NotMarked, world, Turn, Kept, Asking, Writes, Places,
        Got, Done
  <2>2. /\ Notify(row \in Terminal)
        /\ (row \in Terminal /\ ~(row \in Terminal) => ~Telling(c))
    BY <1>0, <1>26, Names DEF NotMarked, Telling, Asking, Got, Done
  <2>3. CASE row \in Terminal
    BY <1>0, <2>1, <2>2, <2>3, NotifyWakes, LoudTurn
  <2>4. CASE ~(row \in Terminal)
    <3>1. waiter' = waiter
      BY <2>2, <2>4 DEF Notify
    <3> QED
      BY <1>0, <2>1, <2>2, <2>4, <3>1, Names, SilentTurn
  <2> QED
    BY <2>3, <2>4
<1>27. ASSUME NEW c \in Cancellers, CancelEnds(c) PROVE WInv'
  <2>1. Turn({c})
    BY <1>0, <1>27, Names, GotoMoves DEF CancelEnds, world, Turn, Kept, Asking, Writes, Places,
        Got, Done
  <2>2. /\ Notify(reply[c] = "won")
        /\ (row \in Terminal /\ ~(reply[c] = "won") => ~Telling(c))
    BY <1>0, <1>27, Names DEF CancelEnds, Telling, Asking, Got, Done
  <2>3. CASE reply[c] = "won"
    BY <1>0, <2>1, <2>2, <2>3, NotifyWakes, LoudTurn
  <2>4. CASE ~(reply[c] = "won")
    <3>1. waiter' = waiter
      BY <2>2, <2>4 DEF Notify
    <3> QED
      BY <1>0, <2>1, <2>2, <2>4, <3>1, Names, SilentTurn
  <2> QED
    BY <2>3, <2>4
<1>28. ASSUME NEW c \in Cancellers, ReconcileCancel(c) PROVE WInv'
  <2>1. Turn({c})
    BY <1>0, <1>28, Names, AskMoves, GotoMoves DEF ReconcileCancel, StopTask, world, Turn, Kept,
        Asking, Writes, Places, Got, Done
  <2>2. /\ Notify(row \in Terminal)
        /\ (row \in Terminal /\ ~(row \in Terminal) => ~Telling(c))
    BY <1>0, <1>28, Names DEF ReconcileCancel, StopTask, Telling, Asking, Got, Done
  <2>3. CASE row \in Terminal
    BY <1>0, <2>1, <2>2, <2>3, NotifyWakes, LoudTurn
  <2>4. CASE ~(row \in Terminal)
    <3>1. waiter' = waiter
      BY <2>2, <2>4 DEF Notify
    <3> QED
      BY <1>0, <2>1, <2>2, <2>4, <3>1, Names, SilentTurn
  <2> QED
    BY <2>3, <2>4
<1>29. ASSUME Torn("invoke", {"create", "request", "snapshot"}) PROVE WInv'
  <2>1. Turn({"invoke"})
    BY <1>0, <1>29, Names, TornMoves DEF Turn
  <2>2. /\ Notify(Done("invoke", {"fail", "cancel"}))
        /\ (~Done("invoke", {"fail", "cancel"}) => ~Telling("invoke"))
    BY <1>0, <1>29, Names DEF Torn, Telling, Asking, Done
  <2>3. CASE Done("invoke", {"fail", "cancel"})
    BY <1>0, <2>1, <2>2, <2>3, NotifyWakes, LoudTurn DEF Done
  <2>4. CASE ~Done("invoke", {"fail", "cancel"})
    <3>1. waiter' = waiter
      BY <2>2, <2>4 DEF Notify, Done
    <3> QED
      BY <1>0, <2>1, <2>2, <2>4, <3>1, Names, SilentTurn
  <2> QED
    BY <2>3, <2>4
<1>30. ASSUME NEW d \in Deciders, Torn(d, {"allow", "deny"}) PROVE WInv'
  <2>1. Turn({d})
    BY <1>0, <1>30, Names, TornMoves DEF Turn
  <2>2. /\ Notify(Done(d, {"fail", "cancel"}))
        /\ (~Done(d, {"fail", "cancel"}) => ~Telling(d))
    BY <1>0, <1>30, Names DEF Torn, Telling, Asking, Done
  <2>3. CASE Done(d, {"fail", "cancel"})
    BY <1>0, <2>1, <2>2, <2>3, NotifyWakes, LoudTurn DEF Done
  <2>4. CASE ~Done(d, {"fail", "cancel"})
    <3>1. waiter' = waiter
      BY <2>2, <2>4 DEF Notify, Done
    <3> QED
      BY <1>0, <2>1, <2>2, <2>4, <3>1, Names, SilentTurn
  <2> QED
    BY <2>3, <2>4
<1>31. ASSUME NEW c \in Cancellers, Torn(c, {"mark", "join", "cancel"}) PROVE WInv'
  <2>1. Turn({c})
    BY <1>0, <1>31, Names, TornMoves DEF Turn
  <2>2. /\ Notify(Done(c, {"fail", "cancel"}))
        /\ (~Done(c, {"fail", "cancel"}) => ~Telling(c))
    BY <1>0, <1>31, Names DEF Torn, Telling, Asking, Done
  <2>3. CASE Done(c, {"fail", "cancel"})
    BY <1>0, <2>1, <2>2, <2>3, NotifyWakes, LoudTurn DEF Done
  <2>4. CASE ~Done(c, {"fail", "cancel"})
    <3>1. waiter' = waiter
      BY <2>2, <2>4 DEF Notify, Done
    <3> QED
      BY <1>0, <2>1, <2>2, <2>4, <3>1, Names, SilentTurn
  <2> QED
    BY <2>3, <2>4
<1>32. ASSUME ExecutionEnds PROVE WInv'
  <2>1. Turn({"execute"})
    BY <1>0, <1>32, Names, GotoMoves DEF ExecutionEnds, Ends, world, Turn, Asking, Writes,
        Places, Got, Done
  <2>2. CASE Got("execute", "start", "lost") /\ waiter' = waiter
    <3>1. ~Telling("execute")
      BY <2>2 DEF Telling, Got
    <3> QED
      BY <1>0, <2>1, <2>2, <3>1, Names, SilentTurn
  <2>3. CASE Notify(reply["execute"] = "won")
    <3>1. CASE reply["execute"] = "won"
      BY <1>0, <2>1, <2>3, <3>1, NotifyWakes, LoudTurn
    <3>2. CASE reply["execute"] # "won"
      <4>1. waiter' = waiter /\ ~Telling("execute")
        BY <2>3, <3>2 DEF Notify, Telling
      <4> QED
        BY <1>0, <2>1, <4>1, Names, SilentTurn
    <3> QED
      BY <3>1, <3>2
  <2> QED
    BY <1>32, <2>2, <2>3 DEF ExecutionEnds
<1>33. ASSUME NEW d \in Deciders, DecideTooLate(d) PROVE WInv'
  <2>1. /\ Turn({}) /\ Notify(row \in Terminal)
    BY <1>33 DEF DecideTooLate, Settled, world, Turn, Kept
  <2>2. CASE row \in Terminal
    BY <1>0, <2>1, <2>2, NotifyWakes, LoudTurn
  <2>3. CASE row \notin Terminal
    <3>1. waiter' = waiter
      BY <2>1, <2>3 DEF Notify
    <3> QED
      BY <1>0, <2>1, <2>3, <3>1, SilentTurn
  <2> QED
    BY <2>2, <2>3
<1>34. ASSUME NEW d \in Deciders, ReconcileDecision(d) PROVE WInv'
  <2>1. UNCHANGED <<row, request, revision, waiter>> /\ pc[d] = "reconcile"
    BY <1>34 DEF ReconcileDecision, world
  <2>2. CASE request \in {"allowed", "denied"}
    <3>1. DropAndAsk(d, "cancel") \/ DropAndAsk(d, "fail")
      BY <1>34, <2>2 DEF ReconcileDecision
    <3>2. Turn({d, "timer"})
      BY <1>0, <2>1, <3>1, Names, DropAndAskMoves DEF Turn, NoTimerNow, Asking, Writes, Places
    <3>3. \A a \in {d, "timer"} : ~Telling(a)
      BY <1>0, <2>1, <2>2 DEF Telling, TimerWon, Got, Asking
    <3> QED
      BY <1>0, <2>1, <3>2, <3>3, Names, SilentTurn
  <2>3. CASE request \notin {"allowed", "denied"}
    <3>1. Goto(d, "done")
      BY <1>34, <2>3 DEF ReconcileDecision
    <3>2. Turn({d})
      BY <1>0, <2>1, <3>1, Names, GotoMoves DEF Turn, Asking, Writes, Places
    <3>3. ~Telling(d)
      BY <2>1 DEF Telling
    <3> QED
      BY <1>0, <2>1, <3>2, <3>3, Names, SilentTurn
  <2> QED
    BY <2>2, <2>3
<1>35. ASSUME NEW c \in Cancellers, Cancel(c) PROVE WInv'
  <2>1. UNCHANGED <<row, request, revision, waiter>> /\ pc[c] = "idle" /\ row \notin Terminal
    BY <1>35 DEF Cancel, world, Open, Terminal
  <2>2. DropAndGoto(c, "await") \/ DropAndAsk(c, "mark")
    BY <1>35 DEF Cancel
  <2>3. Turn({c, "timer"})
    BY <1>0, <2>1, <2>2, Names, DropAndAskMoves, DropAndGotoMoves
       DEF Turn, NoTimerNow, Asking, Writes, Places
  <2> QED
    BY <1>0, <2>1, <2>3, Names, SilentTurn
<1>36. ASSUME NEW d \in Deciders, Decide(d) PROVE WInv'
  <2>1. UNCHANGED <<row, request, revision, waiter>> /\ pc[d] = "idle"
    BY <1>36 DEF Decide, world
  <2>2. CASE Unchanged
    <3>1. Ask(d, "allow") \/ Ask(d, "deny")
      BY <1>36, <2>2 DEF Decide
    <3>2. Turn({d}) /\ ~Telling(d)
      BY <1>0, <2>1, <3>1, Names, AskMoves DEF Turn, Telling, Asking, Writes, Places
    <3> QED
      BY <1>0, <2>1, <3>2, Names, SilentTurn
  <2>3. CASE ~Unchanged
    \* The plan has changed: the timer is dropped although it may have expired the run.
    <3>1. DropAndAsk(d, "fail") /\ revision > 0
      BY <1>0, <1>36, <2>3, SkillAssumption DEF Decide, Unchanged, Plain
    <3>2. Turn({d, "timer"})
      BY <1>0, <2>1, <3>1, Names, DropAndAskMoves DEF Turn, NoTimerNow, Asking, Writes, Places
    <3>3. CASE Telling("timer")
      <4>1. row = "expired"
        BY <1>0, <3>3 DEF Telling, TimerWon, Got, Asking
      <4>2. NoLostWakeup'
        BY <2>1, <3>1, <4>1 DEF NoLostWakeup
      <4>3. TimerWon'
        BY <3>2 DEF Turn, TimerWon, Got
      <4> QED
        BY <4>2, <4>3 DEF WInv
    <3>4. CASE ~Telling("timer")
      <4>1. \A a \in {d, "timer"} : ~Telling(a)
        BY <2>1, <3>4 DEF Telling
      <4> QED
        BY <1>0, <2>1, <3>2, <4>1, Names, SilentTurn
    <3> QED
      BY <3>3, <3>4
  <2> QED
    BY <2>2, <2>3
<1>37. ASSUME StopBegins PROVE WInv'
  <2>1. PICK to \in {"join", "clear"} : DropAndGoto("stop", to) /\ pc["stop"] = "idle"
    BY <1>37 DEF StopBegins, Serving
  <2>2. reply'["timer"] = "none" /\ pc'["stop"] = to
    <3>1. reply["stop"] # "wait" /\ to \in Places
      BY <1>0, <2>1, Names DEF Asking, Writes, Places
    <3> QED
      BY <1>0, <2>1, <3>1, Names, DropAndGotoMoves DEF NoTimerNow
  <2> QED
    BY <2>2 DEF WInv, NoLostWakeup, Stopping, TimerWon, Got
<1>38. ASSUME StopJoined PROVE WInv'
  <2>1. Kept({"stop"}) /\ pc'["stop"] = "cancel" /\ UNCHANGED <<row, request>>
    BY <1>0, <1>38, Names, AskMoves DEF StopJoined, Asking, Writes, Places
  <2> QED
    BY <1>0, <2>1, Names DEF Kept, WInv, NoLostWakeup, Stopping, TimerWon, Got
<1>39. ASSUME StopEnds PROVE WInv'
  <2>1. /\ Turn({"stop"}) /\ \A w \in Waiters : waiter'[w] # "parked"
    BY <1>0, <1>39, Names, GotoMoves DEF StopEnds, world, Turn, Asking, Writes, Places, Done
  <2> QED
    BY <1>0, <2>1, LoudTurn
<1>40. ASSUME Restart PROVE WInv'
  <2>1. reply'["timer"] = "none" /\ \A w \in Waiters : waiter'[w] # "parked"
    BY <1>0, <1>40, Names, RestartMoves DEF Restart
  <2> QED
    BY <2>1 DEF WInv, NoLostWakeup, TimerWon, Got
<1>41. ASSUME Revise PROVE WInv'
  <2>1. UNCHANGED <<row, request, pc, reply>> /\ row \notin Terminal
    BY <1>41 DEF Revise, memory, Open, Terminal
  <2> QED
    BY <1>0, <2>1 DEF WInv, NoLostWakeup, TimerWon, Got
<1>42. ASSUME NEW w \in Waiters, WaitBegins(w) \/ WaitRegisters(w) \/ WaitRereads(w) PROVE WInv'
  <2>1. /\ UNCHANGED <<row, request, revision, pc, reply>>
        /\ \A v \in Waiters : waiter'[v] = "parked" => waiter[v] = "parked" \/ row \notin Terminal
    BY <1>0, <1>42 DEF WaitBegins, WaitRegisters, WaitRereads, world, Plain
  <2>2. NoLostWakeup'
    <3> SUFFICES ASSUME NEW v \in Waiters, waiter'[v] = "parked", row \in Terminal
                 PROVE  (\E a \in Actors : Telling(a)) \/ Stopping
                        \/ (row = "expired" /\ revision > 0)
      BY <2>1 DEF NoLostWakeup, Telling, Stopping
    <3> QED
      BY <1>0, <2>1 DEF NoLostWakeup
  <2> QED
    BY <1>0, <2>1, <2>2 DEF WInv, TimerWon, Got
<1>43. ASSUME Commit PROVE WInv'
  BY <1>43, CommitKeepsWaking
<1> QED
  BY <1>1, <1>2, <1>3, <1>4, <1>5, <1>6, <1>7, <1>8, <1>9, <1>10, <1>11, <1>12, <1>13,
      <1>14, <1>15, <1>16, <1>17, <1>18, <1>19, <1>20, <1>21, <1>22, <1>23, <1>24, <1>25,
      <1>26, <1>27, <1>28, <1>29, <1>30, <1>31, <1>32, <1>33, <1>34, <1>35, <1>36, <1>37,
      <1>38, <1>39, <1>40, <1>41, <1>42, <1>43 DEF SNext, Calls, Tear, Invoker, Executor,
      Adapter, Expiry, Stopper, Owner, Canceller

\* Registered before it reads again, and told by whoever ends the run: a waiter never sleeps
\* through the end unless somebody is still about to wake it, however many decisions,
\* cancellations, expiries and torn callers race.  It is what EveryWaiterWakes rests on
\* besides fairness, with the same exception.
THEOREM NoWakeupLost == SSpec => []NoLostWakeup
<1>1. SInit => WInv
  BY Names DEF SInit, WInv, NoLostWakeup, TimerWon, Got
<1>2. SInv /\ WInv /\ [SNext]_svars => WInv'
  <2>1. CASE SNext
    BY <2>1, WakingStep
  <2>2. CASE UNCHANGED svars
    <3>1. UNCHANGED <<row, request, pc, reply, waiter, revision>>
      BY <2>2 DEF svars, memory, world
    <3> QED
      BY <3>1 DEF WInv, NoLostWakeup, Telling, Stopping, TimerWon, Got
  <2> QED
    BY <2>1, <2>2
<1>3. WInv => NoLostWakeup
  BY DEF WInv
<1> QED
  BY <1>1, <1>2, <1>3, Invariance, PTL DEF SSpec

===============================================================================
