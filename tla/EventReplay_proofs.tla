--------------------------- MODULE EventReplay_proofs ---------------------------
(***************************************************************************)
(* The stream of one session reaches its page as EventFeed promises, for   *)
(* every number of events, every size of the queue and of a page of the    *)
(* stream, and any number of resets and failures.  Two arguments make the  *)
(* invariant: what the handler has still to replay is all that is stored   *)
(* between its last_sequence and the newest event it replays (Replaying,   *)
(* CaughtUp), and what it sent and the page has not consumed leads from    *)
(* the cursor of the page to that last_sequence (Chained).                 *)
(***************************************************************************)
EXTENDS EventReplay, TLAPS, FiniteSetTheorems, SequenceTheorems, WellFoundedInduction

Kept == [seq : 0..Last, kind : Kinds \cup {"domain", "telemetry"}]

StreamTyped ==
    /\ log \in Seq(Kinds \cup {"domain"}) /\ Last <= MaxEvents
    /\ stored \subseteq 1..Last /\ unpublished \subseteq 1..Last /\ resets \subseteq 1..Last
QueueTyped  == queue \in Seq(Kept) /\ Len(queue) <= QueueSize
ServerTyped ==
    server \in [stage : {"off", "read", "send", "resume", "live"}, last : 0..Last,
                rest : SUBSET (1..Last), more : BOOLEAN, held : 0..Last]
PageTyped   ==
    /\ conn \in {"down", "open", "closing"} /\ wire \in Seq(1..Last) /\ want \in 0..Last
    /\ loaded \in 0..cursor /\ cursor \in 0..Last /\ shown \in [Events -> Nat]

\* A page without a socket has no handler, nothing under way and no gap to fill; a gap
\* ends behind the cursor.
Hungup  == conn = "down" => server = Off /\ wire = <<>> /\ want = 0
Filling == want # 0 => want > cursor

\* The rest of a page that is replayed: nothing stored is missing before its last event.
Replaying ==
    /\ server.stage = "send" <=> server.rest # {}
    /\ \A r \in server.rest : r > server.last
    /\ \A r \in server.rest, t \in stored : server.last < t /\ t < r => t \in server.rest

\* After the last page of a replay the event that led to it is next, or is old.
CaughtUp ==
    server.stage = "resume" \/ (server.stage = "send" /\ ~server.more) =>
        \A t \in stored : t <= server.held => t <= server.last \/ t \in server.rest

\* How far the page is, once the gap it fills is filled.
Reached == IF want # 0 THEN want ELSE cursor

\* No stored event lies between a and b.
Gapless(a, b) == \A s \in stored : ~(a < s /\ s < b)

Chained ==
    conn = "open" =>
        /\ wire = <<>> => server.last <= Reached
        /\ wire # <<>> => server.last = wire[Len(wire)] /\ Gapless(Reached, wire[1])
        /\ \A i \in 1..(Len(wire) - 1) : wire[i] < wire[i + 1] /\ Gapless(wire[i], wire[i + 1])

\* The page was given exactly what lies between the cursor it was loaded with and its
\* cursor, and each of it once.
ShownOnce == \A s \in Events : shown[s] = IF s \in loaded + 1 .. cursor THEN 1 ELSE 0

Inv ==
    /\ TypeOK /\ Hungup /\ Filling /\ Replaying /\ CaughtUp /\ Chained /\ ShownOnce

------------------------------------------------------------------------------
(* Sets of numbers, the page of a stream, the queue. *)

LEMMA LeastOf ==
  ASSUME NEW S, S \subseteq Nat, S # {}
  PROVE  Least(S) \in S /\ \A t \in S : Least(S) <= t
<1> DEFINE Less == {ss \in Nat \X Nat : ss[1] < ss[2]}
<1>1. IsWellFoundedOn(Less, Nat)
  BY NatLessThanWellFounded DEF OpToRel
<1>2. PICK x \in S : \A y \in S : ~(<<y, x>> \in Less)
  <2> HIDE DEF Less
  <2> QED
    BY <1>1, WFMin
<1>3. ASSUME NEW t \in S PROVE x <= t
  <2>1. ~(<<t, x>> \in Less) /\ t \in Nat /\ x \in Nat
    BY <1>2
  <2> QED
    BY <2>1
<1> QED
  BY <1>3 DEF Least

LEMMA GreatestOf ==
  ASSUME NEW S, S \subseteq Nat, S # {}, NEW n \in Nat, \A s \in S : s <= n
  PROVE  \E m \in S : \A t \in S : t <= m
<1> DEFINE U == {k \in Nat : \A s \in S : s <= k}
           m == Least(U)
<1>1. U \subseteq Nat /\ n \in U
  OBVIOUS
<1>2. m \in U /\ \A t \in U : m <= t
  BY <1>1, LeastOf
<1>3. m \in S
  <2>1. SUFFICES ASSUME m \notin S PROVE FALSE
    OBVIOUS
  <2> HIDE DEF m
  <2>2. m \in Nat /\ \A s \in S : s < m
    BY <1>2, <2>1
  <2>3. m - 1 \in U
    <3>1. PICK s \in S : TRUE
      OBVIOUS
    <3>2. m - 1 \in Nat /\ \A t \in S : t <= m - 1
      BY <2>2, <3>1
    <3> QED
      BY <3>2
  <2> QED
    BY <1>2, <2>2, <2>3
<1> QED
  BY <1>2, <1>3

\* A page of the stream has no hole, and one that is not full is all there is.
LEMMA PageOfStream ==
  ASSUME StreamTyped, NEW after \in Nat
  PROVE  /\ ReadStream(after) \subseteq {s \in stored : s > after}
         /\ \A s \in ReadStream(after), t \in stored :
               after < t /\ t < s => t \in ReadStream(after)
         /\ Cardinality(ReadStream(after)) # PageLimit \/ ReadStream(after) = {} =>
               ReadStream(after) = {s \in stored : s > after}
<1> DEFINE later  == {s \in stored : s > after}
           events == ReadStream(after)
           Before(s) == {t \in later : t < s}
<1>1. /\ Last \in Nat /\ stored \subseteq 1..Last /\ later \subseteq 1..Last
      /\ PageLimit \in Nat \ {0}
  BY ReplayAssumption, LenProperties DEF StreamTyped, Last
<1>2. events = {s \in later : Cardinality(Before(s)) < PageLimit}
  BY DEF ReadStream
<1> HIDE DEF events
<1>3. IsFiniteSet(later)
  <2>1. IsFiniteSet(1..Last)
    BY <1>1, FS_Interval
  <2> HIDE DEF later
  <2> QED
    BY <1>1, <2>1, FS_Subset
<1>4. ASSUME NEW S \in SUBSET later
      PROVE  IsFiniteSet(S) /\ Cardinality(S) \in Nat
  BY <1>3, <1>4, FS_Subset, FS_CardinalityType
<1>5. ASSUME NEW s \in events, NEW t \in later, t < s PROVE t \in events
  <2>1. Before(t) \subseteq Before(s) /\ Before(s) \subseteq later /\ Before(t) \subseteq later
    BY <1>1, <1>2, <1>5
  <2>2. Cardinality(Before(t)) <= Cardinality(Before(s))
    BY <1>4, <2>1, FS_Subset
  <2> QED
    BY <1>1, <1>2, <1>4, <2>1, <2>2
<1>6. ASSUME events # later PROVE events # {} /\ Cardinality(events) = PageLimit
  <2>1. later \ events # {} /\ later \ events \subseteq Nat
    BY <1>1, <1>2, <1>6
  <2>2. PICK m \in later \ events : \A t \in later \ events : m <= t
    BY <2>1, LeastOf
  <2>3. events = Before(m)
    <3>1. \A t \in later : t < m => t \in events
      BY <1>1, <2>2
    <3>2. \A e \in events : e \in later /\ e # m /\ ~(m < e)
      BY <1>2, <1>5, <2>2
    <3> QED
      BY <1>1, <3>1, <3>2
  <2>4. Cardinality(events) \in Nat /\ IsFiniteSet(events) /\ Cardinality(events) >= PageLimit
    <3>1. events \subseteq later /\ ~(Cardinality(Before(m)) < PageLimit)
      BY <1>2, <2>2
    <3> QED
      BY <1>1, <1>4, <2>3, <3>1
  <2>5. events # {}
    BY <1>1, <2>4, FS_EmptySet
  <2>6. PICK g \in events : \A t \in events : t <= g
    <3>1. events \subseteq Nat /\ \A e \in events : e <= Last
      BY <1>1, <1>2
    <3> QED
      BY <1>1, <2>5, <3>1, GreatestOf
  <2>7. Before(g) = events \ {g}
    <3>1. \A t \in later : t < g => t \in events
      BY <1>5, <2>6
    <3>2. \A t \in events : t \in later /\ t \in Nat /\ t <= g
      BY <1>1, <1>2, <2>6
    <3> QED
      BY <3>1, <3>2, <2>6
  <2>8. Cardinality(events \ {g}) = Cardinality(events) - 1 /\ Cardinality(events \ {g}) < PageLimit
    BY <1>2, <2>4, <2>6, <2>7, FS_RemoveElement
  <2> QED
    BY <1>1, <2>4, <2>5, <2>8
<1>7. events \subseteq later
  BY <1>2
<1> QED
  BY <1>5, <1>6, <1>7 DEF events

LEMMA WithoutOne ==
  ASSUME NEW S, NEW q \in Seq(S), NEW i \in 1..Len(q)
  PROVE  Without(q, i) \in Seq(S) /\ Len(Without(q, i)) = Len(q) - 1
<1> DEFINE front == SubSeq(q, 1, i - 1)
           back  == SubSeq(q, i + 1, Len(q))
<1>1. front \in Seq(S) /\ Len(front) = i - 1
  BY LenProperties, SubSeqProperties
<1>2. back \in Seq(S) /\ Len(back) = Len(q) - i
  BY LenProperties, SubSeqProperties
<1>3. Without(q, i) = front \o back
  BY DEF Without
<1> HIDE DEF front, back
<1>4. front \o back \in Seq(S) /\ Len(front \o back) = Len(front) + Len(back)
  BY <1>1, <1>2, ConcatProperties
<1> QED
  BY <1>1, <1>2, <1>3, <1>4, LenProperties

\* The queue never grows past its size.
LEMMA OfferedQueue ==
  ASSUME QueueTyped, NEW e \in Kept
  PROVE  Offered(e) \in Seq(Kept) /\ Len(Offered(e)) <= QueueSize
<1>1. queue \in Seq(Kept) /\ Len(queue) \in Nat /\ Len(queue) <= QueueSize /\ QueueSize \in Nat
      /\ DOMAIN queue = 1..Len(queue)
  BY ReplayAssumption, LenProperties DEF QueueTyped
<1>2. ASSUME NEW V \in SUBSET DOMAIN queue, V # {}
      PROVE  Least(V) \in 1..Len(queue)
  <2>1. V \subseteq Nat
    BY <1>1
  <2> QED
    BY <1>1, <1>2, <2>1, LeastOf
<1> DEFINE weight(i) == Weight(queue[i].kind)
           evictable == {i \in DOMAIN queue : e.kind # "telemetry" /\ weight(i) <= Weight(e.kind)}
           victims   == {i \in evictable : \A j \in evictable : weight(i) <= weight(j)}
<1>3. Offered(e) = IF server.stage = "off" THEN queue
                   ELSE IF Len(queue) < QueueSize THEN Append(queue, e)
                   ELSE IF victims = {} THEN queue
                   ELSE Append(Without(queue, Least(victims)), e)
  BY DEF Offered
<1>4. victims \in SUBSET DOMAIN queue
  OBVIOUS
<1> HIDE DEF victims, evictable
<1>5. CASE Offered(e) = queue
  BY <1>1, <1>5
<1>6. CASE Len(queue) < QueueSize /\ Offered(e) = Append(queue, e)
  BY <1>1, <1>6, AppendProperties
<1>7. CASE victims # {} /\ Offered(e) = Append(Without(queue, Least(victims)), e)
  <2> DEFINE w == Without(queue, Least(victims))
  <2>1. w \in Seq(Kept) /\ Len(w) = Len(queue) - 1
    BY <1>1, <1>2, <1>4, <1>7, WithoutOne
  <2> HIDE DEF w
  <2>2. Append(w, e) \in Seq(Kept) /\ Len(Append(w, e)) = Len(w) + 1
    BY <2>1, AppendProperties
  <2> QED
    BY <1>1, <1>7, <2>1, <2>2 DEF w
<1> QED
  BY <1>3, <1>5, <1>6, <1>7

LEMMA ForemostOf ==
  ASSUME QueueTyped, queue # <<>>
  PROVE  Foremost \in 1..Len(queue) /\ queue[Foremost] \in Kept
<1>1. queue \in Seq(Kept) /\ Len(queue) \in Nat /\ DOMAIN queue = 1..Len(queue) /\ Len(queue) > 0
  BY LenProperties, EmptySeq DEF QueueTyped
<1> DEFINE preemptive == {i \in DOMAIN queue : queue[i].kind = "preemptive"}
<1>2. Foremost \in 1..Len(queue)
  <2>1. preemptive \subseteq Nat /\ preemptive \subseteq 1..Len(queue)
    BY <1>1
  <2>2. CASE preemptive = {}
    BY <1>1, <2>2 DEF Foremost
  <2>3. CASE preemptive # {}
    <3>1. Foremost = Least(preemptive)
      BY <2>3 DEF Foremost
    <3>2. Least(preemptive) \in preemptive
      <4> HIDE DEF preemptive
      <4> QED
        BY <2>1, <2>3, LeastOf
    <3> QED
      BY <2>1, <3>1, <3>2
  <2> QED
    BY <2>2, <2>3
<1> QED
  BY <1>1, <1>2, ElementOfSeq

LEMMA Parts ==
  Inv <=> /\ StreamTyped /\ QueueTyped /\ ServerTyped /\ PageTyped /\ budget \in 0..Budget
          /\ Hungup /\ Filling /\ Replaying /\ CaughtUp /\ Chained /\ ShownOnce
  BY DEF Inv, TypeOK, StreamTyped, QueueTyped, ServerTyped, PageTyped, Kept

LEMMA PartsNext ==
  Inv' <=> /\ StreamTyped' /\ QueueTyped' /\ ServerTyped' /\ PageTyped' /\ budget' \in 0..Budget
           /\ Hungup' /\ Filling' /\ Replaying' /\ CaughtUp' /\ Chained' /\ ShownOnce'
  BY DEF Inv, TypeOK, StreamTyped, QueueTyped, ServerTyped, PageTyped, Kept

LEMMA LastIsNat == ASSUME StreamTyped PROVE Last \in Nat
  BY LenProperties DEF StreamTyped, Last

LEMMA ShownUpTo ==
  ASSUME PageTyped, ShownOnce, StreamTyped, NEW k \in cursor..Last, DeliverUpTo(k), loaded' = loaded
  PROVE  ShownOnce' /\ shown' \in [Events -> Nat]
<1>1. /\ cursor \in Nat /\ loaded \in Nat /\ loaded <= cursor /\ k \in Nat /\ cursor <= k
      /\ Events \subseteq Nat /\ shown \in [Events -> Nat]
  BY ReplayAssumption, LastIsNat DEF PageTyped, Events
<1>2. ASSUME NEW s \in Events
      PROVE  shown'[s] \in Nat /\ shown'[s] = IF s \in loaded' + 1 .. cursor' THEN 1 ELSE 0
  <2>1. shown'[s] = IF s \in cursor + 1 .. k THEN shown[s] + 1 ELSE shown[s]
    BY DEF DeliverUpTo
  <2>2. s \in Nat /\ shown[s] = IF s \in loaded + 1 .. cursor THEN 1 ELSE 0
    BY <1>1 DEF ShownOnce
  <2>3. cursor' = k
    BY DEF DeliverUpTo
  <2> QED
    BY <1>1, <2>1, <2>2, <2>3
<1>3. shown' = [s \in Events |-> IF s \in cursor + 1 .. k THEN shown[s] + 1 ELSE shown[s]]
  BY DEF DeliverUpTo
<1> QED
  BY <1>2, <1>3 DEF ShownOnce

------------------------------------------------------------------------------
(* The publisher. *)

\* The stream grows at its end, and may lose any of its events.
LEMMA PersistStep ==
  ASSUME Inv, NEW kind \in Kinds \cup {"domain"}, NEW kept \in SUBSET stored, Persist(kind, kept),
         resets' \subseteq resets \cup {Last + 1},
         UNCHANGED <<queue, server, conn, wire, page, budget>>
  PROVE  Inv'
<1>0. /\ StreamTyped /\ QueueTyped /\ ServerTyped /\ PageTyped /\ budget \in 0..Budget
      /\ Hungup /\ Filling /\ Replaying /\ CaughtUp /\ Chained /\ ShownOnce
  BY Parts
<1>1. /\ Last \in Nat /\ MaxEvents \in Nat /\ Last < MaxEvents /\ Last' = Last + 1
      /\ log' \in Seq(Kinds \cup {"domain"})
  BY <1>0, ReplayAssumption, LastIsNat, AppendProperties, LenProperties
     DEF Persist, StreamTyped, Last
<1>2. /\ stored' \subseteq stored \cup {Last + 1} /\ unpublished' = unpublished \cup {Last + 1}
      /\ stored \subseteq 1..Last
  BY <1>0 DEF Persist, StreamTyped
<1>3. StreamTyped'
  BY <1>0, <1>1, <1>2 DEF StreamTyped
<1>4. QueueTyped'
  <2>1. Kept \subseteq Kept'
    BY <1>1 DEF Kept
  <2> QED
    BY <1>0, <2>1, SeqMonotonic DEF QueueTyped
<1>5. ServerTyped'
  <2>1. 0..Last \subseteq 0..Last' /\ 1..Last \subseteq 1..Last'
    BY <1>1
  <2> QED
    BY <1>0, <2>1 DEF ServerTyped
<1>6. PageTyped' /\ ShownOnce' /\ Filling' /\ Hungup'
  <2>1. 0..Last \subseteq 0..Last' /\ 1..Last \subseteq 1..Last'
    BY <1>1
  <2>2. wire \in Seq(1..Last')
    BY <1>0, <2>1, SeqMonotonic DEF PageTyped
  <2> QED
    BY <1>0, <2>1, <2>2 DEF PageTyped, ShownOnce, Filling, Hungup, page
<1>7. Replaying' /\ CaughtUp'
  <2>1. /\ server.rest \subseteq 1..Last /\ server.held \in 0..Last
        /\ \A r \in server.rest : ~(Last + 1 < r)
    BY <1>0, <1>1 DEF ServerTyped
  <2>2. Replaying'
    BY <1>0, <1>2, <2>1 DEF Replaying
  <2>3. CaughtUp'
    <3>1. \A t \in stored' : t <= server.held => t \in stored
      BY <1>1, <1>2, <2>1
    <3>2. server' = server
      OBVIOUS
    <3> QED
      BY <1>0, <3>1, <3>2 DEF CaughtUp
  <2> QED
    BY <2>2, <2>3
<1>8. Chained'
  <2>1. ASSUME NEW a, NEW b \in 1..Last, Gapless(a, b) 
        PROVE  \A s \in stored' : ~(a < s /\ s < b)
    <3>1. ~(Last + 1 < b)
      BY <1>1
    <3> QED
      BY <1>2, <2>1, <3>1 DEF Gapless
  <2>2. /\ wire \in Seq(1..Last) /\ Len(wire) \in Nat /\ (wire # <<>> => wire[1] \in 1..Last)
        /\ \A i \in 1..(Len(wire) - 1) : wire[i + 1] \in 1..Last
    <3>1. /\ wire \in Seq(1..Last) /\ Len(wire) \in Nat /\ (wire # <<>> => 1 \in 1..Len(wire))
          /\ \A i \in 1..(Len(wire) - 1) : i + 1 \in 1..Len(wire)
      BY <1>0, LenProperties, EmptySeq DEF PageTyped
    <3>2. \A i \in 1..Len(wire) : wire[i] \in 1..Last
      BY <3>1, LenProperties
    <3> QED
      BY <3>1, <3>2
  <2>3. Reached' = Reached /\ wire' = wire /\ server' = server /\ conn' = conn
    BY DEF Reached, page
  <2>4. CASE conn # "open"
    BY <2>3, <2>4 DEF Chained
  <2>5. CASE conn = "open"
    <3>1. ASSUME wire # <<>>
          PROVE  \A s \in stored' : ~(Reached < s /\ s < wire[1])
      BY <1>0, <2>1, <2>2, <2>5, <3>1 DEF Chained
    <3>2. ASSUME NEW i \in 1..(Len(wire) - 1)
          PROVE  \A s \in stored' : ~(wire[i] < s /\ s < wire[i + 1])
      BY <1>0, <2>1, <2>2, <2>5, <3>2 DEF Chained
    <3> QED
      BY <1>0, <2>3, <2>5, <3>1, <3>2 DEF Chained, Gapless
  <2> QED
    BY <2>4, <2>5
<1> QED
  BY <1>0, <1>3, <1>4, <1>5, <1>6, <1>7, <1>8, PartsNext

LEMMA EmitStep == ASSUME Inv, NEW kind \in Kinds, Emit(kind) PROVE Inv'
  BY PersistStep DEF Emit

LEMMA ResetStep == ASSUME Inv, NEW kept \in SUBSET stored, Reset(kept) PROVE Inv'
  BY PersistStep DEF Reset

\* An offer touches nothing but the queue.
LEMMA OfferStep ==
  ASSUME Inv, NEW e \in Kept, queue' = Offered(e), unpublished' \subseteq unpublished,
         UNCHANGED <<log, stored, resets, server, conn, wire, page, budget>>
  PROVE  Inv'
<1>0. /\ StreamTyped /\ QueueTyped /\ ServerTyped /\ PageTyped /\ budget \in 0..Budget
      /\ Hungup /\ Filling /\ Replaying /\ CaughtUp /\ Chained /\ ShownOnce
  BY Parts
<1>1. Last' = Last
  BY DEF Last
<1>2. StreamTyped' /\ QueueTyped'
  BY <1>0, <1>1, OfferedQueue DEF StreamTyped, QueueTyped, Kept
<1>3. ServerTyped' /\ PageTyped' /\ Hungup' /\ Filling' /\ ShownOnce'
  BY <1>0, <1>1 DEF ServerTyped, PageTyped, Hungup, Filling, ShownOnce, page
<1>4. Replaying' /\ CaughtUp' /\ Chained'
  BY <1>0 DEF Replaying, CaughtUp, Chained, Reached, Gapless, page
<1> QED
  BY <1>0, <1>2, <1>3, <1>4, PartsNext

LEMMA PublishStep == ASSUME Inv, NEW s \in unpublished, Publish(s) PROVE Inv'
<1>1. s \in 1..Last /\ log \in Seq(Kinds \cup {"domain"}) /\ Last \in Nat
  BY Parts, LastIsNat DEF StreamTyped
<1>2. [seq |-> s, kind |-> log[s]] \in Kept
  <2>1. log[s] \in Kinds \cup {"domain"}
    BY <1>1, ElementOfSeq DEF Last
  <2> QED
    BY <1>1, <2>1 DEF Kept
<1> QED
  BY <1>2, OfferStep DEF Publish

LEMMA EphemeralStep == ASSUME Inv, PublishEphemeral PROVE Inv'
<1>1. Last \in Nat
  BY Parts, LastIsNat
<1>2. [seq |-> 0, kind |-> "telemetry"] \in Kept
  BY <1>1 DEF Kept
<1> QED
  BY <1>2, OfferStep DEF PublishEphemeral, stream

------------------------------------------------------------------------------
(* The handler of the socket. *)

LEMMA Numbers ==
  ASSUME Inv
  PROVE  /\ Last \in Nat /\ stored \subseteq Nat /\ server.last \in 0..Last
         /\ server.rest \subseteq 1..Last /\ server.held \in 0..Last
         /\ Reached \in 0..Last /\ cursor \in 0..Last /\ want \in 0..Last
         /\ wire \in Seq(1..Last) /\ Len(wire) \in Nat
         /\ \A i \in 1..Len(wire) : wire[i] \in 1..Last
<1>0. StreamTyped /\ ServerTyped /\ PageTyped
  BY Parts
<1>1. Last \in Nat /\ stored \subseteq 1..Last
  BY <1>0, LastIsNat DEF StreamTyped
<1>2. /\ server.last \in 0..Last /\ server.rest \subseteq 1..Last /\ server.held \in 0..Last
  BY <1>0 DEF ServerTyped
<1>3. Reached \in 0..Last /\ cursor \in 0..Last /\ want \in 0..Last /\ wire \in Seq(1..Last)
  BY <1>0 DEF PageTyped, Reached
<1>4. Len(wire) \in Nat /\ \A i \in 1..Len(wire) : wire[i] \in 1..Last
  BY <1>3, LenProperties
<1> QED
  BY <1>1, <1>2, <1>3, <1>4

\* The event that is sent continues what was sent before.
LEMMA Sent ==
  ASSUME Inv, NEW s \in 1..Last, server.last < s, Gapless(server.last, s),
         Send(s), server'.last = s, UNCHANGED <<stream, conn, page>>
  PROVE  Chained' /\ wire' \in Seq(1..Last)
<1>0. Chained
  BY Parts
<1> DEFINE n == Len(wire)
<1>1. /\ wire' \in Seq(1..Last) /\ wire' # <<>> /\ Len(wire') = n + 1
      /\ (\A i \in 1..n : wire'[i] = wire[i]) /\ wire'[n + 1] = s
  BY Numbers, AppendProperties DEF Send
<1>2. /\ n \in Nat /\ (\A i \in 1..n : wire[i] \in Nat) /\ (wire # <<>> => n # 0)
      /\ server.last \in Nat /\ s \in Nat /\ Reached \in Nat /\ stored \subseteq Nat
  BY Numbers, EmptySeq
<1>3. Reached' = Reached /\ stored' = stored /\ conn' = conn
  BY DEF Reached, page, stream
<1> HIDE DEF n
<1>4. ASSUME conn = "open" PROVE Gapless(Reached, wire'[1])
  <2>1. CASE wire = <<>>
    <3>1. server.last <= Reached /\ wire'[1] = s
      BY <1>0, <1>1, <1>4, <2>1, EmptySeq DEF Chained, n
    <3> QED
      BY <1>2, <3>1 DEF Gapless
  <2>2. CASE wire # <<>>
    BY <1>0, <1>1, <1>2, <1>4, <2>2 DEF Chained
  <2> QED
    BY <2>1, <2>2
<1>5. ASSUME conn = "open", NEW i \in 1..n
      PROVE  wire'[i] < wire'[i + 1] /\ Gapless(wire'[i], wire'[i + 1])
  <2>1. CASE i = n
    <3>1. wire # <<>>
      BY <1>2, <1>5, EmptySeq DEF n
    <3> QED
      BY <1>0, <1>1, <1>2, <1>5, <2>1, <3>1 DEF Chained, n
  <2>2. CASE i # n
    <3>1. i \in 1..(n - 1) /\ i + 1 \in 1..n
      BY <1>2, <1>5, <2>2
    <3> QED
      BY <1>0, <1>1, <1>5, <3>1 DEF Chained, n
  <2> QED
    BY <2>1, <2>2
<1>6. Chained'
  <2>1. server'.last = wire'[Len(wire')]
    BY <1>1
  <2>2. Len(wire') - 1 = n
    BY <1>1, <1>2
  <2> QED
    BY <1>1, <1>3, <1>4, <1>5, <2>1, <2>2 DEF Chained, Gapless
<1> QED
  BY <1>1, <1>6

\* A step of the handler: its own state, the wire and the queue.
LEMMA HandlerStep ==
  ASSUME Inv, server.stage # "off", conn' = conn, UNCHANGED <<stream, page, budget>>,
         ServerTyped', QueueTyped', Replaying', CaughtUp', Chained', wire' \in Seq(1..Last)
  PROVE  Inv'
<1>0. StreamTyped /\ PageTyped /\ budget \in 0..Budget /\ Hungup /\ Filling /\ ShownOnce
  BY Parts
<1>1. Last' = Last
  BY DEF Last, stream
<1>2. StreamTyped' /\ PageTyped'
  BY <1>0, <1>1 DEF StreamTyped, PageTyped, stream, page
<1>3. Hungup' /\ Filling' /\ ShownOnce'
  <2>1. conn # "down"
    BY <1>0 DEF Hungup, Off
  <2> QED
    BY <1>0, <2>1 DEF Hungup, Filling, ShownOnce, page
<1> QED
  BY <1>0, <1>2, <1>3, PartsNext

LEMMA ReadStep == ASSUME Inv, ServerRead PROVE Inv'
<1> DEFINE events == ReadStream(server.last)
<1>0. StreamTyped /\ QueueTyped /\ ServerTyped /\ Chained
  BY Parts
<1>1. /\ server.stage = "read"
      /\ server' = [server EXCEPT !.stage = IF events = {} THEN "resume" ELSE "send",
                                  !.rest = events, !.more = Cardinality(events) = PageLimit]
      /\ UNCHANGED <<stream, queue, conn, wire, page, budget>>
  BY DEF ServerRead
<1>2. /\ events \subseteq {s \in stored : s > server.last}
      /\ \A s \in events, t \in stored : server.last < t /\ t < s => t \in events
      /\ Cardinality(events) # PageLimit \/ events = {} =>
            events = {s \in stored : s > server.last}
  <2>1. server.last \in Nat
    BY Numbers
  <2> QED
    BY <1>0, <2>1, PageOfStream
<1> HIDE DEF events
<1>3. /\ server'.stage = IF events = {} THEN "resume" ELSE "send"
      /\ server'.rest = events /\ server'.more = (Cardinality(events) = PageLimit)
      /\ server'.last = server.last /\ server'.held = server.held
  BY <1>0, <1>1 DEF ServerTyped
<1>4. Last' = Last /\ stored' = stored /\ Reached' = Reached
  BY <1>1 DEF Last, stream, Reached, page
<1>5. ServerTyped' /\ QueueTyped'
  <2>1. events \in SUBSET (1..Last)
    BY <1>0, <1>2 DEF StreamTyped
  <2> QED
    BY <1>0, <1>1, <1>4, <2>1 DEF ServerTyped, QueueTyped, Kept
<1>6. Replaying' /\ CaughtUp'
  <2>1. Replaying'
    BY <1>2, <1>3, <1>4 DEF Replaying
  <2>2. CaughtUp'
    <3>1. server'.stage = "resume" \/ ~server'.more => events = {s \in stored : s > server.last}
      BY <1>2, <1>3
    <3> QED
      BY <1>3, <1>4, <3>1, Numbers DEF CaughtUp
  <2> QED
    BY <2>1, <2>2
<1>7. Chained'
  BY <1>0, <1>1, <1>3, <1>4 DEF Chained, Gapless
<1>8. wire' \in Seq(1..Last)
  BY <1>1, Numbers
<1> QED
  BY <1>1, <1>5, <1>6, <1>7, <1>8, HandlerStep

LEMMA SendNextStep == ASSUME Inv, ServerSendNext PROVE Inv'
<1> DEFINE s == Least(server.rest)
<1>0. StreamTyped /\ QueueTyped /\ ServerTyped /\ Replaying /\ CaughtUp
  BY Parts
<1>1. /\ server.stage = "send" /\ Send(s)
      /\ server' = [server EXCEPT !.last = s, !.rest = @ \ {s},
                                  !.stage = IF server.rest # {s} THEN "send"
                                            ELSE IF server.more THEN "read" ELSE "resume"]
      /\ UNCHANGED <<stream, queue, conn, page, budget>>
  BY DEF ServerSendNext
<1>2. /\ s \in server.rest /\ \A t \in server.rest : s <= t
      /\ s \in 1..Last /\ server.last < s
  <2>1. server.rest # {} /\ server.rest \subseteq Nat /\ server.rest \subseteq 1..Last
    BY <1>0, <1>1, Numbers DEF Replaying
  <2>2. s \in server.rest /\ \A t \in server.rest : s <= t
    BY <2>1, LeastOf
  <2> QED
    BY <1>0, <2>1, <2>2, Numbers DEF Replaying
<1> HIDE DEF s
<1>3. /\ server'.last = s /\ server'.rest = server.rest \ {s}
      /\ server'.stage = IF server.rest # {s} THEN "send"
                         ELSE IF server.more THEN "read" ELSE "resume"
      /\ server'.more = server.more /\ server'.held = server.held
  BY <1>0, <1>1 DEF ServerTyped
<1>4. Gapless(server.last, s)
  BY <1>0, <1>2, Numbers DEF Replaying, Gapless
<1>5. Chained' /\ wire' \in Seq(1..Last)
  BY <1>1, <1>2, <1>3, <1>4, Sent
<1>6. Last' = Last /\ stored' = stored
  BY <1>1 DEF Last, stream
<1>7. ServerTyped' /\ QueueTyped'
  <2>1. QueueTyped'
    BY <1>0, <1>1, <1>6 DEF QueueTyped, Kept
  <2>2. s \in 0..Last /\ server.rest \ {s} \in SUBSET (1..Last)
    BY <1>2, Numbers
  <2>3. ServerTyped'
    BY <1>0, <1>1, <1>6, <2>2 DEF ServerTyped
  <2> QED
    BY <2>1, <2>3
<1>8. Replaying'
  <2>1. server'.stage = "send" <=> server'.rest # {}
    BY <1>2, <1>3
  <2>2. \A r \in server'.rest : r > s
    BY <1>2, <1>3, Numbers
  <2>3. \A r \in server'.rest, t \in stored : s < t /\ t < r => t \in server'.rest
    BY <1>0, <1>2, <1>3, Numbers DEF Replaying
  <2> QED
    BY <1>3, <1>6, <2>1, <2>2, <2>3 DEF Replaying
<1>9. CaughtUp'
  <2>1. SUFFICES ASSUME ~server.more, NEW t \in stored, t <= server.held
                 PROVE  t <= s \/ t \in server.rest \ {s}
    BY <1>3, <1>6 DEF CaughtUp
  <2>2. t <= server.last \/ t \in server.rest
    BY <1>0, <1>1, <2>1 DEF CaughtUp
  <2> QED
    BY <1>2, <2>2, Numbers
<1> QED
  BY <1>1, <1>5, <1>7, <1>8, <1>9, HandlerStep

LEMMA ResumeStep == ASSUME Inv, ServerResume PROVE Inv'
<1>0. StreamTyped /\ QueueTyped /\ ServerTyped /\ Replaying /\ CaughtUp /\ Chained
  BY Parts
<1>1. /\ server.stage = "resume"
      /\ IF server.held > server.last THEN Send(server.held) ELSE UNCHANGED wire
      /\ server' = [server EXCEPT !.stage = "live", !.held = 0,
                                  !.last = IF server.held > @ THEN server.held ELSE @]
      /\ UNCHANGED <<stream, queue, conn, page, budget>>
  BY DEF ServerResume
<1>2. /\ server'.last = IF server.held > server.last THEN server.held ELSE server.last
      /\ server'.stage = "live" /\ server'.rest = server.rest /\ server.rest = {}
  BY <1>0, <1>1 DEF ServerTyped, Replaying
<1>3. Last' = Last /\ stored' = stored /\ Reached' = Reached
  BY <1>1 DEF Last, stream, Reached, page
<1>4. ServerTyped' /\ QueueTyped'
  <2>1. QueueTyped'
    BY <1>0, <1>1, <1>3 DEF QueueTyped, Kept
  <2>2. server'.last \in 0..Last /\ 0 \in 0..Last
    BY <1>2, Numbers
  <2>3. ServerTyped'
    BY <1>0, <1>1, <1>3, <2>2 DEF ServerTyped
  <2> QED
    BY <2>1, <2>3
<1>5. Replaying' /\ CaughtUp'
  BY <1>2 DEF Replaying, CaughtUp
<1>6. CASE server.held > server.last
  <2>1. server.held \in 1..Last /\ Gapless(server.last, server.held)
    BY <1>0, <1>1, <1>2, <1>6, Numbers DEF CaughtUp, Gapless
  <2>2. Chained' /\ wire' \in Seq(1..Last)
    BY <1>1, <1>2, <1>6, <2>1, Numbers, Sent
  <2> QED
    BY <1>1, <1>4, <1>5, <2>2, HandlerStep
<1>7. CASE ~(server.held > server.last)
  <2>1. Chained' /\ wire' \in Seq(1..Last)
    BY <1>0, <1>1, <1>2, <1>3, <1>7, Numbers DEF Chained, Gapless
  <2> QED
    BY <1>1, <1>4, <1>5, <2>1, HandlerStep
<1> QED
  BY <1>6, <1>7

LEMMA ReceiveStep == ASSUME Inv, ServerReceive PROVE Inv'
<1> DEFINE s == queue[Foremost].seq
<1>0. StreamTyped /\ QueueTyped /\ ServerTyped /\ Replaying /\ CaughtUp /\ Chained
  BY Parts
<1>1. /\ server.stage = "live" /\ queue # <<>> /\ queue' = Without(queue, Foremost)
      /\ UNCHANGED <<stream, conn, page, budget>>
  BY DEF ServerReceive
<1>2. \/ UNCHANGED <<server, wire>>
      \/ s = server.last + 1 /\ Send(s) /\ server' = [server EXCEPT !.last = s]
      \/ server' = [server EXCEPT !.stage = "read", !.held = s] /\ UNCHANGED wire
  BY DEF ServerReceive
<1>3. Foremost \in 1..Len(queue) /\ s \in 0..Last
  BY <1>0, <1>1, ForemostOf DEF Kept
<1> HIDE DEF s
<1>4. Last' = Last /\ stored' = stored /\ Reached' = Reached
  BY <1>1 DEF Last, stream, Reached, page
<1>5. QueueTyped'
  <2>1. Without(queue, Foremost) \in Seq(Kept) /\ Len(Without(queue, Foremost)) = Len(queue) - 1
    BY <1>0, <1>3, WithoutOne DEF QueueTyped
  <2>2. Len(queue) \in Nat /\ QueueSize \in Nat
    BY <1>0, ReplayAssumption, LenProperties DEF QueueTyped
  <2>3. Kept' = Kept
    BY <1>4 DEF Kept
  <2> QED
    BY <1>0, <1>1, <2>1, <2>2, <2>3 DEF QueueTyped
<1>6. server.rest = {}
  BY <1>0, <1>1 DEF Replaying
<1>7. CASE UNCHANGED <<server, wire>>
  <2>1. ServerTyped' /\ Replaying' /\ CaughtUp' /\ Chained' /\ wire' \in Seq(1..Last)
    BY <1>0, <1>1, <1>4, <1>7, Numbers
       DEF ServerTyped, Replaying, CaughtUp, Chained, Gapless
  <2> QED
    BY <1>1, <1>5, <2>1, HandlerStep
<1>8. CASE s = server.last + 1 /\ Send(s) /\ server' = [server EXCEPT !.last = s]
  <2>1. server'.last = s /\ server'.stage = "live" /\ server'.rest = {}
    BY <1>0, <1>1, <1>6, <1>8 DEF ServerTyped
  <2>2. s \in 1..Last /\ server.last < s /\ Gapless(server.last, s)
    BY <1>3, <1>8, Numbers DEF Gapless
  <2>3. Chained' /\ wire' \in Seq(1..Last)
    BY <1>1, <1>8, <2>1, <2>2, Sent
  <2>4. ServerTyped' /\ Replaying' /\ CaughtUp'
    BY <1>0, <1>3, <1>4, <1>8, <2>1 DEF ServerTyped, Replaying, CaughtUp
  <2> QED
    BY <1>1, <1>5, <2>3, <2>4, HandlerStep
<1>9. CASE server' = [server EXCEPT !.stage = "read", !.held = s] /\ UNCHANGED wire
  <2>1. server'.last = server.last /\ server'.stage = "read" /\ server'.rest = {}
    BY <1>0, <1>6, <1>9 DEF ServerTyped
  <2>2. Chained' /\ wire' \in Seq(1..Last)
    BY <1>0, <1>1, <1>4, <1>9, <2>1, Numbers DEF Chained, Gapless
  <2>3. ServerTyped' /\ Replaying' /\ CaughtUp'
    BY <1>0, <1>3, <1>4, <1>9, <2>1 DEF ServerTyped, Replaying, CaughtUp
  <2> QED
    BY <1>1, <1>5, <2>2, <2>3, HandlerStep
<1> QED
  BY <1>2, <1>7, <1>8, <1>9

------------------------------------------------------------------------------
(* The page. *)

\* Whatever ends a connection leaves nothing of it.
LEMMA HangupStep ==
  ASSUME Inv, Hangup, StreamTyped', Last' = Last, budget' \in 0..Budget,
         loaded' \in 0..cursor', cursor' \in 0..Last, shown' \in [Events -> Nat], ShownOnce'
  PROVE  Inv'
<1>1. conn' = "down" /\ server' = Off /\ queue' = <<>> /\ wire' = <<>> /\ want' = 0
  BY DEF Hangup
<1>2. Last \in Nat /\ QueueSize \in Nat
  BY ReplayAssumption, Numbers
<1>3. server'.stage = "off" /\ server'.rest = {} /\ server'.last = 0
  BY <1>1 DEF Off
<1>4. QueueTyped'
  BY <1>1, <1>2, EmptySeq DEF QueueTyped
<1>5. ServerTyped'
  BY <1>1, <1>2 DEF ServerTyped, Off
<1>6. PageTyped'
  BY <1>1, <1>2, EmptySeq DEF PageTyped
<1>7. Hungup' /\ Filling'
  BY <1>1 DEF Hungup, Filling, Off
<1>8. Replaying' /\ CaughtUp' /\ Chained'
  BY <1>1, <1>3 DEF Replaying, CaughtUp, Chained
<1> QED
  BY <1>4, <1>5, <1>6, <1>7, <1>8, PartsNext

LEMMA ConnectStep == ASSUME Inv, Connect PROVE Inv'
<1>0. /\ StreamTyped /\ QueueTyped /\ ServerTyped /\ PageTyped /\ budget \in 0..Budget
      /\ Hungup /\ ShownOnce
  BY Parts
<1>1. /\ conn = "down" /\ conn' = "open"
      /\ server' = [Off EXCEPT !.stage = "read", !.last = cursor]
      /\ UNCHANGED <<stream, queue, wire, page, budget>>
  BY DEF Connect
<1>2. wire = <<>> /\ want = 0
  BY <1>0, <1>1 DEF Hungup
<1>3. server'.stage = "read" /\ server'.rest = {} /\ server'.last = cursor
  BY <1>1 DEF Off
<1>4. Last' = Last
  BY <1>1 DEF Last, stream
<1>5. StreamTyped' /\ QueueTyped' /\ ShownOnce'
  BY <1>0, <1>1, <1>4 DEF StreamTyped, QueueTyped, Kept, ShownOnce, stream, page
<1>6. ServerTyped'
  <2>1. server' = [stage |-> "read", last |-> cursor, rest |-> {}, more |-> FALSE, held |-> 0]
    BY <1>1 DEF Off
  <2>2. cursor \in 0..Last /\ 0 \in 0..Last
    BY Numbers
  <2> QED
    BY <1>4, <2>1, <2>2 DEF ServerTyped
<1>7. PageTyped' /\ Hungup' /\ Filling'
  BY <1>0, <1>1, <1>2, <1>4 DEF PageTyped, Hungup, Filling, page
<1>8. Replaying' /\ CaughtUp'
  BY <1>3 DEF Replaying, CaughtUp
<1>9. Chained'
  <2>1. wire' = <<>> /\ Len(wire') = 0 /\ cursor' = cursor /\ want' = 0 /\ cursor \in Nat
    BY <1>1, <1>2, Numbers, EmptySeq DEF page
  <2> QED
    BY <1>3, <2>1 DEF Chained, Reached
<1> QED
  BY <1>0, <1>1, <1>5, <1>6, <1>7, <1>8, <1>9, PartsNext

\* A step of the page on its connection: the cursor, the gap and what is under way.
LEMMA PageMoves ==
  ASSUME Inv, conn # "down", conn' \in {"open", "closing"},
         UNCHANGED <<stream, queue, server, loaded, budget>>,
         cursor' \in cursor..Last, shown' \in [Events -> Nat], ShownOnce',
         wire' \in Seq(1..Last), want' \in 0..Last, Filling', Chained'
  PROVE  Inv'
<1>0. /\ StreamTyped /\ QueueTyped /\ ServerTyped /\ PageTyped /\ budget \in 0..Budget
      /\ Replaying /\ CaughtUp
  BY Parts
<1>1. Last' = Last
  BY DEF Last, stream
<1>2. StreamTyped' /\ QueueTyped' /\ ServerTyped'
  BY <1>0, <1>1 DEF StreamTyped, QueueTyped, Kept, ServerTyped, stream
<1>3. PageTyped'
  BY <1>0, <1>1, Numbers DEF PageTyped
<1>4. Hungup' /\ Replaying' /\ CaughtUp'
  BY <1>0 DEF Hungup, Replaying, CaughtUp, stream
<1> QED
  BY <1>0, <1>2, <1>3, <1>4, PartsNext

LEMMA ConsumeStep == ASSUME Inv, Consume PROVE Inv'
<1> DEFINE s == Head(wire)
           n == Len(wire)
<1>0. StreamTyped /\ PageTyped /\ Chained /\ Filling /\ ShownOnce
  BY Parts
<1>1. /\ conn # "down" /\ want = 0 /\ wire # <<>> /\ wire' = Tail(wire)
      /\ UNCHANGED <<stream, queue, server, conn, loaded, budget>>
  BY DEF Consume
<1>2. \/ s <= cursor /\ UNCHANGED <<cursor, shown, want>>
      \/ s = cursor + 1 /\ DeliverUpTo(s) /\ UNCHANGED want
      \/ ~(s <= cursor) /\ want' = s /\ UNCHANGED <<cursor, shown>>
  BY DEF Consume
<1>3. /\ n \in Nat /\ n # 0 /\ s = wire[1] /\ s \in 1..Last /\ wire' \in Seq(1..Last)
      /\ Len(wire') = n - 1 /\ \A i \in 1..(n - 1) : wire'[i] = wire[i + 1]
  BY <1>1, Numbers, HeadTailProperties, EmptySeq
<1>4. /\ Last \in Nat /\ cursor \in Nat /\ cursor <= Last /\ stored \subseteq Nat
      /\ server.last \in Nat /\ Reached = cursor /\ \A i \in 1..n : wire[i] \in Nat
  BY <1>1, Numbers DEF Reached
<1>5. conn' \in {"open", "closing"}
  BY <1>0, <1>1 DEF PageTyped
<1> HIDE DEF s, n
<1>6. /\ cursor' \in cursor..Last /\ shown' \in [Events -> Nat] /\ ShownOnce'
      /\ want' \in 0..Last /\ Filling' /\ s <= Reached' /\ Reached' \in Nat
      /\ (cursor <= s => Reached' = s) /\ (s <= cursor => Reached' = cursor)
  <2>1. CASE s <= cursor /\ UNCHANGED <<cursor, shown, want>>
    BY <1>0, <1>1, <1>3, <1>4, <2>1 DEF PageTyped, ShownOnce, Filling, Reached
  <2>2. CASE s = cursor + 1 /\ DeliverUpTo(s) /\ UNCHANGED want
    <3>1. s \in cursor..Last /\ loaded' = loaded /\ cursor' = s
      BY <1>1, <1>3, <1>4, <2>2 DEF DeliverUpTo
    <3>2. ShownOnce' /\ shown' \in [Events -> Nat]
      BY <1>0, <2>2, <3>1, ShownUpTo
    <3> QED
      BY <1>1, <1>3, <1>4, <2>2, <3>1, <3>2 DEF Filling, Reached
  <2>3. CASE ~(s <= cursor) /\ want' = s /\ UNCHANGED <<cursor, shown>>
    BY <1>0, <1>1, <1>3, <1>4, <2>3 DEF PageTyped, ShownOnce, Filling, Reached
  <2> QED
    BY <1>2, <2>1, <2>2, <2>3
<1>7. stored' = stored /\ server' = server /\ conn' = conn
  BY <1>1 DEF stream
<1>8. ASSUME conn = "open" PROVE /\ wire' = <<>> => server.last <= Reached'
                                 /\ wire' # <<>> => /\ server.last = wire'[Len(wire')]
                                                    /\ Gapless(Reached', wire'[1])
  <2>1. CASE n = 1
    <3>1. wire' = <<>> /\ server.last = s
      BY <1>0, <1>1, <1>3, <1>8, <2>1, EmptySeq DEF Chained, n
    <3> QED
      BY <1>3, <1>4, <1>6, <3>1
  <2>2. CASE n # 1
    <3>1. 1 \in 1..(n - 1) /\ n - 1 \in 1..(n - 1) /\ wire'[1] = wire[2] /\ wire'[n - 1] = wire[n]
      BY <1>3, <2>2
    <3>2. wire' # <<>>
      BY <1>3, <2>2, EmptySeq
    <3>3. server.last = wire[n] /\ Gapless(s, wire[2])
      BY <1>0, <1>1, <1>3, <1>8, <3>1 DEF Chained, n
    <3>4. server.last = wire'[Len(wire')]
      BY <1>3, <3>1, <3>3
    <3>5. Gapless(Reached', wire[2])
      BY <1>3, <1>4, <1>6, <3>3 DEF Gapless
    <3> QED
      BY <3>1, <3>2, <3>4, <3>5
  <2> QED
    BY <2>1, <2>2
<1>9. ASSUME conn = "open", NEW i \in 1..(n - 2)
      PROVE  wire'[i] < wire'[i + 1] /\ Gapless(wire'[i], wire'[i + 1])
  <2>1. i \in 1..(n - 1) /\ i + 1 \in 1..(n - 1)
    BY <1>3, <1>9
  <2>2. wire'[i] = wire[i + 1] /\ wire'[i + 1] = wire[(i + 1) + 1]
    BY <1>3, <2>1
  <2> QED
    BY <1>0, <1>9, <2>1, <2>2 DEF Chained, n
<1>10. Chained'
  <2>1. Len(wire') - 1 = n - 2
    BY <1>3
  <2> QED
    BY <1>7, <1>8, <1>9, <2>1 DEF Chained, Gapless
<1> QED
  BY <1>1, <1>3, <1>5, <1>6, <1>10, PageMoves

LEMMA FillGapStep == ASSUME Inv, FillGap PROVE Inv'
<1> DEFINE events == ReadStream(cursor)
<1>0. StreamTyped /\ PageTyped /\ Chained /\ Filling /\ ShownOnce /\ Hungup
  BY Parts
<1>1. want # 0 /\ UNCHANGED <<stream, queue, server, wire, loaded, budget>>
  BY DEF FillGap
<1>2. PICK reached \in cursor..Last :
         LET broken == events = {} \/ \E s \in events : s > reached
         IN  /\ DeliverUpTo(IF ~broken /\ want = reached + 1 THEN want ELSE reached)
             /\ conn' = IF broken THEN "closing" ELSE conn
             /\ want' = IF ~broken /\ want > reached + 1 THEN want ELSE 0
  BY DEF FillGap
<1> HIDE DEF events
<1>3. PICK broken \in BOOLEAN :
         /\ DeliverUpTo(IF ~broken /\ want = reached + 1 THEN want ELSE reached)
         /\ conn' = IF broken THEN "closing" ELSE conn
         /\ want' = IF ~broken /\ want > reached + 1 THEN want ELSE 0
  BY <1>2
<1>4. /\ Last \in Nat /\ cursor \in Nat /\ want \in Nat /\ want <= Last /\ cursor < want
      /\ reached \in Nat /\ cursor <= reached /\ reached <= Last /\ Reached = want
      /\ stored \subseteq Nat /\ server.last \in Nat /\ \A i \in 1..Len(wire) : wire[i] \in Nat
  BY <1>0, <1>1, Numbers DEF Filling, Reached
<1>5. conn # "down" /\ conn' \in {"open", "closing"}
  BY <1>0, <1>1, <1>3 DEF Hungup, PageTyped
<1>6. /\ cursor' = IF ~broken /\ want = reached + 1 THEN want ELSE reached
      /\ cursor' \in cursor..Last
  BY <1>3, <1>4 DEF DeliverUpTo
<1>7. ShownOnce' /\ shown' \in [Events -> Nat]
  <2> DEFINE k == IF ~broken /\ want = reached + 1 THEN want ELSE reached
  <2>1. k \in cursor..Last /\ DeliverUpTo(k)
    BY <1>3, <1>4
  <2> HIDE DEF k
  <2> QED
    BY <1>0, <1>1, <2>1, ShownUpTo
<1>8. want' \in 0..Last /\ Filling'
  BY <1>3, <1>4, <1>6 DEF Filling
<1>9. Chained'
  <2>1. SUFFICES ASSUME conn' = "open" PROVE Chained'
    BY DEF Chained
  <2>2. ~broken /\ conn = "open"
    BY <1>3, <2>1
  <2>3. Reached <= Reached' /\ Reached' \in Nat
    BY <1>3, <1>4, <1>6, <2>2 DEF Reached
  <2>4. wire' = wire /\ server' = server /\ stored' = stored
    BY <1>1 DEF stream
  <2>5. wire = <<>> => server.last <= Reached'
    BY <1>0, <1>4, <2>2, <2>3 DEF Chained
  <2>6. wire # <<>> => server.last = wire[Len(wire)] /\ Gapless(Reached', wire[1])
    <3>1. ASSUME wire # <<>> PROVE wire[1] \in Nat
      BY <1>4, <3>1, Numbers, EmptySeq
    <3> QED
      BY <1>0, <1>4, <2>2, <2>3, <3>1 DEF Chained, Gapless
  <2> QED
    BY <1>0, <2>2, <2>4, <2>5, <2>6 DEF Chained, Gapless
<1>10. wire' \in Seq(1..Last)
  BY <1>1, Numbers
<1> QED
  BY <1>1, <1>5, <1>6, <1>7, <1>8, <1>9, <1>10, PageMoves

------------------------------------------------------------------------------
(* The surroundings. *)

LEMMA Spends == ASSUME budget \in 0..Budget, Spend PROVE budget' \in 0..Budget
  BY ReplayAssumption DEF Spend

LEMMA FinishCloseStep == ASSUME Inv, FinishClose PROVE Inv'
<1>0. StreamTyped /\ PageTyped /\ ShownOnce /\ budget \in 0..Budget
  BY Parts
<1>1. Hangup /\ UNCHANGED <<stream, loaded, cursor, shown, budget>>
  BY DEF FinishClose
<1>2. Last' = Last /\ StreamTyped'
  BY <1>0, <1>1 DEF Last, stream, StreamTyped
<1>3. ShownOnce' /\ loaded' \in 0..cursor' /\ cursor' \in 0..Last /\ shown' \in [Events -> Nat]
  BY <1>0, <1>1 DEF ShownOnce, PageTyped
<1> QED
  BY <1>0, <1>1, <1>2, <1>3, HangupStep

LEMMA BreakStep == ASSUME Inv, Break PROVE Inv'
<1>0. /\ StreamTyped /\ QueueTyped /\ ServerTyped /\ PageTyped /\ budget \in 0..Budget
      /\ Hungup /\ Replaying /\ CaughtUp /\ ShownOnce
  BY Parts
<1>1. /\ conn = "open" /\ UNCHANGED <<stream, loaded, cursor, shown>>
      /\ \/ Hangup
         \/ conn' = "closing" /\ want' = 0 /\ UNCHANGED <<queue, server, wire>>
  BY DEF Break
<1>2. budget' \in 0..Budget
  BY <1>0, Spends DEF Break
<1>3. Last' = Last /\ StreamTyped'
  BY <1>0, <1>1 DEF Last, stream, StreamTyped
<1>4. ShownOnce' /\ loaded' \in 0..cursor' /\ cursor' \in 0..Last /\ shown' \in [Events -> Nat]
  BY <1>0, <1>1 DEF ShownOnce, PageTyped
<1>5. CASE Hangup
  BY <1>2, <1>3, <1>4, <1>5, HangupStep
<1>6. CASE conn' = "closing" /\ want' = 0 /\ UNCHANGED <<queue, server, wire>>
  <2>1. QueueTyped' /\ ServerTyped'
    BY <1>0, <1>3, <1>6 DEF QueueTyped, Kept, ServerTyped
  <2>2. PageTyped'
    BY <1>0, <1>1, <1>3, <1>6, Numbers DEF PageTyped
  <2>3. Hungup' /\ Filling' /\ Chained'
    BY <1>6 DEF Hungup, Filling, Chained
  <2>4. Replaying' /\ CaughtUp'
    BY <1>0, <1>1, <1>6 DEF Replaying, CaughtUp, stream
  <2> QED
    BY <1>2, <1>3, <1>4, <2>1, <2>2, <2>3, <2>4, PartsNext
<1> QED
  BY <1>1, <1>5, <1>6

LEMMA RestartStep == ASSUME Inv, Restart PROVE Inv'
<1>0. StreamTyped /\ PageTyped /\ ShownOnce /\ budget \in 0..Budget
  BY Parts
<1>1. Hangup /\ unpublished' = {} /\ UNCHANGED <<log, stored, resets, loaded, cursor, shown>>
  BY DEF Restart
<1>2. budget' \in 0..Budget
  BY <1>0, Spends DEF Restart
<1>3. Last' = Last /\ StreamTyped'
  BY <1>0, <1>1 DEF Last, StreamTyped
<1>4. ShownOnce' /\ loaded' \in 0..cursor' /\ cursor' \in 0..Last /\ shown' \in [Events -> Nat]
  BY <1>0, <1>1 DEF ShownOnce, PageTyped
<1> QED
  BY <1>1, <1>2, <1>3, <1>4, HangupStep

\* A page is loaded from a point of the stream that exists.
LEMMA LoadedWhere ==
  ASSUME Inv, Reload
  PROVE  cursor' \in 0..Last /\ loaded' = cursor' /\ shown' = Nothing /\ Last' = Last
<1>1. Last \in Nat /\ stored \subseteq 1..Last
  BY Parts, LastIsNat DEF StreamTyped
<1>2. PICK c \in {Last} \cup {s - 1 : s \in {t \in stored : \A r \in resets : t > r}} :
         loaded' = c /\ cursor' = c
  BY DEF Reload
<1>3. c \in 0..Last
  BY <1>1
<1>4. shown' = Nothing /\ Last' = Last
  BY DEF Reload, stream, Last
<1> QED
  BY <1>2, <1>3, <1>4

LEMMA ReloadStep == ASSUME Inv, Reload PROVE Inv'
<1>0. StreamTyped /\ budget \in 0..Budget
  BY Parts
<1>1. Hangup /\ UNCHANGED stream
  BY DEF Reload
<1>2. budget' \in 0..Budget
  BY <1>0, Spends DEF Reload
<1>3. cursor' \in 0..Last /\ loaded' = cursor' /\ shown' = Nothing /\ Last' = Last
  BY LoadedWhere
<1>4. StreamTyped'
  BY <1>0, <1>1, <1>3 DEF StreamTyped, stream
<1>5. loaded' \in 0..cursor' /\ shown' \in [Events -> Nat]
  BY <1>3, Numbers DEF Nothing
<1>6. ShownOnce'
  <2>1. \A s \in Events : shown'[s] = 0
    BY <1>3 DEF Nothing
  <2>2. \A s \in Events : s \notin loaded' + 1 .. cursor'
    BY <1>3, Numbers
  <2> QED
    BY <2>1, <2>2 DEF ShownOnce
<1> QED
  BY <1>1, <1>2, <1>3, <1>4, <1>5, <1>6, HangupStep

------------------------------------------------------------------------------
LEMMA InitInv == Init => Inv
<1> SUFFICES ASSUME Init PROVE Inv
  OBVIOUS
<1>1. /\ log = <<>> /\ stored = {} /\ unpublished = {} /\ resets = {} /\ queue = <<>>
      /\ server = Off /\ conn = "down" /\ wire = <<>> /\ loaded = 0 /\ cursor = 0
      /\ shown = Nothing /\ want = 0 /\ budget = Budget
  BY DEF Init
<1>2. Last = 0 /\ MaxEvents \in Nat /\ QueueSize \in Nat /\ Budget \in Nat
  BY <1>1, ReplayAssumption, EmptySeq DEF Last
<1>3. StreamTyped /\ QueueTyped /\ budget \in 0..Budget
  BY <1>1, <1>2, EmptySeq DEF StreamTyped, QueueTyped
<1>4. ServerTyped
  BY <1>1, <1>2 DEF ServerTyped, Off
<1>5. PageTyped
  BY <1>1, <1>2, EmptySeq DEF PageTyped, Nothing
<1>6. Hungup /\ Filling /\ Chained /\ Replaying /\ CaughtUp
  BY <1>1 DEF Hungup, Filling, Chained, Replaying, CaughtUp, Off
<1>7. ShownOnce
  BY <1>1 DEF ShownOnce, Nothing
<1> QED
  BY <1>3, <1>4, <1>5, <1>6, <1>7, Parts

LEMMA StutterStep == ASSUME Inv, UNCHANGED vars PROVE Inv'
<1>1. UNCHANGED <<log, stored, unpublished, resets, queue, server, conn, wire, loaded, cursor,
                  shown, want, budget>>
  BY DEF vars, stream, page
<1>2. TypeOK' /\ ShownOnce'
  BY <1>1 DEF Inv, TypeOK, ShownOnce, Last
<1>3. Hungup' /\ Filling' /\ Replaying' /\ CaughtUp' /\ Chained'
  BY <1>1 DEF Inv, Hungup, Filling, Replaying, CaughtUp, Chained, Reached, Gapless
<1> QED
  BY <1>2, <1>3 DEF Inv

LEMMA NextInv == Inv /\ [Next]_vars => Inv'
<1> SUFFICES ASSUME Inv, [Next]_vars PROVE Inv'
  OBVIOUS
<1>1. CASE \E kind \in Kinds : Emit(kind)
  BY <1>1, EmitStep
<1>2. CASE PublishEphemeral
  BY <1>2, EphemeralStep
<1>3. CASE \E kept \in SUBSET stored : Reset(kept)
  BY <1>3, ResetStep
<1>4. CASE PublisherStep
  BY <1>4, PublishStep DEF PublisherStep
<1>5. CASE ServerStep
  BY <1>5, ReadStep, SendNextStep, ResumeStep, ReceiveStep DEF ServerStep
<1>6. CASE PageStep
  BY <1>6, ConnectStep, ConsumeStep, FillGapStep, FinishCloseStep DEF PageStep
<1>7. CASE Break \/ Restart \/ Reload
  BY <1>7, BreakStep, RestartStep, ReloadStep
<1>8. CASE UNCHANGED vars
  BY <1>8, StutterStep
<1> QED
  BY <1>1, <1>2, <1>3, <1>4, <1>5, <1>6, <1>7, <1>8 DEF Next

LEMMA Invariance == Spec => []Inv
  BY InitInv, NextInv, PTL DEF Spec

------------------------------------------------------------------------------
(* The theorems. *)

\* Type correctness: the queue of a subscription never outgrows its size, no cursor runs
\* ahead of the stream, and what is under way to the page are events of the stream.
THEOREM EventsTyped == Spec => []TypeOK
  BY Invariance, PTL DEF Inv

\* Overflow, preemption, replays of the handler and of the page leave no hole on an open
\* connection but one the page must fill: nothing that is stored is missing there.
THEOREM WireHasNoHoles == Spec => []HolesStemFromResets
<1>1. Inv => HolesStemFromResets
  <2> SUFFICES ASSUME Inv, conn = "open", want = 0, NEW i \in DOMAIN wire
               PROVE  LET before == IF i = 1 THEN cursor ELSE wire[i - 1]
                      IN  /\ i > 1 => before < wire[i]
                          /\ \A s \in before + 1 .. wire[i] - 1 : s \notin stored
    BY DEF HolesStemFromResets
  <2>1. i \in 1..Len(wire) /\ Len(wire) \in Nat /\ wire # <<>> /\ Chained
        /\ stored \subseteq Nat /\ cursor \in Nat /\ Reached = cursor
        /\ \A j \in 1..Len(wire) : wire[j] \in Nat
    BY Parts, Numbers, LenProperties, EmptySeq DEF Reached
  <2>2. CASE i = 1
    <3>1. Gapless(cursor, wire[1]) /\ wire[1] \in Nat
      BY <2>1, <2>2 DEF Chained
    <3> QED
      BY <2>1, <2>2, <3>1 DEF Gapless
  <2>3. CASE i # 1
    <3>1. i - 1 \in 1..(Len(wire) - 1) /\ (i - 1) + 1 = i /\ i - 1 \in 1..Len(wire)
      BY <2>1, <2>3
    <3>2. wire[i - 1] < wire[i] /\ Gapless(wire[i - 1], wire[i])
      BY <2>1, <3>1 DEF Chained
    <3> QED
      BY <2>1, <2>3, <3>1, <3>2 DEF Gapless
  <2> QED
    BY <2>2, <2>3
<1> QED
  BY <1>1, Invariance, PTL

\* What deliverEvent has handed to onEvent since the page was loaded is every event between
\* the loaded cursor and lastSequence, each of them once.
THEOREM EveryEventOnce == Spec => []ShownOnce
  BY Invariance, PTL DEF Inv

LEMMA GivenUpTo ==
  ASSUME Inv, NEW k \in cursor..Last, DeliverUpTo(k), Last' = Last, loaded' = loaded
  PROVE  Feed!Show \/ UNCHANGED <<Last, loaded, cursor, shown>>
<1>1. Last \in Nat /\ cursor \in Nat /\ shown \in [Events -> Nat]
  BY Parts, Numbers DEF PageTyped
<1>2. CASE k = cursor
  <2>1. \A s \in Events : (IF s \in cursor + 1 .. k THEN shown[s] + 1 ELSE shown[s]) = shown[s]
    BY <1>1, <1>2
  <2>2. shown' = [s \in Events |-> shown[s]] /\ cursor' = cursor
    BY <1>2, <2>1 DEF DeliverUpTo
  <2> QED
    BY <1>1, <2>2
<1>3. CASE k # cursor
  <2>1. cursor < Last /\ k \in cursor + 1 .. Last
    BY <1>1, <1>3
  <2> QED
    BY <2>1 DEF Feed!Show, Feed!Events, Events, DeliverUpTo
<1> QED
  BY <1>2, <1>3

LEMMA StepsOfTheFeed == Inv /\ [Next]_vars => [Feed!FeedNext]_(Feed!feedVars)
<1> SUFFICES ASSUME Inv, [Next]_vars
             PROVE  Feed!FeedNext \/ UNCHANGED <<Last, loaded, cursor, shown>>
  BY DEF Feed!feedVars
<1>1. ASSUME NEW kind, NEW kept, Persist(kind, kept), UNCHANGED page PROVE Feed!FeedNext
  <2>1. Last' = Last + 1 /\ Last < MaxEvents
    BY <1>1, Parts, AppendProperties DEF Persist, Last, StreamTyped
  <2> QED
    BY <1>1, <2>1 DEF Feed!FeedNext, Feed!Commit, page
<1>2. CASE \E kind \in Kinds : Emit(kind)
  BY <1>1, <1>2 DEF Emit
<1>3. CASE \E kept \in SUBSET stored : Reset(kept)
  BY <1>1, <1>3 DEF Reset
<1>4. CASE PublishEphemeral \/ PublisherStep \/ ServerStep \/ Connect
  BY <1>4 DEF PublishEphemeral, PublisherStep, Publish, ServerStep, ServerRead, ServerSendNext,
     ServerResume, ServerReceive, Connect, stream, page, Last
<1>5. CASE FinishClose \/ Break \/ Restart
  BY <1>5 DEF FinishClose, Break, Restart, stream, Last
<1>6. CASE Consume
  <2>1. Last' = Last /\ loaded' = loaded
    BY <1>6 DEF Consume, stream, Last
  <2>2. \/ UNCHANGED <<cursor, shown>>
        \/ Head(wire) = cursor + 1 /\ DeliverUpTo(Head(wire))
    BY <1>6 DEF Consume
  <2>3. Head(wire) \in 1..Last /\ cursor \in Nat /\ Last \in Nat
    BY <1>6, Numbers, HeadTailProperties DEF Consume
  <2>4. CASE Head(wire) = cursor + 1 /\ DeliverUpTo(Head(wire))
    <3>1. Head(wire) \in cursor..Last
      BY <2>3, <2>4
    <3> QED
      BY <2>1, <2>4, <3>1, GivenUpTo DEF Feed!FeedNext
  <2> QED
    BY <2>1, <2>2, <2>4
<1>7. CASE FillGap
  <2>1. Last' = Last /\ loaded' = loaded
    BY <1>7 DEF FillGap, stream, Last
  <2>2. PICK reached \in cursor..Last, broken \in BOOLEAN :
           DeliverUpTo(IF ~broken /\ want = reached + 1 THEN want ELSE reached)
    BY <1>7 DEF FillGap
  <2> DEFINE k == IF ~broken /\ want = reached + 1 THEN want ELSE reached
  <2>3. k \in cursor..Last /\ DeliverUpTo(k)
    BY <2>2, Numbers
  <2> HIDE DEF k
  <2> QED
    BY <2>1, <2>3, GivenUpTo DEF Feed!FeedNext
<1>8. CASE Reload
  BY <1>8, LoadedWhere DEF Feed!FeedNext, Feed!Load, Feed!Nothing, Feed!Events, Nothing, Events
<1>9. CASE UNCHANGED vars
  BY <1>9 DEF vars, stream, page, Last
<1> QED
  BY <1>2, <1>3, <1>4, <1>5, <1>6, <1>7, <1>8, <1>9 DEF Next, PageStep

\* The stream that publisher, hub, handler and page make together is the one EventFeed
\* promises: events are committed one by one, and a page is given the next ones in order
\* or is loaded anew, whatever is shed, reordered, replayed or broken on the way.
THEOREM FeedIsImplemented == Spec => ImplementsFeed
<1>1. Init => Feed!FeedInit
  BY EmptySeq DEF Init, Feed!FeedInit, Last, Feed!Nothing, Feed!Events, Nothing, Events
<1> QED
  BY <1>1, StepsOfTheFeed, Invariance, PTL DEF Spec, ImplementsFeed, Feed!FeedSpec
=============================================================================
