---------------------------- MODULE CloudCall_proofs ----------------------------
(***************************************************************************)
(* The safety of CloudCall for any number of utterances and setbacks.  The *)
(* inductive invariant CInv has a part for each promise: what is spoken    *)
(* was joined (Joined), what completes was heard (HeardFirst), what was    *)
(* flushed is not resumed (Silent), and a running row has an owner until   *)
(* the call has closed (Owned).                                            *)
(***************************************************************************)
EXTENDS CloudCall, TLAPS

\* The commit is counted where it is marked, and an ended receipt follows its marker.
Joined ==
    \A g \in Gens : /\ spoke[g] = IF "spoken" \in seg[g] THEN 1 ELSE 0
                    /\ "ended" \in seg[g] => <<g, "buffered">> \in marked

\* The pump works for a generation, and a start of speech has room for one.
Bound ==
    /\ pump.at \notin {"wait", "ending", "dead"} => pump.gen \in Gens
    /\ turn.at \in {"flush", "interrupt", "admit"} => gens < MaxGens

Heard(g) == g \in audio => "spoken" \in seg[g]

\* The mirror knows generations that were admitted, and the one that is being admitted
\* has no past in it.
Fresh ==
    /\ tomb \cup done \cup flushed \subseteq 1..gens /\ active <= gens
    /\ active \notin tomb
    /\ adm \in {"begin", "publish"} =>
          /\ gens # 0 /\ gens # active /\ gens \notin tomb \cup done
          /\ entry.gen \in {0, gens} /\ ~entry.completing

\* A completion has begun only for a reply that was heard or has no audio, and gets none.
HeardFirst ==
    /\ \A g \in notice : "spoken" \in seg[g]
    /\ pump.at \in {"stop", "duration", "marker", "attach"} => pump.gen \in done
    /\ pump.at \in {"listen", "again", "complete"} =>
          Heard(pump.gen) /\ pump.gen \in tomb \cup done
    /\ \A g \in Gens : comp[g] # "none" \/ row[g] = "completed" => Heard(g) /\ g \in tomb \cup done

\* What may still be sent belongs to a generation that was not flushed.
Silent ==
    /\ downstream \cap flushed = {}
    /\ pump.at \in {"register", "frame"} => pump.gen \notin flushed
    /\ turn.at # "join" => adm = "none"
    /\ ~Closing => /\ active \notin flushed
                   /\ adm \in {"begin", "publish"} => gens \notin flushed
                   /\ turn.at # "idle" => active = 0

\* What a closing call has already left behind.
Left ==
    /\ Closing => timers = {}
    /\ closer \notin {"open", "pump"} => pump.at \in {"ending", "dead"}
    /\ closer \in {"admission", "settle", "closed"} => downstream = {}
    /\ closer \in {"settle", "closed"} => active = 0 /\ adm = "none"

\* A running row has a tombstone, the call, or the admission that owns it.
Owned ==
    \A g \in Gens : row[g] = "running" =>
        \/ g \in tomb \/ g = active
        \/ g = gens /\ adm = "publish"
        \/ g = gens /\ adm = "cancel" /\ <<"admit", g>> \in ending

CInv == CTypeOK /\ Bound /\ Joined /\ Fresh /\ HeardFirst /\ Silent /\ Left /\ Owned


------------------------------------------------------------------------------
(* Every step keeps each part of the invariant. *)

LEMMA NoEntryTyped == NoEntry \in [gen : 0..MaxGens, revoked : BOOLEAN, completing : BOOLEAN]
  BY CallAssumption DEF NoEntry

LEMMA TerminateTyped ==
  ASSUME CTypeOK, NEW who \in Askers, NEW g \in Gens, Terminate(who, g)
  PROVE  /\ entry' \in [gen : 0..MaxGens, revoked : BOOLEAN, completing : BOOLEAN]
         /\ ending' \subseteq Askers \X Gens
<1>1. CASE entry.completing
  BY <1>1 DEF CTypeOK, Terminate
<1>2. CASE ~entry.completing
  <2>1. ending' = ending \cup {<<who, g>>} /\ entry' \in {entry, NoEntry}
    BY <1>2 DEF Terminate
  <2> QED
    BY <2>1, NoEntryTyped DEF CTypeOK
<1> QED
  BY <1>1, <1>2

LEMMA BuryTyped ==
  ASSUME CTypeOK, NEW g \in Gens, Bury(g)
  PROVE  tomb' \subseteq Gens /\ active' \in 0..MaxGens /\ UNCHANGED <<audio, done>>
  BY CallAssumption DEF CTypeOK, Bury

LEMMA CompletingTyped ==
  ASSUME CTypeOK, NEW g \in Gens, Completing(g)
  PROVE  comp' \in [Gens -> {"none", "context", "commit"}]
  BY DEF CTypeOK, Completing

LEMMA ConfirmedTyped ==
  ASSUME CTypeOK, NEW g \in Gens, Confirmed(g)
  PROVE  /\ tomb' \subseteq Gens /\ active' \in 0..MaxGens /\ UNCHANGED <<audio, done>>
         /\ timers' \subseteq Gens /\ open' \subseteq Gens
         /\ comp' \in [Gens -> {"none", "context", "commit"}]
<1>1. CASE ~Closing /\ active = g /\ g \in done
  BY <1>1, BuryTyped, CompletingTyped DEF CTypeOK, Confirmed
<1>2. CASE ~(~Closing /\ active = g /\ g \in done)
  BY <1>2 DEF CTypeOK, Confirmed, mirror
<1> QED
  BY <1>1, <1>2

LEMMA JoinTyped ==
  ASSUME CTypeOK, NEW g \in Gens, NEW fact \in Facts, Join(g, fact)
  PROVE  seg' \in [Gens -> SUBSET Facts] /\ spoke' \in [Gens -> Nat]
<1>1. seg[g] \cup {fact} \subseteq Facts /\ seg[g] \cup {fact} \cup {"spoken"} \subseteq Facts
  BY DEF CTypeOK, Facts
<1> QED
  BY <1>1 DEF CTypeOK, Join

LEMMA TypeStep == ASSUME CInv, Next PROVE CTypeOK'
<1>0. CTypeOK /\ Bound /\ Fresh
    BY DEF CInv
<1>1. ASSUME NEW g \in Gens, BeginCompletion(g) PROVE CTypeOK'
  <2>1. entry' \in [gen : 0..MaxGens, revoked : BOOLEAN, completing : BOOLEAN]
      BY <1>0, <1>1 DEF BeginCompletion, CTypeOK, Askers, PumpStates, Facts, Bound, Fresh
  <2>2. comp' \in [Gens -> {"none", "context", "commit"}]
      BY <1>0, <1>1 DEF BeginCompletion, CTypeOK, Askers, PumpStates, Facts, Bound, Fresh
  <2>3. pump' \in [at : PumpStates, gen : 0..MaxGens]
      BY <1>0, <1>1 DEF BeginCompletion, CTypeOK, Askers, PumpStates, Facts, Bound, Fresh
  <2>4. UNCHANGED <<row, ending, active, tomb, audio, done, open, timers, notice, seg, spoke,
                   marked, downstream, flushed, turn, gens, adm, closer, user, budget>>
      BY <1>1 DEF BeginCompletion, callee, conv, mirror, out, play
  <2> QED
      BY <1>0, <2>1, <2>2, <2>3, <2>4 DEF CTypeOK
<1>2. ASSUME NEW g \in Gens, CommitCompletion(g) PROVE CTypeOK'
  <2>1. row' \in [Gens -> {"none", "running", "completed", "cancelled"}]
      BY <1>0, <1>2 DEF CommitCompletion, NoEntry, CTypeOK, Askers, PumpStates, Facts, Bound,
          Fresh
  <2>2. entry' \in [gen : 0..MaxGens, revoked : BOOLEAN, completing : BOOLEAN]
      BY <1>0, <1>2, NoEntryTyped DEF CommitCompletion, CTypeOK
  <2>3. comp' \in [Gens -> {"none", "context", "commit"}]
      BY <1>0, <1>2 DEF CommitCompletion, NoEntry, CTypeOK, Askers, PumpStates, Facts, Bound,
          Fresh
  <2>4. pump' \in [at : PumpStates, gen : 0..MaxGens]
      BY <1>0, <1>2 DEF CommitCompletion, NoEntry, CTypeOK, Askers, PumpStates, Facts, Bound,
          Fresh
  <2>5. UNCHANGED <<ending, active, tomb, audio, done, open, timers, notice, seg, spoke, marked,
                   downstream, flushed, turn, gens, adm, closer, user, budget>>
      BY <1>2 DEF CommitCompletion, callee, conv, mirror, out, play
  <2> QED
      BY <1>0, <2>1, <2>2, <2>3, <2>4, <2>5 DEF CTypeOK
<1>3. ASSUME NEW g \in Gens, Notify(g) PROVE CTypeOK'
  <2>1. comp' \in [Gens -> {"none", "context", "commit"}]
      BY <1>0, <1>3, ConfirmedTyped DEF Notify
  <2>2. active' \in 0..MaxGens
      BY <1>0, <1>3, ConfirmedTyped DEF Notify
  <2>3. tomb' \subseteq Gens
      BY <1>0, <1>3, ConfirmedTyped DEF Notify
  <2>4. audio' \subseteq Gens
      BY <1>0, <1>3 DEF Notify, Bury, Closing, Completing, Confirmed, mirror, CTypeOK, Askers,
          PumpStates, Facts, Bound, Fresh
  <2>5. done' \subseteq Gens
      BY <1>0, <1>3 DEF Notify, Bury, Closing, Completing, Confirmed, mirror, CTypeOK, Askers,
          PumpStates, Facts, Bound, Fresh
  <2>6. notice' \subseteq Gens
      BY <1>0, <1>3 DEF Notify, Bury, Closing, Completing, Confirmed, CTypeOK, Askers,
          PumpStates, Facts, Bound, Fresh
  <2>7. open' \subseteq Gens
      BY <1>0, <1>3, ConfirmedTyped DEF Notify
  <2>8. timers' \subseteq Gens
      BY <1>0, <1>3, ConfirmedTyped DEF Notify
  <2>9. UNCHANGED <<row, entry, ending, pump, seg, spoke, marked, downstream, flushed, turn,
                   gens, adm, closer, user, budget>>
      BY <1>3 DEF Notify, callee, conv, mirror, out, play
  <2> QED
      BY <1>0, <2>1, <2>2, <2>3, <2>4, <2>5, <2>6, <2>7, <2>8, <2>9 DEF CTypeOK
<1>4. ASSUME NEW g \in Gens, NEW who \in Askers, Settle(who, g) PROVE CTypeOK'
  <2>1. row' \in [Gens -> {"none", "running", "completed", "cancelled"}]
      BY <1>0, <1>4 DEF Settle, CTypeOK, Askers, PumpStates, Facts, Bound, Fresh
  <2>2. ending' \subseteq Askers \X Gens
      BY <1>0, <1>4 DEF Settle, CTypeOK, Askers, PumpStates, Facts, Bound, Fresh
  <2>3. UNCHANGED <<entry, comp, active, tomb, audio, done, open, timers, notice, pump, seg,
                   spoke, marked, downstream, flushed, turn, gens, adm, closer, user, budget>>
      BY <1>4 DEF Settle, callee, conv, mirror, out, play
  <2> QED
      BY <1>0, <2>1, <2>2, <2>3 DEF CTypeOK
<1>5. ASSUME Register PROVE CTypeOK'
  <2>1. seg' \in [Gens -> SUBSET Facts]
      BY <1>0, <1>5 DEF Register, To, CTypeOK, Askers, PumpStates, Facts, Bound, Fresh
  <2>2. marked' \subseteq Gens \X {"started", "buffered"}
      BY <1>0, <1>5 DEF Register, To, CTypeOK, Askers, PumpStates, Facts, Bound, Fresh
  <2>3. pump' \in [at : PumpStates, gen : 0..MaxGens]
      BY <1>0, <1>5 DEF Register, To, CTypeOK, Askers, PumpStates, Facts, Bound, Fresh
  <2>4. UNCHANGED <<row, entry, ending, comp, active, tomb, audio, done, open, timers, notice,
                   spoke, downstream, flushed, turn, gens, adm, closer, user, budget>>
      BY <1>5 DEF Register, callee, conv, mirror, out, play
  <2> QED
      BY <1>0, <2>1, <2>2, <2>3, <2>4 DEF CTypeOK
<1>6. ASSUME PushFrame PROVE CTypeOK'
  <2>1. downstream' \subseteq Gens
      BY <1>0, <1>6 DEF PushFrame, To, CTypeOK, Askers, PumpStates, Facts, Bound, Fresh
  <2>2. pump' \in [at : PumpStates, gen : 0..MaxGens]
      BY <1>0, <1>6, CallAssumption DEF Gens, PushFrame, To, CTypeOK, Askers, PumpStates, Facts, Bound, Fresh
  <2>3. UNCHANGED <<row, entry, ending, comp, active, tomb, audio, done, open, timers, notice,
                   seg, spoke, marked, flushed, turn, gens, adm, closer, user, budget>>
      BY <1>6 DEF PushFrame, callee, conv, mirror, out, play
  <2> QED
      BY <1>0, <2>1, <2>2, <2>3 DEF CTypeOK
<1>7. ASSUME FinalizeStop PROVE CTypeOK'
  <2>1. pump' \in [at : PumpStates, gen : 0..MaxGens]
      BY <1>0, <1>7 DEF FinalizeStop, Closing, To, Wanted, CTypeOK, Askers, PumpStates, Facts,
          Bound, Fresh
  <2>2. UNCHANGED <<row, entry, ending, comp, active, tomb, audio, done, open, timers, notice,
                   seg, spoke, marked, downstream, flushed, turn, gens, adm, closer, user, budget>>
      BY <1>7 DEF FinalizeStop, callee, conv, mirror, out, play
  <2> QED
      BY <1>0, <2>1, <2>2 DEF CTypeOK
<1>8. ASSUME FinalizeDuration PROVE CTypeOK'
  <2>1. seg' \in [Gens -> SUBSET Facts]
      BY <1>0, <1>8, JoinTyped DEF FinalizeDuration, Bound, Facts
  <2>2. spoke' \in [Gens -> Nat]
      BY <1>0, <1>8, JoinTyped DEF FinalizeDuration, Bound, Facts
  <2>3. pump' \in [at : PumpStates, gen : 0..MaxGens]
      BY <1>0, <1>8 DEF FinalizeDuration, Closing, Join, MayCommit, To, Wanted, CTypeOK,
          Askers, PumpStates, Facts, Bound, Fresh
  <2>4. UNCHANGED <<row, entry, ending, comp, active, tomb, audio, done, open, timers, notice,
                   marked, downstream, flushed, turn, gens, adm, closer, user, budget>>
      BY <1>8 DEF FinalizeDuration, callee, conv, mirror, out, play
  <2> QED
      BY <1>0, <2>1, <2>2, <2>3, <2>4 DEF CTypeOK
<1>9. ASSUME FinalizeMarker PROVE CTypeOK'
  <2>1. open' \subseteq Gens
      BY <1>0, <1>9 DEF FinalizeMarker, To, CTypeOK, Askers, PumpStates, Facts, Bound, Fresh
  <2>2. marked' \subseteq Gens \X {"started", "buffered"}
      BY <1>0, <1>9 DEF FinalizeMarker, To, CTypeOK, Askers, PumpStates, Facts, Bound, Fresh
  <2>3. pump' \in [at : PumpStates, gen : 0..MaxGens]
      BY <1>0, <1>9 DEF FinalizeMarker, To, CTypeOK, Askers, PumpStates, Facts, Bound, Fresh
  <2>4. UNCHANGED <<row, entry, ending, comp, active, tomb, audio, done, timers, notice, seg,
                   spoke, downstream, flushed, turn, gens, adm, closer, user, budget>>
      BY <1>9 DEF FinalizeMarker, callee, conv, mirror, out, play
  <2> QED
      BY <1>0, <2>1, <2>2, <2>3, <2>4 DEF CTypeOK
<1>10. ASSUME AttachTranscript PROVE CTypeOK'
  <2>1. seg' \in [Gens -> SUBSET Facts]
    <3>1. CASE "registered" \in seg[pump.gen]
      BY <3>1, <1>0, <1>10, JoinTyped DEF AttachTranscript, Bound, Facts
    <3>2. CASE "registered" \notin seg[pump.gen]
      BY <3>2, <1>0, <1>10 DEF AttachTranscript, CTypeOK
    <3> QED
      BY <3>1, <3>2
  <2>2. spoke' \in [Gens -> Nat]
    <3>1. CASE "registered" \in seg[pump.gen]
      BY <3>1, <1>0, <1>10, JoinTyped DEF AttachTranscript, Bound, Facts
    <3>2. CASE "registered" \notin seg[pump.gen]
      BY <3>2, <1>0, <1>10 DEF AttachTranscript, CTypeOK
    <3> QED
      BY <3>1, <3>2
  <2>3. timers' \subseteq Gens
      BY <1>0, <1>10 DEF AttachTranscript, Armed, Closing, Join, MayCommit, To, Wanted,
          CTypeOK, Askers, PumpStates, Facts, Bound, Fresh
  <2>4. pump' \in [at : PumpStates, gen : 0..MaxGens]
    <3>1. \/ pump' = [at |-> "listen", gen |-> pump.gen]
          \/ pump' = [at |-> "wait", gen |-> 0]
        BY <1>10 DEF AttachTranscript, To
    <3>2. pump.gen \in 0..MaxGens /\ 0 \in 0..MaxGens
        BY <1>0, CallAssumption DEF CTypeOK
    <3> QED
        BY <3>1, <3>2 DEF PumpStates
  <2>5. UNCHANGED <<row, entry, ending, comp, active, tomb, audio, done, open, notice, marked,
                   downstream, flushed, turn, gens, adm, closer, user, budget>>
      BY <1>10 DEF AttachTranscript, callee, conv, mirror, out, play
  <2> QED
      BY <1>0, <2>1, <2>2, <2>3, <2>4, <2>5 DEF CTypeOK
<1>11. ASSUME PumpConfirms PROVE CTypeOK'
  <2>1. comp' \in [Gens -> {"none", "context", "commit"}]
      BY <1>0, <1>11, ConfirmedTyped DEF PumpConfirms, Bound
  <2>2. active' \in 0..MaxGens
      BY <1>0, <1>11, ConfirmedTyped DEF PumpConfirms, Bound
  <2>3. tomb' \subseteq Gens
      BY <1>0, <1>11, ConfirmedTyped DEF PumpConfirms, Bound
  <2>4. audio' \subseteq Gens
      BY <1>0, <1>11 DEF PumpConfirms, Bury, Closing, Completing, Confirmed, To, mirror,
          CTypeOK, Askers, PumpStates, Facts, Bound, Fresh
  <2>5. done' \subseteq Gens
      BY <1>0, <1>11 DEF PumpConfirms, Bury, Closing, Completing, Confirmed, To, mirror,
          CTypeOK, Askers, PumpStates, Facts, Bound, Fresh
  <2>6. open' \subseteq Gens
      BY <1>0, <1>11, ConfirmedTyped DEF PumpConfirms, Bound
  <2>7. timers' \subseteq Gens
      BY <1>0, <1>11, ConfirmedTyped DEF PumpConfirms, Bound
  <2>8. pump' \in [at : PumpStates, gen : 0..MaxGens]
      BY <1>0, <1>11 DEF PumpConfirms, Bury, Closing, Completing, Confirmed, To, CTypeOK,
          Askers, PumpStates, Facts, Bound, Fresh
  <2>9. UNCHANGED <<row, entry, ending, notice, seg, spoke, marked, downstream, flushed, turn,
                   gens, adm, closer, user, budget>>
      BY <1>11 DEF PumpConfirms, callee, conv, mirror, out, play
  <2> QED
      BY <1>0, <2>1, <2>2, <2>3, <2>4, <2>5, <2>6, <2>7, <2>8, <2>9 DEF CTypeOK
<1>12. ASSUME PumpCompletesAgain PROVE CTypeOK'
  <2>1. comp' \in [Gens -> {"none", "context", "commit"}]
      BY <1>0, <1>12, CompletingTyped DEF PumpCompletesAgain, Bound
  <2>2. timers' \subseteq Gens
      BY <1>0, <1>12 DEF PumpCompletesAgain, Armed, CTypeOK, Bound
  <2>3. pump' \in [at : PumpStates, gen : 0..MaxGens]
      BY <1>0, <1>12, CallAssumption DEF Gens, PumpCompletesAgain, Armed, Closing, Completing, To, Wanted, CTypeOK,
          Askers, PumpStates, Facts, Bound, Fresh
  <2>4. UNCHANGED <<row, entry, ending, active, tomb, audio, done, open, notice, seg, spoke,
                   marked, downstream, flushed, turn, gens, adm, closer, user, budget>>
      BY <1>12 DEF PumpCompletesAgain, callee, conv, mirror, out, play
  <2> QED
      BY <1>0, <2>1, <2>2, <2>3, <2>4 DEF CTypeOK
<1>13. ASSUME PumpCancelled PROVE CTypeOK'
  <2>1. pump' \in [at : PumpStates, gen : 0..MaxGens]
      BY <1>0, <1>13, CallAssumption DEF Gens, PumpCancelled, Settled, To, CTypeOK, Askers, PumpStates, Facts, Bound,
          Fresh
  <2>2. UNCHANGED <<row, entry, ending, comp, active, tomb, audio, done, open, timers, notice,
                   seg, spoke, marked, downstream, flushed, turn, gens, adm, closer, user, budget>>
      BY <1>13 DEF PumpCancelled, callee, conv, mirror, out, play
  <2> QED
      BY <1>0, <2>1, <2>2 DEF CTypeOK
<1>14. ASSUME NEW g \in Gens, AckDeadline(g) PROVE CTypeOK'
  <2>1. entry' \in [gen : 0..MaxGens, revoked : BOOLEAN, completing : BOOLEAN]
    <3>1. CASE active = g
      BY <3>1, <1>0, <1>14, TerminateTyped DEF AckDeadline, Askers, CTypeOK
    <3>2. CASE ~(active = g)
      BY <3>2, <1>0, <1>14 DEF AckDeadline, CTypeOK
    <3> QED
      BY <3>1, <3>2
  <2>2. ending' \subseteq Askers \X Gens
    <3>1. CASE active = g
      BY <3>1, <1>0, <1>14, TerminateTyped DEF AckDeadline, Askers, CTypeOK
    <3>2. CASE ~(active = g)
      BY <3>2, <1>0, <1>14 DEF AckDeadline, CTypeOK
    <3> QED
      BY <3>1, <3>2
  <2>3. active' \in 0..MaxGens
    <3>1. CASE active = g
      BY <3>1, <1>0, <1>14, BuryTyped DEF AckDeadline, CTypeOK
    <3>2. CASE ~(active = g)
      BY <3>2, <1>0, <1>14 DEF AckDeadline, CTypeOK, mirror
    <3> QED
      BY <3>1, <3>2
  <2>4. tomb' \subseteq Gens
    <3>1. CASE active = g
      BY <3>1, <1>0, <1>14, BuryTyped DEF AckDeadline, CTypeOK
    <3>2. CASE ~(active = g)
      BY <3>2, <1>0, <1>14 DEF AckDeadline, CTypeOK, mirror
    <3> QED
      BY <3>1, <3>2
  <2>5. audio' \subseteq Gens
      BY <1>0, <1>14 DEF AckDeadline, Bury, NoEntry, Terminate, mirror, CTypeOK, Askers,
          PumpStates, Facts, Bound, Fresh
  <2>6. done' \subseteq Gens
      BY <1>0, <1>14 DEF AckDeadline, Bury, NoEntry, Terminate, mirror, CTypeOK, Askers,
          PumpStates, Facts, Bound, Fresh
  <2>7. open' \subseteq Gens
      BY <1>0, <1>14 DEF AckDeadline, Bury, NoEntry, Terminate, CTypeOK, Askers, PumpStates,
          Facts, Bound, Fresh
  <2>8. timers' \subseteq Gens
      BY <1>0, <1>14 DEF AckDeadline, Bury, NoEntry, Terminate, CTypeOK, Askers, PumpStates,
          Facts, Bound, Fresh
  <2>9. UNCHANGED <<row, comp, notice, pump, seg, spoke, marked, downstream, flushed, turn,
                   gens, adm, closer, user, budget>>
      BY <1>14 DEF AckDeadline, callee, conv, mirror, out, play
  <2> QED
      BY <1>0, <2>1, <2>2, <2>3, <2>4, <2>5, <2>6, <2>7, <2>8, <2>9 DEF CTypeOK
<1>15. ASSUME FlushTurn PROVE CTypeOK'
  <2>1. open' \subseteq Gens
      BY <1>0, <1>15 DEF FlushTurn, Flush, Settled, CTypeOK, Askers, PumpStates, Facts, Bound,
          Fresh
  <2>2. marked' \subseteq Gens \X {"started", "buffered"}
      BY <1>0, <1>15 DEF FlushTurn, Flush, Settled, CTypeOK, Askers, PumpStates, Facts, Bound,
          Fresh
  <2>3. downstream' \subseteq Gens
      BY <1>0, <1>15 DEF FlushTurn, Flush, Settled, CTypeOK, Askers, PumpStates, Facts, Bound,
          Fresh
  <2>4. flushed' \subseteq Gens
      BY <1>0, <1>15, CallAssumption DEF Gens, FlushTurn, Flush, Settled, CTypeOK, Askers, PumpStates, Facts, Bound,
          Fresh
  <2>5. turn' \in [at : {"idle", "flush", "interrupt", "admit", "join"}, gen : 0..MaxGens]
      BY <1>0, <1>15 DEF FlushTurn, Flush, Settled, CTypeOK, Askers, PumpStates, Facts, Bound,
          Fresh
  <2>6. pump' \in [at : PumpStates, gen : 0..MaxGens]
      BY <1>0, <1>15 DEF FlushTurn, Flush, Settled, CTypeOK, Askers, PumpStates, Facts, Bound,
          Fresh
  <2>7. UNCHANGED <<row, entry, ending, comp, active, tomb, audio, done, timers, notice, seg,
                   spoke, gens, adm, closer, user, budget>>
      BY <1>15 DEF FlushTurn, callee, conv, mirror, out, play
  <2> QED
      BY <1>0, <2>1, <2>2, <2>3, <2>4, <2>5, <2>6, <2>7 DEF CTypeOK
<1>16. ASSUME Interrupted PROVE CTypeOK'
  <2>1. turn' \in [at : {"idle", "flush", "interrupt", "admit", "join"}, gen : 0..MaxGens]
      BY <1>0, <1>16 DEF Interrupted, CTypeOK, Askers, PumpStates, Facts, Bound, Fresh
  <2>2. UNCHANGED <<row, entry, ending, comp, active, tomb, audio, done, open, timers, notice,
                   pump, seg, spoke, marked, downstream, flushed, gens, adm, closer, user, budget>>
      BY <1>16 DEF Interrupted, callee, conv, mirror, out, play
  <2> QED
      BY <1>0, <2>1, <2>2 DEF CTypeOK
<1>17. ASSUME Admit PROVE CTypeOK'
  <2>1. entry' \in [gen : 0..MaxGens, revoked : BOOLEAN, completing : BOOLEAN]
      BY <1>0, <1>17, NoEntryTyped DEF Admit, CTypeOK
  <2>2. turn' \in [at : {"idle", "flush", "interrupt", "admit", "join"}, gen : 0..MaxGens]
      BY <1>0, <1>17, CallAssumption DEF Gens, Admit, Closing, NoEntry, CTypeOK, Askers, PumpStates, Facts, Bound,
          Fresh
  <2>3. gens' \in 0..MaxGens
      BY <1>0, <1>17, CallAssumption DEF Gens, Admit, CTypeOK, Bound
  <2>4. adm' \in {"none", "begin", "publish", "cancel"}
      BY <1>0, <1>17 DEF Admit, Closing, NoEntry, CTypeOK, Askers, PumpStates, Facts, Bound,
          Fresh
  <2>5. UNCHANGED <<row, ending, comp, active, tomb, audio, done, open, timers, notice, pump,
                   seg, spoke, marked, downstream, flushed, closer, user, budget>>
      BY <1>17 DEF Admit, callee, conv, mirror, out, play
  <2> QED
      BY <1>0, <2>1, <2>2, <2>3, <2>4, <2>5 DEF CTypeOK
<1>18. ASSUME AdmissionCommits PROVE CTypeOK'
  <2>1. row' \in [Gens -> {"none", "running", "completed", "cancelled"}]
      BY <1>0, <1>18 DEF AdmissionCommits, NoEntry, CTypeOK, Askers, PumpStates, Facts, Bound,
          Fresh
  <2>2. entry' \in [gen : 0..MaxGens, revoked : BOOLEAN, completing : BOOLEAN]
      BY <1>0, <1>18 DEF AdmissionCommits, NoEntry, CTypeOK, Askers, PumpStates, Facts, Bound,
          Fresh
  <2>3. adm' \in {"none", "begin", "publish", "cancel"}
      BY <1>0, <1>18 DEF AdmissionCommits, NoEntry, CTypeOK, Askers, PumpStates, Facts, Bound,
          Fresh
  <2>4. UNCHANGED <<ending, comp, active, tomb, audio, done, open, timers, notice, pump, seg,
                   spoke, marked, downstream, flushed, turn, gens, closer, user, budget>>
      BY <1>18 DEF AdmissionCommits, callee, conv, mirror, out, play
  <2> QED
      BY <1>0, <2>1, <2>2, <2>3, <2>4 DEF CTypeOK
<1>19. ASSUME AdmissionRegisters PROVE CTypeOK'
  <2>1. entry' \in [gen : 0..MaxGens, revoked : BOOLEAN, completing : BOOLEAN]
    <3>1. CASE Closing
      <4>1. gens \in Gens
        BY <1>0, <1>19, CallAssumption DEF Gens, AdmissionRegisters, CTypeOK, Fresh
      <4> QED
        BY <3>1, <4>1, <1>0, <1>19, TerminateTyped DEF AdmissionRegisters, Askers
    <3>2. CASE ~Closing
      BY <3>2, <1>0, <1>19 DEF AdmissionRegisters, CTypeOK
    <3> QED
      BY <3>1, <3>2
  <2>2. ending' \subseteq Askers \X Gens
    <3>1. CASE Closing
      <4>1. gens \in Gens
        BY <1>0, <1>19, CallAssumption DEF Gens, AdmissionRegisters, CTypeOK, Fresh
      <4> QED
        BY <3>1, <4>1, <1>0, <1>19, TerminateTyped DEF AdmissionRegisters, Askers
    <3>2. CASE ~Closing
      BY <3>2, <1>0, <1>19 DEF AdmissionRegisters, CTypeOK
    <3> QED
      BY <3>1, <3>2
  <2>3. active' \in 0..MaxGens
      BY <1>0, <1>19 DEF AdmissionRegisters, Closing, NoEntry, Terminate, CTypeOK, Askers,
          PumpStates, Facts, Bound, Fresh
  <2>4. turn' \in [at : {"idle", "flush", "interrupt", "admit", "join"}, gen : 0..MaxGens]
      BY <1>0, <1>19, CallAssumption DEF Gens, AdmissionRegisters, Closing, NoEntry, Terminate, CTypeOK, Askers,
          PumpStates, Facts, Bound, Fresh
  <2>5. adm' \in {"none", "begin", "publish", "cancel"}
      BY <1>0, <1>19 DEF AdmissionRegisters, Closing, NoEntry, Terminate, CTypeOK, Askers,
          PumpStates, Facts, Bound, Fresh
  <2>6. UNCHANGED <<row, comp, tomb, audio, done, open, timers, notice, pump, seg, spoke,
                   marked, downstream, flushed, gens, closer, user, budget>>
      BY <1>19 DEF AdmissionRegisters, callee, conv, mirror, out, play
  <2> QED
      BY <1>0, <2>1, <2>2, <2>3, <2>4, <2>5, <2>6 DEF CTypeOK
<1>20. ASSUME AdmissionCancelled PROVE CTypeOK'
  <2>1. turn' \in [at : {"idle", "flush", "interrupt", "admit", "join"}, gen : 0..MaxGens]
      BY <1>0, <1>20, CallAssumption DEF Gens, AdmissionCancelled, Settled, CTypeOK, Askers, PumpStates, Facts,
          Bound, Fresh
  <2>2. adm' \in {"none", "begin", "publish", "cancel"}
      BY <1>0, <1>20 DEF AdmissionCancelled, Settled, CTypeOK, Askers, PumpStates, Facts,
          Bound, Fresh
  <2>3. UNCHANGED <<row, entry, ending, comp, active, tomb, audio, done, open, timers, notice,
                   pump, seg, spoke, marked, downstream, flushed, gens, closer, user, budget>>
      BY <1>20 DEF AdmissionCancelled, callee, conv, mirror, out, play
  <2> QED
      BY <1>0, <2>1, <2>2, <2>3 DEF CTypeOK
<1>21. ASSUME ClosePump PROVE CTypeOK'
  <2>1. ending' \subseteq Askers \X Gens
      BY <1>0, <1>21 DEF ClosePump, CTypeOK, Askers, PumpStates, Facts, Bound, Fresh
  <2>2. comp' \in [Gens -> {"none", "context", "commit"}]
      BY <1>0, <1>21 DEF ClosePump, CTypeOK, Askers, PumpStates, Facts, Bound, Fresh
  <2>3. pump' \in [at : PumpStates, gen : 0..MaxGens]
      BY <1>0, <1>21, CallAssumption DEF Gens, ClosePump, CTypeOK, Askers, PumpStates, Facts, Bound, Fresh
  <2>4. closer' \in {"open", "pump", "flush", "admission", "settle", "closed"}
      BY <1>0, <1>21 DEF ClosePump, CTypeOK, Askers, PumpStates, Facts, Bound, Fresh
  <2>5. UNCHANGED <<row, entry, active, tomb, audio, done, open, timers, notice, seg, spoke,
                   marked, downstream, flushed, turn, gens, adm, user, budget>>
      BY <1>21 DEF ClosePump, callee, conv, mirror, out, play
  <2> QED
      BY <1>0, <2>1, <2>2, <2>3, <2>4, <2>5 DEF CTypeOK
<1>22. ASSUME CloseFlush PROVE CTypeOK'
  <2>1. open' \subseteq Gens
      BY <1>0, <1>22 DEF CloseFlush, Flush, CTypeOK, Askers, PumpStates, Facts, Bound, Fresh
  <2>2. marked' \subseteq Gens \X {"started", "buffered"}
      BY <1>0, <1>22 DEF CloseFlush, Flush, CTypeOK, Askers, PumpStates, Facts, Bound, Fresh
  <2>3. downstream' \subseteq Gens
      BY <1>0, <1>22 DEF CloseFlush, Flush, CTypeOK, Askers, PumpStates, Facts, Bound, Fresh
  <2>4. flushed' \subseteq Gens
      BY <1>0, <1>22, CallAssumption DEF Gens, CloseFlush, Flush, CTypeOK, Askers, PumpStates, Facts, Bound, Fresh
  <2>5. pump' \in [at : PumpStates, gen : 0..MaxGens]
      BY <1>0, <1>22 DEF CloseFlush, Flush, CTypeOK, Askers, PumpStates, Facts, Bound, Fresh
  <2>6. closer' \in {"open", "pump", "flush", "admission", "settle", "closed"}
      BY <1>0, <1>22 DEF CloseFlush, Flush, CTypeOK, Askers, PumpStates, Facts, Bound, Fresh
  <2>7. UNCHANGED <<row, entry, ending, comp, active, tomb, audio, done, timers, notice, seg,
                   spoke, turn, gens, adm, user, budget>>
      BY <1>22 DEF CloseFlush, callee, conv, mirror, out, play
  <2> QED
      BY <1>0, <2>1, <2>2, <2>3, <2>4, <2>5, <2>6, <2>7 DEF CTypeOK
<1>23. ASSUME CloseTerminate PROVE CTypeOK'
  <2>1. entry' \in [gen : 0..MaxGens, revoked : BOOLEAN, completing : BOOLEAN]
    <3>1. CASE active # 0
      <4>1. active \in Gens
        BY <3>1, <1>0, CallAssumption DEF Gens, CTypeOK
      <4> QED
        BY <3>1, <4>1, <1>0, <1>23, TerminateTyped DEF CloseTerminate, Askers
    <3>2. CASE active = 0
      BY <3>2, <1>0, <1>23 DEF CloseTerminate, CTypeOK
    <3> QED
      BY <3>1, <3>2
  <2>2. ending' \subseteq Askers \X Gens
    <3>1. CASE active # 0
      <4>1. active \in Gens
        BY <3>1, <1>0, CallAssumption DEF Gens, CTypeOK
      <4> QED
        BY <3>1, <4>1, <1>0, <1>23, TerminateTyped DEF CloseTerminate, Askers
    <3>2. CASE active = 0
      BY <3>2, <1>0, <1>23 DEF CloseTerminate, CTypeOK
    <3> QED
      BY <3>1, <3>2
  <2>3. active' \in 0..MaxGens
    <3>1. CASE active # 0
      <4>1. active \in Gens
        BY <3>1, <1>0, CallAssumption DEF Gens, CTypeOK
      <4> QED
        BY <3>1, <4>1, <1>0, <1>23, BuryTyped DEF CloseTerminate
    <3>2. CASE active = 0
      BY <3>2, <1>0, <1>23 DEF CloseTerminate, CTypeOK, mirror
    <3> QED
      BY <3>1, <3>2
  <2>4. tomb' \subseteq Gens
    <3>1. CASE active # 0
      <4>1. active \in Gens
        BY <3>1, <1>0, CallAssumption DEF Gens, CTypeOK
      <4> QED
        BY <3>1, <4>1, <1>0, <1>23, BuryTyped DEF CloseTerminate
    <3>2. CASE active = 0
      BY <3>2, <1>0, <1>23 DEF CloseTerminate, CTypeOK, mirror
    <3> QED
      BY <3>1, <3>2
  <2>5. audio' \subseteq Gens
      BY <1>0, <1>23 DEF CloseTerminate, AdmissionOver, Bury, NoEntry, Terminate, mirror,
          CTypeOK, Askers, PumpStates, Facts, Bound, Fresh
  <2>6. done' \subseteq Gens
      BY <1>0, <1>23 DEF CloseTerminate, AdmissionOver, Bury, NoEntry, Terminate, mirror,
          CTypeOK, Askers, PumpStates, Facts, Bound, Fresh
  <2>7. open' \subseteq Gens
      BY <1>0, <1>23 DEF CloseTerminate, AdmissionOver, Bury, NoEntry, Terminate, CTypeOK,
          Askers, PumpStates, Facts, Bound, Fresh
  <2>8. closer' \in {"open", "pump", "flush", "admission", "settle", "closed"}
      BY <1>0, <1>23 DEF CloseTerminate, AdmissionOver, Bury, NoEntry, Terminate, CTypeOK,
          Askers, PumpStates, Facts, Bound, Fresh
  <2>9. UNCHANGED <<row, comp, timers, notice, pump, seg, spoke, marked, downstream, flushed,
                   turn, gens, adm, user, budget>>
      BY <1>23 DEF CloseTerminate, callee, conv, mirror, out, play
  <2> QED
      BY <1>0, <2>1, <2>2, <2>3, <2>4, <2>5, <2>6, <2>7, <2>8, <2>9 DEF CTypeOK
<1>24. ASSUME CloseDone PROVE CTypeOK'
  <2>1. closer' \in {"open", "pump", "flush", "admission", "settle", "closed"}
      BY <1>0, <1>24 DEF CloseDone, Settled, CTypeOK, Askers, PumpStates, Facts, Bound, Fresh
  <2>2. UNCHANGED <<row, entry, ending, comp, active, tomb, audio, done, open, timers, notice,
                   pump, seg, spoke, marked, downstream, flushed, turn, gens, adm, user, budget>>
      BY <1>24 DEF CloseDone, callee, conv, mirror, out, play
  <2> QED
      BY <1>0, <2>1, <2>2 DEF CTypeOK
<1>25. ASSUME PopEntry PROVE CTypeOK'
  <2>1. entry' \in [gen : 0..MaxGens, revoked : BOOLEAN, completing : BOOLEAN]
      BY <1>0, <1>25, NoEntryTyped DEF PopEntry, CTypeOK
  <2>2. user' \in [at : {"idle", "pop"}, gen : 0..MaxGens]
      BY <1>0, <1>25, CallAssumption DEF Gens, PopEntry, NoEntry, Settled, CTypeOK, Askers, PumpStates, Facts, Bound,
          Fresh
  <2>3. UNCHANGED <<row, ending, comp, active, tomb, audio, done, open, timers, notice, pump,
                   seg, spoke, marked, downstream, flushed, turn, gens, adm, closer, budget>>
      BY <1>25 DEF PopEntry, callee, conv, mirror, out, play
  <2> QED
      BY <1>0, <2>1, <2>2, <2>3 DEF CTypeOK
<1>26. ASSUME Interrupt PROVE CTypeOK'
  <2>1. entry' \in [gen : 0..MaxGens, revoked : BOOLEAN, completing : BOOLEAN]
      BY <1>0, <1>26 DEF Interrupt, Spend, CTypeOK, Askers, PumpStates, Facts, Bound, Fresh
  <2>2. ending' \subseteq Askers \X Gens
      BY <1>0, <1>26, CallAssumption DEF Gens, Interrupt, Spend, CTypeOK, Askers, PumpStates, Facts, Bound, Fresh
  <2>3. user' \in [at : {"idle", "pop"}, gen : 0..MaxGens]
      BY <1>0, <1>26 DEF Interrupt, Spend, CTypeOK, Askers, PumpStates, Facts, Bound, Fresh
  <2>4. budget' \in 0..Budget
      BY <1>0, <1>26, CallAssumption DEF Gens, Interrupt, Spend, CTypeOK, Askers, PumpStates, Facts, Bound, Fresh
  <2>5. UNCHANGED <<row, comp, active, tomb, audio, done, open, timers, notice, pump, seg,
                   spoke, marked, downstream, flushed, turn, gens, adm, closer>>
      BY <1>26 DEF Interrupt, callee, conv, mirror, out, play
  <2> QED
      BY <1>0, <2>1, <2>2, <2>3, <2>4, <2>5 DEF CTypeOK
<1>27. ASSUME SpeechStarts PROVE CTypeOK'
  <2>1. entry' \in [gen : 0..MaxGens, revoked : BOOLEAN, completing : BOOLEAN]
    <3>1. CASE active # 0
      <4>1. active \in Gens
        BY <3>1, <1>0, CallAssumption DEF Gens, CTypeOK
      <4> QED
        BY <3>1, <4>1, <1>0, <1>27, TerminateTyped DEF SpeechStarts, Askers
    <3>2. CASE active = 0
      BY <3>2, <1>0, <1>27 DEF SpeechStarts, CTypeOK
    <3> QED
      BY <3>1, <3>2
  <2>2. ending' \subseteq Askers \X Gens
    <3>1. CASE active # 0
      <4>1. active \in Gens
        BY <3>1, <1>0, CallAssumption DEF Gens, CTypeOK
      <4> QED
        BY <3>1, <4>1, <1>0, <1>27, TerminateTyped DEF SpeechStarts, Askers
    <3>2. CASE active = 0
      BY <3>2, <1>0, <1>27 DEF SpeechStarts, CTypeOK
    <3> QED
      BY <3>1, <3>2
  <2>3. active' \in 0..MaxGens
    <3>1. CASE active # 0
      <4>1. active \in Gens
        BY <3>1, <1>0, CallAssumption DEF Gens, CTypeOK
      <4> QED
        BY <3>1, <4>1, <1>0, <1>27, BuryTyped DEF SpeechStarts
    <3>2. CASE active = 0
      BY <3>2, <1>0, <1>27 DEF SpeechStarts, CTypeOK, mirror
    <3> QED
      BY <3>1, <3>2
  <2>4. tomb' \subseteq Gens
    <3>1. CASE active # 0
      <4>1. active \in Gens
        BY <3>1, <1>0, CallAssumption DEF Gens, CTypeOK
      <4> QED
        BY <3>1, <4>1, <1>0, <1>27, BuryTyped DEF SpeechStarts
    <3>2. CASE active = 0
      BY <3>2, <1>0, <1>27 DEF SpeechStarts, CTypeOK, mirror
    <3> QED
      BY <3>1, <3>2
  <2>5. audio' \subseteq Gens
      BY <1>0, <1>27 DEF SpeechStarts, Bury, Closing, NoEntry, Terminate, mirror, CTypeOK,
          Askers, PumpStates, Facts, Bound, Fresh
  <2>6. done' \subseteq Gens
      BY <1>0, <1>27 DEF SpeechStarts, Bury, Closing, NoEntry, Terminate, mirror, CTypeOK,
          Askers, PumpStates, Facts, Bound, Fresh
  <2>7. open' \subseteq Gens
      BY <1>0, <1>27 DEF SpeechStarts, Bury, Closing, NoEntry, Terminate, CTypeOK, Askers,
          PumpStates, Facts, Bound, Fresh
  <2>8. turn' \in [at : {"idle", "flush", "interrupt", "admit", "join"}, gen : 0..MaxGens]
      BY <1>0, <1>27 DEF SpeechStarts, Bury, Closing, NoEntry, Terminate, CTypeOK, Askers,
          PumpStates, Facts, Bound, Fresh
  <2>9. timers' \subseteq Gens
      BY <1>0, <1>27 DEF SpeechStarts, Bury, Closing, NoEntry, Terminate, CTypeOK, Askers,
          PumpStates, Facts, Bound, Fresh
  <2>10. UNCHANGED <<row, comp, notice, pump, seg, spoke, marked, downstream, flushed, gens,
                   adm, closer, user, budget>>
      BY <1>27 DEF SpeechStarts, callee, conv, mirror, out, play
  <2> QED
      BY <1>0, <2>1, <2>2, <2>3, <2>4, <2>5, <2>6, <2>7, <2>8, <2>9, <2>10 DEF CTypeOK
<1>28. ASSUME Teardown PROVE CTypeOK'
  <2>1. timers' \subseteq Gens
      BY <1>0, <1>28 DEF Teardown, Closing, EndSession, CTypeOK, Askers, PumpStates, Facts,
          Bound, Fresh
  <2>2. closer' \in {"open", "pump", "flush", "admission", "settle", "closed"}
      BY <1>0, <1>28 DEF Teardown, Closing, EndSession, CTypeOK, Askers, PumpStates, Facts,
          Bound, Fresh
  <2>3. UNCHANGED <<row, entry, ending, comp, active, tomb, audio, done, open, notice, pump,
                   seg, spoke, marked, downstream, flushed, turn, gens, adm, user, budget>>
      BY <1>28 DEF Teardown, callee, conv, mirror, out, play
  <2> QED
      BY <1>0, <2>1, <2>2, <2>3 DEF CTypeOK
<1>29. ASSUME StreamFails PROVE CTypeOK'
  <2>1. entry' \in [gen : 0..MaxGens, revoked : BOOLEAN, completing : BOOLEAN]
    <3>1. active \in Gens
      BY <1>0, <1>29, CallAssumption DEF Gens, StreamFails, CTypeOK
    <3> QED
      BY <3>1, <1>0, <1>29, TerminateTyped DEF StreamFails, Askers
  <2>2. ending' \subseteq Askers \X Gens
    <3>1. active \in Gens
      BY <1>0, <1>29, CallAssumption DEF Gens, StreamFails, CTypeOK
    <3> QED
      BY <3>1, <1>0, <1>29, TerminateTyped DEF StreamFails, Askers
  <2>3. active' \in 0..MaxGens
    <3>1. active \in Gens
      BY <1>0, <1>29, CallAssumption DEF Gens, StreamFails, CTypeOK
    <3> QED
      BY <3>1, <1>0, <1>29, BuryTyped DEF StreamFails
  <2>4. tomb' \subseteq Gens
    <3>1. active \in Gens
      BY <1>0, <1>29, CallAssumption DEF Gens, StreamFails, CTypeOK
    <3> QED
      BY <3>1, <1>0, <1>29, BuryTyped DEF StreamFails
  <2>5. audio' \subseteq Gens
      BY <1>0, <1>29 DEF StreamFails, Bury, Closing, NoEntry, Terminate, To, CTypeOK, Askers,
          PumpStates, Facts, Bound, Fresh
  <2>6. done' \subseteq Gens
      BY <1>0, <1>29 DEF StreamFails, Bury, Closing, NoEntry, Terminate, To, CTypeOK, Askers,
          PumpStates, Facts, Bound, Fresh
  <2>7. open' \subseteq Gens
      BY <1>0, <1>29 DEF StreamFails, Bury, Closing, NoEntry, Terminate, To, CTypeOK, Askers,
          PumpStates, Facts, Bound, Fresh
  <2>8. timers' \subseteq Gens
      BY <1>0, <1>29 DEF StreamFails, Bury, Closing, NoEntry, Terminate, To, CTypeOK, Askers,
          PumpStates, Facts, Bound, Fresh
  <2>9. pump' \in [at : PumpStates, gen : 0..MaxGens]
      BY <1>0, <1>29 DEF StreamFails, Bury, Closing, NoEntry, Terminate, To, CTypeOK, Askers,
          PumpStates, Facts, Bound, Fresh
  <2>10. UNCHANGED <<row, comp, notice, seg, spoke, marked, downstream, flushed, turn, gens,
                   adm, closer, user, budget>>
      BY <1>29 DEF StreamFails, callee, conv, mirror, out, play
  <2> QED
      BY <1>0, <2>1, <2>2, <2>3, <2>4, <2>5, <2>6, <2>7, <2>8, <2>9, <2>10 DEF CTypeOK
<1>30. ASSUME StreamEnds PROVE CTypeOK'
  <2>1. timers' \subseteq Gens
      BY <1>0, <1>30 DEF StreamEnds, Closing, EndSession, Settled, To, CTypeOK, Askers,
          PumpStates, Facts, Bound, Fresh
  <2>2. pump' \in [at : PumpStates, gen : 0..MaxGens]
      BY <1>0, <1>30, CallAssumption DEF Gens, StreamEnds, Closing, EndSession, Settled, To, CTypeOK, Askers,
          PumpStates, Facts, Bound, Fresh
  <2>3. closer' \in {"open", "pump", "flush", "admission", "settle", "closed"}
      BY <1>0, <1>30 DEF StreamEnds, Closing, EndSession, Settled, To, CTypeOK, Askers,
          PumpStates, Facts, Bound, Fresh
  <2>4. UNCHANGED <<row, entry, ending, comp, active, tomb, audio, done, open, notice, seg,
                   spoke, marked, downstream, flushed, turn, gens, adm, user, budget>>
      BY <1>30 DEF StreamEnds, callee, conv, mirror, out, play
  <2> QED
      BY <1>0, <2>1, <2>2, <2>3, <2>4 DEF CTypeOK
<1>31. ASSUME InterruptFails PROVE CTypeOK'
  <2>1. turn' \in [at : {"idle", "flush", "interrupt", "admit", "join"}, gen : 0..MaxGens]
      BY <1>0, <1>31, CallAssumption DEF Gens, InterruptFails, Closing, EndSession, Spend, CTypeOK, Askers,
          PumpStates, Facts, Bound, Fresh
  <2>2. timers' \subseteq Gens
      BY <1>0, <1>31 DEF InterruptFails, Closing, EndSession, Spend, CTypeOK, Askers,
          PumpStates, Facts, Bound, Fresh
  <2>3. closer' \in {"open", "pump", "flush", "admission", "settle", "closed"}
      BY <1>0, <1>31 DEF InterruptFails, Closing, EndSession, Spend, CTypeOK, Askers,
          PumpStates, Facts, Bound, Fresh
  <2>4. budget' \in 0..Budget
      BY <1>0, <1>31, CallAssumption DEF Gens, InterruptFails, Closing, EndSession, Spend, CTypeOK, Askers,
          PumpStates, Facts, Bound, Fresh
  <2>5. UNCHANGED <<row, entry, ending, comp, active, tomb, audio, done, open, notice, pump,
                   seg, spoke, marked, downstream, flushed, gens, adm, user>>
      BY <1>31 DEF InterruptFails, callee, conv, mirror, out, play
  <2> QED
      BY <1>0, <2>1, <2>2, <2>3, <2>4, <2>5 DEF CTypeOK
<1>32. ASSUME NEW g \in Gens, OutputAudio(g) PROVE CTypeOK'
  <2>1. audio' \subseteq Gens
      BY <1>0, <1>32 DEF OutputAudio, Closing, To, CTypeOK, Askers, PumpStates, Facts, Bound,
          Fresh
  <2>2. open' \subseteq Gens
      BY <1>0, <1>32 DEF OutputAudio, Closing, To, CTypeOK, Askers, PumpStates, Facts, Bound,
          Fresh
  <2>3. pump' \in [at : PumpStates, gen : 0..MaxGens]
      BY <1>0, <1>32 DEF OutputAudio, Closing, To, CTypeOK, Askers, PumpStates, Facts, Bound,
          Fresh
  <2>4. UNCHANGED <<row, entry, ending, comp, active, tomb, done, timers, notice, seg, spoke,
                   marked, downstream, flushed, turn, gens, adm, closer, user, budget>>
      BY <1>32 DEF OutputAudio, callee, conv, mirror, out, play
  <2> QED
      BY <1>0, <2>1, <2>2, <2>3, <2>4 DEF CTypeOK
<1>33. ASSUME NEW g \in Gens, ResponseCompleted(g) PROVE CTypeOK'
  <2>1. comp' \in [Gens -> {"none", "context", "commit"}]
    <3>1. CASE PlaysOut(g)
      BY <3>1, <1>0, <1>33 DEF ResponseCompleted, CTypeOK
    <3>2. CASE ~PlaysOut(g)
      BY <3>2, <1>0, <1>33, BuryTyped, CompletingTyped DEF ResponseCompleted
    <3> QED
      BY <3>1, <3>2
  <2>2. active' \in 0..MaxGens
    <3>1. CASE PlaysOut(g)
      BY <3>1, <1>0, <1>33 DEF ResponseCompleted, CTypeOK
    <3>2. CASE ~PlaysOut(g)
      BY <3>2, <1>0, <1>33, BuryTyped, CompletingTyped DEF ResponseCompleted
    <3> QED
      BY <3>1, <3>2
  <2>3. tomb' \subseteq Gens
    <3>1. CASE PlaysOut(g)
      BY <3>1, <1>0, <1>33 DEF ResponseCompleted, CTypeOK
    <3>2. CASE ~PlaysOut(g)
      BY <3>2, <1>0, <1>33, BuryTyped, CompletingTyped DEF ResponseCompleted
    <3> QED
      BY <3>1, <3>2
  <2>4. audio' \subseteq Gens
      BY <1>0, <1>33 DEF ResponseCompleted, Bury, Closing, Completing, PlaysOut, To, CTypeOK,
          Askers, PumpStates, Facts, Bound, Fresh
  <2>5. done' \subseteq Gens
      BY <1>0, <1>33 DEF ResponseCompleted, Bury, Closing, Completing, PlaysOut, To, CTypeOK,
          Askers, PumpStates, Facts, Bound, Fresh
  <2>6. pump' \in [at : PumpStates, gen : 0..MaxGens]
      BY <1>0, <1>33 DEF ResponseCompleted, Bury, Closing, Completing, PlaysOut, To, CTypeOK,
          Askers, PumpStates, Facts, Bound, Fresh
  <2>7. UNCHANGED <<row, entry, ending, open, timers, notice, seg, spoke, marked, downstream,
                   flushed, turn, gens, adm, closer, user, budget>>
      BY <1>33 DEF ResponseCompleted, callee, conv, mirror, out, play
  <2> QED
      BY <1>0, <2>1, <2>2, <2>3, <2>4, <2>5, <2>6, <2>7 DEF CTypeOK
<1>34. ASSUME NEW g \in Gens, ResponseCancelled(g) PROVE CTypeOK'
  <2>1. entry' \in [gen : 0..MaxGens, revoked : BOOLEAN, completing : BOOLEAN]
      BY <1>0, <1>34, TerminateTyped DEF ResponseCancelled, Askers
  <2>2. ending' \subseteq Askers \X Gens
      BY <1>0, <1>34, TerminateTyped DEF ResponseCancelled, Askers
  <2>3. active' \in 0..MaxGens
      BY <1>0, <1>34, BuryTyped DEF ResponseCancelled
  <2>4. tomb' \subseteq Gens
      BY <1>0, <1>34, BuryTyped DEF ResponseCancelled
  <2>5. audio' \subseteq Gens
      BY <1>0, <1>34 DEF ResponseCancelled, Bury, Closing, NoEntry, Terminate, To, CTypeOK,
          Askers, PumpStates, Facts, Bound, Fresh
  <2>6. done' \subseteq Gens
      BY <1>0, <1>34 DEF ResponseCancelled, Bury, Closing, NoEntry, Terminate, To, CTypeOK,
          Askers, PumpStates, Facts, Bound, Fresh
  <2>7. pump' \in [at : PumpStates, gen : 0..MaxGens]
      BY <1>0, <1>34 DEF ResponseCancelled, Bury, Closing, NoEntry, Terminate, To, CTypeOK,
          Askers, PumpStates, Facts, Bound, Fresh
  <2>8. UNCHANGED <<row, comp, open, timers, notice, seg, spoke, marked, downstream, flushed,
                   turn, gens, adm, closer, user, budget>>
      BY <1>34 DEF ResponseCancelled, callee, conv, mirror, out, play
  <2> QED
      BY <1>0, <2>1, <2>2, <2>3, <2>4, <2>5, <2>6, <2>7, <2>8 DEF CTypeOK
<1>35. ASSUME NEW g \in Gens, NEW how \in {"ended", "stopped"}, Acknowledge(g, how) PROVE CTypeOK'
  <2>1. seg' \in [Gens -> SUBSET Facts]
      BY <1>0, <1>35, JoinTyped DEF Acknowledge, Facts
  <2>2. spoke' \in [Gens -> Nat]
      BY <1>0, <1>35, JoinTyped DEF Acknowledge, Facts
  <2>3. notice' \subseteq Gens
      BY <1>0, <1>35 DEF Acknowledge, Join, MayCommit, CTypeOK, Askers, PumpStates, Facts,
          Bound, Fresh
  <2>4. UNCHANGED <<row, entry, ending, comp, active, tomb, audio, done, open, timers, pump,
                   marked, downstream, flushed, turn, gens, adm, closer, user, budget>>
      BY <1>35 DEF Acknowledge, callee, conv, mirror, out, play
  <2> QED
      BY <1>0, <2>1, <2>2, <2>3, <2>4 DEF CTypeOK
<1> QED
    BY <1>1, <1>2, <1>3, <1>4, <1>5, <1>6, <1>7, <1>8, <1>9, <1>10, <1>11, <1>12, <1>13, <1>14,
        <1>15, <1>16, <1>17, <1>18, <1>19, <1>20, <1>21, <1>22, <1>23, <1>24, <1>25, <1>26,
        <1>27, <1>28, <1>29, <1>30, <1>31, <1>32, <1>33, <1>34, <1>35 DEF Next, ConvStep,
        PumpStep, TimerStep, TurnStep, AdmitStep, CloseStep

LEMMA BoundStep == ASSUME CInv, Next PROVE Bound'
<1>0. CTypeOK /\ Bound
    BY DEF CInv
<1> USE DEF Gens
<1>q. ASSUME UNCHANGED <<pump, turn, gens>> PROVE Bound'
    BY <1>0, <1>q DEF Bound
<1>1. ASSUME NEW g \in Gens, BeginCompletion(g) PROVE Bound'
    BY <1>0, <1>1 DEF BeginCompletion, callee, CTypeOK, Bound
<1>2. ASSUME NEW g \in Gens, CommitCompletion(g) PROVE Bound'
    BY <1>0, <1>2 DEF CommitCompletion, NoEntry, callee, CTypeOK, Bound
<1>3. ASSUME NEW g \in Gens, Notify(g) PROVE Bound'
    BY <1>3, <1>q DEF Notify, callee
<1>4. ASSUME NEW g \in Gens, NEW who \in Askers, Settle(who, g) PROVE Bound'
    BY <1>4, <1>q DEF Settle, callee
<1>5. ASSUME Register PROVE Bound'
    BY <1>0, <1>5 DEF Register, To, callee, CTypeOK, Bound
<1>6. ASSUME PushFrame PROVE Bound'
    BY <1>0, <1>6 DEF PushFrame, To, callee, CTypeOK, Bound
<1>7. ASSUME FinalizeStop PROVE Bound'
    BY <1>0, <1>7 DEF FinalizeStop, Closing, To, Wanted, callee, CTypeOK, Bound
<1>8. ASSUME FinalizeDuration PROVE Bound'
    BY <1>0, <1>8 DEF FinalizeDuration, Closing, Join, MayCommit, To, Wanted, callee, CTypeOK,
        Bound
<1>9. ASSUME FinalizeMarker PROVE Bound'
    BY <1>0, <1>9 DEF FinalizeMarker, To, callee, CTypeOK, Bound
<1>10. ASSUME AttachTranscript PROVE Bound'
    BY <1>0, <1>10 DEF AttachTranscript, Armed, Closing, Join, MayCommit, To, Wanted, callee,
        CTypeOK, Bound
<1>11. ASSUME PumpConfirms PROVE Bound'
    BY <1>0, <1>11 DEF PumpConfirms, Bury, Closing, Completing, Confirmed, To, callee, CTypeOK,
        Bound
<1>12. ASSUME PumpCompletesAgain PROVE Bound'
    BY <1>0, <1>12 DEF PumpCompletesAgain, Armed, Closing, Completing, To, Wanted, callee,
        CTypeOK, Bound
<1>13. ASSUME PumpCancelled PROVE Bound'
    BY <1>0, <1>13 DEF PumpCancelled, Settled, To, callee, CTypeOK, Bound
<1>14. ASSUME NEW g \in Gens, AckDeadline(g) PROVE Bound'
    BY <1>14, <1>q DEF AckDeadline, callee
<1>15. ASSUME FlushTurn PROVE Bound'
    BY <1>0, <1>15 DEF FlushTurn, Flush, Settled, CTypeOK, Bound
<1>16. ASSUME Interrupted PROVE Bound'
    BY <1>0, <1>16 DEF Interrupted, CTypeOK, Bound
<1>17. ASSUME Admit PROVE Bound'
    BY <1>0, <1>17 DEF Admit, Closing, NoEntry, CTypeOK, Bound
<1>18. ASSUME AdmissionCommits PROVE Bound'
    BY <1>18, <1>q DEF AdmissionCommits
<1>19. ASSUME AdmissionRegisters PROVE Bound'
    BY <1>0, <1>19 DEF AdmissionRegisters, Closing, NoEntry, Terminate, CTypeOK, Bound
<1>20. ASSUME AdmissionCancelled PROVE Bound'
    BY <1>0, <1>20 DEF AdmissionCancelled, Settled, CTypeOK, Bound
<1>21. ASSUME ClosePump PROVE Bound'
    BY <1>0, <1>21 DEF ClosePump, callee, CTypeOK, Bound
<1>22. ASSUME CloseFlush PROVE Bound'
    BY <1>0, <1>22 DEF CloseFlush, Flush, callee, CTypeOK, Bound
<1>23. ASSUME CloseTerminate PROVE Bound'
    BY <1>23, <1>q DEF CloseTerminate, callee
<1>24. ASSUME CloseDone PROVE Bound'
    BY <1>24, <1>q DEF CloseDone, callee
<1>25. ASSUME PopEntry PROVE Bound'
    BY <1>25, <1>q DEF PopEntry, callee
<1>26. ASSUME Interrupt PROVE Bound'
    BY <1>26, <1>q DEF Interrupt, callee
<1>27. ASSUME SpeechStarts PROVE Bound'
    BY <1>0, <1>27 DEF SpeechStarts, Bury, Closing, NoEntry, Terminate, CTypeOK, Bound
<1>28. ASSUME Teardown PROVE Bound'
    BY <1>28, <1>q DEF Teardown, callee
<1>29. ASSUME StreamFails PROVE Bound'
    BY <1>0, <1>29 DEF StreamFails, Bury, Closing, NoEntry, Terminate, To, callee, CTypeOK,
        Bound
<1>30. ASSUME StreamEnds PROVE Bound'
    BY <1>0, <1>30 DEF StreamEnds, Closing, EndSession, Settled, To, callee, CTypeOK, Bound
<1>31. ASSUME InterruptFails PROVE Bound'
    BY <1>0, <1>31 DEF InterruptFails, Closing, EndSession, Spend, CTypeOK, Bound
<1>32. ASSUME NEW g \in Gens, OutputAudio(g) PROVE Bound'
    BY <1>0, <1>32 DEF OutputAudio, Closing, To, callee, CTypeOK, Bound
<1>33. ASSUME NEW g \in Gens, ResponseCompleted(g) PROVE Bound'
    BY <1>0, <1>33 DEF ResponseCompleted, Bury, Closing, Completing, PlaysOut, To, callee,
        CTypeOK, Bound
<1>34. ASSUME NEW g \in Gens, ResponseCancelled(g) PROVE Bound'
    BY <1>0, <1>34 DEF ResponseCancelled, Bury, Closing, NoEntry, Terminate, To, callee,
        CTypeOK, Bound
<1>35. ASSUME NEW g \in Gens, NEW how \in {"ended", "stopped"}, Acknowledge(g, how) PROVE Bound'
    BY <1>35, <1>q DEF Acknowledge, callee
<1> QED
    BY <1>1, <1>2, <1>3, <1>4, <1>5, <1>6, <1>7, <1>8, <1>9, <1>10, <1>11, <1>12, <1>13, <1>14,
        <1>15, <1>16, <1>17, <1>18, <1>19, <1>20, <1>21, <1>22, <1>23, <1>24, <1>25, <1>26,
        <1>27, <1>28, <1>29, <1>30, <1>31, <1>32, <1>33, <1>34, <1>35 DEF Next, ConvStep,
        PumpStep, TimerStep, TurnStep, AdmitStep, CloseStep

LEMMA JoinKeeps ==
  ASSUME CTypeOK, Joined, NEW g \in Gens, NEW fact \in Facts \ {"spoken"}, Join(g, fact),
         fact = "ended" => <<g, "buffered">> \in marked, UNCHANGED marked
  PROVE  Joined'
<1>1. /\ seg \in [Gens -> SUBSET Facts] /\ spoke \in [Gens -> Nat]
      /\ spoke[g] = IF "spoken" \in seg[g] THEN 1 ELSE 0
      /\ "ended" \in seg[g] => <<g, "buffered">> \in marked
  BY DEF CTypeOK, Joined
<1>2. /\ spoke'[g] = IF "spoken" \in seg'[g] THEN 1 ELSE 0
      /\ "ended" \in seg'[g] => <<g, "buffered">> \in marked'
  <2>1. CASE MayCommit(g, seg[g] \cup {fact})
    <3>1. "spoken" \notin seg[g] /\ spoke'[g] = spoke[g] + 1 /\ "spoken" \in seg'[g]
      BY <1>1, <2>1 DEF Join, MayCommit
    <3>2. "ended" \in seg'[g] => "ended" \in seg[g] \/ fact = "ended"
      BY <1>1, <2>1 DEF Join
    <3> QED
      BY <1>1, <3>1, <3>2
  <2>2. CASE ~MayCommit(g, seg[g] \cup {fact})
    <3>1. spoke'[g] = spoke[g] /\ seg'[g] = seg[g] \cup {fact}
      BY <1>1, <2>2 DEF Join
    <3> QED
      BY <1>1, <3>1
  <2> QED
    BY <2>1, <2>2
<1>3. \A h \in Gens : h # g => spoke'[h] = spoke[h] /\ seg'[h] = seg[h]
  BY <1>1 DEF Join
<1> QED
  BY <1>2, <1>3 DEF Joined

LEMMA JoinedStep == ASSUME CInv, Next PROVE Joined'
<1>0. CTypeOK /\ Bound /\ Joined
    BY DEF CInv
<1> USE DEF Gens
<1>q. ASSUME UNCHANGED <<spoke, seg, marked>> PROVE Joined'
    BY <1>0, <1>q DEF Joined
<1>1. ASSUME NEW g \in Gens, BeginCompletion(g) PROVE Joined'
    BY <1>1, <1>q DEF BeginCompletion, out, play
<1>2. ASSUME NEW g \in Gens, CommitCompletion(g) PROVE Joined'
    BY <1>2, <1>q DEF CommitCompletion, out, play
<1>3. ASSUME NEW g \in Gens, Notify(g) PROVE Joined'
    BY <1>3, <1>q DEF Notify
<1>4. ASSUME NEW g \in Gens, NEW who \in Askers, Settle(who, g) PROVE Joined'
    BY <1>4, <1>q DEF Settle, out, play
<1>5. ASSUME Register PROVE Joined'
    BY <1>0, <1>5 DEF Register, To, CTypeOK, Joined
<1>6. ASSUME PushFrame PROVE Joined'
    BY <1>6, <1>q DEF PushFrame, play
<1>7. ASSUME FinalizeStop PROVE Joined'
    BY <1>7, <1>q DEF FinalizeStop, out, play
<1>8. ASSUME FinalizeDuration PROVE Joined'
    BY <1>0, <1>8, JoinKeeps DEF FinalizeDuration, out, Bound, Facts
<1>9. ASSUME FinalizeMarker PROVE Joined'
    BY <1>0, <1>9 DEF FinalizeMarker, To, play, CTypeOK, Joined
<1>10. ASSUME AttachTranscript PROVE Joined'
  <2>1. CASE "registered" \in seg[pump.gen]
    BY <2>1, <1>0, <1>10, JoinKeeps DEF AttachTranscript, out, Bound, Facts
  <2>2. CASE "registered" \notin seg[pump.gen]
    BY <2>2, <1>0, <1>10 DEF AttachTranscript, out, Joined
  <2> QED
    BY <2>1, <2>2
<1>11. ASSUME PumpConfirms PROVE Joined'
    BY <1>11, <1>q DEF PumpConfirms, play
<1>12. ASSUME PumpCompletesAgain PROVE Joined'
    BY <1>12, <1>q DEF PumpCompletesAgain, out, play
<1>13. ASSUME PumpCancelled PROVE Joined'
    BY <1>13, <1>q DEF PumpCancelled, out, play
<1>14. ASSUME NEW g \in Gens, AckDeadline(g) PROVE Joined'
    BY <1>14, <1>q DEF AckDeadline, play
<1>15. ASSUME FlushTurn PROVE Joined'
    BY <1>0, <1>15 DEF FlushTurn, Flush, Settled, play, CTypeOK, Joined
<1>16. ASSUME Interrupted PROVE Joined'
    BY <1>16, <1>q DEF Interrupted, out, play
<1>17. ASSUME Admit PROVE Joined'
    BY <1>17, <1>q DEF Admit, out, play
<1>18. ASSUME AdmissionCommits PROVE Joined'
    BY <1>18, <1>q DEF AdmissionCommits, out, play
<1>19. ASSUME AdmissionRegisters PROVE Joined'
    BY <1>19, <1>q DEF AdmissionRegisters, out, play
<1>20. ASSUME AdmissionCancelled PROVE Joined'
    BY <1>20, <1>q DEF AdmissionCancelled, out, play
<1>21. ASSUME ClosePump PROVE Joined'
    BY <1>21, <1>q DEF ClosePump, out, play
<1>22. ASSUME CloseFlush PROVE Joined'
    BY <1>0, <1>22 DEF CloseFlush, Flush, play, CTypeOK, Joined
<1>23. ASSUME CloseTerminate PROVE Joined'
    BY <1>23, <1>q DEF CloseTerminate, play
<1>24. ASSUME CloseDone PROVE Joined'
    BY <1>24, <1>q DEF CloseDone, out, play
<1>25. ASSUME PopEntry PROVE Joined'
    BY <1>25, <1>q DEF PopEntry, out, play
<1>26. ASSUME Interrupt PROVE Joined'
    BY <1>26, <1>q DEF Interrupt, out, play
<1>27. ASSUME SpeechStarts PROVE Joined'
    BY <1>27, <1>q DEF SpeechStarts, play
<1>28. ASSUME Teardown PROVE Joined'
    BY <1>28, <1>q DEF Teardown, out, play
<1>29. ASSUME StreamFails PROVE Joined'
    BY <1>29, <1>q DEF StreamFails, play
<1>30. ASSUME StreamEnds PROVE Joined'
    BY <1>30, <1>q DEF StreamEnds, out, play
<1>31. ASSUME InterruptFails PROVE Joined'
    BY <1>31, <1>q DEF InterruptFails, out, play
<1>32. ASSUME NEW g \in Gens, OutputAudio(g) PROVE Joined'
    BY <1>32, <1>q DEF OutputAudio, play
<1>33. ASSUME NEW g \in Gens, ResponseCompleted(g) PROVE Joined'
    BY <1>33, <1>q DEF ResponseCompleted, out, play
<1>34. ASSUME NEW g \in Gens, ResponseCancelled(g) PROVE Joined'
    BY <1>34, <1>q DEF ResponseCancelled, out, play
<1>35. ASSUME NEW g \in Gens, NEW how \in {"ended", "stopped"}, Acknowledge(g, how) PROVE Joined'
    BY <1>0, <1>35, JoinKeeps DEF Acknowledge, out, Facts
<1> QED
    BY <1>1, <1>2, <1>3, <1>4, <1>5, <1>6, <1>7, <1>8, <1>9, <1>10, <1>11, <1>12, <1>13, <1>14,
        <1>15, <1>16, <1>17, <1>18, <1>19, <1>20, <1>21, <1>22, <1>23, <1>24, <1>25, <1>26,
        <1>27, <1>28, <1>29, <1>30, <1>31, <1>32, <1>33, <1>34, <1>35 DEF Next, ConvStep,
        PumpStep, TimerStep, TurnStep, AdmitStep, CloseStep

LEMMA TerminateEntry ==
  ASSUME NEW who, NEW g, Terminate(who, g)
  PROVE  entry' = entry \/ entry' = NoEntry
  BY DEF Terminate

LEMMA BuryActive ==
  ASSUME CTypeOK, Fresh, active \in Gens, Bury(active),
         entry' = entry \/ entry' = NoEntry, UNCHANGED <<flushed, gens, adm>>
  PROVE  Fresh'
<1> USE DEF Gens
<1>1. active' = 0 /\ tomb' = tomb \cup {active} /\ done' = done
  BY DEF Bury
<1>2. gens \in Nat /\ active \in 1..gens
  BY CallAssumption DEF CTypeOK, Fresh
<1>3. /\ tomb' \cup done' \cup flushed' \subseteq 1..gens' /\ active' <= gens'
      /\ active' \notin tomb'
  BY <1>1, <1>2 DEF Fresh
<1>4. ASSUME adm' \in {"begin", "publish"}
      PROVE  /\ gens' # 0 /\ gens' # active' /\ gens' \notin tomb' \cup done'
             /\ entry'.gen \in {0, gens'} /\ ~entry'.completing
  BY <1>1, <1>2, <1>4 DEF Fresh, NoEntry
<1> QED
  BY <1>3, <1>4 DEF Fresh

LEMMA ConfirmedFresh ==
  ASSUME CTypeOK, Fresh, NEW g \in Gens, Confirmed(g), UNCHANGED <<entry, flushed, gens, adm>>
  PROVE  Fresh'
<1>1. CASE ~Closing /\ active = g /\ g \in done
  BY <1>1, BuryActive DEF Confirmed
<1>2. CASE ~(~Closing /\ active = g /\ g \in done)
  BY <1>2 DEF Confirmed, Fresh, mirror
<1> QED
  BY <1>1, <1>2

LEMMA FreshStep == ASSUME CInv, Next PROVE Fresh'
<1>0. CTypeOK /\ Bound /\ Fresh /\ HeardFirst /\ Silent
    BY DEF CInv
<1> USE DEF Gens
<1>q. ASSUME UNCHANGED <<tomb, done, flushed, gens, active, adm, entry>> PROVE Fresh'
    BY <1>0, <1>q DEF Fresh
<1>1. ASSUME NEW g \in Gens, BeginCompletion(g) PROVE Fresh'
    BY <1>0, <1>1 DEF BeginCompletion, callee, mirror, out, CTypeOK, Fresh, HeardFirst, Silent
<1>2. ASSUME NEW g \in Gens, CommitCompletion(g) PROVE Fresh'
    BY <1>0, <1>2 DEF CommitCompletion, NoEntry, callee, mirror, out, CTypeOK, Fresh,
        HeardFirst, Silent
<1>3. ASSUME NEW g \in Gens, Notify(g) PROVE Fresh'
    BY <1>0, <1>3, ConfirmedFresh DEF Notify, callee
<1>4. ASSUME NEW g \in Gens, NEW who \in Askers, Settle(who, g) PROVE Fresh'
    BY <1>4, <1>q DEF Settle, callee, mirror, out
<1>5. ASSUME Register PROVE Fresh'
    BY <1>5, <1>q DEF Register, callee, conv, mirror
<1>6. ASSUME PushFrame PROVE Fresh'
    BY <1>6, <1>q DEF PushFrame, callee, conv, mirror
<1>7. ASSUME FinalizeStop PROVE Fresh'
    BY <1>7, <1>q DEF FinalizeStop, callee, conv, mirror, out
<1>8. ASSUME FinalizeDuration PROVE Fresh'
    BY <1>8, <1>q DEF FinalizeDuration, callee, conv, mirror, out
<1>9. ASSUME FinalizeMarker PROVE Fresh'
    BY <1>9, <1>q DEF FinalizeMarker, callee, conv, mirror
<1>10. ASSUME AttachTranscript PROVE Fresh'
    BY <1>10, <1>q DEF AttachTranscript, callee, conv, mirror, out
<1>11. ASSUME PumpConfirms PROVE Fresh'
    BY <1>0, <1>11, ConfirmedFresh DEF PumpConfirms, callee, Bound
<1>12. ASSUME PumpCompletesAgain PROVE Fresh'
    BY <1>12, <1>q DEF PumpCompletesAgain, callee, mirror, out
<1>13. ASSUME PumpCancelled PROVE Fresh'
    BY <1>13, <1>q DEF PumpCancelled, callee, conv, mirror, out
<1>14. ASSUME NEW g \in Gens, AckDeadline(g) PROVE Fresh'
  <2>1. CASE active = g
    <3>1. active \in Gens /\ Bury(active) /\ Terminate("timer", g) /\ UNCHANGED <<flushed, gens, adm>>
      BY <2>1, <1>0, <1>14, CallAssumption DEF AckDeadline, callee, CTypeOK
    <3>2. entry' = entry \/ entry' = NoEntry
      BY <3>1, TerminateEntry
    <3> QED
      BY <3>1, <3>2, <1>0, BuryActive
  <2>2. CASE ~(active = g)
    BY <2>2, <1>0, <1>14 DEF AckDeadline, callee, mirror, Fresh
  <2> QED
    BY <2>1, <2>2
<1>15. ASSUME FlushTurn PROVE Fresh'
    BY <1>0, <1>15 DEF FlushTurn, Flush, Settled, conv, mirror, CTypeOK, Fresh, HeardFirst,
        Silent
<1>16. ASSUME Interrupted PROVE Fresh'
    BY <1>16, <1>q DEF Interrupted, conv, mirror, out
<1>17. ASSUME Admit PROVE Fresh'
    BY <1>0, <1>17 DEF Admit, Closing, NoEntry, mirror, out, CTypeOK, Fresh, HeardFirst, Silent
<1>18. ASSUME AdmissionCommits PROVE Fresh'
    BY <1>0, <1>18 DEF AdmissionCommits, NoEntry, mirror, out, CTypeOK, Fresh, HeardFirst,
        Silent
<1>19. ASSUME AdmissionRegisters PROVE Fresh'
    BY <1>0, <1>19 DEF AdmissionRegisters, Closing, NoEntry, Terminate, out, CTypeOK, Fresh,
        HeardFirst, Silent
<1>20. ASSUME AdmissionCancelled PROVE Fresh'
    BY <1>0, <1>20 DEF AdmissionCancelled, Settled, conv, mirror, out, CTypeOK, Fresh,
        HeardFirst, Silent
<1>21. ASSUME ClosePump PROVE Fresh'
    BY <1>21, <1>q DEF ClosePump, callee, mirror, out
<1>22. ASSUME CloseFlush PROVE Fresh'
    BY <1>0, <1>22 DEF CloseFlush, Flush, callee, conv, mirror, CTypeOK, Fresh, HeardFirst,
        Silent
<1>23. ASSUME CloseTerminate PROVE Fresh'
  <2>1. CASE active # 0
    <3>1. active \in Gens /\ Bury(active) /\ Terminate("close", active) /\ UNCHANGED <<flushed, gens, adm>>
      BY <2>1, <1>0, <1>23, CallAssumption DEF CloseTerminate, callee, CTypeOK
    <3>2. entry' = entry \/ entry' = NoEntry
      BY <3>1, TerminateEntry
    <3> QED
      BY <3>1, <3>2, <1>0, BuryActive
  <2>2. CASE ~(active # 0)
    BY <2>2, <1>0, <1>23 DEF CloseTerminate, callee, mirror, Fresh
  <2> QED
    BY <2>1, <2>2
<1>24. ASSUME CloseDone PROVE Fresh'
    BY <1>24, <1>q DEF CloseDone, callee, conv, mirror, out
<1>25. ASSUME PopEntry PROVE Fresh'
    BY <1>0, <1>25 DEF PopEntry, NoEntry, Settled, callee, mirror, out, CTypeOK, Fresh,
        HeardFirst, Silent
<1>26. ASSUME Interrupt PROVE Fresh'
    BY <1>0, <1>26 DEF Interrupt, Spend, callee, mirror, out, CTypeOK, Fresh, HeardFirst,
        Silent
<1>27. ASSUME SpeechStarts PROVE Fresh'
  <2>1. CASE active # 0
    <3>1. active \in Gens /\ Bury(active) /\ Terminate("turn", active) /\ UNCHANGED <<flushed, gens, adm>>
      BY <2>1, <1>0, <1>27, CallAssumption DEF SpeechStarts, CTypeOK
    <3>2. entry' = entry \/ entry' = NoEntry
      BY <3>1, TerminateEntry
    <3> QED
      BY <3>1, <3>2, <1>0, BuryActive
  <2>2. CASE ~(active # 0)
    BY <2>2, <1>0, <1>27 DEF SpeechStarts, mirror, Fresh
  <2> QED
    BY <2>1, <2>2
<1>28. ASSUME Teardown PROVE Fresh'
    BY <1>28, <1>q DEF Teardown, callee, conv, mirror, out
<1>29. ASSUME StreamFails PROVE Fresh'
    BY <1>0, <1>29 DEF StreamFails, Bury, Closing, NoEntry, Terminate, To, callee, CTypeOK,
        Fresh, HeardFirst, Silent
<1>30. ASSUME StreamEnds PROVE Fresh'
    BY <1>30, <1>q DEF StreamEnds, callee, conv, mirror, out
<1>31. ASSUME InterruptFails PROVE Fresh'
    BY <1>31, <1>q DEF InterruptFails, conv, mirror, out
<1>32. ASSUME NEW g \in Gens, OutputAudio(g) PROVE Fresh'
    BY <1>32, <1>q DEF OutputAudio, callee, conv
<1>33. ASSUME NEW g \in Gens, ResponseCompleted(g) PROVE Fresh'
  <2>1. CASE PlaysOut(g)
    <3>1. active = g /\ done' = done \cup {g} /\ UNCHANGED <<entry, active, tomb, flushed, gens, adm>>
      BY <2>1, <1>33 DEF ResponseCompleted, callee, out
    <3>2. gens \in Nat /\ g \in 1..gens
      BY <3>1, <1>0, CallAssumption DEF CTypeOK, Fresh
    <3> QED
      BY <3>1, <3>2, <1>0 DEF Fresh
  <2>2. CASE ~PlaysOut(g)
    <3>1. active \in Gens /\ Bury(active) /\ UNCHANGED <<entry, flushed, gens, adm>>
      BY <2>2, <1>33 DEF ResponseCompleted, callee, out
    <3> QED
      BY <3>1, <1>0, BuryActive
  <2> QED
    BY <2>1, <2>2
<1>34. ASSUME NEW g \in Gens, ResponseCancelled(g) PROVE Fresh'
  <2>1. active \in Gens /\ Bury(active) /\ Terminate("pump", g) /\ UNCHANGED <<flushed, gens, adm>>
    BY <1>34 DEF ResponseCancelled, callee, out
  <2>2. entry' = entry \/ entry' = NoEntry
    BY <2>1, TerminateEntry
  <2> QED
    BY <2>1, <2>2, <1>0, BuryActive
<1>35. ASSUME NEW g \in Gens, NEW how \in {"ended", "stopped"}, Acknowledge(g, how) PROVE Fresh'
    BY <1>35, <1>q DEF Acknowledge, callee, conv, mirror, out
<1> QED
    BY <1>1, <1>2, <1>3, <1>4, <1>5, <1>6, <1>7, <1>8, <1>9, <1>10, <1>11, <1>12, <1>13, <1>14,
        <1>15, <1>16, <1>17, <1>18, <1>19, <1>20, <1>21, <1>22, <1>23, <1>24, <1>25, <1>26,
        <1>27, <1>28, <1>29, <1>30, <1>31, <1>32, <1>33, <1>34, <1>35 DEF Next, ConvStep,
        PumpStep, TimerStep, TurnStep, AdmitStep, CloseStep

LEMMA CommitSays ==
  ASSUME CTypeOK, NEW g \in Gens, NEW fact, Join(g, fact)
  PROVE  /\ \A h \in Gens : seg[h] \subseteq seg'[h]
         /\ spoke' # spoke => "spoken" \in seg'[g]
<1>1. seg \in [Gens -> SUBSET Facts] /\ spoke \in [Gens -> Nat]
  BY DEF CTypeOK
<1>2. \A h \in Gens : seg[h] \subseteq seg'[h]
  BY <1>1 DEF Join
<1>3. ASSUME ~MayCommit(g, seg[g] \cup {fact}) PROVE spoke' = spoke
  BY <1>1, <1>3 DEF Join
<1>4. ASSUME MayCommit(g, seg[g] \cup {fact}) PROVE "spoken" \in seg'[g]
  BY <1>1, <1>4 DEF Join
<1> QED
  BY <1>2, <1>3, <1>4

LEMMA HeardStep == ASSUME CInv, Next PROVE HeardFirst'
<1>0. CTypeOK /\ Bound /\ Fresh /\ HeardFirst
    BY DEF CInv
<1> USE DEF Gens
<1>q. ASSUME UNCHANGED <<notice, seg, pump, done, audio, tomb, comp, row>> PROVE HeardFirst'
    BY <1>0, <1>q DEF HeardFirst, Heard
<1>1. ASSUME NEW g \in Gens, BeginCompletion(g) PROVE HeardFirst'
    BY <1>0, <1>1 DEF BeginCompletion, mirror, play, CTypeOK, Fresh, HeardFirst, Heard
<1>2. ASSUME NEW g \in Gens, CommitCompletion(g) PROVE HeardFirst'
    BY <1>0, <1>2 DEF CommitCompletion, NoEntry, mirror, play, CTypeOK, Fresh, HeardFirst,
        Heard
<1>3. ASSUME NEW g \in Gens, Notify(g) PROVE HeardFirst'
  <2>0. /\ "spoken" \in seg[g] /\ notice' \subseteq notice /\ Confirmed(g)
        /\ UNCHANGED <<row, seg, pump, entry>>
      BY <1>0, <1>3 DEF Notify, HeardFirst
  <2>1. CASE ~Closing /\ active = g /\ g \in done
    <3>1. /\ tomb \subseteq tomb' /\ UNCHANGED <<audio, done>>
          /\ comp' = [comp EXCEPT ![g] = IF entry.gen = g THEN "context" ELSE @]
        BY <2>0, <2>1 DEF Confirmed, Bury, Completing
    <3>2. \A h \in Gens : h # g => comp'[h] = comp[h]
        BY <3>1 DEF CTypeOK
    <3> QED
        BY <1>0, <2>0, <2>1, <3>1, <3>2 DEF HeardFirst, Heard
  <2>2. CASE ~(~Closing /\ active = g /\ g \in done)
      BY <1>0, <2>0, <2>2 DEF Confirmed, mirror, HeardFirst, Heard
  <2> QED
      BY <2>1, <2>2
<1>4. ASSUME NEW g \in Gens, NEW who \in Askers, Settle(who, g) PROVE HeardFirst'
    BY <1>0, <1>4 DEF Settle, mirror, play, CTypeOK, Fresh, HeardFirst, Heard
<1>5. ASSUME Register PROVE HeardFirst'
    BY <1>0, <1>5 DEF Register, To, conv, mirror, CTypeOK, Fresh, HeardFirst, Heard
<1>6. ASSUME PushFrame PROVE HeardFirst'
    BY <1>0, <1>6 DEF PushFrame, To, conv, mirror, play, CTypeOK, Fresh, HeardFirst, Heard
<1>7. ASSUME FinalizeStop PROVE HeardFirst'
    BY <1>0, <1>7 DEF FinalizeStop, Closing, To, Wanted, conv, mirror, play, CTypeOK, Fresh,
        HeardFirst, Heard
<1>8. ASSUME FinalizeDuration PROVE HeardFirst'
    BY <1>0, <1>8 DEF FinalizeDuration, Closing, Join, MayCommit, To, Wanted, conv, mirror,
        CTypeOK, Fresh, HeardFirst, Heard
<1>9. ASSUME FinalizeMarker PROVE HeardFirst'
    BY <1>0, <1>9 DEF FinalizeMarker, To, conv, mirror, play, CTypeOK, Fresh, HeardFirst, Heard
<1>10. ASSUME AttachTranscript PROVE HeardFirst'
  <2>0. pump.gen \in Gens /\ pump.gen \in done
    BY <1>0, <1>10 DEF AttachTranscript, Bound, HeardFirst
  <2>1. /\ \A h \in Gens : seg[h] \subseteq seg'[h]
        /\ spoke' # spoke => "spoken" \in seg'[pump.gen]
    <3>1. CASE "registered" \in seg[pump.gen]
      BY <3>1, <1>0, <1>10, <2>0, CommitSays DEF AttachTranscript
    <3>2. CASE "registered" \notin seg[pump.gen]
      BY <3>2, <1>10 DEF AttachTranscript
    <3> QED
      BY <3>1, <3>2
  <2>2. UNCHANGED <<row, comp, notice, tomb, done, audio>>
    BY <1>10 DEF AttachTranscript, conv, mirror
  <2>3. pump' = [at |-> "wait", gen |-> 0]
        \/ (pump' = [at |-> "listen", gen |-> pump.gen] /\ spoke' # spoke)
    BY <1>10 DEF AttachTranscript, To
  <2>4. \A h \in Gens : Heard(h) => Heard(h)'
    BY <2>1, <2>2 DEF Heard
  <2>5. /\ pump'.at \in {"stop", "duration", "marker", "attach"} => pump'.gen \in done'
        /\ pump'.at \in {"listen", "again", "complete"} =>
              Heard(pump.gen)' /\ (pump.gen \in tomb \cup done)'
    BY <2>0, <2>1, <2>2, <2>3 DEF Heard
  <2>6. /\ \A h \in notice' : "spoken" \in seg'[h]
        /\ \A h \in Gens : comp'[h] # "none" \/ row'[h] = "completed" =>
              Heard(h)' /\ h \in tomb' \cup done'
    BY <1>0, <2>1, <2>2, <2>4 DEF HeardFirst, CTypeOK
  <2> QED
    BY <2>5, <2>6 DEF HeardFirst, Heard
<1>11. ASSUME PumpConfirms PROVE HeardFirst'
  <2>0. pump.gen \in Gens /\ Heard(pump.gen) /\ pump.gen \in tomb \cup done
    BY <1>0, <1>11 DEF PumpConfirms, Bound, HeardFirst
  <2>1. /\ UNCHANGED <<row, seg, notice, audio, done>> /\ tomb \subseteq tomb'
        /\ pump' \in {[at |-> "complete", gen |-> pump.gen], [at |-> "again", gen |-> pump.gen]}
    BY <1>11 DEF PumpConfirms, Confirmed, Bury, To, mirror, play
  <2>2. \A h \in Gens : h # pump.gen => comp'[h] = comp[h]
    BY <1>0, <1>11 DEF PumpConfirms, Confirmed, Completing, CTypeOK
  <2>3. \A h \in Gens : comp'[h] # "none" \/ row'[h] = "completed" =>
              Heard(h)' /\ h \in tomb' \cup done'
    BY <1>0, <2>0, <2>1, <2>2 DEF HeardFirst, Heard
  <2>4. /\ pump'.gen = pump.gen /\ pump'.at \in {"complete", "again"}
        /\ Heard(pump.gen)' /\ (pump.gen \in tomb \cup done)'
    BY <2>0, <2>1 DEF Heard
  <2> QED
    BY <1>0, <2>1, <2>3, <2>4 DEF HeardFirst, Heard
<1>12. ASSUME PumpCompletesAgain PROVE HeardFirst'
    BY <1>0, <1>12 DEF PumpCompletesAgain, Armed, Closing, Completing, To, Wanted, mirror,
        play, CTypeOK, Fresh, HeardFirst, Heard
<1>13. ASSUME PumpCancelled PROVE HeardFirst'
    BY <1>0, <1>13 DEF PumpCancelled, Settled, To, conv, mirror, play, CTypeOK, Fresh,
        HeardFirst, Heard
<1>14. ASSUME NEW g \in Gens, AckDeadline(g) PROVE HeardFirst'
    BY <1>0, <1>14 DEF AckDeadline, Bury, NoEntry, Terminate, mirror, play, CTypeOK, Fresh,
        HeardFirst, Heard
<1>15. ASSUME FlushTurn PROVE HeardFirst'
    BY <1>0, <1>15 DEF FlushTurn, Flush, Settled, conv, mirror, play, CTypeOK, Fresh,
        HeardFirst, Heard
<1>16. ASSUME Interrupted PROVE HeardFirst'
    BY <1>16, <1>q DEF Interrupted, conv, mirror, play
<1>17. ASSUME Admit PROVE HeardFirst'
    BY <1>17, <1>q DEF Admit, mirror, play
<1>18. ASSUME AdmissionCommits PROVE HeardFirst'
    BY <1>0, <1>18 DEF AdmissionCommits, NoEntry, mirror, play, CTypeOK, Fresh, HeardFirst,
        Heard
<1>19. ASSUME AdmissionRegisters PROVE HeardFirst'
    BY <1>19, <1>q DEF AdmissionRegisters, play
<1>20. ASSUME AdmissionCancelled PROVE HeardFirst'
    BY <1>20, <1>q DEF AdmissionCancelled, conv, mirror, play
<1>21. ASSUME ClosePump PROVE HeardFirst'
  <2>1. UNCHANGED <<row, seg, notice, audio, done, tomb>>
    BY <1>21 DEF ClosePump, mirror, play
  <2>2. pump' = pump \/ pump' = [at |-> "dead", gen |-> 0]
    BY <1>21 DEF ClosePump
  <2>3. \A h \in Gens : comp'[h] # "none" => comp[h] # "none"
    BY <1>0, <1>21 DEF ClosePump, CTypeOK
  <2> QED
    BY <1>0, <2>1, <2>2, <2>3 DEF HeardFirst, Heard
<1>22. ASSUME CloseFlush PROVE HeardFirst'
    BY <1>0, <1>22 DEF CloseFlush, Flush, conv, mirror, play, CTypeOK, Fresh, HeardFirst, Heard
<1>23. ASSUME CloseTerminate PROVE HeardFirst'
    BY <1>0, <1>23 DEF CloseTerminate, AdmissionOver, Bury, NoEntry, Terminate, mirror, play,
        CTypeOK, Fresh, HeardFirst, Heard
<1>24. ASSUME CloseDone PROVE HeardFirst'
    BY <1>24, <1>q DEF CloseDone, conv, mirror, play
<1>25. ASSUME PopEntry PROVE HeardFirst'
    BY <1>25, <1>q DEF PopEntry, mirror, play
<1>26. ASSUME Interrupt PROVE HeardFirst'
    BY <1>26, <1>q DEF Interrupt, mirror, play
<1>27. ASSUME SpeechStarts PROVE HeardFirst'
    BY <1>0, <1>27 DEF SpeechStarts, Bury, Closing, NoEntry, Terminate, mirror, play, CTypeOK,
        Fresh, HeardFirst, Heard
<1>28. ASSUME Teardown PROVE HeardFirst'
    BY <1>28, <1>q DEF Teardown, conv, mirror, play
<1>29. ASSUME StreamFails PROVE HeardFirst'
    BY <1>0, <1>29 DEF StreamFails, Bury, Closing, NoEntry, Terminate, To, play, CTypeOK,
        Fresh, HeardFirst, Heard
<1>30. ASSUME StreamEnds PROVE HeardFirst'
    BY <1>0, <1>30 DEF StreamEnds, Closing, EndSession, Settled, To, conv, mirror, play,
        CTypeOK, Fresh, HeardFirst, Heard
<1>31. ASSUME InterruptFails PROVE HeardFirst'
    BY <1>31, <1>q DEF InterruptFails, conv, mirror, play
<1>32. ASSUME NEW g \in Gens, OutputAudio(g) PROVE HeardFirst'
    BY <1>0, <1>32 DEF OutputAudio, Closing, To, conv, play, CTypeOK, Fresh, HeardFirst, Heard
<1>33. ASSUME NEW g \in Gens, ResponseCompleted(g) PROVE HeardFirst'
  <2>1. CASE PlaysOut(g)
    <3>1. /\ done' = done \cup {g} /\ UNCHANGED <<row, comp, seg, notice, audio, tomb>>
          /\ pump' \in {[at |-> "stop", gen |-> g], [at |-> "attach", gen |-> g]}
      BY <2>1, <1>33 DEF ResponseCompleted, To, play
    <3> QED
      BY <1>0, <3>1 DEF HeardFirst, Heard
  <2>2. CASE ~PlaysOut(g)
    <3>1. /\ tomb' = tomb \cup {g} /\ UNCHANGED <<row, seg, notice, audio, done>>
          /\ pump' \in {[at |-> "complete", gen |-> g], [at |-> "wait", gen |-> g]}
      BY <2>2, <1>33 DEF ResponseCompleted, Bury, To, play
    <3>2. \A h \in Gens : h # g => comp'[h] = comp[h]
      BY <2>2, <1>0, <1>33 DEF ResponseCompleted, Completing, CTypeOK
    <3>3. Heard(g)'
      BY <2>2, <3>1 DEF PlaysOut, Heard
    <3>4. \A h \in Gens : comp'[h] # "none" \/ row'[h] = "completed" =>
              Heard(h)' /\ h \in tomb' \cup done'
      BY <1>0, <3>1, <3>2, <3>3 DEF HeardFirst, Heard
    <3> QED
      BY <1>0, <3>1, <3>3, <3>4 DEF HeardFirst, Heard
  <2> QED
    BY <2>1, <2>2
<1>34. ASSUME NEW g \in Gens, ResponseCancelled(g) PROVE HeardFirst'
    BY <1>0, <1>34 DEF ResponseCancelled, Bury, Closing, NoEntry, Terminate, To, play, CTypeOK,
        Fresh, HeardFirst, Heard
<1>35. ASSUME NEW g \in Gens, NEW how \in {"ended", "stopped"}, Acknowledge(g, how) PROVE HeardFirst'
    BY <1>0, <1>35 DEF Acknowledge, Join, MayCommit, conv, mirror, CTypeOK, Fresh, HeardFirst,
        Heard
<1> QED
    BY <1>1, <1>2, <1>3, <1>4, <1>5, <1>6, <1>7, <1>8, <1>9, <1>10, <1>11, <1>12, <1>13, <1>14,
        <1>15, <1>16, <1>17, <1>18, <1>19, <1>20, <1>21, <1>22, <1>23, <1>24, <1>25, <1>26,
        <1>27, <1>28, <1>29, <1>30, <1>31, <1>32, <1>33, <1>34, <1>35 DEF Next, ConvStep,
        PumpStep, TimerStep, TurnStep, AdmitStep, CloseStep

LEMMA SilentStep == ASSUME CInv, Next PROVE Silent'
<1>0. CTypeOK /\ Fresh /\ Silent /\ Left
    BY DEF CInv
<1> USE DEF Gens
<1>q. ASSUME UNCHANGED <<downstream, flushed, pump, turn, adm, closer, active, gens>> PROVE Silent'
    BY <1>0, <1>q DEF Silent, Closing
<1>1. ASSUME NEW g \in Gens, BeginCompletion(g) PROVE Silent'
    BY <1>0, <1>1 DEF BeginCompletion, callee, mirror, out, CTypeOK, Fresh, Silent, Left,
        Closing
<1>2. ASSUME NEW g \in Gens, CommitCompletion(g) PROVE Silent'
    BY <1>0, <1>2 DEF CommitCompletion, NoEntry, callee, mirror, out, CTypeOK, Fresh, Silent,
        Left, Closing
<1>3. ASSUME NEW g \in Gens, Notify(g) PROVE Silent'
    BY <1>0, <1>3 DEF Notify, Bury, Closing, Completing, Confirmed, callee, mirror, CTypeOK,
        Fresh, Silent, Left
<1>4. ASSUME NEW g \in Gens, NEW who \in Askers, Settle(who, g) PROVE Silent'
    BY <1>4, <1>q DEF Settle, callee, mirror, out
<1>5. ASSUME Register PROVE Silent'
    BY <1>0, <1>5 DEF Register, To, callee, mirror, CTypeOK, Fresh, Silent, Left, Closing
<1>6. ASSUME PushFrame PROVE Silent'
  <2>1. /\ downstream' = downstream \cup {pump.gen} /\ pump.gen \notin flushed
        /\ pump'.at = "wait" /\ UNCHANGED <<flushed, turn, adm, closer, active, gens>>
    BY <1>0, <1>6 DEF PushFrame, To, callee, mirror, Silent
  <2> QED
    BY <1>0, <2>1 DEF Silent, Closing
<1>7. ASSUME FinalizeStop PROVE Silent'
    BY <1>0, <1>7 DEF FinalizeStop, Closing, To, Wanted, callee, mirror, out, CTypeOK, Fresh,
        Silent, Left
<1>8. ASSUME FinalizeDuration PROVE Silent'
    BY <1>0, <1>8 DEF FinalizeDuration, Closing, Join, MayCommit, To, Wanted, callee, mirror,
        out, CTypeOK, Fresh, Silent, Left
<1>9. ASSUME FinalizeMarker PROVE Silent'
    BY <1>0, <1>9 DEF FinalizeMarker, To, callee, mirror, CTypeOK, Fresh, Silent, Left, Closing
<1>10. ASSUME AttachTranscript PROVE Silent'
    BY <1>0, <1>10 DEF AttachTranscript, Armed, Closing, Join, MayCommit, To, Wanted, callee,
        mirror, out, CTypeOK, Fresh, Silent, Left
<1>11. ASSUME PumpConfirms PROVE Silent'
    BY <1>0, <1>11 DEF PumpConfirms, Bury, Closing, Completing, Confirmed, To, callee, mirror,
        CTypeOK, Fresh, Silent, Left
<1>12. ASSUME PumpCompletesAgain PROVE Silent'
    BY <1>0, <1>12 DEF PumpCompletesAgain, Armed, Closing, Completing, To, Wanted, callee,
        mirror, out, CTypeOK, Fresh, Silent, Left
<1>13. ASSUME PumpCancelled PROVE Silent'
    BY <1>0, <1>13 DEF PumpCancelled, Settled, To, callee, mirror, out, CTypeOK, Fresh, Silent,
        Left, Closing
<1>14. ASSUME NEW g \in Gens, AckDeadline(g) PROVE Silent'
    BY <1>0, <1>14 DEF AckDeadline, Bury, NoEntry, Terminate, callee, mirror, CTypeOK, Fresh,
        Silent, Left, Closing
<1>15. ASSUME FlushTurn PROVE Silent'
    BY <1>0, <1>15 DEF FlushTurn, Flush, Settled, mirror, CTypeOK, Fresh, Silent, Left, Closing
<1>16. ASSUME Interrupted PROVE Silent'
    BY <1>0, <1>16 DEF Interrupted, mirror, out, CTypeOK, Fresh, Silent, Left, Closing
<1>17. ASSUME Admit PROVE Silent'
    BY <1>0, <1>17 DEF Admit, Closing, NoEntry, mirror, out, CTypeOK, Fresh, Silent, Left
<1>18. ASSUME AdmissionCommits PROVE Silent'
    BY <1>0, <1>18 DEF AdmissionCommits, NoEntry, mirror, out, CTypeOK, Fresh, Silent, Left,
        Closing
<1>19. ASSUME AdmissionRegisters PROVE Silent'
    BY <1>0, <1>19 DEF AdmissionRegisters, Closing, NoEntry, Terminate, out, CTypeOK, Fresh,
        Silent, Left
<1>20. ASSUME AdmissionCancelled PROVE Silent'
    BY <1>0, <1>20 DEF AdmissionCancelled, Settled, mirror, out, CTypeOK, Fresh, Silent, Left,
        Closing
<1>21. ASSUME ClosePump PROVE Silent'
    BY <1>0, <1>21 DEF ClosePump, callee, mirror, out, CTypeOK, Fresh, Silent, Left, Closing
<1>22. ASSUME CloseFlush PROVE Silent'
    BY <1>0, <1>22 DEF CloseFlush, Flush, callee, mirror, CTypeOK, Fresh, Silent, Left, Closing
<1>23. ASSUME CloseTerminate PROVE Silent'
    BY <1>0, <1>23 DEF CloseTerminate, AdmissionOver, Bury, NoEntry, Terminate, callee, mirror,
        CTypeOK, Fresh, Silent, Left, Closing
<1>24. ASSUME CloseDone PROVE Silent'
    BY <1>0, <1>24 DEF CloseDone, Settled, callee, mirror, out, CTypeOK, Fresh, Silent, Left,
        Closing
<1>25. ASSUME PopEntry PROVE Silent'
    BY <1>25, <1>q DEF PopEntry, callee, mirror, out
<1>26. ASSUME Interrupt PROVE Silent'
    BY <1>26, <1>q DEF Interrupt, callee, mirror, out
<1>27. ASSUME SpeechStarts PROVE Silent'
    BY <1>0, <1>27 DEF SpeechStarts, Bury, Closing, NoEntry, Terminate, mirror, CTypeOK, Fresh,
        Silent, Left
<1>28. ASSUME Teardown PROVE Silent'
    BY <1>0, <1>28 DEF Teardown, Closing, EndSession, callee, mirror, out, CTypeOK, Fresh,
        Silent, Left
<1>29. ASSUME StreamFails PROVE Silent'
    BY <1>0, <1>29 DEF StreamFails, Bury, Closing, NoEntry, Terminate, To, callee, CTypeOK,
        Fresh, Silent, Left
<1>30. ASSUME StreamEnds PROVE Silent'
    BY <1>0, <1>30 DEF StreamEnds, Closing, EndSession, Settled, To, callee, mirror, out,
        CTypeOK, Fresh, Silent, Left
<1>31. ASSUME InterruptFails PROVE Silent'
    BY <1>0, <1>31 DEF InterruptFails, Closing, EndSession, Spend, mirror, out, CTypeOK, Fresh,
        Silent, Left
<1>32. ASSUME NEW g \in Gens, OutputAudio(g) PROVE Silent'
    BY <1>0, <1>32 DEF OutputAudio, Closing, To, callee, CTypeOK, Fresh, Silent, Left
<1>33. ASSUME NEW g \in Gens, ResponseCompleted(g) PROVE Silent'
    BY <1>0, <1>33 DEF ResponseCompleted, Bury, Closing, Completing, PlaysOut, To, callee, out,
        CTypeOK, Fresh, Silent, Left
<1>34. ASSUME NEW g \in Gens, ResponseCancelled(g) PROVE Silent'
    BY <1>0, <1>34 DEF ResponseCancelled, Bury, Closing, NoEntry, Terminate, To, callee, out,
        CTypeOK, Fresh, Silent, Left
<1>35. ASSUME NEW g \in Gens, NEW how \in {"ended", "stopped"}, Acknowledge(g, how) PROVE Silent'
    BY <1>35, <1>q DEF Acknowledge, callee, mirror, out
<1> QED
    BY <1>1, <1>2, <1>3, <1>4, <1>5, <1>6, <1>7, <1>8, <1>9, <1>10, <1>11, <1>12, <1>13, <1>14,
        <1>15, <1>16, <1>17, <1>18, <1>19, <1>20, <1>21, <1>22, <1>23, <1>24, <1>25, <1>26,
        <1>27, <1>28, <1>29, <1>30, <1>31, <1>32, <1>33, <1>34, <1>35 DEF Next, ConvStep,
        PumpStep, TimerStep, TurnStep, AdmitStep, CloseStep

LEMMA LeftStep == ASSUME CInv, Next PROVE Left'
<1>0. CTypeOK /\ Fresh /\ Silent /\ Left
    BY DEF CInv
<1> USE DEF Gens
<1>q. ASSUME UNCHANGED <<closer, timers, pump, downstream, active, adm>> PROVE Left'
    BY <1>0, <1>q DEF Left, Closing
<1>1. ASSUME NEW g \in Gens, BeginCompletion(g) PROVE Left'
    BY <1>0, <1>1 DEF BeginCompletion, callee, mirror, out, CTypeOK, Silent, Left, Closing
<1>2. ASSUME NEW g \in Gens, CommitCompletion(g) PROVE Left'
    BY <1>0, <1>2 DEF CommitCompletion, NoEntry, callee, mirror, out, CTypeOK, Silent, Left,
        Closing
<1>3. ASSUME NEW g \in Gens, Notify(g) PROVE Left'
    BY <1>0, <1>3 DEF Notify, Bury, Closing, Completing, Confirmed, callee, mirror, CTypeOK,
        Silent, Left
<1>4. ASSUME NEW g \in Gens, NEW who \in Askers, Settle(who, g) PROVE Left'
    BY <1>4, <1>q DEF Settle, callee, mirror, out
<1>5. ASSUME Register PROVE Left'
    BY <1>0, <1>5 DEF Register, To, callee, mirror, CTypeOK, Silent, Left, Closing
<1>6. ASSUME PushFrame PROVE Left'
    BY <1>0, <1>6 DEF PushFrame, To, callee, mirror, CTypeOK, Silent, Left, Closing
<1>7. ASSUME FinalizeStop PROVE Left'
    BY <1>0, <1>7 DEF FinalizeStop, Closing, To, Wanted, callee, mirror, out, CTypeOK, Silent,
        Left
<1>8. ASSUME FinalizeDuration PROVE Left'
    BY <1>0, <1>8 DEF FinalizeDuration, Closing, Join, MayCommit, To, Wanted, callee, mirror,
        out, CTypeOK, Silent, Left
<1>9. ASSUME FinalizeMarker PROVE Left'
    BY <1>0, <1>9 DEF FinalizeMarker, To, callee, mirror, CTypeOK, Silent, Left, Closing
<1>10. ASSUME AttachTranscript PROVE Left'
    BY <1>0, <1>10 DEF AttachTranscript, Armed, Closing, Join, MayCommit, To, Wanted, callee,
        mirror, out, CTypeOK, Silent, Left
<1>11. ASSUME PumpConfirms PROVE Left'
    BY <1>0, <1>11 DEF PumpConfirms, Bury, Closing, Completing, Confirmed, To, callee, mirror,
        CTypeOK, Silent, Left
<1>12. ASSUME PumpCompletesAgain PROVE Left'
    BY <1>0, <1>12 DEF PumpCompletesAgain, Armed, Closing, Completing, To, Wanted, callee,
        mirror, out, CTypeOK, Silent, Left
<1>13. ASSUME PumpCancelled PROVE Left'
    BY <1>0, <1>13 DEF PumpCancelled, Settled, To, callee, mirror, out, CTypeOK, Silent, Left,
        Closing
<1>14. ASSUME NEW g \in Gens, AckDeadline(g) PROVE Left'
    BY <1>0, <1>14 DEF AckDeadline, Bury, NoEntry, Terminate, callee, mirror, CTypeOK, Silent,
        Left, Closing
<1>15. ASSUME FlushTurn PROVE Left'
    BY <1>0, <1>15 DEF FlushTurn, Flush, Settled, mirror, CTypeOK, Silent, Left, Closing
<1>16. ASSUME Interrupted PROVE Left'
    BY <1>16, <1>q DEF Interrupted, mirror, out
<1>17. ASSUME Admit PROVE Left'
    BY <1>0, <1>17 DEF Admit, Closing, NoEntry, mirror, out, CTypeOK, Silent, Left
<1>18. ASSUME AdmissionCommits PROVE Left'
    BY <1>0, <1>18 DEF AdmissionCommits, NoEntry, mirror, out, CTypeOK, Silent, Left, Closing
<1>19. ASSUME AdmissionRegisters PROVE Left'
    BY <1>0, <1>19 DEF AdmissionRegisters, Closing, NoEntry, Terminate, out, CTypeOK, Silent,
        Left
<1>20. ASSUME AdmissionCancelled PROVE Left'
    BY <1>0, <1>20 DEF AdmissionCancelled, Settled, mirror, out, CTypeOK, Silent, Left, Closing
<1>21. ASSUME ClosePump PROVE Left'
    BY <1>0, <1>21 DEF ClosePump, callee, mirror, out, CTypeOK, Silent, Left, Closing
<1>22. ASSUME CloseFlush PROVE Left'
    BY <1>0, <1>22 DEF CloseFlush, Flush, callee, mirror, CTypeOK, Silent, Left, Closing
<1>23. ASSUME CloseTerminate PROVE Left'
    BY <1>0, <1>23 DEF CloseTerminate, AdmissionOver, Bury, NoEntry, Terminate, callee, mirror,
        CTypeOK, Silent, Left, Closing
<1>24. ASSUME CloseDone PROVE Left'
    BY <1>0, <1>24 DEF CloseDone, Settled, callee, mirror, out, CTypeOK, Silent, Left, Closing
<1>25. ASSUME PopEntry PROVE Left'
    BY <1>25, <1>q DEF PopEntry, callee, mirror, out
<1>26. ASSUME Interrupt PROVE Left'
    BY <1>26, <1>q DEF Interrupt, callee, mirror, out
<1>27. ASSUME SpeechStarts PROVE Left'
    BY <1>0, <1>27 DEF SpeechStarts, Bury, Closing, NoEntry, Terminate, mirror, CTypeOK,
        Silent, Left
<1>28. ASSUME Teardown PROVE Left'
    BY <1>0, <1>28 DEF Teardown, Closing, EndSession, callee, mirror, out, CTypeOK, Silent,
        Left
<1>29. ASSUME StreamFails PROVE Left'
    BY <1>0, <1>29 DEF StreamFails, Bury, Closing, NoEntry, Terminate, To, callee, CTypeOK,
        Silent, Left
<1>30. ASSUME StreamEnds PROVE Left'
    BY <1>0, <1>30 DEF StreamEnds, Closing, EndSession, Settled, To, callee, mirror, out,
        CTypeOK, Silent, Left
<1>31. ASSUME InterruptFails PROVE Left'
    BY <1>0, <1>31 DEF InterruptFails, Closing, EndSession, Spend, mirror, out, CTypeOK,
        Silent, Left
<1>32. ASSUME NEW g \in Gens, OutputAudio(g) PROVE Left'
    BY <1>0, <1>32 DEF OutputAudio, Closing, To, callee, CTypeOK, Silent, Left
<1>33. ASSUME NEW g \in Gens, ResponseCompleted(g) PROVE Left'
    BY <1>0, <1>33 DEF ResponseCompleted, Bury, Closing, Completing, PlaysOut, To, callee, out,
        CTypeOK, Silent, Left
<1>34. ASSUME NEW g \in Gens, ResponseCancelled(g) PROVE Left'
    BY <1>0, <1>34 DEF ResponseCancelled, Bury, Closing, NoEntry, Terminate, To, callee, out,
        CTypeOK, Silent, Left
<1>35. ASSUME NEW g \in Gens, NEW how \in {"ended", "stopped"}, Acknowledge(g, how) PROVE Left'
    BY <1>35, <1>q DEF Acknowledge, callee, mirror, out
<1> QED
    BY <1>1, <1>2, <1>3, <1>4, <1>5, <1>6, <1>7, <1>8, <1>9, <1>10, <1>11, <1>12, <1>13, <1>14,
        <1>15, <1>16, <1>17, <1>18, <1>19, <1>20, <1>21, <1>22, <1>23, <1>24, <1>25, <1>26,
        <1>27, <1>28, <1>29, <1>30, <1>31, <1>32, <1>33, <1>34, <1>35 DEF Next, ConvStep,
        PumpStep, TimerStep, TurnStep, AdmitStep, CloseStep

LEMMA OwnedStep == ASSUME CInv, Next PROVE Owned'
<1>0. CTypeOK /\ Fresh /\ Silent /\ Owned
    BY DEF CInv
<1> USE DEF Gens
<1>q. ASSUME UNCHANGED <<row, tomb, active, gens, adm, ending>> PROVE Owned'
    BY <1>0, <1>q DEF Owned
<1>1. ASSUME NEW g \in Gens, BeginCompletion(g) PROVE Owned'
    BY <1>1, <1>q DEF BeginCompletion, callee, mirror
<1>2. ASSUME NEW g \in Gens, CommitCompletion(g) PROVE Owned'
    BY <1>0, <1>2 DEF CommitCompletion, NoEntry, callee, mirror, CTypeOK, Fresh, Silent, Owned
<1>3. ASSUME NEW g \in Gens, Notify(g) PROVE Owned'
    BY <1>0, <1>3 DEF Notify, Bury, Closing, Completing, Confirmed, callee, mirror, CTypeOK,
        Fresh, Silent, Owned
<1>4. ASSUME NEW g \in Gens, NEW who \in Askers, Settle(who, g) PROVE Owned'
    BY <1>0, <1>4 DEF Settle, callee, mirror, CTypeOK, Fresh, Silent, Owned
<1>5. ASSUME Register PROVE Owned'
    BY <1>5, <1>q DEF Register, callee, conv, mirror
<1>6. ASSUME PushFrame PROVE Owned'
    BY <1>6, <1>q DEF PushFrame, callee, conv, mirror
<1>7. ASSUME FinalizeStop PROVE Owned'
    BY <1>7, <1>q DEF FinalizeStop, callee, conv, mirror
<1>8. ASSUME FinalizeDuration PROVE Owned'
    BY <1>8, <1>q DEF FinalizeDuration, callee, conv, mirror
<1>9. ASSUME FinalizeMarker PROVE Owned'
    BY <1>9, <1>q DEF FinalizeMarker, callee, conv, mirror
<1>10. ASSUME AttachTranscript PROVE Owned'
    BY <1>10, <1>q DEF AttachTranscript, callee, conv, mirror
<1>11. ASSUME PumpConfirms PROVE Owned'
    BY <1>0, <1>11 DEF PumpConfirms, Bury, Closing, Completing, Confirmed, To, callee, mirror,
        CTypeOK, Fresh, Silent, Owned
<1>12. ASSUME PumpCompletesAgain PROVE Owned'
    BY <1>12, <1>q DEF PumpCompletesAgain, callee, mirror
<1>13. ASSUME PumpCancelled PROVE Owned'
    BY <1>13, <1>q DEF PumpCancelled, callee, conv, mirror
<1>14. ASSUME NEW g \in Gens, AckDeadline(g) PROVE Owned'
    BY <1>0, <1>14 DEF AckDeadline, Bury, NoEntry, Terminate, callee, mirror, CTypeOK, Fresh,
        Silent, Owned
<1>15. ASSUME FlushTurn PROVE Owned'
    BY <1>15, <1>q DEF FlushTurn, conv, mirror
<1>16. ASSUME Interrupted PROVE Owned'
    BY <1>16, <1>q DEF Interrupted, conv, mirror
<1>17. ASSUME Admit PROVE Owned'
    BY <1>0, <1>17 DEF Admit, Closing, NoEntry, mirror, CTypeOK, Fresh, Silent, Owned
<1>18. ASSUME AdmissionCommits PROVE Owned'
    BY <1>0, <1>18 DEF AdmissionCommits, NoEntry, mirror, CTypeOK, Fresh, Silent, Owned
<1>19. ASSUME AdmissionRegisters PROVE Owned'
  <2>1. UNCHANGED <<row, tomb, gens>> /\ adm = "publish"
    BY <1>19 DEF AdmissionRegisters
  <2>2. CASE Closing
    <3>1. active' = active /\ adm' = "cancel" /\ ~entry.completing /\ Terminate("admit", gens)
      BY <1>0, <1>19, <2>2 DEF AdmissionRegisters, Fresh
    <3>2. ending' = ending \cup {<<"admit", gens>>}
      BY <3>1 DEF Terminate
    <3> QED
      BY <1>0, <2>1, <3>1, <3>2 DEF Owned
  <2>3. CASE ~Closing
    <3>1. active' = gens
      BY <1>19, <2>3 DEF AdmissionRegisters
    <3>2. active = 0
      BY <1>0, <2>1, <2>3 DEF Silent
    <3> QED
      BY <1>0, <2>1, <3>1, <3>2 DEF Owned
  <2> QED
    BY <2>2, <2>3
<1>20. ASSUME AdmissionCancelled PROVE Owned'
  <2>1. /\ UNCHANGED <<row, tomb, active, gens, ending>> /\ adm = "cancel"
        /\ \A e \in ending : e[1] # "admit"
    BY <1>20 DEF AdmissionCancelled, Settled, conv, mirror
  <2>2. \A g \in Gens : <<"admit", g>> \notin ending
    BY <2>1
  <2> QED
    BY <1>0, <2>1, <2>2 DEF Owned
<1>21. ASSUME ClosePump PROVE Owned'
    BY <1>0, <1>21 DEF ClosePump, callee, mirror, CTypeOK, Fresh, Silent, Owned
<1>22. ASSUME CloseFlush PROVE Owned'
    BY <1>22, <1>q DEF CloseFlush, callee, conv, mirror
<1>23. ASSUME CloseTerminate PROVE Owned'
    BY <1>0, <1>23 DEF CloseTerminate, AdmissionOver, Bury, NoEntry, Terminate, callee, mirror,
        CTypeOK, Fresh, Silent, Owned
<1>24. ASSUME CloseDone PROVE Owned'
    BY <1>24, <1>q DEF CloseDone, callee, conv, mirror
<1>25. ASSUME PopEntry PROVE Owned'
    BY <1>25, <1>q DEF PopEntry, callee, mirror
<1>26. ASSUME Interrupt PROVE Owned'
    BY <1>0, <1>26 DEF Interrupt, Spend, callee, mirror, CTypeOK, Fresh, Silent, Owned
<1>27. ASSUME SpeechStarts PROVE Owned'
    BY <1>0, <1>27 DEF SpeechStarts, Bury, Closing, NoEntry, Terminate, mirror, CTypeOK, Fresh,
        Silent, Owned
<1>28. ASSUME Teardown PROVE Owned'
    BY <1>28, <1>q DEF Teardown, callee, conv, mirror
<1>29. ASSUME StreamFails PROVE Owned'
    BY <1>0, <1>29 DEF StreamFails, Bury, Closing, NoEntry, Terminate, To, callee, CTypeOK,
        Fresh, Silent, Owned
<1>30. ASSUME StreamEnds PROVE Owned'
    BY <1>30, <1>q DEF StreamEnds, callee, conv, mirror
<1>31. ASSUME InterruptFails PROVE Owned'
    BY <1>31, <1>q DEF InterruptFails, conv, mirror
<1>32. ASSUME NEW g \in Gens, OutputAudio(g) PROVE Owned'
    BY <1>32, <1>q DEF OutputAudio, callee, conv
<1>33. ASSUME NEW g \in Gens, ResponseCompleted(g) PROVE Owned'
    BY <1>0, <1>33 DEF ResponseCompleted, Bury, Closing, Completing, PlaysOut, To, callee,
        CTypeOK, Fresh, Silent, Owned
<1>34. ASSUME NEW g \in Gens, ResponseCancelled(g) PROVE Owned'
    BY <1>0, <1>34 DEF ResponseCancelled, Bury, Closing, NoEntry, Terminate, To, callee,
        CTypeOK, Fresh, Silent, Owned
<1>35. ASSUME NEW g \in Gens, NEW how \in {"ended", "stopped"}, Acknowledge(g, how) PROVE Owned'
    BY <1>35, <1>q DEF Acknowledge, callee, conv, mirror
<1> QED
    BY <1>1, <1>2, <1>3, <1>4, <1>5, <1>6, <1>7, <1>8, <1>9, <1>10, <1>11, <1>12, <1>13, <1>14,
        <1>15, <1>16, <1>17, <1>18, <1>19, <1>20, <1>21, <1>22, <1>23, <1>24, <1>25, <1>26,
        <1>27, <1>28, <1>29, <1>30, <1>31, <1>32, <1>33, <1>34, <1>35 DEF Next, ConvStep,
        PumpStep, TimerStep, TurnStep, AdmitStep, CloseStep

------------------------------------------------------------------------------
(* The invariant. *)

LEMMA InvInit == Init => CInv
<1> SUFFICES ASSUME Init PROVE CInv
  OBVIOUS
<1> USE CallAssumption DEF Init, Gens, NoEntry
<1>1. CTypeOK
  BY DEF CTypeOK, PumpStates
<1>2. Bound /\ Joined /\ Fresh
  BY DEF Bound, Joined, Fresh
<1>3. HeardFirst /\ Silent /\ Left /\ Owned
  BY DEF HeardFirst, Silent, Left, Owned, Closing
<1> QED
  BY <1>1, <1>2, <1>3 DEF CInv

LEMMA InvStep == CInv /\ [Next]_vars => CInv'
<1> SUFFICES ASSUME CInv, [Next]_vars PROVE CInv'
  OBVIOUS
<1>1. CASE Next
  BY <1>1, TypeStep, BoundStep, JoinedStep, FreshStep, HeardStep, SilentStep, LeftStep,
     OwnedStep DEF CInv
<1>2. CASE UNCHANGED vars
  <2> USE <1>2 DEF vars, conv, mirror, play, out, callee
  <2>1. CTypeOK' /\ Bound' /\ Joined' /\ Fresh'
    BY DEF CInv, CTypeOK, Bound, Joined, Fresh
  <2>2. HeardFirst' /\ Silent' /\ Left' /\ Owned'
    BY DEF CInv, HeardFirst, Heard, Silent, Left, Owned, Closing
  <2> QED
    BY <2>1, <2>2 DEF CInv
<1> QED
  BY <1>1, <1>2

LEMMA InvAlways == Spec => []CInv
  BY InvInit, InvStep, PTL DEF Spec

------------------------------------------------------------------------------
(* The promises. *)

\* The states of a call are well formed, for any bound on its utterances and setbacks.
THEOREM CallTyped == Spec => []CTypeOK
<1>1. CInv => CTypeOK
  BY DEF CInv
<1> QED
  BY <1>1, InvAlways, PTL

\* No interleaving of provider, page, deadline and interruption completes the row of a
\* reply that was cut short: complete_realtime_generation begins only after the commit
\* of the playback or for a reply without audio.
THEOREM CompletedMeansHeard == Spec => []CompletedWasHeard
<1>1. CInv => CompletedWasHeard
  BY DEF CInv, HeardFirst, Heard, CompletedWasHeard
<1> QED
  BY <1>1, InvAlways, PTL

\* A flush of the bridge is final: the frame that was being registered, the output task
\* and a reply that outlives its interruption put nothing behind it.
THEOREM NothingAfterAFlush == Spec => []FlushedStaysSilent
<1>1. CInv => FlushedStaysSilent
  BY DEF CInv, Silent, FlushedStaysSilent
<1> QED
  BY <1>1, InvAlways, PTL

\* A closed call has let go of its reply, its output and its timers, and of an utterance
\* that was admitted while it closed.
THEOREM ClosedCallOwnsNothing == Spec => []ClosedOwnsNothing
<1>1. CInv => ClosedOwnsNothing
  BY DEF CInv, Left, Owned, Closed, Closing, ClosedOwnsNothing, Gens
<1> QED
  BY <1>1, InvAlways, PTL

\* Join commits at most once, and only with every fact of the segment at hand.
LEMMA CommitIsJoined ==
  ASSUME CTypeOK, Joined, NEW g \in Gens, NEW fact \in Facts \ {"spoken"}, Join(g, fact),
         fact = "ended" => <<g, "buffered">> \in marked, NEW h \in Gens, spoke'[h] # spoke[h]
  PROVE  /\ spoke[h] = 0 /\ spoke'[h] = 1
         /\ row[h] # "cancelled" /\ <<h, "buffered">> \in marked
<1>1. seg \in [Gens -> SUBSET Facts] /\ spoke \in [Gens -> Nat]
  BY DEF CTypeOK
<1>2. h = g /\ MayCommit(g, seg[g] \cup {fact}) /\ spoke'[g] = spoke[g] + 1
  BY <1>1 DEF Join
<1>3. "spoken" \notin seg[g] /\ row[g] # "cancelled" /\ "ended" \in seg[g] \cup {fact}
  BY <1>2 DEF MayCommit
<1> QED
  BY <1>1, <1>2, <1>3 DEF Joined

\* Whichever of the duration, the transcript and the receipt of the page comes last, the
\* text is spoken once, after the whole of it was played.
THEOREM SpokenIsJoined == Spec => SpokenOnce
<1> DEFINE Right == \A g \in Gens : spoke'[g] # spoke[g] =>
                       /\ spoke[g] = 0 /\ spoke'[g] = 1
                       /\ row[g] # "cancelled" /\ <<g, "buffered">> \in marked
<1>1. ASSUME CInv, Next PROVE Right
  <2>0. CTypeOK /\ Bound /\ Joined
    BY <1>1 DEF CInv
  <2>q. ASSUME UNCHANGED spoke PROVE Right
    BY <2>q
  <2>1. ASSUME NEW g \in Gens, BeginCompletion(g) PROVE Right
    BY <2>1, <2>q DEF BeginCompletion, play
  <2>2. ASSUME NEW g \in Gens, CommitCompletion(g) PROVE Right
    BY <2>2, <2>q DEF CommitCompletion, play
  <2>3. ASSUME NEW g \in Gens, Notify(g) PROVE Right
    BY <2>3, <2>q DEF Notify
  <2>4. ASSUME NEW g \in Gens, NEW who \in Askers, Settle(who, g) PROVE Right
    BY <2>4, <2>q DEF Settle, play
  <2>5. ASSUME Register PROVE Right
    BY <2>5, <2>q DEF Register
  <2>6. ASSUME PushFrame PROVE Right
    BY <2>6, <2>q DEF PushFrame, play
  <2>7. ASSUME FinalizeStop PROVE Right
    BY <2>7, <2>q DEF FinalizeStop, play
  <2>8. ASSUME FinalizeDuration PROVE Right
    BY <2>0, <2>8, CommitIsJoined DEF FinalizeDuration, Bound, Facts
  <2>9. ASSUME FinalizeMarker PROVE Right
    BY <2>9, <2>q DEF FinalizeMarker, play
  <2>10. ASSUME AttachTranscript PROVE Right
    <3>1. CASE "registered" \in seg[pump.gen]
      BY <3>1, <2>0, <2>10, CommitIsJoined DEF AttachTranscript, Bound, Facts
    <3>2. CASE "registered" \notin seg[pump.gen]
      BY <3>2, <2>10 DEF AttachTranscript
    <3> QED
      BY <3>1, <3>2
  <2>11. ASSUME PumpConfirms PROVE Right
    BY <2>11, <2>q DEF PumpConfirms, play
  <2>12. ASSUME PumpCompletesAgain PROVE Right
    BY <2>12, <2>q DEF PumpCompletesAgain, play
  <2>13. ASSUME PumpCancelled PROVE Right
    BY <2>13, <2>q DEF PumpCancelled, play
  <2>14. ASSUME NEW g \in Gens, AckDeadline(g) PROVE Right
    BY <2>14, <2>q DEF AckDeadline, play
  <2>15. ASSUME FlushTurn PROVE Right
    BY <2>15, <2>q DEF FlushTurn, play
  <2>16. ASSUME Interrupted PROVE Right
    BY <2>16, <2>q DEF Interrupted, play
  <2>17. ASSUME Admit PROVE Right
    BY <2>17, <2>q DEF Admit, play
  <2>18. ASSUME AdmissionCommits PROVE Right
    BY <2>18, <2>q DEF AdmissionCommits, play
  <2>19. ASSUME AdmissionRegisters PROVE Right
    BY <2>19, <2>q DEF AdmissionRegisters, play
  <2>20. ASSUME AdmissionCancelled PROVE Right
    BY <2>20, <2>q DEF AdmissionCancelled, play
  <2>21. ASSUME ClosePump PROVE Right
    BY <2>21, <2>q DEF ClosePump, play
  <2>22. ASSUME CloseFlush PROVE Right
    BY <2>22, <2>q DEF CloseFlush, play
  <2>23. ASSUME CloseTerminate PROVE Right
    BY <2>23, <2>q DEF CloseTerminate, play
  <2>24. ASSUME CloseDone PROVE Right
    BY <2>24, <2>q DEF CloseDone, play
  <2>25. ASSUME PopEntry PROVE Right
    BY <2>25, <2>q DEF PopEntry, play
  <2>26. ASSUME Interrupt PROVE Right
    BY <2>26, <2>q DEF Interrupt, play
  <2>27. ASSUME SpeechStarts PROVE Right
    BY <2>27, <2>q DEF SpeechStarts, play
  <2>28. ASSUME Teardown PROVE Right
    BY <2>28, <2>q DEF Teardown, play
  <2>29. ASSUME StreamFails PROVE Right
    BY <2>29, <2>q DEF StreamFails, play
  <2>30. ASSUME StreamEnds PROVE Right
    BY <2>30, <2>q DEF StreamEnds, play
  <2>31. ASSUME InterruptFails PROVE Right
    BY <2>31, <2>q DEF InterruptFails, play
  <2>32. ASSUME NEW g \in Gens, OutputAudio(g) PROVE Right
    BY <2>32, <2>q DEF OutputAudio, play
  <2>33. ASSUME NEW g \in Gens, ResponseCompleted(g) PROVE Right
    BY <2>33, <2>q DEF ResponseCompleted, play
  <2>34. ASSUME NEW g \in Gens, ResponseCancelled(g) PROVE Right
    BY <2>34, <2>q DEF ResponseCancelled, play
  <2>35. ASSUME NEW g \in Gens, NEW how \in {"ended", "stopped"}, Acknowledge(g, how) PROVE Right
    BY <2>0, <2>35, CommitIsJoined DEF Acknowledge, Facts
  <2> QED
    BY <1>1, <2>1, <2>2, <2>3, <2>4, <2>5, <2>6, <2>7, <2>8, <2>9, <2>10, <2>11, <2>12, <2>13,
        <2>14, <2>15, <2>16, <2>17, <2>18, <2>19, <2>20, <2>21, <2>22, <2>23, <2>24, <2>25,
        <2>26, <2>27, <2>28, <2>29, <2>30, <2>31, <2>32, <2>33, <2>34, <2>35 DEF Next,
        ConvStep, PumpStep, TimerStep, TurnStep, AdmitStep, CloseStep
<1>2. CInv /\ [Next]_vars => [Right]_vars
  BY <1>1
<1> QED
  BY <1>2, InvAlways, PTL DEF Spec, SpokenOnce

================================================================================
