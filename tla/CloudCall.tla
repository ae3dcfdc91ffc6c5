------------------------------- MODULE CloudCall -------------------------------
(***************************************************************************)
(* A cloud voice call: the media bridge admits an utterance at every start *)
(* of speech and interrupts the reply before it, the event pump of the     *)
(* coordinator brings the reply of the provider, the playback service      *)
(* joins duration, transcript and the receipt of the page into what was    *)
(* spoken, and the conversation service gives the generation its verdict.  *)
(*                                                                         *)
(* A step runs from one await to the next.  A cancelled transaction has    *)
(* either committed, which is its step before the cancellation, or rolls   *)
(* back.  One provider response makes one generation; tools are left out.  *)
(***************************************************************************)
EXTENDS Naturals, FiniteSets

CONSTANTS
    MaxGens,    \* bound on the utterances of the call
    Budget      \* bound on interruptions over HTTP and failing interrupt calls

ASSUME CallAssumption == MaxGens \in Nat /\ Budget \in Nat

Gens == 1..MaxGens

VARIABLES
    row,        \* generations.state; "cancelled" stands for failed as well
    entry,      \* ConversationService._active of the session; no task in a call
    ending,     \* the cancellations of a row on their way to the database, by who asked
    comp,       \* complete_realtime_generation: where it is for each generation
    active,     \* the mirror: its active generation, or 0
    tomb,       \* its tombstones
    audio,      \* has_audio
    done,       \* provider_response_done
    open,       \* the bridge: _active_segments
    timers,     \* _missing_ack_tasks
    pump,       \* the event pump, with the output task it waits for
    seg,        \* what is known of the segment of a generation
    spoke,      \* how often its text was committed as spoken
    notice,     \* the commits whose completion listener has still to run
    marked,     \* the playback markers sent to the page
    downstream, \* the generations with output behind the bridge
    flushed,    \* those an InterruptionFrame has ended
    turn,       \* the handler of a start of speech
    gens,       \* the utterances admission has begun
    adm,        \* the admission task
    closer,     \* _end_session and its task
    user,       \* an interruption over HTTP
    budget

conv   == <<row, entry, ending, comp>>
mirror == <<active, tomb, audio, done>>
play   == <<seg, spoke, notice>>
out    == <<open, marked, downstream, flushed>>
callee == <<turn, gens, adm>>
vars   == <<conv, mirror, timers, pump, play, out, callee, closer, user, budget>>

NoEntry == [gen |-> 0, revoked |-> FALSE, completing |-> FALSE]
Closing == closer # "open"
Closed  == closer = "closed"

Init ==
    /\ row = [g \in Gens |-> "none"] /\ entry = NoEntry /\ ending = {}
    /\ comp = [g \in Gens |-> "none"]
    /\ active = 0 /\ tomb = {} /\ audio = {} /\ done = {}
    /\ timers = {} /\ pump = [at |-> "wait", gen |-> 0]
    /\ seg = [g \in Gens |-> {}] /\ spoke = [g \in Gens |-> 0] /\ notice = {}
    /\ open = {} /\ marked = {} /\ downstream = {} /\ flushed = {}
    /\ turn = [at |-> "idle", gen |-> 0] /\ gens = 0 /\ adm = "none"
    /\ closer = "open" /\ user = [at |-> "idle", gen |-> 0] /\ budget = Budget

Spend == budget > 0 /\ budget' = budget - 1

------------------------------------------------------------------------------
(* The conversation service. *)

\* terminate_active_generation up to its transaction: what completes is left alone.
Terminate(who, g) ==
    IF entry.completing THEN UNCHANGED <<entry, ending>>
    ELSE /\ entry' = IF entry.gen = g THEN NoEntry ELSE entry
         /\ ending' = ending \cup {<<who, g>>}

\* cancel_generation of the repository, a CAS from running.
Settle(who, g) ==
    /\ <<who, g>> \in ending
    /\ ending' = ending \ {<<who, g>>}
    /\ row' = [row EXCEPT ![g] = IF @ = "running" THEN "cancelled" ELSE @]
    /\ UNCHANGED <<entry, comp, mirror, timers, pump, play, out, callee, closer, user, budget>>

Settled(who) == \A e \in ending : e[1] # who

\* complete_realtime_generation up to the await of the session's source context.
Completing(g) == comp' = [comp EXCEPT ![g] = IF entry.gen = g THEN "context" ELSE @]

\* _begin_completion raises CancelledError for an entry that is gone or revoked, and
\* the pump takes it for its own.
BeginCompletion(g) ==
    /\ comp[g] = "context"
    /\ LET current == entry.gen = g /\ ~entry.revoked IN
       /\ entry' = IF current THEN [entry EXCEPT !.completing = TRUE] ELSE entry
       /\ comp' = [comp EXCEPT ![g] = IF current THEN "commit" ELSE "none"]
       /\ pump' = IF ~current /\ pump = [at |-> "complete", gen |-> g]
                  THEN [pump EXCEPT !.at = "dead"] ELSE pump
    /\ UNCHANGED <<row, ending, mirror, timers, play, out, callee, closer, user, budget>>

\* complete_generation of the repository, then the entry goes.
CommitCompletion(g) ==
    /\ comp[g] = "commit"
    /\ row' = [row EXCEPT ![g] = IF @ = "running" THEN "completed" ELSE @]
    /\ entry' = IF entry.gen = g THEN NoEntry ELSE entry
    /\ comp' = [comp EXCEPT ![g] = "none"]
    /\ pump' = IF pump = [at |-> "complete", gen |-> g] THEN [pump EXCEPT !.at = "again"] ELSE pump
    /\ UNCHANGED <<ending, mirror, timers, play, out, callee, closer, user, budget>>

\* cancel, for the interrupt route: the call does not learn of it.
Interrupt ==
    /\ Spend /\ user.at = "idle"
    /\ entry.gen # 0 /\ ~entry.completing
    /\ entry' = [entry EXCEPT !.revoked = TRUE]
    /\ ending' = ending \cup {<<"user", entry.gen>>}
    /\ user' = [at |-> "pop", gen |-> entry.gen]
    /\ UNCHANGED <<row, comp, mirror, timers, pump, play, out, callee, closer>>

\* Whatever entry the session has by then goes.
PopEntry ==
    /\ user.at = "pop" /\ Settled("user")
    /\ entry' = NoEntry
    /\ user' = [at |-> "idle", gen |-> 0]
    /\ UNCHANGED <<row, ending, comp, mirror, timers, pump, play, out, callee, closer, budget>>

------------------------------------------------------------------------------
(* The mirror and the output of the bridge. *)

\* cancel_generation and complete_generation of the mirror.
Bury(g) ==
    /\ tomb' = tomb \cup {g}
    /\ active' = IF active = g THEN 0 ELSE active
    /\ UNCHANGED <<audio, done>>

\* Fault: the frame that is on its way is left to itself.
FaultFlush ==
    /\ open' = {} /\ downstream' = {} /\ flushed' = 1..gens
    /\ UNCHANGED <<pump, marked>>

\* _flush_output: the output task is cancelled and joined, then an InterruptionFrame
\* clears what is downstream.
Flush ==
    /\ open' = {} /\ downstream' = {} /\ flushed' = 1..gens
    /\ pump' = [pump EXCEPT !.at = CASE @ \in {"register", "frame"} -> "wait"
                                     [] @ \in {"stop", "duration", "marker"} -> "attach"
                                     [] OTHER -> @]
    /\ UNCHANGED marked

------------------------------------------------------------------------------
(* The playback service. *)

\* Fault: a commit does not look at the generation.
FaultMayCommit(g, known) ==
    {"registered", "duration", "transcript", "ended"} \subseteq known /\ "spoken" \notin known

\* The conditions of _try_commit_segment.
MayCommit(g, known) ==
    /\ row[g] # "cancelled"
    /\ {"registered", "duration", "transcript", "ended"} \subseteq known /\ "spoken" \notin known

\* One more fact about a segment, and the commit it may complete.
Join(g, fact) ==
    LET known == seg[g] \cup {fact} IN
    /\ seg' = [seg EXCEPT ![g] = IF MayCommit(g, known) THEN known \cup {"spoken"} ELSE known]
    /\ spoke' = [spoke EXCEPT ![g] = IF MayCommit(g, known) THEN @ + 1 ELSE @]

\* acknowledge: the page says that a segment has ended, once it knows its duration,
\* or that it stopped early; later receipts change nothing.
Acknowledge(g, how) ==
    /\ <<g, IF how = "ended" THEN "buffered" ELSE "started">> \in marked
    /\ seg[g] \cap {"ended", "stopped"} = {}
    /\ Join(g, how)
    /\ notice' = IF spoke'[g] # spoke[g] THEN notice \cup {g} ELSE notice
    /\ UNCHANGED <<conv, mirror, timers, pump, out, callee, closer, user, budget>>

\* playback_completed, the completion listener.
Confirmed(g) ==
    IF ~Closing /\ active = g /\ g \in done
    THEN Bury(g) /\ timers' = timers \ {g} /\ open' = open \ {g} /\ Completing(g)
    ELSE UNCHANGED <<mirror, timers, open, comp>>

\* After a receipt, in the request that brought it.
Notify(g) ==
    /\ g \in notice
    /\ notice' = notice \ {g}
    /\ Confirmed(g)
    /\ UNCHANGED <<row, entry, ending, pump, seg, spoke, marked, downstream, flushed,
                   callee, closer, user, budget>>

------------------------------------------------------------------------------
(* The event pump, dispatch_event: late events are dropped. *)

To(at, g) == pump' = [at |-> at, gen |-> g]

\* An output frame: the first of a generation opens its segment.
OutputAudio(g) ==
    /\ pump.at = "wait" /\ ~Closing
    /\ active = g /\ g \notin done
    /\ audio' = audio \cup {g} /\ open' = open \cup {g}
    /\ To(IF g \in open THEN "frame" ELSE "register", g)
    /\ UNCHANGED <<conv, active, tomb, done, timers, play, marked, downstream, flushed,
                   callee, closer, user, budget>>

\* register_segment, then the started marker and the frame.
Register ==
    LET g == pump.gen IN
    /\ pump.at = "register"
    /\ seg' = [seg EXCEPT ![g] = @ \cup {"registered"}]
    /\ marked' = marked \cup {<<g, "started">>}
    /\ To("frame", g)
    /\ UNCHANGED <<conv, mirror, timers, spoke, notice, open, downstream, flushed,
                   callee, closer, user, budget>>

PushFrame ==
    /\ pump.at = "frame"
    /\ downstream' = downstream \cup {pump.gen}
    /\ To("wait", 0)
    /\ UNCHANGED <<conv, mirror, timers, play, open, marked, flushed, callee, closer, user, budget>>

\* Fault: the end of the audio counts as the end of its playback.
FaultPlaysOut(g) == FALSE

\* A reply with audio is complete when the page has played it.
PlaysOut(g) == g \in audio

ResponseCompleted(g) ==
    /\ pump.at = "wait" /\ ~Closing
    /\ active = g /\ g \notin done
    /\ IF PlaysOut(g)
       THEN /\ done' = done \cup {g}
            /\ To(IF g \in open THEN "stop" ELSE "attach", g)
            /\ UNCHANGED <<active, tomb, audio, comp>>
       ELSE /\ Bury(g) /\ Completing(g)
            /\ To(IF entry.gen = g THEN "complete" ELSE "wait", g)
    /\ UNCHANGED <<row, entry, ending, timers, play, out, callee, closer, user, budget>>

\* _push_finalization, which looks before each step whether the reply is still wanted.
Wanted(g) == ~Closing /\ active = g

FinalizeStop ==
    /\ pump.at = "stop"
    /\ To(IF Wanted(pump.gen) THEN "duration" ELSE "attach", pump.gen)
    /\ UNCHANGED <<conv, mirror, timers, play, out, callee, closer, user, budget>>

\* finalize_segment; no transcript is attached yet, so that this never commits.
FinalizeDuration ==
    /\ pump.at = "duration"
    /\ Join(pump.gen, "duration")
    /\ To(IF Wanted(pump.gen) THEN "marker" ELSE "attach", pump.gen)
    /\ UNCHANGED <<conv, mirror, timers, notice, out, callee, closer, user, budget>>

FinalizeMarker ==
    LET g == pump.gen IN
    /\ pump.at = "marker"
    /\ marked' = marked \cup {<<g, "buffered">>} /\ open' = open \ {g}
    /\ To("attach", g)
    /\ UNCHANGED <<conv, mirror, timers, play, downstream, flushed, callee, closer, user, budget>>

\* Fault: a page that has answered gets no deadline.
FaultArmed(g) ==
    IF Wanted(g) /\ seg[g] \cap {"ended", "stopped"} = {} THEN timers \cup {g} ELSE timers

\* _start_missing_ack_timer.
Armed(g) == IF Wanted(g) THEN timers \cup {g} ELSE timers

\* attach_generation_transcript; without a commit the deadline starts.
AttachTranscript ==
    LET g == pump.gen IN
    /\ pump.at = "attach"
    /\ IF "registered" \in seg[g] THEN Join(g, "transcript") ELSE UNCHANGED <<seg, spoke>>
    /\ IF spoke' # spoke THEN To("listen", g) /\ UNCHANGED timers
       ELSE To("wait", 0) /\ timers' = Armed(g)
    /\ UNCHANGED <<conv, mirror, notice, out, callee, closer, user, budget>>

\* The commit of attach_transcript calls the listener in the pump.
PumpConfirms ==
    LET g == pump.gen IN
    /\ pump.at = "listen"
    /\ Confirmed(g)
    /\ To(IF comp' # comp THEN "complete" ELSE "again", g)
    /\ UNCHANGED <<row, entry, ending, play, marked, downstream, flushed, callee, closer, user, budget>>

\* The domain sink completes the generation itself unless that is done.
PumpCompletesAgain ==
    LET g == pump.gen IN
    /\ pump.at = "again"
    /\ Completing(g)
    /\ IF comp' # comp THEN To("complete", g) /\ UNCHANGED timers
       ELSE To("wait", 0) /\ timers' = IF g \in done THEN Armed(g) ELSE timers
    /\ UNCHANGED <<row, entry, ending, mirror, play, out, callee, closer, user, budget>>

\* response.cancelled, or an error of the provider about this generation.
ResponseCancelled(g) ==
    /\ pump.at = "wait" /\ ~Closing /\ active = g
    /\ Bury(g)
    /\ Terminate("pump", g)
    /\ To("cancel", g)
    /\ UNCHANGED <<row, comp, timers, play, out, callee, closer, user, budget>>

PumpCancelled ==
    /\ pump.at = "cancel" /\ Settled("pump")
    /\ To("wait", 0)
    /\ UNCHANGED <<conv, mirror, timers, play, out, callee, closer, user, budget>>

\* _missing_ack_timeout_runner.
AckDeadline(g) ==
    /\ g \in timers
    /\ timers' = timers \ {g}
    /\ IF active = g THEN Bury(g) /\ open' = open \ {g} /\ Terminate("timer", g)
       ELSE UNCHANGED <<mirror, open, entry, ending>>
    /\ UNCHANGED <<row, comp, pump, play, marked, downstream, flushed, callee, closer, user, budget>>

------------------------------------------------------------------------------
(* A start of speech. *)

\* _begin_utterance: cancel_generation up to its transaction.
SpeechStarts ==
    /\ turn.at = "idle" /\ ~Closing /\ gens < MaxGens
    /\ turn' = [at |-> IF gens = 0 THEN "admit" ELSE "flush", gen |-> active]
    /\ IF active # 0
       THEN /\ Bury(active) /\ Terminate("turn", active)
            /\ timers' = timers \ {active} /\ open' = open \ {active}
       ELSE UNCHANGED <<mirror, entry, ending, timers, open>>
    /\ UNCHANGED <<row, comp, pump, play, marked, downstream, flushed, gens, adm, closer, user, budget>>

FlushTurn ==
    /\ turn.at = "flush" /\ Settled("turn")
    /\ Flush
    /\ turn' = [turn EXCEPT !.at = IF turn.gen # 0 THEN "interrupt" ELSE "admit"]
    /\ UNCHANGED <<conv, mirror, timers, play, gens, adm, closer, user, budget>>

\* The provider is interrupted.
Interrupted ==
    /\ turn.at = "interrupt"
    /\ turn' = [turn EXCEPT !.at = "admit"]
    /\ UNCHANGED <<conv, mirror, timers, pump, play, out, gens, adm, closer, user, budget>>

\* admit_utterance and begin_realtime_generation: the entry of the session goes.
Admit ==
    /\ turn.at = "admit"
    /\ IF Closing
       THEN turn' = [at |-> "idle", gen |-> 0] /\ UNCHANGED <<gens, adm, entry>>
       ELSE /\ turn' = [at |-> "join", gen |-> 0]
            /\ gens' = gens + 1 /\ adm' = "begin" /\ entry' = NoEntry
    /\ UNCHANGED <<row, ending, comp, mirror, timers, pump, play, out, closer, user, budget>>

AdmissionCommits ==
    /\ adm = "begin"
    /\ row' = [row EXCEPT ![gens] = "running"]
    /\ entry' = [NoEntry EXCEPT !.gen = gens]
    /\ adm' = "publish"
    /\ UNCHANGED <<ending, comp, mirror, timers, pump, play, out, turn, gens, closer, user, budget>>

\* register_generation; a call that has begun to close cancels the utterance instead.
AdmissionRegisters ==
    /\ adm = "publish"
    /\ IF Closing
       THEN Terminate("admit", gens) /\ adm' = "cancel" /\ UNCHANGED <<active, turn>>
       ELSE /\ active' = gens /\ adm' = "none" /\ turn' = [at |-> "idle", gen |-> 0]
            /\ UNCHANGED <<entry, ending>>
    /\ UNCHANGED <<row, comp, tomb, audio, done, timers, pump, play, out, gens, closer, user, budget>>

AdmissionCancelled ==
    /\ adm = "cancel" /\ Settled("admit")
    /\ adm' = "none" /\ turn' = [at |-> "idle", gen |-> 0]
    /\ UNCHANGED <<conv, mirror, timers, pump, play, out, gens, closer, user, budget>>

------------------------------------------------------------------------------
(* The end of the call. *)

\* _end_session, which fences the call before its task awaits anything.
EndSession == closer' = IF Closing THEN closer ELSE "pump"

\* Teardown of the bridge.
Teardown ==
    /\ ~Closing /\ EndSession /\ timers' = {}
    /\ UNCHANGED <<conv, mirror, pump, play, out, callee, user, budget>>

\* The stream of the provider fails: the reply is ended before the call.
StreamFails ==
    /\ pump.at = "wait" /\ ~Closing /\ active # 0
    /\ Bury(active) /\ open' = open \ {active} /\ timers' = timers \ {active}
    /\ Terminate("pump", active)
    /\ To("fail", active)
    /\ UNCHANGED <<row, comp, play, marked, downstream, flushed, callee, closer, user, budget>>

\* The stream ends, with an event of its own or without; several may end the call.
StreamEnds ==
    /\ \/ pump.at = "wait" /\ ~Closing
       \/ pump.at = "fail" /\ Settled("pump")
    /\ To("ending", 0)
    /\ EndSession /\ timers' = {}
    /\ UNCHANGED <<conv, mirror, play, out, callee, user, budget>>

\* The interrupt call fails or takes too long: the bridge is sealed.
InterruptFails ==
    /\ Spend /\ turn.at = "interrupt"
    /\ turn' = [at |-> "idle", gen |-> 0]
    /\ EndSession /\ timers' = {}
    /\ UNCHANGED <<conv, mirror, pump, play, out, gens, adm, user>>

\* Fault: the pump is joined and not cancelled.
FaultClosePump ==
    /\ closer = "pump"
    /\ pump.at \in {"ending", "dead"}
    /\ closer' = "flush"
    /\ UNCHANGED <<conv, mirror, timers, pump, play, out, callee, user, budget>>

\* The pump is cancelled and joined unless it is what ends the call; a completion or
\* cancellation it waits for goes with it.
ClosePump ==
    /\ closer = "pump"
    /\ IF pump.at = "ending" THEN UNCHANGED <<pump, comp, ending>>
       ELSE /\ pump' = [at |-> "dead", gen |-> 0]
            /\ comp' = IF pump.at = "complete" THEN [comp EXCEPT ![pump.gen] = "none"] ELSE comp
            /\ ending' = {e \in ending : e[1] # "pump"}
    /\ closer' = "flush"
    /\ UNCHANGED <<row, entry, mirror, timers, play, out, callee, user, budget>>

\* session_terminated.
CloseFlush ==
    /\ closer = "flush"
    /\ Flush
    /\ closer' = "admission"
    /\ UNCHANGED <<conv, mirror, timers, play, callee, user, budget>>

\* Fault: an admission in flight is not joined.
FaultAdmissionOver == TRUE

AdmissionOver == adm = "none"

\* terminate_active_generation, once no admission can follow.
CloseTerminate ==
    /\ closer = "admission" /\ AdmissionOver
    /\ IF active # 0
       THEN Bury(active) /\ open' = open \ {active} /\ Terminate("close", active)
       ELSE UNCHANGED <<mirror, open, entry, ending>>
    /\ closer' = "settle"
    /\ UNCHANGED <<row, comp, timers, pump, play, marked, downstream, flushed, callee, user, budget>>

CloseDone ==
    /\ closer = "settle" /\ Settled("close")
    /\ closer' = "closed"
    /\ UNCHANGED <<conv, mirror, timers, pump, play, out, callee, user, budget>>

------------------------------------------------------------------------------
Askers == {"turn", "pump", "timer", "admit", "close", "user"}

ConvStep  == \E g \in Gens : \/ BeginCompletion(g) \/ CommitCompletion(g) \/ Notify(g)
                             \/ \E who \in Askers : Settle(who, g)
PumpStep  == \/ Register \/ PushFrame \/ FinalizeStop \/ FinalizeDuration \/ FinalizeMarker
             \/ AttachTranscript \/ PumpConfirms \/ PumpCompletesAgain \/ PumpCancelled
TimerStep == \E g \in Gens : AckDeadline(g)
TurnStep  == FlushTurn \/ Interrupted \/ Admit
AdmitStep == AdmissionCommits \/ AdmissionRegisters \/ AdmissionCancelled
CloseStep == ClosePump \/ CloseFlush \/ CloseTerminate \/ CloseDone

Next ==
    \/ ConvStep \/ PumpStep \/ TimerStep \/ TurnStep \/ AdmitStep \/ CloseStep
    \/ PopEntry \/ Interrupt
    \/ SpeechStarts \/ Teardown \/ StreamFails \/ StreamEnds \/ InterruptFails
    \/ \E g \in Gens : \/ OutputAudio(g) \/ ResponseCompleted(g) \/ ResponseCancelled(g)
                       \/ \E how \in {"ended", "stopped"} : Acknowledge(g, how)

Spec == Init /\ [][Next]_vars

\* The event loop runs every task that can go on and every timer in time.  Nothing
\* is assumed of the provider, the page or the speaker.
Fairness ==
    /\ \A g \in Gens : /\ WF_vars(BeginCompletion(g)) /\ WF_vars(CommitCompletion(g))
                       /\ WF_vars(Notify(g)) /\ WF_vars(AckDeadline(g))
                       /\ \A who \in Askers : WF_vars(Settle(who, g))
    /\ WF_vars(PumpStep) /\ WF_vars(TurnStep) /\ WF_vars(AdmitStep)
    /\ WF_vars(CloseStep) /\ WF_vars(PopEntry)

LiveSpec == Spec /\ Fairness

------------------------------------------------------------------------------
(* Properties. *)

PumpStates == {"wait", "register", "frame", "stop", "duration", "marker", "attach", "listen",
               "again", "complete", "cancel", "fail", "ending", "dead"}
Facts      == {"registered", "duration", "transcript", "ended", "stopped", "spoken"}

\* The states of the call are well formed: generation rows, segments and tasks.
CTypeOK ==
    /\ row \in [Gens -> {"none", "running", "completed", "cancelled"}]
    /\ entry \in [gen : 0..MaxGens, revoked : BOOLEAN, completing : BOOLEAN]
    /\ ending \subseteq Askers \X Gens
    /\ comp \in [Gens -> {"none", "context", "commit"}]
    /\ active \in 0..MaxGens /\ tomb \subseteq Gens /\ audio \subseteq Gens /\ done \subseteq Gens
    /\ open \subseteq Gens /\ timers \subseteq Gens /\ notice \subseteq Gens
    /\ pump \in [at : PumpStates, gen : 0..MaxGens]
    /\ seg \in [Gens -> SUBSET Facts]
    /\ spoke \in [Gens -> Nat]
    /\ marked \subseteq Gens \X {"started", "buffered"}
    /\ downstream \subseteq Gens /\ flushed \subseteq Gens
    /\ turn \in [at : {"idle", "flush", "interrupt", "admit", "join"}, gen : 0..MaxGens]
    /\ gens \in 0..MaxGens /\ adm \in {"none", "begin", "publish", "cancel"}
    /\ closer \in {"open", "pump", "flush", "admission", "settle", "closed"}
    /\ user \in [at : {"idle", "pop"}, gen : 0..MaxGens] /\ budget \in 0..Budget

\* A reply with audio is completed only when the page has played it: response.done of
\* the provider does not complete it, nor does anything that ends it early.
CompletedWasHeard ==
    \A g \in Gens : row[g] = "completed" /\ g \in audio => "spoken" \in seg[g]

\* Whatever joins last, the text of a reply is committed as spoken once, after the page
\* has played all of it, and never after the generation was cancelled.
SpokenOnce ==
    [][\A g \in Gens : spoke'[g] # spoke[g] =>
          /\ spoke[g] = 0 /\ spoke'[g] = 1
          /\ row[g] # "cancelled" /\ <<g, "buffered">> \in marked]_vars

\* After an interruption has cleared the output, nothing of an interrupted reply follows:
\* no frame resumes that was on its way.
FlushedStaysSilent == downstream \cap flushed = {}

\* When the call has closed it has nothing left that runs: neither a reply in the mirror
\* nor an utterance admitted while it closed, nor output behind the bridge.
ClosedOwnsNothing ==
    Closed => /\ active = 0 /\ downstream = {} /\ timers = {}
              /\ \A g \in Gens : row[g] = "running" => g \in tomb

\* Every reply whose audio is complete is let go: it is confirmed, interrupted, or the
\* deadline for the missing receipt ends it.
DoneLetsGo == \A g \in Gens : g \in done ~> active # g

\* Whoever ends the call, and whatever its tasks wait for, it closes.
CloseEnds == Closing ~> Closed
==============================================================================
