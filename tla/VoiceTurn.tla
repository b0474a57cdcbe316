------------------------------ MODULE VoiceTurn ------------------------------
(***************************************************************************)
(* The voice of a session: VoiceTurnManager (voice/barge_in.py) with its   *)
(* flags and timers, the STT pipeline's handlers (voice/stt.py), and the   *)
(* turns and spoken approvals of the voice loop (voice/loop.py) that use   *)
(* them.  All of it runs on one event loop, so an action is what happens   *)
(* between two awaits.                                                     *)
(*                                                                         *)
(* Two speeches may overlap: the one the loop waits for ("main"), and the  *)
(* speak_streaming a non-respond turn leaves running ("left"), because     *)
(* gather() raises StreamingNotSupported while it goes on.                 *)
(*                                                                         *)
(* What a user says is "yes" (a backchannel, and a confirmation), "talk"   *)
(* (answered from the LLM's stream) or "act" (a request to draft; in an    *)
(* approval, an edit).                                                     *)
(***************************************************************************)
EXTENDS Naturals, Sequences, FiniteSets

CONSTANTS
    MaxUtterances,  \* bound: times the user opens their mouth
    MaxFinals       \* bound: final transcripts of one utterance

ASSUME VoiceAssumption == MaxUtterances \in Nat /\ MaxFinals \in Nat \ {0}

VARIABLES
    pc,           \* where the loop is
    firstTurn,    \* first_turn
    playing,      \* the speeches in progress, a subset of {"main", "left"}
    unmutes,      \* tasks of _unmute_after_delay that did not run yet: each speech's, and
                  \* "cancelled", one that was cancelled
    unmuteTask,   \* _unmute_task: the speech whose task it is, or "none"
    ttsActive,    \* _tts_active
    muted,        \* _stt.muted
    stop,         \* _stop_event
    timer,        \* a barge-in timer runs
    cancelled,    \* _pending_barge_in_cancelled
    wasActive,    \* _was_tts_active_at_speech_start
    parts,        \* _transcript_parts: how many finals it holds
    heard,        \* _has_speech_transcript
    user,         \* what the user is saying, as Deepgram follows it, or Silent
    queue,        \* utterance_queue
    utterances,   \* utterances so far
    cause,        \* history: what came since the latest speech began: an "onset", "words"
    spokenOver,   \* history: the last utterance that began while TTS was active, unless a
                  \* speech has begun or ended since; or 0
    swallowed     \* utterances filter_utterance kept from the loop

turnVars == <<pc, firstTurn, playing, swallowed>>
taskVars == <<unmutes, unmuteTask>>
flagVars == <<ttsActive, muted, stop, timer, cancelled, wasActive>>
sttVars == <<parts, heard, user, queue, utterances>>
historyVars == <<cause, spokenOver>>
vars == <<turnVars, taskVars, flagVars, sttVars, historyVars>>

Speeches == {"main", "left"}
Kinds == {"yes", "talk", "act"}

\* number: which utterance it is.  seen: the user began after the preview that now waits
\* for a decision.  finals: final transcripts so far.
Utterance == [kind: Kinds, number: 1..MaxUtterances, seen: BOOLEAN, finals: 0..MaxFinals]

Silent == [kind |-> "silence"]
Quiet == user = Silent

Init ==
    /\ pc = "start" /\ firstTurn = TRUE /\ playing = {} /\ swallowed = 0
    /\ unmutes = {} /\ unmuteTask = "none"
    /\ ttsActive = FALSE /\ muted = FALSE /\ stop = FALSE
    /\ timer = FALSE /\ cancelled = FALSE /\ wasActive = FALSE
    /\ parts = 0 /\ heard = FALSE /\ user = Silent /\ queue = <<>> /\ utterances = 0
    /\ cause = {} /\ spokenOver = 0

(***************************************************************************)
(* speak, speak_streaming: up to the await of the TTS task                 *)
(***************************************************************************)
MSpeakKeepsTimer(who) ==  \* mutant: a timer of the turn before is not cancelled
    /\ playing' = playing \cup {who}
    /\ cancelled' = FALSE /\ wasActive' = FALSE
    /\ stop' = FALSE /\ ttsActive' = TRUE /\ muted' = TRUE
    /\ unmutes' = unmutes \cup {who} /\ unmuteTask' = who
    /\ parts' = 0 /\ heard' = FALSE /\ cause' = {} /\ spokenOver' = 0
    /\ UNCHANGED timer

MSpeakWithoutUnmute(who) ==  \* mutant: the mic is muted for the whole speech
    /\ playing' = playing \cup {who}
    /\ timer' = FALSE /\ cancelled' = FALSE /\ wasActive' = FALSE
    /\ stop' = FALSE /\ ttsActive' = TRUE /\ muted' = TRUE
    /\ parts' = 0 /\ heard' = FALSE /\ cause' = {} /\ spokenOver' = 0
    /\ UNCHANGED taskVars

Speak(who) ==
    /\ playing' = playing \cup {who}
    /\ timer' = FALSE /\ cancelled' = FALSE /\ wasActive' = FALSE
    /\ stop' = FALSE /\ ttsActive' = TRUE /\ muted' = TRUE
    /\ unmutes' = unmutes \cup {who} /\ unmuteTask' = who
    /\ parts' = 0 /\ heard' = FALSE /\ cause' = {} /\ spokenOver' = 0

\* The task in _unmute_task is cancelled, whichever speech made it, and unmutes at the
\* next turn of the event loop.
CancelUnmute ==
    /\ unmutes' = (unmutes \ {unmuteTask}) \cup {"cancelled" : t \in unmutes \cap {unmuteTask}}
    /\ unmuteTask' = "none"

MHushedKeepsStop(who) ==  \* mutant: finally does not clear stop_event
    /\ ttsActive' = FALSE /\ muted' = FALSE /\ wasActive' = FALSE
    /\ parts' = 0 /\ heard' = FALSE /\ spokenOver' = 0
    /\ CancelUnmute
    /\ UNCHANGED stop

MHushedKeepsOnset(who) ==  \* mutant: finally does not forget the onset
    /\ ttsActive' = FALSE /\ muted' = FALSE /\ stop' = FALSE
    /\ parts' = 0 /\ heard' = FALSE /\ spokenOver' = 0
    /\ CancelUnmute
    /\ UNCHANGED wasActive

MHushedTrustsTask(who) ==  \* mutant: finally leaves unmuting to the cancelled task
    /\ ttsActive' = FALSE /\ stop' = FALSE /\ wasActive' = FALSE
    /\ parts' = 0 /\ heard' = FALSE /\ spokenOver' = 0
    /\ CancelUnmute
    /\ UNCHANGED muted

\* The finally block.
Hushed(who) ==
    /\ ttsActive' = FALSE /\ muted' = FALSE /\ stop' = FALSE /\ wasActive' = FALSE
    /\ parts' = 0 /\ heard' = FALSE /\ spokenOver' = 0
    /\ CancelUnmute

(***************************************************************************)
(* The loop                                                                *)
(***************************************************************************)
Goto(place) == pc' = place /\ UNCHANGED firstTurn

\* The loop says something and waits for it, and will then be at place.
Say(place) == Goto(place) /\ Speak("main")

\* run_voice_session: the cached briefing is spoken, or there is none.
Begin ==
    /\ pc = "start"
    /\ \/ Say("reply")
       \/ Goto("wait") /\ UNCHANGED <<playing, taskVars, flagVars, parts, heard, historyVars>>
    /\ UNCHANGED <<user, queue, utterances, swallowed>>

MBackchannelNow(u) == ttsActive /\ u.kind = "yes"  \* mutant: TTS is active by now

\* filter_utterance: a backchannel, and at the latest onset TTS was active.
Backchannel(u) == wasActive /\ u.kind = "yes"

Swallow ==
    /\ pc = "wait"
    /\ queue # <<>>
    /\ Backchannel(Head(queue))
    /\ queue' = Tail(queue)
    /\ cancelled' = TRUE /\ timer' = FALSE
    /\ swallowed' = swallowed + 1
    /\ UNCHANGED <<pc, firstTurn, playing, taskVars, ttsActive, muted, stop, wasActive>>
    /\ UNCHANGED <<parts, heard, user, utterances, historyVars>>

\* wait_for_utterance returns, and an acknowledgement is spoken unless this is the
\* first turn.  "stream": a respond turn; "request": any other, "yes" included.
Answered(u) == IF u.kind = "talk" THEN "stream" ELSE "request"

TakeTurn ==
    /\ pc = "wait"
    /\ queue # <<>>
    /\ ~Backchannel(Head(queue))
    /\ queue' = Tail(queue)
    /\ pc' = Answered(Head(queue))
    /\ firstTurn' = FALSE
    /\ IF firstTurn THEN UNCHANGED <<playing, taskVars, flagVars, parts, heard, historyVars>>
                    ELSE Speak("main")
    /\ UNCHANGED <<user, utterances, swallowed>>

\* The acknowledgement is over: the reply is streamed and spoken.
StreamReply ==
    /\ pc = "stream"
    /\ "main" \notin playing
    /\ Say("reply")
    /\ UNCHANGED <<user, queue, utterances, swallowed>>

\* Or the intent is not one to stream: gather() has started speak_streaming, which
\* is left behind, and the graph runs.  (At most one such speech at a time.)
RunGraph ==
    /\ pc = "request"
    /\ playing = {}
    /\ Goto("graph")
    /\ Speak("left")
    /\ UNCHANGED <<user, queue, utterances, swallowed>>

Unseen(u) == [u EXCEPT !.seen = FALSE]

\* The graph is interrupted with a draft: its preview is spoken.
Preview ==
    /\ Say("preview")
    /\ user' = IF Quiet THEN user ELSE Unseen(user)
    /\ queue' = [i \in DOMAIN queue |-> Unseen(queue[i])]
    /\ UNCHANGED <<utterances, swallowed>>

\* run_session or the resumed graph returns: with a draft (not after a confirmation),
\* with something to say, or with nothing.
GraphReturns ==
    /\ \/ pc = "graph" /\ Preview
       \/ /\ pc \in {"graph", "execute"}
          /\ Say("reply")
          /\ UNCHANGED <<user, queue, utterances, swallowed>>
       \/ /\ pc \in {"graph", "execute"}
          /\ Goto("wait")
          /\ UNCHANGED <<playing, taskVars, flagVars, sttVars, historyVars, swallowed>>

\* "Confirm, reject, or describe changes." follows the preview at once.
Prompt ==
    /\ pc = "preview"
    /\ "main" \notin playing
    /\ Say("decide")
    /\ UNCHANGED <<user, queue, utterances, swallowed>>

\* _handle_voice_approval takes the next utterance, whatever it is: "yes" confirms,
\* and anything else is an edit or a rejection.
Decide ==
    /\ pc = "decide"
    /\ "main" \notin playing
    /\ queue # <<>>
    /\ queue' = Tail(queue)
    /\ Goto(IF Head(queue).kind = "yes" THEN "execute" ELSE "graph")
    /\ UNCHANGED <<playing, taskVars, flagVars, parts, heard, user, utterances, historyVars, swallowed>>

\* The reply is over: the loop listens.
Listen ==
    /\ pc = "reply"
    /\ "main" \notin playing
    /\ Goto("wait")
    /\ UNCHANGED <<playing, taskVars, flagVars, sttVars, historyVars, swallowed>>

\* A speech ends: its audio is over, or stop_event cut it off, or TTS failed in an
\* acknowledgement.
SpeechEnds(who) ==
    /\ who \in playing
    /\ playing' = playing \ {who}
    /\ Hushed(who)
    /\ UNCHANGED <<pc, firstTurn, timer, cancelled, user, queue, utterances, cause, swallowed>>

(***************************************************************************)
(* Tasks                                                                   *)
(***************************************************************************)
\* _unmute_after_delay, after its 150 ms or as it is cancelled.
Unmute(task) ==
    /\ task \in unmutes
    /\ unmutes' = unmutes \ {task}
    /\ muted' = FALSE
    /\ UNCHANGED <<turnVars, unmuteTask, ttsActive, stop, timer, cancelled, wasActive>>
    /\ UNCHANGED <<sttVars, historyVars>>

Fires(condition) ==
    /\ timer
    /\ timer' = FALSE
    /\ stop' = (stop \/ condition)
    /\ UNCHANGED <<turnVars, taskVars, ttsActive, muted, cancelled, wasActive>>
    /\ UNCHANGED <<sttVars, historyVars>>

MTimerFiresOnNoise ==  \* mutant: Bug C, _has_speech_transcript is not looked at
    Fires(~cancelled /\ ttsActive)

\* _commit_barge_in_after_window, after its 900 ms.
TimerFires == Fires(~cancelled /\ ttsActive /\ heard)

(***************************************************************************)
(* Deepgram's events.  While the mic is muted it is sent silence, so       *)
(* nothing begins; but what it heard just before may still arrive.         *)
(***************************************************************************)
\* SpeechStarted, dropped when muted.
SpeechStarted(kind) ==
    /\ Quiet
    /\ utterances < MaxUtterances
    /\ utterances' = utterances + 1
    /\ user' = [kind |-> kind, number |-> utterances + 1,
                seen |-> pc \in {"preview", "decide"}, finals |-> 0]
    /\ spokenOver' = IF ttsActive THEN utterances + 1 ELSE spokenOver
    /\ IF muted
       THEN UNCHANGED <<timer, cancelled, wasActive, cause>>
       ELSE /\ wasActive' = ttsActive
            /\ cancelled' = FALSE
            /\ timer' = TRUE
            /\ cause' = cause \cup {"onset"}
    /\ UNCHANGED <<turnVars, taskVars, ttsActive, muted, stop, parts, heard, queue>>

\* A transcript: an interim one, or a final one, which is kept.
Transcript ==
    /\ ~Quiet
    /\ heard' = TRUE
    /\ cause' = cause \cup {"words"} /\ UNCHANGED spokenOver
    /\ \/ UNCHANGED <<parts, user>>
       \/ /\ user.finals < MaxFinals
          /\ user' = [user EXCEPT !.finals = @ + 1]
          /\ parts' = parts + 1
    /\ UNCHANGED <<turnVars, taskVars, flagVars, queue, utterances>>

MUtteranceEndQueuesSilence ==  \* mutant: an empty utterance is queued too
    /\ ~Quiet /\ ~timer
    /\ user' = Silent
    /\ parts' = 0
    /\ queue' = Append(queue, user)
    /\ UNCHANGED <<turnVars, taskVars, flagVars, heard, utterances, historyVars>>

\* UtteranceEnd: the finals that were kept, if any, are joined and queued.  It takes
\* 1000 ms of silence (utterance_end_ms), longer than the timer its onset started.
UtteranceEnd ==
    /\ ~Quiet
    /\ ~timer
    /\ user' = Silent
    /\ parts' = 0
    /\ queue' = IF parts = 0 THEN queue ELSE Append(queue, user)
    /\ UNCHANGED <<turnVars, taskVars, flagVars, heard, utterances, historyVars>>

\* What the loop does without an await in between, as speak returns or the next
\* utterance is there already.
Straight == Prompt \/ Listen \/ Swallow \/ TakeTurn \/ Decide

Deepgram == Transcript \/ UtteranceEnd \/ \E kind \in Kinds : SpeechStarted(kind)

\* A cancelled task runs before anything else that waits for the event loop.
Next ==
    \/ Straight
    \/ \E task \in Speeches \cup {"cancelled"} : Unmute(task)
    \/ /\ "cancelled" \notin unmutes
       /\ \/ Begin \/ StreamReply \/ RunGraph \/ GraphReturns
          \/ \E who \in Speeches : SpeechEnds(who)
          \/ TimerFires
          \/ Deepgram

Spec == Init /\ [][Next]_vars

\* The event loop runs every sleeping task when its time has come; that a speech
\* ends, or that the user says anything, is not assumed.
FairSpec == Spec /\ \A task \in Speeches \cup {"cancelled"} : WF_vars(Unmute(task))

(***************************************************************************)
(* Properties                                                              *)
(***************************************************************************)
\* Every variable has its type; what the loop may take was really said (D-06).
TypeOK ==
    /\ pc \in {"start", "wait", "stream", "request", "graph", "preview", "decide", "execute", "reply"}
    /\ firstTurn \in BOOLEAN
    /\ playing \subseteq Speeches
    /\ unmutes \subseteq Speeches \cup {"cancelled"}
    /\ unmuteTask \in Speeches \cup {"none"}
    /\ {ttsActive, muted, stop, timer, cancelled, wasActive, heard} \subseteq BOOLEAN
    /\ parts \in 0..MaxFinals
    /\ user \in Utterance \cup {Silent}
    /\ \A i \in DOMAIN queue : queue[i] \in Utterance /\ queue[i].finals > 0
    /\ utterances \in 0..MaxUtterances
    /\ cause \subseteq {"onset", "words"} /\ spokenOver \in 0..MaxUtterances
    /\ swallowed \in 0..MaxUtterances

\* When nothing is being said the mic is open, whatever order the speeches, their
\* finally blocks and the unmute tasks ran in (speak: "ensure unmuted on every exit").
MutedOnlyWhileSpeaking == muted => playing # {}

\* stop_event is never left set for a speech that has not begun: it is set only while
\* one is active, and the finally block takes it back.
StopIsForASpeech == stop => ttsActive /\ playing # {}

\* A speech is cut off only by an onset and a transcript that both came since the
\* latest speech began: no timer and no transcript of the turn before counts.
BargeInHasCause == [][stop' /\ ~stop => {"onset", "words"} \subseteq cause]_vars

\* A "yes" is kept from the loop only if TTS was active when the user began it, or began
\* to speak again after it (barge_in.py:102 holds one flag for all), and no speech has
\* begun or ended since: one said into silence with nothing said after it is an answer, and
\* so is one said over a speech that is over by the time the loop takes it.
OnlySpokenOverIsSwallowed == [][swallowed' # swallowed => Head(queue).number <= spokenOver]_vars

\* A muted mic opens again even if the speech it was muted for never ends.
MicReopens == muted ~> ~muted

\* loop.py, _handle_voice_approval: the answer that confirms a draft was given after
\* its preview began to be spoken.
AnswerHeardPreview == [][pc' = "execute" /\ pc = "decide" => Head(queue).seen]_vars
=============================================================================
