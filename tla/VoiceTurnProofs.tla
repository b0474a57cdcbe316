-------------------------- MODULE VoiceTurnProofs --------------------------
(***************************************************************************)
(* What holds of VoiceTurn for any number of utterances and finals.  Every *)
(* flag that outlives a step is tied to a reason: a speech in progress, an *)
(* onset or words since the latest speech began.  FlagInv collects these   *)
(* ties and is inductive; four theorems follow from it, and the type from  *)
(* SttInv, which ties what is kept and queued to what was said.            *)
(***************************************************************************)
EXTENDS VoiceTurn, TLAPS

\* Flags that mean nothing unless a speech is in progress.
FlagsNeedSpeech == ttsActive \/ muted \/ wasActive \/ stop => playing # {}

\* stop_event is set only for a speech the manager takes for active.
StopNeedsActive == stop => ttsActive

\* The timer and the transcript flag have their cause since the latest speech began.
CausesAreFresh == (timer => "onset" \in cause) /\ (heard => "words" \in cause)

FlagInv ==
    /\ FlagsNeedSpeech
    /\ StopNeedsActive
    /\ CausesAreFresh

USE DEF FlagInv, FlagsNeedSpeech, StopNeedsActive, CausesAreFresh

\* A speech that begins sets the invariant up, whatever the state was.
LEMMA SpeakKeeps == ASSUME NEW who, Speak(who) PROVE FlagInv'
BY DEF Speak

\* A step of the loop other than speaking keeps it: it sets no flag.
LEMMA QuietKeeps ==
    ASSUME FlagInv, UNCHANGED <<playing, taskVars, flagVars, heard, historyVars>>
    PROVE  FlagInv'
BY DEF taskVars, flagVars, historyVars

LEMMA FlagsInit == Init => FlagInv
BY DEF Init

LEMMA FlagsStep == FlagInv /\ [Next]_vars => FlagInv'
<1> SUFFICES ASSUME FlagInv, [Next]_vars PROVE FlagInv'
    OBVIOUS
<1>1. CASE Begin
    BY <1>1, SpeakKeeps, QuietKeeps DEF Begin, Say, Goto
<1>2. CASE Swallow
    BY <1>2 DEF Swallow, historyVars
<1>3. CASE TakeTurn
    BY <1>3, SpeakKeeps, QuietKeeps DEF TakeTurn
<1>4. CASE StreamReply
    BY <1>4, SpeakKeeps DEF StreamReply, Say
<1>5. CASE RunGraph
    BY <1>5, SpeakKeeps DEF RunGraph
<1>6. CASE GraphReturns
    BY <1>6, SpeakKeeps, QuietKeeps DEF GraphReturns, Preview, Say, Goto, sttVars
<1>7. CASE Prompt
    BY <1>7, SpeakKeeps DEF Prompt, Say
<1>8. CASE Decide
    BY <1>8, QuietKeeps DEF Decide
<1>9. CASE Listen
    BY <1>9, QuietKeeps DEF Listen, sttVars
<1>10. ASSUME NEW who \in Speeches, SpeechEnds(who) PROVE FlagInv'
    BY <1>10 DEF SpeechEnds, Hushed
<1>11. ASSUME NEW task, Unmute(task) PROVE FlagInv'
    BY <1>11 DEF Unmute, turnVars, sttVars, historyVars
<1>12. CASE TimerFires
    BY <1>12 DEF TimerFires, Fires, turnVars, taskVars, sttVars, historyVars
<1>13. ASSUME NEW kind, SpeechStarted(kind) PROVE FlagInv'
    <2>1. CASE muted
        BY <1>13, <2>1 DEF SpeechStarted, turnVars, taskVars
    <2>2. CASE ~muted
        BY <1>13, <2>2 DEF SpeechStarted, turnVars, taskVars
    <2> QED BY <2>1, <2>2
<1>14. CASE Transcript
    BY <1>14 DEF Transcript, turnVars, taskVars, flagVars
<1>15. CASE UtteranceEnd
    BY <1>15, QuietKeeps DEF UtteranceEnd, turnVars
<1>16. CASE UNCHANGED vars
    BY <1>16, QuietKeeps DEF vars, turnVars, sttVars
<1> QED
    BY <1>1, <1>2, <1>3, <1>4, <1>5, <1>6, <1>7, <1>8, <1>9, <1>10, <1>11, <1>12,
       <1>13, <1>14, <1>15, <1>16 DEF Next, Straight, Deepgram

\* FlagInv holds in every reachable state.
LEMMA Flags == Spec => []FlagInv
<1>1. Init => FlagInv
    BY FlagsInit
<1>2. FlagInv /\ [Next]_vars => FlagInv'
    BY FlagsStep
<1> QED BY <1>1, <1>2, PTL DEF Spec

\* The mic is never muted when nothing is said (speak: "ensure unmuted on every exit").
THEOREM MicOpenInSilence == Spec => []MutedOnlyWhileSpeaking
<1>1. FlagInv => MutedOnlyWhileSpeaking
    BY DEF MutedOnlyWhileSpeaking
<1> QED BY <1>1, Flags, PTL

\* stop_event is never left set for a speech that has not begun.
THEOREM NoStopLeftOver == Spec => []StopIsForASpeech
<1>1. FlagInv => StopIsForASpeech
    BY DEF StopIsForASpeech
<1> QED BY <1>1, Flags, PTL

\* Only the timer sets stop_event: every other step clears it or leaves it alone.
LEMMA OnlyTimerStops == ASSUME [Next]_vars, stop', ~stop PROVE TimerFires
<1>1. ASSUME NEW who PROVE ~Speak(who)
    BY DEF Speak
<1>2. ~UNCHANGED flagVars
    BY DEF flagVars
<1>3. ~(Begin \/ Swallow \/ TakeTurn \/ StreamReply \/ RunGraph \/ GraphReturns
           \/ Prompt \/ Decide \/ Listen)
    BY <1>1, <1>2 DEF Begin, Swallow, TakeTurn, StreamReply, RunGraph, GraphReturns, Preview,
       Prompt, Decide, Listen, Say
<1>4. ASSUME NEW who PROVE ~SpeechEnds(who)
    BY DEF SpeechEnds, Hushed
<1>5. ASSUME NEW task PROVE ~Unmute(task)
    BY DEF Unmute
<1>6. ASSUME NEW kind PROVE ~SpeechStarted(kind)
    BY DEF SpeechStarted
<1>7. ~(Transcript \/ UtteranceEnd \/ UNCHANGED vars)
    BY <1>2 DEF Transcript, UtteranceEnd, vars
<1> QED BY <1>3, <1>4, <1>5, <1>6, <1>7 DEF Next, Straight, Deepgram

\* A speech is cut off only by an onset and words that came since it began.
THEOREM BargeInJustified == Spec => BargeInHasCause
<1>1. FlagInv /\ [Next]_vars => [stop' /\ ~stop => {"onset", "words"} \subseteq cause]_vars
    BY OnlyTimerStops DEF TimerFires, Fires
<1> QED BY <1>1, Flags, PTL DEF Spec, BargeInHasCause

\* Only Swallow drops an utterance.
LEMMA OnlySwallowDrops ==
    ASSUME [Next]_vars, swallowed' # swallowed PROVE Swallow
<1>1. ~UNCHANGED turnVars
    BY DEF turnVars
<1>2. ~(Begin \/ TakeTurn \/ StreamReply \/ RunGraph \/ GraphReturns \/ Prompt \/ Decide \/ Listen)
    BY <1>1 DEF Begin, TakeTurn, StreamReply, RunGraph, GraphReturns, Preview, Prompt, Decide, Listen
<1>3. ASSUME NEW who PROVE ~SpeechEnds(who)
    BY DEF SpeechEnds
<1>4. ASSUME NEW task PROVE ~Unmute(task)
    BY <1>1 DEF Unmute
<1>5. ASSUME NEW kind PROVE ~SpeechStarted(kind)
    BY <1>1 DEF SpeechStarted
<1>6. ~(TimerFires \/ Transcript \/ UtteranceEnd \/ UNCHANGED vars)
    BY <1>1 DEF TimerFires, Fires, Transcript, UtteranceEnd, vars
<1> QED BY <1>2, <1>3, <1>4, <1>5, <1>6 DEF Next, Straight, Deepgram

(***************************************************************************)
(* The type of the state                                                   *)
(***************************************************************************)
Pcs == {"start", "wait", "stream", "request", "graph", "preview", "decide", "execute", "reply"}

\* The speeches, their tasks and the flags.
FlagTypes ==
    /\ pc \in Pcs /\ firstTurn \in BOOLEAN
    /\ playing \subseteq Speeches /\ unmutes \subseteq Speeches \cup {"cancelled"}
    /\ unmuteTask \in Speeches \cup {"none"} /\ cause \subseteq {"onset", "words"}
    /\ ttsActive \in BOOLEAN /\ muted \in BOOLEAN /\ stop \in BOOLEAN /\ timer \in BOOLEAN
    /\ cancelled \in BOOLEAN /\ wasActive \in BOOLEAN /\ heard \in BOOLEAN

\* An utterance that may be queued.
Said == {u \in Utterance : u.finals > 0}

\* The finals that are kept are of the utterance that goes on.
PartsAreOfUser ==
    /\ parts \in Nat
    /\ \/ user = Silent /\ parts = 0
       \/ user \in Utterance /\ parts <= user.finals

\* Every utterance is going on, queued, taken or dropped.
Counted == swallowed + Len(queue) + (IF Quiet THEN 0 ELSE 1) <= utterances

\* Utterances are numbered in the order in which they began.
Numbered ==
    /\ ~Quiet => user.number <= utterances
    /\ \A i \in DOMAIN queue : queue[i].number <= utterances

\* The flag of the latest onset is about the latest utterance, in a speech that goes on.
OnsetInv ==
    /\ spokenOver \in 0..utterances
    /\ wasActive => ttsActive /\ spokenOver = utterances

SttInv ==
    /\ PartsAreOfUser
    /\ queue \in Seq(Said)
    /\ utterances \in 0..MaxUtterances /\ swallowed \in Nat
    /\ Counted

LEMMA NotSilent == ASSUME NEW u \in Utterance PROVE u # Silent /\ u.finals \in 0..MaxFinals
BY DEF Utterance, Kinds, Silent

LEMMA FlagTypesStep == FlagTypes /\ [Next]_vars => FlagTypes'
<1> SUFFICES ASSUME FlagTypes, [Next]_vars PROVE FlagTypes'
    OBVIOUS
<1> USE DEF FlagTypes
<1>0. ASSUME NEW who \in Speeches, Speak(who), pc' \in Pcs, firstTurn' \in BOOLEAN PROVE FlagTypes'
    BY <1>0 DEF Speak
<1>1. ASSUME UNCHANGED <<playing, taskVars, flagVars, heard, historyVars>>, pc' \in Pcs,
             firstTurn' \in BOOLEAN
      PROVE  FlagTypes'
    BY <1>1 DEF taskVars, flagVars, historyVars
<1>2. \A place \in Pcs : Say(place) => FlagTypes'
    BY <1>0 DEF Say, Goto, Speeches
<1>3. CASE Begin
    BY <1>3, <1>1, <1>2 DEF Begin, Goto, Pcs
<1>4. CASE Swallow
    BY <1>4 DEF Swallow, taskVars, historyVars
<1>5. CASE TakeTurn
    <2>1. pc' \in Pcs /\ firstTurn' \in BOOLEAN
        BY <1>5 DEF TakeTurn, Answered, Pcs
    <2> QED BY <1>5, <2>1, <1>0, <1>1 DEF TakeTurn, Speeches
<1>6. CASE StreamReply \/ Prompt
    BY <1>6, <1>2 DEF StreamReply, Prompt, Pcs
<1>7. CASE RunGraph
    BY <1>7, <1>0 DEF RunGraph, Goto, Pcs, Speeches
<1>8. CASE GraphReturns
    BY <1>8, <1>1, <1>2 DEF GraphReturns, Preview, Goto, Pcs, sttVars
<1>9. CASE Decide \/ Listen
    BY <1>9, <1>1 DEF Decide, Listen, Goto, Pcs, sttVars
<1>10. ASSUME NEW who \in Speeches, SpeechEnds(who) PROVE FlagTypes'
    BY <1>10 DEF SpeechEnds, Hushed, CancelUnmute
<1>11. ASSUME NEW task, Unmute(task) PROVE FlagTypes'
    BY <1>11 DEF Unmute, turnVars, sttVars, historyVars
<1>12. CASE TimerFires
    BY <1>12 DEF TimerFires, Fires, turnVars, taskVars, sttVars, historyVars
<1>13. ASSUME NEW kind, SpeechStarted(kind) PROVE FlagTypes'
    <2>1. CASE muted
        BY <1>13, <2>1 DEF SpeechStarted, turnVars, taskVars
    <2>2. CASE ~muted
        BY <1>13, <2>2 DEF SpeechStarted, turnVars, taskVars
    <2> QED BY <2>1, <2>2
<1>14. CASE Transcript
    BY <1>14 DEF Transcript, turnVars, taskVars, flagVars
<1>15. CASE UtteranceEnd
    BY <1>15, <1>1 DEF UtteranceEnd, turnVars
<1>16. CASE UNCHANGED vars
    BY <1>16, <1>1 DEF vars, turnVars, sttVars
<1> QED
    BY <1>3, <1>4, <1>5, <1>6, <1>7, <1>8, <1>9, <1>10, <1>11, <1>12, <1>13, <1>14, <1>15,
       <1>16 DEF Next, Straight, Deepgram

LEMMA SttStep == SttInv /\ [Next]_vars => SttInv'
<1> SUFFICES ASSUME SttInv, [Next]_vars PROVE SttInv'
    OBVIOUS
<1>1. ASSUME UNCHANGED <<user, queue, utterances, swallowed>>, parts' \in {0, parts} PROVE SttInv'
    <2>1. PartsAreOfUser'
        BY <1>1, NotSilent DEF SttInv, PartsAreOfUser
    <2> QED BY <1>1, <2>1 DEF SttInv, Counted, Quiet
<1>2. ASSUME NEW who, Speak(who) PROVE parts' = 0
    BY <1>2 DEF Speak
<1>3. ASSUME queue # <<>>, queue' = Tail(queue), UNCHANGED <<user, utterances>>,
             parts' \in {0, parts}, swallowed' \in {swallowed, swallowed + 1}
      PROVE  SttInv'
    <2>1. PartsAreOfUser'
        BY <1>3, NotSilent DEF SttInv, PartsAreOfUser
    <2>2. queue' \in Seq(Said) /\ Len(queue') = Len(queue) - 1 /\ Len(queue) \in Nat
        BY <1>3 DEF SttInv
    <2> QED BY <1>3, <2>1, <2>2 DEF SttInv, Counted, Quiet
<1>4. CASE Swallow \/ TakeTurn \/ Decide
    BY <1>4, <1>2, <1>3 DEF Swallow, TakeTurn, Decide
<1>5. CASE Begin \/ StreamReply \/ RunGraph \/ Prompt \/ Listen
    BY <1>5, <1>1, <1>2 DEF Begin, StreamReply, RunGraph, Prompt, Listen, Say, sttVars
<1>6. CASE GraphReturns
    <2>1. CASE Preview
        <3>1. ASSUME NEW u \in Utterance
              PROVE  Unseen(u) \in Utterance /\ Unseen(u).finals = u.finals
            BY DEF Unseen, Utterance
        <3>2. queue' \in Seq(Said) /\ Len(queue') = Len(queue)
            <4>1. queue' = [i \in 1..Len(queue) |-> Unseen(queue[i])]
                BY <2>1 DEF Preview, SttInv
            <4>2. \A i \in 1..Len(queue) : Unseen(queue[i]) \in Said
                BY <3>1 DEF SttInv, Said
            <4> QED BY <4>1, <4>2 DEF SttInv
        <3>3. parts' = 0 /\ UNCHANGED <<utterances, swallowed>>
            BY <2>1, <1>2 DEF Preview, Say
        <3>4. CASE Quiet
            <4>1. user' = user
                BY <2>1, <3>4 DEF Preview
            <4> QED BY <3>2, <3>3, <3>4, <4>1 DEF SttInv, PartsAreOfUser, Counted, Quiet
        <3>5. CASE ~Quiet
            <4>1. user \in Utterance /\ user' = Unseen(user)
                BY <2>1, <3>5 DEF Preview, SttInv, PartsAreOfUser, Quiet
            <4>2. user' \in Utterance /\ user' # Silent /\ 0 <= user'.finals
                BY <3>1, <4>1, NotSilent
            <4> QED BY <3>2, <3>3, <3>5, <4>2 DEF SttInv, PartsAreOfUser, Counted, Quiet
        <3> QED BY <3>4, <3>5
    <2> QED BY <1>6, <2>1, <1>1, <1>2 DEF GraphReturns, Say, sttVars
<1>7. ASSUME NEW who, SpeechEnds(who) PROVE SttInv'
    BY <1>7, <1>1 DEF SpeechEnds, Hushed
<1>8. ASSUME NEW task, Unmute(task) PROVE SttInv'
    BY <1>8, <1>1 DEF Unmute, turnVars, sttVars
<1>9. CASE TimerFires \/ UNCHANGED vars
    BY <1>9, <1>1 DEF TimerFires, Fires, vars, turnVars, sttVars
<1>10. ASSUME NEW kind \in Kinds, SpeechStarted(kind) PROVE SttInv'
    <2>1. user' \in Utterance /\ user'.finals = 0 /\ user' # Silent
        <3>1. user' = [kind |-> kind, number |-> utterances + 1,
                       seen |-> pc \in {"preview", "decide"}, finals |-> 0]
            BY <1>10 DEF SpeechStarted
        <3>2. utterances + 1 \in 1..MaxUtterances
            BY <1>10, VoiceAssumption DEF SpeechStarted, SttInv
        <3>3. user' \in Utterance /\ user'.finals = 0
            BY <3>1, <3>2, VoiceAssumption DEF Utterance
        <3> QED BY <3>3, NotSilent
    <2>2. parts = 0 /\ parts' = 0 /\ Quiet
        BY <1>10, NotSilent DEF SpeechStarted, SttInv, PartsAreOfUser, Quiet
    <2>3. UNCHANGED <<queue, swallowed>> /\ utterances' = utterances + 1 /\ utterances < MaxUtterances
        BY <1>10 DEF SpeechStarted, turnVars
    <2>4. PartsAreOfUser' /\ ~Quiet'
        BY <2>1, <2>2 DEF PartsAreOfUser, Quiet
    <2> QED BY <2>2, <2>3, <2>4, VoiceAssumption DEF SttInv, Counted
<1>11. CASE Transcript
    <2>1. user \in Utterance /\ user # Silent /\ parts \in Nat /\ parts <= user.finals
        BY <1>11 DEF Transcript, SttInv, PartsAreOfUser, Quiet
    <2>2. UNCHANGED <<queue, utterances, swallowed>>
        BY <1>11 DEF Transcript, turnVars
    <2>3. CASE UNCHANGED <<parts, user>>
        BY <2>2, <2>3 DEF SttInv, PartsAreOfUser, Counted, Quiet
    <2>4. CASE user.finals < MaxFinals /\ user' = [user EXCEPT !.finals = @ + 1] /\ parts' = parts + 1
        <3>1. user' \in Utterance /\ user'.finals = user.finals + 1
            BY <2>1, <2>4, VoiceAssumption DEF Utterance
        <3>2. user' # Silent /\ user.finals \in Nat
            BY <2>1, <3>1, NotSilent
        <3>3. parts' \in Nat /\ parts' <= user'.finals
            BY <2>1, <2>4, <3>1, <3>2
        <3> QED BY <2>1, <2>2, <3>1, <3>2, <3>3 DEF SttInv, PartsAreOfUser, Counted, Quiet
    <2> QED BY <1>11, <2>3, <2>4 DEF Transcript
<1>12. CASE UtteranceEnd
    <2>1. user \in Utterance /\ ~Quiet /\ parts \in Nat /\ parts <= user.finals
        BY <1>12 DEF UtteranceEnd, SttInv, PartsAreOfUser, Quiet
    <2>2. UNCHANGED <<utterances, swallowed>> /\ user' = Silent /\ parts' = 0
        BY <1>12 DEF UtteranceEnd, turnVars
    <2>3. queue' \in Seq(Said) /\ Len(queue') <= Len(queue) + 1 /\ Len(queue) \in Nat /\ Len(queue') \in Nat
        <3>1. parts # 0 => user \in Said
            BY <2>1, NotSilent DEF Said
        <3> QED BY <1>12, <3>1 DEF UtteranceEnd, SttInv
    <2>4. PartsAreOfUser' /\ Quiet'
        BY <2>2 DEF PartsAreOfUser, Quiet
    <2> QED BY <2>1, <2>2, <2>3, <2>4 DEF SttInv, Counted
<1> QED
    BY <1>4, <1>5, <1>6, <1>7, <1>8, <1>9, <1>10, <1>11, <1>12 DEF Next, Straight, Deepgram

\* What a speech does to the flag of the onset.
LEMMA SpeechForgetsOnset ==
    ASSUME NEW who, Speak(who) \/ Hushed(who) PROVE ~wasActive' /\ spokenOver' = 0
BY DEF Speak, Hushed

LEMMA OnsetStep == SttInv /\ OnsetInv /\ [Next]_vars => OnsetInv'
<1> SUFFICES ASSUME SttInv, OnsetInv, [Next]_vars PROVE OnsetInv'
    OBVIOUS
<1>0. utterances \in Nat
    BY VoiceAssumption DEF SttInv
<1>1. ASSUME UNCHANGED <<ttsActive, wasActive, utterances, spokenOver>> PROVE OnsetInv'
    BY <1>1 DEF OnsetInv
<1>2. ASSUME NEW who, Speak(who) \/ Hushed(who), UNCHANGED utterances PROVE OnsetInv'
    BY <1>0, <1>2, SpeechForgetsOnset DEF OnsetInv
<1>3. CASE Begin \/ TakeTurn \/ StreamReply \/ RunGraph \/ Prompt
    BY <1>3, <1>1, <1>2 DEF Begin, TakeTurn, StreamReply, RunGraph, Prompt, Say, flagVars, historyVars
<1>4. CASE Swallow \/ Decide \/ Listen
    BY <1>4, <1>1 DEF Swallow, Decide, Listen, flagVars, sttVars, historyVars
<1>5. CASE GraphReturns
    BY <1>5, <1>1, <1>2 DEF GraphReturns, Preview, Say, flagVars, sttVars, historyVars
<1>6. ASSUME NEW who, SpeechEnds(who) PROVE OnsetInv'
    BY <1>6, <1>2 DEF SpeechEnds
<1>7. ASSUME NEW task, Unmute(task) PROVE OnsetInv'
    BY <1>7, <1>1 DEF Unmute, sttVars, historyVars
<1>8. CASE TimerFires
    BY <1>8, <1>1 DEF TimerFires, Fires, sttVars, historyVars
<1>9. ASSUME NEW kind, SpeechStarted(kind) PROVE OnsetInv'
    <2>1. utterances' = utterances + 1 /\ ttsActive' = ttsActive
          /\ spokenOver' = IF ttsActive THEN utterances + 1 ELSE spokenOver
        BY <1>9 DEF SpeechStarted
    <2>2. CASE muted
        <3>1. wasActive' = wasActive
            BY <1>9, <2>2 DEF SpeechStarted
        <3> QED BY <1>0, <2>1, <3>1 DEF OnsetInv
    <2>3. CASE ~muted
        <3>1. wasActive' = ttsActive
            BY <1>9, <2>3 DEF SpeechStarted
        <3> QED BY <1>0, <2>1, <3>1 DEF OnsetInv
    <2> QED BY <2>2, <2>3
<1>10. CASE Transcript \/ UtteranceEnd \/ UNCHANGED vars
    BY <1>10, <1>1 DEF Transcript, UtteranceEnd, vars, flagVars, sttVars, historyVars
<1> QED
    BY <1>3, <1>4, <1>5, <1>6, <1>7, <1>8, <1>9, <1>10 DEF Next, Straight, Deepgram

LEMMA NumberedStep == SttInv /\ Numbered /\ [Next]_vars => Numbered'
<1> SUFFICES ASSUME SttInv, Numbered, [Next]_vars PROVE Numbered'
    OBVIOUS
<1>0. utterances \in Nat /\ queue \in Seq(Said)
    BY VoiceAssumption DEF SttInv
<1>1. ASSUME UNCHANGED <<user, queue, utterances>> PROVE Numbered'
    BY <1>1 DEF Numbered, Quiet
<1>2. ASSUME queue # <<>>, queue' = Tail(queue), UNCHANGED <<user, utterances>> PROVE Numbered'
    <2>1. \A i \in DOMAIN queue' : i + 1 \in DOMAIN queue /\ queue'[i] = queue[i + 1]
        BY <1>0, <1>2
    <2> QED BY <1>2, <2>1 DEF Numbered, Quiet
<1>3. CASE Swallow \/ TakeTurn \/ Decide
    BY <1>3, <1>2 DEF Swallow, TakeTurn, Decide
<1>4. CASE Begin \/ StreamReply \/ RunGraph \/ Prompt \/ Listen
    BY <1>4, <1>1 DEF Begin, StreamReply, RunGraph, Prompt, Listen, sttVars
<1>5. CASE GraphReturns
    <2>1. CASE Preview
        <3>1. ASSUME NEW u \in Utterance
              PROVE  Unseen(u) \in Utterance /\ Unseen(u).number = u.number
            BY DEF Unseen, Utterance
        <3>2. UNCHANGED utterances /\ (Quiet => user' = user) /\ (~Quiet => user' = Unseen(user))
              /\ queue' = [i \in DOMAIN queue |-> Unseen(queue[i])]
            BY <2>1 DEF Preview
        <3>3. ~Quiet => user \in Utterance
            BY DEF SttInv, PartsAreOfUser, Quiet
        <3>4. \A i \in DOMAIN queue : queue[i] \in Utterance
            BY <1>0 DEF Said
        <3>5. ~Quiet' => user'.number <= utterances'
            BY <3>1, <3>2, <3>3 DEF Numbered, Quiet
        <3>6. \A i \in DOMAIN queue' : queue'[i].number <= utterances'
            BY <3>1, <3>2, <3>4 DEF Numbered
        <3> QED BY <3>5, <3>6 DEF Numbered
    <2> QED BY <1>5, <2>1, <1>1 DEF GraphReturns, sttVars
<1>6. ASSUME NEW who, SpeechEnds(who) PROVE Numbered'
    BY <1>6, <1>1 DEF SpeechEnds
<1>7. ASSUME NEW task, Unmute(task) PROVE Numbered'
    BY <1>7, <1>1 DEF Unmute, sttVars
<1>8. CASE TimerFires \/ UNCHANGED vars
    BY <1>8, <1>1 DEF TimerFires, Fires, vars, sttVars
<1>9. ASSUME NEW kind, SpeechStarted(kind) PROVE Numbered'
    <2>1. UNCHANGED queue /\ utterances' = utterances + 1 /\ user'.number = utterances + 1
        BY <1>9 DEF SpeechStarted
    <2>2. \A i \in DOMAIN queue : queue[i].number \in Nat
        BY <1>0, VoiceAssumption DEF Said, Utterance
    <2> QED BY <1>0, <2>1, <2>2 DEF Numbered
<1>10. CASE Transcript
    <2>1. user \in Utterance /\ ~Quiet
        BY <1>10 DEF Transcript, SttInv, PartsAreOfUser, Quiet
    <2>2. user'.number = user.number
        BY <1>10, <2>1 DEF Transcript, Utterance
    <2> QED BY <1>10, <2>1, <2>2 DEF Transcript, Numbered
<1>11. CASE UtteranceEnd
    <2>1. ~Quiet /\ Quiet' /\ UNCHANGED utterances
          /\ (queue' = queue \/ queue' = Append(queue, user))
        BY <1>11 DEF UtteranceEnd, Quiet
    <2>2. \A i \in DOMAIN queue' : queue'[i] = user \/ (i \in DOMAIN queue /\ queue'[i] = queue[i])
        BY <1>0, <2>1
    <2> QED BY <2>1, <2>2 DEF Numbered
<1> QED
    BY <1>3, <1>4, <1>5, <1>6, <1>7, <1>8, <1>9, <1>10, <1>11 DEF Next, Straight, Deepgram

\* All of it holds in every reachable state.
TurnInv == FlagTypes /\ SttInv /\ OnsetInv /\ Numbered

LEMMA TurnInvariant == Spec => []TurnInv
<1>1. Init => TurnInv
    <2> SUFFICES ASSUME Init PROVE TurnInv
        OBVIOUS
    <2>1. FlagTypes
        BY DEF Init, FlagTypes, Pcs, Speeches
    <2>2. PartsAreOfUser /\ Quiet
        BY DEF Init, PartsAreOfUser, Quiet
    <2>3. queue = <<>> /\ queue \in Seq(Said) /\ Len(queue) = 0 /\ DOMAIN queue = {}
        BY DEF Init
    <2>4. utterances = 0 /\ swallowed = 0 /\ spokenOver = 0 /\ ~wasActive
        BY DEF Init
    <2>5. SttInv
        BY <2>2, <2>3, <2>4, VoiceAssumption DEF SttInv, Counted
    <2>6. OnsetInv /\ Numbered
        BY <2>2, <2>3, <2>4 DEF OnsetInv, Numbered
    <2> QED BY <2>1, <2>5, <2>6 DEF TurnInv
<1>2. TurnInv /\ [Next]_vars => TurnInv'
    BY FlagTypesStep, SttStep, OnsetStep, NumberedStep DEF TurnInv
<1> QED BY <1>1, <1>2, PTL DEF Spec

\* The state keeps its type, for any number of utterances: what waits in utterance_queue
\* was said and transcribed (voice/stt.py:133), however it crossed the speeches
\* that clear _transcript_parts.
THEOREM TypeCorrect == Spec => []TypeOK
<1>1. TurnInv => TypeOK
    <2> SUFFICES ASSUME TurnInv PROVE TypeOK
        OBVIOUS
    <2>1. parts \in 0..MaxFinals /\ user \in Utterance \cup {Silent}
        BY VoiceAssumption, NotSilent DEF TurnInv, SttInv, PartsAreOfUser
    <2>2. swallowed \in 0..MaxUtterances /\ utterances \in 0..MaxUtterances
          /\ spokenOver \in 0..MaxUtterances
        BY VoiceAssumption DEF TurnInv, SttInv, Counted, OnsetInv
    <2>3. \A i \in DOMAIN queue : queue[i] \in Utterance /\ queue[i].finals > 0
        BY DEF TurnInv, SttInv, Said
    <2> QED BY <2>1, <2>2, <2>3 DEF TurnInv, TypeOK, FlagTypes, Pcs
<1> QED BY <1>1, TurnInvariant, PTL

\* A "yes" is kept from the loop only on account of an onset, its own or a later one, in
\* the speech that goes on when filter_utterance is asked (voice/barge_in.py:161): for
\* any number of utterances, and whatever flags the speeches before it left.
THEOREM OtherYesReachesLoop == Spec => OnlySpokenOverIsSwallowed
<1>1. TurnInv /\ [Next]_vars => [swallowed' # swallowed => Head(queue).number <= spokenOver]_vars
    <2> SUFFICES ASSUME TurnInv, [Next]_vars, swallowed' # swallowed
                 PROVE  Head(queue).number <= spokenOver
        OBVIOUS
    <2>1. Swallow
        BY OnlySwallowDrops
    <2>2. wasActive /\ queue # <<>>
        BY <2>1 DEF Swallow, Backchannel
    <2>3. 1 \in DOMAIN queue /\ Head(queue) = queue[1]
        BY <2>2 DEF TurnInv, SttInv
    <2> QED BY <2>2, <2>3 DEF TurnInv, OnsetInv, Numbered
<1> QED BY <1>1, TurnInvariant, PTL DEF Spec, OnlySpokenOverIsSwallowed
=============================================================================
