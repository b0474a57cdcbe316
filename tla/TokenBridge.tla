---------------------------- MODULE TokenBridge ----------------------------
(***************************************************************************)
(* One streamed turn of the voice loop (voice/loop.py:222-286): _produce   *)
(* reads the deltas of the LLM into a bounded asyncio queue, and           *)
(* play_streaming_tokens (voice/tts.py:217-289) takes them out, pushes one *)
(* sentence at a time to Cartesia and plays the audio that comes back,     *)
(* until the text ends or the user barges in.                              *)
(*                                                                         *)
(* A delta is a sequence of pieces, numbers that increase along the text;  *)
(* a piece in Ends is the last of a sentence.  0 on the queue is None.     *)
(***************************************************************************)
EXTENDS Naturals, Sequences, SequencesExt

CONSTANTS
    Deltas,    \* what the LLM would say, delta by delta
    Ends,      \* the pieces at which a sentence ends
    Capacity   \* maxsize of token_queue, 64 in the code

ASSUME BridgeAssumption ==
    /\ Deltas \in Seq(Seq(Nat \ {0}))
    /\ Capacity \in Nat \ {0}

VARIABLES
    llm,          \* where _produce of the loop is
    why,          \* the exception the token stream ended with, or "none"
    text,         \* streamed_text
    got,          \* deltas read from the stream so far
    queue,        \* token_queue
    tts,          \* where _produce of play_streaming_tokens is
    buffer,       \* its unpushed text
    pushed,       \* the text Cartesia was given
    audio,        \* where _consume is
    played,       \* pieces written to the sound device
    stop,         \* stop_event
    interrupted,  \* TRUE once the user barged in
    turn          \* what became of the turn

loopVars == <<llm, why, text, got>>
ttsVars == <<tts, buffer, pushed>>
audioVars == <<audio, played>>
vars == <<loopVars, queue, ttsVars, audioVars, stop, interrupted, turn>>

None == 0

Init ==
    /\ llm = "next" /\ why = "none" /\ text = <<>> /\ got = 0
    /\ queue = <<>>
    /\ tts = "get" /\ buffer = <<>> /\ pushed = <<>>
    /\ audio = "receive" /\ played = 0
    /\ stop = FALSE
    /\ interrupted = FALSE
    /\ turn = "running"

(***************************************************************************)
(* _produce of the loop                                                    *)
(***************************************************************************)
\* async for delta in token_iter: streamed_text += delta.
Delta ==
    /\ llm = "next"
    /\ got < Len(Deltas)
    /\ got' = got + 1
    /\ text' = text \o Deltas[got + 1]
    /\ llm' = "put"
    /\ UNCHANGED <<why, queue, ttsVars, audioVars, stop, interrupted, turn>>

\* await token_queue.put(delta): waits while the queue is full.
Put ==
    /\ llm = "put"
    /\ Len(queue) < Capacity
    /\ queue' = Append(queue, got)
    /\ llm' = "next"
    /\ UNCHANGED <<why, text, got, ttsVars, audioVars, stop, interrupted, turn>>

MStreamEndsWithoutFinally ==  \* mutant: the sentinel is put only after the last delta
    /\ llm = "next"
    /\ \/ why' = "none" /\ llm' = "sentinel"
       \/ why' = "api" /\ llm' = "done"
       \/ got = 0 /\ why' = "unsupported" /\ llm' = "done"
    /\ UNCHANGED <<text, got, queue, ttsVars, audioVars, stop, interrupted, turn>>

\* The stream is exhausted, or raises: an API error at any delta, or
\* StreamingNotSupported before the first.
StreamEnds ==
    /\ llm = "next"
    /\ \/ why' = "none"
       \/ why' = "api"
       \/ got = 0 /\ why' = "unsupported"
    /\ llm' = "sentinel"
    /\ UNCHANGED <<text, got, queue, ttsVars, audioVars, stop, interrupted, turn>>

MSentinelAtOnce ==  \* mutant: the sentinel does not wait for room
    /\ llm = "sentinel"
    /\ queue' = Append(queue, None)
    /\ llm' = "done"
    /\ UNCHANGED <<why, text, got, ttsVars, audioVars, stop, interrupted, turn>>

\* finally: await token_queue.put(None).
Sentinel ==
    /\ llm = "sentinel"
    /\ Len(queue) < Capacity
    /\ queue' = Append(queue, None)
    /\ llm' = "done"
    /\ UNCHANGED <<why, text, got, ttsVars, audioVars, stop, interrupted, turn>>

(***************************************************************************)
(* play_streaming_tokens                                                   *)
(***************************************************************************)
\* The earliest sentence boundary of s: the length of its first sentence, or 0.
Boundary(s) ==
    LET found == {i \in DOMAIN s : s[i] \in Ends}
    IN  IF found = {} THEN 0 ELSE CHOOSE i \in found : \A j \in found : i <= j

MTakeDropsRest ==  \* mutant: what follows the sentence in the buffer is thrown away
    /\ tts = "get"
    /\ queue # <<>>
    /\ queue' = Tail(queue)
    /\ IF Head(queue) = None \/ stop
       THEN tts' = "tail" /\ UNCHANGED buffer
       ELSE tts' = "flush" /\ buffer' = (IF Boundary(buffer \o Deltas[Head(queue)]) = 0
                                         THEN buffer ELSE <<>>) \o Deltas[Head(queue)]
    /\ UNCHANGED <<loopVars, pushed, audioVars, stop, interrupted, turn>>

\* The next item of the queue: None ends the text; after a barge-in the delta
\* is dropped and no other is taken; else it is appended to the buffer.
Take ==
    /\ tts = "get"
    /\ queue # <<>>
    /\ queue' = Tail(queue)
    /\ IF Head(queue) = None \/ stop
       THEN tts' = "tail" /\ UNCHANGED buffer
       ELSE tts' = "flush" /\ buffer' = buffer \o Deltas[Head(queue)]
    /\ UNCHANGED <<loopVars, pushed, audioVars, stop, interrupted, turn>>

\* Each completed sentence of the buffer is pushed, one await after the other.
Flush ==
    /\ tts = "flush"
    /\ LET b == Boundary(buffer)
       IN  IF b = 0
           THEN tts' = "get" /\ UNCHANGED <<buffer, pushed>>
           ELSE /\ pushed' = pushed \o SubSeq(buffer, 1, b)
                /\ buffer' = SubSeq(buffer, b + 1, Len(buffer))
                /\ UNCHANGED tts
    /\ UNCHANGED <<loopVars, queue, audioVars, stop, interrupted, turn>>

MTailForgotten ==  \* mutant: the text after the last boundary is not pushed
    /\ tts = "tail"
    /\ tts' = "done"
    /\ UNCHANGED <<loopVars, queue, buffer, pushed, audioVars, stop, interrupted, turn>>

\* The rest of the buffer is pushed, then no_more_inputs.
PushTail ==
    /\ tts = "tail"
    /\ pushed' = pushed \o buffer
    /\ buffer' = <<>>
    /\ tts' = "done"
    /\ UNCHANGED <<loopVars, queue, audioVars, stop, interrupted, turn>>

\* _consume: a chunk is written first, then stop_event is looked at.
Play ==
    /\ audio = "receive"
    /\ played < Len(pushed)
    /\ played' = played + 1
    /\ audio' = IF stop THEN "done" ELSE "receive"
    /\ UNCHANGED <<loopVars, queue, ttsVars, stop, interrupted, turn>>

\* ctx.receive() is exhausted once nothing more will be pushed.
Silence ==
    /\ audio = "receive"
    /\ tts = "done"
    /\ played = Len(pushed)
    /\ audio' = "done"
    /\ UNCHANGED <<loopVars, queue, ttsVars, played, stop, interrupted, turn>>

Speaking == audio # "over"

\* The barge-in timer sets stop_event.
BargeIn ==
    /\ Speaking
    /\ ~stop
    /\ stop' = TRUE
    /\ interrupted' = TRUE
    /\ UNCHANGED <<loopVars, queue, ttsVars, audioVars, turn>>

\* Both tasks of play_streaming_tokens have returned; speak_streaming's finally.
SpeechEnds ==
    /\ tts = "done"
    /\ audio = "done"
    /\ audio' = "over"
    /\ stop' = FALSE
    /\ UNCHANGED <<loopVars, queue, ttsVars, played, interrupted, turn>>

(***************************************************************************)
(* asyncio.gather: returns when both have, raises when _produce does       *)
(***************************************************************************)
Gathered ==
    /\ turn = "running"
    /\ llm = "done"
    /\ \/ why = "none" /\ audio = "over" /\ turn' = "streamed"
       \/ why = "unsupported" /\ turn' = "fallback"
       \/ why = "api" /\ turn' = "failed"
    /\ UNCHANGED <<loopVars, queue, ttsVars, audioVars, stop, interrupted>>

Produce == Delta \/ Put \/ StreamEnds \/ Sentinel
PushSentences == Take \/ Flush \/ PushTail
Consume == Play \/ Silence

Next == Produce \/ PushSentences \/ Consume \/ SpeechEnds \/ Gathered \/ BargeIn

Spec == Init /\ [][Next]_vars

(***************************************************************************)
(* Every coroutine that can run does; the LLM's stream goes on or ends.    *)
(***************************************************************************)
Fairness ==
    /\ WF_vars(Produce)
    /\ WF_vars(PushSentences)
    /\ WF_vars(Consume)
    /\ WF_vars(SpeechEnds)
    /\ WF_vars(Gathered)

FairSpec == Spec /\ Fairness

(***************************************************************************)
(* Properties                                                              *)
(***************************************************************************)
\* Every variable has its type, and the queue never exceeds its capacity.
TypeOK ==
    /\ llm \in {"next", "put", "sentinel", "done"}
    /\ why \in {"none", "api", "unsupported"}
    /\ text \in Seq(Nat) /\ buffer \in Seq(Nat) /\ pushed \in Seq(Nat)
    /\ got \in 0..Len(Deltas)
    /\ queue \in Seq(0..Len(Deltas)) /\ Len(queue) <= Capacity
    /\ tts \in {"get", "flush", "tail", "done"}
    /\ audio \in {"receive", "done", "over"}
    /\ played \in 0..Len(pushed)
    /\ stop \in BOOLEAN /\ interrupted \in BOOLEAN
    /\ turn \in {"running", "streamed", "fallback", "failed"}

\* loop.py:233, "tee the LLM token stream to both": what was pushed, is buffered, is
\* queued or is about to be queued is the streamed text, in order, until the turn is
\* interrupted and the queue given up; and never is anything else pushed, whenever the
\* user barges in.
Carried(d) == IF d = None THEN <<>> ELSE Deltas[d]
TextOf(q) == FlattenSeq([i \in DOMAIN q |-> Carried(q[i])])
InHand == IF llm = "put" THEN Deltas[got] ELSE <<>>
NothingLostOnTheWay ==
    /\ \/ interrupted /\ tts \in {"tail", "done"}
       \/ pushed \o buffer \o TextOf(queue) \o InHand = text
    /\ IsPrefix(pushed, text)

\* A turn that streamed to its end without a barge-in was spoken to its end: all of
\* the text reached Cartesia and all of its audio the sound device.
WholeReplySpoken ==
    turn = "streamed" /\ ~interrupted => pushed = text /\ played = Len(text)

\* A streamed turn nobody interrupts ends, however the stream of the LLM ends, and so
\* does the speech, even one left behind by a fallback.
UninterruptedTurnEnds == <>(interrupted \/ (turn # "running" /\ audio = "over"))

\* loop.py:120, "Voice loop: wait_for_utterance -> run_session -> speak response": every
\* turn ends and the loop listens again.
TurnEnds == <>(turn # "running")
=============================================================================
