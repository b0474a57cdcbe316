# A verification project for dAIly

dAIly is a voice-first assistant.  Overnight it composes a briefing from a
user's mail, calendar and Slack; in the morning it speaks it, answers questions
and drafts actions (mails, messages, events) that leave the system only after
the user approves them.  This directory holds TLA+ models of that program, the
TLC configurations that check them, and proofs that TLAPS checks.  Paths below
are relative to the repository; `daily/` stands for `src/daily/`.

## 1. Inventory

| Component | State it keeps | Operations | Talks to | Hard behaviour | What makes it correct |
|---|---|---|---|---|---|
| Orchestrator graph (`daily/orchestrator/graph.py`, `nodes.py`, `state.py`) | channels `messages`, `active_user_id`, `pending_action`, `approval_decision` of a checkpointed thread | route_intent; respond, summarise_thread, draft, approval (interrupt), execute | OpenAI, executors, audit log | supersteps whose checkpoints are written late; crash between any two; failed drafts; a decision left in a durable thread | nothing is carried out without the user's confirmation of that very draft, at most once |
| Orchestrator session (`session.py`) | thread id `user-{id}-{date}`; module-level adapter list | create_session_config, initialize_session_state, run_session, astream_session | the graph, Redis, profile | a thread shared by every front end of a user | the initial state reaches the thread once |
| Text chat (`daily/cli.py`) | MemorySaver, `first_turn` | turn, approval loop, exit | session | edit rounds; API error ends the loop | as the gate |
| Voice loop (`daily/voice/loop.py`) | Postgres thread, `first_turn`, token queue | turn (streamed or through the graph), spoken approval, exit | session, turn manager | two producers and consumers per streamed turn; a queue of 64 tokens; stale utterances | as the gate; every turn ends |
| Turn manager (`daily/voice/barge_in.py`, `stt.py`, `utils.py`) | `_tts_active`, `muted`, `_stop_event`, timer tasks, transcript parts, utterance queue | speak, speak_streaming, filter_utterance, SpeechStarted, transcript, UtteranceEnd, timers | Deepgram, Cartesia, microphone | timers racing events and one another | the microphone is never left muted, barge-in stops speech only for speech, words reach the loop |
| Text to speech (`daily/voice/tts.py`) | a socket and an output stream per utterance | play_streaming, play_streaming_tokens | Cartesia | stopping a producer that waits for a consumer | playback always ends |
| LiveKit worker (`daily/worker/`) | bundle (graph, config, initial state), `_first_turn` | entrypoint, stream_response, cancelled reply | session, LiveKit | replies cancelled in the middle of a run | as the gate; every draft gets decided |
| Executors (`daily/actions/`) | none | validate, execute | Gmail, Graph, Calendar, Slack | lost answers | refuse what is out of the whitelist or scope |
| Audit log (`daily/actions/log.py`) | table `action_log` | append (detached task) | database | detached writes lost in a crash | a row never claims what did not happen |
| Pairing and device tokens (`daily/auth/`) | tables `pairing_codes`, `device_tokens`, `users` | send-link, initiate, complete, token/refresh, bearer check | Resend, database | concurrent completes, colliding codes, expiry | a code is used once; one user per address |
| Integrations (`daily/integrations/`) | Redis `oauth_state:*`, `oauth_cv:*`; table `integration_tokens` | connect, callback per provider | provider consent pages | concurrent callbacks; time out of a state | one row per user and provider |
| Token vault (`daily/vault/`) | `integration_tokens` | refresh_expiring_tokens, encrypt, decrypt | provider token endpoints | one failure among many; one commit for all | a rotated refresh token is never lost |
| Briefing (`daily/briefing/`, `daily/main.py`) | APScheduler job, Redis `briefing:{user}:{date}` | cron run, triggered run, read, reschedule | adapters, OpenAI, Redis | two runs at once, dates in two time zones, stale schedule | today's readers see the latest run |
| Profile (`daily/profile/`, `daily/users/router.py`) | tables `user_profile`, `signal_log` | load, upsert, append signal, preferences | database, scheduler | concurrent partial updates | no update is lost; preferences take effect |
| iOS app (`ios/`) | keychain tokens, room, VoiceSession state, timers | pair, connect, disconnect, refresh | API, LiveKit | disconnect racing connect, refresh racing refresh | a session that is closed stays closed |
| Android app (`android/`) | token store, VoiceSession state | the same | API, LiveKit | the same | the same |
| LiveKit tokens, e-mail delivery, database schema, deployment files | none of their own | sign, send, migrate | | | out of scope: stateless or configuration |

The components meet at four pieces of shared state: the checkpointed thread of
the day (chat, voice, worker), Redis (briefing cache, OAuth states), the
database (tokens, users, profile, audit), and the module-level adapter list.

## 2. Plan

In order of importance, with what each module composes.  Every item is done;
what could follow is at the end.

1. `ApprovalGate` (abstract promise) and `Orchestrator` (graph, session, chat,
   voice loop and worker on one thread), `OrchestratorProofs`, `OnceProofs`.
2. `VoiceTurn` (the turn manager with its timers, the microphone and Deepgram's
   events), `VoiceTurnProofs`; `TokenBridge` (the producer, the queue and the two
   tasks of `play_streaming_tokens`), `TokenBridgeProofs`.
3. `Integrations` (OAuth connects of phones and command line, the token rows, the
   refresh job and the readers of the rows), `IntegrationsProofs`.
4. `Pairing` (codes, users, devices, and the phones that save tokens),
   `PairingProofs`.
5. `Settings` (the two rows of preferences and the scheduler) and `Briefing`, which
   extends it with the pipeline and its cache; `ContextBuilder`, the pure part of a
   briefing; `BriefingProofs` for the three of them.
6. `MobileSession` (VoiceSession of both apps), `MobileSessionProofs`.

Left for later: variants like that of `RunsGoOn` for a streamed turn and a prompt;
the life cycle of the STT connection; the whitelist and scope checks of the
executors.

No module that is proved about declares a RECURSIVE operator.

## 3. What is modelled

### ApprovalGate

What the gate promises the user of one front end: an action is carried out only
on a grant, a grant is the confirmation of the draft then on offer, and a grant
is used at most once.  Four actions (`Offer`, `Grant`, `Spend`, `Lapse`).

### Orchestrator

| Variable | Code |
|---|---|
| `thread` | the latest LangGraph checkpoint of `user-{id}-{date}`: `next`, `pending_action`, `approval_decision`, whether `active_user_id` was ever set, and whether the interrupt's payload is stored |
| `run[s]` | the copy a running `ainvoke` works on, with the node about to run and the value `interrupt()` will return |
| `front[s]`, `first[s]`, `shown[s]` | where the loop of front end `s` is; `first_turn`; the draft whose preview is at the prompt |
| `sends`, `tasks`, `audit` | what the provider carried out; detached `_log_action` tasks; rows of `action_log` that say `sent` |
| `confirms`, `last`, `approved`, `crashed`, `made`, `starts` | history the properties speak of, and the counters that bound a run |

`Start`, `Stream`, `Turn`, `Check`, `Answer`, `End` and `Interrupt` are the
steps of the front ends (`cli.py`, `voice/loop.py`, `worker/llm_bridge.py`).
`Talk`, `DraftSucceeds`, `DraftFails`, `ApprovalRaises`, `ApprovalPauses`,
`ApprovalReturns`, `ExecuteRefuses`, `ExecuteCalls` and `ExecuteReturns` are the
nodes of the graph on their branches.  `WriteLog` is a detached audit task.
The parts of LangGraph the code relies on (`Loaded`, `Superstep`, `Return`,
`Checkpoint`) are external: a run starts from the latest checkpoint; a
checkpoint is written while the next node runs, so that a crash may find the
one before; new input discards an unfinished run; a resume runs the interrupted
node again from its start.

Abstractions.  A draft is the number of the LLM reply that made it: two drafts
are the same only if they are the same object.  `edit` stands for every
`edit:<instruction>`.  `respond` and `summarise_thread` are one action `Talk`,
since neither writes a channel of the gate and both turn every error into a
message; that route_intent chooses by keywords is a free choice of the node.
Whether a text turn is streamed is a free choice too.  `_capture_signal` is left
out.  Only rows that say `sent` are kept of the audit log.

### TokenBridge

One streamed turn (`voice/loop.py:222-286`, `voice/tts.py:217-289`).

| Variable | Code |
|---|---|
| `llm`, `why`, `text`, `got` | the loop's `_produce`: where it is, what the stream raised, `streamed_text`, deltas read |
| `queue` | `token_queue`, with 0 for the sentinel `None` |
| `tts`, `buffer`, `pushed` | `_produce` of `play_streaming_tokens`: where it is, its buffer, what Cartesia was given |
| `audio`, `played` | `_consume`: where it is, how much audio was written |
| `stop`, `interrupted`, `turn` | `stop_event`; whether the user ever barged in; what `gather` gave the loop |

Each action is what one coroutine does between two awaits.  Text is a sequence
of numbered pieces, and a set says where sentences end, so a delta may hold
several ends or none.  The audio of a piece is one chunk.  `TextOf(queue)` is the
text the queue carries, `InHand` the delta that waits for room in it.

### VoiceTurn

The turn manager (`voice/barge_in.py`), the handlers of the STT pipeline
(`voice/stt.py`) and the loop's turns and spoken approvals around them.

| Variable | Code |
|---|---|
| `pc`, `firstTurn` | where `run_voice_session` or `_handle_voice_approval` is; `first_turn` |
| `playing` | speeches inside `speak`/`speak_streaming`: the one the loop waits for, and one a fallback left running |
| `unmutes`, `unmuteTask` | tasks of `_unmute_after_delay` that did not run yet; whose is in `_unmute_task` |
| `ttsActive`, `muted`, `stop`, `timer`, `cancelled`, `wasActive` | the flags, the event and the barge-in timer |
| `parts`, `heard`, `queue` | `_transcript_parts`, `_has_speech_transcript`, `utterance_queue` |
| `user`, `utterances`, `cause`, `spokenOver`, `swallowed` | what the user is saying, as Deepgram follows it; the bound; history |

`Speak` is `speak` up to the await of the TTS task, `Hushed` its finally block.
Time is left out but for two orders the code relies on: `UtteranceEnd` needs
1000 ms of silence and so comes after the 900 ms timer of its own onset, and a
cancelled task runs before anything else that waits for the event loop.  While
the mic is muted Deepgram hears silence; what it heard before may still arrive.
A speech may last any time.  That a streamed turn may hang after a barge-in is
`TokenBridge`'s subject and is left out here.  The end of a session (`stop`,
"exit", an API error) is not modelled.

### Integrations

Connected accounts: `daily/integrations/router.py`, the `auth.py` of each
provider, `daily/vault/refresh.py`, and what reads the rows.

| Variable | Code |
|---|---|
| `flow`, `states`, `verifiers` | who began a connect and for which provider; `oauth_state:*` and `oauth_cv:*` in Redis |
| `codesUsed`, `tok`, `issued`, `live` | at the provider: codes exchanged, grants, and the refresh token it accepts; `tok[g].version` is the one the row holds |
| `stored`, `expiring` | rows of `integration_tokens`, and those within the job's buffer |
| `pc`, `at`, `verifier`, `grant`, `snap` | where a callback, or the command `daily connect`, is, with its local variables and the rows its DELETE saw |
| `job` | `refresh_expiring_tokens`: the rows it selected, what failed and what was answered |
| `phone` | `connectedProviders` of a user's phone |
| `lost`, `overlapped` | history |

A callback goes through `GetState`, `DelState`, `TakeVerifier`, its exchange,
`BeginDelete`, `Lock`, `Commit` and `Redirect`: one action between two awaits, or
one statement of PostgreSQL under READ COMMITTED, where a DELETE works on the
rows it saw and waits for whoever is deleting one of them.  The command line is a
process of its own.  The refresh job calls its providers synchronously: while it
is `refreshing`, the server's event loop runs nothing else (`LoopFree`).
`Rollback` and `Crash` may come at any point.  Readers (`EmailExecutor`,
`SlackExecutor`, `CalendarExecutor`, `SessionAdapters`, `IntegrationStatus`) are
operators on the rows; one that raises gives the empty set.

Abstractions: a grant stands for its row; access tokens, scopes and encryption are
left out.  `refresh_expiring_tokens` has no caller outside the tests, and the
model starts it whenever a row expires.

### Pairing

`daily/auth/router.py`, and the phones' `AuthService`, `KeychainStore` and
`TokenStore`, `TokenRefresher` and launch code.

| Variable | Code |
|---|---|
| `codes`, `holder` | `pairing_codes`, and the open transaction that updated a row |
| `users`, `nextId`, `devices` | `users`, the sequence of its ids, `device_tokens` |
| `task` | calls of `completePairing` and `refresh`: before the UPDATE, before the commit, saving; its code, and the rows that had expired when it began (`late`) |
| `phone` | Keychain or TokenStore, the flag of AppState, whether the first launch was seen, the steps of Android's launch coroutine |
| `kills` | bound |
| `torn` | history: phones where the second write of a pairing failed or was cut off, or an access token asked for before came in after the pairing's |
| `misled` | history: phones where a write failed, or met Android's launch, since they were last launched |

`CompareAndSwap` is the UPDATE of `pair_complete` up to its flush,
`CommitPairing` the rest; two rows may carry the same digits, and both are marked.
The UPDATE matches the rows that are there when it runs (`Matching`) against the
time its request began.  `TokenRefresh` is what `VoiceSession` asks for on a 401:
nothing else calls `refresh()`, and it needs an access token.
`Save` writes one key of the phone, and may fail.  iOS cleans up and loads before
anything is shown (`Launch`), Android in a coroutine beside everything else
(`Boot`).  An access token is the user it names, a refresh token the number of
its row.

### Settings and Briefing

`Settings`: `upsert_preference`, `update_preferences` and `_upsert_config` as a
read and a commit (`Read`, `Commit`, `GiveUp`), over rows earlier requests made
(`Kept`), and `lifespan`, which makes the cron job from the row once (`Start`, `Stop`).  `profile` is the set of keys of the
JSON value, written back as a whole; `config` is the schedule, of which an UPDATE
names the columns that changed.  `acked`, `schedule`, `exposed` and `mixed` are
history: what was acknowledged, and what a request that read before may still undo.

`Briefing` extends it:

| Variable | Code |
|---|---|
| `accounts`, `now` | the user's `integration_tokens`; the clock, in UTC |
| `run["cron"]`, `run["demand"]` | `run_briefing_pipeline` under the job and under `POST /briefings/trigger` |
| `stray`, `free` | redaction tasks of runs that failed; places left in `_LLM_SEMAPHORE` |
| `cache`, `stored` | `briefing:{user}:{date}` with its expiry; history |

`Build`, `Fetch`, `StartCall`, `CallReturns`, `CallRaises`, `Redacted`,
`Narrate` and `CacheBriefing` are the steps of a run.  The run's errors all end in
`Fail`: logged by the job, a 500 to the phone.  `gather` passes on the first
exception and leaves its other tasks running with the bodies they were given
(`StrayStarts`, `StrayEnds`).  `Tick` moves the clock, fires the job and expires
cache entries.

`ContextBuilder` holds the pure part as operators: what the adapters return or
raise, `rank_emails` with `score_email` (in 24ths of a point), `find_conflicts`
with its early break, and the three phases of `build_context`, each of which an
error empties without touching the others.

### MobileSession

`VoiceSession.swift`, `VoiceSession.kt` and the token sources.

| Variable | Code |
|---|---|
| `platform`, `state` | the app; what the screen shows |
| `call`, `ending` | `connect()` and `disconnect()` calls, and where each is |
| `current`, `heard` | the room the session holds; the one whose events reach it (`roomDelegate`, `eventsJob`) |
| `timer` | the timeouts that are armed, and cancelled ones that have not run out |
| `room`, `events` | LiveKit's side of each room, and its events on their way |
| `changes`, `crossed` | bound; history: calls overlapped, or a `connect()` came before a room was over |

The apps differ in when they hear a room (iOS from its creation, Android after
`connect` returned), in whether ending one suspends (iOS), and in what a
cancelled timeout does: on iOS the cancelled sleep throws at once, `try?` drops
the error and the check behind it still runs (`Wakes`).

## 4. Runs

| Run | Instance | Shows |
|---|---|---|
| `voice_gate` | one voice loop, durable thread; 2 drafts, 2 confirmations of each preview, 3 session starts | `ConfirmedBeforeSent`, `LastAnswerGoverns`, `PromptShowsPending`, `AtMostOnceUnlessCrashed`; refinement of `ApprovalGate`; under fairness, `PromptsResolve`: a prompt does not stay on its draft for ever |
| `chat_volatile` | the chat loop with a MemorySaver, same bounds | `AtMostOnce`, `FreshRequestStartsFresh`, `ExecutesForTheUser` hold there, and do not on a durable thread (below) |
| `shared_thread` | a voice loop and a worker on one thread; 2 drafts, 1 confirmation, 2 starts | `GateNeverBypassed` and `AuditTruthful` survive two front ends that overwrite each other's checkpoints |
| `token_bridge` | seven deltas of one or two pieces, four sentences, a queue of 2 | `NothingLostOnTheWay`, `WholeReplySpoken`, and `UninterruptedTurnEnds` under fairness |
| `voice_turn` | three utterances of at most two finals, at any moment | `MutedOnlyWhileSpeaking`, `MicReopens`, `StopIsForASpeech`, `BargeInHasCause`, `OnlySpokenOverIsSwallowed` |
| `integrations` | two users, two connects, two requests and the command line, two grants of one provider at a time, one rotation | `PhoneShowsStored`, `StoredTokenIsLive`, `NeverDisconnected`, `ReplacementIsReached`, `OnlyConnectsAddRows` |
| `pairing` | an iOS and an Android phone, two rows and two code values, two addresses, one user made by id, one kill | `OneDevicePerCode`, `PhoneTokensAgree`, `FlagShowsToken`, `StrangersStayApart` |
| `briefing` | two writers, days of two instants, up to two mails, one place in the semaphore | `SettingsStick`, `TodaysBriefingIsRead`, and `EveryRunEnds` under fairness |
| `mobile_session` | both apps; two `connect()` calls, one `disconnect()`, two changes of a joined room | `ScreenIsTrue`, and `WaitingEnds` under fairness |
| `barge_in_hang`, `stale_answer`, `same_user` | below | disagreements of the code with what it says of itself |

### Bounds

Two drafts are enough to tell an old draft from a new one; two confirmations
of the same preview are needed for a repeated send; three starts give a crash, a
recovery and a further crash.  With two front ends each needs to start once, and
one confirmation is enough to send a draft twice if a checkpoint is
overwritten.  `shared_thread` uses the view `WithoutLast`, which drops a history
variable that no action and neither of its properties reads.

A queue of 2 fills up as one of 64 does, and seven deltas overrun it with the
consumer stopped at any point.  Three utterances allow one that is late, one
that interrupts and one that answers.  `VoiceTurn` lets at most one speech be
left behind at a time.

In `integrations` two connects and two requests give a repeated callback of one
state and two flows for the same account; two grants are an old row and its
replacement; one rotation separates a good refresh token from a dead one.  Only
one provider is in use at a time (`MaxProviders`), each of the three in some
behaviour: accounts of two providers share no row, key or code.

In `pairing` two rows with two code values collide or not, and two addresses with
a user made by id give a stranger to be confused with.  Two user ids leave one
past the sequence.  Only Android refreshes there: the refresh of both apps is the
same code, and the clean-up it could cross is Android's coroutine.

In `briefing` three instants span a day and the first of the next, so runs begin
before midnight and store after it.  One place in the semaphore is the hardest
case for a call left behind.  Two writers meet no row at all, or rows with one key
and another schedule, so that both may insert, or both update; a request is answered
before the next instant (`Answered`), as an instant is half a day.  In `mobile_session` two rooms let an old one be
heard while a new one is made.

Deadlock is not checked anywhere: with its bounded calls, starts or drafts used up
the system rightly stops, and a user may fall silent.

### Fairness

`voice_gate`: the event loop runs every ready coroutine (`WF` on `Check` and on the
graph's steps; strong, since a reply may be cancelled time and again but not for
ever); a user who keeps being prompted at some point confirms or rejects (`SF`
on `Decides`, since edit rounds are unlimited), and one who is listened to keeps
talking.  `token_bridge`: every coroutine that can run does, and the LLM's stream
goes on or ends.  `voice_turn`: only the unmute tasks are fair, since the event loop
runs a sleeping task when its time has come, while nothing says that a speech
ends.  `briefing`: steps of a run are run, provider and LLM calls return or time
out, and the semaphore serves its waiters in turn (`SF` on `StartCall` and
`StrayStarts`).  `mobile_session`: requests return or time out, the main thread
runs what it is given, armed timers elapse; nothing is assumed of the user or of a
joined room.  `integrations` and `pairing` state safety only.

### Disagreements the runs exhibit

| Run | What happens |
|---|---|
| `barge_in_hang` | After a barge-in nobody empties the token queue; `_produce` waits for room for ever and the loop never listens again (`loop.py:235-256`, `tts.py:261-263`). |
| `stale_answer` | An utterance queued while the draft was made answers a prompt it did not hear (`loop.py:86-89`). |
| `same_user` | Nothing writes the user of a magic link back to its row, so the look for an earlier user of the address (`auth/router.py:146-158`) never finds one: each link makes a new user. |

### Disagreements the models contain without a run

Found while translating; each is in the model as the code has it, or named here
because the model leaves it out.

*Approval and voice.*
- A failed first draft still takes the edge to `approval_node`, which raises and
  ends the session (`nodes.py:528-558`, action `ApprovalRaises`).
- The worker never resumes an interrupt (`llm_bridge.py:39-58`): a draft asked for
  over LiveKit is never decided, and the next message discards it.
- A streamed first turn clears `first_turn` without giving the initial state to
  the thread (`loop.py:226-288`); a later action runs for user 0 and is refused.
- An `edit:` decision outlives the process in the durable thread
  (`nodes.py:408-416`); the next fresh request is drafted as an edit.
- With two front ends on the thread, a confirmation resumes whatever is pending by
  then, not what was shown (`loop.py:81-96`).
- The backchannel filter is asked after the finally block reset the flag it reads
  (`barge_in.py:161`, `219`): a backchannel during a speech becomes a turn.
- That flag is of the latest onset, not of the utterance that is filtered
  (`barge_in.py:102`, `161`): a "yes" said in silence is swallowed when the user is
  heard again over a speech left behind before the loop takes it.  The docstring
  (`barge_in.py:151`) speaks of the moment "speech started";
  `OnlySpokenOverIsSwallowed` therefore allows for a later onset.
- The finals of the words that interrupt a speech are cleared with its echo
  (`barge_in.py:217`, `Hushed`); a speech left behind by a fallback takes back the
  flags of the reply when it ends (`loop.py:253-269`, `SpeechEnds("left")`); words
  whose onset was dropped let a later noise interrupt the same speech
  (`barge_in.py:138`, `TimerFires`).

*Integrations.*
- Rows are stored under "outlook", while `nodes.py:614-630` and `cli.py:637` look
  for "microsoft": the Outlook executor and session adapter are never chosen
  (`Reached` leaves Outlook to `IntegrationStatus`).
- `store_microsoft_tokens` and `store_slack_token` append without deleting; a
  second `daily connect slack` makes the Slack executor raise
  `MultipleResultsFound` (`AppendRow`, `OneOrNone`).
- The job's single commit gives up the other rows' rotations when one row is gone
  (`JobRaises`), although its failures are meant to stay with their row.
- `_consume_oauth_state` says single-use; a GET and a later DELETE let two requests
  pass (`GetState`, `DelState`).  The provider's code is good once, which is what
  saves the rows.

*Pairing.*
- `send_magic_link` may raise an httpx error, which is no `ResendError`: a 500
  where `pair_send_link` says it always answers 204 (`auth/router.py:79`, `93`).
- `auth/router.py:147` says the User table has no e-mail column; it has
  (`db/models.py:17`), unused here.
- `signOut` and `refreshIfNeeded` have no callers, and nothing sets `revoked`.
- A user created by id past the sequence makes one later sign-up fail
  (`NewUserFails`).
- The two tokens of a pairing are written one after the other
  (`AuthService.kt:89-90`): a kill or a failed write in between leaves tokens of two
  devices or one alone, and so does a refresh asked for with the token of an earlier
  pairing that answers after it (`Tears`).  On Android the first launch may clear
  tokens that were just saved, or a write may come between its load and its screen
  (`Boot`).  `PhoneTokensAgree` and `FlagShowsToken` hold beside these cases, which
  `torn` and `misled` mark, and not by excluding the other overlaps and kills.

*Briefing.*
- The scheduler constructs `OutlookAdapter` and `SlackAdapter` with `credentials=`,
  which they do not take (`scheduler.py:113`, `116`): whoever has connected either
  gets no briefing at all (`Unbuildable`).
- A failed redaction call fails the whole run (`CallRaises`).
- The pipeline asks Slack for no channel, and so gets no message (`SlackPhase`).
- Sessions look under the local date (`session.py:113`), the cache is dated in UTC;
  `TodaysBriefingIsRead` is about a session whose clock is in UTC.
- Two partial preference updates that cross lose one (`profile/service.py:66`): the
  later commit writes back a value without the other's key.  Two schedules that
  cross leave the hour of one with the minute of the other (`users/router.py:117`).
  `SettingsStick` says what is left: only such a key can be lost (`exposed`), and
  the next schedule that meets no other is stored as asked (`mixed`).
- Changing the schedule never reschedules; `update_schedule` has no caller.
- `email_top_n` of the configuration is never read by the pipeline.
- Bodies are asked of the first account only (`RawBodies`); a mail deleted between
  Gmail's list and get empties the whole e-mail phase (`GmailList`).
- A future-dated mail scores above the bound of recency, and the address mails are
  compared with is the empty string, so that only mails without a To count as
  direct.
- An on-demand run that began earlier may overwrite a newer briefing.

*Phones.*
- After a reconnect, iOS re-arms the agent-join timeout on "connected"; the
  cancelled one wakes at once and reports that the agent did not join
  (`VoiceSession.swift:157-170`, `Wakes`).  Its comment says 15 seconds, the code 60.
- `disconnect()` waits for the room it held; a `connect()` meanwhile gives the
  session another, which is forgotten without being left (`VoiceSession.swift:133`).
- Retry after an error replaces a room that may still be joined (`:98`).
- Android's `connect()` reports an error when the microphone cannot be opened in a room
  it has joined, and leaves neither the room nor its event job in order
  (`VoiceSession.kt:88-92`, `ConnectFails`): the room stays, unheard.
- Android may lose "Connected" before it collects, hears the old room until the new
  one is joined, and with Start, End and a late token leaves a joined room under a
  Start button.  `crossed` marks these cases of both apps.

## 5. Proofs

Every theorem is proved for all values of the constants that satisfy the named
assumption of its module; nothing else is assumed unless it is said here.

### OrchestratorProofs and OnceProofs

`TypeCorrect`, `GateHolds` and `AuditNeverLies` are proved for every set of front
ends and all bounds.  `GateHolds` needs `GateInv`: a confirmed decision in the
thread or in a run vouches for its draft (it is in `approved`), because a
checkpoint written late can bring an old decision back.  `AuditNeverLies` needs
`AuditCore`: the tasks still to write and the calls in flight are about drafts that
were delivered.

`SoloConfirmed`, `SoloPrompt`, `SoloLastAnswer` and `SoloGate` are proved for
one front end (`Sessions = {v}`, not a worker where the prompt matters).  They
rest on `SoloInv`: what the thread may be while the loop is at each point
(`SoloThread`), what an answer in flight is about (`SoloAnswer`) and a balance
of confirmations against sends (`SoloBooks`: each send and each confirmation
still under way is credited against a confirmation of that draft).  The
assumption on one front end is needed: with two, the prompt may show what is no
longer pending.

`SoloAtMostOnce` and `VolatileAtMostOnce` add `OnceInv`: nothing but the call
itself refers to a draft that was carried out, unless a crash or a cancelled reply
allows a repetition.  `ChatHasUser` and `ChatStartsFresh` add `ChatInv`, for one
chat loop on a MemorySaver.

### VoiceTurnProofs

`MicOpenInSilence`, `NoStopLeftOver`, `BargeInJustified` and
`OtherYesReachesLoop` hold for any number of utterances and finals.  They
follow from `FlagInv`: no flag outlives the speech it is about (so that two
speeches that overlap may clear each other's flags, but leave none behind), and
the timer and the transcript flag have their cause since the latest speech
began.  The properties are not inductive alone: a stale `wasActive` or timer
would break them steps later.  `TypeCorrect` needs `SttInv`: the finals kept are of
the utterance that goes on, and every utterance is going on, queued, taken or
dropped.

### IntegrationsProofs

All the run's properties and the type are theorems, for any users, connects, requests,
grants, versions and providers at once.  The invariant `IInv` adds to the types:
what a writer has in hand belongs to its account (`InHand`), no two hold the same
grant (`OwnGrants`), a replacement that met another is marked (`OverlapSeen`), one
that met none saw every row of its account (`AloneSeesAll`), and where a rotated
token is (`TokenIsLive`).  `NeverDisconnected` then follows because every row that
goes is replaced in the same commit by one of the same account.

### PairingProofs

The type and all four properties of the run are theorems, for any phones, rows,
codes and addresses.  `IInv` consists of types, of `ServerInv` (a held row is
unused and its transaction signs in the right user; two transactions that create
users create different ones; a device's row is used; ids of devices are given once),
and of `PhoneInv`: what a phone has and what its tasks are about to save is known to
the server (`Sound`, whatever crossed), what an untorn phone has is of one device, or
will be with the write under way (`Whole`), the screen is right or a write under way
makes it so (`Shown`), and no two phones have or are about to have one refresh token
(`Apart`).  `OneDevicePerCode` needs the lock on the row between the UPDATE
and the commit, and `StrangersStayApart` that a new id is in no other
transaction's hands.

### TokenBridgeProofs

Everything holds for any deltas, any places where sentences end and any capacity
of the queue.  What the queue carries is a concatenation, `FlattenSeq`, which the
community modules define by a recursive function.  Its laws (its value is a text;
what an append and a tail do to it) need induction, and the library's induction
theorems cannot be instantiated.  The first part of the module therefore derives,
from `WFMin`, that a set of numbers has a least element, and from that an
induction over sets of numbers (`SetInduction`, `IndexInduction`), which the
provers can use: the set is the one of the indices at which the law holds.

`IInv` adds to the type `QueueInv` (`None` is on the queue only as its last entry,
and only when its producer has ended), `EndInv` (until a barge-in nothing ends
before what it waits for) and `TextInv` (the text in its parts; after a barge-in,
what was pushed is still its beginning).  A step moves text from one part to the
next, so that nothing is lost can be proved only of all the parts together.
`WholeReply` combines it with `EndInv`: at the end every part but the last is empty.

`SentencesWhole` is the promise of the tts docstring: until the text is over only
whole sentences are pushed, and no complete one is held back for a later delta.
`NoDeadlock` says that in a turn nobody interrupted some coroutine has something to
do.  It rests on `NoneWaits`, that a consumer still waiting for text after the
producer has ended has `None` before it.  The premise on the barge-in is needed:
without it the run `barge_in_hang` has a counterexample.

### BriefingProofs

About `Settings`, `Briefing` and `ContextBuilder`.  `TypeCorrect` says among other
things that a place in the semaphore is free or held, whatever failed.
`SettingsStay` needs `SeenRows`: the value a request has read, and will write back,
holds every key that is not exposed and none that nobody acknowledged.  `BriefingIsFound` needs `CacheInv`: an entry is of the date it is cached
for and outlives that day, because it is stored no earlier than its run began.

`RunsGoOn` is what `EveryRunEnds` rests on beside fairness: a run that finds no
place in the semaphore waits for a call under way (by the count of `TypeCorrect`),
and every step of a run decreases `StepsLeft`, which is at most
`2 * MaxMails + 6`.  That a waiter gets its place before others do stays with the
semaphore, and is assumed as fairness.

`SweepFindsConflicts` shows the early break of `find_conflicts` sound for events
sorted by start, and `VipsComeFirst` is about the score.  `TopIsBest` and
`TopIsFull` say that the selection of `rank_emails` is the best n of any finite
batch and exactly n (`RankingIsFull`: of the mails themselves).  The model selects
by rank, the number of mails ahead, where the code sorts and slices; `RanksAreAList`
shows that every rank is taken exactly once, so that both are the same.

### MobileSessionProofs

`TypeCorrect`, for any number of calls, rooms and events; its last two conjuncts
tie the room the session holds to the calls that could have opened it.

`ScreenTells` is proved from two facts about the events of a room.  `EventsInv`:
those on their way tell its changes in order, so that the last one tells what the
room is (`Told`).  `ShownInv`: the screen and the events still to come match the
room, or, if the session does not hear its room, no room is live and no spinner
shown.  While no calls crossed, one call is under way at a time (`Solo`), only the
current room is live, and only its events reach the screen (`RoomInv`, `HeardInv`).
Once they have crossed, none of that holds, and the theorem says nothing, as
`ScreenIsTrue` says nothing.

`SpinnersEnd` does not depend on that.  Whatever crossed, "connecting" has a call
under way, an armed timeout or a heard event that answers it, and "reconnecting" an
armed timeout or a room being left.  It needs `OpeningInv`, that "connecting" is
the first event of a room and is followed by its answer.

### Only model-checked

Every invariant and every action property of the passing runs is a theorem, and so
is the refinement of `ApprovalGate`.  Liveness is left to TLC (`PromptsResolve`,
`UninterruptedTurnEnds`, `MicReopens`, `EveryRunEnds`, `WaitingEnds`): the prover
has no support for ENABLED, on which fairness rests.  What of it is safety is
proved: `NoDeadlock`, `RunsGoOn` and `SpinnersEnd`.  That the three properties of
the runs expected to fail do fail is shown by TLC.

## 6. Not modelled

- Deployment files, migrations and settings: configuration.
- Text: prompts, cards, narrative, logs, the patterns of `strip_credentials`, what
  the LLM writes, and parsing of provider fields.  Paging within one account.
- Encryption, JWT and LiveKit token signing: libraries; a token is what it stands
  for.
- The signal log: append-only, and read by nothing that is modelled.
- The VIP commands, the read-only commands and `daily briefing` of the command
  line; the onboarding screens of the phones.
- Which drafts the whitelist and the scopes of an executor refuse: a free choice
  of `ExecuteRefuses`.
- The connection of the STT pipeline to Deepgram, and the shutdown of the turn
  manager: the loop notices neither.
- The binding of an aware datetime to a column without time zone, deadlocks of
  PostgreSQL between rows, and errors of Redis while a connect begins: `Rollback`
  and the 5xx answers stand for what they would do.
