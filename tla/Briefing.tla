------------------------------ MODULE Briefing ------------------------------
(***************************************************************************)
(* The briefing pipeline of one user: the cron job and the requests that   *)
(* start it, the redaction of e-mail bodies by LLM calls that share one    *)
(* semaphore, the narrator, the cache in Redis, and the key under which a  *)
(* session looks for today's briefing.  The rows and the job are those of  *)
(* Settings.                                                               *)
(***************************************************************************)
EXTENDS Settings

CONSTANTS
    AccountSets,   \* the providers a user may have connected
    Unbuildable,   \* providers whose adapter the scheduler cannot construct
    MaxMails,      \* bound on mails with a body among the top_n
    Slots,         \* _LLM_SEMAPHORE
    MaxStray,      \* bound: tasks failed runs have left when one is asked for
    DayLength,     \* bound: instants of a day
    Horizon,       \* bound: the last instant
    LastRequest    \* bound: the last instant at which settings change

ASSUME BriefingAssumption ==
    /\ MaxMails \in Nat /\ MaxStray \in Nat /\ Slots \in Nat \ {0}
    /\ DayLength \in Nat \ {0} /\ Horizon \in Nat /\ LastRequest \in Nat
    /\ None \notin [begun: Nat, until: Nat]

VARIABLES
    accounts,   \* integration_tokens of the user
    now,        \* the clock, in UTC
    run,        \* runs of the pipeline in the app: by cron, and on demand
    stray,      \* redaction tasks of runs that have failed
    free,       \* places left in _LLM_SEMAPHORE
    cache,      \* briefing:{user}:{date}, in Redis
    stored      \* history: when the briefings stored today began

pipeline == <<accounts, now, run, stray, free, cache, stored>>
vars == <<settingsVars, pipeline>>

Runs == {"cron", "demand"}
Date(t) == t \div DayLength
Days == 0..Date(Horizon)

NoRun == [pc |-> "idle", begun |-> 0, todo |-> 0, busy |-> 0]
NoTasks == [todo |-> 0, busy |-> 0]

Init ==
    /\ SettingsInit
    /\ accounts \in AccountSets
    /\ now = 0 /\ run = [r \in Runs |-> NoRun] /\ stray = NoTasks
    /\ free = Slots
    /\ cache = [d \in Days |-> None] /\ stored = {}

(***************************************************************************)
(* run_briefing_pipeline                                                   *)
(***************************************************************************)
At(r, pc) == run[r].pc = pc
Step(r, rec) == run' = [run EXCEPT ![r] = rec]
Quiet == UNCHANGED <<settingsVars, accounts, now, cache, stored>>

\* The exception ends the run: logged by the cron job, a 500 to the phone.
Fail(r) == Step(r, NoRun)

\* POST /briefings/trigger.
Trigger ==
    /\ up /\ At("demand", "idle") /\ stray.todo + stray.busy <= MaxStray
    /\ Step("demand", [NoRun EXCEPT !.pc = "build"])
    /\ Quiet /\ UNCHANGED <<stray, free>>

\* _build_pipeline_kwargs: accounts, preferences, clients.
Build(r) ==
    /\ At(r, "build")
    /\ \/ Fail(r)
       \/ /\ accounts \cap Unbuildable = {}
          /\ Step(r, [run[r] EXCEPT !.pc = "fetch", !.begun = now])
    /\ Quiet /\ UNCHANGED <<stray, free>>

\* build_context: a phase that fails leaves its section empty, a body that fails its
\* mail without one; neither ends the run.  todo counts the mails that have a body.
Fetch(r) ==
    /\ At(r, "fetch")
    /\ \E n \in 0..MaxMails : Step(r, [run[r] EXCEPT !.pc = "redact", !.todo = n])
    /\ Quiet /\ UNCHANGED <<stray, free>>

\* summarise_and_redact holds the semaphore during its call.
Room == free > 0
Enter == free' = free - 1
Leave == free' = free + 1

StartCall(r) ==
    /\ At(r, "redact") /\ run[r].todo > 0 /\ Room /\ Enter
    /\ Step(r, [run[r] EXCEPT !.todo = @ - 1, !.busy = @ + 1])
    /\ Quiet /\ UNCHANGED stray

CallReturns(r) ==
    /\ At(r, "redact") /\ run[r].busy > 0 /\ Step(r, [run[r] EXCEPT !.busy = @ - 1])
    /\ Leave /\ Quiet /\ UNCHANGED stray

\* gather() passes on the first exception and does not cancel its other tasks: they go
\* on, with the bodies they were given, after the run has ended.
Left(r) == [todo |-> stray.todo + run[r].todo, busy |-> stray.busy + run[r].busy - 1]

MCallRaises(r) ==  \* mutant: the semaphore is released behind the call, not in a finally
    /\ At(r, "redact") /\ run[r].busy > 0 /\ Fail(r)
    /\ stray' = Left(r) /\ UNCHANGED free /\ Quiet

CallRaises(r) ==
    /\ At(r, "redact") /\ run[r].busy > 0 /\ Fail(r)
    /\ stray' = Left(r) /\ Leave /\ Quiet

StrayStarts ==
    /\ stray.todo > 0 /\ Room /\ Enter
    /\ stray' = [todo |-> stray.todo - 1, busy |-> stray.busy + 1]
    /\ Quiet /\ UNCHANGED run

StrayEnds ==
    /\ stray.busy > 0 /\ stray' = [stray EXCEPT !.busy = @ - 1] /\ Leave
    /\ Quiet /\ UNCHANGED run

Redacted(r) ==
    /\ At(r, "redact") /\ run[r].todo = 0 /\ run[r].busy = 0
    /\ Step(r, [run[r] EXCEPT !.pc = "narrate"])
    /\ Quiet /\ UNCHANGED <<stray, free>>

\* generate_narrative: JSON without a narrative is asked for once more, and then the
\* fallback text is the briefing; an API error is not caught.
Narrate(r) ==
    /\ At(r, "narrate") \/ At(r, "again")
    /\ \/ Step(r, [run[r] EXCEPT !.pc = "store"])
       \/ At(r, "narrate") /\ Step(r, [run[r] EXCEPT !.pc = "again"])
       \/ Fail(r)
    /\ Quiet /\ UNCHANGED <<stray, free>>

MKey(t) == Date(now)  \* mutant: the key is the date on which the run ends

Key(t) == Date(t)

MTtl == 1  \* mutant: the briefing expires within the day

Ttl == DayLength

CacheBriefing(r) ==
    /\ At(r, "store") /\ Fail(r)
    /\ \/ UNCHANGED <<cache, stored>>    \* Redis cannot be reached
       \/ /\ cache' = [cache EXCEPT ![Key(run[r].begun)] =
                         [begun |-> run[r].begun, until |-> now + Ttl]]
          /\ stored' = stored \cup {run[r].begun}
    /\ UNCHANGED <<settingsVars, accounts, now, stray, free>>

Pipeline(r) ==
    \/ Build(r) \/ Fetch(r) \/ StartCall(r) \/ CallReturns(r) \/ CallRaises(r)
    \/ Redacted(r) \/ Narrate(r) \/ CacheBriefing(r)

(***************************************************************************)
(* Time, and the app                                                       *)
(***************************************************************************)
\* The job fires at its hour, unless its last run is still under way; what fell into
\* the time the app was down is not made up for.
Fires(t) == up /\ job # None /\ job.hour = t % DayLength /\ At("cron", "idle")

\* bound: a request to change the settings is answered within the instant it came in.
Answered == \A w \in Writers : writer[w].pc # "read"

Tick ==
    /\ now < Horizon /\ now' = now + 1 /\ Answered
    /\ run' = IF Fires(now') THEN [run EXCEPT !["cron"].pc = "build"] ELSE run
    /\ cache' = [d \in Days |-> IF cache[d] # None /\ cache[d].until <= now' THEN None
                                ELSE cache[d]]
    /\ stored' = IF Date(now') = Date(now) THEN stored ELSE {}
    /\ UNCHANGED <<settingsVars, accounts, stray, free>>

Boot == Start /\ UNCHANGED pipeline

Shutdown ==
    /\ Stop /\ run' = [r \in Runs |-> NoRun] /\ stray' = NoTasks
    /\ free' = Slots
    /\ UNCHANGED <<accounts, now, cache, stored>>

Next ==
    \/ \E w \in Writers : now <= LastRequest /\ Writes(w) /\ UNCHANGED pipeline
    \/ Tick \/ Boot \/ Shutdown \/ Trigger \/ StrayStarts \/ StrayEnds
    \/ \E r \in Runs : Pipeline(r)

\* The app schedules every task that can go on, provider and LLM calls return or time
\* out, and the semaphore serves its waiters in the order they came.
Fairness ==
    /\ \A r \in Runs :
         /\ WF_vars(Build(r) \/ Fetch(r) \/ Redacted(r) \/ Narrate(r) \/ CacheBriefing(r))
         /\ WF_vars(CallReturns(r) \/ CallRaises(r)) /\ SF_vars(StartCall(r))
    /\ WF_vars(StrayEnds) /\ SF_vars(StrayStarts)

Spec == Init /\ [][Next]_vars
FairSpec == Spec /\ Fairness

(***************************************************************************)
(* Properties                                                              *)
(***************************************************************************)
\* The type of the state; every place of the semaphore is free or
\* held by a call, also of a run that has failed.
TypeOK ==
    /\ SettingsTypeOK
    /\ accounts \in AccountSets /\ now \in 0..Horizon
    /\ \A r \in Runs : /\ run[r].pc \in {"idle", "build", "fetch", "redact", "narrate",
                                         "again", "store"}
                       /\ run[r].begun \in 0..now /\ {run[r].todo, run[r].busy} \subseteq 0..MaxMails
    /\ {stray.todo, stray.busy} \subseteq Nat
    /\ run["cron"].busy + run["demand"].busy + stray.busy + free = Slots
    /\ stored \subseteq 0..Horizon

\* initialize_session_state looks under the date of its own clock; a session whose clock
\* is in UTC finds a briefing whenever one of today was stored, and nobody is ever read
\* the briefing of another date: also when a run crosses midnight or two runs overlap.
Lookup(d) == IF d \in Days THEN cache[d] ELSE None
TodaysBriefingIsRead ==
    /\ (\E t \in stored : Date(t) = Date(now)) => Lookup(Date(now)) # None
    /\ \A d \in Days : Lookup(d) # None => Date(Lookup(d).begun) = d

\* A run ends, with a briefing or an error: a failed call gives its place in the semaphore
\* back, and the tasks a failed run left behind do not keep the next one out.
EveryRunEnds == \A r \in Runs : ~At(r, "idle") ~> At(r, "idle")
=============================================================================
