------------------------------ MODULE Settings ------------------------------
(***************************************************************************)
(* The two rows that say how and when a user is briefed, the callers that  *)
(* change them, and the scheduler that read one of them when the app came  *)
(* up.  user_profile holds one JSON value, written back as a whole;        *)
(* briefing_config holds columns, and an UPDATE names those that changed.  *)
(* One user: rows, jobs and cache keys of two users never meet.            *)
(***************************************************************************)
EXTENDS Naturals, FiniteSets

CONSTANTS
    Writers,   \* bound: each makes one request
    Asked,     \* what a writer may ask for
    Kept,      \* the rows the requests may find, made by earlier ones
    None

Keys == {"tone", "briefing_length"}
Times == [hour: Nat, minute: Nat]
Requests == [row: {"profile"}, key: Keys] \cup [row: {"config"}, time: Times]

ASSUME SettingsAssumption ==
    /\ Asked \in [Writers -> SUBSET Requests]
    /\ \A k \in Kept : /\ k.profile = None \/ k.profile \in (SUBSET Keys) \ {{}}
                     /\ k.config \in {None} \cup Times
    /\ None \notin Times /\ \A keys \in SUBSET Keys : None # keys

VARIABLES
    profile,     \* the keys set in the user's JSON value, or None without a row
    config,      \* schedule_hour and schedule_minute, or None without a row
    up,          \* the app runs
    job,         \* the trigger of the user's cron job, or None
    writer,      \* requests under way
    acked,       \* history: profile keys whose writer was told "Set"
    schedule,    \* history: the time of the last acknowledged schedule
    exposed,     \* history: those of them another request may still write over
    mixed        \* history: the last schedule was of a request that had seen another

rows == <<profile, config, acked, schedule, exposed, mixed>>
settingsVars == <<rows, up, job, writer>>

IdleWriter == [pc |-> "idle", want |-> None, saw |-> None]

SettingsInit ==
    /\ \E k \in Kept : /\ profile = k.profile /\ config = k.config /\ schedule = k.config
                     /\ acked = IF k.profile = None THEN {} ELSE k.profile
    /\ exposed = {} /\ mixed = FALSE
    /\ up = FALSE /\ job = None
    /\ writer = [w \in Writers |-> IdleWriter]

Row(name) == IF name = "profile" THEN profile ELSE config

(***************************************************************************)
(* upsert_preference, update_preferences and _upsert_config: SELECT, then  *)
(* INSERT or UPDATE at the commit                                          *)
(***************************************************************************)
Read(w) ==
    /\ writer[w].pc = "idle"
    /\ \E q \in Asked[w] :
         writer' = [writer EXCEPT ![w] = [pc |-> "read", want |-> q, saw |-> Row(q.row)]]
    /\ UNCHANGED <<rows, up, job>>

Done(w) == writer' = [writer EXCEPT ![w] = [IdleWriter EXCEPT !.pc = "done"]]

\* Both INSERT: user_id is unique, and the second is refused.
Duplicate(w) == writer[w].saw = None /\ Row(writer[w].want.row) # None

MNewProfile(w) == {writer[w].want.key}  \* mutant: the other keys are dropped

NewProfile(w) == (IF writer[w].saw = None THEN {} ELSE writer[w].saw) \cup {writer[w].want.key}

MNewConfig(w) ==  \* mutant: the minute of a row that exists is not written
    LET want == writer[w].want.time  saw == writer[w].saw IN
    IF saw = None THEN want ELSE [config EXCEPT !.hour = want.hour]

NewConfig(w) ==
    LET want == writer[w].want.time  saw == writer[w].saw IN
    IF saw = None THEN want
    ELSE [hour   |-> IF want.hour # saw.hour THEN want.hour ELSE config.hour,
          minute |-> IF want.minute # saw.minute THEN want.minute ELSE config.minute]

\* Requests with a JSON value read before this commit, which they will write back.
Rivals(w) == {x \in Writers \ {w} : writer[x].pc = "read" /\ writer[x].want.row = "profile"
                                    /\ writer[x].saw # None}

Save(w) == LET want == writer[w].want  saw == writer[w].saw IN
    IF want.row = "profile"
    THEN /\ profile' = NewProfile(w) /\ acked' = acked \cup {want.key}
         /\ exposed' = IF Rivals(w) = {} THEN exposed \ {want.key} ELSE exposed \cup {want.key}
         /\ UNCHANGED <<config, schedule, mixed>>
    ELSE /\ config' = NewConfig(w) /\ schedule' = want.time
         /\ mixed' = (saw # config)
         /\ UNCHANGED <<profile, acked, exposed>>

Commit(w) ==
    /\ writer[w].pc = "read"
    /\ IF Duplicate(w) THEN UNCHANGED rows ELSE Save(w)
    /\ Done(w) /\ UNCHANGED <<up, job>>

\* The caller goes away, or the database refuses.
GiveUp(w) == writer[w].pc = "read" /\ Done(w) /\ UNCHANGED <<rows, up, job>>

Writes(w) == Read(w) \/ Commit(w) \/ GiveUp(w)

(***************************************************************************)
(* lifespan: jobs are made from the rows when the app comes up, or none    *)
(* when the database cannot be read; nobody reschedules them later         *)
(***************************************************************************)
Start ==
    /\ ~up /\ up' = TRUE
    /\ job' \in {config, None}
    /\ UNCHANGED <<rows, writer>>

Stop == up /\ up' = FALSE /\ job' = None /\ UNCHANGED <<rows, writer>>

(***************************************************************************)
(* Properties                                                              *)
(***************************************************************************)
\* The type of the rows, the job and the requests.
SettingsTypeOK ==
    /\ profile = None \/ profile \subseteq Keys
    /\ config \in {None} \cup Times
    /\ up \in BOOLEAN /\ job \in {None} \cup Times
    /\ \A w \in Writers : writer[w].pc \in {"idle", "read", "done"}
    /\ acked \subseteq Keys /\ schedule \in {None} \cup Times
    /\ exposed \subseteq acked /\ mixed \in BOOLEAN

KeysSet == IF profile = None THEN {} ELSE profile

\* What a caller was told is set stays set, and nothing else is: a partial update loses
\* nothing of another, in whatever order the two read and write or both make the row,
\* except a key acknowledged while the other held an older JSON value
\* (profile/service.py:66).  The schedule is the last one acknowledged, unless its request
\* compared with columns another has changed since (users/router.py:117); the next
\* schedule sets that right.
SettingsStick ==
    /\ profile = None <=> acked = {}
    /\ acked \ exposed \subseteq KeysSet /\ KeysSet \subseteq acked
    /\ ~mixed => config = schedule
=============================================================================
