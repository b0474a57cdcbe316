--------------------------- MODULE BriefingProofs ---------------------------
(***************************************************************************)
(* Proofs about Settings, Briefing and ContextBuilder, for any number of   *)
(* requests, mails, events, places in the semaphore and days, and whatever *)
(* the length of a day.                                                    *)
(***************************************************************************)
EXTENDS Briefing, ContextBuilder, FiniteSetTheorems, TLAPS

(***************************************************************************)
(* The settings                                                            *)
(***************************************************************************)
Saw == {None} \cup (SUBSET Keys) \cup Times
WriterType == [pc: {"idle", "read", "done"}, want: {None} \cup Requests, saw: Saw]

\* The JSON value a request has seen holds the keys that are safe, and only keys that were
\* acknowledged: what the request writes back loses none of them.
SeenKeys(saw) == acked \ exposed \subseteq saw /\ saw \subseteq acked

SeenRows == \A w \in Writers : writer[w].pc = "read" =>
    /\ writer[w].want \in Requests
    /\ writer[w].want.row = "profile" =>
         /\ writer[w].saw \in {None} \cup SUBSET Keys
         /\ writer[w].saw # None => SeenKeys(writer[w].saw)
    /\ writer[w].want.row = "config" =>
         writer[w].saw \in {None} \cup Times /\ (writer[w].saw # None => config # None)

SettingsInv ==
    /\ SettingsTypeOK /\ writer \in [Writers -> WriterType]
    /\ SeenRows /\ SettingsStick

LEMMA RequestType ==
    ASSUME NEW q \in Requests
    PROVE  \/ q.row = "profile" /\ q.key \in Keys
           \/ q.row = "config" /\ q.time \in Times
  BY DEF Requests

LEMMA IdleWriterType == IdleWriter \in WriterType
  BY DEF IdleWriter, WriterType, Saw

LEMMA SettingsInitially == SettingsInit => SettingsInv
<1> SUFFICES ASSUME SettingsInit PROVE SettingsInv
  OBVIOUS
<1>1. PICK k \in Kept : /\ profile = k.profile /\ config = k.config /\ schedule = k.config
                        /\ acked = IF k.profile = None THEN {} ELSE k.profile
  BY DEF SettingsInit
<1>2. /\ k.profile = None \/ k.profile \in (SUBSET Keys) \ {{}}
      /\ k.config \in {None} \cup Times
  BY SettingsAssumption
<1>3. SettingsTypeOK /\ writer \in [Writers -> WriterType]
  BY <1>1, <1>2, IdleWriterType DEF SettingsInit, SettingsTypeOK, IdleWriter
<1>4. SeenRows
  BY DEF SettingsInit, SeenRows, IdleWriter
<1>5. SettingsStick
  <2>1. exposed = {} /\ config = schedule
    BY <1>1 DEF SettingsInit
  <2>2. KeysSet = acked /\ (profile = None <=> acked = {})
    <3>1. CASE k.profile = None
      BY <1>1, <3>1 DEF KeysSet
    <3>2. CASE k.profile # None
      <4>1. k.profile # {} /\ profile = k.profile /\ acked = k.profile
        BY <1>1, <1>2, <3>2
      <4>2. QED
        BY <3>2, <4>1 DEF KeysSet
    <3>3. QED
      BY <3>1, <3>2
  <2>3. QED
    BY <2>1, <2>2 DEF SettingsStick
<1>6. QED
  BY <1>3, <1>4, <1>5 DEF SettingsInv

LEMMA ReadInvariant ==
    ASSUME SettingsInv, NEW w \in Writers, Read(w) PROVE SettingsInv'
<1>1. PICK q \in Asked[w] :
        writer' = [writer EXCEPT ![w] = [pc |-> "read", want |-> q, saw |-> Row(q.row)]]
  BY DEF Read
<1>2. q \in Requests
  BY SettingsAssumption
<1>3. profile \in {None} \cup SUBSET Keys /\ config \in {None} \cup Times
  BY DEF SettingsInv, SettingsTypeOK
<1>4. Row(q.row) \in Saw
  BY <1>3 DEF Row, Saw
<1>5. writer' \in [Writers -> WriterType]
  BY <1>1, <1>2, <1>4 DEF SettingsInv, WriterType
<1>6. UNCHANGED <<profile, config, up, job, acked, schedule, exposed, mixed>>
  BY DEF Read, rows
<1>7. SettingsTypeOK' /\ SettingsStick'
  BY <1>5, <1>6 DEF SettingsInv, SettingsTypeOK, SettingsStick, KeysSet, WriterType
<1>8. profile # None => SeenKeys(profile)
  BY DEF SettingsInv, SettingsStick, KeysSet, SeenKeys
<1>9. SeenRows'
  <2> SUFFICES ASSUME NEW x \in Writers, writer'[x].pc = "read"
               PROVE  /\ writer'[x].want \in Requests
                      /\ writer'[x].want.row = "profile" =>
                           /\ writer'[x].saw \in {None} \cup SUBSET Keys
                           /\ writer'[x].saw # None => SeenKeys(writer'[x].saw)
                      /\ writer'[x].want.row = "config" =>
                           /\ writer'[x].saw \in {None} \cup Times
                           /\ writer'[x].saw # None => config # None
    BY <1>6 DEF SeenRows, SeenKeys
  <2>1. CASE x # w
    BY <1>1, <2>1 DEF SettingsInv, SeenRows
  <2>2. CASE x = w
    <3>1. writer'[x] = [pc |-> "read", want |-> q, saw |-> Row(q.row)]
      BY <1>1, <2>2 DEF SettingsInv
    <3>2. QED
      BY <1>2, <1>3, <1>8, <3>1, RequestType DEF Row
  <2>3. QED
    BY <2>1, <2>2
<1>10. QED
  BY <1>5, <1>7, <1>9 DEF SettingsInv

LEMMA DoneKeeps ==
    ASSUME SettingsInv, NEW w \in Writers, Done(w)
    PROVE  writer' \in [Writers -> WriterType] /\ writer'[w].pc = "done"
           /\ \A x \in Writers \ {w} : writer'[x] = writer[x]
  BY DEF SettingsInv, Done, IdleWriter, WriterType, Saw

LEMMA EndsUnwritten ==
    ASSUME SettingsInv, NEW w \in Writers, Done(w), UNCHANGED <<rows, up, job>>
    PROVE  SettingsInv'
  BY DoneKeeps DEF SettingsInv, SettingsTypeOK, SettingsStick, KeysSet, SeenRows, SeenKeys,
                   rows, WriterType

\* A JSON value written back holds the keys that are safe and the one just acknowledged.
LEMMA SaveProfile ==
    ASSUME SettingsInv, NEW w \in Writers, writer[w].pc = "read",
           writer[w].want.row = "profile", ~Duplicate(w), Save(w), Done(w), UNCHANGED <<up, job>>
    PROVE  SettingsInv'
<1> DEFINE want == writer[w].want  saw == writer[w].saw
<1>1. /\ want \in Requests /\ saw \in {None} \cup SUBSET Keys
      /\ saw # None => SeenKeys(saw)
  BY DEF SettingsInv, SeenRows
<1>2. /\ writer' \in [Writers -> WriterType] /\ writer'[w].pc = "done"
      /\ \A x \in Writers \ {w} : writer'[x] = writer[x]
  BY DoneKeeps
<1>3. /\ want.key \in Keys /\ profile' = NewProfile(w) /\ acked' = acked \cup {want.key}
      /\ exposed' = IF Rivals(w) = {} THEN exposed \ {want.key} ELSE exposed \cup {want.key}
      /\ UNCHANGED <<config, schedule, mixed>>
  BY <1>1, RequestType DEF Save
<1>4. acked \subseteq Keys /\ exposed \subseteq acked
  BY DEF SettingsInv, SettingsTypeOK
<1>5. saw = None => acked = {}
  BY DEF Duplicate, Row, SettingsInv, SettingsStick
<1>6. /\ profile' \subseteq Keys /\ profile' # None
      /\ acked' \ exposed' \subseteq profile' /\ profile' \subseteq acked'
  <2> DEFINE kept == IF saw = None THEN {} ELSE saw
  <2>1. profile' = kept \cup {want.key}
    BY <1>3 DEF NewProfile
  <2>2. kept \subseteq acked /\ acked \ exposed \subseteq kept
    BY <1>1, <1>5 DEF SeenKeys
  <2>3. profile' \subseteq Keys
    BY <1>3, <1>4, <2>1, <2>2
  <2>4. profile' # None
    BY <2>3, SettingsAssumption
  <2>5. acked' \ exposed' \subseteq (acked \ exposed) \cup {want.key}
    BY <1>3
  <2>6. QED
    BY <1>3, <2>1, <2>2, <2>3, <2>4, <2>5
<1>7. SettingsTypeOK'
  <2>1. exposed' \subseteq acked' /\ acked' \subseteq Keys
    BY <1>3, <1>4
  <2>2. \A x \in Writers : writer'[x].pc \in {"idle", "read", "done"}
    BY <1>2 DEF WriterType
  <2>3. QED
    BY <1>3, <1>6, <2>1, <2>2 DEF SettingsInv, SettingsTypeOK
<1>8. SettingsStick'
  <2>1. KeysSet' = profile' /\ acked' # {}
    BY <1>3, <1>6 DEF KeysSet
  <2>2. (~mixed => config = schedule)'
    BY <1>3 DEF SettingsInv, SettingsStick
  <2>3. QED
    BY <1>6, <2>1, <2>2 DEF SettingsStick
<1>9. SeenRows'
  <2> SUFFICES ASSUME NEW x \in Writers \ {w}, writer[x].pc = "read",
                      writer[x].want.row = "profile", writer[x].saw # None
               PROVE  SeenKeys(writer[x].saw)'
    BY <1>2, <1>3 DEF SeenRows, SettingsInv
  <2>1. SeenKeys(writer[x].saw)
    BY DEF SettingsInv, SeenRows
  <2>2. x \in Rivals(w)
    BY DEF Rivals
  <2>3. exposed' = exposed \cup {want.key}
    BY <1>3, <2>2
  <2>4. writer'[x] = writer[x]
    BY <1>2
  <2>5. QED
    BY <1>3, <2>1, <2>3, <2>4 DEF SeenKeys
<1>10. QED
  BY <1>2, <1>7, <1>8, <1>9 DEF SettingsInv

\* Columns compared with those they are saved over are the ones asked for.
LEMMA SaveSchedule ==
    ASSUME SettingsInv, NEW w \in Writers, writer[w].pc = "read",
           writer[w].want.row # "profile", Save(w), Done(w), UNCHANGED <<up, job>>
    PROVE  SettingsInv'
<1> DEFINE want == writer[w].want  saw == writer[w].saw
<1>1. /\ want \in Requests /\ want.row = "config" /\ want.time \in Times
      /\ saw \in {None} \cup Times /\ (saw # None => config # None)
  BY RequestType DEF SettingsInv, SeenRows
<1>2. /\ writer' \in [Writers -> WriterType] /\ writer'[w].pc = "done"
      /\ \A x \in Writers \ {w} : writer'[x] = writer[x]
  BY DoneKeeps
<1>3. /\ config' = NewConfig(w) /\ schedule' = want.time /\ mixed' = (saw # config)
      /\ UNCHANGED <<profile, acked, exposed>>
  BY <1>1 DEF Save
<1>4. want.time.hour \in Nat /\ want.time.minute \in Nat
      /\ want.time = [hour |-> want.time.hour, minute |-> want.time.minute]
  BY <1>1 DEF Times
<1>5. config' \in Times /\ (saw = config => config' = want.time)
  <2>1. CASE saw = None
    BY <1>1, <1>3, <2>1 DEF NewConfig
  <2>2. CASE saw # None
    <3>1. config.hour \in Nat /\ config.minute \in Nat
      BY <1>1, <2>2 DEF SettingsInv, SettingsTypeOK, Times
    <3>2. config' = [hour   |-> IF want.time.hour # saw.hour THEN want.time.hour ELSE config.hour,
                     minute |-> IF want.time.minute # saw.minute THEN want.time.minute
                                ELSE config.minute]
      BY <1>3, <2>2 DEF NewConfig
    <3>3. config' \in Times
      BY <1>4, <3>1, <3>2 DEF Times
    <3>4. saw = config => config' = [hour |-> want.time.hour, minute |-> want.time.minute]
      BY <3>2
    <3>5. QED
      BY <1>4, <3>3, <3>4
  <2>3. QED
    BY <2>1, <2>2
<1>6. SettingsTypeOK'
  BY <1>1, <1>2, <1>3, <1>5 DEF SettingsInv, SettingsTypeOK, WriterType
<1>7. SettingsStick'
  BY <1>3, <1>5 DEF SettingsInv, SettingsStick, KeysSet
<1>8. SeenRows'
  <2>1. config' # None
    BY <1>5, SettingsAssumption
  <2>2. QED
    BY <1>2, <1>3, <2>1 DEF SettingsInv, SeenRows, SeenKeys
<1>9. QED
  BY <1>2, <1>6, <1>7, <1>8 DEF SettingsInv

LEMMA SaveInvariant ==
    ASSUME SettingsInv, NEW w \in Writers, writer[w].pc = "read", ~Duplicate(w), Save(w),
           Done(w), UNCHANGED <<up, job>>
    PROVE  SettingsInv'
  BY SaveProfile, SaveSchedule

LEMMA WritesInvariant ==
    ASSUME SettingsInv, NEW w \in Writers, Writes(w) PROVE SettingsInv'
<1>1. CASE Read(w)
  BY <1>1, ReadInvariant
<1>2. CASE Commit(w)
  BY <1>2, EndsUnwritten, SaveInvariant DEF Commit
<1>3. CASE GiveUp(w)
  BY <1>3, EndsUnwritten DEF GiveUp
<1>4. QED
  BY <1>1, <1>2, <1>3 DEF Writes

LEMMA AppInvariant == ASSUME SettingsInv, Start \/ Stop PROVE SettingsInv'
  BY DEF SettingsInv, SettingsTypeOK, SettingsStick, KeysSet, SeenRows, SeenKeys, Start, Stop, rows

LEMMA SettingsUnchanged == ASSUME SettingsInv, UNCHANGED settingsVars PROVE SettingsInv'
  BY DEF SettingsInv, SettingsTypeOK, SettingsStick, KeysSet, SeenRows, SeenKeys, settingsVars, rows

(***************************************************************************)
(* Days                                                                    *)
(***************************************************************************)
\* A day begins at a multiple of its length, and the next one that much later.
LEMMA DayBounds ==
    ASSUME NEW t \in Nat
    PROVE  /\ Date(t) \in Nat
           /\ DayLength * Date(t) <= t /\ t < DayLength * Date(t) + DayLength
  BY BriefingAssumption DEF Date

LEMMA LaterDays ==
    ASSUME NEW d \in Nat, NEW e \in Nat, d < e
    PROVE  DayLength * d + DayLength <= DayLength * e
<1> DEFINE k == e - d - 1
<1>1. k \in Nat /\ e = d + 1 + k
  OBVIOUS
<1>2. DayLength * e = DayLength * d + DayLength + DayLength * k
  BY <1>1, BriefingAssumption
<1>3. DayLength * k \in Nat
  BY <1>1, BriefingAssumption
<1>4. QED
  BY <1>2, <1>3, BriefingAssumption

LEMMA DatesInOrder ==
    ASSUME NEW s \in Nat, NEW t \in Nat, s <= t PROVE Date(s) <= Date(t)
<1>1. /\ Date(s) \in Nat /\ DayLength * Date(s) <= s
      /\ Date(t) \in Nat /\ t < DayLength * Date(t) + DayLength
  BY DayBounds
<1>2. CASE Date(t) < Date(s)
  <2>1. DayLength * Date(t) + DayLength <= DayLength * Date(s)
    BY <1>1, <1>2, LaterDays
  <2> DEFINE x == DayLength * Date(t) + DayLength  y == DayLength * Date(s)
  <2>2. x \in Nat /\ y \in Nat
    BY <1>1, BriefingAssumption
  <2>3. t < x /\ x <= y /\ y <= s
    BY <1>1, <2>1
  <2> HIDE DEF x, y
  <2>4. QED
    BY <2>2, <2>3
<1>3. QED
  BY <1>1, <1>2

(***************************************************************************)
(* Runs and the semaphore                                                  *)
(***************************************************************************)
RunType == [pc: {"idle", "build", "fetch", "redact", "narrate", "again", "store"},
            begun: Nat, todo: Nat, busy: Nat]

\* Mails are at work only while the run redacts, never more than it was given.
Sound(rec) ==
    /\ rec \in RunType /\ rec.todo + rec.busy <= MaxMails
    /\ rec.pc # "redact" => rec.todo = 0 /\ rec.busy = 0

RunInv ==
    /\ accounts \in AccountSets /\ now \in 0..Horizon
    /\ run \in [Runs -> RunType] /\ \A r \in Runs : Sound(run[r]) /\ run[r].begun <= now
    /\ stray \in [todo: Nat, busy: Nat] /\ free \in Nat
    /\ run["cron"].busy + run["demand"].busy + stray.busy + free = Slots

LEMMA NoRunSound == Sound(NoRun) /\ NoRun.begun = 0 /\ NoRun.busy = 0
  BY BriefingAssumption DEF NoRun, Sound, RunType

\* The places one run and the tasks left behind have between them are counted with those
\* of the other run, in either order.
LEMMA PlacesPassOn ==
    ASSUME NEW a \in Nat, NEW b \in Nat, NEW c \in Nat, NEW u \in Nat, NEW v \in Nat,
           NEW x \in Nat, NEW y \in Nat, NEW n \in Nat, c + v + y = a + u + x
    PROVE  /\ a + b + u + x = n => c + b + v + y = n
           /\ b + a + u + x = n => b + c + v + y = n
  BY SMT

\* A step of one run, which passes places of the semaphore on to whom it leaves them.
LEMMA RunStep ==
    ASSUME RunInv, NEW r \in Runs, NEW rec \in RunType, Step(r, rec), Sound(rec),
           rec.begun <= now, stray' \in [todo: Nat, busy: Nat], free' \in Nat,
           rec.busy + stray'.busy + free' = run[r].busy + stray.busy + free,
           UNCHANGED <<accounts, now>>
    PROVE  RunInv'
<1>1. run' \in [Runs -> RunType] /\ run'[r] = rec /\ \A q \in Runs \ {r} : run'[q] = run[q]
  BY DEF RunInv, Step
<1>2. \A q \in Runs : Sound(run'[q]) /\ run'[q].begun <= now
  BY <1>1 DEF RunInv
<1>3. run["cron"].busy \in Nat /\ run["demand"].busy \in Nat /\ rec.busy \in Nat
      /\ stray.busy \in Nat /\ stray'.busy \in Nat
  BY DEF RunInv, RunType, Runs
<1>4. run'["cron"].busy + run'["demand"].busy + stray'.busy + free' = Slots
  <2>1. run["cron"].busy + run["demand"].busy + stray.busy + free = Slots /\ Slots \in Nat /\ free \in Nat
    BY BriefingAssumption DEF RunInv
  <2>2. CASE r = "cron"
    <3>1. run'["cron"] = rec /\ run'["demand"] = run["demand"]
      BY <1>1, <2>2 DEF Runs
    <3>2. rec.busy + stray'.busy + free' = run["cron"].busy + stray.busy + free
      BY <2>2
    <3>3. QED
      BY <1>3, <2>1, <3>1, <3>2, PlacesPassOn
  <2>3. CASE r = "demand"
    <3>1. run'["demand"] = rec /\ run'["cron"] = run["cron"]
      BY <1>1, <2>3 DEF Runs
    <3>2. rec.busy + stray'.busy + free' = run["demand"].busy + stray.busy + free
      BY <2>3
    <3>3. QED
      BY <1>3, <2>1, <3>1, <3>2, PlacesPassOn
  <2>4. QED
    BY <2>2, <2>3 DEF Runs
<1>5. \A q \in Runs : Sound(run[q])' 
  BY <1>2 DEF Sound
<1>6. QED
  BY <1>1, <1>2, <1>4, <1>5 DEF RunInv

LEMMA PipelineRuns ==
    ASSUME RunInv, NEW r \in Runs, Pipeline(r) PROVE RunInv'
<1>1. /\ run[r] \in RunType /\ Sound(run[r]) /\ run[r].begun <= now
      /\ stray \in [todo: Nat, busy: Nat] /\ free \in Nat /\ now \in Nat
  BY DEF RunInv
<1>2. run[r].begun \in Nat /\ run[r].todo \in Nat /\ run[r].busy \in Nat
      /\ stray.busy \in Nat /\ stray.todo \in Nat
  BY <1>1 DEF RunType
<1>3. ASSUME run[r].busy = 0, Fail(r), UNCHANGED <<accounts, now, stray, free>> PROVE RunInv'
  BY <1>1, <1>3, NoRunSound, RunStep DEF Fail, Sound
<1>4. CASE Build(r)
  <2> DEFINE rec == [run[r] EXCEPT !.pc = "fetch", !.begun = now]
  <2>1. run[r].busy = 0
    BY <1>1, <1>4 DEF Build, At, Sound
  <2>0. /\ rec \in RunType /\ rec.pc = "fetch" /\ rec.begun = now
        /\ rec.todo = run[r].todo /\ rec.busy = run[r].busy
    BY <1>1 DEF RunType
  <2>9. run[r].todo = 0 /\ run[r].busy = 0
    BY <1>1, <1>4 DEF Build, At, Sound
  <2>2. rec \in RunType /\ Sound(rec) /\ rec.busy = run[r].busy /\ rec.begun <= now
    BY <1>1, <1>2, <2>0, <2>9, BriefingAssumption DEF Sound, RunType
  <2>3. QED
    BY <1>1, <1>3, <1>4, <2>1, <2>2, RunStep DEF Build, Quiet
<1>5. CASE Fetch(r)
  <2>1. PICK n \in 0..MaxMails : Step(r, [run[r] EXCEPT !.pc = "redact", !.todo = n])
    BY <1>5 DEF Fetch
  <2> DEFINE rec == [run[r] EXCEPT !.pc = "redact", !.todo = n]
  <2>0. /\ rec \in RunType /\ rec.pc = "redact" /\ rec.begun = run[r].begun
        /\ rec.todo = n /\ rec.busy = run[r].busy
    <3>1. n \in Nat
      BY BriefingAssumption
    <3>2. QED
      BY <1>1, <3>1 DEF RunType
  <2>9. run[r].todo = 0 /\ run[r].busy = 0
    BY <1>1, <1>5 DEF Fetch, At, Sound
  <2>2. rec \in RunType /\ Sound(rec) /\ rec.busy = run[r].busy /\ rec.begun <= now
    BY <1>1, <1>2, <2>0, <2>9, BriefingAssumption DEF Sound, RunType
  <2>3. QED
    BY <1>1, <1>5, <2>1, <2>2, RunStep DEF Fetch, Quiet
<1>6. CASE StartCall(r)
  <2> DEFINE rec == [run[r] EXCEPT !.todo = run[r].todo - 1, !.busy = run[r].busy + 1]
  <2>9. run[r].pc = "redact" /\ run[r].todo > 0
    BY <1>6 DEF StartCall, At
  <2>0. /\ rec \in RunType /\ rec.pc = "redact" /\ rec.begun = run[r].begun
        /\ rec.todo = run[r].todo - 1 /\ rec.busy = run[r].busy + 1
    <3> DEFINE less == run[r].todo - 1  more == run[r].busy + 1
    <3>1. less \in Nat /\ more \in Nat
      BY <1>2, <2>9
    <3> HIDE DEF less, more
    <3>2. rec = [run[r] EXCEPT !.todo = less, !.busy = more]
      BY DEF less, more
    <3> HIDE DEF rec
    <3>3. rec \in RunType /\ rec.pc = "redact" /\ rec.begun = run[r].begun
          /\ rec.todo = less /\ rec.busy = more
      BY <1>1, <2>9, <3>1, <3>2 DEF RunType
    <3>4. QED
      BY <3>3 DEF less, more
  <2>1. rec \in RunType /\ Sound(rec) /\ rec.busy = run[r].busy + 1 /\ rec.begun <= now
    BY <1>1, <1>2, <2>0, <2>9, BriefingAssumption DEF Sound, RunType
  <2>2. free' \in Nat /\ free' = free - 1
    BY <1>1, <1>6 DEF StartCall, Room, Enter
  <2>3. Step(r, rec) /\ UNCHANGED <<accounts, now, stray>>
    BY <1>6 DEF StartCall, Quiet
  <2>4. rec.busy + stray'.busy + free' = run[r].busy + stray.busy + free
    BY <1>1, <1>2, <2>1, <2>2, <2>3
  <2>5. QED
    BY <1>1, <2>1, <2>2, <2>3, <2>4, RunStep
<1>7. CASE CallReturns(r)
  <2> DEFINE rec == [run[r] EXCEPT !.busy = run[r].busy - 1]
  <2>1. rec \in RunType /\ Sound(rec) /\ rec.busy = run[r].busy - 1 /\ rec.begun <= now
    BY <1>1, <1>2, <1>7, BriefingAssumption DEF CallReturns, At, Sound, RunType
  <2>2. free' \in Nat /\ free' = free + 1 /\ Step(r, rec) /\ UNCHANGED <<accounts, now, stray>>
    BY <1>1, <1>7 DEF CallReturns, Leave, Quiet
  <2>3. rec.busy + stray'.busy + free' = run[r].busy + stray.busy + free
    BY <1>1, <1>2, <2>1, <2>2
  <2>4. QED
    BY <1>1, <2>1, <2>2, <2>3, RunStep
<1>8. CASE CallRaises(r)
  <2>1. /\ Step(r, NoRun) /\ run[r].busy > 0
        /\ stray' = [todo |-> stray.todo + run[r].todo, busy |-> stray.busy + run[r].busy - 1]
        /\ free' = free + 1 /\ UNCHANGED <<accounts, now>>
    BY <1>8 DEF CallRaises, Fail, Left, Leave, Quiet
  <2>2. stray' \in [todo: Nat, busy: Nat] /\ free' \in Nat
    BY <1>1, <1>2, <2>1
  <2>3. NoRun.busy + stray'.busy + free' = run[r].busy + stray.busy + free
    BY <1>1, <1>2, <2>1, NoRunSound
  <2>4. QED
    BY <1>1, <2>1, <2>2, <2>3, NoRunSound, RunStep DEF Sound
<1>9. CASE Redacted(r)
  <2> DEFINE rec == [run[r] EXCEPT !.pc = "narrate"]
  <2>1. rec \in RunType /\ Sound(rec) /\ rec.busy = run[r].busy /\ rec.begun <= now
    BY <1>1, <1>9 DEF Redacted, At, Sound, RunType
  <2>2. QED
    BY <1>1, <1>9, <2>1, RunStep DEF Redacted, Quiet
<1>10. CASE Narrate(r)
  <2>1. run[r].busy = 0
    BY <1>1, <1>10 DEF Narrate, At, Sound
  <2>2. ASSUME NEW where \in {"store", "again"}, Step(r, [run[r] EXCEPT !.pc = where]) PROVE RunInv'
    <3> DEFINE rec == [run[r] EXCEPT !.pc = where]
    <3>1. rec \in RunType /\ Sound(rec) /\ rec.busy = run[r].busy /\ rec.begun <= now
      BY <1>1, <1>10 DEF Narrate, At, Sound, RunType
    <3>2. QED
      BY <1>1, <1>10, <2>2, <3>1, RunStep DEF Narrate, Quiet
  <2>3. QED
    BY <1>3, <1>10, <2>1, <2>2 DEF Narrate, Quiet
<1>11. CASE CacheBriefing(r)
  BY <1>1, <1>3, <1>11 DEF CacheBriefing, At, Sound
<1>12. QED
  BY <1>4, <1>5, <1>6, <1>7, <1>8, <1>9, <1>10, <1>11 DEF Pipeline

LEMMA OthersRun ==
    ASSUME RunInv, Tick \/ Shutdown \/ Trigger \/ StrayStarts \/ StrayEnds PROVE RunInv'
<1>1. /\ run \in [Runs -> RunType] /\ stray \in [todo: Nat, busy: Nat] /\ free \in Nat
      /\ now \in 0..Horizon /\ stray.busy \in Nat /\ stray.todo \in Nat
      /\ \A r \in Runs : run[r] \in RunType /\ Sound(run[r]) /\ run[r].begun <= now
                         /\ run[r].busy \in Nat /\ run[r].begun \in Nat
  BY DEF RunInv, RunType
<1>2. CASE Tick
  <2>1. now' \in 0..Horizon /\ now' = now + 1 /\ UNCHANGED <<accounts, stray, free>>
    BY <1>1, <1>2, BriefingAssumption DEF Tick
  <2>2. \A r \in Runs : Sound(run'[r]) /\ run'[r].begun = run[r].begun /\ run'[r].busy = run[r].busy
    <3>1. CASE run' = run
      BY <1>1, <3>1
    <3>2. CASE run' # run
      <4> DEFINE rec == [run["cron"] EXCEPT !.pc = "build"]
      <4>1. At("cron", "idle") /\ run' = [run EXCEPT !["cron"] = rec]
        BY <1>2, <3>2 DEF Tick, Fires
      <4>2. Sound(rec) /\ rec.begun = run["cron"].begun /\ rec.busy = run["cron"].busy
        BY <1>1, <4>1 DEF At, Sound, RunType, Runs
      <4> HIDE DEF rec
      <4>3. QED
        BY <1>1, <4>1, <4>2 DEF Runs
    <3>3. QED
      BY <3>1, <3>2
  <2>3. run' \in [Runs -> RunType]
    <3>1. run' = run \/ run' = [run EXCEPT !["cron"] = run'["cron"]]
      BY <1>1, <1>2 DEF Tick, Runs
    <3>2. QED
      BY <1>1, <2>2, <3>1 DEF Sound, Runs
  <2>4. \A r \in Runs : Sound(run[r])'
    BY <2>2 DEF Sound
  <2>5. \A r \in Runs : run'[r].begun <= now'
    BY <1>1, <2>1, <2>2
  <2>6. run'["cron"].busy + run'["demand"].busy + stray'.busy + free' = Slots
    BY <2>1, <2>2 DEF RunInv, Runs
  <2>7. QED
    BY <2>1, <2>3, <2>4, <2>5, <2>6 DEF RunInv
<1>3. CASE Shutdown
  <2>1. run' = [r \in Runs |-> NoRun] /\ stray' = NoTasks /\ free' = Slots /\ UNCHANGED <<accounts, now>>
    BY <1>3 DEF Shutdown
  <2>2. \A r \in Runs : run'[r] = NoRun
    BY <2>1
  <2>3. \A r \in Runs : Sound(run[r])' /\ run'[r].begun <= now' /\ run'[r].busy = 0
    BY <1>1, <2>1, <2>2, NoRunSound DEF Sound
  <2>4. run' \in [Runs -> RunType]
    BY <2>1, NoRunSound DEF Sound
  <2>5. stray' \in [todo: Nat, busy: Nat] /\ stray'.busy = 0 /\ free' \in Nat
    BY <2>1, BriefingAssumption DEF NoTasks
  <2>6. QED
    BY <2>1, <2>3, <2>4, <2>5, BriefingAssumption DEF RunInv, Runs
<1>4. CASE Trigger
  <2> DEFINE rec == [NoRun EXCEPT !.pc = "build"]
  <2>1. rec \in RunType /\ Sound(rec) /\ rec.busy = 0 /\ rec.begun = 0
    BY BriefingAssumption DEF NoRun, Sound, RunType
  <2>2. run["demand"].busy = 0 /\ "demand" \in Runs
    BY <1>1, <1>4 DEF Trigger, At, Sound, Runs
  <2>3. Step("demand", rec) /\ UNCHANGED <<accounts, now, stray, free>>
    BY <1>4 DEF Trigger, Quiet
  <2>4. 0 \in Nat /\ 0 <= now /\ rec.busy + stray'.busy + free' = run["demand"].busy + stray.busy + free
    BY <1>1, <2>1, <2>2, <2>3
  <2> HIDE DEF rec
  <2>5. QED
    BY <1>1, <2>1, <2>2, <2>3, <2>4, RunStep
<1>5. CASE StrayStarts \/ StrayEnds
  <2>1. UNCHANGED <<accounts, now, run>>
    BY <1>5 DEF StrayStarts, StrayEnds, Quiet
  <2>2. stray' \in [todo: Nat, busy: Nat] /\ free' \in Nat /\ stray'.busy + free' = stray.busy + free
    <3>1. CASE StrayStarts
      BY <1>1, <3>1 DEF StrayStarts, Room, Enter
    <3>2. CASE StrayEnds
      BY <1>1, <3>2 DEF StrayEnds, Leave
    <3>3. QED
      BY <1>5, <3>1, <3>2
  <2>3. \A r \in Runs : Sound(run[r])'
    BY <1>1, <2>1 DEF Sound
  <2>4. run["cron"].busy + run["demand"].busy + stray'.busy + free' = Slots
    <3>1. run["cron"].busy \in Nat /\ run["demand"].busy \in Nat /\ stray'.busy \in Nat
      BY <1>1, <2>2 DEF Runs
    <3>2. QED
      BY <1>1, <2>2, <3>1, BriefingAssumption DEF RunInv
  <2>5. QED
    BY <1>1, <2>1, <2>2, <2>3, <2>4 DEF RunInv
<1>6. QED
  BY <1>2, <1>3, <1>4, <1>5

(***************************************************************************)
(* The cache                                                               *)
(***************************************************************************)
Entry == [begun: Nat, until: Nat]

\* A cached briefing is of the day it is cached for, and outlives that day.
CacheInv ==
    /\ cache \in [Days -> {None} \cup Entry]
    /\ \A d \in Days : cache[d] # None =>
         Date(cache[d].begun) = d /\ DayLength * d + DayLength <= cache[d].until
    /\ stored \subseteq 0..now
    /\ \A t \in stored : Date(t) = Date(now) => cache[Date(now)] # None

IInv == SettingsInv /\ RunInv /\ CacheInv

LEMMA NowIsADay == ASSUME NEW t \in 0..Horizon PROVE Date(t) \in Days /\ Days \subseteq Nat
<1>1. t \in Nat /\ Horizon \in Nat /\ t <= Horizon
  BY BriefingAssumption
<1>2. Date(t) \in Nat /\ Date(Horizon) \in Nat /\ Date(t) <= Date(Horizon)
  BY <1>1, DayBounds, DatesInOrder
<1>3. QED
  BY <1>2 DEF Days

LEMMA InvariantImplies == IInv => TypeOK /\ SettingsStick /\ TodaysBriefingIsRead
<1> SUFFICES ASSUME IInv PROVE TypeOK /\ SettingsStick /\ TodaysBriefingIsRead
  OBVIOUS
<1>1. now \in 0..Horizon /\ Horizon \in Nat
  BY BriefingAssumption DEF IInv, RunInv
<1>2. TypeOK
  <2>1. \A r \in Runs : run[r].todo \in 0..MaxMails /\ run[r].busy \in 0..MaxMails
                        /\ run[r].begun \in 0..now /\ run[r] \in RunType
    BY <1>1, BriefingAssumption DEF IInv, RunInv, Sound, RunType
  <2>2. stored \subseteq 0..Horizon
    BY <1>1 DEF IInv, CacheInv
  <2>3. QED
    BY <2>1, <2>2 DEF IInv, SettingsInv, RunInv, TypeOK, RunType
<1>3. SettingsStick
  BY DEF IInv, SettingsInv
<1>4. TodaysBriefingIsRead
  BY <1>1, NowIsADay DEF IInv, CacheInv, TodaysBriefingIsRead, Lookup
<1>5. QED
  BY <1>2, <1>3, <1>4

LEMMA InitInvariant == Init => IInv
<1> SUFFICES ASSUME Init PROVE IInv
  OBVIOUS
<1>1. SettingsInv
  BY SettingsInitially DEF Init
<1>2. RunInv
  BY NoRunSound, BriefingAssumption DEF Init, RunInv, NoTasks, Runs, Sound
<1>3. CacheInv
  BY DEF Init, CacheInv
<1>4. QED
  BY <1>1, <1>2, <1>3 DEF IInv

LEMMA CacheUnchanged ==
    ASSUME CacheInv, UNCHANGED <<now, cache, stored>> PROVE CacheInv'
  BY DEF CacheInv

\* A run that began on an earlier day is cached for that day.
LEMMA StoreInvariant ==
    ASSUME IInv, NEW r \in Runs, CacheBriefing(r) PROVE CacheInv'
<1> DEFINE t == run[r].begun  new == [begun |-> t, until |-> now + DayLength]
<1>1. t \in Nat /\ t <= now /\ now \in Nat /\ now \in 0..Horizon /\ t \in 0..Horizon /\ t \in 0..now
  BY BriefingAssumption DEF IInv, RunInv, RunType
<1>2. CASE UNCHANGED <<cache, stored>>
  BY <1>2, CacheUnchanged DEF IInv, CacheBriefing
<1>3. CASE cache' = [cache EXCEPT ![Date(t)] = new] /\ stored' = stored \cup {t}
  <2>1. Date(t) \in Days /\ Date(t) \in Nat /\ DayLength * Date(t) <= t
    BY <1>1, NowIsADay, DayBounds
  <2>2. new \in Entry /\ new # None
    BY <1>1, BriefingAssumption DEF Entry
  <2>3. DayLength * Date(t) + DayLength <= new.until
    <3> DEFINE x == DayLength * Date(t)
    <3>1. x \in Nat /\ x <= t
      BY <2>1, BriefingAssumption
    <3> HIDE DEF x
    <3>2. x + DayLength <= now + DayLength
      BY <1>1, <3>1, BriefingAssumption
    <3>3. QED
      BY <3>2 DEF x
  <2>4. /\ cache' \in [Days -> {None} \cup Entry] /\ cache'[Date(t)] = new
        /\ \A d \in Days \ {Date(t)} : cache'[d] = cache[d]
    BY <1>3, <2>1, <2>2 DEF IInv, CacheInv
  <2>5. \A d \in Days : cache'[d] # None =>
          Date(cache'[d].begun) = d /\ DayLength * d + DayLength <= cache'[d].until
    BY <2>3, <2>4 DEF IInv, CacheInv
  <2>6. now' = now /\ stored' \subseteq 0..now
    BY <1>1, <1>3 DEF IInv, CacheInv, CacheBriefing
  <2>7. \A s \in stored' : Date(s) = Date(now) => cache'[Date(now)] # None
    BY <1>1, <1>3, <2>2, <2>4, NowIsADay DEF IInv, CacheInv
  <2>8. QED
    BY <2>4, <2>5, <2>6, <2>7 DEF CacheInv, Date
<1>4. QED
  BY <1>2, <1>3 DEF CacheBriefing, Key, Ttl

\* A briefing expires on a later day only.
LEMMA TickInvariant == ASSUME IInv, Tick PROVE CacheInv'
<1>1. now \in Nat /\ now' = now + 1 /\ now' \in 0..Horizon /\ now' \in Nat /\ stored \subseteq 0..now
  BY BriefingAssumption DEF IInv, RunInv, CacheInv, Tick
<1>2. cache' = [d \in Days |-> IF cache[d] # None /\ cache[d].until <= now' THEN None ELSE cache[d]]
  BY DEF Tick
<1>3. cache' \in [Days -> {None} \cup Entry]
      /\ \A d \in Days : cache'[d] # None => cache'[d] = cache[d]
  BY <1>2 DEF IInv, CacheInv
<1>4. \A d \in Days : cache'[d] # None =>
        Date(cache'[d].begun) = d /\ DayLength * d + DayLength <= cache'[d].until
  BY <1>3 DEF IInv, CacheInv
<1>5. stored' \subseteq 0..now'
  BY <1>1 DEF Tick
<1>6. ASSUME NEW t \in stored', Date(t) = Date(now') PROVE cache'[Date(now')] # None
  <2>1. Date(now') = Date(now) /\ t \in stored
    BY <1>6 DEF Tick
  <2> DEFINE d == Date(now)
  <2>2. d \in Days /\ d \in Nat /\ now' < DayLength * d + DayLength
    BY <1>1, <2>1, NowIsADay, DayBounds
  <2>3. cache[d] # None /\ cache[d] \in Entry
    BY <1>6, <2>1, <2>2 DEF IInv, CacheInv
  <2>4. DayLength * d + DayLength <= cache[d].until /\ cache[d].until \in Nat
    BY <2>2, <2>3 DEF IInv, CacheInv, Entry
  <2>5. ~(cache[d].until <= now')
    <3> DEFINE x == DayLength * d + DayLength
    <3>1. x \in Nat
      BY <2>2, BriefingAssumption
    <3>2. now' < x /\ x <= cache[d].until
      BY <2>2, <2>4
    <3> HIDE DEF x
    <3>3. QED
      BY <1>1, <2>4, <3>1, <3>2
  <2>6. QED
    BY <1>2, <2>1, <2>2, <2>3, <2>5
<1>7. QED
  BY <1>3, <1>4, <1>5, <1>6 DEF CacheInv, Date

LEMMA NextInvariant == IInv /\ [Next]_vars => IInv'
<1> SUFFICES ASSUME IInv, [Next]_vars PROVE IInv'
  OBVIOUS
<1>1. ASSUME NEW w \in Writers, Writes(w), UNCHANGED pipeline PROVE IInv'
  <2>1. SettingsInv'
    BY <1>1, WritesInvariant DEF IInv
  <2>2. RunInv' /\ CacheInv'
    BY <1>1 DEF pipeline, IInv, RunInv, CacheInv, Sound
  <2>3. QED
    BY <2>1, <2>2 DEF IInv
<1>2. CASE Boot
  <2>1. SettingsInv'
    BY <1>2, AppInvariant DEF IInv, Boot
  <2>2. RunInv' /\ CacheInv'
    BY <1>2 DEF Boot, pipeline, IInv, RunInv, CacheInv, Sound
  <2>3. QED
    BY <2>1, <2>2 DEF IInv
<1>3. CASE Shutdown
  <2>1. SettingsInv' /\ RunInv' /\ CacheInv'
    BY <1>3, AppInvariant, OthersRun, CacheUnchanged DEF IInv, Shutdown
  <2>2. QED
    BY <2>1 DEF IInv
<1>4. CASE Tick
  BY <1>4, SettingsUnchanged, OthersRun, TickInvariant DEF IInv, Tick
<1>5. CASE Trigger \/ StrayStarts \/ StrayEnds
  BY <1>5, SettingsUnchanged, OthersRun, CacheUnchanged
     DEF IInv, Trigger, StrayStarts, StrayEnds, Quiet
<1>6. ASSUME NEW r \in Runs, Pipeline(r) PROVE IInv'
  <2>1. RunInv' /\ SettingsInv'
    BY <1>6, PipelineRuns, SettingsUnchanged
       DEF IInv, Pipeline, Build, Fetch, StartCall, CallReturns, CallRaises, Redacted, Narrate,
           CacheBriefing, Quiet
  <2>2. CacheInv'
    <3>1. CASE CacheBriefing(r)
      BY <3>1, StoreInvariant
    <3>2. CASE ~CacheBriefing(r)
      BY <1>6, <3>2, CacheUnchanged
         DEF IInv, Pipeline, Build, Fetch, StartCall, CallReturns, CallRaises, Redacted, Narrate, Quiet
    <3>3. QED
      BY <3>1, <3>2
  <2>3. QED
    BY <2>1, <2>2 DEF IInv
<1>7. CASE UNCHANGED vars
  <2>1. SettingsInv'
    BY <1>7, SettingsUnchanged DEF IInv, vars
  <2>2. RunInv' /\ CacheInv'
    BY <1>7 DEF vars, pipeline, IInv, RunInv, CacheInv, Sound
  <2>3. QED
    BY <2>1, <2>2 DEF IInv
<1>8. QED
  BY <1>1, <1>2, <1>3, <1>4, <1>5, <1>6, <1>7 DEF Next

LEMMA Invariant == Spec => []IInv
<1>1. QED
  BY InitInvariant, NextInvariant, PTL DEF Spec

(***************************************************************************)
(* The theorems                                                            *)
(***************************************************************************)
\* The state keeps its type, and a place of _LLM_SEMAPHORE is free or held by a call,
\* whichever runs fail, are cut off by a restart, or leave tasks behind
\* (the gather of briefing/redactor.py:116).
THEOREM TypeCorrect == Spec => []TypeOK
  BY Invariant, InvariantImplies, PTL

\* What a caller was told is set stays set, for any number of requests, unless one wrote
\* between another's read and write (profile/service.py:66, users/router.py:117).
THEOREM SettingsStay == Spec => []SettingsStick
  BY Invariant, InvariantImplies, PTL

\* A briefing of today that was stored is found under today's date until the day ends,
\* and none is found under another's (briefing/cache.py): however long a day is in terms
\* of the steps of a run, and however many runs overlap midnight.
THEOREM BriefingIsFound == Spec => []TodaysBriefingIsRead
  BY Invariant, InvariantImplies, PTL

(***************************************************************************)
(* A run goes on, and not for ever                                         *)
(***************************************************************************)
\* The guards of a run's own steps, and a call under way, which may return or raise: of
\* the run, of the other one or left behind.
OwnStep(r) ==
    run[r].pc = "redact" => run[r].busy > 0 \/ run[r].todo = 0 \/ Room
Calls == stray.busy > 0 \/ \E q \in Runs : run[q].pc = "redact" /\ run[q].busy > 0
GoesOn == \A r \in Runs : At(r, "idle") \/ OwnStep(r) \/ Calls

\* What is left to do of a run: each mail is begun and ended, and the narrative may be
\* asked for twice.
StepsLeft(rec) ==
    CASE rec.pc = "idle"    -> 0
      [] rec.pc = "store"   -> 1
      [] rec.pc = "again"   -> 2
      [] rec.pc = "narrate" -> 3
      [] rec.pc = "redact"  -> 4 + rec.todo + rec.todo + rec.busy
      [] rec.pc = "fetch"   -> 5 + MaxMails + MaxMails
      [] rec.pc = "build"   -> 6 + MaxMails + MaxMails

\* A step that changes a run that has begun brings it nearer to its end.
NearsItsEnd ==
    \A r \in Runs : run[r].pc # "idle" /\ run'[r] # run[r] =>
                        StepsLeft(run'[r]) < StepsLeft(run[r])

LEMMA StepsLeftBound ==
    ASSUME NEW rec \in RunType, Sound(rec)
    PROVE  StepsLeft(rec) \in 0..(6 + MaxMails + MaxMails)
<1>1. /\ rec.todo \in Nat /\ rec.busy \in Nat /\ MaxMails \in Nat
      /\ rec.todo + rec.busy <= MaxMails
  BY BriefingAssumption DEF RunType, Sound
<1>2. rec.todo + rec.todo + rec.busy <= MaxMails + MaxMails
  BY <1>1
<1>3. rec.pc \in {"idle", "build", "fetch", "redact", "narrate", "again", "store"}
  BY DEF RunType
<1>4. CASE rec.pc = "redact"
  BY <1>1, <1>2, <1>4 DEF StepsLeft
<1>5. CASE rec.pc # "redact"
  BY <1>1, <1>3, <1>5 DEF StepsLeft
<1> QED
  BY <1>4, <1>5

LEMMA RunNearsItsEnd ==
    ASSUME RunInv, RunInv', NEW r \in Runs, Pipeline(r) PROVE NearsItsEnd
<1> DEFINE old == run[r]  new == run'[r]
<1>1. /\ old \in RunType /\ Sound(old) /\ new \in RunType /\ Sound(new) /\ NoRun.pc = "idle"
  BY DEF RunInv, NoRun, Sound
<1>2. /\ old.todo \in Nat /\ old.busy \in Nat /\ new.todo \in Nat /\ new.busy \in Nat
      /\ MaxMails \in Nat
  BY <1>1, BriefingAssumption DEF RunType
<1>3. old.pc # "idle" => StepsLeft(old) > 0
  BY <1>1, <1>2 DEF StepsLeft, RunType
<1>4. /\ \A rec : Step(r, rec) => new = rec /\ \A q \in Runs \ {r} : run'[q] = run[q]
      /\ Fail(r) => new = NoRun
  BY DEF Step, Fail, RunInv
<1>5. (\A q \in Runs \ {r} : run'[q] = run[q])
  BY <1>4 DEF Pipeline, Build, Fetch, StartCall, CallReturns, CallRaises, Redacted, Narrate,
              CacheBriefing, Fail
<1>6. ASSUME new = NoRun PROVE StepsLeft(new) = 0
  BY <1>1, <1>6 DEF StepsLeft
<1>7. old.pc # "idle" => StepsLeft(new) < StepsLeft(old)
  <2> SUFFICES ASSUME old.pc # "idle", ~Fail(r) PROVE StepsLeft(new) < StepsLeft(old)
    BY <1>3, <1>4, <1>6
  <2>1. CASE Build(r)
    <3>1. old.pc = "build" /\ new = [old EXCEPT !.pc = "fetch", !.begun = now]
      BY <1>4, <2>1 DEF Build, At
    <3>2. new.pc = "fetch"
      BY <1>1, <3>1 DEF RunType
    <3> QED
      BY <1>2, <3>1, <3>2 DEF StepsLeft
  <2>2. CASE Fetch(r)
    <3>1. PICK n \in 0..MaxMails : new = [old EXCEPT !.pc = "redact", !.todo = n]
      BY <1>4, <2>2 DEF Fetch
    <3>2. old.pc = "fetch" /\ new.pc = "redact" /\ new.todo <= MaxMails /\ new.busy = 0
      BY <1>1, <1>2, <2>2, <3>1 DEF Fetch, At, RunType, Sound
    <3> QED
      BY <1>2, <3>2 DEF StepsLeft
  <2>3. CASE StartCall(r)
    <3>1. old.pc = "redact" /\ new = [old EXCEPT !.todo = @ - 1, !.busy = @ + 1]
      BY <1>4, <2>3 DEF StartCall, At
    <3>2. new.pc = "redact" /\ new.todo = old.todo - 1 /\ new.busy = old.busy + 1
      BY <1>1, <3>1 DEF RunType
    <3> QED
      BY <1>2, <3>1, <3>2 DEF StepsLeft
  <2>4. CASE CallReturns(r)
    <3>1. old.pc = "redact" /\ new = [old EXCEPT !.busy = @ - 1]
      BY <1>4, <2>4 DEF CallReturns, At
    <3>2. new.pc = "redact" /\ new.todo = old.todo /\ new.busy = old.busy - 1
      BY <1>1, <3>1 DEF RunType
    <3> QED
      BY <1>2, <3>1, <3>2 DEF StepsLeft
  <2>5. CASE Redacted(r)
    <3>1. old.pc = "redact" /\ new = [old EXCEPT !.pc = "narrate"]
      BY <1>4, <2>5 DEF Redacted, At
    <3>2. new.pc = "narrate"
      BY <1>1, <3>1 DEF RunType
    <3> QED
      BY <1>2, <3>1, <3>2 DEF StepsLeft
  <2>6. CASE Narrate(r)
    <3>1. \/ old.pc \in {"narrate", "again"} /\ new = [old EXCEPT !.pc = "store"]
          \/ old.pc = "narrate" /\ new = [old EXCEPT !.pc = "again"]
      BY <1>4, <2>6 DEF Narrate, At
    <3>2. \/ old.pc \in {"narrate", "again"} /\ new.pc = "store"
          \/ old.pc = "narrate" /\ new.pc = "again"
      BY <1>1, <3>1 DEF RunType
    <3> QED
      BY <3>2 DEF StepsLeft
  <2> QED
    BY <2>1, <2>2, <2>3, <2>4, <2>5, <2>6 DEF Pipeline, CallRaises, CacheBriefing
<1> QED
  BY <1>5, <1>7 DEF NearsItsEnd

\* The progress behind EveryRunEnds (the semaphore of briefing/redactor.py:52-116,
\* the retry of narrator.py:141-175): a run that waits for a place waits for a call that
\* is under way, so that nothing but a call that never returns can hold it up; and each of
\* its at most 2 * MaxMails + 6 steps is one towards its end, whatever others do meanwhile.
THEOREM RunsGoOn ==
    Spec => /\ [](GoesOn /\ \A r \in Runs : StepsLeft(run[r]) <= 6 + 2 * MaxMails)
            /\ [][NearsItsEnd]_vars
<1>1. IInv => GoesOn
  <2> SUFFICES ASSUME IInv, NEW r \in Runs, run[r].pc = "redact", ~Room, ~Calls PROVE FALSE
    BY DEF GoesOn, OwnStep
  <2>1. /\ \A q \in Runs : run[q].busy \in Nat /\ (run[q].pc # "redact" => run[q].busy = 0)
        /\ stray.busy \in Nat /\ free \in Nat
        /\ run["cron"].busy + run["demand"].busy + stray.busy + free = Slots
    BY DEF IInv, RunInv, Sound, RunType
  <2>2. run["cron"].busy = 0 /\ run["demand"].busy = 0 /\ stray.busy = 0 /\ free = 0
    BY <2>1 DEF Calls, Room, Runs
  <2> QED
    BY <2>1, <2>2, BriefingAssumption
<1>2. IInv => \A r \in Runs : StepsLeft(run[r]) <= 6 + 2 * MaxMails
  <2> SUFFICES ASSUME IInv, NEW r \in Runs PROVE StepsLeft(run[r]) <= 6 + 2 * MaxMails
    OBVIOUS
  <2>1. StepsLeft(run[r]) \in 0..(6 + MaxMails + MaxMails)
    BY StepsLeftBound DEF IInv, RunInv
  <2>2. MaxMails \in Nat
    BY BriefingAssumption
  <2> QED
    BY <2>1, <2>2
<1>3. IInv /\ IInv' /\ [Next]_vars => [NearsItsEnd]_vars
  <2> SUFFICES ASSUME IInv, IInv', Next PROVE NearsItsEnd
    OBVIOUS
  <2>1. RunInv /\ RunInv'
    BY DEF IInv
  <2>2. CASE \E r \in Runs : Pipeline(r)
    BY <2>1, <2>2, RunNearsItsEnd
  <2>3. CASE UNCHANGED run
    BY <2>3 DEF NearsItsEnd
  <2>4. CASE Trigger
    BY <2>1, <2>4 DEF Trigger, Step, At, RunInv, NearsItsEnd
  <2>5. CASE Tick
    BY <2>1, <2>5 DEF Tick, Fires, At, RunInv, NearsItsEnd
  <2>6. CASE Shutdown
    <3>1. \A r \in Runs : run'[r] = NoRun /\ StepsLeft(NoRun) = 0
      BY <2>6 DEF Shutdown, StepsLeft, NoRun
    <3>2. \A r \in Runs : run[r].pc # "idle" => StepsLeft(run[r]) > 0
      <4> SUFFICES ASSUME NEW r \in Runs, run[r].pc # "idle" PROVE StepsLeft(run[r]) > 0
        OBVIOUS
      <4>1. run[r] \in RunType /\ run[r].todo \in Nat /\ run[r].busy \in Nat /\ MaxMails \in Nat
        BY <2>1, BriefingAssumption DEF RunInv, RunType
      <4> QED
        BY <4>1 DEF StepsLeft, RunType
    <3> QED
      BY <3>1, <3>2 DEF NearsItsEnd
  <2> QED
    BY <2>2, <2>3, <2>4, <2>5, <2>6
       DEF Next, Boot, StrayStarts, StrayEnds, pipeline
<1>4. QED
  BY <1>1, <1>2, <1>3, Invariant, NextInvariant, PTL DEF Spec

(***************************************************************************)
(* The algorithms: what find_conflicts, score_email and rank_emails return *)
(***************************************************************************)
\* find_conflicts may break: over events sorted by their start it reports every pair
\* that overlaps and no other (briefing/context_builder.py:57), a long meeting against
\* all the short ones in it included.
THEOREM SweepFindsConflicts ==
    ASSUME NEW timed \in Seq(Events), SortedByStart(timed)
    PROVE  FindConflicts(timed) = Overlapping(timed)
<1>1. ASSUME NEW i \in 1..Len(timed) PROVE timed[i] \in Events
  BY <1>1
<1>2. ASSUME NEW i \in 1..Len(timed), NEW j \in 1..Len(timed)
      PROVE  Reported(timed, i, j) <=> Overlap(timed, i, j)
  <2>1. /\ timed[i].start \in Int /\ timed[i].end \in Int
        /\ timed[j].start \in Int /\ timed[j].end \in Int /\ timed[j].start < timed[j].end
    BY <1>1 DEF Events, Instants
  <2>2. i < j => timed[i].start <= timed[j].start
    BY DEF SortedByStart
  <2>3. Reported(timed, i, j) => Overlap(timed, i, j)
    BY <2>1, <2>2 DEF Reported, Overlap
  <2>4. ASSUME Overlap(timed, i, j), NEW k \in 1..Len(timed), i < k, k <= j
        PROVE  timed[k].start < timed[i].end
    <3>1. timed[k].start \in Int
      BY <1>1, <2>4 DEF Events, Instants
    <3>2. timed[k].start <= timed[j].start
      BY <2>4 DEF SortedByStart
    <3> QED
      BY <2>1, <2>4, <3>1, <3>2 DEF Overlap
  <2> QED
    BY <2>3, <2>4 DEF Reported, Overlap
<1>3. ASSUME NEW p \in Pairs(timed)
      PROVE  Reported(timed, p[1], p[2]) <=> Overlap(timed, p[1], p[2])
  <2>1. p[1] \in 1..Len(timed) /\ p[2] \in 1..Len(timed)
    BY <1>3 DEF Pairs
  <2> QED
    BY <1>2, <2>1
<1> QED
  BY <1>3 DEF FindConflicts, Overlapping

\* A mail of a VIP outranks every mail that is none and has at most one deadline keyword:
\* age, recipients and a busy thread never make up for the sender.  Two keywords can.
THEOREM VipsComeFirst ==
    ASSUME NEW v \in Emails, NEW e \in Emails, v.vip, ~e.vip, e.keywords <= 1
    PROVE  Score(v) > Score(e)
<1>1. SenderWeight(v) = 40 /\ SenderWeight(e) <= 10 /\ SenderWeight(e) \in Int
  BY DEF SenderWeight
<1>2. Recency(v) \in Int /\ Recency(v) >= 0
  BY DEF Recency, Emails
<1>3. Recency(e) \in Int /\ Recency(e) <= 360
  BY DEF Recency, Emails
<1>4. v.keywords \in Nat /\ e.keywords \in Nat
  BY DEF Emails
<1> QED
  BY <1>1, <1>2, <1>3, <1>4 DEF Score

(***************************************************************************)
(* rank_emails: a mail's rank is the number of those ahead of it           *)
(***************************************************************************)
LEMMA AheadFinite ==
    ASSUME NEW D \in SUBSET Int, IsFiniteSet(D), NEW score \in [D -> Int], NEW i \in D
    PROVE  /\ IsFiniteSet(Ahead(score, i)) /\ Cardinality(Ahead(score, i)) \in Nat
           /\ Ahead(score, i) \subseteq D \ {i}
           /\ Cardinality(Ahead(score, i)) < Cardinality(D)
<1>1. Ahead(score, i) \subseteq D \ {i}
  BY DEF Ahead, Before
<1>2. IsFiniteSet(D \ {i}) /\ Cardinality(D \ {i}) = Cardinality(D) - 1
  BY FS_RemoveElement
<1>3. IsFiniteSet(Ahead(score, i)) /\ Cardinality(Ahead(score, i)) <= Cardinality(D \ {i})
  BY <1>1, <1>2, FS_Subset
<1>4. Cardinality(D) \in Nat /\ Cardinality(Ahead(score, i)) \in Nat
  BY <1>3, FS_CardinalityType
<1> QED
  BY <1>1, <1>2, <1>3, <1>4

\* Of two mails one is ahead, and it has the lower rank.
LEMMA RanksDiffer ==
    ASSUME NEW D \in SUBSET Int, IsFiniteSet(D), NEW score \in [D -> Int],
           NEW i \in D, NEW j \in D, Before(score, i, j)
    PROVE  Cardinality(Ahead(score, i)) < Cardinality(Ahead(score, j))
<1>1. Ahead(score, i) \subseteq Ahead(score, j) \ {i}
  <2> SUFFICES ASSUME NEW k \in D, Before(score, k, i)
               PROVE  Before(score, k, j) /\ k # i
    BY DEF Ahead
  <2>1. score[k] \in Int /\ score[i] \in Int /\ score[j] \in Int
        /\ k \in Int /\ i \in Int /\ j \in Int
    OBVIOUS
  <2> QED
    BY <2>1 DEF Before
<1>2. i \in Ahead(score, j)
  BY DEF Ahead
<1>3. /\ IsFiniteSet(Ahead(score, j) \ {i})
      /\ Cardinality(Ahead(score, j) \ {i}) = Cardinality(Ahead(score, j)) - 1
  BY <1>2, AheadFinite, FS_RemoveElement
<1>4. Cardinality(Ahead(score, i)) <= Cardinality(Ahead(score, j) \ {i})
  BY <1>1, <1>3, FS_Subset
<1>5. Cardinality(Ahead(score, i)) \in Nat /\ Cardinality(Ahead(score, j)) \in Nat
  BY AheadFinite
<1> QED
  BY <1>3, <1>4, <1>5

\* Every rank is taken once: sorting gives a list without gaps or doubles.
LEMMA RanksAreAList ==
    ASSUME NEW D \in SUBSET Int, IsFiniteSet(D), NEW score \in [D -> Int]
    PROVE  [i \in D |-> Cardinality(Ahead(score, i))]
             \in Bijection(D, 0..(Cardinality(D) - 1))
<1> DEFINE N == Cardinality(D)
           rank == [i \in D |-> Cardinality(Ahead(score, i))]
<1>1. N \in Nat
  BY FS_CardinalityType
<1>2. rank \in [D -> 0..(N - 1)]
  BY <1>1, AheadFinite
<1>3. ASSUME NEW i \in D, NEW j \in D, rank[i] = rank[j] PROVE i = j
  <2> SUFFICES ASSUME i # j PROVE FALSE
    OBVIOUS
  <2>1. Before(score, i, j) \/ Before(score, j, i)
    <3>1. score[i] \in Int /\ score[j] \in Int /\ i \in Int /\ j \in Int
      OBVIOUS
    <3> QED
      BY <3>1 DEF Before
  <2>2. rank[i] \in Nat /\ rank[j] \in Nat
    BY <1>2
  <2>3. rank[i] < rank[j] \/ rank[j] < rank[i]
    BY <2>1, RanksDiffer
  <2> QED
    BY <1>3, <2>2, <2>3
<1>4. rank \in Injection(D, 0..(N - 1))
  BY <1>2, <1>3 DEF Injection, IsInjective
<1>5. IsFiniteSet(0..(N - 1)) /\ Cardinality(0..(N - 1)) = N
  <2>1. N - 1 \in Int /\ 0 \in Int
    BY <1>1
  <2>2. IsFiniteSet(0..(N - 1)) /\ Cardinality(0..(N - 1)) = IF 0 > N - 1 THEN 0 ELSE N - 1 - 0 + 1
    BY <2>1, FS_Interval
  <2> QED
    BY <1>1, <2>2
<1>6. rank \in Surjection(D, 0..(N - 1))
  BY <1>4, <1>5, FS_Injection
<1> QED
  BY <1>4, <1>6 DEF Bijection

\* The briefing gets n mails, or all of them when there are fewer: none is named twice
\* and no tie costs a place (briefing/ranker.py:155-162).
THEOREM TopIsFull ==
    ASSUME NEW D \in SUBSET Int, IsFiniteSet(D), NEW score \in [D -> Int], NEW n \in Nat
    PROVE  Cardinality(Top(score, n)) = IF n <= Cardinality(D) THEN n ELSE Cardinality(D)
<1> DEFINE N == Cardinality(D)
           m == IF n <= N THEN n ELSE N
           rank == [i \in D |-> Cardinality(Ahead(score, i))]
           first == [i \in 0..(m - 1) |-> CHOOSE j \in D : rank[j] = i]
<1>1. N \in Nat /\ m \in Nat /\ m <= N
  BY FS_CardinalityType
<1>2. rank \in Bijection(D, 0..(N - 1))
  BY RanksAreAList
<1>3. rank \in [D -> 0..(N - 1)]
  BY <1>2 DEF Bijection, Injection
<1>4. ASSUME NEW i \in D, NEW j \in D, rank[i] = rank[j] PROVE i = j
  BY <1>2, <1>4 DEF Bijection, Injection, IsInjective
<1>5. ASSUME NEW i \in 0..(N - 1) PROVE \E j \in D : rank[j] = i
  BY <1>2, <1>5 DEF Bijection, Surjection
<1>6. Top(score, n) = {j \in D : rank[j] < m}
  <2>1. Top(score, n) = {j \in D : rank[j] < n}
    BY DEF Top
  <2>2. \A j \in D : rank[j] \in Nat /\ rank[j] < N
    BY <1>1, <1>3
  <2>3. \A j \in D : rank[j] < n <=> rank[j] < m
    BY <1>1, <2>2
  <2> QED
    BY <2>1, <2>3
<1>7. ASSUME NEW i \in 0..(m - 1) PROVE first[i] \in D /\ rank[first[i]] = i
  <2>1. i \in 0..(N - 1)
    BY <1>1
  <2>2. \E j \in D : rank[j] = i
    BY <1>5, <2>1
  <2> HIDE DEF rank
  <2> QED
    BY <2>2
<1> HIDE DEF first, rank
<1>8. first \in [0..(m - 1) -> Top(score, n)]
  <2>1. \A i \in 0..(m - 1) : first[i] \in Top(score, n)
    BY <1>1, <1>6, <1>7
  <2> QED
    BY <2>1 DEF first
<1>9. first \in Bijection(0..(m - 1), Top(score, n))
  <2>1. \A i, k \in 0..(m - 1) : first[i] = first[k] => i = k
    BY <1>7
  <2>2. \A j \in Top(score, n) : \E i \in 0..(m - 1) : first[i] = j
    <3> SUFFICES ASSUME NEW j \in Top(score, n)
                 PROVE  rank[j] \in 0..(m - 1) /\ first[rank[j]] = j
      OBVIOUS
    <3>1. j \in D /\ rank[j] \in 0..(m - 1)
      <4>1. j \in D /\ rank[j] < m
        BY <1>6
      <4>2. rank[j] \in Nat
        BY <1>3, <4>1
      <4> QED
        BY <1>1, <4>1, <4>2
    <3>2. first[rank[j]] \in D /\ rank[first[rank[j]]] = rank[j]
      BY <1>7, <3>1
    <3> QED
      BY <1>4, <3>1, <3>2
  <2>3. first \in Injection(0..(m - 1), Top(score, n))
    BY <1>8, <2>1 DEF Injection, IsInjective
  <2>4. first \in Surjection(0..(m - 1), Top(score, n))
    BY <1>8, <2>2 DEF Surjection
  <2> QED
    BY <2>3, <2>4 DEF Bijection
<1>10. IsFiniteSet(0..(m - 1)) /\ Cardinality(0..(m - 1)) = m
  <2>1. m - 1 \in Int /\ 0 \in Int
    BY <1>1
  <2>2. IsFiniteSet(0..(m - 1)) /\ Cardinality(0..(m - 1)) = IF 0 > m - 1 THEN 0 ELSE m - 1 - 0 + 1
    BY <2>1, FS_Interval
  <2> QED
    BY <1>1, <2>2
<1>11. ExistsBijection(0..(m - 1), Top(score, n))
  BY <1>9 DEF ExistsBijection
<1> QED
  BY <1>10, <1>11, FS_Bijection

\* They are the best n: no mail that was left out scores higher than one that was taken
\* (briefing/ranker.py:156).
THEOREM TopIsBest ==
    ASSUME NEW D \in SUBSET Int, IsFiniteSet(D), NEW score \in [D -> Int], NEW n \in Nat,
           NEW i \in Top(score, n), NEW j \in D \ Top(score, n)
    PROVE  score[i] >= score[j]
<1>1. i \in D /\ score[i] \in Int /\ score[j] \in Int
  BY DEF Top
<1>2. Cardinality(Ahead(score, i)) < n /\ ~(Cardinality(Ahead(score, j)) < n)
  BY DEF Top
<1>3. Cardinality(Ahead(score, i)) \in Nat /\ Cardinality(Ahead(score, j)) \in Nat
  BY <1>1, AheadFinite
<1>4. ~Before(score, j, i)
  BY <1>1, <1>2, <1>3, RanksDiffer
<1> QED
  BY <1>1, <1>4 DEF Before

LEMMA ScoreType ==
    ASSUME NEW e, e.keywords \in Nat, e.hours \in Int PROVE Score(e) \in Int
<1>1. SenderWeight(e) \in Int /\ Recency(e) \in Int
  BY DEF SenderWeight, Recency
<1> QED
  BY <1>1 DEF Score

LEMMA FeatureTypes ==
    ASSUME NEW box, NEW fetched, NEW k, NEW vips, NEW user, NEW hour \in Int,
           box[k].keywords \in Nat, box[k].sent \in Int
    PROVE  /\ Features(box, fetched, k, vips, user, hour).keywords \in Nat
           /\ Features(box, fetched, k, vips, user, hour).hours \in Int
  BY SMT DEF Features

\* The same of rank_emails itself: of any finite batch of mails, whoever sent them and
\* whenever, it returns top_n, or the whole batch (briefing/ranker.py:122-162).
COROLLARY RankingIsFull ==
    ASSUME NEW fetched \in SUBSET Int, IsFiniteSet(fetched), NEW box, NEW vips, NEW user,
           NEW hour \in Int, NEW n \in Nat,
           \A k \in fetched : box[k].keywords \in Nat /\ box[k].sent \in Int
    PROVE  Cardinality(RankEmails(box, fetched, vips, user, hour, n))
             = IF n <= Cardinality(fetched) THEN n ELSE Cardinality(fetched)
<1> DEFINE Points(k) == Score(Features(box, fetched, k, vips, user, hour))
<1>1. ASSUME NEW k \in fetched PROVE Points(k) \in Int
  <2>1. box[k].keywords \in Nat /\ box[k].sent \in Int
    OBVIOUS
  <2>2. /\ Features(box, fetched, k, vips, user, hour).keywords \in Nat
        /\ Features(box, fetched, k, vips, user, hour).hours \in Int
    BY <2>1, FeatureTypes, Zenon
  <2> QED
    BY <2>2, ScoreType, Zenon
<1> HIDE DEF Points
<1>2. [k \in fetched |-> Points(k)] \in [fetched -> Int]
  BY <1>1
<1> QED
  BY <1>2, TopIsFull DEF RankEmails, Points
=============================================================================
