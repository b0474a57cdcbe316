----------------------------- MODULE Integrations -----------------------------
(***************************************************************************)
(* Connected accounts: the OAuth connects of the phone                     *)
(* (integrations/router.py) and of the command line                        *)
(* (integrations/<provider>/auth.py), the token rows they write, the job   *)
(* that refreshes expiring tokens (vault/refresh.py) and what reads the    *)
(* rows: the executors of actions, the adapters of a session, the phone.   *)
(*                                                                         *)
(* A grant is what a provider hands out when the user consents, and stands *)
(* for the row that holds it.  Its refresh token has versions, because a   *)
(* provider may rotate it.  An action is what the server does between two  *)
(* awaits, or what PostgreSQL does for one statement under READ COMMITTED: *)
(* a DELETE works on the rows it saw when it began, and waits for whoever  *)
(* is deleting one of them.                                                *)
(***************************************************************************)
EXTENDS Naturals, FiniteSets

CONSTANTS
    Users,
    CliUser,      \* user_id=1 of the commands
    Flows,        \* bound: connects begun by phones; each one is a state token
    Requests,     \* bound: callback requests at the server at once
    Grants,       \* bound: grants the providers hand out
    MaxVersion,   \* bound: rotations of one refresh token
    MaxProviders, \* bound: providers in use at once
    Nobody        \* not a user, a flow or a grant

ASSUME IntegrationsAssumption ==
    /\ CliUser \in Users /\ MaxVersion \in Nat /\ MaxProviders \in Nat
    /\ Nobody \notin Users \cup Flows \cup Grants
    /\ "cli" \notin Requests

VARIABLES
    flow,        \* who began it and for which provider
    states,      \* oauth_state:* in Redis
    verifiers,   \* oauth_cv:* in Redis
    codesUsed,   \* flows whose authorization code was exchanged (at the provider)
    tok,         \* what was granted: whose, by whom, and the version the row holds
    issued,      \* grants handed out
    live,        \* version of the refresh token the provider accepts
    stored,      \* grants with a row in integration_tokens
    expiring,    \* rows whose token_expiry is within the job's buffer
    pc,          \* where a callback request, or the command, is
    at,          \* the flow of a request; for the command, its provider
    verifier,    \* code_verifier found by the request
    grant,       \* what the exchange returned
    snap,        \* the rows its DELETE saw
    job,         \* the refresh job
    phone,       \* IntegrationState.connectedProviders of each user's phone
    lost,        \* history: grants whose rotated token never reached the database
    overlapped   \* history: accounts that two replacements wrote at once

redisVars == <<states, verifiers>>
grantVars == <<codesUsed, tok, issued, live>>
rowVars == <<stored, expiring>>
writerVars == <<pc, at, verifier, grant, snap>>
vars == <<flow, redisVars, grantVars, rowVars, writerVars, job, phone, lost, overlapped>>

Providers == {"google", "outlook", "slack"}
Writers == Requests \cup {"cli"}
NoFlow == [user |-> Nobody, provider |-> "none"]
Account == [user: Users, provider: Providers]
NoGrant == [account |-> NoFlow, version |-> 0, refreshable |-> FALSE]

\* The account a writer writes a row for.
Subject(w) == IF w = "cli" THEN [user |-> CliUser, provider |-> at[w]] ELSE flow[at[w]]
MAccountRows(a) ==  \* mutant: the WHERE names the provider only
    {g \in stored : tok[g].account.provider = a.provider}

AccountRows(a) == {g \in stored : tok[g].account = a}

IdleJob == [pc |-> "idle", sel |-> {}, failed |-> {}, answers |-> {}]

Init ==
    /\ flow = [f \in Flows |-> NoFlow] /\ states = {} /\ verifiers = {} /\ codesUsed = {}
    /\ tok = [g \in Grants |-> NoGrant] /\ issued = {} /\ live = [g \in Grants |-> 0]
    /\ stored = {} /\ expiring = {}
    /\ pc = [w \in Writers |-> "idle"] /\ at = [w \in Writers |-> Nobody]
    /\ verifier = [w \in Writers |-> FALSE] /\ grant = [w \in Writers |-> Nobody]
    /\ snap = [w \in Writers |-> {}]
    /\ job = IdleJob /\ phone = [u \in Users |-> {}] /\ lost = {} /\ overlapped = {}

\* The job's provider calls are synchronous: while they run, the event loop of the
\* server runs nothing else.
LoopFree == job.pc # "refreshing"

InUse(p) ==
    LET used == {flow[f].provider : f \in Flows} \cup {tok[g].account.provider : g \in Grants}
    IN Cardinality((used \cap Providers) \cup {p}) <= MaxProviders

Goto(w, where) == pc' = [pc EXCEPT ![w] = where]

Leave(w) ==
    /\ Goto(w, "idle")
    /\ at' = [at EXCEPT ![w] = Nobody] /\ verifier' = [verifier EXCEPT ![w] = FALSE]
    /\ grant' = [grant EXCEPT ![w] = Nobody] /\ snap' = [snap EXCEPT ![w] = {}]

(***************************************************************************)
(* GET /integrations/{provider}/connect                                    *)
(***************************************************************************)
Begin(f, u, p) ==
    /\ LoopFree /\ flow[f] = NoFlow /\ InUse(p)
    /\ flow' = [flow EXCEPT ![f] = [user |-> u, provider |-> p]]
    /\ states' = states \cup {f}
    /\ UNCHANGED <<grantVars, rowVars, writerVars, job, phone, lost, overlapped>>

\* The URL leaves the server only when both keys are in Redis.
GoogleConnect(f, u) == Begin(f, u, "google") /\ verifiers' = verifiers \cup {f}
MicrosoftConnect(f, u) == Begin(f, u, "outlook") /\ UNCHANGED verifiers
SlackConnect(f, u) == Begin(f, u, "slack") /\ UNCHANGED verifiers

\* A key of Redis reaches its 600 seconds; the state was set first.
Expire(f) ==
    /\ \/ f \in states /\ states' = states \ {f} /\ UNCHANGED verifiers
       \/ f \in verifiers \ states /\ verifiers' = verifiers \ {f} /\ UNCHANGED states
    /\ UNCHANGED <<flow, grantVars, rowVars, writerVars, job, phone, lost, overlapped>>

(***************************************************************************)
(* GET /integrations/{provider}/callback: the state                        *)
(***************************************************************************)
\* The browser follows the provider's redirect, or is told to reload it.  A state that is
\* not in Redis is answered 400.
GetState(r, f) ==
    /\ LoopFree /\ pc[r] = "idle" /\ f \in states
    /\ Goto(r, "del") /\ at' = [at EXCEPT ![r] = f]
    /\ UNCHANGED <<flow, redisVars, grantVars, rowVars, verifier, grant, snap,
                   job, phone, lost, overlapped>>

CallbackOf(r, p) == at[r] # Nobody /\ Subject(r).provider = p

DelState(r) ==
    /\ LoopFree /\ pc[r] = "del"
    /\ states' = states \ {at[r]}
    /\ Goto(r, IF Subject(r).provider = "google" THEN "getcv" ELSE "exchange")
    /\ UNCHANGED <<flow, verifiers, grantVars, rowVars, at, verifier, grant, snap,
                   job, phone, lost, overlapped>>

ConsumeState(r, p) ==
    \/ \E f \in Flows : flow[f].provider = p /\ GetState(r, f)
    \/ CallbackOf(r, p) /\ DelState(r)

\* GET and DELETE in one step: a second request that still read the verifier could do
\* nothing with it, the code is good once.
TakeVerifier(r) ==
    /\ LoopFree /\ pc[r] = "getcv" /\ Goto(r, "exchange")
    /\ verifier' = [verifier EXCEPT ![r] = at[r] \in verifiers]
    /\ verifiers' = verifiers \ {at[r]}
    /\ UNCHANGED <<flow, states, grantVars, rowVars, at, grant, snap, job, phone, lost,
                   overlapped>>

(***************************************************************************)
(* The code is exchanged: at the provider a code is good once, and a       *)
(* Google flow begun with a challenge needs its verifier.                  *)
(***************************************************************************)
Issue(w, account, refreshable) == \E g \in Grants \ issued :
    /\ issued' = issued \cup {g}
    /\ tok' = [tok EXCEPT ![g] = [account |-> account, version |-> 0,
                                  refreshable |-> refreshable]]
    /\ grant' = [grant EXCEPT ![w] = g]
    /\ UNCHANGED live

Exchange(r, p, refreshable) ==
    /\ LoopFree /\ pc[r] = "exchange" /\ Subject(r).provider = p
    /\ \/ /\ at[r] \notin codesUsed /\ (p = "google" => verifier[r])
          /\ codesUsed' = codesUsed \cup {at[r]}
          /\ Issue(r, Subject(r), refreshable) /\ Goto(r, "delete")
          /\ UNCHANGED <<at, verifier, snap>>
       \/ Leave(r) /\ UNCHANGED grantVars  \* refused, or the provider did not answer
    /\ UNCHANGED <<flow, redisVars, rowVars, job, phone, lost, overlapped>>

GoogleExchange(r) == \E refreshable \in BOOLEAN : Exchange(r, "google", refreshable)
MicrosoftExchange(r) == \E refreshable \in BOOLEAN : Exchange(r, "outlook", refreshable)
SlackExchange(r) == Exchange(r, "slack", FALSE)

(***************************************************************************)
(* DELETE the account's rows, INSERT the new one, COMMIT                   *)
(***************************************************************************)
Rivals(w) == {x \in Writers \ {w} : pc[x] \in {"lock", "insert"} /\ Subject(x) = Subject(w)}

\* Rows an open transaction has deleted; nobody sees that before its commit.
Locked(w) == IF pc[w] = "insert" THEN snap[w] \cap stored ELSE {}

BeginDelete(w) ==
    /\ pc[w] = "delete" /\ (w # "cli" => LoopFree)
    /\ snap' = [snap EXCEPT ![w] = AccountRows(Subject(w))]
    /\ overlapped' = IF Rivals(w) = {} THEN overlapped ELSE overlapped \cup Rivals(w) \cup {w}
    /\ Goto(w, "lock")
    /\ UNCHANGED <<flow, redisVars, grantVars, rowVars, at, verifier, grant, job, phone, lost>>

Lock(w) ==
    /\ pc[w] = "lock"
    /\ \A x \in Writers \ {w} : Locked(x) \cap snap[w] = {}
    /\ Goto(w, "insert")
    /\ UNCHANGED <<flow, redisVars, grantVars, rowVars, at, verifier, grant, snap,
                   job, phone, lost, overlapped>>

\* The row of a grant g is committed, those of the snapshot are gone with it.
MPut(w) ==  \* mutant: the rows deleted are those of provider "microsoft"
    /\ stored' = (stored \ {g \in snap[w] : tok[g].account.provider # "outlook"})
                 \cup {grant[w]}
    /\ expiring' = expiring \ (snap[w] \cup {grant[w]})

Put(w) ==
    /\ stored' = (stored \ snap[w]) \cup {grant[w]}
    /\ expiring' = expiring \ (snap[w] \cup {grant[w]})

Commit(w) ==
    /\ pc[w] = "insert" /\ (w # "cli" => LoopFree)
    /\ Put(w) /\ overlapped' = overlapped \ {w}
    /\ IF w = "cli" THEN Leave(w)
       ELSE Goto(w, "redirect") /\ UNCHANGED <<at, verifier, grant, snap>>
    /\ UNCHANGED <<flow, redisVars, grantVars, job, phone, lost>>

MRollback(w) ==  \* mutant: the error is swallowed, and the redirect sent
    /\ pc[w] \in {"delete", "lock", "insert"} /\ (w # "cli" => LoopFree)
    /\ IF w = "cli" THEN Leave(w)
       ELSE Goto(w, "redirect") /\ UNCHANGED <<at, verifier, grant, snap>>
    /\ overlapped' = overlapped \ {w}
    /\ UNCHANGED <<flow, redisVars, grantVars, rowVars, job, phone, lost>>

\* The database refuses, or the connection to it is gone.
Rollback(w) ==
    /\ pc[w] \in {"delete", "lock", "insert"} /\ (w # "cli" => LoopFree)
    /\ Leave(w) /\ overlapped' = overlapped \ {w}
    /\ UNCHANGED <<flow, redisVars, grantVars, rowVars, job, phone, lost>>

Replace(w) == BeginDelete(w) \/ Lock(w) \/ Commit(w) \/ Rollback(w)

\* daily://oauth/success reaches the phone, or is lost with the browser's tab.
Redirect(r) ==
    /\ pc[r] = "redirect" /\ Leave(r)
    /\ \/ phone' = [phone EXCEPT ![Subject(r).user] = @ \cup {Subject(r).provider}]
       \/ UNCHANGED phone
    /\ UNCHANGED <<flow, redisVars, grantVars, rowVars, job, lost, overlapped>>

GoogleCallback(r) ==
    \/ ConsumeState(r, "google")
    \/ /\ CallbackOf(r, "google")
       /\ TakeVerifier(r) \/ GoogleExchange(r) \/ Replace(r) \/ Redirect(r)
MicrosoftCallback(r) ==
    \/ ConsumeState(r, "outlook")
    \/ /\ CallbackOf(r, "outlook")
       /\ MicrosoftExchange(r) \/ Replace(r) \/ Redirect(r)
SlackCallback(r) ==
    \/ ConsumeState(r, "slack")
    \/ /\ CallbackOf(r, "slack")
       /\ SlackExchange(r) \/ Replace(r) \/ Redirect(r)

(***************************************************************************)
(* daily connect gmail | outlook | slack: a process of its own, with its   *)
(* own callback server                                                     *)
(***************************************************************************)
\* The callback came with a code the provider accepts.
CliConnect(p, refreshable, next) ==
    /\ pc["cli"] = "idle" /\ InUse(p)
    /\ Issue("cli", [user |-> CliUser, provider |-> p], refreshable)
    /\ Goto("cli", next) /\ at' = [at EXCEPT !["cli"] = p]
    /\ UNCHANGED <<flow, redisVars, codesUsed, rowVars, verifier, snap,
                   job, phone, lost, overlapped>>

RunGoogleFlow == \E refreshable \in BOOLEAN : CliConnect("google", refreshable, "delete")
RunMicrosoftFlow == \E refreshable \in BOOLEAN : CliConnect("outlook", refreshable, "append")
RunSlackFlow == CliConnect("slack", FALSE, "append")

\* A failed commit, ^C.  (300 seconds without a grant, or an error instead of one, change
\* nothing.)
CliGivesUp ==
    /\ pc["cli"] # "idle" /\ Leave("cli") /\ overlapped' = overlapped \ {"cli"}
    /\ UNCHANGED <<flow, redisVars, grantVars, rowVars, job, phone, lost>>

StoreGoogleTokens == at["cli"] = "google" /\ Replace("cli")

\* store_microsoft_tokens and store_slack_token insert and delete nothing.
AppendRow(p) ==
    /\ pc["cli"] = "append" /\ at["cli"] = p
    /\ stored' = stored \cup {grant["cli"]} /\ UNCHANGED expiring
    /\ overlapped' = overlapped \cup Rivals("cli")
    /\ Leave("cli")
    /\ UNCHANGED <<flow, redisVars, grantVars, job, phone, lost>>
StoreMicrosoftTokens == AppendRow("outlook")
StoreSlackToken == AppendRow("slack")

(***************************************************************************)
(* refresh_expiring_tokens                                                 *)
(***************************************************************************)
\* Slack's tokens, and grants that came without expires_in, have no expiry.
Age(g) ==
    /\ g \in stored \ expiring /\ tok[g].account.provider # "slack"
    /\ expiring' = expiring \cup {g}
    /\ UNCHANGED <<flow, redisVars, grantVars, stored, writerVars, job, phone, lost, overlapped>>

OutsideJob == UNCHANGED <<flow, redisVars, codesUsed, issued, writerVars, phone, overlapped>>

Select ==
    /\ job.pc = "idle" /\ expiring # {}
    /\ job' = [IdleJob EXCEPT !.pc = "selected", !.sel = expiring]
    /\ OutsideJob /\ UNCHANGED <<tok, live, rowVars, lost>>

Resume ==
    /\ job.pc = "selected" /\ job' = [job EXCEPT !.pc = "refreshing"]
    /\ OutsideJob /\ UNCHANGED <<tok, live, rowVars, lost>>

Answered == {a.grant : a \in job.answers}
MTodo == job.sel \ Answered  \* mutant: a refresh that failed is tried again

Todo == job.sel \ (Answered \cup job.failed)

\* What one call gives: an error before or at the provider, a rotation whose answer
\* got lost, or an answer with or without a new refresh token.
Accepted(g) == tok[g].refreshable /\ tok[g].version = live[g]
Rotate(g) == live[g] < MaxVersion /\ live' = [live EXCEPT ![g] = @ + 1]

RefreshFails(g) ==
    /\ job' = [job EXCEPT !.failed = @ \cup {g}]
    /\ \/ UNCHANGED <<live, lost>>
       \/ Accepted(g) /\ Rotate(g) /\ lost' = lost \cup {g}

MRefreshAnswered(g) ==  \* mutant: a rotated refresh token is not kept
    /\ Accepted(g) /\ UNCHANGED lost
    /\ job' = [job EXCEPT !.answers = @ \cup {[grant |-> g, version |-> tok[g].version]}]
    /\ UNCHANGED live \/ Rotate(g)

RefreshAnswered(g) ==
    /\ Accepted(g) /\ UNCHANGED lost
    /\ UNCHANGED live \/ Rotate(g)
    /\ job' = [job EXCEPT !.answers = @ \cup {[grant |-> g, version |-> live'[g]]}]

RefreshToken(g) ==
    /\ job.pc = "refreshing" /\ g \in Todo
    /\ RefreshFails(g) \/ RefreshAnswered(g)
    /\ OutsideJob /\ UNCHANGED <<tok, rowVars>>

Flush ==
    /\ job.pc = "refreshing" /\ Todo = {}
    /\ job' = [job EXCEPT !.pc = "committing"]
    /\ OutsideJob /\ UNCHANGED <<tok, live, rowVars, lost>>

\* A rotation that is in the memory of the job only.
InMemory == {a.grant : a \in {b \in job.answers : b.version # tok[b.grant].version}}

\* The UPDATEs wait for transactions that delete one of their rows.
Unlocked == \A w \in Writers : Locked(w) \cap Answered = {}

MSave == stored' = stored \cup Answered  \* mutant: the rows are merged, not updated

Save == UNCHANGED stored

JobCommits ==
    /\ job.pc = "committing" /\ Unlocked
    /\ Save /\ expiring' = expiring \ Answered
    /\ tok' = [g \in Grants |->
                 IF g \in Answered \cap stored
                 THEN [tok[g] EXCEPT !.version =
                         (CHOOSE a \in job.answers : a.grant = g).version]
                 ELSE tok[g]]
    /\ lost' = lost \cup (InMemory \ stored)
    /\ job' = IdleJob
    /\ OutsideJob /\ UNCHANGED live

\* One row is gone, replaced by a connect since the SELECT: an UPDATE that finds no row
\* raises, unless the driver sent it in a batch, whose count is not looked at.
JobRaises ==
    /\ job.pc = "committing" /\ Unlocked
    /\ ~ Answered \subseteq stored
    /\ lost' = lost \cup InMemory /\ job' = IdleJob
    /\ OutsideJob /\ UNCHANGED <<tok, live, rowVars>>

RefreshExpiringTokens ==
    \/ Select \/ Resume \/ Flush \/ JobCommits \/ JobRaises
    \/ \E g \in Grants : RefreshToken(g)

\* The server dies: Redis and the database keep what they have.
Crash ==
    /\ \/ job.pc # "idle"
       \/ \E r \in Requests : pc[r] # "idle"
    /\ pc' = [w \in Writers |-> IF w = "cli" THEN pc[w] ELSE "idle"]
    /\ at' = [w \in Writers |-> IF w = "cli" THEN at[w] ELSE Nobody]
    /\ verifier' = [w \in Writers |-> FALSE]
    /\ grant' = [w \in Writers |-> IF w = "cli" THEN grant[w] ELSE Nobody]
    /\ snap' = [w \in Writers |-> IF w = "cli" THEN snap[w] ELSE {}]
    /\ overlapped' = overlapped \cap {"cli"}
    /\ lost' = lost \cup InMemory /\ job' = IdleJob
    /\ UNCHANGED <<flow, redisVars, grantVars, rowVars, phone>>

Next ==
    \/ \E f \in Flows, u \in Users :
         GoogleConnect(f, u) \/ MicrosoftConnect(f, u) \/ SlackConnect(f, u)
    \/ \E f \in Flows : Expire(f)
    \/ \E r \in Requests : GoogleCallback(r) \/ MicrosoftCallback(r) \/ SlackCallback(r)
    \/ RunGoogleFlow \/ RunMicrosoftFlow \/ RunSlackFlow \/ CliGivesUp
    \/ StoreGoogleTokens \/ StoreMicrosoftTokens \/ StoreSlackToken
    \/ \E g \in Grants : Age(g)
    \/ RefreshExpiringTokens \/ Crash

Spec == Init /\ [][Next]_vars

(***************************************************************************)
(* Who reads the rows.  Each gives the grants it can work with: {} when it *)
(* raises or finds none.                                                   *)
(***************************************************************************)
Named(u, name) == {g \in stored : tok[g].account = [user |-> u, provider |-> name]}

\* scalar_one_or_none raises MultipleResultsFound on a second row.
OneOrNone(rows) == IF Cardinality(rows) = 1 THEN rows ELSE {}

\* The newest of the rows of one provider; "microsoft" is asked for first.
EmailExecutor(u) ==
    IF Named(u, "microsoft") # {} THEN Named(u, "microsoft") ELSE Named(u, "google")
SlackExecutor(u) == OneOrNone(Named(u, "slack"))
CalendarExecutor(u) == OneOrNone(Named(u, "google"))

SessionAdapters(u) == Named(u, "google") \cup Named(u, "microsoft")

IntegrationStatus(u) == {p \in Providers : Named(u, p) # {}}

\* The grants with which the rest of the program reaches an account.
Reached(a) ==
    CASE a.provider = "google" ->
           CalendarExecutor(a.user) \cap EmailExecutor(a.user) \cap SessionAdapters(a.user)
      [] a.provider = "slack" -> SlackExecutor(a.user)
      [] OTHER -> Named(a.user, a.provider)

(***************************************************************************)
(* Properties                                                              *)
(***************************************************************************)
Pcs == {"idle", "del", "getcv", "exchange", "delete", "lock", "insert",
        "redirect", "append"}

Answers == [grant: Grants, version: 0..MaxVersion]

\* The type of the state, and what a writer at each step has in hand.
TypeOK ==
    /\ flow \in [Flows -> Account \cup {NoFlow}]
    /\ states \subseteq Flows /\ verifiers \subseteq Flows /\ codesUsed \subseteq Flows
    /\ tok \in [Grants -> [account: Account \cup {NoFlow}, version: 0..MaxVersion,
                           refreshable: BOOLEAN]]
    /\ issued \subseteq Grants /\ live \in [Grants -> 0..MaxVersion]
    /\ stored \subseteq issued /\ expiring \subseteq stored
    /\ pc \in [Writers -> Pcs] /\ verifier \in [Writers -> BOOLEAN]
    /\ at \in [Writers -> Flows \cup Providers \cup {Nobody}]
    /\ grant \in [Writers -> Grants \cup {Nobody}] /\ snap \in [Writers -> SUBSET Grants]
    /\ job.pc \in {"idle", "selected", "refreshing", "committing"}
    /\ job.sel \subseteq issued /\ job.failed \subseteq job.sel
    /\ job.answers \subseteq Answers /\ Answered \subseteq job.sel \ job.failed
    /\ phone \in [Users -> SUBSET Providers]
    /\ lost \subseteq issued /\ overlapped \subseteq Writers

\* An account that is connected stays connected: reconnecting it, by the phone or the
\* command line, alone or against another reconnect, a crash, a rollback or the refresh
\* job, never leaves the user without a row (the transaction of each callback,
\* integrations/router.py:206-222).
NeverDisconnected == [][\A u \in Users : IntegrationStatus(u) \subseteq IntegrationStatus(u)']_vars

\* What the phone shows as connected is in the database: the redirect that tells the
\* phone comes after the commit, and no later step takes the row away.
PhoneShowsStored == \A u \in Users : phone[u] \subseteq IntegrationStatus(u)

\* A replacement that no other write to the same account overlapped leaves exactly its
\* own row, whatever rows there were before: the readers that want one row find it.
CommitsAlone(w) ==
    /\ pc[w] = "insert" /\ grant[w] \notin stored /\ grant[w] \in stored'
    /\ w \notin overlapped
ReplacementIsReached ==
    [][\A w \in Writers, a \in Account :
         CommitsAlone(w) /\ a = Subject(w) => Reached(a)' = {grant[w]}]_vars

\* The refresh token in a row is the one its provider accepts, unless a rotation is in
\* the memory of the running job or was lost: with its answer, with a crash before the
\* one commit of the batch (vault/refresh.py:130), or with the row.
StoredTokenIsLive == \A g \in stored :
    tok[g].refreshable => tok[g].version = live[g] \/ g \in InMemory \cup lost

\* The refresh job never brings back a row that a reconnect replaced: rows are added by
\* connects only.
OnlyConnectsAddRows ==
    [][\A g \in stored' \ stored : \E w \in Writers :
         grant[w] = g /\ pc[w] \in {"insert", "append"}]_vars
=============================================================================
