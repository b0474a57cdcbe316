------------------------- MODULE IntegrationsProofs -------------------------
(***************************************************************************)
(* Proofs about Integrations, for any number of users, connects, requests, *)
(* grants and rotations.                                                   *)
(***************************************************************************)
EXTENDS Integrations, FiniteSetTheorems, TLAPS

(***************************************************************************)
(* The inductive invariant                                                 *)
(***************************************************************************)
Holding == {"delete", "lock", "insert", "append"}
Writing == {"lock", "insert"}

FlowTypes ==
    /\ flow \in [Flows -> Account \cup {NoFlow}]
    /\ states \subseteq Flows /\ verifiers \subseteq Flows /\ codesUsed \subseteq Flows
    /\ \A f \in states : flow[f] \in Account

GrantTypes ==
    /\ tok \in [Grants -> [account: Account \cup {NoFlow}, version: 0..MaxVersion,
                           refreshable: BOOLEAN]]
    /\ issued \subseteq Grants /\ live \in [Grants -> 0..MaxVersion]
    /\ \A g \in issued : tok[g].account \in Account
    /\ \A g \in Grants \ issued : live[g] = 0

RowTypes == stored \subseteq issued /\ expiring \subseteq stored

WriterTypes ==
    /\ pc \in [Writers -> Pcs] /\ verifier \in [Writers -> BOOLEAN]
    /\ at \in [Writers -> Flows \cup Providers \cup {Nobody}]
    /\ grant \in [Writers -> Grants \cup {Nobody}] /\ snap \in [Writers -> SUBSET Grants]
    /\ overlapped \subseteq Writers

\* A refresh token whose answer the job holds is the one the provider accepts.
JobTypes ==
    /\ job \in [pc: {"idle", "selected", "refreshing", "committing"}, sel: SUBSET issued,
                failed: SUBSET issued, answers: SUBSET Answers]
    /\ job.failed \subseteq job.sel /\ Answered \subseteq job.sel \ job.failed
    /\ job.pc \in {"idle", "selected"} => job.answers = {}
    /\ \A a \in job.answers : a.version = live[a.grant]
    /\ lost \subseteq issued

PhoneTypes == phone \in [Users -> SUBSET Providers]

\* What a writer has in hand: a grant of the account it writes, rows of that account to
\* delete, and, when it sends its redirect, a row that is committed.
InHand(w) ==
    /\ w # "cli" => pc[w] # "append" /\ (pc[w] # "idle" => at[w] \in Flows /\ flow[at[w]] \in Account)
    /\ w = "cli" => pc[w] \in Holding \cup {"idle"} /\ (pc[w] # "idle" => at[w] \in Providers)
    /\ pc[w] \in Holding => grant[w] \in issued /\ tok[grant[w]].account = Subject(w)
    /\ pc[w] \in Writing => snap[w] \subseteq issued
                            /\ \A g \in snap[w] : tok[g].account = Subject(w)
    /\ pc[w] = "redirect" => \E g \in stored : tok[g].account = Subject(w)

OwnGrants == \A w, x \in Writers :
    w # x /\ pc[w] \in Holding /\ pc[x] \in Holding => grant[w] # grant[x]

\* Two replacements of one account under way at once are both known to overlap.
OverlapSeen == \A w, x \in Writers :
    w # x /\ pc[w] \in Writing /\ pc[x] \in Writing /\ Subject(w) = Subject(x)
        => w \in overlapped

\* One that overlaps with nothing deletes every row there is.
AloneSeesAll == \A w \in Writers :
    pc[w] \in Writing /\ w \notin overlapped => AccountRows(Subject(w)) \subseteq snap[w]

\* Every grant, with a row or on its way to one, has the refresh token its provider
\* accepts, or the job holds that token, or it is lost.
TokenIsLive == \A g \in issued :
    tok[g].refreshable => tok[g].version = live[g] \/ g \in InMemory \cup lost

IInv ==
    /\ FlowTypes /\ GrantTypes /\ RowTypes /\ WriterTypes /\ JobTypes /\ PhoneTypes
    /\ \A w \in Writers : InHand(w)
    /\ OwnGrants /\ OverlapSeen /\ AloneSeesAll
    /\ PhoneShowsStored /\ TokenIsLive

LEMMA InvariantImplies == IInv => TypeOK /\ PhoneShowsStored /\ StoredTokenIsLive
<1> SUFFICES ASSUME IInv PROVE TypeOK /\ PhoneShowsStored /\ StoredTokenIsLive
  OBVIOUS
<1>1. TypeOK
  BY DEF IInv, TypeOK, FlowTypes, GrantTypes, RowTypes, WriterTypes, JobTypes, PhoneTypes
<1>2. PhoneShowsStored /\ StoredTokenIsLive
  BY DEF IInv, TokenIsLive, StoredTokenIsLive, RowTypes
<1>3. QED
  BY <1>1, <1>2

LEMMA NamesApart ==
    /\ NoFlow \notin Account /\ "cli" \in Writers /\ Requests \subseteq Writers
    /\ \A r \in Requests : r # "cli"
  BY IntegrationsAssumption DEF NoFlow, Account, Providers, Writers

LEMMA InitInvariant == Init => IInv
<1> SUFFICES ASSUME Init PROVE IInv
  OBVIOUS
<1>1. 0 \in 0..MaxVersion /\ NoGrant \in [account: Account \cup {NoFlow},
                                          version: 0..MaxVersion, refreshable: BOOLEAN]
  BY IntegrationsAssumption DEF NoGrant
<1>2. FlowTypes /\ RowTypes /\ PhoneTypes /\ PhoneShowsStored
  BY DEF Init, FlowTypes, RowTypes, PhoneTypes, PhoneShowsStored
<1>3. GrantTypes
  BY <1>1 DEF Init, GrantTypes
<1>4. WriterTypes
  BY DEF Init, WriterTypes, Pcs
<1>5. JobTypes
  BY DEF Init, JobTypes, IdleJob, Answered
<1>6. \A w \in Writers : InHand(w)
  BY DEF Init, InHand, Holding, Writing
<1>7. OwnGrants /\ OverlapSeen /\ AloneSeesAll /\ TokenIsLive
  BY DEF Init, OwnGrants, OverlapSeen, AloneSeesAll, TokenIsLive, Holding, Writing
<1>8. QED
  BY <1>2, <1>3, <1>4, <1>5, <1>6, <1>7 DEF IInv

(***************************************************************************)
(* What a step leaves alone                                                *)
(***************************************************************************)
\* A connect that has begun keeps its account, a grant too, and no account loses its
\* last row.
KeepsFlows == \A f \in Flows : flow[f] \in Account => flow'[f] = flow[f]
KeepsGrants == issued \subseteq issued' /\ \A g \in issued : tok'[g].account = tok[g].account
KeepsConnected == \A g \in stored : \E h \in stored' : tok'[h].account = tok[g].account
KeepsWriter(w) == pc'[w] = pc[w] /\ at'[w] = at[w] /\ grant'[w] = grant[w] /\ snap'[w] = snap[w]

LEMMA KeptWriter ==
    ASSUME IInv, NEW w \in Writers, KeepsFlows, KeepsGrants, KeepsConnected, KeepsWriter(w)
    PROVE  InHand(w)' /\ (pc[w] # "idle" => Subject(w)' = Subject(w))
<1>1. InHand(w) /\ RowTypes
  BY DEF IInv
<1>2. pc[w] # "idle" => Subject(w)' = Subject(w)
  BY <1>1 DEF InHand, Subject, KeepsFlows, KeepsWriter
<1>3. pc[w] \in Holding \cup Writing \cup {"redirect"} => pc[w] # "idle"
  BY DEF Holding, Writing
<1>4. (w # "cli" => pc[w] # "append" /\ (pc[w] # "idle" => at[w] \in Flows /\ flow[at[w]] \in Account))'
  BY <1>1 DEF InHand, KeepsFlows, KeepsWriter
<1>5. (w = "cli" => pc[w] \in Holding \cup {"idle"} /\ (pc[w] # "idle" => at[w] \in Providers))'
  BY <1>1 DEF InHand, KeepsWriter
<1>6. (pc[w] \in Holding => grant[w] \in issued /\ tok[grant[w]].account = Subject(w))'
  BY <1>1, <1>2, <1>3 DEF InHand, KeepsGrants, KeepsWriter
<1>7. (pc[w] \in Writing => snap[w] \subseteq issued /\ \A g \in snap[w] : tok[g].account = Subject(w))'
  BY <1>1, <1>2, <1>3 DEF InHand, KeepsGrants, KeepsWriter
<1>8. (pc[w] = "redirect" => \E g \in stored : tok[g].account = Subject(w))'
  BY <1>1, <1>2, <1>3 DEF InHand, KeepsConnected, KeepsWriter
<1>9. QED
  BY <1>2, <1>4, <1>5, <1>6, <1>7, <1>8 DEF InHand

LEMMA KeptPhone ==
    ASSUME IInv, KeepsConnected, UNCHANGED phone
    PROVE  PhoneShowsStored'
  BY DEF IInv, PhoneShowsStored, IntegrationStatus, Named, KeepsConnected, PhoneTypes

\* Steps in which no writer takes part and no row comes or goes.
LEMMA WritersKept ==
    ASSUME IInv, KeepsFlows, KeepsGrants, UNCHANGED <<stored, writerVars, overlapped, phone>>
    PROVE  /\ \A w \in Writers : InHand(w)'
           /\ WriterTypes' /\ PhoneTypes'
           /\ OwnGrants' /\ OverlapSeen' /\ AloneSeesAll'
           /\ PhoneShowsStored'
<1>1. KeepsConnected
  BY DEF IInv, RowTypes, KeepsConnected, KeepsGrants
<1>2. \A w \in Writers : InHand(w)' /\ (pc[w] # "idle" => Subject(w)' = Subject(w))
  BY <1>1, KeptWriter DEF writerVars, KeepsWriter
<1>3. WriterTypes' /\ PhoneTypes' /\ OwnGrants'
  BY DEF IInv, WriterTypes, PhoneTypes, OwnGrants, writerVars
<1>4. OverlapSeen'
  BY <1>2 DEF IInv, OverlapSeen, writerVars, Writing
<1>5. AloneSeesAll'
  BY <1>2 DEF IInv, AloneSeesAll, AccountRows, RowTypes, KeepsGrants, writerVars, Writing
<1>6. QED
  BY <1>1, <1>2, <1>3, <1>4, <1>5, KeptPhone

\* Steps that touch neither grants nor the job.
LEMMA GrantsKept ==
    ASSUME IInv, UNCHANGED <<tok, issued, live, job, lost>>
    PROVE  GrantTypes' /\ JobTypes' /\ TokenIsLive' /\ KeepsGrants
  BY DEF IInv, GrantTypes, JobTypes, Answered, TokenIsLive, InMemory, KeepsGrants

(***************************************************************************)
(* The connect endpoints, Redis and the clock                              *)
(***************************************************************************)
LEMMA BeginInvariant ==
    ASSUME IInv, NEW f \in Flows, NEW u \in Users,
           GoogleConnect(f, u) \/ MicrosoftConnect(f, u) \/ SlackConnect(f, u)
    PROVE  IInv'
<1>1. PICK p \in Providers : Begin(f, u, p) /\ verifiers' \in {verifiers, verifiers \cup {f}}
  BY DEF GoogleConnect, MicrosoftConnect, SlackConnect, Providers
<1>2. [user |-> u, provider |-> p] \in Account /\ flow[f] \notin Account
  BY <1>1, NamesApart DEF Account, Begin
<1>3. FlowTypes' /\ KeepsFlows
  BY <1>1, <1>2 DEF IInv, FlowTypes, Begin, KeepsFlows, grantVars
<1>4. GrantTypes' /\ JobTypes' /\ TokenIsLive' /\ KeepsGrants
  BY <1>1, GrantsKept DEF Begin, grantVars
<1>5. RowTypes' /\ UNCHANGED <<stored, writerVars, overlapped, phone>>
  BY <1>1 DEF IInv, RowTypes, Begin, rowVars, grantVars
<1>6. QED
  BY <1>3, <1>4, <1>5, WritersKept DEF IInv

LEMMA ClockInvariant ==
    ASSUME IInv, (\E f \in Flows : Expire(f)) \/ (\E g \in Grants : Age(g))
    PROVE  IInv'
<1>1. FlowTypes' /\ KeepsFlows
  BY DEF IInv, FlowTypes, Expire, Age, KeepsFlows, grantVars, redisVars
<1>2. GrantTypes' /\ JobTypes' /\ TokenIsLive' /\ KeepsGrants
  BY GrantsKept DEF Expire, Age, grantVars
<1>3. RowTypes' /\ UNCHANGED <<stored, writerVars, overlapped, phone>>
  BY DEF IInv, RowTypes, Expire, Age, rowVars, grantVars
<1>4. QED
  BY <1>1, <1>2, <1>3, WritersKept DEF IInv

(***************************************************************************)
(* The steps of one callback request, or of the command                    *)
(***************************************************************************)
OthersKept(w) == \A x \in Writers \ {w} : KeepsWriter(x)

LEMMA OneWriter ==
    ASSUME IInv, NEW w \in Writers, OthersKept(w), InHand(w)',
           KeepsFlows, KeepsGrants, KeepsConnected
    PROVE  /\ \A x \in Writers : InHand(x)'
           /\ \A x \in Writers \ {w} : pc[x] # "idle" => Subject(x)' = Subject(x)
<1>1. \A x \in Writers \ {w} : InHand(x)' /\ (pc[x] # "idle" => Subject(x)' = Subject(x))
  BY KeptWriter DEF OthersKept
<1>2. QED
  BY <1>1

\* A step with which a writer holds no grant (any more), and nothing is written.
LEMMA StepsAside ==
    ASSUME IInv, NEW w \in Writers, OthersKept(w), InHand(w)', pc'[w] \notin Holding,
           UNCHANGED <<flow, tok, issued, stored>>, overlapped \ {w} \subseteq overlapped'
    PROVE  /\ \A x \in Writers : InHand(x)'
           /\ OwnGrants' /\ OverlapSeen' /\ AloneSeesAll'
<1>1. KeepsFlows /\ KeepsGrants /\ KeepsConnected
  BY DEF KeepsFlows, KeepsGrants, KeepsConnected
<1>2. /\ \A x \in Writers : InHand(x)'
      /\ \A x \in Writers \ {w} : pc[x] # "idle" => Subject(x)' = Subject(x)
  BY <1>1, OneWriter
<1>3. OwnGrants'
  BY DEF IInv, OwnGrants, OthersKept, KeepsWriter
<1>4. OverlapSeen'
  BY <1>2 DEF IInv, OverlapSeen, OthersKept, KeepsWriter, Writing, Holding
<1>5. AloneSeesAll'
  BY <1>2 DEF IInv, AloneSeesAll, AccountRows, OthersKept, KeepsWriter, Writing, Holding
<1>6. QED
  BY <1>2, <1>3, <1>4, <1>5

\* Leave(w) in a step that writes nothing.
LEMMA LeavesAside ==
    ASSUME IInv, NEW w \in Writers, Leave(w), UNCHANGED <<flow, tok, issued, stored>>,
           overlapped' \in {overlapped, overlapped \ {w}}
    PROVE  /\ WriterTypes' /\ \A x \in Writers : InHand(x)'
           /\ OwnGrants' /\ OverlapSeen' /\ AloneSeesAll'
<1>1. WriterTypes'
  BY DEF IInv, WriterTypes, Leave, Goto, Pcs
<1>2. OthersKept(w) /\ pc'[w] = "idle"
  BY DEF IInv, WriterTypes, Leave, Goto, OthersKept, KeepsWriter
<1>3. InHand(w)' /\ pc'[w] \notin Holding
  BY <1>2 DEF InHand, Holding, Writing
<1>4. QED
  BY <1>1, <1>2, <1>3, StepsAside

LEMMA StateInvariant ==
    ASSUME IInv, NEW r \in Requests,
           (\E f \in Flows : GetState(r, f)) \/ DelState(r) \/ TakeVerifier(r)
    PROVE  IInv'
<1>1. r \in Writers /\ r # "cli"
  BY NamesApart
<1>2. FlowTypes'
  BY DEF IInv, FlowTypes, GetState, DelState, TakeVerifier, redisVars, grantVars
<1>3. GrantTypes' /\ JobTypes' /\ TokenIsLive'
  BY GrantsKept DEF GetState, DelState, TakeVerifier, grantVars
<1>4. RowTypes' /\ PhoneTypes' /\ PhoneShowsStored'
  BY DEF IInv, RowTypes, PhoneTypes, PhoneShowsStored, IntegrationStatus, Named,
         GetState, DelState, TakeVerifier, grantVars, rowVars
<1>5. WriterTypes' /\ OthersKept(r) /\ pc'[r] \in {"del", "getcv", "exchange"}
      /\ at'[r] \in Flows /\ flow'[at'[r]] \in Account
  <2>1. CASE \E f \in Flows : GetState(r, f)
    BY <1>1, <2>1 DEF IInv, FlowTypes, WriterTypes, GetState, Goto, Pcs, OthersKept, KeepsWriter
  <2>2. CASE DelState(r)
    BY <1>1, <2>2 DEF IInv, InHand, WriterTypes, DelState, Goto, Pcs, OthersKept, KeepsWriter
  <2>3. CASE TakeVerifier(r)
    BY <1>1, <2>3 DEF IInv, InHand, WriterTypes, TakeVerifier, Goto, Pcs, OthersKept, KeepsWriter
  <2>4. QED
    BY <2>1, <2>2, <2>3
<1>6. InHand(r)' /\ pc'[r] \notin Holding
  BY <1>1, <1>5 DEF InHand, Holding, Writing
<1>7. UNCHANGED <<flow, tok, issued, stored, overlapped>>
  BY DEF GetState, DelState, TakeVerifier, grantVars, rowVars
<1>8. QED
  BY <1>1, <1>2, <1>3, <1>4, <1>5, <1>6, <1>7, StepsAside DEF IInv

\* A grant is new: no writer has it, the job does not know it, and no row holds it.
LEMMA IssueInvariant ==
    ASSUME IInv, NEW w \in Writers, NEW a \in Account, NEW b \in BOOLEAN, Issue(w, a, b),
           Goto(w, IF w = "cli" /\ a.provider # "google" THEN "append" ELSE "delete"),
           OthersKept(w), at'[w] = (IF w = "cli" THEN a.provider ELSE at[w]),
           w # "cli" => at[w] \in Flows /\ flow[at[w]] = a,
           w = "cli" => a.user = CliUser,
           at' \in [Writers -> Flows \cup Providers \cup {Nobody}],
           UNCHANGED <<flow, verifier, snap, stored, expiring, job, phone, lost, overlapped>>
    PROVE  /\ GrantTypes' /\ RowTypes' /\ WriterTypes' /\ JobTypes' /\ PhoneTypes'
           /\ \A x \in Writers : InHand(x)'
           /\ OwnGrants' /\ OverlapSeen' /\ AloneSeesAll' /\ PhoneShowsStored' /\ TokenIsLive'
<1>1. PICK g \in Grants \ issued :
        /\ issued' = issued \cup {g} /\ live' = live
        /\ tok' = [tok EXCEPT ![g] = [account |-> a, version |-> 0, refreshable |-> b]]
        /\ grant' = [grant EXCEPT ![w] = g]
  BY DEF Issue
<1>2. 0 \in 0..MaxVersion
  BY IntegrationsAssumption
<1>3. GrantTypes' /\ KeepsGrants
  BY <1>1, <1>2 DEF IInv, GrantTypes, KeepsGrants
<1>4. RowTypes' /\ PhoneTypes' /\ KeepsFlows /\ KeepsConnected
  BY <1>1, <1>3 DEF IInv, RowTypes, PhoneTypes, KeepsFlows, KeepsConnected, KeepsGrants
<1>5. WriterTypes' /\ pc'[w] \in Holding \ Writing /\ grant'[w] = g /\ tok'[g].account = a
  BY <1>1 DEF IInv, WriterTypes, GrantTypes, Goto, Pcs, Holding, Writing
<1>6. InHand(w)'
  <2>1. Subject(w)' = a
    BY DEF Subject, Account
  <2>2. CASE w = "cli"
    BY <1>1, <1>5, <2>1, <2>2 DEF InHand, Holding, Writing, Account
  <2>3. CASE w # "cli"
    BY <1>1, <1>5, <2>1, <2>3 DEF InHand, Holding, Writing, Goto, IInv, WriterTypes
  <2>4. QED
    BY <2>2, <2>3
<1>7. /\ \A x \in Writers : InHand(x)'
      /\ \A x \in Writers \ {w} : pc[x] # "idle" => Subject(x)' = Subject(x)
  BY <1>3, <1>4, <1>6, OneWriter
<1>8. OwnGrants'
  BY <1>1, <1>5 DEF IInv, InHand, OwnGrants, OthersKept, KeepsWriter
<1>9. OverlapSeen'
  BY <1>5, <1>7 DEF IInv, OverlapSeen, OthersKept, KeepsWriter, Writing
<1>10. AloneSeesAll'
  BY <1>3, <1>5, <1>7 DEF IInv, AloneSeesAll, AccountRows, RowTypes, KeepsGrants,
                          OthersKept, KeepsWriter, Writing
<1>11. JobTypes' /\ TokenIsLive'
  <2>1. \A c \in job.answers : c.grant \in issued /\ c.grant # g
    BY <1>1 DEF IInv, JobTypes, Answered
  <2>2. InMemory' = InMemory
    BY <1>1, <2>1 DEF InMemory, IInv, GrantTypes
  <2>3. live[g] = 0 /\ tok'[g].version = 0
    BY <1>1 DEF IInv, GrantTypes
  <2>4. TokenIsLive'
    BY <1>1, <2>2, <2>3 DEF IInv, TokenIsLive, GrantTypes
  <2>5. JobTypes'
    BY <1>1 DEF IInv, JobTypes, Answered
  <2>6. QED
    BY <2>4, <2>5
<1>12. QED
  BY <1>3, <1>4, <1>5, <1>7, <1>8, <1>9, <1>10, <1>11, KeptPhone

LEMMA ExchangeInvariant ==
    ASSUME IInv, NEW r \in Requests, NEW p \in Providers, NEW b \in BOOLEAN, Exchange(r, p, b)
    PROVE  IInv'
<1>1. r \in Writers /\ r # "cli" /\ at[r] \in Flows /\ flow[at[r]] \in Account
  BY NamesApart DEF IInv, InHand, Exchange
<1>2. CASE Leave(r) /\ UNCHANGED grantVars
  <2>1. UNCHANGED <<flow, states, verifiers, codesUsed, tok, issued, live, stored, expiring,
                    job, phone, lost, overlapped>>
    BY <1>2 DEF Exchange, grantVars, redisVars, rowVars
  <2>2. FlowTypes' /\ RowTypes' /\ PhoneTypes' /\ PhoneShowsStored'
    BY <2>1 DEF IInv, FlowTypes, RowTypes, PhoneTypes, PhoneShowsStored, IntegrationStatus, Named
  <2>3. QED
    BY <1>1, <1>2, <2>1, <2>2, LeavesAside, GrantsKept DEF IInv
<1>3. CASE ~(Leave(r) /\ UNCHANGED grantVars)
  <2>1. /\ codesUsed' = codesUsed \cup {at[r]} /\ Goto(r, "delete")
        /\ Issue(r, Subject(r), b)
        /\ UNCHANGED <<flow, states, verifiers, at, verifier, snap, stored, expiring,
                       job, phone, lost, overlapped>>
    BY <1>3 DEF Exchange, redisVars, rowVars
  <2>2. FlowTypes'
    BY <1>1, <2>1 DEF IInv, FlowTypes
  <2>3. Subject(r) = flow[at[r]] /\ OthersKept(r)
    BY <1>1, <2>1 DEF Subject, OthersKept, KeepsWriter, Goto, Issue, IInv, WriterTypes
  <2>4. at' \in [Writers -> Flows \cup Providers \cup {Nobody}]
    BY <2>1 DEF IInv, WriterTypes
  <2>5. Goto(r, IF r = "cli" /\ Subject(r).provider # "google" THEN "append" ELSE "delete")
    BY <1>1, <2>1
  <2>6. QED
    BY <1>1, <2>1, <2>2, <2>3, <2>4, <2>5, IssueInvariant DEF IInv
<1>4. QED
  BY <1>2, <1>3

LEMMA CliConnectInvariant ==
    ASSUME IInv, RunGoogleFlow \/ RunMicrosoftFlow \/ RunSlackFlow PROVE IInv'
<1>1. PICK p \in Providers, b \in BOOLEAN :
        CliConnect(p, b, IF p # "google" THEN "append" ELSE "delete")
  BY DEF RunGoogleFlow, RunMicrosoftFlow, RunSlackFlow, Providers
<1> DEFINE a == [user |-> CliUser, provider |-> p]
<1>2. a \in Account /\ a.provider = p /\ a.user = CliUser
  BY IntegrationsAssumption DEF Account
<1>3. FlowTypes'
  BY <1>1 DEF IInv, FlowTypes, CliConnect, redisVars
<1>4. Issue("cli", a, b) /\ Goto("cli", IF "cli" = "cli" /\ a.provider # "google" THEN "append" ELSE "delete")
      /\ at'["cli"] = p /\ at' \in [Writers -> Flows \cup Providers \cup {Nobody}]
  BY <1>1, NamesApart DEF CliConnect, IInv, WriterTypes
<1>5. OthersKept("cli") /\ UNCHANGED <<flow, verifier, snap, stored, expiring, job, phone, lost, overlapped>>
  BY <1>1, NamesApart DEF CliConnect, Issue, OthersKept, KeepsWriter, IInv, WriterTypes, Goto, rowVars
<1>6. QED
  BY <1>2, <1>3, <1>4, <1>5, NamesApart, IssueInvariant DEF IInv

(***************************************************************************)
(* DELETE, INSERT, COMMIT                                                  *)
(***************************************************************************)
LEMMA BeginDeleteInvariant ==
    ASSUME IInv, NEW w \in Writers, BeginDelete(w) PROVE IInv'
<1>1. UNCHANGED <<flow, states, verifiers, codesUsed, tok, issued, live, stored, expiring,
                  at, grant, job, phone, lost>>
  BY DEF BeginDelete, redisVars, grantVars, rowVars
<1>2. FlowTypes' /\ RowTypes' /\ PhoneTypes' /\ PhoneShowsStored'
  BY <1>1 DEF IInv, FlowTypes, RowTypes, PhoneTypes, PhoneShowsStored, IntegrationStatus, Named
<1>3. GrantTypes' /\ JobTypes' /\ TokenIsLive'
  BY <1>1, GrantsKept
<1>4. AccountRows(Subject(w)) \subseteq issued /\ Rivals(w) \subseteq Writers
  BY DEF IInv, RowTypes, AccountRows, Rivals
<1>5. WriterTypes' /\ pc[w] = "delete" /\ pc'[w] = "lock" /\ snap'[w] = AccountRows(Subject(w))
      /\ OthersKept(w)
  BY <1>1, <1>4 DEF IInv, WriterTypes, GrantTypes, BeginDelete, Goto, Pcs, OthersKept, KeepsWriter
<1>6. Subject(w)' = Subject(w)
  BY <1>1 DEF Subject
<1>7. InHand(w)'
  BY <1>1, <1>4, <1>5, <1>6 DEF IInv, InHand, Holding, Writing, AccountRows
<1>8. /\ \A x \in Writers : InHand(x)'
      /\ \A x \in Writers \ {w} : pc[x] # "idle" => Subject(x)' = Subject(x)
  BY <1>1, <1>5, <1>7, OneWriter DEF KeepsFlows, KeepsGrants, KeepsConnected
<1>9. OwnGrants'
  BY <1>1, <1>5 DEF IInv, OwnGrants, OthersKept, KeepsWriter, Holding
<1>10. overlapped \subseteq overlapped' /\ (Rivals(w) # {} => Rivals(w) \cup {w} \subseteq overlapped')
  BY DEF BeginDelete
<1>11. OverlapSeen'
  <2> SUFFICES ASSUME NEW x \in Writers, NEW y \in Writers, x # y, pc'[x] \in Writing,
                      pc'[y] \in Writing, Subject(x)' = Subject(y)'
               PROVE  x \in overlapped'
    BY DEF OverlapSeen
  <2>1. CASE x = w
    <3>1. pc[y] = pc'[y] /\ pc[y] \in {"lock", "insert"}
      BY <1>5, <2>1 DEF OthersKept, KeepsWriter, Writing
    <3>2. Subject(y) = Subject(w)
      BY <1>6, <1>8, <2>1, <3>1
    <3>3. QED
      BY <1>10, <2>1, <3>1, <3>2 DEF Rivals
  <2>2. CASE y = w
    <3>1. pc[x] = pc'[x] /\ pc[x] \in {"lock", "insert"}
      BY <1>5, <2>2 DEF OthersKept, KeepsWriter, Writing
    <3>2. Subject(x) = Subject(w)
      BY <1>6, <1>8, <2>2, <3>1
    <3>3. QED
      BY <1>10, <2>2, <3>1, <3>2 DEF Rivals
  <2>3. CASE x # w /\ y # w
    BY <1>5, <1>8, <1>10, <2>3 DEF IInv, OverlapSeen, OthersKept, KeepsWriter, Writing
  <2>4. QED
    BY <2>1, <2>2, <2>3
<1>12. AloneSeesAll'
  BY <1>1, <1>5, <1>6, <1>8, <1>10 DEF IInv, AloneSeesAll, AccountRows, OthersKept, KeepsWriter, Writing
<1>13. QED
  BY <1>2, <1>3, <1>5, <1>8, <1>9, <1>11, <1>12 DEF IInv

LEMMA LockInvariant ==
    ASSUME IInv, NEW w \in Writers, Lock(w) PROVE IInv'
<1>1. UNCHANGED <<flow, states, verifiers, codesUsed, tok, issued, live, stored, expiring,
                  at, verifier, grant, snap, job, phone, lost, overlapped>>
  BY DEF Lock, redisVars, grantVars, rowVars
<1>2. FlowTypes' /\ RowTypes' /\ PhoneTypes' /\ PhoneShowsStored'
  BY <1>1 DEF IInv, FlowTypes, RowTypes, PhoneTypes, PhoneShowsStored, IntegrationStatus, Named
<1>3. GrantTypes' /\ JobTypes' /\ TokenIsLive'
  BY <1>1, GrantsKept
<1>4. WriterTypes' /\ pc[w] = "lock" /\ pc'[w] = "insert" /\ OthersKept(w)
  BY <1>1 DEF IInv, WriterTypes, Lock, Goto, Pcs, OthersKept, KeepsWriter
<1>5. \A x \in Writers : Subject(x)' = Subject(x)
  BY <1>1 DEF Subject
<1>6. InHand(w)'
  BY <1>1, <1>4, <1>5 DEF IInv, InHand, Holding, Writing
<1>7. \A x \in Writers : InHand(x)'
  BY <1>1, <1>4, <1>6, OneWriter DEF KeepsFlows, KeepsGrants, KeepsConnected
<1>8. OwnGrants'
  BY <1>1, <1>4 DEF IInv, OwnGrants, OthersKept, KeepsWriter, Holding
<1>9. OverlapSeen'
  BY <1>1, <1>4, <1>5 DEF IInv, OverlapSeen, OthersKept, KeepsWriter, Writing
<1>10. AloneSeesAll'
  BY <1>1, <1>4, <1>5 DEF IInv, AloneSeesAll, AccountRows, OthersKept, KeepsWriter, Writing
<1>11. QED
  BY <1>2, <1>3, <1>4, <1>7, <1>8, <1>9, <1>10 DEF IInv

\* The row of the grant is there, and other accounts have the rows they had.
LEMMA PutInvariant ==
    ASSUME IInv, NEW w \in Writers, pc[w] \in Holding, pc'[w] \notin Holding, InHand(w)',
           OthersKept(w), WriterTypes',
           NEW gone \in SUBSET issued, \A g \in gone : tok[g].account = Subject(w),
           stored' = (stored \ gone) \cup {grant[w]}, expiring' \subseteq expiring,
           expiring' \cap gone \subseteq {grant[w]},
           overlapped \ {w} \subseteq overlapped', Rivals(w) \subseteq overlapped',
           UNCHANGED <<flow, states, verifiers, codesUsed, tok, issued, live, job, phone, lost>>
    PROVE  IInv'
<1>1. grant[w] \in issued /\ tok[grant[w]].account = Subject(w)
  BY DEF IInv, InHand
<1>2. KeepsFlows /\ KeepsGrants /\ KeepsConnected
  BY <1>1 DEF KeepsFlows, KeepsGrants, KeepsConnected
<1>3. FlowTypes' /\ RowTypes' /\ PhoneTypes' /\ PhoneShowsStored'
  BY <1>1, <1>2, KeptPhone DEF IInv, FlowTypes, RowTypes, PhoneTypes
<1>4. GrantTypes' /\ JobTypes' /\ TokenIsLive'
  BY GrantsKept
<1>5. /\ \A x \in Writers : InHand(x)'
      /\ \A x \in Writers \ {w} : pc[x] # "idle" => Subject(x)' = Subject(x)
  BY <1>2, OneWriter
<1>6. OwnGrants'
  BY DEF IInv, OwnGrants, OthersKept, KeepsWriter
<1>7. OverlapSeen'
  BY <1>5 DEF IInv, OverlapSeen, OthersKept, KeepsWriter, Writing, Holding
<1>8. AloneSeesAll'
  <2> SUFFICES ASSUME NEW x \in Writers, pc'[x] \in Writing, x \notin overlapped',
                      NEW g \in stored', tok'[g].account = Subject(x)'
               PROVE  g \in snap'[x]
    BY DEF AloneSeesAll, AccountRows
  <2>1. x # w /\ pc[x] \in Writing /\ snap'[x] = snap[x] /\ x \notin overlapped
    BY DEF OthersKept, KeepsWriter, Writing, Holding
  <2>2. Subject(x)' = Subject(x) /\ x \notin Rivals(w)
    BY <1>5, <2>1 DEF Writing
  <2>3. Subject(x) # Subject(w)
    BY <2>1, <2>2 DEF Rivals, Writing
  <2>4. g \in stored /\ tok[g].account = Subject(x)
    BY <1>1, <2>2, <2>3
  <2>5. QED
    BY <2>1, <2>4 DEF IInv, AloneSeesAll, AccountRows
<1>9. QED
  BY <1>3, <1>4, <1>5, <1>6, <1>7, <1>8 DEF IInv

LEMMA CommitInvariant ==
    ASSUME IInv, NEW w \in Writers, Commit(w) PROVE IInv'
<1>1. UNCHANGED <<flow, states, verifiers, codesUsed, tok, issued, live, job, phone, lost>>
      /\ overlapped' = overlapped \ {w} /\ pc[w] = "insert"
  BY DEF Commit, redisVars, grantVars
<1>2. /\ stored' = (stored \ snap[w]) \cup {grant[w]}
      /\ expiring' = expiring \ (snap[w] \cup {grant[w]})
  BY DEF Commit, Put
<1>3. /\ snap[w] \subseteq issued /\ \A g \in snap[w] : tok[g].account = Subject(w)
      /\ tok[grant[w]].account = Subject(w)
  BY <1>1 DEF IInv, InHand, Holding, Writing
<1>4. OthersKept(w) /\ WriterTypes' /\ pc'[w] = (IF w = "cli" THEN "idle" ELSE "redirect")
      /\ (w # "cli" => at' = at)
  <2>1. WriterTypes
    BY DEF IInv
  <2>2. CASE w = "cli"
    <3>1. Leave(w)
      BY <2>2 DEF Commit
    <3>2. WriterTypes'
      BY <1>1, <2>1, <3>1 DEF WriterTypes, Leave, Goto, Pcs
    <3>3. OthersKept(w) /\ pc'[w] = "idle"
      BY <2>1, <3>1 DEF WriterTypes, Leave, Goto, OthersKept, KeepsWriter
    <3> QED
      BY <2>2, <3>2, <3>3
  <2>3. CASE w # "cli"
    <3>1. Goto(w, "redirect") /\ UNCHANGED <<at, verifier, grant, snap>>
      BY <2>3 DEF Commit
    <3>2. WriterTypes'
      BY <1>1, <2>1, <3>1 DEF WriterTypes, Goto, Pcs
    <3>3. OthersKept(w) /\ pc'[w] = "redirect"
      BY <2>1, <3>1 DEF WriterTypes, Goto, OthersKept, KeepsWriter
    <3> QED
      BY <2>3, <3>1, <3>2, <3>3
  <2>4. QED
    BY <2>2, <2>3
<1>5. InHand(w)'
  BY <1>1, <1>2, <1>3, <1>4 DEF IInv, InHand, Holding, Writing, Subject
<1>6. Rivals(w) \subseteq overlapped'
  BY <1>1 DEF IInv, OverlapSeen, Rivals, Writing
<1>7. pc[w] \in Holding /\ pc'[w] \notin Holding
  BY <1>1, <1>4 DEF Holding
<1>8. expiring' \subseteq expiring /\ expiring' \cap snap[w] \subseteq {grant[w]}
      /\ overlapped \ {w} \subseteq overlapped'
  BY <1>1, <1>2
<1>9. QED
  BY <1>1, <1>2, <1>3, <1>4, <1>5, <1>6, <1>7, <1>8, PutInvariant

LEMMA AppendInvariant ==
    ASSUME IInv, NEW p \in Providers, AppendRow(p) PROVE IInv'
<1> DEFINE w == "cli"
<1>1. UNCHANGED <<flow, states, verifiers, codesUsed, tok, issued, live, job, phone, lost, expiring>>
      /\ overlapped' = overlapped \cup Rivals(w) /\ pc[w] = "append" /\ w \in Writers
  BY NamesApart DEF AppendRow, redisVars, grantVars
<1>2. stored' = (stored \ {}) \cup {grant[w]}
  BY DEF AppendRow
<1>3. OthersKept(w) /\ WriterTypes' /\ pc'[w] = "idle"
  BY <1>1 DEF IInv, WriterTypes, AppendRow, Leave, Goto, Pcs, OthersKept, KeepsWriter, Rivals
<1>4. InHand(w)' /\ pc[w] \in Holding /\ pc'[w] \notin Holding
  BY <1>1, <1>3 DEF InHand, Holding, Writing
<1>5. Rivals(w) \subseteq overlapped' /\ overlapped \ {w} \subseteq overlapped'
      /\ expiring' \subseteq expiring /\ expiring' \cap {} \subseteq {grant[w]}
  BY <1>1
<1>6. {} \in SUBSET issued /\ \A g \in {} : tok[g].account = Subject(w)
  OBVIOUS
<1>7. QED
  BY <1>1, <1>2, <1>3, <1>4, <1>5, <1>6, PutInvariant

LEMMA LeaveInvariant ==
    ASSUME IInv, NEW w \in Writers, Rollback(w) \/ (w = "cli" /\ CliGivesUp)
    PROVE  IInv'
<1>1. Leave(w) /\ overlapped' = overlapped \ {w}
      /\ UNCHANGED <<flow, states, verifiers, codesUsed, tok, issued, live, stored, expiring,
                     job, phone, lost>>
  BY DEF Rollback, CliGivesUp, redisVars, grantVars, rowVars
<1>2. FlowTypes' /\ RowTypes' /\ PhoneTypes' /\ PhoneShowsStored'
  BY <1>1 DEF IInv, FlowTypes, RowTypes, PhoneTypes, PhoneShowsStored, IntegrationStatus, Named
<1>3. QED
  BY <1>1, <1>2, LeavesAside, GrantsKept DEF IInv

\* The row the phone is told of is committed.
LEMMA RedirectInvariant ==
    ASSUME IInv, NEW r \in Requests, Redirect(r) PROVE IInv'
<1>1. r \in Writers /\ pc[r] = "redirect" /\ Leave(r) /\ r # "cli"
      /\ UNCHANGED <<flow, states, verifiers, codesUsed, tok, issued, live, stored, expiring,
                     job, lost, overlapped>>
  BY NamesApart DEF Redirect, redisVars, grantVars, rowVars
<1>2. Subject(r) \in Account /\ \E g \in stored : tok[g].account = Subject(r)
  BY <1>1 DEF IInv, InHand, Subject
<1>3. FlowTypes' /\ RowTypes'
  BY <1>1 DEF IInv, FlowTypes, RowTypes
<1>4. \A u \in Users : phone'[u] = phone[u]
        \/ (u = Subject(r).user /\ phone'[u] = phone[u] \cup {Subject(r).provider})
  BY <1>2 DEF Redirect, IInv, PhoneTypes, Account
<1>5. PhoneShowsStored'
  <2>1. Subject(r) = [user |-> Subject(r).user, provider |-> Subject(r).provider]
        /\ Subject(r).provider \in Providers
    BY <1>2 DEF Account
  <2>2. Subject(r).provider \in IntegrationStatus(Subject(r).user)
    BY <1>2, <2>1 DEF IntegrationStatus, Named
  <2>3. \A u : IntegrationStatus(u)' = IntegrationStatus(u)
    BY <1>1 DEF IntegrationStatus, Named
  <2>4. QED
    BY <1>4, <2>2, <2>3 DEF IInv, PhoneShowsStored
<1>6. PhoneTypes'
  BY <1>2 DEF Redirect, IInv, PhoneTypes, Account
<1>7. QED
  BY <1>1, <1>3, <1>5, <1>6, LeavesAside, GrantsKept DEF IInv

(***************************************************************************)
(* The refresh job, and crashes                                            *)
(***************************************************************************)
LEMMA IdleJobType == IdleJob \in [pc: {"idle", "selected", "refreshing", "committing"},
                                  sel: SUBSET issued, failed: SUBSET issued,
                                  answers: SUBSET Answers]
  BY DEF IdleJob

LEMMA InMemoryKnown == ASSUME IInv PROVE InMemory \subseteq Answered /\ Answered \subseteq issued
  BY DEF IInv, JobTypes, InMemory, Answered

\* Steps of the job that leave the rows where they are.
LEMMA JobStep ==
    ASSUME IInv, OutsideJob, KeepsGrants, UNCHANGED stored, expiring' \subseteq expiring,
           GrantTypes', JobTypes', TokenIsLive'
    PROVE  IInv'
<1>1. KeepsFlows /\ UNCHANGED <<writerVars, overlapped, phone>>
  BY DEF OutsideJob, KeepsFlows
<1>2. FlowTypes' /\ RowTypes'
  BY DEF IInv, FlowTypes, RowTypes, OutsideJob, redisVars
<1>3. QED
  BY <1>1, <1>2, WritersKept DEF IInv

LEMMA RefreshInvariant ==
    ASSUME IInv, NEW g \in Grants, RefreshToken(g) PROVE IInv'
<1>1. OutsideJob /\ UNCHANGED <<tok, issued, stored, expiring>>
  BY DEF RefreshToken, OutsideJob, rowVars
<1>2. g \in issued /\ g \in job.sel /\ g \notin Answered /\ g \notin job.failed
  BY DEF RefreshToken, Todo, IInv, JobTypes
<1>3. live' = live \/ (live[g] < MaxVersion /\ live' = [live EXCEPT ![g] = live[g] + 1])
  BY DEF RefreshToken, RefreshFails, RefreshAnswered, Rotate
<1>4. live' \in [Grants -> 0..MaxVersion]
      /\ \A h \in Grants \ {g} : live'[h] = live[h]
      /\ (live' # live => live'[g] = live[g] + 1 /\ live[g] \in Nat)
  <2>1. live[g] \in 0..MaxVersion /\ live \in [Grants -> 0..MaxVersion]
    BY DEF IInv, GrantTypes
  <2>2. live[g] < MaxVersion => live[g] + 1 \in 0..MaxVersion
    BY <2>1, IntegrationsAssumption
  <2>3. QED
    BY <1>3, <2>1, <2>2
<1>5. GrantTypes' /\ KeepsGrants
  BY <1>1, <1>2, <1>4 DEF IInv, GrantTypes, KeepsGrants
<1>6. \A a \in job.answers : a.grant \in Grants \ {g} /\ a.version = live'[a.grant]
  BY <1>2, <1>4 DEF IInv, JobTypes, Answered, Answers
<1>7. CASE RefreshFails(g)
  <2>1. job' = [job EXCEPT !.failed = job.failed \cup {g}] /\ lost' \in {lost, lost \cup {g}}
    BY <1>7 DEF RefreshFails
  <2>2. job'.answers = job.answers /\ job'.sel = job.sel /\ job'.failed = job.failed \cup {g}
    BY <2>1 DEF IInv, JobTypes
  <2>3. JobTypes'
    BY <1>1, <1>2, <1>6, <2>1, <2>2 DEF IInv, JobTypes, Answered, RefreshToken
  <2>4. InMemory' = InMemory
    BY <1>1, <2>2 DEF InMemory
  <2>5. live'[g] # live[g] => g \in lost'
    BY <1>7 DEF RefreshFails
  <2>6. TokenIsLive'
    BY <1>1, <1>2, <1>4, <2>1, <2>4, <2>5 DEF IInv, TokenIsLive, GrantTypes
  <2>7. QED
    BY <1>1, <1>5, <2>3, <2>6, JobStep
<1>8. CASE RefreshAnswered(g)
  <2> DEFINE new == [grant |-> g, version |-> live'[g]]
  <2>1. job' = [job EXCEPT !.answers = job.answers \cup {new}] /\ lost' = lost
        /\ tok[g].version = live[g]
    BY <1>8 DEF RefreshAnswered, Accepted
  <2>2. job'.answers = job.answers \cup {new} /\ job'.sel = job.sel /\ job'.failed = job.failed
        /\ new \in Answers
    BY <1>4, <2>1 DEF IInv, JobTypes, Answers
  <2>3. Answered' = Answered \cup {g}
    BY <2>2 DEF Answered
  <2>4. JobTypes'
    BY <1>1, <1>2, <1>4, <1>6, <2>1, <2>2, <2>3 DEF IInv, JobTypes, RefreshToken
  <2>5. InMemory \subseteq InMemory' /\ (live'[g] # live[g] => g \in InMemory')
    BY <1>1, <2>1, <2>2 DEF InMemory
  <2>6. TokenIsLive'
    BY <1>1, <1>2, <1>4, <2>1, <2>5 DEF IInv, TokenIsLive, GrantTypes
  <2>7. QED
    BY <1>1, <1>5, <2>4, <2>6, JobStep
<1>9. QED
  BY <1>7, <1>8 DEF RefreshToken

\* Every row that got an answer has its version; what answered and has no row is lost.
LEMMA JobCommitsInvariant == ASSUME IInv, JobCommits PROVE IInv'
<1>1. OutsideJob /\ UNCHANGED <<issued, live, stored>> /\ expiring' \subseteq expiring
      /\ job' = IdleJob /\ lost' = lost \cup (InMemory \ stored)
  BY DEF JobCommits, Save, OutsideJob
<1> DEFINE Version(g) == (CHOOSE a \in job.answers : a.grant = g).version
<1>2. \A g \in Answered : Version(g) = live[g]
  BY DEF Answered, IInv, JobTypes
<1>3. tok' = [g \in Grants |-> IF g \in Answered \cap stored
                               THEN [tok[g] EXCEPT !.version = Version(g)] ELSE tok[g]]
  BY DEF JobCommits
<1>4. \A g \in Grants :
        /\ tok'[g] \in [account: Account \cup {NoFlow}, version: 0..MaxVersion,
                        refreshable: BOOLEAN]
        /\ tok'[g].account = tok[g].account /\ tok'[g].refreshable = tok[g].refreshable
        /\ tok'[g].version = IF g \in Answered \cap stored THEN live[g] ELSE tok[g].version
  <2> SUFFICES ASSUME NEW g \in Grants
               PROVE  /\ tok'[g] \in [account: Account \cup {NoFlow}, version: 0..MaxVersion,
                                      refreshable: BOOLEAN]
                      /\ tok'[g].account = tok[g].account
                      /\ tok'[g].refreshable = tok[g].refreshable
                      /\ tok'[g].version = IF g \in Answered \cap stored THEN live[g]
                                           ELSE tok[g].version
    OBVIOUS
  <2>1. tok[g] \in [account: Account \cup {NoFlow}, version: 0..MaxVersion, refreshable: BOOLEAN]
        /\ live[g] \in 0..MaxVersion
    BY DEF IInv, GrantTypes
  <2>2. tok'[g] = IF g \in Answered \cap stored THEN [tok[g] EXCEPT !.version = live[g]] ELSE tok[g]
    BY <1>2, <1>3
  <2>3. QED
    BY <2>1, <2>2
<1>5. tok' \in [Grants -> [account: Account \cup {NoFlow}, version: 0..MaxVersion,
                           refreshable: BOOLEAN]]
  BY <1>3, <1>4
<1>6. GrantTypes' /\ KeepsGrants
  BY <1>1, <1>4, <1>5 DEF IInv, GrantTypes, KeepsGrants
<1>7. JobTypes'
  BY <1>1, InMemoryKnown, IdleJobType DEF IInv, JobTypes, Answered, IdleJob
<1>8. TokenIsLive'
  <2> SUFFICES ASSUME NEW g \in issued, tok[g].refreshable, tok'[g].version # live[g]
               PROVE  g \in lost'
    BY <1>1, <1>4 DEF TokenIsLive, IInv, GrantTypes
  <2>1. ~(g \in Answered \cap stored) /\ tok'[g].version = tok[g].version
    BY <1>4 DEF IInv, GrantTypes
  <2>2. g \in InMemory \cup lost
    BY <2>1 DEF IInv, TokenIsLive
  <2>3. QED
    BY <1>1, <2>1, <2>2, InMemoryKnown
<1>9. QED
  BY <1>1, <1>6, <1>7, <1>8, JobStep

LEMMA JobRaisesInvariant == ASSUME IInv, JobRaises PROVE IInv'
<1>1. OutsideJob /\ UNCHANGED <<tok, issued, live, stored, expiring>>
      /\ job' = IdleJob /\ lost' = lost \cup InMemory
  BY DEF JobRaises, OutsideJob, rowVars
<1>2. GrantTypes' /\ KeepsGrants
  BY <1>1 DEF IInv, GrantTypes, KeepsGrants
<1>3. JobTypes' /\ TokenIsLive'
  BY <1>1, InMemoryKnown, IdleJobType DEF IInv, JobTypes, TokenIsLive, Answered, IdleJob
<1>4. QED
  BY <1>1, <1>2, <1>3, JobStep

LEMMA JobInvariant == ASSUME IInv, RefreshExpiringTokens PROVE IInv'
<1>1. CASE Select
  <2>1. OutsideJob /\ UNCHANGED <<tok, issued, live, stored, expiring, lost>>
        /\ job' = [pc |-> "selected", sel |-> expiring, failed |-> {}, answers |-> {}]
        /\ job.answers = {}
    BY <1>1 DEF Select, OutsideJob, rowVars, IdleJob, IInv, JobTypes
  <2>2. GrantTypes' /\ KeepsGrants
    BY <2>1 DEF IInv, GrantTypes, KeepsGrants
  <2>3. JobTypes' /\ TokenIsLive'
    BY <2>1 DEF IInv, JobTypes, RowTypes, Answered, TokenIsLive, InMemory
  <2>4. QED
    BY <2>1, <2>2, <2>3, JobStep
<1>2. CASE Resume \/ Flush
  <2>1. OutsideJob /\ UNCHANGED <<tok, issued, live, stored, expiring, lost>>
        /\ job' \in {[job EXCEPT !.pc = "refreshing"], [job EXCEPT !.pc = "committing"]}
    BY <1>2 DEF Resume, Flush, OutsideJob, rowVars
  <2>2. job'.answers = job.answers /\ job'.sel = job.sel /\ job'.failed = job.failed
        /\ job'.pc \in {"refreshing", "committing"}
    BY <2>1 DEF IInv, JobTypes
  <2>3. GrantTypes' /\ KeepsGrants
    BY <2>1 DEF IInv, GrantTypes, KeepsGrants
  <2>4. JobTypes' /\ TokenIsLive'
    BY <2>1, <2>2 DEF IInv, JobTypes, Answered, TokenIsLive, InMemory
  <2>5. QED
    BY <2>1, <2>3, <2>4, JobStep
<1>3. ASSUME NEW g \in Grants, RefreshToken(g) PROVE IInv'
  BY <1>3, RefreshInvariant
<1>4. CASE JobCommits \/ JobRaises
  BY <1>4, JobCommitsInvariant, JobRaisesInvariant
<1>5. QED
  BY <1>1, <1>2, <1>3, <1>4 DEF RefreshExpiringTokens

LEMMA CrashInvariant == ASSUME IInv, Crash PROVE IInv'
<1>1. UNCHANGED <<flow, states, verifiers, codesUsed, tok, issued, live, stored, expiring, phone>>
      /\ job' = IdleJob /\ lost' = lost \cup InMemory /\ overlapped' = overlapped \cap {"cli"}
  BY DEF Crash, redisVars, grantVars, rowVars
<1>2. FlowTypes' /\ GrantTypes' /\ RowTypes' /\ PhoneTypes' /\ PhoneShowsStored'
  BY <1>1 DEF IInv, FlowTypes, GrantTypes, RowTypes, PhoneTypes, PhoneShowsStored,
              IntegrationStatus, Named
<1>3. JobTypes' /\ TokenIsLive'
  BY <1>1, InMemoryKnown, IdleJobType DEF IInv, JobTypes, TokenIsLive, Answered, IdleJob
<1>4. WriterTypes'
  BY <1>1 DEF Crash, IInv, WriterTypes, Pcs
<1>5. KeepsWriter("cli") /\ \A r \in Writers \ {"cli"} : pc'[r] = "idle"
  BY NamesApart DEF Crash, KeepsWriter
<1>6. InHand("cli")' /\ (pc["cli"] # "idle" => Subject("cli")' = Subject("cli"))
  BY <1>1, <1>5, KeptWriter, NamesApart DEF KeepsFlows, KeepsGrants, KeepsConnected
<1>7. \A w \in Writers : InHand(w)'
  BY <1>5, <1>6 DEF InHand, Holding, Writing
<1>8. OwnGrants' /\ OverlapSeen'
  BY <1>5 DEF OwnGrants, OverlapSeen, Holding, Writing
<1>9. AloneSeesAll'
  BY <1>1, <1>5, <1>6, NamesApart DEF IInv, AloneSeesAll, AccountRows, KeepsWriter, Writing
<1>10. QED
  BY <1>2, <1>3, <1>4, <1>7, <1>8, <1>9 DEF IInv

(***************************************************************************)
(* The theorems                                                            *)
(***************************************************************************)
LEMMA StoredChange ==
    ASSUME IInv, [Next]_vars
    PROVE  \/ UNCHANGED stored
           \/ \E w \in Writers : Commit(w)
           \/ \E p \in Providers : AppendRow(p)
<1>1. ASSUME NEW w \in Writers, Replace(w) PROVE UNCHANGED stored \/ Commit(w)
  BY <1>1 DEF Replace, BeginDelete, Lock, Rollback, rowVars
<1>2. ASSUME NEW r \in Requests, GoogleCallback(r) \/ MicrosoftCallback(r) \/ SlackCallback(r)
      PROVE  UNCHANGED stored \/ Commit(r)
  <2>1. r \in Writers
    BY NamesApart
  <2>2. UNCHANGED stored \/ Replace(r)
    BY <1>2 DEF GoogleCallback, MicrosoftCallback, SlackCallback, ConsumeState, GetState, DelState,
           TakeVerifier, GoogleExchange, MicrosoftExchange, SlackExchange, Exchange, Redirect, rowVars
  <2>3. QED
    BY <1>1, <2>1, <2>2
<1>3. CASE RunGoogleFlow \/ RunMicrosoftFlow \/ RunSlackFlow \/ CliGivesUp
  BY <1>3 DEF RunGoogleFlow, RunMicrosoftFlow, RunSlackFlow, CliGivesUp, CliConnect, rowVars
<1>4. CASE StoreGoogleTokens
  BY <1>1, <1>4, NamesApart DEF StoreGoogleTokens
<1>5. CASE StoreMicrosoftTokens \/ StoreSlackToken
  BY <1>5 DEF StoreMicrosoftTokens, StoreSlackToken, Providers
<1>6. CASE RefreshExpiringTokens
  BY <1>6 DEF RefreshExpiringTokens, Select, Resume, Flush, JobCommits, Save, JobRaises,
              RefreshToken, rowVars
<1>7. CASE \E f \in Flows, u \in Users :
             GoogleConnect(f, u) \/ MicrosoftConnect(f, u) \/ SlackConnect(f, u)
  BY <1>7 DEF GoogleConnect, MicrosoftConnect, SlackConnect, Begin, rowVars
<1>8. CASE (\E f \in Flows : Expire(f)) \/ (\E g \in Grants : Age(g)) \/ Crash \/ UNCHANGED vars
  BY <1>8 DEF Expire, Age, Crash, vars, rowVars
<1>9. QED
  BY <1>2, <1>3, <1>4, <1>5, <1>6, <1>7, <1>8, NamesApart DEF Next

LEMMA CallbackInvariant ==
    ASSUME IInv, NEW r \in Requests,
           GoogleCallback(r) \/ MicrosoftCallback(r) \/ SlackCallback(r)
    PROVE  IInv'
<1>1. r \in Writers
  BY NamesApart
<1>2. CASE (\E f \in Flows : GetState(r, f)) \/ DelState(r) \/ TakeVerifier(r)
  BY <1>2, StateInvariant
<1>3. CASE GoogleExchange(r) \/ MicrosoftExchange(r) \/ SlackExchange(r)
  <2>1. PICK p \in Providers, b \in BOOLEAN : Exchange(r, p, b)
    BY <1>3 DEF GoogleExchange, MicrosoftExchange, SlackExchange, Providers
  <2>2. QED
    BY <2>1, ExchangeInvariant
<1>4. CASE Replace(r)
  BY <1>1, <1>4, BeginDeleteInvariant, LockInvariant, CommitInvariant, LeaveInvariant DEF Replace
<1>5. CASE Redirect(r)
  BY <1>5, RedirectInvariant
<1>6. QED
  BY <1>2, <1>3, <1>4, <1>5 DEF GoogleCallback, MicrosoftCallback, SlackCallback, ConsumeState

LEMMA NextInvariant == IInv /\ [Next]_vars => IInv'
<1> SUFFICES ASSUME IInv, [Next]_vars PROVE IInv'
  OBVIOUS
<1>1. CASE \E f \in Flows, u \in Users :
             GoogleConnect(f, u) \/ MicrosoftConnect(f, u) \/ SlackConnect(f, u)
  BY <1>1, BeginInvariant
<1>2. CASE (\E f \in Flows : Expire(f)) \/ (\E g \in Grants : Age(g))
  BY <1>2, ClockInvariant
<1>3. ASSUME NEW r \in Requests, GoogleCallback(r) \/ MicrosoftCallback(r) \/ SlackCallback(r)
      PROVE  IInv'
  BY <1>3, CallbackInvariant
<1>4. CASE RunGoogleFlow \/ RunMicrosoftFlow \/ RunSlackFlow
  BY <1>4, CliConnectInvariant
<1>5. CASE CliGivesUp
  BY <1>5, LeaveInvariant, NamesApart
<1>6. CASE StoreGoogleTokens
  BY <1>6, BeginDeleteInvariant, LockInvariant, CommitInvariant, LeaveInvariant, NamesApart
     DEF StoreGoogleTokens, Replace
<1>7. CASE StoreMicrosoftTokens \/ StoreSlackToken
  BY <1>7, AppendInvariant DEF StoreMicrosoftTokens, StoreSlackToken, Providers
<1>8. CASE RefreshExpiringTokens
  BY <1>8, JobInvariant
<1>9. CASE Crash
  BY <1>9, CrashInvariant
<1>10. CASE UNCHANGED vars
  <2>1. KeepsFlows /\ FlowTypes' /\ RowTypes'
    BY <1>10 DEF vars, redisVars, grantVars, rowVars, IInv, KeepsFlows, FlowTypes, RowTypes
  <2>2. UNCHANGED <<tok, issued, live, job, lost, stored, writerVars, overlapped, phone>>
    BY <1>10 DEF vars, grantVars, rowVars
  <2>3. QED
    BY <2>1, <2>2, GrantsKept, WritersKept DEF IInv
<1>11. QED
  BY <1>1, <1>2, <1>3, <1>4, <1>5, <1>6, <1>7, <1>8, <1>9, <1>10 DEF Next

\* The invariant holds of every behaviour of Integrations (integrations/router.py,
\* vault/refresh.py, the commands).
LEMMA Invariant == Spec => []IInv
<1>1. Init => IInv
  BY InitInvariant
<1>2. QED
  BY <1>1, NextInvariant, PTL DEF Spec

LEMMA AccountsKept == ASSUME IInv, [Next]_vars PROVE KeepsGrants
<1>1. ASSUME UNCHANGED <<tok, issued>> PROVE KeepsGrants
  BY <1>1 DEF KeepsGrants
<1>2. ASSUME NEW w, NEW a, NEW b, Issue(w, a, b) PROVE KeepsGrants
  BY <1>2 DEF Issue, KeepsGrants, IInv, GrantTypes
<1>3. ASSUME NEW w \in Writers, Replace(w) PROVE KeepsGrants
  BY <1>1, <1>3 DEF Replace, BeginDelete, Lock, Commit, Rollback, grantVars
<1>4. ASSUME NEW r \in Requests, GoogleCallback(r) \/ MicrosoftCallback(r) \/ SlackCallback(r)
      PROVE  KeepsGrants
  <2>1. CASE GoogleExchange(r) \/ MicrosoftExchange(r) \/ SlackExchange(r)
    BY <1>1, <1>2, <2>1 DEF GoogleExchange, MicrosoftExchange, SlackExchange, Exchange, grantVars
  <2>2. CASE Replace(r)
    BY <1>3, <2>2, NamesApart
  <2>3. CASE (\E f \in Flows : GetState(r, f)) \/ DelState(r) \/ TakeVerifier(r) \/ Redirect(r)
    BY <1>1, <2>3 DEF GetState, DelState, TakeVerifier, Redirect, grantVars
  <2>4. QED
    BY <1>4, <2>1, <2>2, <2>3 DEF GoogleCallback, MicrosoftCallback, SlackCallback, ConsumeState
<1>5. CASE RunGoogleFlow \/ RunMicrosoftFlow \/ RunSlackFlow
  BY <1>2, <1>5 DEF RunGoogleFlow, RunMicrosoftFlow, RunSlackFlow, CliConnect
<1>6. CASE CliGivesUp \/ StoreMicrosoftTokens \/ StoreSlackToken
  BY <1>1, <1>6 DEF CliGivesUp, StoreMicrosoftTokens, StoreSlackToken, AppendRow, grantVars
<1>7. CASE StoreGoogleTokens
  BY <1>3, <1>7, NamesApart DEF StoreGoogleTokens
<1>8. CASE RefreshExpiringTokens
  <2>1. CASE JobCommits
    <3>1. UNCHANGED issued /\ \A g \in Grants : tok'[g].account = tok[g].account
      BY <2>1 DEF JobCommits, OutsideJob, IInv, GrantTypes
    <3>2. QED
      BY <3>1 DEF KeepsGrants, IInv, GrantTypes
  <2>2. QED
    BY <1>1, <1>8, <2>1 DEF RefreshExpiringTokens, Select, Resume, Flush, JobRaises, RefreshToken,
                            OutsideJob
<1>9. CASE \E f \in Flows, u \in Users :
             GoogleConnect(f, u) \/ MicrosoftConnect(f, u) \/ SlackConnect(f, u)
  BY <1>1, <1>9 DEF GoogleConnect, MicrosoftConnect, SlackConnect, Begin, grantVars
<1>10. CASE (\E f \in Flows : Expire(f)) \/ (\E g \in Grants : Age(g)) \/ Crash \/ UNCHANGED vars
  BY <1>1, <1>10 DEF Expire, Age, Crash, vars, grantVars
<1>11. QED
  BY <1>4, <1>5, <1>6, <1>7, <1>8, <1>9, <1>10 DEF Next

\* The state keeps its type, and a writer has in hand what its step needs: the job never
\* works with a token that was not granted, and no two writers hold the same grant.
THEOREM TypeCorrect == Spec => []TypeOK
  BY Invariant, InvariantImplies, PTL

\* What the phone shows as connected is in the database: for every number of phones,
\* connects and requests (integrations/router.py:206-222: the redirect comes after the
\* commit, and DELETE and INSERT are one transaction).
THEOREM PhoneIsRight == Spec => []PhoneShowsStored
  BY Invariant, InvariantImplies, PTL

\* The refresh token of a row is the one its provider accepts, or the one place where
\* the other is has been named: the running job, or lost (vault/refresh.py:130).
THEOREM TokensStayGood == Spec => []StoredTokenIsLive
  BY Invariant, InvariantImplies, PTL

\* An account that is connected stays connected, whatever writes to it at once.
THEOREM StaysConnected == Spec => NeverDisconnected
<1>1. IInv /\ [Next]_vars => \A u \in Users : IntegrationStatus(u) \subseteq IntegrationStatus(u)'
  <2> SUFFICES ASSUME IInv, [Next]_vars, NEW u \in Users, NEW p \in Providers,
                      NEW g \in stored, tok[g].account = [user |-> u, provider |-> p]
               PROVE  \E h \in stored' : tok'[h].account = [user |-> u, provider |-> p]
    BY DEF IntegrationStatus, Named
  <2>1. KeepsGrants /\ g \in issued
    BY AccountsKept DEF IInv, RowTypes
  <2>2. CASE UNCHANGED stored
    BY <2>1, <2>2 DEF KeepsGrants
  <2>3. ASSUME NEW w \in Writers, Commit(w)
        PROVE  \E h \in stored' : tok'[h].account = [user |-> u, provider |-> p]
    <3>1. grant[w] \in issued /\ tok[grant[w]].account = Subject(w)
          /\ \A h \in snap[w] : tok[h].account = Subject(w)
      BY <2>3 DEF IInv, InHand, Commit, Holding, Writing
    <3>2. stored' = (stored \ snap[w]) \cup {grant[w]}
      BY <2>3 DEF Commit, Put
    <3>3. QED
      BY <2>1, <3>1, <3>2 DEF KeepsGrants
  <2>4. CASE \E q \in Providers : AppendRow(q)
    BY <2>1, <2>4 DEF AppendRow, KeepsGrants
  <2>5. QED
    BY <2>2, <2>3, <2>4, StoredChange
<1>2. QED
  BY <1>1, Invariant, PTL DEF Spec, NeverDisconnected

\* Rows come from connects: the refresh job never brings one back.
THEOREM RowsComeFromConnects == Spec => OnlyConnectsAddRows
<1>1. IInv /\ [Next]_vars => \A g \in stored' \ stored : \E w \in Writers :
                               grant[w] = g /\ pc[w] \in {"insert", "append"}
  <2> SUFFICES ASSUME IInv, [Next]_vars, NEW g \in stored' \ stored
               PROVE  \E w \in Writers : grant[w] = g /\ pc[w] \in {"insert", "append"}
    OBVIOUS
  <2>1. ASSUME NEW w \in Writers, Commit(w) PROVE grant[w] = g /\ pc[w] = "insert"
    BY <2>1 DEF Commit, Put
  <2>2. ASSUME NEW p \in Providers, AppendRow(p) PROVE grant["cli"] = g /\ pc["cli"] = "append"
    BY <2>2 DEF AppendRow
  <2>3. QED
    BY <2>1, <2>2, StoredChange, NamesApart
<1>2. QED
  BY <1>1, Invariant, PTL DEF Spec, OnlyConnectsAddRows

\* One row of an account is what every reader of it reaches.
LEMMA OneRowIsReached ==
    ASSUME NEW a \in Account, NEW g, AccountRows(a)' = {g},
           \A h \in stored' : tok'[h].account \in Account
    PROVE  Reached(a)' = {g}
<1>1. a = [user |-> a.user, provider |-> a.provider] /\ a.provider \in Providers
  BY DEF Account
<1>2. Named(a.user, a.provider)' = {g}
  BY <1>1 DEF Named, AccountRows
<1>3. Named(a.user, "microsoft")' = {}
  BY DEF Named, Account, Providers
<1>4. Cardinality({g}) = 1 /\ OneOrNone({g}) = {g}
  BY FS_Singleton DEF OneOrNone
<1>5. CASE a.provider = "google"
  BY <1>2, <1>3, <1>4, <1>5 DEF Reached, CalendarExecutor, EmailExecutor, SessionAdapters
<1>6. CASE a.provider = "slack"
  BY <1>2, <1>4, <1>6 DEF Reached, SlackExecutor
<1>7. CASE a.provider = "outlook"
  BY <1>2, <1>7 DEF Reached
<1>8. QED
  BY <1>1, <1>5, <1>6, <1>7 DEF Providers

\* The readers that want one row find the new one after a replacement with which nothing
\* overlapped: it saw every row of its account, and nobody added another.
THEOREM ReplacementReplaces == Spec => ReplacementIsReached
<1>1. IInv /\ IInv' /\ [Next]_vars => \A w \in Writers, a \in Account :
          CommitsAlone(w) /\ a = Subject(w) => Reached(a)' = {grant[w]}
  <2> SUFFICES ASSUME IInv, IInv', [Next]_vars, NEW w \in Writers, NEW a \in Account,
                      CommitsAlone(w), a = Subject(w)
               PROVE  Reached(a)' = {grant[w]}
    OBVIOUS
  <2>1. pc[w] = "insert" /\ w \notin overlapped /\ grant[w] \in stored' \ stored
    BY DEF CommitsAlone
  <2>2. \A x \in Writers : Commit(x) => x = w
    BY <2>1 DEF Commit, Put, IInv, OwnGrants, Holding
  <2>3. \A p \in Providers : ~AppendRow(p)
    BY <2>1, NamesApart DEF AppendRow, IInv, OwnGrants, Holding
  <2>4. Commit(w)
    BY <2>1, <2>2, <2>3, StoredChange
  <2>5. stored' = (stored \ snap[w]) \cup {grant[w]} /\ UNCHANGED tok
    BY <2>4 DEF Commit, Put, grantVars
  <2>6. AccountRows(a) \subseteq snap[w] /\ tok[grant[w]].account = a
    BY <2>1 DEF IInv, AloneSeesAll, InHand, Writing, Holding
  <2>7. AccountRows(a)' = {grant[w]}
    BY <2>5, <2>6 DEF AccountRows
  <2>8. \A h \in stored' : tok'[h].account \in Account
    BY DEF IInv, GrantTypes, RowTypes
  <2>9. QED
    BY <2>7, <2>8, OneRowIsReached
<1>2. QED
  BY <1>1, Invariant, PTL DEF Spec, ReplacementIsReached
=============================================================================
