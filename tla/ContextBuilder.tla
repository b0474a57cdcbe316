---------------------------- MODULE ContextBuilder ----------------------------
(***************************************************************************)
(* What a briefing is made of: what the accounts' adapters return, the     *)
(* e-mails that are worth a summary (rank_emails and score_email), and the *)
(* calendar events that overlap (find_conflicts).  Events are records with *)
(* start and end, in the order sort() left them; e-mails are numbered in   *)
(* the order they were fetched, and box says what is behind each number.   *)
(***************************************************************************)
EXTENDS Integers, Sequences, FiniteSets

(***************************************************************************)
(* find_conflicts                                                          *)
(***************************************************************************)
Instants == Int
Events == {e \in [start: Instants, end: Instants] : e.start < e.end}

SortedByStart(timed) == \A i, j \in 1..Len(timed) : i <= j => timed[i].start <= timed[j].start

Pairs(timed) == (1..Len(timed)) \X (1..Len(timed))

\* For each event the inner loop takes the later ones, and breaks at the first that
\* starts when it has ended.
Reported(timed, i, j) ==
    i < j /\ \A k \in 1..Len(timed) : i < k /\ k <= j => timed[k].start < timed[i].end

FindConflicts(timed) == {p \in Pairs(timed) : Reported(timed, p[1], p[2])}

\* What the function promises: the pairs of events with an instant in common.
Overlap(timed, i, j) ==
    i < j /\ timed[i].start < timed[j].end /\ timed[j].start < timed[i].end

Overlapping(timed) == {p \in Pairs(timed) : Overlap(timed, p[1], p[2])}

(***************************************************************************)
(* score_email, in 24ths of a point                                        *)
(***************************************************************************)
Emails == [vip: BOOLEAN, direct: BOOLEAN, keywords: Nat, hours: Nat, busy: BOOLEAN]

SenderWeight(e) == IF e.vip THEN 40 ELSE IF e.direct THEN 10 ELSE 2
Recency(e) == IF e.hours < 24 THEN 15 * (24 - e.hours) ELSE 0
Score(e) == 24 * SenderWeight(e) + 24 * 8 * e.keywords + Recency(e)
            + (IF e.busy THEN 24 * 5 ELSE 0)

(***************************************************************************)
(* rank_emails: a stable sort by score, and the first n of it              *)
(***************************************************************************)
Before(score, i, j) == score[i] > score[j] \/ (score[i] = score[j] /\ i < j)
Ahead(score, j) == {i \in DOMAIN score : Before(score, i, j)}
Top(score, n) == {j \in DOMAIN score : Cardinality(Ahead(score, j)) < n}

\* What score_email reads of a mail.  user is the address the mails are compared with, a
\* thread is busy when three mails of the batch are in it.
Features(box, fetched, k, vips, user, now) ==
    [vip      |-> box[k].sender \in vips,
     direct   |-> user \in box[k].recipients,
     keywords |-> box[k].keywords,
     hours    |-> now - box[k].sent,
     busy     |-> Cardinality({j \in fetched : box[j].thread = box[k].thread}) >= 3]

RankEmails(box, fetched, vips, user, now, n) ==
    Top([k \in fetched |-> Score(Features(box, fetched, k, vips, user, now))], n)

(***************************************************************************)
(* The adapters.  An account says whether its requests are answered, which *)
(* mails it lists, which of them are gone when they are fetched, and what  *)
(* is in its calendar and channels.                                        *)
(***************************************************************************)
Raised == [ok |-> FALSE, items |-> {}]
Answer(items) == [ok |-> TRUE, items |-> items]

\* Gmail lists references and fetches each one; a mail deleted in between is an error.
GmailList(a) == IF a.down \/ a.listed \cap a.gone # {} THEN Raised ELSE Answer(a.listed)

\* Outlook lists the metadata itself.
OutlookList(a) == IF a.down THEN Raised ELSE Answer(a.listed)

ListEmails(a) == IF a.provider = "google" THEN GmailList(a) ELSE OutlookList(a)

\* A mail of another account, or one that is gone, is an error; a body that is HTML
\* only is "" to Gmail and text to Outlook.
HasBody(a, box, k) ==
    /\ ~a.down /\ k \in a.listed \ a.gone
    /\ a.provider = "google" => box[k].plain

\* The To header in parts, or Outlook's first recipient: "" stands for none.
Recipients(provider, to) ==
    IF to = <<>> THEN {""}
    ELSE IF provider = "google" THEN {to[i] : i \in 1..Len(to)} ELSE {to[1]}

\* Both calendars answer with the events that touch the window.
ListEvents(a, since, until) ==
    IF a.down THEN Raised ELSE Answer({e \in a.events : e.end > since /\ e.start < until})

\* Slack is asked channel by channel, for the first page of each.
ListMessages(a, channels) ==
    IF channels = {} THEN Answer({})
    ELSE IF a.down THEN Raised ELSE Answer({m \in a.messages : m.channel \in channels})

(***************************************************************************)
(* build_context: three phases, and an error empties its own only          *)
(***************************************************************************)
All(answers) ==
    IF \E i \in DOMAIN answers : ~answers[i].ok THEN {}
    ELSE UNION {answers[i].items : i \in DOMAIN answers}

EmailPhase(mailboxes, box, vips, user, now, n) ==
    LET answers == [i \in 1..Len(mailboxes) |-> ListEmails(mailboxes[i])] IN
    RankEmails(box, All(answers), vips, user, now, n)

\* The first account is asked for every body.
RawBodies(mailboxes, box, ranked) ==
    {k \in ranked : Len(mailboxes) > 0 /\ HasBody(mailboxes[1], box, k)}

CalendarPhase(calendars, now, until) ==
    All([i \in 1..Len(calendars) |-> ListEvents(calendars[i], now, until)])

\* Only mentions and direct messages; _fetch_all_messages names no channel.
SlackPhase(workspaces) ==
    {m \in All([i \in 1..Len(workspaces) |-> ListMessages(workspaces[i], {})]) : m.mention \/ m.dm}
=============================================================================
