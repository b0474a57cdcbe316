------------------------------- MODULE Pairing -------------------------------
(***************************************************************************)
(* Signing in a phone: pairing codes, users and device tokens on the       *)
(* server (auth/router.py), and what a phone does with the tokens          *)
(* (AuthService, KeychainStore and AppState on iOS, AuthService,           *)
(* TokenStore and MainActivity on Android).                                *)
(*                                                                         *)
(* A task is one call of completePairing or refresh: it begins on the      *)
(* phone, runs as a transaction on the server and ends by saving what came *)
(* back, key by key.  An access token is the user it names, a refresh      *)
(* token the number of its device token.                                   *)
(***************************************************************************)
EXTENDS Naturals, FiniteSets

CONSTANTS
    Phones, AndroidPhones,
    Refreshers,      \* bound: phones that refresh their access token
    InvitedUsers,    \* bound: user ids for which a code is asked by id
    Emails, Codes,   \* bound: addresses, and values a 6-digit code may take
    Rows,            \* bound: pairing codes ever issued
    MaxUser,         \* bound: user ids
    MaxKills,   \* bound: times an app is closed or killed
    None             \* not an e-mail address, a row or a code

ASSUME PairingAssumption ==
    /\ AndroidPhones \subseteq Phones /\ Refreshers \subseteq Phones
    /\ InvitedUsers \subseteq 1..MaxUser
    /\ MaxUser \in Nat \ {0} /\ MaxKills \in Nat
    /\ None \notin Emails \cup Rows \cup Codes

VARIABLES
    codes,      \* pairing_codes; owner 0 stands for user_id NULL
    holder,     \* the task whose open transaction has updated a row
    users,      \* users
    nextId,     \* the sequence of users.id
    devices,    \* device_tokens
    task,       \* calls under way
    phone,      \* Keychain or TokenStore, the flag of AppState, and the launch
    kills,
    torn,       \* history: phones left with the access token of one pairing and the
                \* refresh token of another
    misled      \* history: phones that stored or lost an access token out of AppState's sight

serverVars == <<codes, holder, users, nextId, devices>>
vars == <<serverVars, task, phone, kills, torn, misled>>

Tasks == (Phones \X {"pair"}) \cup (Refreshers \X {"refresh"})
Owner(t) == t[1]
OnServer == {"update", "commit"}
UserIds == 1..MaxUser

NoCode == [code |-> None, email |-> None, owner |-> 0, used |-> FALSE, expired |-> FALSE]
IdleTask == [pc |-> "idle", code |-> None, late |-> {}, hit |-> None, user |-> 0,
             token |-> 0, heard |-> TRUE]
NewPhone == [access |-> 0, refresh |-> 0, flag |-> FALSE, launched |-> FALSE,
             up |-> FALSE, boot |-> "done", loaded |-> FALSE]

Init ==
    /\ codes = [r \in Rows |-> NoCode] /\ holder = [r \in Rows |-> <<>>]
    /\ users = {} /\ nextId = 1 /\ devices = {}
    /\ task = [t \in Tasks |-> IdleTask] /\ phone = [p \in Phones |-> NewPhone]
    /\ kills = 0 /\ torn = {} /\ misled = {}

Live(r) == codes[r].code # None /\ ~codes[r].used /\ ~codes[r].expired

(***************************************************************************)
(* Codes                                                                   *)
(***************************************************************************)
Issue(r, code, email, owner) ==
    /\ codes[r] = NoCode
    /\ codes' = [codes EXCEPT ![r] = [NoCode EXCEPT !.code = code, !.email = email,
                                                    !.owner = owner]]
    /\ UNCHANGED <<holder, nextId, devices, task, phone, kills, torn, misled>>

\* The row is committed first; whether the e-mail goes out changes nothing here.
PairSendLink(r, code, email) == Issue(r, code, email, 0) /\ UNCHANGED users

\* The user is created under the id the caller gave, past the sequence; the INSERT waits
\* for a transaction that is creating the same id.
PairInitiate(r, code, u) ==
    /\ \A t \in Tasks : task[t].pc = "commit" /\ task[t].user = u => u \in users
    /\ Issue(r, code, None, u) /\ users' = users \cup {u}

Expire(r) ==
    /\ Live(r) /\ codes' = [codes EXCEPT ![r].expired = TRUE]
    /\ UNCHANGED <<holder, users, nextId, devices, task, phone, kills, torn, misled>>

(***************************************************************************)
(* POST /auth/pair/complete                                                *)
(***************************************************************************)
Step(t, rec) == task' = [task EXCEPT ![t] = rec]
Held(t) == {r \in Rows : holder[r] = t}
MRelease(t) == holder  \* mutant: the transaction is left open

Release(t) == [r \in Rows |-> IF holder[r] = t THEN <<>> ELSE holder[r]]

\* The error reaches the phone, which saves nothing.
Refuse(t) ==
    /\ Step(t, IdleTask) /\ holder' = Release(t)
    /\ UNCHANGED <<codes, users, devices, phone, kills, torn, misled>>

\* The UPDATE compares with the time of the request, waits for a transaction that holds a
\* row it matches, looks at the row again when that one has ended, and marks every row it
\* matches; first() takes one.  It knows the rows committed before it began, here before
\* it ends: a wait for a lock is as good as a late request.
MMatching(t) ==  \* mutant: a row another call has marked matches still
    {r \in Rows \ task[t].late : codes[r].code = task[t].code}

Matching(t) == {r \in Rows \ task[t].late : codes[r].code = task[t].code /\ ~codes[r].used}

\* The user of an earlier code for the same address.  Nothing another transaction
\* commits after the UPDATE changes the answer: a code gets its owner when it is issued.
MPriorUsers(email) ==  \* mutant: the address is not compared
    {codes[r].owner : r \in {s \in Rows : codes[s].owner # 0}}

PriorUsers(email) ==
    {codes[r].owner : r \in {s \in Rows : codes[s].email = email /\ codes[s].owner # 0}}

Known(row) == IF row.owner # 0 THEN {row.owner} ELSE PriorUsers(row.email)

\* flush() raises when the sequence gives an id that was created explicitly.
NewUserFails(r) == Known(codes[r]) = {} /\ nextId \in users
UserFor(r) == IF Known(codes[r]) = {} THEN {nextId} ELSE Known(codes[r])

CompareAndSwap(t) ==
    /\ task[t].pc = "update"
    /\ \A r \in Matching(t) : holder[r] = <<>>
    /\ \/ Matching(t) = {} /\ Refuse(t) /\ UNCHANGED nextId
       \/ \E r \in Matching(t) :
            /\ Known(codes[r]) = {} => nextId <= MaxUser
            /\ nextId' = IF Known(codes[r]) = {} THEN nextId + 1 ELSE nextId
            /\ IF NewUserFails(r) THEN Refuse(t)
               ELSE /\ holder' = [q \in Rows |-> IF q \in Matching(t) THEN t ELSE holder[q]]
                    /\ \E u \in UserFor(r) :
                         Step(t, [IdleTask EXCEPT !.pc = "commit", !.hit = r, !.user = u,
                                                  !.heard = task[t].heard])
                    /\ UNCHANGED <<codes, users, devices, phone, kills, torn, misled>>

Device(t) == [row |-> task[t].hit, user |-> task[t].user, id |-> Cardinality(devices) + 1]

\* The answer comes, or is lost: the device token is there all the same.
CommitPairing(t) ==
    /\ task[t].pc = "commit"
    /\ codes' = [r \in Rows |-> IF r \in Held(t) THEN [codes[r] EXCEPT !.used = TRUE]
                                ELSE codes[r]]
    /\ holder' = Release(t)
    /\ users' = users \cup {task[t].user} /\ devices' = devices \cup {Device(t)}
    /\ \/ Step(t, IdleTask)
       \/ task[t].heard /\ Step(t, [IdleTask EXCEPT !.pc = "access", !.user = task[t].user,
                                                    !.token = Device(t).id])
    /\ UNCHANGED <<nextId, phone, kills, torn, misled>>

PairComplete(t) == CompareAndSwap(t) \/ CommitPairing(t)

\* The server dies, or the database refuses: what is not committed is undone.
Rollback(t) == task[t].pc \in OnServer /\ Refuse(t) /\ UNCHANGED nextId

(***************************************************************************)
(* The phone                                                               *)
(***************************************************************************)
Saves == {"access", "refresh", "flag"}

Booting(p) == phone[p].boot # "done"

\* A new access token is on its way, asked for with the refresh token the phone had.
Refreshing(p) == p \in Refreshers /\ task[<<p, "refresh">>].pc # "idle"

\* completePairing with the code of a link or of the text field.  The server takes the
\* time when the request begins.  A call with a code no live row has is refused; should
\* the same digits be issued while it runs, it is as good as a later call.
CompletePairing(p, code) == LET t == <<p, "pair">> IN
    /\ phone[p].up /\ task[t].pc = "idle" /\ \E r \in Rows : Live(r) /\ codes[r].code = code
    /\ Step(t, [IdleTask EXCEPT !.pc = "update", !.code = code,
           !.late = {r \in Rows : codes[r].code = code /\ codes[r].expired}])
    /\ UNCHANGED <<serverVars, phone, kills, torn, misled>>

\* refresh() is called after a 401, by a session that found an access token.  POST
\* /auth/token/refresh reads one row that never changes; the refresh token stays good.
TokenRefresh(p) == LET t == <<p, "refresh">> IN
    /\ phone[p].up /\ phone[p].access # 0 /\ task[t].pc = "idle"
    /\ \E d \in devices : d.id = phone[p].refresh
                          /\ Step(t, [IdleTask EXCEPT !.pc = "access", !.user = d.user])
    /\ UNCHANGED <<serverVars, phone, kills, torn, misled>>

MAfter ==  \* mutant: the refresh token of an earlier pairing is kept
    [pair |-> [access |-> "flag", flag |-> "idle"], refresh |-> [access |-> "idle"]]

\* The keys in the order they are saved; the expiry comes last and nothing here reads it.
After == [pair |-> [access |-> "refresh", refresh |-> "flag", flag |-> "idle"],
          refresh |-> [access |-> "idle"]]

\* One key is saved; with the expiry of a pairing the app leaves the pairing screen.
\* KeychainStore.save deletes the old item before it adds the new one: when the add
\* fails the key is gone, and the task ends.
Put(t, ok) ==
    LET key == task[t].pc
        new == CASE key = "access"  -> task[t].user
                 [] key = "refresh" -> task[t].token
                 [] OTHER           -> TRUE
    IN  CASE ok -> [phone[Owner(t)] EXCEPT ![key] = new]
          [] ~ok /\ key # "flag" /\ Owner(t) \notin AndroidPhones
                -> [phone[Owner(t)] EXCEPT ![key] = 0]
          [] OTHER -> phone[Owner(t)]

\* Between the two writes of a pairing the tokens are of two devices: they stay so when
\* the second fails, or when an older access token comes in, then or after it.
Tears(t, ok) == LET p == Owner(t)  amidst == task[<<p, "pair">>].pc = "refresh" IN
    amidst /\ (t[2] = "refresh" \/ ~ok \/ Refreshing(p))

Begins(t) == t[2] = "pair" /\ task[t].pc = "access"

Save(t, ok) == LET p == Owner(t) IN
    /\ task[t].pc \in Saves
    /\ LET next == IF ok THEN After[t[2]][task[t].pc] ELSE "idle" IN
       Step(t, IF next = "idle" THEN IdleTask ELSE [task[t] EXCEPT !.pc = next])
    /\ phone' = [phone EXCEPT ![p] = Put(t, ok)]
    /\ torn' = IF Tears(t, ok) THEN torn \cup {p}
               ELSE IF Begins(t) /\ ok THEN torn \ {p} ELSE torn
    /\ misled' = IF ok /\ ~Booting(p) THEN misled ELSE misled \cup {p}
    /\ UNCHANGED <<serverVars, kills>>

PhoneStep(t) == \E ok \in BOOLEAN : Save(t, ok)

\* iOS clears the Keychain of an earlier install and reads it before anything is shown;
\* Android does both in a coroutine beside everything else.
Cleared(p) == [phone[p] EXCEPT !.access = 0, !.refresh = 0, !.launched = TRUE]

MLaunch(p) ==  \* mutant: AppState is created before FirstLaunchCleanup ran
    /\ ~phone[p].up
    /\ phone' = [phone EXCEPT ![p] =
         [(IF phone[p].launched THEN phone[p] ELSE Cleared(p)) EXCEPT
             !.up = TRUE, !.flag = phone[p].access # 0]]
    /\ misled' = misled \ {p}
    /\ UNCHANGED <<serverVars, task, kills, torn>>

Launch(p) ==
    /\ ~phone[p].up
    /\ phone' = [phone EXCEPT ![p] =
         IF p \in AndroidPhones
         THEN [@ EXCEPT !.up = TRUE, !.flag = FALSE,
                        !.boot = IF phone[p].launched THEN "load" ELSE "clear"]
         ELSE LET kept == IF phone[p].launched THEN phone[p] ELSE Cleared(p)
              IN [kept EXCEPT !.up = TRUE, !.flag = kept.access # 0]]
    /\ misled' = misled \ {p}
    /\ UNCHANGED <<serverVars, task, kills, torn>>

\* FirstLaunchCleanup, TokenStore.load and setAuthenticated of MainActivity.onCreate.
Boot(p) ==
    /\ \/ /\ phone[p].boot = "clear"
          /\ phone' = [phone EXCEPT ![p] = [Cleared(p) EXCEPT !.boot = "load"]]
       \/ /\ phone[p].boot = "load"
          /\ phone' = [phone EXCEPT ![p] = [@ EXCEPT !.boot = "set", !.loaded = phone[p].access # 0]]
       \/ /\ phone[p].boot = "set"
          /\ phone' = [phone EXCEPT ![p] = [@ EXCEPT !.boot = "done", !.flag = phone[p].loaded,
                                                     !.loaded = FALSE]]
    /\ LET late == IF phone[p].boot = "clear" /\ Refreshing(p) THEN {p} ELSE {}
       IN torn' = torn \cup late /\ misled' = misled \cup late
    /\ UNCHANGED <<serverVars, task, kills>>

\* The app is killed: the server goes on with what it was asked, nobody hears the answer.
Stopped(p, rec) == IF rec.pc \in OnServer THEN [rec EXCEPT !.heard = FALSE] ELSE IdleTask
Kill(p) ==
    /\ phone[p].up /\ kills < MaxKills /\ kills' = kills + 1
    /\ phone' = [phone EXCEPT ![p] = [@ EXCEPT !.up = FALSE, !.flag = FALSE, !.boot = "done",
                                               !.loaded = FALSE]]
    /\ task' = [t \in Tasks |-> IF Owner(t) = p THEN Stopped(p, task[t]) ELSE task[t]]
    /\ torn' = IF task[<<p, "pair">>].pc = "refresh" THEN torn \cup {p} ELSE torn
    /\ UNCHANGED <<serverVars, misled>>

\* The Keychain survives, the flag of the first launch does not; Android forgets both.
Reinstall(p) ==
    /\ ~phone[p].up /\ phone[p].launched
    /\ phone' = [phone EXCEPT ![p] = IF p \in AndroidPhones THEN NewPhone
                                     ELSE [@ EXCEPT !.launched = FALSE]]
    /\ torn' = torn \ (IF p \in AndroidPhones THEN {p} ELSE {})
    /\ UNCHANGED <<serverVars, task, kills, misled>>

Next ==
    \/ \E r \in Rows, c \in Codes, e \in Emails : PairSendLink(r, c, e)
    \/ \E r \in Rows, c \in Codes, u \in InvitedUsers : PairInitiate(r, c, u)
    \/ \E r \in Rows : Expire(r)
    \/ \E t \in Tasks : PairComplete(t) \/ Rollback(t) \/ PhoneStep(t)
    \/ \E p \in Refreshers : TokenRefresh(p)
    \/ \E p \in Phones : Launch(p) \/ Boot(p) \/ Kill(p) \/ Reinstall(p)
    \/ \E p \in Phones, c \in Codes : CompletePairing(p, c)

Spec == Init /\ [][Next]_vars

(***************************************************************************)
(* Properties                                                              *)
(***************************************************************************)
Pcs == {"idle"} \cup OnServer \cup Saves

\* The type of the state; a row is held by an open transaction only.
TypeOK ==
    /\ codes \in [Rows -> [code: Codes \cup {None}, email: Emails \cup {None},
                           owner: 0..MaxUser, used: BOOLEAN, expired: BOOLEAN]]
    /\ \A r \in Rows : holder[r] # <<>> =>
         holder[r] \in Tasks /\ task[holder[r]].pc = "commit"
    /\ users \subseteq UserIds /\ nextId \in 1..(MaxUser + 1)
    /\ \A d \in devices : d.row \in Rows /\ d.user \in users /\ d.id \in Nat
    /\ \A t \in Tasks : task[t].pc \in Pcs /\ task[t].late \subseteq Rows
    /\ \A p \in Phones : phone[p].access \in 0..MaxUser /\ phone[p].refresh \in Nat
                         /\ phone[p].boot \in {"done", "clear", "load", "set"}
    /\ kills \in 0..MaxKills /\ torn \subseteq Phones /\ misled \subseteq Phones

\* A code signs in one device: of two phones that complete it at once the second finds
\* it used (the compare-and-swap of auth/router.py:127), and a lost answer, a rollback or
\* a second row with the same digits never makes it good again.
OneDevicePerCode == \A d, e \in devices : d.row = e.row => d = e

\* A code made for a user signs in that user, and a magic link never signs in somebody
\* else: its user is new, or had a code for the same address (auth/router.py:148).
\* Users created under an explicit id, past the sequence, must not be met by it.
StrangersStayApart == [][\A d \in devices' \ devices : LET row == codes[d.row] IN
    /\ row.owner # 0 => d.user = row.owner
    /\ row.owner = 0 /\ d.user \in users =>
         \E r \in Rows : codes[r].email = row.email /\ codes[r].owner = d.user]_vars

\* Whatever writes of a phone cross, fail or are cut off, the server knows each of its
\* tokens, and no other phone has its refresh token.  Both are of one device: except
\* between the two writes of a pairing, and when the second failed or was cut off, or an
\* access token that had been asked for before came in after them.
PhoneTokensAgree == \A p \in Phones : LET x == phone[p] IN
    /\ x.access # 0 => \E d \in devices : d.user = x.access
    /\ x.refresh # 0 => /\ \E d \in devices : d.id = x.refresh
                         /\ \A q \in Phones \ {p} : phone[q].refresh # x.refresh
    /\ p \notin torn /\ task[<<p, "pair">>].pc # "refresh" /\ x.access # 0 =>
         \E d \in devices : d.id = x.refresh /\ d.user = x.access

\* From the end of its launch on an app shows the right screen for what it has stored,
\* wherever it was killed before and however its pairings and refreshes cross: unless a
\* write failed, or was made while Android's launch was still at work.  The next launch
\* sets that right.
FlagShowsToken == \A p \in Phones :
    phone[p].up /\ p \notin misled /\ ~Booting(p) /\ task[<<p, "pair">>].pc \notin {"refresh", "flag"}
        => phone[p].flag = (phone[p].access # 0)

\* What auth/router.py:146 says of a magic link: an existing user is found by the address.
SameAddressSameUser == \A d, e \in devices :
    codes[d.row].email # None /\ codes[d.row].email = codes[e.row].email => d.user = e.user
=============================================================================
