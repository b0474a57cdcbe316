---------------------------- MODULE PairingProofs ----------------------------
(***************************************************************************)
(* Proofs about Pairing, for any number of phones, codes, addresses and    *)
(* users.                                                                  *)
(***************************************************************************)
EXTENDS Pairing, FiniteSetTheorems, TLAPS

(***************************************************************************)
(* The inductive invariant: the server                                     *)
(***************************************************************************)
CodeType == [code: Codes \cup {None}, email: Emails \cup {None}, owner: 0..MaxUser,
             used: BOOLEAN, expired: BOOLEAN]
TaskType == [pc: Pcs, code: Codes \cup {None}, late: SUBSET Rows, hit: Rows \cup {None},
             user: 0..MaxUser, token: Nat, heard: BOOLEAN]
PhoneType == [access: 0..MaxUser, refresh: Nat, flag: BOOLEAN, launched: BOOLEAN, up: BOOLEAN,
              boot: {"done", "clear", "load", "set"}, loaded: BOOLEAN]
DeviceType == [row: Rows, user: UserIds, id: Nat \ {0}]

Types ==
    /\ codes \in [Rows -> CodeType] /\ holder \in [Rows -> Tasks \cup {<<>>}]
    /\ users \subseteq UserIds /\ nextId \in 1..(MaxUser + 1)
    /\ devices \subseteq DeviceType /\ IsFiniteSet(devices)
    /\ task \in [Tasks -> TaskType] /\ phone \in [Phones -> PhoneType]
    /\ kills \in 0..MaxKills /\ torn \subseteq Phones /\ misled \subseteq Phones

\* The rows an open transaction has updated are good until it commits.
HeldRows == \A r \in Rows : holder[r] # <<>> =>
    holder[r] \in Tasks /\ task[holder[r]].pc = "commit" /\ ~codes[r].used

\* Who a transaction is about to sign in: the owner of its code, somebody known by the
\* address, or a user nobody else is.
RightUser(t) == LET c == codes[task[t].hit]  u == task[t].user IN
    \/ c.owner # 0 /\ u = c.owner
    \/ c.owner = 0 /\ \E r \in Rows : codes[r].email = c.email /\ codes[r].owner = u
    \/ c.owner = 0 /\ u \notin users /\ u < nextId

OnTheServer(t) ==
    /\ task[t].pc = "update" => task[t].code # None
    /\ task[t].pc = "commit" => /\ task[t].hit \in Rows /\ holder[task[t].hit] = t
                                /\ codes[task[t].hit].code # None
                                /\ task[t].user \in UserIds /\ RightUser(t)

NewUsersApart == \A t, s \in Tasks :
    t # s /\ task[t].pc = "commit" /\ task[s].pc = "commit" /\ task[t].user \notin users
        => task[t].user # task[s].user

DevicesOK == \A d \in devices : d.user \in users /\ codes[d.row].used
OwnersExist == \A r \in Rows : codes[r].owner # 0 => codes[r].owner \in users

\* A new device has a number no other has.
IdsBelow == \A d \in devices : d.id <= Cardinality(devices)

ServerInv ==
    /\ HeldRows /\ \A t \in Tasks : OnTheServer(t)
    /\ NewUsersApart /\ DevicesOK /\ OwnersExist /\ OneDevicePerCode /\ IdsBelow

(***************************************************************************)
(* The inductive invariant: the phones                                     *)
(***************************************************************************)
Has(id, user) == \E d \in devices : d.id = id /\ d.user = user

TaskOK(t) ==
    /\ t[2] = "refresh" => task[t].pc \in {"idle", "access"}
    /\ task[t].pc # "idle" /\ task[t].heard => phone[Owner(t)].up
    /\ task[t].pc \in Saves => task[t].heard

Owned(user) == \E d \in devices : d.user = user
Issued(id) == \E d \in devices : d.id = id

\* What a phone has and is about to have, however its writes crossed or failed.
Sound(p) == LET x == phone[p]  t == task[<<p, "pair">>] IN
    /\ t.pc \in Saves => Has(t.token, t.user)
    /\ Refreshing(p) => Owned(task[<<p, "refresh">>].user)
    /\ x.access # 0 => Owned(x.access)
    /\ x.refresh # 0 => Issued(x.refresh)
    /\ ~x.up => x.boot = "done"

\* What a phone has when it is not torn, and between the two writes of a pairing.
Whole(p) == LET x == phone[p]  t == task[<<p, "pair">>] IN p \notin torn =>
    /\ t.pc = "refresh" => x.access \in {0, t.user}
    /\ t.pc # "refresh" => /\ x.access = 0 \/ Has(x.refresh, x.access)
                           /\ Refreshing(p) => Has(x.refresh, task[<<p, "refresh">>].user)

\* The screen and what is stored, through the launch and through a pairing.
Shown(p) == LET x == phone[p]  writing == task[<<p, "pair">>].pc \in {"refresh", "flag"} IN
    p \notin misled =>
      /\ x.up /\ x.boot = "done" /\ ~writing => x.flag = (x.access # 0)
      /\ x.boot = "set" => x.loaded = (x.access # 0)
      /\ writing => x.access # 0 /\ x.boot = "done"
      /\ Refreshing(p) => x.access # 0

PhoneOK(p) == Sound(p) /\ Whole(p) /\ Shown(p)

\* No two phones have, or are about to have, the same refresh token.
Apart == \A p, q \in Phones : p # q =>
    /\ phone[p].refresh # 0 => phone[p].refresh # phone[q].refresh
    /\ task[<<p, "pair">>].pc \in Saves =>
         /\ task[<<p, "pair">>].token # phone[q].refresh
         /\ task[<<q, "pair">>].pc \in Saves =>
              task[<<p, "pair">>].token # task[<<q, "pair">>].token

PhoneInv == (\A t \in Tasks : TaskOK(t)) /\ (\A p \in Phones : PhoneOK(p)) /\ Apart

IInv == Types /\ ServerInv /\ PhoneInv

LEMMA TaskShape ==
    ASSUME NEW t \in Tasks
    PROVE  /\ Owner(t) \in Phones /\ t = <<Owner(t), t[2]>> /\ t[2] \in {"pair", "refresh"}
           /\ t[2] = "refresh" => Owner(t) \in Refreshers
  BY PairingAssumption DEF Tasks, Owner

LEMMA TaskNames ==
    /\ \A p \in Phones : <<p, "pair">> \in Tasks /\ Owner(<<p, "pair">>) = p
    /\ \A p \in Refreshers : <<p, "refresh">> \in Tasks /\ Owner(<<p, "refresh">>) = p
    /\ <<>> \notin Tasks
  BY DEF Tasks, Owner

LEMMA InvariantImplies ==
    IInv => TypeOK /\ OneDevicePerCode /\ PhoneTokensAgree /\ FlagShowsToken
<1> SUFFICES ASSUME IInv
             PROVE  TypeOK /\ OneDevicePerCode /\ PhoneTokensAgree /\ FlagShowsToken
  OBVIOUS
<1>1. TypeOK
  BY DEF IInv, Types, ServerInv, HeldRows, DevicesOK, TypeOK, CodeType, TaskType, PhoneType,
         DeviceType
<1>2. OneDevicePerCode
  BY DEF IInv, ServerInv
<1>3. PhoneTokensAgree
  <2> SUFFICES ASSUME NEW p \in Phones
               PROVE  LET x == phone[p] IN
                      /\ x.access # 0 => \E d \in devices : d.user = x.access
                      /\ x.refresh # 0 => /\ \E d \in devices : d.id = x.refresh
                                           /\ \A q \in Phones \ {p} : phone[q].refresh # x.refresh
                      /\ p \notin torn /\ task[<<p, "pair">>].pc # "refresh" /\ x.access # 0 =>
                           \E d \in devices : d.id = x.refresh /\ d.user = x.access
    BY DEF PhoneTokensAgree
  <2>1. Sound(p) /\ Whole(p) /\ Apart
    BY DEF IInv, PhoneInv, PhoneOK
  <2>2. \A q \in Phones \ {p} : phone[p].refresh # 0 => phone[q].refresh # phone[p].refresh
    BY <2>1 DEF Apart
  <2>3. QED
    BY <2>1, <2>2 DEF Sound, Whole, Owned, Issued, Has
<1>4. FlagShowsToken
  BY DEF IInv, PhoneInv, PhoneOK, Shown, Booting, FlagShowsToken
<1>5. QED
  BY <1>1, <1>2, <1>3, <1>4

LEMMA IdleTaskType == IdleTask \in TaskType /\ IdleTask.pc = "idle" /\ "idle" \notin Saves
  BY PairingAssumption DEF IdleTask, TaskType, Pcs, Saves

LEMMA InitInvariant == Init => IInv
<1> SUFFICES ASSUME Init PROVE IInv
  OBVIOUS
<1>1. Types
  <2>1. NoCode \in CodeType /\ NewPhone \in PhoneType
    BY PairingAssumption DEF NoCode, CodeType, NewPhone, PhoneType
  <2>2. IsFiniteSet({})
    BY FS_EmptySet
  <2>3. 1 \in 1..(MaxUser + 1) /\ 0 \in 0..MaxKills
    BY PairingAssumption
  <2>4. QED
    BY <2>1, <2>2, <2>3, IdleTaskType DEF Init, Types
<1>2. ServerInv
  BY IdleTaskType DEF Init, ServerInv, HeldRows, OnTheServer, NewUsersApart, DevicesOK,
                      OwnersExist, OneDevicePerCode, IdsBelow, NoCode, IdleTask
<1>3. PhoneInv
  <2>1. \A t \in Tasks : task[t].pc = "idle"
    BY IdleTaskType DEF Init
  <2>2. \A p \in Phones : /\ phone[p].access = 0 /\ phone[p].refresh = 0 /\ ~phone[p].up
                          /\ phone[p].boot = "done" /\ ~phone[p].flag
    BY DEF Init, NewPhone
  <2>3. QED
    <3>1. \A p \in Phones : task[<<p, "pair">>].pc = "idle" /\ ~Refreshing(p)
      BY <2>1, TaskNames DEF Refreshing
    <3>2. \A p \in Phones : Sound(p) /\ Whole(p) /\ Shown(p)
      BY <2>2, <3>1 DEF Sound, Whole, Shown, Saves
    <3>3. Apart
      BY <2>2, <3>1 DEF Apart, Saves
    <3>4. QED
      BY <2>1, <3>2, <3>3 DEF PhoneInv, TaskOK, PhoneOK, Saves
<1>4. QED
  BY <1>1, <1>2, <1>3 DEF IInv

(***************************************************************************)
(* What a step leaves alone                                                *)
(***************************************************************************)
LEMMA TaskKept ==
    ASSUME NEW t \in Tasks, TaskOK(t), task'[t] = task[t], phone'[Owner(t)] = phone[Owner(t)]
    PROVE  TaskOK(t)'
  BY DEF TaskOK, Owner

LEMMA DevicesStay ==
    ASSUME devices \subseteq devices'
    PROVE  /\ \A i, u : Has(i, u) => Has(i, u)'
           /\ \A u : Owned(u) => Owned(u)'
           /\ \A i : Issued(i) => Issued(i)'
  BY DEF Has, Owned, Issued

LEMMA PhoneKept ==
    ASSUME NEW p \in Phones, PhoneOK(p), phone'[p] = phone[p],
           p \in torn' <=> p \in torn, p \in misled' <=> p \in misled,
           task'[<<p, "pair">>] = task[<<p, "pair">>],
           p \in Refreshers => task'[<<p, "refresh">>] = task[<<p, "refresh">>],
           devices \subseteq devices'
    PROVE  PhoneOK(p)'
<1>1. Refreshing(p)' = Refreshing(p)
  BY DEF Refreshing
<1>2. Refreshing(p) => p \in Refreshers
  BY DEF Refreshing
<1>3. Sound(p)'
  BY <1>1, <1>2, DevicesStay DEF PhoneOK, Sound
<1>4. Whole(p)'
  BY <1>1, <1>2, DevicesStay DEF PhoneOK, Whole
<1>5. Shown(p)'
  BY <1>1 DEF PhoneOK, Shown
<1>6. QED
  BY <1>3, <1>4, <1>5 DEF PhoneOK

\* A refresh token a phone saves is the one its pairing got.
LEMMA ApartKept ==
    ASSUME Apart,
           \A p \in Phones :
             /\ task'[<<p, "pair">>].pc \in Saves =>
                  task[<<p, "pair">>].pc \in Saves
                  /\ task'[<<p, "pair">>].token = task[<<p, "pair">>].token
             /\ \/ phone'[p].refresh \in {0, phone[p].refresh}
                \/ /\ task[<<p, "pair">>].pc \in Saves
                   /\ phone'[p].refresh = task[<<p, "pair">>].token,
           \A p \in Phones : task[<<p, "pair">>].pc \in Saves => task[<<p, "pair">>].token # 0
    PROVE  Apart'
<1> SUFFICES ASSUME NEW p \in Phones, NEW q \in Phones, p # q
             PROVE  /\ phone'[p].refresh # 0 => phone'[p].refresh # phone'[q].refresh
                    /\ task'[<<p, "pair">>].pc \in Saves =>
                         /\ task'[<<p, "pair">>].token # phone'[q].refresh
                         /\ task'[<<q, "pair">>].pc \in Saves =>
                              task'[<<p, "pair">>].token # task'[<<q, "pair">>].token
  BY DEF Apart
<1> DEFINE has(x) == phone[x].refresh  gets(x) == task[<<x, "pair">>].token
           saves(x) == task[<<x, "pair">>].pc \in Saves
<1>1. /\ has(p) # 0 => has(p) # has(q)
      /\ has(q) # 0 => has(q) # has(p)
      /\ saves(p) => gets(p) # has(q) /\ (saves(q) => gets(p) # gets(q))
      /\ saves(q) => gets(q) # has(p)
      /\ (saves(p) => gets(p) # 0) /\ (saves(q) => gets(q) # 0)
  BY DEF Apart
<1>2. /\ phone'[p].refresh \in {0, has(p)} \/ (saves(p) /\ phone'[p].refresh = gets(p))
      /\ phone'[q].refresh \in {0, has(q)} \/ (saves(q) /\ phone'[q].refresh = gets(q))
      /\ task'[<<p, "pair">>].pc \in Saves => saves(p) /\ task'[<<p, "pair">>].token = gets(p)
      /\ task'[<<q, "pair">>].pc \in Saves => saves(q) /\ task'[<<q, "pair">>].token = gets(q)
  OBVIOUS
<1> HIDE DEF has, gets, saves
<1>3. QED
  BY <1>1, <1>2

\* Steps of the server alone: no transaction takes part.
LEMMA PhonesUntouched ==
    ASSUME PhoneInv, UNCHANGED <<task, phone, torn, misled>>, devices \subseteq devices'
    PROVE  PhoneInv'
<1>1. Apart'
  BY DEF PhoneInv, Apart
<1>2. QED
  BY <1>1, TaskKept, PhoneKept DEF PhoneInv

\* Steps of the phones alone: the transactions are where they were.
LEMMA ServerUntouched ==
    ASSUME ServerInv, UNCHANGED <<codes, holder, users, nextId, devices>>,
           \A t \in Tasks : \/ task'[t] = task[t]
                            \/ /\ task[t].pc # "commit" /\ task'[t].pc # "commit"
                               /\ task'[t].pc = "update" => task'[t].code # None
                            \/ /\ task'[t].pc = task[t].pc /\ task'[t].hit = task[t].hit
                               /\ task'[t].user = task[t].user /\ task'[t].code = task[t].code
    PROVE  ServerInv'
<1>1. \A t \in Tasks : task'[t].pc = "commit" \/ task[t].pc = "commit" =>
        task'[t].pc = task[t].pc /\ task'[t].hit = task[t].hit /\ task'[t].user = task[t].user
  OBVIOUS
<1>2. \A t \in Tasks : task'[t].pc = "update" => task'[t].code # None
  BY DEF ServerInv, OnTheServer
<1>3. HeldRows'
  BY <1>1 DEF ServerInv, HeldRows
<1>4. \A t \in Tasks : OnTheServer(t)'
  BY <1>1, <1>2 DEF ServerInv, OnTheServer, RightUser
<1>5. NewUsersApart'
  BY <1>1 DEF ServerInv, NewUsersApart
<1>6. DevicesOK' /\ OwnersExist' /\ OneDevicePerCode' /\ IdsBelow'
  BY DEF ServerInv, DevicesOK, OwnersExist, OneDevicePerCode, IdsBelow
<1>7. QED
  BY <1>3, <1>4, <1>5, <1>6 DEF ServerInv

(***************************************************************************)
(* Codes                                                                   *)
(***************************************************************************)
\* A code keeps its address and its owner, and nobody takes the id of a user who is
\* about to be created.
LEMMA CodesStep ==
    ASSUME IInv, UNCHANGED <<task, holder, nextId, devices>>, users \subseteq users',
           \A r \in Rows : codes[r].code # None \/ codes[r].owner # 0 =>
              codes'[r].code = codes[r].code /\ codes'[r].email = codes[r].email
              /\ codes'[r].owner = codes[r].owner,
           \A r \in Rows : codes'[r].used = codes[r].used,
           \A r \in Rows : codes'[r].owner # 0 => codes'[r].owner \in users',
           \A t \in Tasks : task[t].pc = "commit" /\ task[t].user \in users' => task[t].user \in users
    PROVE  ServerInv'
<1>1. HeldRows'
  BY DEF IInv, ServerInv, HeldRows
<1>2. ASSUME NEW t \in Tasks PROVE OnTheServer(t)'
  <2>1. task[t].pc = "update" => task[t].code # None
    BY DEF IInv, ServerInv, OnTheServer
  <2>2. task[t].pc = "commit" =>
          /\ task[t].hit \in Rows /\ holder[task[t].hit] = t /\ codes'[task[t].hit].code # None
          /\ task[t].user \in UserIds
    BY DEF IInv, ServerInv, OnTheServer
  <2>3. task[t].pc = "commit" => RightUser(t)'
    <3> SUFFICES ASSUME task[t].pc = "commit" PROVE RightUser(t)'
      OBVIOUS
    <3> DEFINE c == codes[task[t].hit]  u == task[t].user
    <3>1. RightUser(t) /\ task[t].hit \in Rows /\ c.code # None /\ u # 0
      BY DEF IInv, ServerInv, OnTheServer, UserIds
    <3>2. codes'[task[t].hit].owner = c.owner /\ codes'[task[t].hit].email = c.email
      BY <3>1
    <3>3. CASE c.owner # 0 /\ u = c.owner
      BY <3>2, <3>3 DEF RightUser
    <3>4. CASE c.owner = 0 /\ \E r \in Rows : codes[r].email = c.email /\ codes[r].owner = u
      <4>1. PICK r \in Rows : codes[r].email = c.email /\ codes[r].owner = u
        BY <3>4
      <4>2. codes'[r].email = c.email /\ codes'[r].owner = u
        BY <3>1, <4>1
      <4>3. QED
        BY <3>2, <3>4, <4>2 DEF RightUser
    <3>5. CASE c.owner = 0 /\ u \notin users /\ u < nextId
      BY <3>2, <3>5 DEF RightUser
    <3>6. QED
      BY <3>1, <3>3, <3>4, <3>5 DEF RightUser
  <2>4. QED
    BY <2>1, <2>2, <2>3 DEF OnTheServer
<1>3. NewUsersApart'
  BY DEF IInv, ServerInv, NewUsersApart
<1>4. DevicesOK' /\ OwnersExist' /\ OneDevicePerCode' /\ IdsBelow'
  BY DEF IInv, ServerInv, DevicesOK, OwnersExist, OneDevicePerCode, IdsBelow, Types, DeviceType
<1>5. QED
  BY <1>1, <1>2, <1>3, <1>4 DEF ServerInv

LEMMA IssueInvariant ==
    ASSUME IInv, NEW r \in Rows, NEW code \in Codes,
           (\E e \in Emails : PairSendLink(r, code, e))
           \/ (\E u \in InvitedUsers : PairInitiate(r, code, u))
    PROVE  IInv'
<1>1. PICK e \in Emails \cup {None}, o \in 0..MaxUser :
        /\ Issue(r, code, e, o) /\ (o # 0 => o \in users') /\ users \subseteq users'
        /\ users' \subseteq UserIds
        /\ \A t \in Tasks : task[t].pc = "commit" /\ task[t].user \in users' => task[t].user \in users
  <2>1. CASE \E e \in Emails : PairSendLink(r, code, e)
    BY <2>1, PairingAssumption DEF PairSendLink, IInv, Types
  <2>2. CASE \E u \in InvitedUsers : PairInitiate(r, code, u)
    <3>1. PICK u \in InvitedUsers : PairInitiate(r, code, u)
      BY <2>2
    <3>2. u \in 1..MaxUser /\ u \in 0..MaxUser
      BY PairingAssumption
    <3>3. QED
      BY <3>1, <3>2 DEF PairInitiate, IInv, Types, UserIds
  <2>3. QED
    BY <2>1, <2>2
<1> DEFINE new == [NoCode EXCEPT !.code = code, !.email = e, !.owner = o]
<1>2. /\ codes[r] = NoCode /\ codes' = [codes EXCEPT ![r] = new]
      /\ UNCHANGED <<holder, nextId, devices, task, phone, kills, torn, misled>>
  BY <1>1 DEF Issue
<1>3. /\ NoCode.code = None /\ NoCode.owner = 0 /\ NoCode.used = FALSE
      /\ new \in CodeType /\ new.owner = o /\ new.used = FALSE
  BY PairingAssumption DEF NoCode, CodeType
<1>4. /\ codes' \in [Rows -> CodeType] /\ codes'[r] = new
      /\ \A q \in Rows \ {r} : codes'[q] = codes[q]
  BY <1>2, <1>3 DEF IInv, Types
<1>5. Types'
  BY <1>1, <1>2, <1>4 DEF IInv, Types
<1>6. \A q \in Rows : codes[q].code # None \/ codes[q].owner # 0 => q # r
  BY <1>2, <1>3
<1>7. \A q \in Rows : codes'[q].used = codes[q].used
  BY <1>2, <1>3, <1>4
<1>8. \A q \in Rows : codes'[q].owner # 0 => codes'[q].owner \in users'
  BY <1>1, <1>3, <1>4 DEF IInv, ServerInv, OwnersExist
<1> HIDE DEF new
<1>9. ServerInv'
  BY <1>1, <1>2, <1>4, <1>6, <1>7, <1>8, CodesStep
<1>10. QED
  BY <1>2, <1>5, <1>9, PhonesUntouched DEF IInv

LEMMA ExpireInvariant ==
    ASSUME IInv, NEW r \in Rows, Expire(r) PROVE IInv'
<1>1. /\ codes' = [codes EXCEPT ![r].expired = TRUE]
      /\ UNCHANGED <<holder, users, nextId, devices, task, phone, kills, torn, misled>>
  BY DEF Expire
<1>2. codes' \in [Rows -> CodeType] /\ \A q \in Rows :
        codes'[q].code = codes[q].code /\ codes'[q].email = codes[q].email
        /\ codes'[q].owner = codes[q].owner /\ codes'[q].used = codes[q].used
  <2>1. PICK old : old = codes[r] /\ old \in CodeType
    BY DEF IInv, Types
  <2> DEFINE new == [old EXCEPT !.expired = TRUE]
  <2>2. /\ new \in CodeType /\ new.code = old.code /\ new.email = old.email
        /\ new.owner = old.owner /\ new.used = old.used
    BY <2>1 DEF CodeType
  <2>3. codes' = [codes EXCEPT ![r] = new] /\ codes \in [Rows -> CodeType]
    BY <1>1, <2>1 DEF IInv, Types
  <2> HIDE DEF new
  <2>4. QED
    BY <2>1, <2>2, <2>3
<1>3. Types'
  BY <1>1, <1>2 DEF IInv, Types
<1>4. ServerInv'
  BY <1>1, <1>2, CodesStep DEF IInv, ServerInv, OwnersExist
<1>5. QED
  BY <1>1, <1>3, <1>4, PhonesUntouched DEF IInv

(***************************************************************************)
(* The transaction of pair_complete                                        *)
(***************************************************************************)
LEMMA OnlyPairsOnTheServer ==
    ASSUME IInv, NEW t \in Tasks, task[t].pc \in OnServer
    PROVE  t[2] = "pair" /\ t = <<Owner(t), "pair">>
  BY TaskShape DEF IInv, PhoneInv, TaskOK, OnServer

\* For its phone, a call that comes back empty-handed is one that never was, and one that
\* comes back with tokens has a refresh token nobody else has.
LEMMA PhoneOfServerStep ==
    ASSUME IInv, NEW t \in Tasks, task[t].pc \in OnServer, NEW rec \in TaskType, Step(t, rec),
           UNCHANGED <<phone, torn, misled>>, devices \subseteq devices',
           rec.pc \in OnServer \cup {"idle", "access"},
           rec.heard => task[t].heard \/ rec.pc = "idle",
           rec.pc = "access" => /\ rec.heard /\ Has(rec.token, rec.user)'
                                /\ rec.token # 0 /\ \A d \in devices : d.id # rec.token
    PROVE  PhoneInv'
<1> DEFINE p == Owner(t)
<1>1. t = <<p, "pair">> /\ p \in Phones
  BY OnlyPairsOnTheServer, TaskShape
<1>2. task'[t] = rec /\ \A s \in Tasks \ {t} : task'[s] = task[s]
  BY DEF Step, IInv, Types
<1>3. ASSUME NEW s \in Tasks PROVE TaskOK(s)'
  <2>1. TaskOK(s)
    BY DEF IInv, PhoneInv
  <2>2. CASE s = t
    BY <1>1, <1>2, <2>1, <2>2 DEF TaskOK, OnServer, Saves
  <2>3. CASE s # t
    BY <1>2, <2>1, <2>3, TaskKept
  <2>4. QED
    BY <2>2, <2>3
<1>4. ASSUME NEW q \in Phones
      PROVE  /\ PhoneOK(q) /\ <<q, "pair">> \in Tasks /\ phone'[q] = phone[q]
             /\ q # p => task'[<<q, "pair">>] = task[<<q, "pair">>]
             /\ q \in Refreshers => task'[<<q, "refresh">>] = task[<<q, "refresh">>]
  BY <1>1, <1>2, TaskNames DEF IInv, PhoneInv
<1>5. task[<<p, "pair">>].pc \in OnServer /\ task'[<<p, "pair">>] = rec
  BY <1>1, <1>2
<1>6. ASSUME NEW q \in Phones PROVE PhoneOK(q)'
  <2>1. CASE q = p
    <3>1. Refreshing(q)' = Refreshing(q) /\ (Refreshing(q) => q \in Refreshers)
      BY <1>4 DEF Refreshing
    <3>2. Sound(q)'
      BY <1>4, <1>5, <2>1, <3>1, DevicesStay DEF PhoneOK, Sound, OnServer, Saves
    <3>3. Whole(q)'
      BY <1>4, <1>5, <2>1, <3>1, DevicesStay DEF PhoneOK, Whole, OnServer
    <3>4. Shown(q)'
      BY <1>4, <1>5, <2>1, <3>1 DEF PhoneOK, Shown, OnServer
    <3>5. QED
      BY <3>2, <3>3, <3>4 DEF PhoneOK
  <2>2. CASE q # p
    BY <1>4, <2>2, PhoneKept
  <2>3. QED
    BY <2>1, <2>2
<1>7. Apart'
  <2>1. ASSUME NEW q \in Phones, rec.pc = "access"
        PROVE  /\ rec.token # phone[q].refresh
               /\ task[<<q, "pair">>].pc \in Saves => rec.token # task[<<q, "pair">>].token
    <3>1. Sound(q) /\ rec.token # 0 /\ \A d \in devices : d.id # rec.token
      BY <1>4, <2>1 DEF PhoneOK
    <3>2. QED
      BY <3>1 DEF Sound, Issued, Has
  <2>2. rec.pc \in Saves => rec.pc = "access"
    BY DEF OnServer, Saves
  <2>3. SUFFICES ASSUME NEW a \in Phones, NEW b \in Phones, a # b
                 PROVE  /\ phone'[a].refresh # 0 => phone'[a].refresh # phone'[b].refresh
                        /\ task'[<<a, "pair">>].pc \in Saves =>
                             /\ task'[<<a, "pair">>].token # phone'[b].refresh
                             /\ task'[<<b, "pair">>].pc \in Saves =>
                                  task'[<<a, "pair">>].token # task'[<<b, "pair">>].token
    BY DEF Apart
  <2>4. /\ phone[a].refresh # 0 => phone[a].refresh # phone[b].refresh
        /\ task[<<a, "pair">>].pc \in Saves =>
             /\ task[<<a, "pair">>].token # phone[b].refresh
             /\ task[<<b, "pair">>].pc \in Saves =>
                  task[<<a, "pair">>].token # task[<<b, "pair">>].token
    <3>1. Apart
      BY DEF IInv, PhoneInv
    <3>2. QED
      BY <2>3, <3>1 DEF Apart
  <2>5. CASE a = p
    BY <1>4, <1>5, <2>1, <2>2, <2>3, <2>4, <2>5
  <2>6. CASE b = p
    BY <1>4, <1>5, <2>1, <2>2, <2>3, <2>4, <2>6
  <2>7. CASE a # p /\ b # p
    BY <1>4, <2>3, <2>4, <2>7
  <2>8. QED
    BY <2>5, <2>6, <2>7
<1>8. QED
  BY <1>3, <1>6, <1>7 DEF PhoneInv

LEMMA RefuseInvariant ==
    ASSUME IInv, NEW t \in Tasks, task[t].pc \in OnServer, Refuse(t), nextId \in Nat,
           nextId' \in nextId..(MaxUser + 1)
    PROVE  IInv'
<1>1. Step(t, IdleTask) /\ holder' = Release(t)
      /\ UNCHANGED <<codes, users, devices, phone, kills, torn, misled>>
  BY DEF Refuse
<1>2. task'[t] = IdleTask /\ \A s \in Tasks \ {t} : task'[s] = task[s]
  BY <1>1 DEF Step, IInv, Types
<1>3. \A r \in Rows : holder'[r] = IF holder[r] = t THEN <<>> ELSE holder[r]
  BY <1>1 DEF Release
<1>4. Types'
  <2>1. task' \in [Tasks -> TaskType]
    BY <1>1, IdleTaskType DEF Step, IInv, Types
  <2>2. holder' \in [Rows -> Tasks \cup {<<>>}]
    BY <1>1 DEF Release, IInv, Types
  <2>3. nextId' \in 1..(MaxUser + 1)
    BY PairingAssumption DEF IInv, Types
  <2>4. QED
    BY <1>1, <2>1, <2>2, <2>3 DEF IInv, Types
<1>5. ServerInv'
  <2>1. HeldRows'
    BY <1>1, <1>2, <1>3 DEF IInv, ServerInv, HeldRows
  <2>2. ASSUME NEW s \in Tasks PROVE OnTheServer(s)'
    <3>1. CASE s = t
      BY <1>2, <3>1, IdleTaskType DEF OnTheServer
    <3>2. CASE s # t
      <4>1. OnTheServer(s) /\ task'[s] = task[s]
        BY <1>2, <3>2 DEF IInv, ServerInv
      <4>2. task[s].pc = "commit" => RightUser(s)'
        <5>1. nextId' \in Nat /\ nextId' >= nextId
          BY PairingAssumption
        <5>2. \A u \in Nat : u < nextId => u < nextId'
          BY <5>1
        <5>2a. task[s].user \in UserIds => task[s].user \in Nat
          BY PairingAssumption DEF UserIds
        <5>3. QED
          BY <1>1, <4>1, <5>2, <5>2a DEF OnTheServer, RightUser
      <4>3. QED
        BY <1>1, <1>3, <3>2, <4>1, <4>2 DEF OnTheServer
    <3>3. QED
      BY <3>1, <3>2
  <2>3. NewUsersApart'
    BY <1>1, <1>2, IdleTaskType DEF IInv, ServerInv, NewUsersApart
  <2>4. DevicesOK' /\ OwnersExist' /\ OneDevicePerCode' /\ IdsBelow'
    BY <1>1 DEF IInv, ServerInv, DevicesOK, OwnersExist, OneDevicePerCode, IdsBelow
  <2>5. QED
    BY <2>1, <2>2, <2>3, <2>4 DEF ServerInv
<1>6. PhoneInv'
  BY <1>1, IdleTaskType, PhoneOfServerStep
<1>7. QED
  BY <1>4, <1>5, <1>6 DEF IInv

\* Who is new has an id of the sequence that is given out already.
LEMMA NewUsersBelow ==
    ASSUME IInv, NEW s \in Tasks, task[s].pc = "commit", task[s].user \notin users
    PROVE  task[s].user < nextId
  BY DEF IInv, ServerInv, OnTheServer, RightUser, OwnersExist, UserIds

\* What the UPDATE, the look for an earlier user and the flush leave behind.
LEMMA SwapInvariant ==
    ASSUME IInv, NEW t \in Tasks, task[t].pc = "update", NEW r \in Matching(t), NEW u \in UserFor(r),
           \A q \in Matching(t) : holder[q] = <<>>,
           Known(codes[r]) = {} => nextId <= MaxUser,
           nextId' = (IF Known(codes[r]) = {} THEN nextId + 1 ELSE nextId), ~NewUserFails(r),
           holder' = [q \in Rows |-> IF q \in Matching(t) THEN t ELSE holder[q]],
           Step(t, [IdleTask EXCEPT !.pc = "commit", !.hit = r, !.user = u, !.heard = task[t].heard]),
           UNCHANGED <<codes, users, devices, phone, kills, torn, misled>>
    PROVE  IInv'
<1> DEFINE new == [IdleTask EXCEPT !.pc = "commit", !.hit = r, !.user = u, !.heard = task[t].heard]
<1>1. r \in Rows /\ codes[r].code # None /\ Matching(t) \subseteq Rows
      /\ \A q \in Matching(t) : ~codes[q].used
  BY DEF Matching, IInv, Types, TaskType, ServerInv, OnTheServer
<1>2. codes[r].owner \in 0..MaxUser /\ nextId \in Nat /\ nextId >= 1
  BY <1>1, PairingAssumption DEF IInv, Types, CodeType
<1>3. /\ u \in UserIds /\ u \in 0..MaxUser
      /\ u \in users \/ (u = nextId /\ u \notin users /\ nextId' = nextId + 1 /\ codes[r].owner = 0)
      /\ \/ codes[r].owner # 0 /\ u = codes[r].owner
         \/ codes[r].owner = 0 /\ \E q \in Rows : codes[q].email = codes[r].email /\ codes[q].owner = u
         \/ codes[r].owner = 0 /\ u = nextId /\ u \notin users /\ nextId' = nextId + 1
  <2>1. CASE codes[r].owner # 0
    <3>1. u = codes[r].owner
      BY <2>1 DEF UserFor, Known
    <3>2. QED
      BY <1>1, <1>2, <2>1, <3>1 DEF IInv, ServerInv, OwnersExist, UserIds
  <2>2. CASE codes[r].owner = 0 /\ Known(codes[r]) # {}
    <3>1. u \in PriorUsers(codes[r].email)
      BY <2>2 DEF UserFor, Known
    <3>2. PICK q \in Rows : codes[q].email = codes[r].email /\ codes[q].owner = u /\ u # 0
      BY <3>1 DEF PriorUsers
    <3>3. u \in users /\ u \in 0..MaxUser
      BY <3>2 DEF IInv, ServerInv, OwnersExist, Types, CodeType
    <3>4. QED
      BY <2>2, <3>2, <3>3, PairingAssumption DEF UserIds
  <2>3. CASE codes[r].owner = 0 /\ Known(codes[r]) = {}
    BY <1>2, <2>3, PairingAssumption DEF UserFor, NewUserFails, UserIds
  <2>4. QED
    BY <2>1, <2>2, <2>3
<1>4. nextId' \in 1..(MaxUser + 1) /\ nextId' \in Nat /\ nextId' >= nextId
  BY <1>2, PairingAssumption DEF IInv, Types
<1>5. task[t].heard \in BOOLEAN
  BY DEF IInv, Types, TaskType
<1>6. new \in TaskType /\ new.pc = "commit" /\ new.hit = r /\ new.user = u /\ new.heard = task[t].heard
  <2>1. "commit" \in Pcs
    BY DEF Pcs, OnServer
  <2>2. QED
    BY <1>1, <1>3, <1>5, <2>1, IdleTaskType DEF TaskType, IdleTask
<1> HIDE DEF new
<1>7. task'[t] = new /\ \A s \in Tasks \ {t} : task'[s] = task[s]
  BY DEF Step, IInv, Types, new
<1>8. \A q \in Rows : holder'[q] = IF q \in Matching(t) THEN t ELSE holder[q]
  OBVIOUS
<1>9. Types'
  <2>1. task' \in [Tasks -> TaskType]
    BY <1>6 DEF Step, IInv, Types, new
  <2>2. holder' \in [Rows -> Tasks \cup {<<>>}]
    BY DEF IInv, Types
  <2>3. QED
    BY <1>4, <2>1, <2>2 DEF IInv, Types
<1>10. ServerInv'
  <2>1. HeldRows'
    <3> SUFFICES ASSUME NEW q \in Rows, holder'[q] # <<>>
                 PROVE  holder'[q] \in Tasks /\ task'[holder'[q]].pc = "commit" /\ ~codes'[q].used
      BY DEF HeldRows
    <3>1. CASE q \in Matching(t)
      BY <1>1, <1>6, <1>7, <1>8, <3>1
    <3>2. CASE q \notin Matching(t)
      BY <1>6, <1>7, <1>8, <3>2 DEF IInv, ServerInv, HeldRows
    <3>3. QED
      BY <3>1, <3>2
  <2>2. ASSUME NEW s \in Tasks PROVE OnTheServer(s)'
    <3>1. CASE s = t
      <4>1. RightUser(t)'
        BY <1>2, <1>3, <1>6, <1>7 DEF RightUser
      <4>2. QED
        BY <1>1, <1>3, <1>6, <1>7, <1>8, <3>1, <4>1 DEF OnTheServer
    <3>2. CASE s # t
      <4>1. OnTheServer(s) /\ task'[s] = task[s]
        BY <1>7, <3>2 DEF IInv, ServerInv
      <4>2. task[s].pc = "commit" => RightUser(s)'
        <5>1. UserIds \subseteq Nat
          BY PairingAssumption DEF UserIds
        <5>2. task[s].user \in UserIds /\ task[s].user < nextId => task[s].user < nextId'
          BY <1>2, <1>4, <5>1
        <5>3. QED
          BY <4>1, <5>2 DEF OnTheServer, RightUser
      <4>3. task[s].pc = "commit" => holder'[task[s].hit] = s
        BY <1>8, <3>2, <4>1, TaskNames DEF OnTheServer
      <4>4. QED
        BY <4>1, <4>2, <4>3 DEF OnTheServer
    <3>3. QED
      BY <3>1, <3>2
  <2>3. NewUsersApart'
    <3> SUFFICES ASSUME NEW a \in Tasks, NEW b \in Tasks, a # b, task'[a].pc = "commit",
                        task'[b].pc = "commit", task'[a].user \notin users'
                 PROVE  task'[a].user # task'[b].user
      BY DEF NewUsersApart
    <3>1. CASE a = t
      <4>1. task[b].pc = "commit" /\ task'[b].user = task[b].user /\ u \notin users /\ u = nextId
            /\ task'[a].user = u
        BY <1>3, <1>6, <1>7, <3>1
      <4>2. task[b].user \in users \/ task[b].user < nextId
        BY <4>1, NewUsersBelow
      <4>3. QED
        BY <1>2, <4>1, <4>2
    <3>2. CASE b = t
      <4>1. task[a].pc = "commit" /\ task'[a].user = task[a].user /\ task[a].user \notin users
            /\ task'[b].user = u
        BY <1>6, <1>7, <3>2
      <4>2. task[a].user < nextId
        BY <4>1, NewUsersBelow
      <4>3. QED
        BY <1>2, <1>3, <4>1, <4>2
    <3>3. CASE a # t /\ b # t
      BY <1>7, <3>3 DEF IInv, ServerInv, NewUsersApart
    <3>4. QED
      BY <3>1, <3>2, <3>3
  <2>4. DevicesOK' /\ OwnersExist' /\ OneDevicePerCode' /\ IdsBelow'
    BY DEF IInv, ServerInv, DevicesOK, OwnersExist, OneDevicePerCode, IdsBelow
  <2>5. QED
    BY <2>1, <2>2, <2>3, <2>4 DEF ServerInv
<1>11. PhoneInv'
  <2>1. Step(t, new)
    BY DEF new
  <2>2. QED
    BY <1>6, <2>1, PhoneOfServerStep DEF OnServer
<1>12. QED
  BY <1>9, <1>10, <1>11 DEF IInv

LEMMA CommitInvariant ==
    ASSUME IInv, NEW t \in Tasks, CommitPairing(t) PROVE IInv'
<1>0. PICK r, u, d : r = task[t].hit /\ u = task[t].user /\ d = Device(t)
  OBVIOUS
<1>1. /\ task[t].pc = "commit" /\ r \in Rows /\ holder[r] = t /\ u \in UserIds /\ ~codes[r].used
      /\ u \in 0..MaxUser
  BY <1>0, TaskNames DEF CommitPairing, IInv, ServerInv, OnTheServer, HeldRows, Types, TaskType
<1>2. d \in DeviceType /\ d.row = r /\ d.user = u /\ d.id = Cardinality(devices) + 1
  <2>1. Cardinality(devices) + 1 \in Nat \ {0}
    BY FS_CardinalityType DEF IInv, Types
  <2>2. QED
    BY <1>0, <1>1, <2>1 DEF Device, DeviceType
<1>3. /\ holder' = Release(t) /\ users' = users \cup {u} /\ devices' = devices \cup {d}
      /\ UNCHANGED <<nextId, phone, kills, torn, misled>>
  BY <1>0 DEF CommitPairing
<1>4. PICK rec \in TaskType : /\ Step(t, rec) /\ rec.pc \in {"idle", "access"}
                              /\ rec.pc = "access" => rec.heard /\ task[t].heard
                                                      /\ rec.token = d.id /\ rec.user = u
                              /\ rec.heard => task[t].heard \/ rec.pc = "idle"
  <2>1. CASE Step(t, IdleTask)
    BY <2>1, IdleTaskType
  <2>2. CASE task[t].heard /\ Step(t, [IdleTask EXCEPT !.pc = "access", !.user = u, !.token = Device(t).id])
    <3> DEFINE rec == [IdleTask EXCEPT !.pc = "access", !.user = u, !.token = d.id]
    <3>1. d.id \in Nat /\ "access" \in Pcs
      BY <1>2 DEF DeviceType, Pcs, Saves
    <3>2. rec \in TaskType /\ rec.pc = "access" /\ rec.heard /\ rec.token = d.id /\ rec.user = u
      BY <1>1, <3>1, IdleTaskType DEF TaskType, IdleTask
    <3>3. Step(t, rec)
      BY <1>0, <2>2
    <3> HIDE DEF rec
    <3>4. QED
      BY <2>2, <3>2, <3>3
  <2>3. QED
    BY <1>0, <2>1, <2>2 DEF CommitPairing
<1>5. task'[t] = rec /\ \A s \in Tasks \ {t} : task'[s] = task[s]
  BY <1>4 DEF Step, IInv, Types
<1>6. /\ codes' \in [Rows -> CodeType]
      /\ \A q \in Rows : codes'[q].code = codes[q].code /\ codes'[q].email = codes[q].email
                         /\ codes'[q].owner = codes[q].owner
                         /\ codes'[q].used = (codes[q].used \/ holder[q] = t)
  <2>1. codes' = [q \in Rows |-> IF q \in Held(t) THEN [codes[q] EXCEPT !.used = TRUE] ELSE codes[q]]
    BY DEF CommitPairing
  <2>2. QED
    <3>1. codes \in [Rows -> CodeType]
      BY DEF IInv, Types
    <3>2. ASSUME NEW q \in Rows
          PROVE  /\ codes'[q] \in CodeType
                 /\ codes'[q].code = codes[q].code /\ codes'[q].email = codes[q].email
                 /\ codes'[q].owner = codes[q].owner
                 /\ codes'[q].used = (codes[q].used \/ holder[q] = t)
      <4>1. CASE holder[q] = t
        <5>1. codes'[q] = [codes[q] EXCEPT !.used = TRUE]
          BY <2>1, <4>1 DEF Held
        <5>2. QED
          BY <3>1, <4>1, <5>1 DEF CodeType
      <4>2. CASE holder[q] # t
        <5>1. codes'[q] = codes[q]
          BY <2>1, <4>2 DEF Held
        <5>2. QED
          BY <3>1, <4>2, <5>1 DEF CodeType
      <4>3. QED
        BY <4>1, <4>2
    <3>3. QED
      BY <2>1, <3>2
<1>7. \A q \in Rows : holder'[q] = IF holder[q] = t THEN <<>> ELSE holder[q]
  BY <1>3 DEF Release
<1>8. Types'
  <2>1. task' \in [Tasks -> TaskType] /\ holder' \in [Rows -> Tasks \cup {<<>>}]
    BY <1>3, <1>4 DEF Step, Release, IInv, Types
  <2>2. IsFiniteSet(devices')
    BY <1>3, FS_AddElement DEF IInv, Types
  <2>3. QED
    BY <1>1, <1>2, <1>3, <1>6, <2>1, <2>2 DEF IInv, Types
<1>9. (\A e \in devices : e.id # d.id) /\ d \notin devices
  <2>1. \A e \in devices : e.id \in Nat /\ e.id <= Cardinality(devices)
    BY DEF IInv, Types, DeviceType, ServerInv, IdsBelow
  <2>2. Cardinality(devices) \in Nat
    BY FS_CardinalityType DEF IInv, Types
  <2>3. QED
    BY <1>2, <2>1, <2>2
<1>10. ServerInv'
  <2>1. HeldRows'
    <3> SUFFICES ASSUME NEW q \in Rows, holder'[q] # <<>>
                 PROVE  holder'[q] \in Tasks /\ task'[holder'[q]].pc = "commit" /\ ~codes'[q].used
      BY DEF HeldRows
    <3>1. holder[q] # t /\ holder'[q] = holder[q] /\ holder[q] # <<>>
      BY <1>7
    <3>2. holder[q] \in Tasks /\ task[holder[q]].pc = "commit" /\ ~codes[q].used
      BY <3>1 DEF IInv, ServerInv, HeldRows
    <3>3. QED
      BY <1>5, <1>6, <3>1, <3>2
  <2>2. ASSUME NEW s \in Tasks PROVE OnTheServer(s)'
    <3>1. CASE s = t
      BY <1>4, <1>5, <3>1 DEF OnTheServer
    <3>2. CASE s # t
      <4>1. OnTheServer(s) /\ task'[s] = task[s]
        BY <1>5, <3>2 DEF IInv, ServerInv
      <4>3. task[s].pc = "commit" /\ task[s].user \notin users => task[s].user # u
        BY <1>0, <1>1, <3>2 DEF IInv, ServerInv, NewUsersApart
      <4>4. task[s].pc = "commit" => RightUser(s)'
        BY <1>3, <1>6, <4>1, <4>3 DEF OnTheServer, RightUser
      <4>5. task[s].pc = "commit" => holder'[task[s].hit] = s
        BY <1>7, <3>2, <4>1 DEF OnTheServer
      <4>6. QED
        BY <1>6, <4>1, <4>4, <4>5 DEF OnTheServer
    <3>3. QED
      BY <3>1, <3>2
  <2>3. NewUsersApart'
    BY <1>3, <1>4, <1>5 DEF IInv, ServerInv, NewUsersApart
  <2>4. DevicesOK' /\ OwnersExist'
    BY <1>1, <1>2, <1>3, <1>6 DEF IInv, ServerInv, DevicesOK, OwnersExist, Types, DeviceType
  <2>5. OneDevicePerCode'
    BY <1>1, <1>2, <1>3 DEF IInv, ServerInv, DevicesOK, OneDevicePerCode
  <2>6. IdsBelow'
    <3>1. Cardinality(devices') = Cardinality(devices) + 1 /\ Cardinality(devices) \in Nat
      BY <1>3, <1>9, FS_AddElement, FS_CardinalityType DEF IInv, Types
    <3>2. \A e \in devices : e.id \in Nat /\ e.id <= Cardinality(devices)
      BY DEF IInv, Types, DeviceType, ServerInv, IdsBelow
    <3>3. \A e \in devices' : e.id <= Cardinality(devices) + 1
      BY <1>2, <1>3, <3>1, <3>2
    <3>4. QED
      BY <3>1, <3>3 DEF IdsBelow
  <2>7. QED
    BY <2>1, <2>2, <2>3, <2>4, <2>5, <2>6 DEF ServerInv
<1>11. PhoneInv'
  <2>1. rec.pc = "access" => Has(rec.token, rec.user)' /\ rec.token # 0
    BY <1>2, <1>3, <1>4 DEF Has, DeviceType
  <2>2. rec.pc = "access" => \A e \in devices : e.id # rec.token
    BY <1>4, <1>9
  <2>3. QED
    BY <1>1, <1>3, <1>4, <2>1, <2>2, PhoneOfServerStep DEF OnServer
<1>12. QED
  BY <1>8, <1>10, <1>11 DEF IInv

LEMMA ServerInvariant ==
    ASSUME IInv, NEW t \in Tasks, PairComplete(t) \/ Rollback(t) PROVE IInv'
<1>1. nextId \in Nat /\ nextId \in 1..(MaxUser + 1)
  BY PairingAssumption DEF IInv, Types
<1>2. CASE Rollback(t)
  <2>1. nextId' \in nextId..(MaxUser + 1)
    BY <1>1, <1>2, PairingAssumption DEF Rollback
  <2>2. QED
    BY <1>1, <1>2, <2>1, RefuseInvariant DEF Rollback
<1>3. CASE CommitPairing(t)
  BY <1>3, CommitInvariant
<1>4. CASE CompareAndSwap(t)
  <2>0. task[t].pc \in OnServer /\ task[t].pc = "update"
    BY <1>4 DEF CompareAndSwap, OnServer
  <2>1. CASE Matching(t) = {} /\ Refuse(t) /\ UNCHANGED nextId
    BY <1>1, <2>0, <2>1, RefuseInvariant, PairingAssumption
  <2>2. CASE ~(Matching(t) = {} /\ Refuse(t) /\ UNCHANGED nextId)
    <3>1. PICK r \in Matching(t) :
            /\ Known(codes[r]) = {} => nextId <= MaxUser
            /\ nextId' = IF Known(codes[r]) = {} THEN nextId + 1 ELSE nextId
            /\ IF NewUserFails(r) THEN Refuse(t)
               ELSE /\ holder' = [q \in Rows |-> IF q \in Matching(t) THEN t ELSE holder[q]]
                    /\ \E u \in UserFor(r) :
                         Step(t, [IdleTask EXCEPT !.pc = "commit", !.hit = r, !.user = u,
                                                  !.heard = task[t].heard])
                    /\ UNCHANGED <<codes, users, devices, phone, kills, torn, misled>>
      BY <1>4, <2>2 DEF CompareAndSwap
    <3>2. CASE NewUserFails(r)
      <4>1. nextId' \in nextId..(MaxUser + 1)
        <5>1. \A n \in Nat : n <= MaxUser => n + 1 \in n..(MaxUser + 1)
          BY PairingAssumption
        <5>2. nextId \in nextId..(MaxUser + 1)
          BY <1>1, PairingAssumption
        <5>3. nextId' = nextId \/ (nextId' = nextId + 1 /\ nextId <= MaxUser)
          BY <3>1
        <5>4. QED
          BY <1>1, <5>1, <5>2, <5>3
      <4>2. QED
        BY <1>1, <2>0, <3>1, <3>2, <4>1, RefuseInvariant
    <3>3. CASE ~NewUserFails(r)
      BY <1>4, <2>0, <3>1, <3>3, SwapInvariant DEF CompareAndSwap
    <3>4. QED
      BY <3>2, <3>3
  <2>3. QED
    BY <2>1, <2>2
<1>5. QED
  BY <1>2, <1>3, <1>4 DEF PairComplete

(***************************************************************************)
(* The phone                                                               *)
(***************************************************************************)
LEMMA DevicesAreReal ==
    ASSUME IInv
    PROVE  /\ \A i, u : Has(i, u) => i # 0 /\ u # 0 /\ Owned(u) /\ Issued(i)
           /\ \A u : Owned(u) => u # 0
  BY DEF Has, Owned, Issued, IInv, Types, DeviceType, UserIds

\* An app that is not running has nothing under way but what the server still does.
LEMMA DownIsQuiet ==
    ASSUME IInv, NEW p \in Phones, ~phone[p].up
    PROVE  task[<<p, "pair">>].pc \notin Saves /\ ~Refreshing(p)
  BY TaskNames DEF IInv, PhoneInv, TaskOK, Saves, Refreshing

\* A step of one phone.
LEMMA OnePhone ==
    ASSUME IInv, NEW p \in Phones, devices' = devices,
           \A q \in Phones \ {p} : /\ phone'[q] = phone[q] /\ (q \in torn' <=> q \in torn)
                                   /\ q \in misled' <=> q \in misled,
           \A t \in Tasks : Owner(t) # p => task'[t] = task[t],
           \A t \in Tasks : Owner(t) = p => TaskOK(t)',
           PhoneOK(p)',
           task'[<<p, "pair">>].pc \in Saves =>
             task[<<p, "pair">>].pc \in Saves
             /\ task'[<<p, "pair">>].token = task[<<p, "pair">>].token,
           \/ phone'[p].refresh \in {0, phone[p].refresh}
           \/ task[<<p, "pair">>].pc \in Saves /\ phone'[p].refresh = task[<<p, "pair">>].token
    PROVE  PhoneInv'
<1>1. ASSUME NEW t \in Tasks PROVE TaskOK(t)'
  <2>1. CASE Owner(t) # p
    <3>1. TaskOK(t) /\ Owner(t) \in Phones \ {p} /\ task'[t] = task[t]
      BY <2>1, TaskShape DEF IInv, PhoneInv
    <3>2. QED
      BY <3>1, TaskKept
  <2>2. QED
    BY <2>1
<1>2. ASSUME NEW q \in Phones \ {p}
      PROVE  /\ task'[<<q, "pair">>] = task[<<q, "pair">>]
             /\ q \in Refreshers => task'[<<q, "refresh">>] = task[<<q, "refresh">>]
  BY TaskNames
<1>3. ASSUME NEW q \in Phones PROVE PhoneOK(q)'
  <2>1. CASE q # p
    <3>1. PhoneOK(q) /\ phone'[q] = phone[q] /\ (q \in torn' <=> q \in torn)
          /\ (q \in misled' <=> q \in misled) /\ q \in Phones \ {p}
      BY <2>1 DEF IInv, PhoneInv
    <3>2. QED
      BY <1>2, <3>1, PhoneKept
  <2>2. QED
    BY <2>1
<1>4. Apart'
  <2>1. \A q \in Phones : task[<<q, "pair">>].pc \in Saves => task[<<q, "pair">>].token # 0
    BY DevicesAreReal DEF IInv, PhoneInv, PhoneOK, Sound
  <2>2. Apart
    BY DEF IInv, PhoneInv
  <2>3. QED
    BY <1>2, <2>1, <2>2, ApartKept
<1>5. QED
  BY <1>1, <1>3, <1>4 DEF PhoneInv

LEMMA CompletePairingInvariant ==
    ASSUME IInv, NEW p \in Phones, NEW code \in Codes, CompletePairing(p, code) PROVE IInv'
<1>0. PICK t : t = <<p, "pair">>
  OBVIOUS
<1>1. /\ t \in Tasks /\ Owner(t) = p /\ t[2] = "pair" /\ phone[p].up /\ task[t].pc = "idle"
      /\ UNCHANGED <<codes, holder, users, nextId, devices, phone, kills, torn, misled>>
  BY <1>0, TaskNames DEF CompletePairing, serverVars
<1>2. PICK L \in SUBSET Rows : Step(t, [IdleTask EXCEPT !.pc = "update", !.code = code, !.late = L])
  BY <1>0 DEF CompletePairing
<1> DEFINE new == [IdleTask EXCEPT !.pc = "update", !.code = code, !.late = L]
<1>3. new \in TaskType /\ new.pc = "update" /\ new.code = code /\ new.heard
  <2>1. "update" \in Pcs
    BY DEF Pcs, OnServer
  <2>2. QED
    BY <1>2, <2>1, IdleTaskType DEF TaskType, IdleTask
<1>4. task'[t] = new /\ \A s \in Tasks \ {t} : task'[s] = task[s]
  BY <1>1, <1>2 DEF Step, IInv, Types
<1>5. task' \in [Tasks -> TaskType]
  BY <1>2, <1>3 DEF Step, IInv, Types
<1> HIDE DEF new
<1>6. Types'
  BY <1>1, <1>5 DEF IInv, Types
<1>7. ServerInv'
  <2>1. \A s \in Tasks : \/ task'[s] = task[s]
                         \/ /\ task[s].pc # "commit" /\ task'[s].pc # "commit"
                            /\ task'[s].pc = "update" => task'[s].code # None
    BY <1>1, <1>3, <1>4, PairingAssumption
  <2>2. QED
    BY <1>1, <2>1, ServerUntouched DEF IInv
<1>8. PhoneInv'
  <2>1. \A s \in Tasks : Owner(s) # p => task'[s] = task[s]
    BY <1>1, <1>4
  <2>2. ASSUME NEW s \in Tasks, Owner(s) = p PROVE TaskOK(s)'
    <3>1. TaskOK(s)
      BY DEF IInv, PhoneInv
    <3>2. CASE s = t
      BY <1>1, <1>3, <1>4, <3>2 DEF TaskOK, Saves
    <3>3. CASE s # t
      BY <1>1, <1>4, <3>1, <3>3 DEF TaskOK
    <3>4. QED
      BY <3>2, <3>3
  <2>3. /\ PhoneOK(p) /\ task'[<<p, "pair">>].pc = "update" /\ task[<<p, "pair">>].pc = "idle"
        /\ p \in Refreshers => task'[<<p, "refresh">>] = task[<<p, "refresh">>]
    BY <1>0, <1>1, <1>3, <1>4, TaskNames DEF IInv, PhoneInv
  <2>4. Refreshing(p)' = Refreshing(p) /\ (Refreshing(p) => p \in Refreshers)
    BY <2>3 DEF Refreshing
  <2>5. Sound(p)' /\ Whole(p)' /\ Shown(p)'
    BY <1>1, <2>3, <2>4, DevicesStay DEF PhoneOK, Sound, Whole, Shown, Saves
  <2>6. PhoneOK(p)'
    BY <2>5 DEF PhoneOK
  <2>7. QED
    BY <1>1, <2>1, <2>2, <2>3, <2>6, OnePhone DEF Saves
<1>9. QED
  BY <1>6, <1>7, <1>8 DEF IInv

LEMMA TokenRefreshInvariant ==
    ASSUME IInv, NEW p \in Refreshers, TokenRefresh(p) PROVE IInv'
<1>0. PICK t : t = <<p, "refresh">>
  OBVIOUS
<1>1. /\ t \in Tasks /\ Owner(t) = p /\ t[2] = "refresh" /\ phone[p].up /\ task[t].pc = "idle"
      /\ p \in Phones /\ phone[p].access # 0
      /\ UNCHANGED <<codes, holder, users, nextId, devices, phone, kills, torn, misled>>
  BY <1>0, TaskNames, PairingAssumption DEF TokenRefresh, serverVars
<1>2. PICK u : Has(phone[p].refresh, u) /\ u \in 0..MaxUser
               /\ Step(t, [IdleTask EXCEPT !.pc = "access", !.user = u])
  <2>1. PICK e \in devices : e.id = phone[p].refresh
                             /\ Step(t, [IdleTask EXCEPT !.pc = "access", !.user = e.user])
    BY <1>0 DEF TokenRefresh
  <2>2. e.user \in 0..MaxUser
    BY PairingAssumption DEF IInv, Types, DeviceType, UserIds
  <2>3. QED
    BY <2>1, <2>2 DEF Has
<1> DEFINE new == [IdleTask EXCEPT !.pc = "access", !.user = u]
<1>3. new \in TaskType /\ new.pc = "access" /\ new.user = u /\ new.heard
  <2>1. "access" \in Pcs
    BY DEF Pcs, Saves
  <2>2. QED
    BY <1>2, <2>1, IdleTaskType DEF TaskType, IdleTask
<1>4. task'[t] = new /\ \A s \in Tasks \ {t} : task'[s] = task[s]
  BY <1>1, <1>2 DEF Step, IInv, Types
<1>5. task' \in [Tasks -> TaskType]
  BY <1>2, <1>3 DEF Step, IInv, Types
<1> HIDE DEF new
<1>6. Types'
  BY <1>1, <1>5 DEF IInv, Types
<1>7. ServerInv'
  <2>1. \A s \in Tasks : \/ task'[s] = task[s]
                         \/ /\ task[s].pc # "commit" /\ task'[s].pc # "commit"
                            /\ task'[s].pc = "update" => task'[s].code # None
    BY <1>1, <1>3, <1>4
  <2>2. QED
    BY <1>1, <2>1, ServerUntouched DEF IInv
<1>8. PhoneInv'
  <2>1. \A s \in Tasks : Owner(s) # p => task'[s] = task[s]
    BY <1>1, <1>4
  <2>2. ASSUME NEW s \in Tasks, Owner(s) = p PROVE TaskOK(s)'
    <3>1. TaskOK(s)
      BY DEF IInv, PhoneInv
    <3>2. CASE s = t
      BY <1>1, <1>3, <1>4, <3>2 DEF TaskOK, Saves
    <3>3. CASE s # t
      BY <1>1, <1>4, <3>1, <3>3 DEF TaskOK
    <3>4. QED
      BY <3>2, <3>3
  <2>3. /\ PhoneOK(p) /\ task'[<<p, "pair">>] = task[<<p, "pair">>]
        /\ task'[<<p, "refresh">>].user = u
    BY <1>0, <1>1, <1>3, <1>4, TaskNames DEF IInv, PhoneInv
  <2>4. Has(phone[p].refresh, u) /\ Owned(u)
    BY <1>2, DevicesAreReal
  <2>5. Sound(p)' /\ Whole(p)' /\ Shown(p)'
    BY <1>1, <2>3, <2>4, DevicesStay DEF PhoneOK, Sound, Whole, Shown
  <2>6. PhoneOK(p)'
    BY <2>5 DEF PhoneOK
  <2>7. QED
    BY <1>1, <2>1, <2>2, <2>3, <2>6, OnePhone
<1>9. QED
  BY <1>6, <1>7, <1>8 DEF IInv

\* What a write leaves on the phone.
LEMMA PutWrites ==
    ASSUME IInv, NEW t \in Tasks, task[t].pc \in Saves, NEW ok \in BOOLEAN
    PROVE  LET x == phone[Owner(t)]  y == Put(t, ok) IN
           /\ y \in PhoneType
           /\ y.up = x.up /\ y.launched = x.launched /\ y.boot = x.boot /\ y.loaded = x.loaded
           /\ ok => /\ y.access = IF task[t].pc = "access" THEN task[t].user ELSE x.access
                    /\ y.refresh = IF task[t].pc = "refresh" THEN task[t].token ELSE x.refresh
                    /\ y.flag = IF task[t].pc = "flag" THEN TRUE ELSE x.flag
           /\ ~ok => /\ y.access \in {x.access, 0} /\ y.refresh \in {x.refresh, 0}
                     /\ task[t].pc # "access" => y.access = x.access
                     /\ task[t].pc # "refresh" => y.refresh = x.refresh
<1>0. PICK x, y : x = phone[Owner(t)] /\ y = Put(t, ok)
  OBVIOUS
<1>1. /\ x \in PhoneType /\ task[t].user \in 0..MaxUser /\ task[t].token \in Nat
      /\ 0 \in 0..MaxUser /\ 0 \in Nat
  BY <1>0, TaskShape, PairingAssumption DEF IInv, Types, TaskType
<1>2. CASE ok /\ task[t].pc = "access"
  <2>1. y = [x EXCEPT !["access"] = task[t].user]
    BY <1>0, <1>2 DEF Put
  <2>2. /\ y \in PhoneType /\ y.access = task[t].user /\ y.refresh = x.refresh /\ y.flag = x.flag
        /\ y.up = x.up /\ y.launched = x.launched /\ y.boot = x.boot /\ y.loaded = x.loaded
    BY <1>1, <2>1 DEF PhoneType
  <2>3. QED
    BY <1>0, <1>2, <2>2
<1>3. CASE ok /\ task[t].pc = "refresh"
  <2>1. y = [x EXCEPT !["refresh"] = task[t].token]
    BY <1>0, <1>3 DEF Put
  <2>2. /\ y \in PhoneType /\ y.access = x.access /\ y.refresh = task[t].token /\ y.flag = x.flag
        /\ y.up = x.up /\ y.launched = x.launched /\ y.boot = x.boot /\ y.loaded = x.loaded
    BY <1>1, <2>1 DEF PhoneType
  <2>3. QED
    BY <1>0, <1>3, <2>2
<1>4. CASE ok /\ task[t].pc = "flag"
  <2>1. y = [x EXCEPT !["flag"] = TRUE]
    BY <1>0, <1>4 DEF Put
  <2>2. /\ y \in PhoneType /\ y.access = x.access /\ y.refresh = x.refresh /\ y.flag = TRUE
        /\ y.up = x.up /\ y.launched = x.launched /\ y.boot = x.boot /\ y.loaded = x.loaded
    BY <1>1, <2>1 DEF PhoneType
  <2>3. QED
    BY <1>0, <1>4, <2>2
<1>5. CASE ~ok
  <2>1. \/ y = x
        \/ task[t].pc = "access" /\ y = [x EXCEPT !["access"] = 0]
        \/ task[t].pc = "refresh" /\ y = [x EXCEPT !["refresh"] = 0]
    <3>1. y = x \/ (task[t].pc # "flag" /\ y = [x EXCEPT ![task[t].pc] = 0])
      BY <1>0, <1>5 DEF Put
    <3>2. task[t].pc \in {"access", "refresh", "flag"}
      BY DEF Saves
    <3>3. QED
      BY <3>1, <3>2
  <2>2. /\ y \in PhoneType /\ y.up = x.up /\ y.launched = x.launched
        /\ y.boot = x.boot /\ y.loaded = x.loaded
        /\ y.access \in {x.access, 0} /\ y.refresh \in {x.refresh, 0}
        /\ task[t].pc # "access" => y.access = x.access
        /\ task[t].pc # "refresh" => y.refresh = x.refresh
    <3>1. CASE y = x
      BY <1>1, <3>1
    <3>2. CASE task[t].pc = "access" /\ y = [x EXCEPT !["access"] = 0]
      BY <1>1, <3>2 DEF PhoneType
    <3>3. CASE task[t].pc = "refresh" /\ y = [x EXCEPT !["refresh"] = 0]
      BY <1>1, <3>3 DEF PhoneType
    <3> QED
      BY <2>1, <3>1, <3>2, <3>3
  <2>3. QED
    BY <1>0, <1>5, <2>2
<1>6. QED
  BY <1>0, <1>2, <1>3, <1>4, <1>5 DEF Saves

\* The next key, or the end of the task.
LEMMA SaveMoves ==
    ASSUME IInv, NEW t \in Tasks, NEW ok \in BOOLEAN, Save(t, ok)
    PROVE  \E rec \in TaskType :
             /\ Step(t, rec)
             /\ rec = IdleTask
                \/ /\ ok /\ t[2] = "pair" /\ rec.user = task[t].user /\ rec.token = task[t].token
                   /\ rec.heard = task[t].heard
                   /\ \/ task[t].pc = "access" /\ rec.pc = "refresh"
                      \/ task[t].pc = "refresh" /\ rec.pc = "flag"
             /\ ok /\ t[2] = "pair" /\ rec = IdleTask => task[t].pc = "flag"
<1> DEFINE next == IF ok THEN After[t[2]][task[t].pc] ELSE "idle"
           rec == IF next = "idle" THEN IdleTask ELSE [task[t] EXCEPT !.pc = next]
<1>1. Step(t, rec) /\ task[t].pc \in Saves /\ task[t] \in TaskType
  BY DEF Save, IInv, Types
<1>2. t[2] = "refresh" => task[t].pc = "access"
  BY <1>1 DEF IInv, PhoneInv, TaskOK, Saves
<1>3. \/ next = "idle" /\ (ok /\ t[2] = "pair" => task[t].pc = "flag")
      \/ ok /\ t[2] = "pair" /\ task[t].pc = "access" /\ next = "refresh"
      \/ ok /\ t[2] = "pair" /\ task[t].pc = "refresh" /\ next = "flag"
  <2>1. CASE ~ok
    BY <2>1
  <2>2. CASE ok /\ t[2] = "refresh"
    BY <1>2, <2>2 DEF After
  <2>3. CASE ok /\ t[2] = "pair"
    BY <1>1, <2>3 DEF After, Saves
  <2>4. QED
    BY <2>1, <2>2, <2>3, TaskShape
<1>4. CASE next = "idle"
  BY <1>1, <1>3, <1>4, IdleTaskType
<1>5. CASE next # "idle"
  <2>1. rec = [task[t] EXCEPT !.pc = next] /\ next \in Pcs /\ next \in {"refresh", "flag"}
    BY <1>3, <1>5 DEF Pcs, Saves
  <2> HIDE DEF next
  <2>2. rec \in TaskType /\ rec.pc = next /\ rec.user = task[t].user /\ rec.token = task[t].token
        /\ rec.heard = task[t].heard
    BY <1>1, <2>1 DEF TaskType
  <2>3. rec # IdleTask
    BY <2>1, <2>2, IdleTaskType
  <2>4. QED
    BY <1>1, <1>3, <1>5, <2>2, <2>3
<1>6. QED
  BY <1>4, <1>5

LEMMA SaveInvariant ==
    ASSUME IInv, NEW t \in Tasks, NEW ok \in BOOLEAN, Save(t, ok) PROVE IInv'
<1>0. PICK p, x, y, i, u : /\ p = Owner(t) /\ x = phone[p] /\ y = Put(t, ok)
                            /\ i = task[t].token /\ u = task[t].user
  OBVIOUS
<1>1. /\ task[t].pc \in Saves /\ phone' = [phone EXCEPT ![p] = y] /\ p \in Phones
      /\ torn' = (IF Tears(t, ok) THEN torn \cup {p}
                  ELSE IF Begins(t) /\ ok THEN torn \ {p} ELSE torn)
      /\ misled' = (IF ok /\ ~Booting(p) THEN misled ELSE misled \cup {p})
      /\ UNCHANGED <<codes, holder, users, nextId, devices, kills>>
  BY <1>0, TaskShape DEF Save, serverVars
<1>2. PICK rec \in TaskType :
             /\ Step(t, rec)
             /\ rec = IdleTask
                \/ /\ ok /\ t[2] = "pair" /\ rec.user = task[t].user /\ rec.token = task[t].token
                   /\ rec.heard = task[t].heard
                   /\ \/ task[t].pc = "access" /\ rec.pc = "refresh"
                      \/ task[t].pc = "refresh" /\ rec.pc = "flag"
             /\ ok /\ t[2] = "pair" /\ rec = IdleTask => task[t].pc = "flag"
  BY SaveMoves
<1>3. /\ y \in PhoneType
      /\ y.up = x.up /\ y.launched = x.launched /\ y.boot = x.boot /\ y.loaded = x.loaded
      /\ ok => /\ y.access = IF task[t].pc = "access" THEN task[t].user ELSE x.access
               /\ y.refresh = IF task[t].pc = "refresh" THEN task[t].token ELSE x.refresh
               /\ y.flag = IF task[t].pc = "flag" THEN TRUE ELSE x.flag
      /\ ~ok => /\ y.access \in {x.access, 0} /\ y.refresh \in {x.refresh, 0}
                /\ task[t].pc # "access" => y.access = x.access
                /\ task[t].pc # "refresh" => y.refresh = x.refresh
  BY <1>0, <1>1, PutWrites
<1>4. /\ task'[t] = rec /\ \A s \in Tasks \ {t} : task'[s] = task[s]
      /\ phone'[p] = y /\ \A q \in Phones \ {p} : phone'[q] = phone[q]
  BY <1>1, <1>2 DEF Step, IInv, Types
<1>5. task[t].heard /\ x.up /\ rec.pc \notin OnServer
  <2>1. task[t].heard /\ x.up
    BY <1>0, <1>1, IdleTaskType DEF IInv, PhoneInv, TaskOK
  <2>2. QED
    BY <1>2, <2>1, IdleTaskType DEF OnServer
<1>6. Types'
  <2>1. task' \in [Tasks -> TaskType] /\ phone' \in [Phones -> PhoneType]
    BY <1>1, <1>2, <1>3 DEF Step, IInv, Types
  <2>2. torn' \subseteq Phones /\ misled' \subseteq Phones
    BY <1>1 DEF IInv, Types
  <2>3. QED
    BY <1>1, <2>1, <2>2 DEF IInv, Types
<1>7. ServerInv'
  <2>1. \A s \in Tasks : \/ task'[s] = task[s]
                         \/ /\ task[s].pc # "commit" /\ task'[s].pc # "commit"
                            /\ task'[s].pc = "update" => task'[s].code # None
    BY <1>1, <1>4, <1>5 DEF Saves, OnServer
  <2>2. QED
    BY <1>1, <2>1, ServerUntouched DEF IInv
<1>8. PhoneInv'
  <2>1. /\ \A q \in Phones \ {p} : /\ phone'[q] = phone[q] /\ (q \in torn' <=> q \in torn)
                                /\ q \in misled' <=> q \in misled
        /\ \A s \in Tasks : Owner(s) # p => task'[s] = task[s]
    BY <1>0, <1>1, <1>4
  <2>2. ASSUME NEW s \in Tasks, Owner(s) = p PROVE TaskOK(s)'
    <3>1. TaskOK(s) /\ phone'[p].up = phone[p].up /\ phone[p].up
      BY <1>0, <1>3, <1>4, <1>5 DEF IInv, PhoneInv
    <3>2. CASE s = t
      <4>1. t[2] = "refresh" => rec.pc = "idle"
        BY <1>2, IdleTaskType
      <4>2. rec.pc \in Saves => rec.heard
        BY <1>2, <1>5, IdleTaskType
      <4>3. QED
        BY <1>4, <2>2, <3>1, <3>2, <4>1, <4>2 DEF TaskOK
    <3>3. CASE s # t
      BY <1>4, <2>2, <3>1, <3>3 DEF TaskOK
    <3>4. QED
      BY <3>2, <3>3
  <2>3. PhoneOK(p) /\ x.access \in 0..MaxUser
    BY <1>0, <1>1 DEF IInv, PhoneInv, Types, PhoneType
  <2>4. p \notin misled' => ok /\ x.boot = "done" /\ p \notin misled
    BY <1>0, <1>1 DEF Booting
  <2>5. CASE t[2] = "refresh"
    <3>1. t = <<p, "refresh">> /\ task[t].pc = "access" /\ p \in Refreshers /\ rec = IdleTask
      BY <1>0, <1>1, <1>2, <2>5, TaskShape DEF IInv, PhoneInv, TaskOK, Saves
    <3>2. /\ task'[<<p, "pair">>] = task[<<p, "pair">>] /\ Refreshing(p) /\ ~Refreshing(p)'
          /\ ~Begins(t)
      BY <1>1, <1>4, <2>5, <3>1, TaskNames, IdleTaskType DEF Refreshing, Begins
    <3>3. Owned(u) /\ u # 0
      BY <1>0, <2>3, <3>1, <3>2, DevicesAreReal DEF PhoneOK, Sound
    <3>4. /\ y.access = u \/ (~ok /\ y.access \in {x.access, 0})
          /\ y.refresh = x.refresh /\ (ok => y.access = u /\ y.flag = x.flag)
      BY <1>0, <1>3, <3>1
    <3>5. Sound(p)'
      <4>1. Sound(p) /\ devices \subseteq devices'
        BY <1>1, <2>3 DEF PhoneOK
      <4>2. (y.access # 0 => Owned(y.access)) /\ (y.refresh # 0 => Issued(y.refresh))
        BY <1>0, <3>3, <3>4, <4>1 DEF Sound
      <4>3. (y.access # 0 => Owned(y.access)') /\ (y.refresh # 0 => Issued(y.refresh)')
        BY <1>1, <4>2 DEF Owned, Issued
      <4>4. /\ phone'[p] = y /\ y.up /\ ~Refreshing(p)'
            /\ task'[<<p, "pair">>] = task[<<p, "pair">>]
        BY <1>3, <1>4, <1>5, <3>2
      <4>5. task[<<p, "pair">>].pc \in Saves =>
              Has(task[<<p, "pair">>].token, task[<<p, "pair">>].user)
        BY <4>1 DEF Sound
      <4>6. task'[<<p, "pair">>].pc \in Saves =>
              \E d \in devices' : /\ d.id = task'[<<p, "pair">>].token
                                  /\ d.user = task'[<<p, "pair">>].user
        BY <1>1, <4>4, <4>5 DEF Has
      <4>7. QED
        BY <4>3, <4>4, <4>6 DEF Sound, Has
    <3>6. Whole(p)'
      <4> SUFFICES ASSUME p \notin torn' PROVE Whole(p)'
        BY DEF Whole
      <4>1. task[<<p, "pair">>].pc # "refresh" /\ p \notin torn
        BY <1>0, <1>1, <2>5, <3>2 DEF Tears
      <4>2. Has(x.refresh, u) /\ (x.access = 0 \/ Has(x.refresh, x.access))
        BY <1>0, <2>3, <3>1, <3>2, <4>1 DEF PhoneOK, Whole
      <4>3. y.access = 0 \/ Has(y.refresh, y.access)
        BY <3>4, <4>2
      <4>4. QED
        BY <1>1, <1>4, <3>2, <4>1, <4>3, DevicesStay DEF Whole
    <3>7. Shown(p)'
      BY <1>0, <1>3, <1>4, <2>3, <2>4, <3>2, <3>3, <3>4 DEF PhoneOK, Shown
    <3>8. PhoneOK(p)'
      BY <3>5, <3>6, <3>7 DEF PhoneOK
    <3>9. QED
      BY <1>0, <1>1, <1>4, <2>1, <2>2, <3>2, <3>4, <3>8, OnePhone
  <2>6. CASE t[2] = "pair"
    <3>1. t = <<p, "pair">>
      BY <1>0, <2>6, TaskShape
    <3>2. Refreshing(p)' = Refreshing(p) /\ (Refreshing(p) => p \in Refreshers)
          /\ (p \in Refreshers => task'[<<p, "refresh">>] = task[<<p, "refresh">>])
      BY <1>4, <3>1, TaskNames DEF Refreshing
    <3>3. Has(i, u) /\ i # 0 /\ u # 0 /\ Owned(u) /\ Issued(i)
      <4>1. Has(i, u)
        BY <1>0, <1>1, <2>3, <3>1 DEF PhoneOK, Sound
      <4>2. QED
        BY <4>1, DevicesAreReal
    <3>4. \/ task[t].pc = "access" /\ ok /\ rec.pc = "refresh"
          \/ task[t].pc = "refresh" /\ ok /\ rec.pc = "flag"
          \/ rec.pc = "idle" /\ (task[t].pc = "flag" \/ ~ok)
      BY <1>2, <2>6, IdleTaskType
    <3>5. rec.pc \in Saves => rec.token = i /\ rec.user = u
      BY <1>0, <1>2, IdleTaskType
    <3>6. y.access \in {0, x.access, u} /\ y.refresh \in {0, x.refresh, i}
      BY <1>0, <1>1, <1>3 DEF Saves
    <3>7. Sound(p)'
      <4>1. Sound(p) /\ devices \subseteq devices'
        BY <1>1, <2>3 DEF PhoneOK
      <4>2. rec.pc \in Saves => Has(rec.token, rec.user)'
        BY <1>1, <3>3, <3>5 DEF Has
      <4>3. (y.access # 0 => Owned(y.access)) /\ (y.refresh # 0 => Issued(y.refresh))
        BY <1>0, <3>3, <3>6, <4>1 DEF Sound
      <4>4. (y.access # 0 => Owned(y.access)') /\ (y.refresh # 0 => Issued(y.refresh)')
        BY <1>1, <4>3 DEF Owned, Issued
      <4>5. Refreshing(p)' => \E d \in devices' : d.user = task'[<<p, "refresh">>].user
        BY <1>1, <3>2, <4>1 DEF Sound, Owned
      <4>6. QED
        BY <1>3, <1>4, <1>5, <3>1, <4>2, <4>4, <4>5 DEF Sound, Owned
    <3>8. Whole(p)'
      <4> SUFFICES ASSUME p \notin torn' PROVE Whole(p)'
        BY DEF Whole
      <4>1. /\ task[t].pc = "refresh" => ok /\ ~Refreshing(p)
            /\ p \in torn => task[t].pc = "access" /\ ok
        BY <1>0, <1>1, <3>1 DEF Tears, Begins
      <4>2. CASE task[t].pc = "access" /\ ok
        <5>1. y.access = rec.user /\ rec.pc = "refresh"
          BY <1>0, <1>3, <3>4, <3>5, <4>2 DEF Saves
        <5>2. QED
          BY <1>4, <3>1, <5>1 DEF Whole
      <4>3. CASE task[t].pc = "access" /\ ~ok
        <5>1. y.access \in {0, x.access} /\ y.refresh = x.refresh /\ rec.pc = "idle" /\ p \notin torn
          BY <1>3, <3>4, <4>1, <4>3
        <5>2. QED
          BY <1>0, <1>1, <1>4, <2>3, <3>1, <3>2, <4>3, <5>1, DevicesStay DEF PhoneOK, Whole
      <4>4. CASE task[t].pc = "refresh"
        <5>1. /\ x.access \in {0, u} /\ y.access = x.access /\ y.refresh = i /\ rec.pc = "flag"
          BY <1>0, <1>3, <2>3, <3>1, <3>4, <4>1, <4>4 DEF PhoneOK, Whole
        <5>2. ~Refreshing(p)'
          BY <3>2, <4>1, <4>4
        <5>3. QED
          BY <1>1, <1>4, <3>1, <3>3, <5>1, <5>2, DevicesStay DEF Whole
      <4>5. CASE task[t].pc = "flag"
        <5>1. y.access = x.access /\ y.refresh = x.refresh /\ rec.pc = "idle" /\ p \notin torn
          BY <1>3, <3>4, <4>1, <4>5
        <5>2. QED
          BY <1>0, <1>1, <1>4, <2>3, <3>1, <3>2, <4>5, <5>1, DevicesStay DEF PhoneOK, Whole
      <4>6. QED
        BY <1>1, <4>2, <4>3, <4>4, <4>5 DEF Saves
    <3>9. Shown(p)'
      <4> SUFFICES ASSUME p \notin misled' PROVE Shown(p)'
        BY DEF Shown
      <4>1. ok /\ x.boot = "done" /\ y.boot = "done" /\ p \notin misled
        BY <1>3, <2>4
      <4>2. y.access # 0
        BY <1>0, <1>1, <1>3, <2>3, <3>1, <3>3, <4>1 DEF PhoneOK, Shown, Saves
      <4>3. rec.pc \notin {"refresh", "flag"} => y.flag
        BY <1>3, <3>4, <4>1
      <4>4. QED
        BY <1>4, <3>1, <3>2, <4>1, <4>2, <4>3 DEF Shown
    <3>10. PhoneOK(p)'
      BY <3>7, <3>8, <3>9 DEF PhoneOK
    <3>11. QED
      BY <1>0, <1>1, <1>4, <2>1, <2>2, <3>1, <3>5, <3>6, <3>10, OnePhone
  <2>7. QED
    BY <2>5, <2>6, TaskShape
<1>9. QED
  BY <1>6, <1>7, <1>8 DEF IInv

\* A step of one phone that begins no task.
LEMMA PhoneAlone ==
    ASSUME IInv, NEW p \in Phones, NEW x \in PhoneType, phone' = [phone EXCEPT ![p] = x],
           UNCHANGED <<codes, holder, users, nextId, devices, task>>, kills' \in 0..MaxKills,
           torn' \subseteq Phones, \A q \in Phones \ {p} : q \in torn' <=> q \in torn,
           misled' \subseteq Phones, \A q \in Phones \ {p} : q \in misled' <=> q \in misled,
           phone[p].up => x.up, x.refresh \in {0, phone[p].refresh}, PhoneOK(p)'
    PROVE  IInv'
<1>1. phone'[p] = x /\ \A q \in Phones \ {p} : phone'[q] = phone[q]
  BY DEF IInv, Types
<1>2. Types'
  BY DEF IInv, Types
<1>3. ServerInv'
  BY ServerUntouched DEF IInv
<1>4. PhoneInv'
  <2>1. ASSUME NEW t \in Tasks, Owner(t) = p PROVE TaskOK(t)'
    BY <1>1, <2>1 DEF IInv, PhoneInv, TaskOK
  <2>2. QED
    BY <1>1, <2>1, OnePhone
<1>5. QED
  BY <1>2, <1>3, <1>4 DEF IInv

LEMMA ClearedPhone ==
    ASSUME IInv, NEW p \in Phones
    PROVE  LET x == phone[p]  y == Cleared(p) IN
           /\ x \in PhoneType /\ y \in PhoneType /\ y.access = 0 /\ y.refresh = 0 /\ y.launched
           /\ y.up = x.up /\ y.flag = x.flag /\ y.boot = x.boot /\ y.loaded = x.loaded
<1>1. PICK x : x = phone[p]
  OBVIOUS
<1>2. x \in PhoneType /\ 0 \in 0..MaxUser /\ 0 \in Nat
  BY <1>1, PairingAssumption DEF IInv, Types
<1> DEFINE y == [x EXCEPT !.access = 0, !.refresh = 0, !.launched = TRUE]
<1>3. /\ y \in PhoneType /\ y.access = 0 /\ y.refresh = 0 /\ y.launched
      /\ y.up = x.up /\ y.flag = x.flag /\ y.boot = x.boot /\ y.loaded = x.loaded
  BY <1>2 DEF PhoneType
<1>4. Cleared(p) = y
  BY <1>1 DEF Cleared
<1> HIDE DEF y
<1>5. QED
  BY <1>1, <1>2, <1>3, <1>4

LEMMA LaunchInvariant ==
    ASSUME IInv, NEW p \in Phones, Launch(p) PROVE IInv'
<1>0. PICK x, y : x = phone[p] /\ y = Cleared(p)
  OBVIOUS
<1>1. /\ x \in PhoneType /\ y \in PhoneType /\ y.access = 0 /\ y.refresh = 0 /\ y.launched
      /\ y.up = x.up /\ y.flag = x.flag /\ y.boot = x.boot /\ y.loaded = x.loaded
  BY <1>0, ClearedPhone
<1>2. ~x.up /\ PhoneOK(p) /\ x.boot = "done"
  BY <1>0 DEF Launch, IInv, PhoneInv, PhoneOK, Sound
<1>3. PICK new \in PhoneType :
        /\ phone' = [phone EXCEPT ![p] = new] /\ new.up
        /\ p \in AndroidPhones => /\ new.access = x.access /\ new.refresh = x.refresh
                                  /\ new.launched = x.launched
                                  /\ new.boot = IF x.launched THEN "load" ELSE "clear"
        /\ p \notin AndroidPhones => /\ new.boot = "done" /\ new.flag = (new.access # 0)
                                     /\ \/ new.access = x.access /\ new.refresh = x.refresh
                                        \/ new.access = 0 /\ new.refresh = 0
  <2>1. CASE p \in AndroidPhones
    <3> DEFINE new == [x EXCEPT !.up = TRUE, !.flag = FALSE,
                                !.boot = IF x.launched THEN "load" ELSE "clear"]
    <3>1. phone' = [phone EXCEPT ![p] = new]
      BY <1>0, <2>1 DEF Launch
    <3>2. /\ new \in PhoneType /\ new.up /\ new.access = x.access /\ new.refresh = x.refresh
          /\ new.launched = x.launched /\ new.boot = IF x.launched THEN "load" ELSE "clear"
      BY <1>1 DEF PhoneType
    <3> HIDE DEF new
    <3>3. QED
      BY <2>1, <3>1, <3>2
  <2>2. CASE p \notin AndroidPhones
    <3>0. PICK k : k = IF x.launched THEN x ELSE y
      OBVIOUS
    <3> DEFINE new == [k EXCEPT !.up = TRUE, !.flag = k.access # 0]
    <3>1. phone' = [phone EXCEPT ![p] = new]
      <4>1. CASE x.launched
        BY <1>0, <2>2, <3>0, <4>1 DEF Launch
      <4>2. CASE ~x.launched
        BY <1>0, <2>2, <3>0, <4>2 DEF Launch
      <4>3. QED
        BY <4>1, <4>2
    <3>2. k \in PhoneType /\ k.boot = "done"
          /\ \/ k.access = x.access /\ k.refresh = x.refresh
             \/ k.access = 0 /\ k.refresh = 0
      BY <1>1, <1>2, <3>0
    <3>3. (k.access # 0) \in BOOLEAN
      OBVIOUS
    <3>4. /\ new \in PhoneType /\ new.up /\ new.access = k.access /\ new.refresh = k.refresh
          /\ new.flag = (k.access # 0) /\ new.boot = k.boot
      BY <3>2, <3>3 DEF PhoneType
    <3> HIDE DEF new
    <3>5. QED
      BY <2>2, <3>1, <3>2, <3>4
  <2>3. QED
    BY <2>1, <2>2
<1>4. /\ phone'[p] = new /\ UNCHANGED <<codes, holder, users, nextId, devices, task, kills, torn>>
      /\ misled' = misled \ {p}
  BY <1>3 DEF Launch, serverVars, IInv, Types
<1>5. task[<<p, "pair">>].pc \notin Saves /\ ~Refreshing(p) /\ ~Refreshing(p)'
  BY <1>0, <1>2, <1>4, DownIsQuiet DEF Refreshing
<1>6. \/ new.access = x.access /\ new.refresh = x.refresh
      \/ new.access = 0 /\ new.refresh = 0
  BY <1>3
<1>7. Sound(p)'
  BY <1>0, <1>2, <1>3, <1>4, <1>5, <1>6, DevicesStay DEF PhoneOK, Sound
<1>8. Whole(p)'
  BY <1>0, <1>2, <1>4, <1>5, <1>6, DevicesStay DEF PhoneOK, Whole, Saves
<1>9. Shown(p)'
  <2>1. new.boot # "set" /\ (new.boot = "done" => new.flag = (new.access # 0))
    BY <1>3
  <2>2. QED
    BY <1>4, <1>5, <2>1 DEF Shown, Saves
<1>10. QED
  BY <1>0, <1>2, <1>3, <1>4, <1>6, <1>7, <1>8, <1>9, PhoneAlone DEF IInv, Types, PhoneOK

LEMMA BootInvariant ==
    ASSUME IInv, NEW p \in Phones, Boot(p) PROVE IInv'
<1>0. PICK x, y : x = phone[p] /\ y = Cleared(p)
  OBVIOUS
<1>1. /\ x \in PhoneType /\ y \in PhoneType /\ y.access = 0 /\ y.refresh = 0 /\ y.launched
      /\ y.up = x.up /\ y.flag = x.flag /\ y.boot = x.boot /\ y.loaded = x.loaded
  BY <1>0, ClearedPhone
<1>2. PhoneOK(p) /\ x.boot # "done" /\ x.up
  BY <1>0 DEF Boot, IInv, PhoneInv, PhoneOK, Sound
<1>3. PICK new \in PhoneType :
        /\ phone' = [phone EXCEPT ![p] = new] /\ new.up
        /\ \/ /\ x.boot = "clear" /\ new.boot = "load" /\ new.launched
              /\ new.access = 0 /\ new.refresh = 0
           \/ /\ x.boot = "load" /\ new.boot = "set" /\ new.loaded = (x.access # 0)
              /\ new.launched = x.launched /\ new.access = x.access /\ new.refresh = x.refresh
           \/ /\ x.boot = "set" /\ new.boot = "done" /\ new.flag = x.loaded
              /\ new.launched = x.launched /\ new.access = x.access /\ new.refresh = x.refresh
  <2>1. CASE x.boot = "clear"
    <3> DEFINE new == [y EXCEPT !.boot = "load"]
    <3>1. phone' = [phone EXCEPT ![p] = new]
      BY <1>0, <2>1 DEF Boot
    <3>2. new \in PhoneType /\ new.up /\ new.boot = "load" /\ new.launched /\ new.access = 0
          /\ new.refresh = 0
      BY <1>1, <1>2 DEF PhoneType
    <3> HIDE DEF new
    <3>3. QED
      BY <2>1, <3>1, <3>2
  <2>2. CASE x.boot = "load"
    <3> DEFINE new == [x EXCEPT !.boot = "set", !.loaded = x.access # 0]
    <3>1. phone' = [phone EXCEPT ![p] = new]
      BY <1>0, <2>2 DEF Boot, IInv, Types
    <3>2. (x.access # 0) \in BOOLEAN
      OBVIOUS
    <3>3. /\ new \in PhoneType /\ new.up = x.up /\ new.boot = "set" /\ new.loaded = (x.access # 0)
          /\ new.launched = x.launched /\ new.access = x.access /\ new.refresh = x.refresh
      BY <1>1, <3>2 DEF PhoneType
    <3> HIDE DEF new
    <3>4. QED
      BY <1>2, <2>2, <3>1, <3>3
  <2>3. CASE x.boot = "set"
    <3> DEFINE new == [x EXCEPT !.boot = "done", !.flag = x.loaded, !.loaded = FALSE]
    <3>1. phone' = [phone EXCEPT ![p] = new]
      BY <1>0, <2>3 DEF Boot, IInv, Types
    <3>2. /\ new \in PhoneType /\ new.up = x.up /\ new.boot = "done" /\ new.flag = x.loaded
          /\ new.launched = x.launched /\ new.access = x.access /\ new.refresh = x.refresh
      BY <1>1 DEF PhoneType
    <3> HIDE DEF new
    <3>3. QED
      BY <1>2, <2>3, <3>1, <3>2
  <2>4. QED
    BY <1>0, <2>1, <2>2, <2>3 DEF Boot
<1>4. PICK late : late = IF x.boot = "clear" /\ Refreshing(p) THEN {p} ELSE {}
  OBVIOUS
<1>5. /\ phone'[p] = new /\ UNCHANGED <<codes, holder, users, nextId, devices, task, kills>>
      /\ torn' = torn \cup late /\ misled' = misled \cup late
      /\ Refreshing(p)' = Refreshing(p) /\ (Refreshing(p) => p \in Refreshers)
  BY <1>0, <1>3, <1>4 DEF Boot, serverVars, IInv, Types, Refreshing
<1>6. \/ new.access = x.access /\ new.refresh = x.refresh
      \/ x.boot = "clear" /\ new.access = 0 /\ new.refresh = 0
  BY <1>3
<1>7. Sound(p)'
  BY <1>0, <1>2, <1>3, <1>5, <1>6, DevicesStay DEF PhoneOK, Sound
<1>8. Whole(p)'
  <2> SUFFICES ASSUME p \notin torn' PROVE Whole(p)'
    BY DEF Whole
  <2>1. p \notin torn /\ (x.boot = "clear" => ~Refreshing(p))
    BY <1>4, <1>5
  <2>2. QED
    BY <1>0, <1>2, <1>5, <1>6, <2>1, DevicesStay DEF PhoneOK, Whole
<1>9. Shown(p)'
  <2> SUFFICES ASSUME p \notin misled' PROVE Shown(p)'
    BY DEF Shown
  <2>1. p \notin misled /\ (x.boot = "clear" => ~Refreshing(p))
    BY <1>4, <1>5
  <2>2. task[<<p, "pair">>].pc \notin {"refresh", "flag"} /\ (Refreshing(p) => x.access # 0)
    BY <1>0, <1>2, <2>1 DEF PhoneOK, Shown
  <2>3. /\ new.boot = "set" => new.loaded = (new.access # 0)
        /\ Refreshing(p) => new.access # 0
    BY <1>3, <2>1, <2>2
  <2>4. new.boot = "done" => new.flag = (new.access # 0)
    <3> SUFFICES ASSUME new.boot = "done" PROVE new.flag = (new.access # 0)
      OBVIOUS
    <3>1. x.boot = "set" /\ new.flag = x.loaded /\ new.access = x.access
      BY <1>3
    <3>2. x.loaded = (x.access # 0)
      BY <1>0, <1>2, <2>1, <3>1 DEF PhoneOK, Shown
    <3>3. QED
      BY <3>1, <3>2
  <2>5. QED
    BY <1>5, <2>2, <2>3, <2>4 DEF Shown
<1>10. torn' \subseteq Phones /\ misled' \subseteq Phones
  BY <1>4, <1>5 DEF IInv, Types
<1>11. /\ \A q \in Phones \ {p} : (q \in torn' <=> q \in torn) /\ (q \in misled' <=> q \in misled)
       /\ new.refresh \in {0, x.refresh}
  BY <1>4, <1>5, <1>6
<1>12. QED
  BY <1>0, <1>2, <1>3, <1>5, <1>7, <1>8, <1>9, <1>10, <1>11, PhoneAlone DEF IInv, Types, PhoneOK

LEMMA KillInvariant ==
    ASSUME IInv, NEW p \in Phones, Kill(p) PROVE IInv'
<1>0. PICK x : x = phone[p]
  OBVIOUS
<1>1. /\ x \in PhoneType /\ x.up /\ PhoneOK(p)
      /\ UNCHANGED <<codes, holder, users, nextId, devices>>
  BY <1>0 DEF Kill, serverVars, IInv, PhoneInv, Types
<1>2. PICK new \in PhoneType : /\ phone' = [phone EXCEPT ![p] = new] /\ ~new.up /\ new.boot = "done"
                               /\ new.access = x.access /\ new.refresh = x.refresh
                               /\ new.launched = x.launched
  <2> DEFINE new == [x EXCEPT !.up = FALSE, !.flag = FALSE, !.boot = "done", !.loaded = FALSE]
  <2>1. phone' = [phone EXCEPT ![p] = new]
    BY <1>0 DEF Kill
  <2>2. /\ new \in PhoneType /\ ~new.up /\ new.boot = "done" /\ new.access = x.access
        /\ new.refresh = x.refresh /\ new.launched = x.launched
    BY <1>1 DEF PhoneType
  <2> HIDE DEF new
  <2>3. QED
    BY <2>1, <2>2
<1>3. /\ phone'[p] = new /\ \A q \in Phones \ {p} : phone'[q] = phone[q]
      /\ phone' \in [Phones -> PhoneType]
  BY <1>2 DEF IInv, Types
<1>4. ASSUME NEW t \in Tasks
      PROVE  /\ task'[t] \in TaskType
             /\ Owner(t) # p => task'[t] = task[t]
             /\ Owner(t) = p => \/ task'[t] = IdleTask /\ task[t].pc \notin OnServer
                                \/ /\ task[t].pc \in OnServer /\ task'[t].pc = task[t].pc
                                   /\ task'[t].hit = task[t].hit /\ task'[t].user = task[t].user
                                   /\ task'[t].code = task[t].code /\ ~task'[t].heard
  <2>1. task'[t] = IF Owner(t) = p THEN Stopped(p, task[t]) ELSE task[t]
    BY DEF Kill
  <2>2. task[t] \in TaskType
    BY DEF IInv, Types
  <2>3. CASE task[t].pc \in OnServer
    <3>1. Stopped(p, task[t]) = [task[t] EXCEPT !.heard = FALSE]
      BY <2>3 DEF Stopped
    <3>2. PICK was : was = task[t]
      OBVIOUS
    <3>3. was \in TaskType /\ (Owner(t) = p => task'[t] = [was EXCEPT !.heard = FALSE])
          /\ (Owner(t) # p => task'[t] = was)
      BY <2>1, <2>2, <3>1, <3>2
    <3> DEFINE stopped == [was EXCEPT !.heard = FALSE]
    <3>4. /\ stopped \in TaskType /\ ~stopped.heard /\ stopped.pc = was.pc
          /\ stopped.hit = was.hit /\ stopped.user = was.user /\ stopped.code = was.code
      BY <3>3 DEF TaskType
    <3> HIDE DEF stopped
    <3>5. Owner(t) = p => task'[t] = stopped
      BY <3>3 DEF stopped
    <3>6. QED
      BY <2>3, <3>2, <3>3, <3>4, <3>5
  <2>4. CASE task[t].pc \notin OnServer
    BY <2>1, <2>2, <2>4, IdleTaskType DEF Stopped
  <2>5. QED
    BY <2>3, <2>4
<1>5. Types'
  <2>1. task' = [t \in Tasks |-> IF Owner(t) = p THEN Stopped(p, task[t]) ELSE task[t]]
    BY DEF Kill
  <2>2. task' \in [Tasks -> TaskType]
    BY <1>4, <2>1
  <2>3. torn' \subseteq Phones /\ misled' \subseteq Phones /\ kills' \in 0..MaxKills
    BY PairingAssumption DEF Kill, IInv, Types
  <2>4. QED
    BY <1>1, <1>3, <2>2, <2>3 DEF IInv, Types
<1>6. ServerInv'
  <2>1. ASSUME NEW t \in Tasks
        PROVE  \/ task'[t] = task[t]
               \/ /\ task[t].pc # "commit" /\ task'[t].pc # "commit"
                  /\ task'[t].pc = "update" => task'[t].code # None
               \/ /\ task'[t].pc = task[t].pc /\ task'[t].hit = task[t].hit
                  /\ task'[t].user = task[t].user /\ task'[t].code = task[t].code
    <3>1. CASE task'[t] = IdleTask /\ task[t].pc \notin OnServer
      BY <3>1, IdleTaskType DEF OnServer
    <3>2. QED
      BY <1>4, <3>1
  <2>2. QED
    BY <1>1, <2>1, ServerUntouched DEF IInv
<1>7. PhoneInv'
  <2>1. ASSUME NEW t \in Tasks, Owner(t) = p PROVE TaskOK(t)'
    <3>1. CASE task'[t] = IdleTask
      BY <3>1, IdleTaskType DEF TaskOK
    <3>2. CASE task[t].pc \in OnServer /\ task'[t].pc = task[t].pc /\ ~task'[t].heard
      BY <3>2 DEF TaskOK, IInv, PhoneInv, OnServer, Saves
    <3>3. QED
      BY <1>4, <2>1, <3>1, <3>2
  <2>2. /\ <<p, "pair">> \in Tasks /\ Owner(<<p, "pair">>) = p
        /\ task'[<<p, "pair">>].pc \notin Saves
        /\ p \in Refreshers => task'[<<p, "refresh">>].pc = "idle"
    <3>1. <<p, "pair">> \in Tasks /\ Owner(<<p, "pair">>) = p
      BY TaskNames
    <3>2. task'[<<p, "pair">>].pc \notin Saves
      BY <1>4, <3>1, IdleTaskType DEF OnServer, Saves
    <3>3. ASSUME p \in Refreshers PROVE task'[<<p, "refresh">>].pc = "idle"
      <4>1. /\ <<p, "refresh">> \in Tasks /\ Owner(<<p, "refresh">>) = p
            /\ TaskOK(<<p, "refresh">>)
        BY <3>3, TaskNames DEF IInv, PhoneInv
      <4>2. task[<<p, "refresh">>].pc \notin OnServer
        BY <4>1 DEF TaskOK, OnServer
      <4>3. QED
        BY <1>4, <4>1, <4>2, IdleTaskType
    <3>4. QED
      BY <3>1, <3>2, <3>3
  <2>3. PhoneOK(p) /\ ~Refreshing(p)'
    BY <1>1, <2>2 DEF Refreshing
  <2>4. Sound(p)'
    BY <1>0, <1>1, <1>2, <1>3, <2>2, <2>3, DevicesStay DEF PhoneOK, Sound
  <2>5. Whole(p)'
    <3> SUFFICES ASSUME p \notin torn' PROVE Whole(p)'
      BY DEF Whole
    <3>1. p \notin torn /\ task[<<p, "pair">>].pc # "refresh"
      BY DEF Kill
    <3>2. QED
      BY <1>0, <1>1, <1>2, <1>3, <2>2, <2>3, <3>1, DevicesStay DEF PhoneOK, Whole, Saves
  <2>6. Shown(p)'
    BY <1>2, <1>3, <2>2, <2>3 DEF Shown, Saves
  <2>7. PhoneOK(p)'
    BY <2>4, <2>5, <2>6 DEF PhoneOK
  <2>8. \A q \in Phones \ {p} : (q \in torn' <=> q \in torn) /\ (q \in misled' <=> q \in misled)
    BY DEF Kill
  <2>9. new.refresh \in {0, phone[p].refresh}
    BY <1>0, <1>2
  <2>10. QED
    BY <1>1, <1>3, <1>4, <2>1, <2>2, <2>7, <2>8, <2>9, OnePhone
<1>8. QED
  BY <1>5, <1>6, <1>7 DEF IInv

LEMMA ReinstallInvariant ==
    ASSUME IInv, NEW p \in Phones, Reinstall(p) PROVE IInv'
<1>0. PICK x : x = phone[p]
  OBVIOUS
<1>1. x \in PhoneType /\ ~x.up /\ PhoneOK(p) /\ x.boot = "done"
  BY <1>0 DEF Reinstall, IInv, PhoneInv, Types, PhoneOK, Sound
<1>2. PICK new \in PhoneType :
        /\ phone' = [phone EXCEPT ![p] = new] /\ ~new.up /\ new.boot = "done"
        /\ \/ p \in AndroidPhones /\ new.access = 0 /\ new.refresh = 0
           \/ p \notin AndroidPhones /\ new.access = x.access /\ new.refresh = x.refresh
  <2>1. CASE p \in AndroidPhones
    <3>1. phone' = [phone EXCEPT ![p] = NewPhone]
      BY <2>1 DEF Reinstall
    <3>2. NewPhone \in PhoneType /\ ~NewPhone.up /\ NewPhone.boot = "done"
          /\ NewPhone.access = 0 /\ NewPhone.refresh = 0
      BY PairingAssumption DEF NewPhone, PhoneType
    <3>3. QED
      BY <2>1, <3>1, <3>2
  <2>2. CASE p \notin AndroidPhones
    <3> DEFINE new == [x EXCEPT !.launched = FALSE]
    <3>1. phone' = [phone EXCEPT ![p] = new]
      BY <1>0, <2>2 DEF Reinstall
    <3>2. new \in PhoneType /\ ~new.up /\ new.boot = "done" /\ new.access = x.access
          /\ new.refresh = x.refresh
      BY <1>1 DEF PhoneType
    <3> HIDE DEF new
    <3>3. QED
      BY <2>2, <3>1, <3>2
  <2>3. QED
    BY <2>1, <2>2
<1>3. /\ phone'[p] = new /\ UNCHANGED <<codes, holder, users, nextId, devices, task, kills, misled>>
      /\ torn' = torn \ (IF p \in AndroidPhones THEN {p} ELSE {})
  BY <1>2 DEF Reinstall, serverVars, IInv, Types
<1>4. task[<<p, "pair">>].pc \notin Saves /\ ~Refreshing(p) /\ ~Refreshing(p)'
  BY <1>0, <1>1, <1>3, DownIsQuiet DEF Refreshing
<1>5. Sound(p)' /\ Shown(p)'
  BY <1>0, <1>1, <1>2, <1>3, <1>4, DevicesStay DEF PhoneOK, Sound, Shown, Saves
<1>6. Whole(p)'
  BY <1>0, <1>1, <1>2, <1>3, <1>4, DevicesStay DEF PhoneOK, Whole, Saves
<1>7. QED
  BY <1>0, <1>1, <1>2, <1>3, <1>5, <1>6, PhoneAlone DEF IInv, Types, PhoneOK

(***************************************************************************)
(* The theorems                                                            *)
(***************************************************************************)
LEMMA NextInvariant == IInv /\ [Next]_vars => IInv'
<1> SUFFICES ASSUME IInv, [Next]_vars PROVE IInv'
  OBVIOUS
<1>1. ASSUME NEW r \in Rows, NEW c \in Codes, NEW e \in Emails, PairSendLink(r, c, e) PROVE IInv'
  BY <1>1, IssueInvariant
<1>2. ASSUME NEW r \in Rows, NEW c \in Codes, NEW u \in InvitedUsers, PairInitiate(r, c, u) PROVE IInv'
  BY <1>2, IssueInvariant
<1>3. ASSUME NEW r \in Rows, Expire(r) PROVE IInv'
  BY <1>3, ExpireInvariant
<1>4. ASSUME NEW t \in Tasks, PairComplete(t) \/ Rollback(t) PROVE IInv'
  BY <1>4, ServerInvariant
<1>5. ASSUME NEW t \in Tasks, PhoneStep(t) PROVE IInv'
  BY <1>5, SaveInvariant DEF PhoneStep
<1>6. ASSUME NEW p \in Refreshers, TokenRefresh(p) PROVE IInv'
  BY <1>6, TokenRefreshInvariant
<1>7. ASSUME NEW p \in Phones, Launch(p) \/ Boot(p) \/ Kill(p) \/ Reinstall(p) PROVE IInv'
  BY <1>7, LaunchInvariant, BootInvariant, KillInvariant, ReinstallInvariant
<1>8. ASSUME NEW p \in Phones, NEW c \in Codes, CompletePairing(p, c) PROVE IInv'
  BY <1>8, CompletePairingInvariant
<1>9. CASE UNCHANGED vars
  <2>1. UNCHANGED <<codes, holder, users, nextId, devices, task, phone, kills, torn, misled>>
    BY <1>9 DEF vars, serverVars
  <2>2. Types'
    BY <2>1 DEF IInv, Types
  <2>3. ServerInv'
    BY <2>1, ServerUntouched DEF IInv
  <2>4. PhoneInv'
    BY <2>1, PhonesUntouched DEF IInv
  <2>5. QED
    BY <2>2, <2>3, <2>4 DEF IInv
<1>10. QED
  BY <1>1, <1>2, <1>3, <1>4, <1>5, <1>6, <1>7, <1>8, <1>9 DEF Next

LEMMA Invariant == Spec => []IInv
  BY InitInvariant, NextInvariant, PTL DEF Spec

\* The state is of its type: only an open transaction of pair_complete holds a row, and
\* every device token is of a code and a user the database has.
THEOREM TypeCorrect == Spec => []TypeOK
  BY Invariant, InvariantImplies, PTL

\* The compare-and-swap of auth/router.py:127 gives tokens to one device per code,
\* however many phones send it, whichever transactions die, and whoever hears the answer.
THEOREM OneDevice == Spec => []OneDevicePerCode
  BY Invariant, InvariantImplies, PTL

\* KeychainStore and TokenStore hold tokens the server knows, no two phones the same; and
\* those of one device, unless a pairing was broken off between its two writes, or an
\* access token that had been asked for before came in after them.
THEOREM TokensAgree == Spec => []PhoneTokensAgree
  BY Invariant, InvariantImplies, PTL

\* AppState, and setAuthenticated of MainActivity, show what is stored, unless a write
\* failed since the launch or was made during it.
THEOREM FlagIsRight == Spec => []FlagShowsToken
  BY Invariant, InvariantImplies, PTL

\* The look for an earlier user of auth/router.py:148 and the flush of a new one never
\* sign in a stranger.
THEOREM StrangersApart == Spec => StrangersStayApart
<1> DEFINE Right == \A d \in devices' \ devices : LET row == codes[d.row] IN
    /\ row.owner # 0 => d.user = row.owner
    /\ row.owner = 0 /\ d.user \in users =>
         \E r \in Rows : codes[r].email = row.email /\ codes[r].owner = d.user
<1>1. IInv /\ [Next]_vars => [Right]_vars
  <2> SUFFICES ASSUME IInv, Next, NEW d \in devices' \ devices
               PROVE  LET row == codes[d.row] IN
                      /\ row.owner # 0 => d.user = row.owner
                      /\ row.owner = 0 /\ d.user \in users =>
                           \E r \in Rows : codes[r].email = row.email /\ codes[r].owner = d.user
    OBVIOUS
  <2>1. PICK t \in Tasks : CommitPairing(t)
    BY DEF Next, PairSendLink, PairInitiate, Issue, Expire, PairComplete, CompareAndSwap, Refuse,
           Rollback, PhoneStep, Save, TokenRefresh, Launch, Boot, Kill, Reinstall, CompletePairing,
           serverVars
  <2>2. d.row = task[t].hit /\ d.user = task[t].user
    BY <2>1 DEF CommitPairing, Device
  <2>3. RightUser(t)
    BY <2>1 DEF CommitPairing, IInv, ServerInv, OnTheServer
  <2>4. QED
    BY <2>2, <2>3 DEF RightUser
<1>2. QED
  BY <1>1, Invariant, PTL DEF Spec, StrangersStayApart
=============================================================================
