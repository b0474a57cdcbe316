------------------------- MODULE MobileSessionProofs -------------------------
(***************************************************************************)
(* Proofs about MobileSession, for both apps and any number of calls.      *)
(***************************************************************************)
EXTENDS MobileSession, TLAPS

States == {"idle", "connecting", "listening", "speaking", "reconnecting", "error"}
Timer == [armed: BOOLEAN, woken: Nat]
Rooms == {"none", "joining", "refused", "joined", "reconnecting", "ended"}

\* The parts of TypeOK that most steps leave alone.
CallsOK == call \in [Connects -> {"new", "token", "refresh", "retoken", "joining", "done"}]
EndsOK == ending \in [Ends -> [pc: {"new", "ending", "done"}, room: {0} \cup Connects]]
HeldOK == current \in {0} \cup Connects /\ heard \in {0} \cup Connects /\ (iOS => heard = current)
RoomsOK == room \in [Connects -> Rooms] /\ events \in [Connects -> Seq(Events)]
UnopenedOK == \A c \in Connects : call[c] \in {"new", "token", "refresh", "retoken"} =>
                                    room[c] = "none" /\ current # c

LEMMA Parts ==
    TypeOK <=> /\ platform \in Platforms /\ state \in States /\ CallsOK /\ EndsOK /\ HeldOK
               /\ timer \in [Timers -> Timer] /\ RoomsOK /\ UnopenedOK
               /\ changes \in 0..MaxChanges /\ crossed \in BOOLEAN
  BY DEF TypeOK, States, Timer, Rooms, CallsOK, EndsOK, HeldOK, RoomsOK, UnopenedOK

LEMMA PartsNext ==
    ASSUME platform' \in Platforms, state' \in States, CallsOK', EndsOK', HeldOK',
           timer' \in [Timers -> Timer], RoomsOK', UnopenedOK',
           changes' \in 0..MaxChanges, crossed' \in BOOLEAN
    PROVE  TypeOK'
  BY DEF TypeOK, States, Timer, Rooms, CallsOK, EndsOK, HeldOK, RoomsOK, UnopenedOK

LEMMA PartsAt == TypeOK' => HeldOK'
  BY DEF TypeOK, HeldOK

LEMMA InitType == Init => TypeOK
<1> SUFFICES ASSUME Init PROVE TypeOK
  OBVIOUS
<1>1. 0 \in 0..MaxChanges
  BY MobileAssumption
<1>2. NoTimer \in Timer
  BY DEF NoTimer, Timer
<1>3. RoomsOK
  BY DEF Init, RoomsOK, Rooms
<1>4. CallsOK /\ EndsOK /\ HeldOK /\ UnopenedOK /\ timer \in [Timers -> Timer]
  BY <1>2 DEF Init, CallsOK, EndsOK, HeldOK, UnopenedOK, Connects
<1>5. QED
  BY <1>1, <1>3, <1>4, Parts DEF Init, States

\* Resetting timeouts, and a check of one, keep the types.
LEMMA ResetType ==
    ASSUME timer \in [Timers -> Timer], NEW stops, NEW starts, Reset(stops, starts)
    PROVE  timer' \in [Timers -> Timer]
<1>1. ASSUME NEW t \in Timers PROVE Cancelled(t) \in Timer
  BY DEF Cancelled, Timer
<1>2. QED
  BY <1>1 DEF Reset, Timer

LEMMA CheckType ==
    ASSUME state \in States, NEW t, Check(t) PROVE state' \in States
  BY DEF Check, States

LEMMA TimeoutType ==
    ASSUME TypeOK, NEW t \in Timers, Elapses(t) \/ Wakes(t) PROVE TypeOK'
<1>1. state' \in States
  BY CheckType, Parts DEF Elapses, Wakes
<1>2. timer' \in [Timers -> Timer]
  <2>1. timer[t] \in Timer
    BY Parts
  <2>2. [timer[t] EXCEPT !.armed = FALSE] \in Timer
    BY <2>1 DEF Timer
  <2>3. timer[t].woken > 0 => [timer[t] EXCEPT !.woken = @ - 1] \in Timer
    BY <2>1 DEF Timer
  <2>4. QED
    BY <2>1, <2>2, <2>3, Parts DEF Elapses, Wakes
<1>3. UNCHANGED <<platform, call, ending, current, heard, crossed, room, events, changes>>
  BY DEF Elapses, Wakes, outside
<1>4. QED
  BY <1>1, <1>2, <1>3, Parts, PartsNext DEF CallsOK, EndsOK, HeldOK, RoomsOK, UnopenedOK, iOS

LEMMA ConnectType ==
    ASSUME TypeOK, NEW c \in Connects, Connect(c) \/ CallStep(c) PROVE TypeOK'
<1> USE DEF outside
<1>1. CASE Connect(c)
  <2>1. state' \in States /\ CallsOK'
    BY <1>1, Parts DEF Connect, Goes, Errs, States, CallsOK
  <2>2. UnopenedOK'
    BY <1>1, Parts DEF Connect, Goes, Errs, UnopenedOK, CallsOK
  <2>3. crossed' \in BOOLEAN
    BY <1>1, Parts DEF Connect, Busy
  <2>4. QED
    BY <1>1, <2>1, <2>2, <2>3, Parts, PartsNext DEF Connect, EndsOK, HeldOK, RoomsOK, iOS
<1>2. CASE OpenRoom(c)
  <2>1. CallsOK' /\ HeldOK'
    BY <1>2, Parts DEF OpenRoom, Goes, CallsOK, HeldOK, iOS
  <2>2. RoomsOK'
    <3>1. <<"connecting">> \in Seq(Events) /\ <<>> \in Seq(Events)
      BY DEF Events
    <3>2. QED
      BY <1>2, <3>1, Parts DEF OpenRoom, RoomsOK, Rooms
  <2>3. UnopenedOK'
    BY <1>2, Parts DEF OpenRoom, Goes, UnopenedOK, CallsOK, RoomsOK
  <2>4. QED
    BY <1>2, <2>1, <2>2, <2>3, Parts, PartsNext DEF OpenRoom, EndsOK
<1>3. CASE Unauthorized(c) \/ Refreshed(c)
  <2>1. CallsOK' /\ UnopenedOK'
    BY <1>3, Parts DEF Unauthorized, Refreshed, Goes, CallsOK, UnopenedOK
  <2>2. QED
    BY <1>3, <2>1, Parts, PartsNext DEF Unauthorized, Refreshed, EndsOK, HeldOK, RoomsOK, iOS
<1>4. CASE ConnectFails(c)
  <2>1. CallsOK' /\ UnopenedOK' /\ state' \in States
    BY <1>4, Parts DEF ConnectFails, Goes, Errs, CallsOK, UnopenedOK, States
  <2>2. QED
    BY <1>4, <2>1, Parts, PartsNext DEF ConnectFails, EndsOK, HeldOK, RoomsOK, iOS
<1>5. CASE Connected(c)
  <2>1. CallsOK' /\ UnopenedOK' /\ HeldOK'
    BY <1>5, Parts DEF Connected, Goes, CallsOK, UnopenedOK, HeldOK, iOS
  <2>2. timer' \in [Timers -> Timer]
    BY <1>5, ResetType, Parts DEF Connected
  <2>3. QED
    BY <1>5, <2>1, <2>2, Parts, PartsNext DEF Connected, EndsOK, RoomsOK
<1>6. QED
  BY <1>1, <1>2, <1>3, <1>4, <1>5 DEF CallStep

\* A room that ends at the app's request was open.
LEMMA FarewellType ==
    ASSUME TypeOK, NEW r \in {0} \cup Connects, Farewell(r)
    PROVE  /\ RoomsOK'
           /\ \A c \in Connects : room[c] = "none" => room'[c] = "none"
<1>1. CASE r # 0 /\ Live(r)
  <2>1. r \in Connects /\ Append(events[r], "disconnected") \in Seq(Events)
    BY <1>1, Parts DEF RoomsOK, Events
  <2>2. room' = [room EXCEPT ![r] = IF @ = "joining" THEN "refused" ELSE "ended"]
        /\ events' = [events EXCEPT ![r] = Append(@, "disconnected")]
    BY <1>1 DEF Farewell
  <2>3. QED
    BY <1>1, <2>1, <2>2, Parts DEF RoomsOK, Rooms, Live
<1>2. CASE ~(r # 0 /\ Live(r))
  BY <1>2, Parts DEF Farewell, RoomsOK
<1>3. QED
  BY <1>1, <1>2

LEMMA DisconnectType ==
    ASSUME TypeOK, NEW e \in Ends, Disconnect(e) \/ RoomDisconnects(e) \/ Disconnected(e)
    PROVE  TypeOK'
<1>1. CASE Disconnect(e)
  <2>1. timer' \in [Timers -> Timer] /\ crossed' \in BOOLEAN
    BY <1>1, ResetType, Parts DEF Disconnect, Busy
  <2>2. EndsOK' /\ HeldOK' /\ state' \in States
    <3>1. CASE iOS /\ current # 0
      BY <1>1, <3>1, Parts DEF Disconnect, EndsOK, HeldOK, iOS
    <3>2. CASE ~(iOS /\ current # 0)
      BY <1>1, <3>2, Parts DEF Disconnect, Cleared, EndsOK, HeldOK, iOS, States
    <3>3. QED
      BY <3>1, <3>2
  <2>3. RoomsOK' /\ (current' = current \/ current' = 0)
        /\ \A c \in Connects : room[c] = "none" => room'[c] = "none"
    <3>1. CASE iOS /\ current # 0
      BY <1>1, <3>1, Parts DEF Disconnect, RoomsOK
    <3>2. CASE ~(iOS /\ current # 0)
      BY <1>1, <3>2, FarewellType, Parts DEF Disconnect, Cleared, HeldOK
    <3>3. QED
      BY <3>1, <3>2
  <2>4. UnopenedOK'
    BY <1>1, <2>3, Parts DEF Disconnect, UnopenedOK, Connects
  <2>5. QED
    BY <1>1, <2>1, <2>2, <2>3, <2>4, Parts, PartsNext DEF Disconnect, CallsOK
<1>2. CASE RoomDisconnects(e)
  <2>1. ending[e].room \in {0} \cup Connects
    BY Parts DEF EndsOK
  <2>2. RoomsOK' /\ \A c \in Connects : room[c] = "none" => room'[c] = "none"
    BY <1>2, <2>1, FarewellType DEF RoomDisconnects
  <2>3. QED
    BY <1>2, <2>2, Parts, PartsNext DEF RoomDisconnects, CallsOK, EndsOK, HeldOK, UnopenedOK, iOS
<1>3. CASE Disconnected(e)
  <2>1. EndsOK' /\ HeldOK' /\ state' \in States
    BY <1>3, Parts DEF Disconnected, Cleared, EndsOK, HeldOK, States, iOS
  <2>2. UnopenedOK'
    BY <1>3, Parts DEF Disconnected, Cleared, UnopenedOK, Connects, outside
  <2>3. QED
    BY <1>3, <2>1, <2>2, Parts, PartsNext DEF Disconnected, CallsOK, RoomsOK, outside
<1>4. QED
  BY <1>1, <1>2, <1>3

LEMMA DeliverType == ASSUME TypeOK, NEW r \in Connects, Deliver(r) PROVE TypeOK'
<1>1. events' \in [Connects -> Seq(Events)] /\ Head(events[r]) \in Events
  BY Parts DEF Deliver, RoomsOK
<1>2. state' \in States /\ timer' \in [Timers -> Timer]
  <2>1. CASE heard = r
    <3>1. timer' \in [Timers -> Timer]
      BY <2>1, ResetType, Parts DEF Deliver, Handle
    <3>2. Shown(Head(events[r])) \in States
      BY <1>1, Parts DEF Shown, Events, States
    <3>3. QED
      BY <2>1, <3>1, <3>2 DEF Deliver, Handle
  <2>2. CASE heard # r
    BY <2>2, Parts DEF Deliver
  <2>3. QED
    BY <2>1, <2>2
<1>3. QED
  BY <1>1, <1>2, Parts, PartsNext DEF Deliver, CallsOK, EndsOK, HeldOK, RoomsOK, UnopenedOK, iOS

\* LiveKit changes rooms that were opened.
LEMMA TurnsType ==
    ASSUME TypeOK, NEW r \in Connects, NEW from \in SUBSET (Rooms \ {"none"}),
           NEW to \in Rooms, NEW sent \in Seq(Events), Turns(r, from, to, sent),
           changes' \in 0..MaxChanges
    PROVE  TypeOK'
<1>1. RoomsOK'
  BY Parts DEF Turns, RoomsOK
<1>2. UnopenedOK'
  BY Parts DEF Turns, UnopenedOK, RoomsOK
<1>3. QED
  BY <1>1, <1>2, Parts, PartsNext DEF Turns, CallsOK, EndsOK, HeldOK, iOS

LEMMA LiveKitType ==
    ASSUME TypeOK, NEW r \in Connects, Joins(r) \/ Refused(r) \/ Change(r) PROVE TypeOK'
<1>1. \A e \in Events : <<e>> \in Seq(Events)
  OBVIOUS
<1>2. <<"disconnected", "failed">> \in Seq(Events)
  BY DEF Events
<1>3. CASE Joins(r)
  <2>1. Turns(r, {"joining"}, "joined", <<"connected">>) /\ changes' \in 0..MaxChanges
    BY <1>3, Parts DEF Joins
  <2>2. QED
    BY <1>1, <2>1, TurnsType DEF Rooms, Events
<1>4. CASE Refused(r)
  <2>1. Turns(r, {"joining"}, "refused", <<"disconnected">>) /\ changes' \in 0..MaxChanges
    BY <1>4, Parts DEF Refused
  <2>2. QED
    BY <1>1, <2>1, TurnsType DEF Rooms, Events
<1>5. CASE Change(r)
  <2>1. changes' \in 0..MaxChanges
    BY <1>5, MobileAssumption, Parts DEF Change
  <2>2. CASE Loses(r)
    BY <1>1, <2>1, <2>2, TurnsType DEF Loses, Rooms, Events
  <2>3. CASE Regains(r)
    <3>1. (IF iOS THEN "connected" ELSE "reconnected") \in Events
      BY DEF Events
    <3>2. QED
      BY <1>1, <2>1, <2>3, <3>1, TurnsType DEF Regains, Rooms
  <2>4. CASE Speaks(r)
    BY <1>1, <2>1, <2>4, TurnsType DEF Speaks, Rooms, Events
  <2>5. CASE Drops(r)
    <3>1. PICK sent \in {<<"disconnected">>, <<"failed">>, <<"disconnected", "failed">>} :
            Turns(r, {"joined", "reconnecting"}, "ended", sent)
      BY <2>5 DEF Drops
    <3>2. sent \in Seq(Events)
      BY <1>1, <1>2, <3>1 DEF Events
    <3>3. QED
      BY <2>1, <3>1, <3>2, TurnsType DEF Rooms
  <2>6. QED
    BY <1>5, <2>2, <2>3, <2>4, <2>5 DEF Change
<1>6. QED
  BY <1>3, <1>4, <1>5

LEMMA TypeStep == TypeOK /\ [Next]_vars => TypeOK'
<1> SUFFICES ASSUME TypeOK, [Next]_vars PROVE TypeOK'
  OBVIOUS
<1>1. ASSUME NEW c \in Connects, Connect(c) \/ CallStep(c) PROVE TypeOK'
  BY <1>1, ConnectType
<1>2. ASSUME NEW c \in Connects, Deliver(c) PROVE TypeOK'
  BY <1>2, DeliverType
<1>3. ASSUME NEW c \in Connects, Joins(c) \/ Refused(c) \/ Change(c) PROVE TypeOK'
  BY <1>3, LiveKitType
<1>4. ASSUME NEW e \in Ends, Disconnect(e) \/ RoomDisconnects(e) \/ Disconnected(e)
      PROVE  TypeOK'
  BY <1>4, DisconnectType
<1>5. ASSUME NEW t \in Timers, Elapses(t) \/ Wakes(t) PROVE TypeOK'
  BY <1>5, TimeoutType
<1>6. CASE UNCHANGED vars
  BY <1>6, Parts, PartsNext DEF vars, CallsOK, EndsOK, HeldOK, RoomsOK, UnopenedOK, iOS
<1>7. QED
  BY <1>1, <1>2, <1>3, <1>4, <1>5, <1>6 DEF Next

\* Whatever calls, timeouts and events cross, the session keeps its type: it holds and
\* hears only rooms its own connect() calls opened, and the iOS app hears the room it
\* holds (VoiceSession.swift:98-137).
THEOREM TypeCorrect == Spec => []TypeOK
  BY InitType, TypeStep, PTL DEF Spec

(***************************************************************************)
(* What the screen tells.  The invariant follows a room's events: each     *)
(* names the state the room was in when it was sent, the last one the      *)
(* state it is in, so the screen is true once the last one was handled,    *)
(* provided that every event of the room reaches the session.  That needs  *)
(* one call at a time: only then is the room that can still speak the one  *)
(* the session holds, and the session hears it.                            *)
(***************************************************************************)
Talk == {"speaks", "quiet"}

\* The state of the room an event tells of, and the states of the screen that fit it.
Means(e) == CASE e = "connecting" -> "joining"
              [] e \in {"connected", "reconnected", "speaks", "quiet"} -> "joined"
              [] e = "reconnecting" -> "reconnecting"
              [] e \in {"disconnected", "failed"} -> "ended"

\* What the last event of a room says: it ended, whether or not it was joined before.
Past(r) == IF r = "refused" THEN "ended" ELSE r

Fits(r) == CASE r = "joining" -> {"connecting", "error"}
             [] r = "joined" -> {"listening", "speaking", "connecting", "error"}
             [] r = "reconnecting" -> {"reconnecting", "connecting", "error"}
             [] r = "ended" -> {"idle", "connecting", "error"}
             [] OTHER -> {"idle", "error"}

Asks(c) == call[c] \in {"token", "refresh", "retoken"}
Opens(c) == ~iOS /\ call[c] = "joining"

\* A queue of events ends with the state of its room, and the agent talks in a joined one.
Told(q, r) ==
    /\ \A i \in DOMAIN q : i # 1 /\ q[i] \in Talk => Means(q[i - 1]) = "joined"
    /\ q # <<>> => Means(q[Len(q)]) = r

\* The screen before the events of q: what it shows fits what it was told last.
Matches(q, r, s) ==
    IF q = <<>> THEN s \in Fits(r) ELSE q[1] \in Talk => s \in Fits("joined")

EventsInv == \A r \in Connects : Told(events[r], Past(room[r]))

Solo ==
    /\ \A c, d \in Connects : Under(c) /\ Under(d) => c = d
    /\ \A e, f \in Ends : ending[e].pc = "ending" /\ ending[f].pc = "ending" => e = f
    /\ \A c \in Connects, e \in Ends : ~(Under(c) /\ ending[e].pc = "ending")

RoomInv ==
    /\ \A r \in Connects : Live(r) => r = current
    /\ \A c, r \in Connects : Asks(c) => ~Live(r) /\ events[r] = <<>>
    /\ \A c \in Connects : call[c] = "joining" => current = c
    /\ \A c, r \in Connects : call[c] = "joining" /\ r # c => events[r] = <<>>
    /\ \A r \in Connects : room[r] = "joining" => call[r] = "joining"
    /\ \A e \in Ends : ending[e].pc = "ending" => ending[e].room = current /\ current # 0

HeardInv ==
    /\ heard \notin {0, current} => events[heard] = <<>>
    /\ \A c \in Connects : call[c] = "new" \/ Asks(c) \/ Opens(c) => heard # c

Deaf == heard # current \/ current = 0

ShownInv ==
    /\ \A c \in Connects : Asks(c) \/ Opens(c) => state \in {"connecting", "error"}
    /\ Deaf /\ ~Busy => state \in {"idle", "error"}
    /\ Deaf /\ ~Busy /\ state # "error" => \A r \in Connects : ~Live(r)
    /\ ~Deaf /\ (\A c \in Connects : ~Asks(c)) => Matches(events[current], Past(room[current]), state)

OneInv == Solo /\ RoomInv /\ HeardInv /\ ShownInv
Inv == TypeOK /\ EventsInv /\ (crossed \/ OneInv)

(***************************************************************************)
(* Queues of events                                                        *)
(***************************************************************************)
LEMMA SendOne ==
    ASSUME NEW q \in Seq(Events), NEW e \in Events, NEW r, NEW s, Told(q, r),
           e \in Talk => r = "joined"
    PROVE  /\ Told(q \o <<e>>, Means(e))
           /\ Matches(q, r, s) => Matches(q \o <<e>>, Means(e), s)
           /\ q \o <<e>> = Append(q, e) /\ q \o <<e>> # <<>>
<1> DEFINE p == q \o <<e>>
<1>1. p \in Seq(Events) /\ Len(p) = Len(q) + 1 /\ p[Len(p)] = e /\ p = Append(q, e)
      /\ \A i \in 1..Len(q) : p[i] = q[i]
  OBVIOUS
<1>2. p # <<>>
  BY <1>1
<1>3. ASSUME NEW i \in DOMAIN p, i # 1, p[i] \in Talk PROVE Means(p[i - 1]) = "joined"
  <2>1. CASE i = Len(p)
    <3>1. q # <<>> /\ p[i - 1] = q[Len(q)] /\ r = "joined"
      BY <1>1, <1>3, <2>1
    <3>2. QED
      BY <3>1 DEF Told
  <2>2. CASE i # Len(p)
    <3>1. i \in DOMAIN q /\ p[i] = q[i] /\ p[i - 1] = q[i - 1]
      BY <1>1, <1>3, <2>2
    <3>2. QED
      BY <1>3, <3>1 DEF Told
  <2>3. QED
    BY <2>1, <2>2
<1>4. Matches(q, r, s) => Matches(p, Means(e), s)
  <2>1. CASE q = <<>>
    BY <1>1, <1>2, <2>1 DEF Matches
  <2>2. CASE q # <<>>
    <3>1. p[1] = q[1]
      BY <1>1, <2>2
    <3>2. QED
      BY <1>2, <2>2, <3>1 DEF Matches
  <2>3. QED
    BY <2>1, <2>2
<1>5. Told(p, Means(e))
  BY <1>1, <1>3 DEF Told
<1>6. QED
  BY <1>1, <1>2, <1>4, <1>5

\* The iOS app's "disconnected" with the error behind it.
LEMMA SendLoss ==
    ASSUME NEW q \in Seq(Events), NEW r, NEW s, Told(q, r)
    PROVE  /\ Told(q \o <<"disconnected", "failed">>, "ended")
           /\ Matches(q, r, s) => Matches(q \o <<"disconnected", "failed">>, "ended", s)
<1> DEFINE p == q \o <<"disconnected">>
<1>1. "disconnected" \in Events \ Talk /\ "failed" \in Events \ Talk
      /\ Means("disconnected") = "ended" /\ Means("failed") = "ended"
  BY DEF Events, Talk, Means
<1>2. p \in Seq(Events) /\ q \o <<"disconnected", "failed">> = p \o <<"failed">>
  BY <1>1
<1>3. Told(p, "ended") /\ (Matches(q, r, s) => Matches(p, "ended", s))
  BY <1>1, SendOne
<1> HIDE DEF p
<1>4. Told(p \o <<"failed">>, "ended")
      /\ (Matches(p, "ended", s) => Matches(p \o <<"failed">>, "ended", s))
  BY <1>1, <1>2, <1>3, SendOne
<1>5. QED
  BY <1>2, <1>3, <1>4

\* What the handler shows for an event fits the room the event tells of.
LEMMA ShownFits ==
    ASSUME state \in States, NEW e \in Events, e \in Talk => state \in Fits("joined")
    PROVE  Shown(e) \in Fits(Means(e))
  BY DEF States, Events, Talk, Fits, Means, Shown

LEMMA HandOne ==
    ASSUME state \in States, NEW q \in Seq(Events), NEW r, q # <<>>, Told(q, r)
    PROVE  /\ Told(Tail(q), r)
           /\ Matches(q, r, state) => Matches(Tail(q), r, Shown(Head(q)))
<1> DEFINE p == Tail(q)
<1>1. p \in Seq(Events) /\ Len(p) = Len(q) - 1 /\ Head(q) = q[1] /\ Head(q) \in Events
      /\ \A i \in 1..Len(p) : p[i] = q[i + 1]
  OBVIOUS
<1>2. Told(p, r)
  <2>1. ASSUME NEW i \in DOMAIN p, i # 1, p[i] \in Talk PROVE Means(p[i - 1]) = "joined"
    <3>1. i + 1 \in DOMAIN q /\ i + 1 # 1 /\ p[i] = q[i + 1] /\ p[i - 1] = q[(i + 1) - 1]
      BY <1>1, <2>1
    <3>2. QED
      BY <2>1, <3>1 DEF Told
  <2>2. p # <<>> => p[Len(p)] = q[Len(q)]
    BY <1>1
  <2>3. QED
    BY <2>1, <2>2 DEF Told
<1>3. ASSUME Matches(q, r, state) PROVE Matches(p, r, Shown(Head(q)))
  <2>1. Shown(Head(q)) \in Fits(Means(Head(q)))
    BY <1>1, <1>3, ShownFits DEF Matches
  <2>2. CASE p = <<>>
    <3>1. Means(Head(q)) = r
      BY <1>1, <2>2 DEF Told
    <3>2. QED
      BY <2>1, <2>2, <3>1 DEF Matches
  <2>3. CASE p # <<>> /\ p[1] \in Talk
    <3>1. 2 \in DOMAIN q /\ q[2] = p[1] /\ Head(q) = q[2 - 1]
      BY <1>1, <2>3
    <3>2. Means(Head(q)) = "joined"
      BY <2>3, <3>1 DEF Told
    <3>3. QED
      BY <2>1, <2>3, <3>2 DEF Matches
  <2>4. CASE p # <<>> /\ p[1] \notin Talk
    BY <2>4 DEF Matches
  <2>5. QED
    BY <2>2, <2>3, <2>4
<1>4. QED
  BY <1>2, <1>3

\* An error on the screen fits every room.
LEMMA ErrorFits == \A q, r : Matches(q, r, "error")
  BY DEF Matches, Fits

LEMMA FitsOf ==
    /\ \A r : "error" \in Fits(r)
    /\ \A r \in {"joining", "joined", "reconnecting", "ended"} : "connecting" \in Fits(r)
    /\ \A r \in Rooms : "idle" \in Fits(Past(r)) => r \in {"none", "refused", "ended"}
    /\ \A r \in Rooms, s \in {"listening", "speaking"} : s \in Fits(Past(r)) => r = "joined"
    /\ \A r \in Rooms : "reconnecting" \in Fits(Past(r)) => r = "reconnecting"
  BY DEF Fits, Past, Rooms

(***************************************************************************)
(* Every step keeps the invariant                                          *)
(***************************************************************************)
LEMMA InitInv == Init => Inv
<1> SUFFICES ASSUME Init PROVE Inv
  OBVIOUS
<1>1. TypeOK
  BY InitType
<1>2. EventsInv
  BY DEF Init, EventsInv, Told
<1>3. Solo /\ RoomInv /\ HeardInv
  BY DEF Init, Solo, RoomInv, HeardInv, Under, Live, Asks, Opens, Connects
<1>4. ShownInv
  BY DEF Init, ShownInv, Deaf, Live, Asks, Opens
<1>5. QED
  BY <1>1, <1>2, <1>3, <1>4 DEF Inv, OneInv

\* A timeout makes an error of what the screen shows, or does nothing.
LEMMA TimeoutTold ==
    ASSUME Inv, NEW t \in Timers, Elapses(t) \/ Wakes(t) PROVE EventsInv' /\ (crossed' \/ OneInv')
<1>1. UNCHANGED <<platform, call, ending, current, heard, crossed, room, events>>
  BY DEF Elapses, Wakes, outside
<1>2. state' = state \/ (state' = "error" /\ state = Awaits(t))
  BY DEF Elapses, Wakes, Check
<1>3. EventsInv'
  BY <1>1 DEF Inv, EventsInv
<1>4. ASSUME OneInv PROVE OneInv'
  <2>1. Solo' /\ RoomInv' /\ HeardInv'
    BY <1>1, <1>4 DEF OneInv, Solo, RoomInv, HeardInv, Under, Live, Asks, Opens, iOS
  <2>2. ShownInv'
    BY <1>1, <1>2, <1>4, ErrorFits
       DEF OneInv, ShownInv, Deaf, Busy, Under, Live, Asks, Opens, iOS
  <2>3. QED
    BY <2>1, <2>2 DEF OneInv
<1>5. QED
  BY <1>1, <1>3, <1>4 DEF Inv

\* A connect() that crosses nothing finds no room left and nothing under way.
LEMMA ConnectTold ==
    ASSUME Inv, NEW c \in Connects, Connect(c) PROVE EventsInv' /\ (crossed' \/ OneInv')
<1>1. UNCHANGED <<platform, ending, current, heard, room, events>>
  BY DEF Connect, outside
<1>2. EventsInv'
  BY <1>1 DEF Inv, EventsInv
<1>3. ASSUME ~crossed' PROVE OneInv'
  <2>1. ~Busy /\ \A r \in Connects : ~Live(r) /\ events[r] = <<>>
    BY <1>3 DEF Connect
  <2>2. OneInv /\ call[c] = "new" /\ CallsOK
    BY <1>3, Parts DEF Inv, Connect
  <2>3. \/ Goes(c, "token") /\ state' = "connecting"
        \/ Goes(c, "done") /\ state' = "error"
    BY DEF Connect, Errs
  <2>4. \A d \in Connects : call[d] \in {"new", "done"}
    BY <2>1 DEF Busy, Under
  <2>5. \A d \in Connects : call'[d] = IF d = c THEN call'[c] ELSE call[d]
    BY <2>2, <2>3 DEF Goes, CallsOK
  <2>6. call'[c] \in {"token", "done"}
    BY <2>2, <2>3 DEF Goes, CallsOK
  <2>7. Solo'
    BY <1>1, <2>1, <2>4, <2>5 DEF Solo, Under, Busy
  <2>8. RoomInv'
    <3>1. \A d \in Connects : call'[d] # "joining"
      BY <2>4, <2>5, <2>6
    <3>2. \A r \in Connects : ~Live(r)' /\ events'[r] = <<>> /\ room'[r] # "joining"
      BY <1>1, <2>1 DEF Live
    <3>3. \A e \in Ends : ending'[e].pc # "ending"
      BY <1>1, <2>1 DEF Busy
    <3>4. QED
      BY <3>1, <3>2, <3>3 DEF RoomInv
  <2>9. HeardInv'
    <3>1. \A d \in Connects : call'[d] # "joining" /\ (call'[d] # "done" => heard # d)
      BY <2>2, <2>4, <2>5, <2>6 DEF OneInv, HeardInv
    <3>2. heard \in Connects \cup {0}
      BY Parts DEF Inv, HeldOK
    <3>3. QED
      BY <1>1, <2>1, <3>1, <3>2 DEF HeardInv, Asks, Opens
  <2>10. ShownInv'
    <3>1. \A r \in Connects : ~Live(r)'
      BY <1>1, <2>1 DEF Live
    <3>2. CASE Goes(c, "token") /\ state' = "connecting"
      <4>1. Asks(c)' /\ Busy'
        BY <2>2, <3>2 DEF Goes, CallsOK, Asks, Under, Busy
      <4>2. QED
        BY <3>2, <4>1 DEF ShownInv
    <3>3. CASE state' = "error"
      BY <3>1, <3>3, ErrorFits DEF ShownInv
    <3>4. QED
      BY <2>3, <3>2, <3>3
  <2>11. QED
    BY <2>7, <2>8, <2>9, <2>10 DEF OneInv
<1>4. QED
  BY <1>2, <1>3

\* A call under way is the only one.
LEMMA Alone ==
    ASSUME Inv, OneInv, NEW c \in Connects, Under(c)
    PROVE  /\ \A d \in Connects \ {c} : call[d] \in {"new", "done"}
           /\ \A e \in Ends : ending[e].pc # "ending"
  BY DEF OneInv, Solo, Under

LEMMA OpenRoomTold ==
    ASSUME Inv, NEW c \in Connects, OpenRoom(c) PROVE EventsInv' /\ (crossed' \/ OneInv')
<1>1. UNCHANGED <<platform, state, ending, crossed>> /\ current' = c
      /\ room' = [room EXCEPT ![c] = "joining"]
      /\ events' = [events EXCEPT ![c] = IF iOS THEN <<"connecting">> ELSE <<>>]
      /\ heard' = (IF iOS THEN c ELSE heard) /\ call' = [call EXCEPT ![c] = "joining"]
  BY DEF OpenRoom, Goes
<1>2. CallsOK /\ RoomsOK /\ HeldOK /\ Asks(c) /\ c # 0
  BY Parts DEF Inv, OpenRoom, Asks, Connects
<1>3. \A d \in Connects : /\ call'[d] = IF d = c THEN "joining" ELSE call[d]
                          /\ room'[d] = IF d = c THEN "joining" ELSE room[d]
                          /\ d # c => events'[d] = events[d]
  BY <1>1, <1>2 DEF CallsOK, RoomsOK
<1>4. events'[c] = (IF iOS THEN <<"connecting">> ELSE <<>>)
  BY <1>1, <1>2 DEF RoomsOK
<1>5. EventsInv'
  <2>1. Told(<<"connecting">>, "joining") /\ Told(<<>>, "joining")
    BY DEF Told, Means
  <2>2. QED
    BY <1>3, <1>4, <2>1 DEF Inv, EventsInv, Past
<1>6. ASSUME OneInv PROVE OneInv'
  <2>1. Under(c) /\ \A r \in Connects : ~Live(r) /\ events[r] = <<>>
    BY <1>2, <1>6 DEF OneInv, RoomInv, Under, Asks
  <2>2. /\ \A d \in Connects \ {c} : call[d] \in {"new", "done"}
        /\ \A e \in Ends : ending[e].pc # "ending"
    BY <1>6, <2>1, Alone
  <2>3. Solo'
    BY <1>1, <1>3, <2>2 DEF Solo, Under
  <2>4. RoomInv'
    BY <1>1, <1>3, <2>1, <2>2 DEF RoomInv, Live, Asks
  <2>5. HeardInv'
    <3>1. CASE iOS
      BY <1>1, <1>3, <2>2, <3>1 DEF HeardInv, Asks, Opens, iOS
    <3>2. CASE ~iOS
      <4>1. heard # c /\ \A d \in Connects : call[d] = "new" => heard # d
        BY <1>2, <1>6 DEF OneInv, HeardInv
      <4>2. heard \in Connects \ {c} => events'[heard] = <<>>
        BY <1>3, <2>1
      <4>3. QED
        BY <1>1, <1>2, <1>3, <2>2, <3>2, <4>1, <4>2 DEF HeardInv, Asks, Opens, iOS, HeldOK
    <3>3. QED
      BY <3>1, <3>2
  <2>6. ShownInv'
    <3>1. Busy' /\ state' \in {"connecting", "error"}
      BY <1>1, <1>2, <1>3, <1>6 DEF OneInv, ShownInv, Busy, Under
    <3>2. CASE iOS
      <4>1. Matches(events'[c], Past(room'[c]), state')
        BY <1>4, <3>2 DEF Matches, Talk
      <4>2. QED
        BY <1>1, <3>1, <4>1 DEF ShownInv
    <3>3. CASE ~iOS
      <4>1. Deaf'
        BY <1>1, <1>2, <1>6, <3>3 DEF OneInv, HeardInv, Deaf
      <4>2. QED
        BY <3>1, <4>1 DEF ShownInv
    <3>4. QED
      BY <3>2, <3>3
  <2>7. QED
    BY <2>3, <2>4, <2>5, <2>6 DEF OneInv
<1>7. QED
  BY <1>1, <1>5, <1>6 DEF Inv

LEMMA RefreshTold ==
    ASSUME Inv, NEW c \in Connects, Unauthorized(c) \/ Refreshed(c)
    PROVE  EventsInv' /\ (crossed' \/ OneInv')
<1>1. UNCHANGED <<platform, state, ending, current, heard, room, events, crossed>> /\ Asks(c)
      /\ \E pc \in {"refresh", "retoken"} : call' = [call EXCEPT ![c] = pc]
  BY DEF Unauthorized, Refreshed, Goes, outside, Asks
<1>2. \A d \in Connects : /\ d # c => call'[d] = call[d]
                          /\ call'[c] \in {"refresh", "retoken"}
  BY <1>1, Parts DEF Inv, CallsOK
<1>3. EventsInv'
  BY <1>1 DEF Inv, EventsInv
<1>4. ASSUME OneInv PROVE OneInv'
  <2>1. \A d \in Connects : /\ Asks(d)' = Asks(d) /\ Opens(d)' = Opens(d) /\ Under(d)' = Under(d)
                            /\ (call'[d] = "joining") = (call[d] = "joining")
                            /\ (call'[d] = "new") = (call[d] = "new")
    BY <1>1, <1>2 DEF Asks, Opens, Under, iOS
  <2>2. Busy' = Busy
    BY <1>1, <2>1 DEF Busy
  <2>3. Solo'
    BY <1>1, <1>4, <2>1 DEF OneInv, Solo
  <2>4. RoomInv'
    BY <1>1, <1>4, <2>1 DEF OneInv, RoomInv, Live
  <2>5. HeardInv'
    BY <1>1, <1>4, <2>1 DEF OneInv, HeardInv
  <2>6. ShownInv'
    BY <1>1, <1>4, <2>1, <2>2 DEF OneInv, ShownInv, Live, Deaf
  <2>7. QED
    BY <2>3, <2>4, <2>5, <2>6 DEF OneInv
<1>5. QED
  BY <1>1, <1>3, <1>4 DEF Inv

\* A call that ends with an error leaves no room that is heard: it opened none, its room
\* ended, or on Android the microphone failed before the events were collected.
LEMMA ConnectFailsTold ==
    ASSUME Inv, NEW c \in Connects, ConnectFails(c) PROVE EventsInv' /\ (crossed' \/ OneInv')
<1>1. UNCHANGED <<platform, ending, current, heard, room, events, crossed>> /\ state' = "error"
      /\ call' = [call EXCEPT ![c] = "done"]
      /\ (Asks(c) \/ (call[c] = "joining" /\ room[c] # "joining"))
  BY DEF ConnectFails, Errs, Goes, outside, Asks, Joined
<1>2. \A d \in Connects : call'[d] = IF d = c THEN "done" ELSE call[d]
  BY <1>1, Parts DEF Inv, CallsOK
<1>3. EventsInv'
  BY <1>1 DEF Inv, EventsInv
<1>4. ASSUME OneInv PROVE OneInv'
  <2>1. Under(c)
    BY <1>1 DEF Under, Asks
  <2>2. Solo'
    BY <1>1, <1>2, <1>4 DEF OneInv, Solo, Under
  <2>3. RoomInv'
    BY <1>1, <1>2, <1>4, <2>1 DEF OneInv, RoomInv, Live, Asks
  <2>4. HeardInv'
    BY <1>1, <1>2, <1>4 DEF OneInv, HeardInv, Asks, Opens, iOS
  <2>5. ShownInv'
    BY <1>1, ErrorFits DEF ShownInv
  <2>6. QED
    BY <2>2, <2>3, <2>4, <2>5 DEF OneInv
<1>5. QED
  BY <1>1, <1>3, <1>4 DEF Inv

\* On Android the session begins to hear its room, while the screen still waits for it.
LEMMA ConnectedTold ==
    ASSUME Inv, NEW c \in Connects, Connected(c) PROVE EventsInv' /\ (crossed' \/ OneInv')
<1>1. UNCHANGED <<platform, state, ending, current, room, events, crossed>>
      /\ call[c] = "joining" /\ room[c] \in {"joined", "reconnecting", "ended"}
      /\ call' = [call EXCEPT ![c] = "done"] /\ heard' = (IF iOS THEN heard ELSE c)
  BY DEF Connected, Joined, Goes, outside
<1>2. \A d \in Connects : call'[d] = IF d = c THEN "done" ELSE call[d]
  BY <1>1, Parts DEF Inv, CallsOK
<1>3. EventsInv'
  BY <1>1 DEF Inv, EventsInv
<1>4. ASSUME OneInv PROVE OneInv'
  <2>1. Under(c) /\ current = c /\ c # 0
    BY <1>1, <1>4 DEF OneInv, RoomInv, Under, Connects
  <2>2. /\ \A d \in Connects \ {c} : call[d] \in {"new", "done"}
        /\ \A e \in Ends : ending[e].pc # "ending"
    BY <1>4, <2>1, Alone
  <2>3. Solo'
    BY <1>1, <1>2, <2>2 DEF Solo, Under
  <2>4. RoomInv'
    BY <1>1, <1>2, <1>4, <2>2 DEF OneInv, RoomInv, Live, Asks
  <2>5. HeardInv' /\ ~Deaf'
    <3>1. heard' = c
      BY <1>1, <2>1, Parts DEF Inv, HeldOK
    <3>2. QED
      BY <1>1, <1>2, <2>1, <2>2, <3>1 DEF HeardInv, Deaf, Asks, Opens
  <2>6. ShownInv'
    <3>1. \A d \in Connects : ~Asks(d)' /\ ~Opens(d)'
      BY <1>2, <2>2 DEF Asks, Opens
    <3>2. Matches(events[c], Past(room[c]), state)
      <4>1. CASE iOS
        <5>1. ~Deaf /\ \A d \in Connects : ~Asks(d)
          BY <1>1, <2>1, <2>2, <4>1, Parts DEF Inv, HeldOK, Deaf, Asks
        <5>2. QED
          BY <1>4, <2>1, <5>1 DEF OneInv, ShownInv
      <4>2. CASE ~iOS
        <5>1. state \in {"connecting", "error"}
          BY <1>1, <1>4, <4>2 DEF OneInv, ShownInv, Opens
        <5>2. state \in Fits(Past(room[c])) /\ state \in Fits("joined")
          BY <1>1, <5>1, FitsOf DEF Past
        <5>3. QED
          BY <5>2 DEF Matches
      <4>3. QED
        BY <4>1, <4>2
    <3>3. QED
      BY <1>1, <2>1, <2>5, <3>1, <3>2 DEF ShownInv
  <2>7. QED
    BY <2>3, <2>4, <2>5, <2>6 DEF OneInv
<1>5. QED
  BY <1>1, <1>3, <1>4 DEF Inv

(***************************************************************************)
(* disconnect() and the rooms                                              *)
(***************************************************************************)
\* The room that ends at the app's request says so last.
LEMMA FarewellTold ==
    ASSUME Inv, NEW r \in {0} \cup Connects, Farewell(r)
    PROVE  /\ EventsInv'
           /\ \A d \in Connects : d # r \/ ~Live(d) => room'[d] = room[d]
           /\ \A d \in Connects : d = r /\ Live(d) => room'[d] \in {"refused", "ended"}
           /\ \A d \in Connects : d # r => events'[d] = events[d]
           /\ \A s : r # 0 /\ Matches(events[r], Past(room[r]), s)
                    => Matches(events'[r], Past(room'[r]), s)
<1>1. CASE r # 0 /\ Live(r)
  <2>1. r \in Connects /\ RoomsOK /\ Told(events[r], Past(room[r]))
    BY <1>1, Parts DEF Inv, EventsInv
  <2>2. room' = [room EXCEPT ![r] = IF @ = "joining" THEN "refused" ELSE "ended"]
        /\ events' = [events EXCEPT ![r] = Append(@, "disconnected")]
    BY <1>1 DEF Farewell
  <2>3. events[r] \in Seq(Events) /\ "disconnected" \in Events \ Talk
        /\ Means("disconnected") = "ended"
    BY <2>1 DEF RoomsOK, Events, Talk, Means
  <2>4. /\ Told(events'[r], Past(room'[r]))
        /\ \A s : Matches(events[r], Past(room[r]), s) => Matches(events'[r], Past(room'[r]), s)
    <3> DEFINE p == events[r] \o <<"disconnected">>
    <3>1. p = Append(events[r], "disconnected") /\ Told(p, "ended")
      BY <2>1, <2>3, SendOne
    <3>2. \A s : Matches(events[r], Past(room[r]), s) => Matches(p, "ended", s)
      BY <2>1, <2>3, SendOne
    <3>3. Past(room'[r]) = "ended" /\ events'[r] = p
      BY <2>1, <2>2, <3>1 DEF RoomsOK, Past
    <3>4. QED
      BY <3>1, <3>2, <3>3
  <2>5. /\ \A d \in Connects : IF d = r THEN room'[d] \in {"refused", "ended"} ELSE room'[d] = room[d]
        /\ \A d \in Connects : d # r => events'[d] = events[d]
    BY <2>1, <2>2 DEF RoomsOK
  <2>6. EventsInv'
    BY <2>4, <2>5 DEF Inv, EventsInv
  <2>7. QED
    BY <1>1, <2>4, <2>5, <2>6
<1>2. CASE ~(r # 0 /\ Live(r))
  BY <1>2 DEF Farewell, Inv, EventsInv, Connects
<1>3. QED
  BY <1>1, <1>2

\* Once nothing is under way and no room is left, "idle" is true.
LEMMA IdleTold ==
    ASSUME Inv, HeldOK', Cleared, UNCHANGED <<platform, call>>,
           \A d \in Connects : call[d] \in {"new", "done"},
           \A e \in Ends : ending'[e].pc # "ending",
           \A r \in Connects : ~Live(r)'
    PROVE  OneInv'
<1>1. \A d \in Connects : call'[d] \in {"new", "done"}
  OBVIOUS
<1>2. \A d \in Connects : ~Under(d)' /\ ~Asks(d)' /\ ~Opens(d)' /\ call'[d] # "joining"
  BY <1>1 DEF Under, Asks, Opens
<1>3. Solo'
  BY <1>2 DEF Solo
<1>4. RoomInv'
  BY <1>2 DEF RoomInv, Live
<1>5. HeardInv'
  BY <1>2 DEF HeardInv, Cleared, Connects
<1>6. ShownInv'
  BY <1>2 DEF ShownInv, Deaf, Cleared
<1>7. QED
  BY <1>3, <1>4, <1>5, <1>6 DEF OneInv

LEMMA DisconnectTold ==
    ASSUME Inv, TypeOK', NEW e \in Ends, Disconnect(e) PROVE EventsInv' /\ (crossed' \/ OneInv')
<1>1. UNCHANGED <<platform, call>> /\ crossed' = (crossed \/ Busy) /\ HeldOK /\ HeldOK' /\ EndsOK
  BY Parts, PartsAt DEF Inv, Disconnect
<1>2. CASE iOS /\ current # 0
  <2>1. UNCHANGED <<current, heard, state, room, events>>
        /\ ending' = [ending EXCEPT ![e] = [pc |-> "ending", room |-> current]]
    BY <1>2 DEF Disconnect
  <2>2. EventsInv'
    BY <2>1 DEF Inv, EventsInv
  <2>3. ASSUME ~crossed' PROVE OneInv'
    <3>1. OneInv /\ ~Busy
      BY <1>1, <2>3 DEF Inv
    <3>2. /\ \A f \in Ends : f # e => ending'[f] = ending[f]
          /\ ending'[e].pc = "ending" /\ ending'[e].room = current
      BY <1>1, <2>1 DEF EndsOK
    <3>3. \A f \in Ends : ending'[f].pc = "ending" => f = e
      BY <3>1, <3>2 DEF Busy
    <3>4. \A d \in Connects : ~Under(d)'
      BY <1>1, <3>1 DEF Busy, Under
    <3>5. Solo'
      BY <3>3, <3>4 DEF Solo
    <3>6. RoomInv'
      BY <1>1, <1>2, <2>1, <3>1, <3>2, <3>3 DEF OneInv, RoomInv, Live, Asks
    <3>7. HeardInv'
      BY <1>1, <2>1, <3>1 DEF OneInv, HeardInv, Asks, Opens, iOS
    <3>8. ShownInv'
      <4>1. Busy'
        BY <3>2 DEF Busy
      <4>2. QED
        BY <1>1, <2>1, <3>1, <4>1 DEF OneInv, ShownInv, Deaf, Asks, Opens, iOS
    <3>9. QED
      BY <3>5, <3>6, <3>7, <3>8 DEF OneInv
  <2>4. QED
    BY <2>2, <2>3
<1>3. CASE ~(iOS /\ current # 0)
  <2>1. ending' = [ending EXCEPT ![e].pc = "done"] /\ Cleared /\ Farewell(current)
    BY <1>3 DEF Disconnect
  <2>2. /\ EventsInv'
        /\ \A d \in Connects : d # current \/ ~Live(d) => room'[d] = room[d]
        /\ \A d \in Connects : d = current /\ Live(d) => room'[d] \in {"refused", "ended"}
    BY <1>1, <2>1, FarewellTold DEF HeldOK
  <2>3. ASSUME ~crossed' PROVE OneInv'
    <3>1. OneInv /\ ~Busy
      BY <1>1, <2>3 DEF Inv
    <3>2. \A d \in Connects : call[d] \in {"new", "done"}
      BY <3>1 DEF Busy, Under
    <3>3. \A f \in Ends : ending'[f].pc # "ending"
      BY <1>1, <2>1, <3>1 DEF Busy, EndsOK
    <3>4. \A r \in Connects : ~Live(r)'
      BY <2>2, <3>1 DEF OneInv, RoomInv, Live
    <3>5. QED
      BY <1>1, <2>1, <3>2, <3>3, <3>4, IdleTold
  <2>4. QED
    BY <2>2, <2>3
<1>4. QED
  BY <1>2, <1>3

LEMMA EndingAlone ==
    ASSUME Inv, OneInv, NEW e \in Ends, ending[e].pc = "ending"
    PROVE  /\ \A d \in Connects : call[d] \in {"new", "done"}
           /\ \A f \in Ends \ {e} : ending[f].pc # "ending"
           /\ ending[e].room = current /\ current # 0
  BY DEF OneInv, Solo, RoomInv, Under

LEMMA RoomDisconnectsTold ==
    ASSUME Inv, NEW e \in Ends, RoomDisconnects(e) PROVE EventsInv' /\ (crossed' \/ OneInv')
<1>1. UNCHANGED <<platform, state, call, ending, current, heard, crossed>>
      /\ ending[e].pc = "ending" /\ Farewell(ending[e].room)
      /\ ending[e].room \in {0} \cup Connects
  BY Parts DEF Inv, RoomDisconnects, EndsOK
<1>2. /\ EventsInv'
      /\ \A d \in Connects : d # ending[e].room \/ ~Live(d) => room'[d] = room[d]
      /\ \A d \in Connects : d = ending[e].room /\ Live(d) => room'[d] \in {"refused", "ended"}
      /\ \A d \in Connects : d # ending[e].room => events'[d] = events[d]
  BY <1>1, FarewellTold
<1>3. ASSUME OneInv PROVE OneInv'
  <2>1. /\ \A d \in Connects : call[d] \in {"new", "done"}
        /\ ending[e].room = current /\ current # 0
    BY <1>1, <1>3, EndingAlone
  <2>2. \A d \in Connects : ~Under(d)' /\ ~Asks(d)' /\ ~Opens(d)' /\ call'[d] # "joining"
    BY <1>1, <2>1 DEF Under, Asks, Opens
  <2>3. \A d \in Connects : ~Live(d)' /\ room'[d] # "joining"
    BY <1>2, <1>3, <2>1 DEF OneInv, RoomInv, Live
  <2>4. Solo'
    BY <1>1, <1>3, <2>2 DEF OneInv, Solo
  <2>5. RoomInv'
    BY <1>1, <1>3, <2>2, <2>3 DEF OneInv, RoomInv
  <2>6. HeardInv'
    BY <1>1, <1>2, <1>3, <2>1, <2>2, Parts DEF Inv, OneInv, HeardInv, HeldOK
  <2>7. ShownInv'
    <3>1. Busy'
      BY <1>1 DEF Busy
    <3>2. Deaf' = Deaf /\ \A d \in Connects : ~Asks(d)
      BY <1>1, <2>1 DEF Deaf, Asks
    <3>3. ~Deaf => Matches(events'[current], Past(room'[current]), state)
      BY <1>1, <1>3, <2>1, <3>2, FarewellTold DEF OneInv, ShownInv
    <3>4. QED
      BY <1>1, <2>2, <3>1, <3>2, <3>3 DEF ShownInv
  <2>8. QED
    BY <2>4, <2>5, <2>6, <2>7 DEF OneInv
<1>4. QED
  BY <1>1, <1>2, <1>3 DEF Inv

LEMMA DisconnectedTold ==
    ASSUME Inv, TypeOK', NEW e \in Ends, Disconnected(e)
    PROVE  EventsInv' /\ (crossed' \/ OneInv')
<1>1. UNCHANGED <<platform, call, crossed, room, events>> /\ Cleared
      /\ ending[e].pc = "ending" /\ ~Live(ending[e].room)
      /\ ending' = [ending EXCEPT ![e].pc = "done"] /\ HeldOK' /\ EndsOK
  BY Parts, PartsAt DEF Inv, Disconnected, outside
<1>2. EventsInv'
  BY <1>1 DEF Inv, EventsInv
<1>3. ASSUME OneInv PROVE OneInv'
  <2>1. /\ \A d \in Connects : call[d] \in {"new", "done"}
        /\ \A f \in Ends \ {e} : ending[f].pc # "ending"
        /\ ending[e].room = current
    BY <1>1, <1>3, EndingAlone
  <2>2. \A f \in Ends : ending'[f].pc # "ending"
    BY <1>1, <2>1 DEF EndsOK
  <2>3. \A r \in Connects : ~Live(r)'
    BY <1>1, <1>3, <2>1 DEF OneInv, RoomInv, Live
  <2>4. QED
    BY <1>1, <2>1, <2>2, <2>3, IdleTold
<1>4. QED
  BY <1>1, <1>2, <1>3 DEF Inv

\* An event the session hears is one of the room it holds; the screen follows it.
LEMMA DeliverTold ==
    ASSUME Inv, NEW r \in Connects, Deliver(r) PROVE EventsInv' /\ (crossed' \/ OneInv')
<1>1. UNCHANGED <<platform, call, ending, current, heard, room, crossed>> /\ events[r] # <<>>
      /\ events' = [events EXCEPT ![r] = Tail(@)] /\ (heard # r => UNCHANGED state)
      /\ (heard = r => state' = Shown(Head(events[r])))
  BY DEF Deliver, Handle
<1>2. RoomsOK /\ HeldOK /\ state \in States /\ events[r] \in Seq(Events)
      /\ Told(events[r], Past(room[r]))
  BY Parts DEF Inv, EventsInv, RoomsOK
<1>3. \A d \in Connects : events'[d] = IF d = r THEN Tail(events[r]) ELSE events[d]
  BY <1>1, <1>2 DEF RoomsOK
<1>4. EventsInv'
  <2>1. Told(Tail(events[r]), Past(room[r]))
    BY <1>1, <1>2, HandOne
  <2>2. QED
    BY <1>1, <1>3, <2>1 DEF Inv, EventsInv
<1>5. ASSUME OneInv PROVE OneInv'
  <2>1. \A d \in Connects : ~Asks(d)
    BY <1>1, <1>5 DEF OneInv, RoomInv
  <2>2. Solo'
    BY <1>1, <1>5 DEF OneInv, Solo, Under
  <2>3. RoomInv'
    <3>1. \A c \in Connects : call[c] = "joining" => r = c
      BY <1>1, <1>5 DEF OneInv, RoomInv
    <3>2. \A c \in Connects : ~Asks(c)'
      BY <1>1, <2>1 DEF Asks
    <3>3. QED
      BY <1>1, <1>3, <1>5, <3>1, <3>2 DEF OneInv, RoomInv, Live
  <2>4. HeardInv'
    <3>1. heard \notin {0, current} => heard # r
      BY <1>1, <1>5 DEF OneInv, HeardInv
    <3>2. QED
      BY <1>1, <1>2, <1>3, <1>5, <3>1 DEF OneInv, HeardInv, Asks, Opens, iOS, HeldOK
  <2>5. ShownInv'
    <3>1. \A d \in Connects : Asks(d)' = Asks(d) /\ Opens(d)' = Opens(d) /\ Live(d)' = Live(d)
      BY <1>1 DEF Asks, Opens, Live, iOS
    <3>2. Deaf' = Deaf /\ Busy' = Busy
      BY <1>1 DEF Deaf, Busy, Under
    <3>3. CASE heard = r
      <4>1. ~Deaf /\ current = r
        BY <1>1, <1>5, <3>3 DEF OneInv, HeardInv, Deaf, Connects
      <4>2. \A d \in Connects : ~Opens(d)
        BY <1>5, <3>3, <4>1 DEF OneInv, RoomInv, HeardInv, Opens
      <4>3. Matches(events[r], Past(room[r]), state)
        BY <1>5, <2>1, <4>1 DEF OneInv, ShownInv
      <4>4. Matches(Tail(events[r]), Past(room[r]), Shown(Head(events[r])))
        BY <1>1, <1>2, <4>3, HandOne
      <4>5. Matches(events'[r], Past(room'[r]), state')
        BY <1>1, <1>3, <3>3, <4>4
      <4>6. QED
        BY <1>1, <2>1, <3>1, <3>2, <4>1, <4>2, <4>5 DEF ShownInv
    <3>4. CASE heard # r
      <4>1. ~Deaf => current \in Connects \ {r}
        BY <1>2, <3>4 DEF Deaf, HeldOK
      <4>2. ~Deaf => Matches(events'[current], Past(room'[current]), state')
        BY <1>1, <1>3, <1>5, <2>1, <3>4, <4>1 DEF OneInv, ShownInv
      <4>3. QED
        BY <1>1, <1>5, <3>1, <3>2, <3>4, <4>2 DEF OneInv, ShownInv
    <3>5. QED
      BY <3>3, <3>4
  <2>6. QED
    BY <2>2, <2>3, <2>4, <2>5 DEF OneInv
<1>6. QED
  BY <1>1, <1>4, <1>5 DEF Inv

\* What LiveKit does to a room, its events tell in order; that room is the one held.
Sends(q, from, to) ==
    \/ \E e \in Events : q = <<e>> /\ Means(e) = Past(to) /\ (e \in Talk => from = {"joined"})
    \/ q = <<"disconnected", "failed">> /\ to = "ended"

LEMMA TurnsTold ==
    ASSUME Inv, NEW r \in Connects, NEW from \in SUBSET {"joining", "joined", "reconnecting"},
           NEW to \in Rooms \ {"joining"}, NEW sent, Sends(sent, from, to),
           Turns(r, from, to, sent)
    PROVE  EventsInv' /\ (crossed' \/ OneInv')
<1>1. UNCHANGED <<platform, state, call, ending, current, heard, crossed>> /\ room[r] \in from
      /\ room' = [room EXCEPT ![r] = to] /\ events' = [events EXCEPT ![r] = @ \o sent] /\ Live(r)
  BY DEF Turns, Live
<1>2. RoomsOK /\ events[r] \in Seq(Events) /\ Told(events[r], Past(room[r]))
  BY Parts DEF Inv, EventsInv, RoomsOK
<1>3. \A d \in Connects : /\ room'[d] = IF d = r THEN to ELSE room[d]
                          /\ events'[d] = IF d = r THEN events[r] \o sent ELSE events[d]
  BY <1>1, <1>2 DEF RoomsOK
<1>4. /\ Told(events[r] \o sent, Past(to))
      /\ Matches(events[r], Past(room[r]), state) => Matches(events[r] \o sent, Past(to), state)
  <2>1. CASE \E e \in Events : sent = <<e>> /\ Means(e) = Past(to) /\ (e \in Talk => from = {"joined"})
    <3>1. PICK e \in Events : sent = <<e>> /\ Means(e) = Past(to) /\ (e \in Talk => from = {"joined"})
      BY <2>1
    <3>2. e \in Talk => Past(room[r]) = "joined"
      BY <1>1, <3>1 DEF Past
    <3>3. QED
      BY <1>2, <3>1, <3>2, SendOne
  <2>2. CASE sent = <<"disconnected", "failed">> /\ to = "ended"
    BY <1>2, <2>2, SendLoss DEF Past
  <2>3. QED
    BY <2>1, <2>2 DEF Sends
<1>5. EventsInv'
  BY <1>3, <1>4 DEF Inv, EventsInv
<1>6. ASSUME OneInv PROVE OneInv'
  <2>1. r = current /\ \A d \in Connects : ~Asks(d)
    BY <1>1, <1>6 DEF OneInv, RoomInv
  <2>2. \A d \in Connects : /\ Asks(d)' = Asks(d) /\ Opens(d)' = Opens(d)
                            /\ d # r => Live(d)' = Live(d)
    BY <1>1, <1>3 DEF Asks, Opens, Live, iOS
  <2>3. Deaf' = Deaf /\ Busy' = Busy
    BY <1>1 DEF Deaf, Busy, Under
  <2>4. Solo'
    BY <1>1, <1>6 DEF OneInv, Solo, Under
  <2>5. RoomInv'
    <3>1. \A c \in Connects : call[c] = "joining" => c = r
      BY <1>6, <2>1 DEF OneInv, RoomInv
    <3>2. \A d \in Connects : Live(d)' => d = current
      BY <1>6, <2>1, <2>2 DEF OneInv, RoomInv
    <3>3. QED
      BY <1>1, <1>3, <1>6, <2>1, <2>2, <3>1, <3>2 DEF OneInv, RoomInv
  <2>6. HeardInv'
    BY <1>1, <1>3, <1>6, <2>1, <2>2, Parts DEF Inv, OneInv, HeardInv, HeldOK
  <2>7. ShownInv'
    <3>1. Deaf => Busy \/ state = "error"
      BY <1>1, <1>6 DEF OneInv, ShownInv
    <3>2. ~Deaf => Matches(events'[r], Past(room'[r]), state)
      BY <1>3, <1>4, <1>6, <2>1 DEF OneInv, ShownInv
    <3>3. QED
      BY <1>1, <1>6, <2>1, <2>2, <2>3, <3>1, <3>2 DEF OneInv, ShownInv
  <2>8. QED
    BY <2>4, <2>5, <2>6, <2>7 DEF OneInv
<1>7. QED
  BY <1>1, <1>5, <1>6 DEF Inv

LEMMA LiveKitTold ==
    ASSUME Inv, NEW r \in Connects, Joins(r) \/ Refused(r) \/ Change(r)
    PROVE  EventsInv' /\ (crossed' \/ OneInv')
<1>1. \A e \in Events : \A from :
        (e \in Talk => from = {"joined"}) => Sends(<<e>>, from, Means(e))
  BY DEF Sends, Past, Means, Events
<1>2. /\ Means("connected") = "joined" /\ Means("reconnected") = "joined"
      /\ Means("speaks") = "joined" /\ Means("quiet") = "joined"
      /\ Means("reconnecting") = "reconnecting"
      /\ Means("disconnected") = "ended" /\ Means("failed") = "ended"
  BY DEF Means
<1>3. /\ {"connected", "reconnected", "reconnecting", "disconnected", "failed"}
           \subseteq Events \ Talk
      /\ Talk \subseteq Events
      /\ {"joined", "reconnecting", "refused", "ended"} \subseteq Rooms \ {"joining"}
  BY DEF Events, Talk, Rooms
<1>4. CASE Joins(r)
  <2>1. Sends(<<"connected">>, {"joining"}, "joined")
    BY <1>1, <1>2, <1>3
  <2>2. QED
    BY <1>3, <1>4, <2>1, TurnsTold DEF Joins
<1>5. CASE Refused(r)
  <2>1. Sends(<<"disconnected">>, {"joining"}, "refused")
    BY <1>2, <1>3 DEF Sends, Past
  <2>2. QED
    BY <1>3, <1>5, <2>1, TurnsTold DEF Refused
<1>6. CASE Loses(r)
  <2>1. Sends(<<"reconnecting">>, {"joined"}, "reconnecting")
    BY <1>1, <1>2, <1>3
  <2>2. QED
    BY <1>3, <1>6, <2>1, TurnsTold DEF Loses
<1>7. CASE Regains(r)
  <2>1. PICK e \in {"connected", "reconnected"} : Turns(r, {"reconnecting"}, "joined", <<e>>)
    BY <1>7 DEF Regains
  <2>2. Sends(<<e>>, {"reconnecting"}, "joined")
    BY <1>1, <1>2, <1>3, <2>1
  <2>3. QED
    BY <1>3, <2>1, <2>2, TurnsTold
<1>8. CASE Speaks(r)
  <2>1. PICK e \in Talk : Turns(r, {"joined"}, "joined", <<e>>)
    BY <1>8 DEF Speaks, Talk
  <2>2. Means(e) = "joined"
    BY <1>2, <2>1 DEF Talk
  <2>3. Sends(<<e>>, {"joined"}, "joined")
    BY <1>1, <1>3, <2>1, <2>2
  <2>4. QED
    BY <1>3, <2>1, <2>3, TurnsTold
<1>9. CASE Drops(r)
  <2>1. PICK sent \in {<<"disconnected">>, <<"failed">>, <<"disconnected", "failed">>} :
          Turns(r, {"joined", "reconnecting"}, "ended", sent)
    BY <1>9 DEF Drops
  <2>2. Sends(sent, {"joined", "reconnecting"}, "ended")
    <3>1. CASE sent = <<"disconnected", "failed">>
      BY <3>1 DEF Sends
    <3>2. CASE sent \in {<<"disconnected">>, <<"failed">>}
      BY <1>1, <1>2, <1>3, <3>2
    <3>3. QED
      BY <2>1, <3>1, <3>2
  <2>3. QED
    BY <1>3, <2>1, <2>2, TurnsTold
<1>10. QED
  BY <1>4, <1>5, <1>6, <1>7, <1>8, <1>9 DEF Change

LEMMA InvStep == Inv /\ [Next]_vars => Inv'
<1> SUFFICES ASSUME Inv, [Next]_vars PROVE Inv'
  OBVIOUS
<1>1. TypeOK'
  BY TypeStep DEF Inv
<1> DEFINE Goal == EventsInv' /\ (crossed' \/ OneInv')
<1>2. ASSUME NEW c \in Connects, Connect(c) PROVE Goal
  BY <1>2, ConnectTold
<1>3. ASSUME NEW c \in Connects, CallStep(c) PROVE Goal
  BY <1>3, OpenRoomTold, RefreshTold, ConnectFailsTold, ConnectedTold DEF CallStep
<1>4. ASSUME NEW c \in Connects, Deliver(c) PROVE Goal
  BY <1>4, DeliverTold
<1>5. ASSUME NEW c \in Connects, Joins(c) \/ Refused(c) \/ Change(c) PROVE Goal
  BY <1>5, LiveKitTold
<1>6. ASSUME NEW e \in Ends, Disconnect(e) \/ RoomDisconnects(e) \/ Disconnected(e) PROVE Goal
  BY <1>1, <1>6, DisconnectTold, RoomDisconnectsTold, DisconnectedTold
<1>7. ASSUME NEW t \in Timers, Elapses(t) \/ Wakes(t) PROVE Goal
  BY <1>7, TimeoutTold
<1>8. ASSUME UNCHANGED vars PROVE Goal
  <2>1. EventsInv'
    BY <1>8 DEF vars, Inv, EventsInv
  <2>2. OneInv => OneInv'
    BY <1>8 DEF vars, OneInv, Solo, RoomInv, HeardInv, ShownInv, Deaf, Busy, Under, Live, Asks,
                Opens, iOS
  <2>3. QED
    BY <1>8, <2>1, <2>2 DEF vars, Inv
<1>9. Goal
  BY <1>2, <1>3, <1>4, <1>5, <1>6, <1>7, <1>8 DEF Next
<1>10. QED
  BY <1>1, <1>9 DEF Inv

\* Once a session's calls have ended and a room's events have come, the screen tells the
\* truth about the microphone, on both apps and through every loss, return and end of the
\* room, unless calls crossed or a Retry came before the end of a room was heard
\* (VoiceSession.swift:151-231, the event collector of VoiceSession.kt:104-148).
THEOREM ScreenTells == Spec => []ScreenIsTrue
<1>1. Inv => ScreenIsTrue
  <2> SUFFICES ASSUME Inv, Settled, ~crossed PROVE ScreenIsTrue
    BY DEF ScreenIsTrue
  <2>1. OneInv /\ ~Busy /\ RoomsOK /\ HeldOK /\ \A r \in Connects : events[r] = <<>>
    BY Parts DEF Inv, Settled
  <2>2. CASE Deaf
    BY <2>1, <2>2 DEF OneInv, ShownInv, ScreenIsTrue
  <2>3. CASE ~Deaf
    <3>1. current \in Connects /\ \A c \in Connects : ~Asks(c)
      BY <2>1, <2>3 DEF Deaf, HeldOK, Busy, Under, Asks
    <3>2. state \in Fits(Past(room[current])) /\ room[current] \in Rooms
      BY <2>1, <2>3, <3>1 DEF OneInv, ShownInv, Matches, RoomsOK
    <3>3. state = "idle" => \A c \in Connects : ~Live(c)
      BY <2>1, <3>1, <3>2, FitsOf DEF OneInv, RoomInv, Live
    <3>4. QED
      BY <2>3, <3>2, <3>3, FitsOf DEF ScreenIsTrue, Deaf
  <2>4. QED
    BY <2>2, <2>3
<1>2. QED
  BY <1>1, InitInv, InvStep, PTL DEF Spec

(***************************************************************************)
(* Who ends a spinner.  "reconnecting" has its timeout.  "connecting" has  *)
(* a call, the timeout the call leaves behind, or, when a room's first     *)
(* event is heard after its call failed, the event behind that one.        *)
(***************************************************************************)
Answers == {"connected", "disconnected"}

\* A queue of events: "connecting" comes first, and what became of the room behind it.
Opening(q, r) ==
    /\ \A i \in DOMAIN q : q[i] = "connecting" => i = 1
    /\ r = "joining" => q \in {<<>>, <<"connecting">>}
    /\ q # <<>> /\ q[1] = "connecting" => r = "joining" \/ (Len(q) > 1 /\ q[2] \in Answers)

OpeningInv ==
    \A r \in Connects : Opening(events[r], room[r]) /\ (room[r] = "joining" => call[r] = "joining")

Leaving == \E e \in Ends : ending[e].pc = "ending"

SpinnerWatched ==
    /\ state = "connecting" =>
         \/ Busy \/ timer["listening"].armed
         \/ heard # 0 /\ events[heard] # <<>> /\ events[heard][1] \in Answers
    /\ state = "reconnecting" => Leaving \/ timer["reconnect"].armed

LEMMA OpeningSend ==
    ASSUME NEW q \in Seq(Events), NEW e \in Events \ {"connecting"}, NEW r, NEW s, Opening(q, r),
           s # "joining", r = "joining" => e \in Answers
    PROVE  Opening(Append(q, e), s) /\ Append(q, e) # <<>> /\ q \o <<e>> = Append(q, e)
           /\ (q # <<>> => Append(q, e)[1] = q[1])
<1> DEFINE p == Append(q, e)
<1>1. /\ p \in Seq(Events) /\ Len(p) = Len(q) + 1 /\ p[Len(p)] = e /\ q \o <<e>> = p
      /\ Len(q) \in Nat /\ DOMAIN q = 1..Len(q) /\ DOMAIN p = 1..(Len(q) + 1)
      /\ \A i \in 1..Len(q) : p[i] = q[i]
  OBVIOUS
<1> HIDE DEF p
<1>2. p # <<>> /\ (q # <<>> => 1 \in 1..Len(q))
  BY <1>1
<1>3. \A i \in DOMAIN p : p[i] = "connecting" => i = 1
  BY <1>1 DEF Opening
<1>4. ASSUME p[1] = "connecting" PROVE Len(p) > 1 /\ p[2] \in Answers
  <2>1. q # <<>> /\ q[1] = "connecting"
    BY <1>1, <1>2, <1>4
  <2>2. CASE r = "joining"
    <3>1. q = <<"connecting">>
      BY <2>1, <2>2 DEF Opening
    <3>2. Len(q) = 1
      BY <3>1
    <3>3. Len(p) = 2 /\ p[2] = e
      BY <1>1, <3>2
    <3>4. QED
      BY <2>2, <3>3
  <2>3. CASE r # "joining"
    BY <1>1, <2>1, <2>3 DEF Opening
  <2>4. QED
    BY <2>2, <2>3
<1>5. QED
  BY <1>1, <1>2, <1>3, <1>4 DEF Opening, p

LEMMA OpeningTail ==
    ASSUME NEW q \in Seq(Events), q # <<>>, NEW r, Opening(q, r)
    PROVE  Opening(Tail(q), r)
<1> DEFINE p == Tail(q)
<1>1. /\ p \in Seq(Events) /\ Len(q) \in Nat /\ Len(p) = Len(q) - 1 /\ DOMAIN p = 1..Len(p)
      /\ \A i \in 1..Len(p) : p[i] = q[i + 1]
  OBVIOUS
<1> HIDE DEF p
<1>2. \A i \in DOMAIN p : p[i] # "connecting"
  BY <1>1 DEF Opening
<1>3. r = "joining" => p = <<>>
  <2>1. ASSUME r = "joining" PROVE Len(q) = 1
    BY <2>1 DEF Opening
  <2>2. QED
    BY <1>1, <2>1
<1>4. p # <<>> => p[1] # "connecting"
  BY <1>1, <1>2
<1>5. QED
  BY <1>2, <1>3, <1>4 DEF Opening, p

LEMMA OpeningFarewell ==
    ASSUME TypeOK, OpeningInv, NEW r \in {0} \cup Connects, Farewell(r), UNCHANGED call
    PROVE  OpeningInv'
<1>1. CASE r # 0 /\ Live(r)
  <2>1. r \in Connects /\ RoomsOK
    BY <1>1, Parts
  <2>2. room' = [room EXCEPT ![r] = IF @ = "joining" THEN "refused" ELSE "ended"]
        /\ events' = [events EXCEPT ![r] = Append(@, "disconnected")]
    BY <1>1 DEF Farewell
  <2>3. events[r] \in Seq(Events) /\ "disconnected" \in Events \ {"connecting"}
        /\ "disconnected" \in Answers /\ Opening(events[r], room[r])
    BY <2>1 DEF RoomsOK, Events, Answers, OpeningInv
  <2>4. \A past \in {"refused", "ended"} : Opening(Append(events[r], "disconnected"), past)
    BY <2>3, OpeningSend
  <2>5. \A d \in Connects :
          /\ IF d = r THEN room'[d] \in {"refused", "ended"} ELSE room'[d] = room[d]
          /\ events'[d] = IF d = r THEN Append(events[r], "disconnected") ELSE events[d]
    BY <2>1, <2>2 DEF RoomsOK
  <2>6. QED
    BY <2>4, <2>5 DEF OpeningInv
<1>2. CASE ~(r # 0 /\ Live(r))
  BY <1>2 DEF Farewell, OpeningInv
<1>3. QED
  BY <1>1, <1>2

\* What LiveKit sends: never "connecting", and an answer while the room is being joined.
Follows(sent, from) ==
    \/ \E e \in Events \ {"connecting"} : sent = <<e>> /\ ("joining" \in from => e \in Answers)
    \/ sent = <<"disconnected", "failed">> /\ "joining" \notin from

\* What LiveKit does to a room leaves the first event that waits where it is.
LEMMA OpeningTurns ==
    ASSUME TypeOK, OpeningInv, NEW r \in Connects, NEW from, NEW to, NEW sent,
           to # "joining", Turns(r, from, to, sent), Follows(sent, from)
    PROVE  /\ OpeningInv'
           /\ \A d \in Connects : events[d] # <<>> =>
                events'[d] # <<>> /\ events'[d][1] = events[d][1]
<1> DEFINE q == events[r]
<1>1. /\ room[r] \in from /\ room' = [room EXCEPT ![r] = to]
      /\ events' = [events EXCEPT ![r] = @ \o sent] /\ UNCHANGED call
  BY DEF Turns
<1>2. RoomsOK /\ q \in Seq(Events) /\ Opening(q, room[r])
  BY Parts DEF RoomsOK, OpeningInv
<1>3. \A d \in Connects : /\ room'[d] = IF d = r THEN to ELSE room[d]
                          /\ events'[d] = IF d = r THEN q \o sent ELSE events[d]
  BY <1>1, <1>2 DEF RoomsOK
<1> HIDE DEF q
<1>4. Opening(q \o sent, to) /\ (q # <<>> => q \o sent # <<>> /\ (q \o sent)[1] = q[1])
  <2>1. ASSUME NEW e \in Events \ {"connecting"}, sent = <<e>>, "joining" \in from => e \in Answers
        PROVE  Opening(q \o sent, to) /\ (q # <<>> => q \o sent # <<>> /\ (q \o sent)[1] = q[1])
    <3>1. room[r] = "joining" => e \in Answers
      BY <1>1, <2>1
    <3>2. /\ Opening(Append(q, e), to) /\ Append(q, e) # <<>> /\ q \o <<e>> = Append(q, e)
          /\ (q # <<>> => Append(q, e)[1] = q[1])
      BY <1>2, <3>1, OpeningSend
    <3>3. QED
      BY <2>1, <3>2
  <2>2. CASE sent = <<"disconnected", "failed">> /\ "joining" \notin from
    <3> DEFINE p == Append(q, "disconnected")
    <3>1. {"disconnected", "failed"} \subseteq Events \ {"connecting"} /\ room[r] # "joining"
      BY <1>1, <2>2 DEF Events
    <3>2. Opening(p, "ended") /\ p # <<>> /\ (q # <<>> => p[1] = q[1])
      BY <1>2, <3>1, OpeningSend
    <3>3. p \in Seq(Events) /\ q \o sent = Append(p, "failed")
      BY <1>2, <2>2, <3>1
    <3> HIDE DEF p
    <3>4. Opening(Append(p, "failed"), to) /\ Append(p, "failed") # <<>>
          /\ Append(p, "failed")[1] = p[1]
      BY <3>1, <3>2, <3>3, OpeningSend
    <3>5. QED
      BY <3>2, <3>3, <3>4
  <2>3. QED
    BY <2>1, <2>2 DEF Follows
<1>5. QED
  BY <1>1, <1>3, <1>4 DEF OpeningInv, q

LEMMA LiveKitTurns ==
    ASSUME NEW r \in Connects, Joins(r) \/ Refused(r) \/ Change(r)
    PROVE  \E from, to, sent :
             to # "joining" /\ Turns(r, from, to, sent) /\ Follows(sent, from)
<1> USE DEF Events, Answers, Follows
<1>1. CASE Joins(r) \/ Refused(r)
  BY <1>1 DEF Joins, Refused
<1>2. CASE Loses(r) \/ Speaks(r)
  BY <1>2 DEF Loses, Speaks
<1>3. CASE Regains(r)
  <2>1. PICK e \in {"connected", "reconnected"} : Turns(r, {"reconnecting"}, "joined", <<e>>)
    BY <1>3 DEF Regains
  <2>2. QED
    BY <2>1
<1>4. CASE Drops(r)
  <2>1. PICK sent \in {<<"disconnected">>, <<"failed">>, <<"disconnected", "failed">>} :
          Turns(r, {"joined", "reconnecting"}, "ended", sent)
    BY <1>4 DEF Drops
  <2>2. QED
    BY <2>1
<1>5. QED
  BY <1>1, <1>2, <1>3, <1>4 DEF Change

\* Resetting timeouts arms those it starts and leaves alone those it does not name.
LEMMA ResetArms ==
    ASSUME TypeOK, NEW stops, NEW starts, Reset(stops, starts), NEW t \in Timers
    PROVE  /\ t \in starts => timer'[t].armed
           /\ t \notin stops \cup starts => timer'[t] = timer[t]
<1>1. timer[t] \in Timer /\ Cancelled(t) \in Timer
  BY Parts DEF Cancelled, Timer
<1>2. QED
  BY <1>1 DEF Reset, Timer

WatchInv == TypeOK /\ OpeningInv /\ SpinnerWatched

LEMMA CallWatched ==
    ASSUME WatchInv, NEW c \in Connects, Connect(c) \/ CallStep(c)
    PROVE  OpeningInv' /\ SpinnerWatched'
<1>1. TypeOK /\ CallsOK /\ RoomsOK
  BY Parts DEF WatchInv
<1>2. CASE Connect(c)
  <2>1. UNCHANGED <<room, events, ending, timer>> /\ call[c] = "new"
        /\ \/ call' = [call EXCEPT ![c] = "token"] /\ state' = "connecting"
           \/ call' = [call EXCEPT ![c] = "done"] /\ state' = "error"
    BY <1>2 DEF Connect, Goes, Errs, outside
  <2>2. \A d \in Connects : d # c => call'[d] = call[d]
    BY <1>1, <2>1 DEF CallsOK
  <2>3. OpeningInv'
    BY <2>1, <2>2 DEF WatchInv, OpeningInv
  <2>4. state' = "connecting" => Busy'
    BY <1>1, <2>1 DEF Busy, Under, CallsOK
  <2>5. QED
    BY <2>1, <2>3, <2>4 DEF SpinnerWatched
<1>3. CASE OpenRoom(c)
  <2>1. UNCHANGED <<state, ending, timer>> /\ call' = [call EXCEPT ![c] = "joining"]
        /\ room' = [room EXCEPT ![c] = "joining"]
        /\ events' = [events EXCEPT ![c] = IF iOS THEN <<"connecting">> ELSE <<>>]
    BY <1>3 DEF OpenRoom, Goes
  <2>2. \A d \in Connects : /\ call'[d] = IF d = c THEN "joining" ELSE call[d]
                            /\ room'[d] = IF d = c THEN "joining" ELSE room[d]
                            /\ d # c => events'[d] = events[d]
                            /\ events'[c] \in {<<"connecting">>, <<>>}
    BY <1>1, <2>1 DEF CallsOK, RoomsOK
  <2>3. OpeningInv'
    <3>1. Opening(<<>>, "joining") /\ Opening(<<"connecting">>, "joining")
      BY DEF Opening
    <3>2. QED
      BY <2>2, <3>1 DEF WatchInv, OpeningInv
  <2>4. Busy'
    BY <2>2 DEF Busy, Under
  <2>5. QED
    BY <2>1, <2>3, <2>4 DEF WatchInv, SpinnerWatched, Leaving
<1>4. CASE Unauthorized(c) \/ Refreshed(c)
  <2>1. UNCHANGED <<state, ending, timer, room, events>>
        /\ \E pc \in {"refresh", "retoken"} : call' = [call EXCEPT ![c] = pc]
        /\ call[c] \in {"token", "refresh"}
    BY <1>4 DEF Unauthorized, Refreshed, Goes, outside
  <2>2. \A d \in Connects : /\ d # c => call'[d] = call[d]
                            /\ call'[c] \in {"refresh", "retoken"}
    BY <1>1, <2>1 DEF CallsOK
  <2>3. OpeningInv'
    BY <2>1, <2>2 DEF WatchInv, OpeningInv
  <2>4. Busy'
    BY <2>2 DEF Busy, Under
  <2>5. QED
    BY <2>1, <2>3, <2>4 DEF WatchInv, SpinnerWatched, Leaving
<1>5. CASE ConnectFails(c)
  <2>1. state' = "error" /\ UNCHANGED <<room, events>> /\ call' = [call EXCEPT ![c] = "done"]
        /\ (call[c] # "joining" \/ room[c] # "joining")
    BY <1>5 DEF ConnectFails, Joined, Errs, Goes, outside
  <2>2. \A d \in Connects : d # c => call'[d] = call[d]
    BY <1>1, <2>1 DEF CallsOK
  <2>3. OpeningInv'
    BY <2>1, <2>2 DEF WatchInv, OpeningInv
  <2>4. QED
    BY <2>1, <2>3 DEF SpinnerWatched
<1>6. CASE Connected(c)
  <2>1. UNCHANGED <<state, ending, room, events>> /\ call' = [call EXCEPT ![c] = "done"]
        /\ room[c] # "joining" /\ Reset({"listening"}, {"listening"})
    BY <1>6 DEF Connected, Joined, Goes, outside
  <2>2. \A d \in Connects : d # c => call'[d] = call[d]
    BY <1>1, <2>1 DEF CallsOK
  <2>3. OpeningInv'
    BY <2>1, <2>2 DEF WatchInv, OpeningInv
  <2>4. timer'["listening"].armed /\ timer'["reconnect"] = timer["reconnect"]
    BY <1>1, <2>1, ResetArms DEF Timers
  <2>5. QED
    BY <2>1, <2>3, <2>4 DEF WatchInv, SpinnerWatched, Leaving
<1>7. QED
  BY <1>2, <1>3, <1>4, <1>5, <1>6 DEF CallStep

LEMMA EndWatched ==
    ASSUME WatchInv, NEW e \in Ends, Disconnect(e) \/ RoomDisconnects(e) \/ Disconnected(e)
    PROVE  OpeningInv' /\ SpinnerWatched'
<1>1. TypeOK /\ EndsOK /\ HeldOK
  BY Parts DEF WatchInv
<1>2. CASE Disconnect(e) /\ iOS /\ current # 0
  <2>1. UNCHANGED <<call, room, events>>
        /\ ending' = [ending EXCEPT ![e] = [pc |-> "ending", room |-> current]]
    BY <1>2 DEF Disconnect
  <2>2. ending'[e].pc = "ending"
    BY <1>1, <2>1 DEF EndsOK
  <2>3. QED
    BY <2>1, <2>2 DEF WatchInv, OpeningInv, SpinnerWatched, Busy, Leaving
<1>3. CASE Disconnect(e) /\ ~(iOS /\ current # 0)
  <2>1. state' = "idle" /\ Farewell(current) /\ UNCHANGED call
    BY <1>3 DEF Disconnect, Cleared
  <2>2. QED
    BY <1>1, <2>1, OpeningFarewell DEF WatchInv, SpinnerWatched, HeldOK
<1>4. CASE RoomDisconnects(e)
  <2>1. Farewell(ending[e].room) /\ ending[e].room \in {0} \cup Connects
        /\ UNCHANGED <<call, ending>> /\ ending[e].pc = "ending"
    BY <1>1, <1>4 DEF RoomDisconnects, EndsOK
  <2>2. QED
    BY <1>1, <2>1, OpeningFarewell DEF WatchInv, SpinnerWatched, Busy, Leaving
<1>5. CASE Disconnected(e)
  BY <1>5 DEF Disconnected, Cleared, WatchInv, OpeningInv, SpinnerWatched, outside
<1>6. QED
  BY <1>2, <1>3, <1>4, <1>5

LEMMA DeliverWatched ==
    ASSUME WatchInv, NEW r \in Connects, Deliver(r) PROVE OpeningInv' /\ SpinnerWatched'
<1>1. TypeOK /\ RoomsOK /\ HeldOK /\ events[r] \in Seq(Events) /\ Opening(events[r], room[r])
  BY Parts DEF WatchInv, RoomsOK, OpeningInv
<1>2. UNCHANGED <<call, ending, heard, room>> /\ events[r] # <<>>
      /\ events' = [events EXCEPT ![r] = Tail(@)]
  BY DEF Deliver
<1>3. \A d \in Connects : events'[d] = IF d = r THEN Tail(events[r]) ELSE events[d]
  BY <1>1, <1>2 DEF RoomsOK
<1>4. OpeningInv'
  BY <1>1, <1>2, <1>3, OpeningTail DEF WatchInv, OpeningInv
<1>5. Busy' = Busy /\ Leaving' = Leaving
  BY <1>2 DEF Busy, Leaving, Under
<1>6. CASE heard # r
  <2>1. UNCHANGED <<state, timer>>
    BY <1>6 DEF Deliver
  <2>2. heard # 0 => events'[heard] = events[heard]
    BY <1>1, <1>3, <1>6 DEF HeldOK
  <2>3. SpinnerWatched'
    BY <1>2, <1>5, <2>1, <2>2 DEF WatchInv, SpinnerWatched
  <2>4. QED
    BY <1>4, <2>3
<1>7. CASE heard = r
  <2> DEFINE h == Head(events[r])
  <2>1. h \in Events /\ h = events[r][1] /\ r # 0
    BY <1>1, <1>2 DEF Connects
  <2>2. state' = Shown(h) /\ Reset(Stops(h), Starts(h))
    BY <1>7 DEF Deliver, Handle
  <2> HIDE DEF h
  <2>3. CASE h = "connecting"
    <3>1. state' = "connecting"
      BY <2>2, <2>3 DEF Shown
    <3>2. CASE room[r] = "joining"
      BY <1>4, <1>5, <3>1, <3>2 DEF WatchInv, OpeningInv, SpinnerWatched, Busy, Under
    <3>3. CASE Len(events[r]) > 1 /\ events[r][2] \in Answers
      <4>1. Tail(events[r]) # <<>> /\ Tail(events[r])[1] = events[r][2]
        BY <1>1, <3>3
      <4>2. QED
        BY <1>2, <1>3, <1>4, <1>7, <2>1, <3>1, <3>3, <4>1 DEF SpinnerWatched
    <3>4. QED
      BY <1>1, <1>2, <2>1, <2>3, <3>2, <3>3 DEF Opening
  <2>4. CASE h = "reconnecting"
    <3>1. state' = "reconnecting" /\ "reconnect" \in Starts(h)
      BY <2>2, <2>4 DEF Shown, Starts
    <3>2. timer'["reconnect"].armed
      BY <1>1, <2>2, <3>1, ResetArms DEF Timers
    <3>3. QED
      BY <1>4, <3>1, <3>2 DEF SpinnerWatched
  <2>5. CASE h = "quiet"
    <3>1. state' = (IF state = "speaking" THEN "listening" ELSE state)
          /\ Stops(h) = {} /\ Starts(h) = {}
      BY <2>2, <2>5 DEF Shown, Stops, Starts
    <3>2. timer'["listening"] = timer["listening"] /\ timer'["reconnect"] = timer["reconnect"]
      BY <1>1, <2>2, <3>1, ResetArms DEF Timers
    <3>3. events[r][1] \notin Answers
      BY <2>1, <2>5 DEF Answers
    <3>4. QED
      BY <1>4, <1>5, <1>7, <3>1, <3>2, <3>3 DEF WatchInv, SpinnerWatched
  <2>6. CASE h \notin {"connecting", "reconnecting", "quiet"}
    <3>1. Shown(h) \in {"listening", "error", "speaking", "idle"}
      BY <2>1, <2>6 DEF Shown, Events
    <3>2. QED
      BY <1>4, <2>2, <3>1 DEF SpinnerWatched
  <2>7. QED
    BY <2>3, <2>4, <2>5, <2>6
<1>8. QED
  BY <1>6, <1>7

LEMMA LiveKitWatched ==
    ASSUME WatchInv, NEW r \in Connects, Joins(r) \/ Refused(r) \/ Change(r)
    PROVE  OpeningInv' /\ SpinnerWatched'
<1>1. PICK from, to, sent :
        to # "joining" /\ Turns(r, from, to, sent) /\ Follows(sent, from)
  BY LiveKitTurns
<1>2. /\ OpeningInv'
      /\ \A d \in Connects : events[d] # <<>> => events'[d] # <<>> /\ events'[d][1] = events[d][1]
  BY <1>1, OpeningTurns DEF WatchInv
<1>3. UNCHANGED <<state, call, ending, heard, timer>> /\ HeldOK
  BY <1>1, Parts DEF Turns, WatchInv
<1>4. SpinnerWatched'
  BY <1>2, <1>3 DEF WatchInv, SpinnerWatched, Busy, Leaving, Under, HeldOK
<1>5. QED
  BY <1>2, <1>4

LEMMA TimeoutWatched ==
    ASSUME WatchInv, NEW t \in Timers, Elapses(t) \/ Wakes(t)
    PROVE  OpeningInv' /\ SpinnerWatched'
<1>1. UNCHANGED <<call, ending, heard, room, events>> /\ Check(t) /\ TypeOK
  BY DEF Elapses, Wakes, outside, WatchInv
<1>2. OpeningInv'
  BY <1>1 DEF WatchInv, OpeningInv
<1>3. \A u \in Timers \ {t} : timer'[u] = timer[u]
  BY <1>1, Parts DEF Elapses, Wakes
<1>4. state' \in {"connecting", "reconnecting"} => state' = state /\ state # Awaits(t)
  BY <1>1 DEF Check
<1>5. Awaits("listening") = "connecting" /\ Awaits("reconnect") = "reconnecting"
  BY DEF Awaits
<1>6. SpinnerWatched'
  BY <1>1, <1>3, <1>4, <1>5 DEF WatchInv, SpinnerWatched, Busy, Leaving, Under, Timers
<1>7. QED
  BY <1>2, <1>6

\* No spinner without somebody to end it, whichever calls and events crossed (T-19-22,
\* T-19-28): "reconnecting" has an armed timeout or a room being left; "connecting" has a
\* call under way, its timeout (VoiceSession.swift:112-123), or the event behind the one
\* that showed it.
THEOREM SpinnersEnd == Spec => []SpinnerWatched
<1>1. Init => OpeningInv /\ SpinnerWatched
  BY DEF Init, OpeningInv, Opening, SpinnerWatched
<1>2. WatchInv /\ [Next]_vars => OpeningInv' /\ SpinnerWatched'
  <2> SUFFICES ASSUME WatchInv, [Next]_vars PROVE OpeningInv' /\ SpinnerWatched'
    OBVIOUS
  <2>1. CASE UNCHANGED vars
    BY <2>1 DEF vars, WatchInv, OpeningInv, SpinnerWatched, Busy, Leaving, Under
  <2>2. CASE Next
    BY <2>2, CallWatched, DeliverWatched, LiveKitWatched, EndWatched, TimeoutWatched DEF Next
  <2>3. QED
    BY <2>1, <2>2
<1>3. QED
  BY <1>1, <1>2, TypeCorrect, PTL DEF Spec, WatchInv
=============================================================================
