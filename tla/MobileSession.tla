---------------------------- MODULE MobileSession ----------------------------
(***************************************************************************)
(* VoiceSession of the phone apps: the state the screen shows, the         *)
(* connect() and disconnect() calls its button starts, the timeouts, and   *)
(* the LiveKit rooms, whose events come through a queue.  One phone, iOS   *)
(* or Android; the two differ in when they hear a room, in whether ending  *)
(* one suspends, and in what a cancelled timeout does.                     *)
(***************************************************************************)
EXTENDS Naturals, Sequences

CONSTANTS
    Platforms,   \* the apps: a subset of {"ios", "android"}
    MaxConnects, \* bound on calls of connect(), each of which opens at most one room
    MaxEnds,     \* bound on calls of disconnect()
    MaxChanges   \* bound on what happens to joined rooms

ASSUME MobileAssumption ==
    /\ Platforms \subseteq {"ios", "android"}
    /\ MaxConnects \in Nat /\ MaxEnds \in Nat /\ MaxChanges \in Nat

Connects == 1..MaxConnects
Ends == 1..MaxEnds
Timers == {"listening", "agentJoin", "reconnect"}
Events == {"connecting", "connected", "reconnected", "reconnecting", "disconnected", "failed",
           "speaks", "quiet"}

VARIABLES
    platform,
    state,     \* VoiceSessionState
    call,      \* connect() calls: where each one is
    ending,    \* disconnect() calls
    current,   \* the room the session holds, or 0
    heard,     \* the room whose events reach it (roomDelegate, eventsJob), or 0
    timer,     \* armed timeouts, and cancelled ones that have not run out
    room,      \* LiveKit's side of the room each connect() opened
    events,    \* events of a room on their way to the main thread
    changes,   \* bound: how often something happened to a joined room
    crossed    \* history: calls overlapped, or a connect() came before a room was over

vars == <<platform, state, call, ending, current, heard, timer, room, events, changes, crossed>>
outside == <<room, events, changes>>

iOS == platform = "ios"
NoTimer == [armed |-> FALSE, woken |-> 0]

Init ==
    /\ platform \in Platforms /\ state = "idle"
    /\ call = [c \in Connects |-> "new"]
    /\ ending = [e \in Ends |-> [pc |-> "new", room |-> 0]]
    /\ current = 0 /\ heard = 0
    /\ timer = [t \in Timers |-> NoTimer]
    /\ room = [c \in Connects |-> "none"] /\ events = [c \in Connects |-> <<>>]
    /\ changes = 0 /\ crossed = FALSE

(***************************************************************************)
(* Timeouts.  On iOS a cancelled task's sleep throws at once, try? drops   *)
(* the error, and the check behind it still runs.                          *)
(***************************************************************************)
Cancelled(t) ==
    [armed |-> FALSE, woken |-> timer[t].woken + IF iOS /\ timer[t].armed THEN 1 ELSE 0]

Reset(stops, starts) ==
    timer' = [t \in Timers |->
                LET rest == IF t \in stops THEN Cancelled(t) ELSE timer[t] IN
                IF t \in starts THEN [rest EXCEPT !.armed = TRUE] ELSE rest]

\* The state in which a timeout makes an error of it.
Awaits(t) == CASE t = "listening" -> "connecting"
               [] t = "agentJoin" -> "listening"
               [] t = "reconnect" -> "reconnecting"

Check(t) == state' = IF state = Awaits(t) THEN "error" ELSE state

Elapses(t) ==
    /\ timer[t].armed /\ timer' = [timer EXCEPT ![t].armed = FALSE] /\ Check(t)
    /\ UNCHANGED <<platform, call, ending, current, heard, crossed, outside>>

Wakes(t) ==
    /\ timer[t].woken > 0 /\ timer' = [timer EXCEPT ![t].woken = @ - 1] /\ Check(t)
    /\ UNCHANGED <<platform, call, ending, current, heard, crossed, outside>>

(***************************************************************************)
(* connect()                                                               *)
(***************************************************************************)
Under(c) == call[c] \notin {"new", "done"}
Busy == (\E c \in Connects : Under(c)) \/ \E e \in Ends : ending[e].pc = "ending"
Live(c) == room[c] \in {"joining", "joined", "reconnecting"}

\* room.connect() succeeded, whatever became of the room since.
Joined(c) == room[c] \in {"joined", "reconnecting", "ended"}

Goes(c, pc) == call' = [call EXCEPT ![c] = pc]
Errs(c) == Goes(c, "done") /\ state' = "error"

\* Start, or Retry; without an access token it ends here.
Connect(c) ==
    /\ call[c] = "new" /\ \A b \in 1..(c - 1) : call[b] # "new"
    /\ state \in {"idle", "error"}
    /\ \/ Goes(c, "token") /\ state' = "connecting"
       \/ Errs(c)
    /\ crossed' = (crossed \/ Busy \/ \E b \in Connects : Live(b) \/ events[b] # <<>>)
    /\ UNCHANGED <<platform, ending, current, heard, timer, outside>>

\* The token came: a new room takes the place of the one the session held.
OpenRoom(c) ==
    /\ call[c] \in {"token", "retoken"} /\ Goes(c, "joining")
    /\ current' = c /\ heard' = IF iOS THEN c ELSE heard
    /\ room' = [room EXCEPT ![c] = "joining"]
    /\ events' = [events EXCEPT ![c] = IF iOS THEN <<"connecting">> ELSE <<>>]
    /\ UNCHANGED <<platform, state, ending, timer, changes, crossed>>

\* 401: one refresh, and one more try.
Unauthorized(c) ==
    /\ call[c] = "token" /\ Goes(c, "refresh")
    /\ UNCHANGED <<platform, state, ending, current, heard, timer, crossed, outside>>

Refreshed(c) ==
    /\ call[c] = "refresh" /\ Goes(c, "retoken")
    /\ UNCHANGED <<platform, state, ending, current, heard, timer, crossed, outside>>

\* No token, no refresh, or the room could not be joined.  On Android the microphone may
\* fail in a room that was joined: it goes on, and its events are not collected.
ConnectFails(c) ==
    /\ \/ call[c] \in {"token", "refresh", "retoken"}
       \/ call[c] = "joining" /\ (room[c] = "refused" \/ (~iOS /\ Joined(c)))
    /\ Errs(c)
    /\ UNCHANGED <<platform, ending, current, heard, timer, crossed, outside>>

MConnected(c) ==  \* mutant: the timeout is not armed
    /\ call[c] = "joining" /\ Joined(c) /\ Goes(c, "done")
    /\ heard' = (IF iOS THEN heard ELSE c)
    /\ UNCHANGED <<platform, state, timer, ending, current, crossed, outside>>

\* Android hears the room from here on: what it sent before is lost.
Connected(c) ==
    /\ call[c] = "joining" /\ Joined(c) /\ Goes(c, "done")
    /\ Reset({"listening"}, {"listening"})
    /\ heard' = (IF iOS THEN heard ELSE c)
    /\ UNCHANGED <<platform, state, ending, current, crossed, outside>>

(***************************************************************************)
(* disconnect()                                                            *)
(***************************************************************************)
Farewell(r) ==  \* the room ends at the app's request
    IF r # 0 /\ Live(r)
    THEN /\ room' = [room EXCEPT ![r] = IF @ = "joining" THEN "refused" ELSE "ended"]
         /\ events' = [events EXCEPT ![r] = Append(@, "disconnected")]
    ELSE UNCHANGED <<room, events>>

MCleared == current' = 0 /\ state' = "idle" /\ UNCHANGED heard  \* mutant: roomDelegate is kept

Cleared == current' = 0 /\ heard' = 0 /\ state' = "idle"

\* End: on Android at one go, on iOS waiting for the room it holds, if any.
Disconnect(e) ==
    /\ ending[e].pc = "new" /\ state \notin {"idle", "error"}
    /\ Reset(Timers, {}) /\ crossed' = (crossed \/ Busy)
    /\ IF iOS /\ current # 0
       THEN /\ ending' = [ending EXCEPT ![e] = [pc |-> "ending", room |-> current]]
            /\ UNCHANGED <<current, heard, state, room, events>>
       ELSE /\ ending' = [ending EXCEPT ![e].pc = "done"] /\ Cleared /\ Farewell(current)
    /\ UNCHANGED <<platform, call, changes>>

RoomDisconnects(e) ==
    /\ ending[e].pc = "ending" /\ Live(ending[e].room) /\ Farewell(ending[e].room)
    /\ UNCHANGED <<platform, state, call, ending, current, heard, timer, changes, crossed>>

Disconnected(e) ==
    /\ ending[e].pc = "ending" /\ ~Live(ending[e].room)
    /\ ending' = [ending EXCEPT ![e].pc = "done"] /\ Cleared
    /\ UNCHANGED <<platform, call, timer, crossed, outside>>

(***************************************************************************)
(* handleConnectionState, handleAgentSpeaking and handleDisconnect, and    *)
(* the when of Android's collector                                         *)
(***************************************************************************)
Stops(e) == CASE e = "connected" -> IF iOS THEN {"reconnect", "agentJoin"}
                                    ELSE {"reconnect", "listening"}
              [] e \in {"reconnecting", "reconnected"} -> {"reconnect"}
              [] e = "disconnected" -> IF iOS THEN {"reconnect"} ELSE {"reconnect", "listening"}
              [] e = "failed" -> IF iOS THEN Timers ELSE {"reconnect", "listening"}
              [] e = "speaks" -> {"agentJoin"}
              [] OTHER -> {}

Starts(e) == CASE e = "connected" -> IF iOS THEN {"agentJoin"} ELSE {}
               [] e = "reconnecting" -> {"reconnect"}
               [] OTHER -> {}

MShown(e) ==  \* mutant: a room that is lost while the agent speaks leaves "speaking"
    CASE e \in {"connected", "reconnected"} -> "listening"
      [] e = "reconnecting" -> "reconnecting"
      [] e = "connecting" -> "connecting"
      [] e = "failed" -> "error"
      [] e = "speaks" -> "speaking"
      [] e = "quiet" -> IF state = "speaking" THEN "listening" ELSE state
      [] e = "disconnected" -> IF state \in {"error", "speaking"} THEN state
                               ELSE IF state = "reconnecting" /\ iOS THEN "error" ELSE "idle"

Shown(e) ==
    CASE e \in {"connected", "reconnected"} -> "listening"
      [] e = "reconnecting" -> "reconnecting"
      [] e = "connecting" -> "connecting"
      [] e = "failed" -> "error"
      [] e = "speaks" -> "speaking"
      [] e = "quiet" -> IF state = "speaking" THEN "listening" ELSE state
      [] e = "disconnected" -> IF state = "error" \/ (state = "reconnecting" /\ iOS) THEN "error"
                               ELSE "idle"

Handle(e) == state' = Shown(e) /\ Reset(Stops(e), Starts(e))

\* A room's next event; without a delegate or a collector it goes nowhere.
Deliver(r) ==
    /\ events[r] # <<>> /\ events' = [events EXCEPT ![r] = Tail(@)]
    /\ IF heard = r THEN Handle(Head(events[r])) ELSE UNCHANGED <<state, timer>>
    /\ UNCHANGED <<platform, call, ending, current, heard, room, changes, crossed>>

(***************************************************************************)
(* LiveKit                                                                 *)
(***************************************************************************)
Turns(r, from, to, sent) ==
    /\ room[r] \in from /\ room' = [room EXCEPT ![r] = to]
    /\ events' = [events EXCEPT ![r] = @ \o sent]
    /\ UNCHANGED <<platform, state, call, ending, current, heard, timer, crossed>>

Joins(r) == Turns(r, {"joining"}, "joined", <<"connected">>) /\ UNCHANGED changes
Refused(r) == Turns(r, {"joining"}, "refused", <<"disconnected">>) /\ UNCHANGED changes

Loses(r) == Turns(r, {"joined"}, "reconnecting", <<"reconnecting">>)
Regains(r) == Turns(r, {"reconnecting"}, "joined", <<IF iOS THEN "connected" ELSE "reconnected">>)

\* The agent talks in a joined room, and falls silent.
Speaks(r) == \E s \in {"speaks", "quiet"} : Turns(r, {"joined"}, "joined", <<s>>)

\* The room ends, by an error or cleanly; iOS tells the error apart from the new state.
Drops(r) ==
    \E sent \in IF iOS THEN {<<"disconnected">>, <<"disconnected", "failed">>}
                ELSE {<<"disconnected">>, <<"failed">>} :
        Turns(r, {"joined", "reconnecting"}, "ended", sent)

Change(r) ==
    /\ changes < MaxChanges /\ changes' = changes + 1
    /\ Loses(r) \/ Regains(r) \/ Speaks(r) \/ Drops(r)

CallStep(c) ==
    OpenRoom(c) \/ Unauthorized(c) \/ Refreshed(c) \/ ConnectFails(c) \/ Connected(c)

Next ==
    \/ \E c \in Connects : Connect(c) \/ CallStep(c) \/ Deliver(c) \/ Joins(c) \/ Refused(c)
                           \/ Change(c)
    \/ \E e \in Ends : Disconnect(e) \/ RoomDisconnects(e) \/ Disconnected(e)
    \/ \E t \in Timers : Elapses(t) \/ Wakes(t)

\* Requests return or time out, the main thread runs what it is given, timeouts run out.
Fairness ==
    /\ \A c \in Connects : WF_vars(CallStep(c)) /\ WF_vars(Deliver(c))
                           /\ WF_vars(Joins(c) \/ Refused(c))
    /\ \A e \in Ends : WF_vars(RoomDisconnects(e) \/ Disconnected(e))
    /\ \A t \in Timers : WF_vars(Elapses(t)) /\ WF_vars(Wakes(t))

Spec == Init /\ [][Next]_vars
FairSpec == Spec /\ Fairness

(***************************************************************************)
(* Properties                                                              *)
(***************************************************************************)
\* The type of the state; the session holds only rooms that were opened, and iOS hears
\* the room it holds.
TypeOK ==
    /\ platform \in Platforms
    /\ state \in {"idle", "connecting", "listening", "speaking", "reconnecting", "error"}
    /\ call \in [Connects -> {"new", "token", "refresh", "retoken", "joining", "done"}]
    /\ ending \in [Ends -> [pc: {"new", "ending", "done"}, room: {0} \cup Connects]]
    /\ current \in {0} \cup Connects /\ heard \in {0} \cup Connects
    /\ timer \in [Timers -> [armed: BOOLEAN, woken: Nat]]
    /\ room \in [Connects -> {"none", "joining", "refused", "joined", "reconnecting", "ended"}]
    /\ events \in [Connects -> Seq(Events)]
    /\ changes \in 0..MaxChanges /\ crossed \in BOOLEAN
    /\ \A c \in Connects : call[c] \in {"new", "token", "refresh", "retoken"} =>
                             room[c] = "none" /\ current # c
    /\ iOS => heard = current

\* Once the calls have ended and the events have come, the screen tells the truth about
\* the microphone: "idle" with a Start button means no room is joined, and "listening",
\* "speaking" and "reconnecting" mean the session holds one.  Where calls crossed
\* (VoiceSession.swift:133) or a Retry came before the end of a room was heard (:98) it may not.
Settled == ~Busy /\ \A c \in Connects : events[c] = <<>>
ScreenIsTrue ==
    Settled /\ ~crossed =>
      /\ state = "idle" => \A c \in Connects : ~Live(c)
      /\ state \in {"listening", "speaking"} => current # 0 /\ room[current] = "joined"
      /\ state = "reconnecting" => current # 0 /\ room[current] = "reconnecting"

\* No spinner stays: "connecting" and "reconnecting" end, whichever calls, timeouts and
\* events crossed, with a room, an error or idle (T-19-22, T-19-28).
WaitingEnds ==
    \A s \in {"connecting", "reconnecting"} : state = s ~> state # s
=============================================================================
