----------------------------- MODULE MCBriefing -----------------------------
(* An instance of Briefing for TLC, and the operators of ContextBuilder on  *)
(* small inputs.                                                            *)
EXTENDS Briefing, ContextBuilder, TLC

CONSTANTS w1, w2, google, outlook, slack

Profile(key) == [row |-> "profile", key |-> key]
Schedule(h, m) == [row |-> "config", time |-> [hour |-> h, minute |-> m]]

MCAsked == (w1 :> {Profile("tone"), Schedule(0, 0)})
           @@ (w2 :> {Profile("briefing_length"), Schedule(1, 30)})
MCKept == {[profile |-> None, config |-> None],
           [profile |-> {"tone"}, config |-> [hour |-> 0, minute |-> 30]]}
MCAccounts == {{google}, {google, slack}}

(* Three events within four instants. *)
Spans == {e \in [start: 0..3, end: 0..3] : e.start < e.end}
ASSUME ConflictsAssumption ==
    \A timed \in [1..3 -> Spans] : SortedByStart(timed) => FindConflicts(timed) = Overlapping(timed)

(* Three mails of one day, two of them in the first account. *)
Mail(sender, hours) == [sender |-> sender, recipients |-> Recipients("google", <<"me">>),
                        keywords |-> 0, sent |-> 0 - hours, thread |-> hours, plain |-> TRUE]
Box == <<Mail("boss", 23), Mail("list", 1), Mail("list", 2)>>
Mailbox(listed, gone) == [provider |-> "google", down |-> FALSE, listed |-> listed, gone |-> gone]
Ranked(gone, n) ==
    EmailPhase(<<Mailbox({1, 2}, gone), Mailbox({3}, {})>>, Box, {"boss"}, "me", 0, n)
ASSUME RankAssumption ==
    /\ Ranked({}, 1) = {1} /\ Ranked({}, 2) = {1, 2} /\ Ranked({2}, 3) = {}
    /\ RawBodies(<<Mailbox({1, 2}, {})>>, Box, Ranked({}, 3)) = {1, 2}
=============================================================================
