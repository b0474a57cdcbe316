---------------------------- MODULE ApprovalGate ----------------------------
(***************************************************************************)
(* What the approval gate promises to the user of one front end            *)
(* (.planning/PROJECT.md, ACT-04: "All external actions require explicit   *)
(* user approval"): an action is carried out only on a grant, a grant is   *)
(* the user's confirmation of the very draft then in front of the user,    *)
(* there is at most one grant at a time, and it is used at most once.      *)
(***************************************************************************)
EXTENDS Naturals

CONSTANT Drafts

VARIABLES
    offered,  \* the draft in front of the user, as a set of at most one
    granted,  \* the draft the user has confirmed and that is not yet carried out
    sent      \* sent[d]: times d was carried out

gateVars == <<offered, granted, sent>>

GateInit ==
    /\ offered = {}
    /\ granted = {}
    /\ sent = [d \in Drafts |-> 0]

\* A draft is put in front of the user: nothing is granted meanwhile.
Offer(d) ==
    /\ granted = {}
    /\ offered' = {d}
    /\ UNCHANGED <<granted, sent>>

\* The user confirms what is in front of them.
Grant(d) ==
    /\ offered = {d}
    /\ granted' = {d}
    /\ offered' = {}
    /\ UNCHANGED sent

\* The action is carried out, which uses the grant up.
Spend(d) ==
    /\ granted = {d}
    /\ granted' = {}
    /\ sent' = [sent EXCEPT ![d] = @ + 1]
    /\ UNCHANGED offered

\* The user rejects or edits, the action is refused or fails, the process dies.
Lapse ==
    /\ offered' = {}
    /\ granted' = {}
    /\ UNCHANGED sent

GateNext == Lapse \/ \E d \in Drafts : Offer(d) \/ Grant(d) \/ Spend(d)

GateSpec == GateInit /\ [][GateNext]_gateVars
=============================================================================
